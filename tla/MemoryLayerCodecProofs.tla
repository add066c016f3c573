------------------------ MODULE MemoryLayerCodecProofs ------------------------
(***************************************************************************)
(* What survives at rest: messages written and read any number of times,   *)
(* by clients of any of the three languages, and amended in between.       *)
(***************************************************************************)
EXTENDS MemoryLayerCodec, SequenceTheorems, TLAPS

\* The message m is w, and what MemoryLayer knows of it.
Extends(m, w) == Keeps(m, w) /\ Fills(m, w)

\* The message in hand extends what was composed, and so does what any client
\* would read from the row.
CodecInv ==
    /\ CodecTypeOK
    /\ held # None => Extends(held, was)
    /\ row # None /\ rowWas # None =>
          \A l \in Client : MayRead(l, row) => Extends(FromMemoryLayerMessage(l, row), rowWas)

----------------------------------------------------------------------------
\* Dictionaries.

IsFcn(f) == f = [k \in DOMAIN f |-> f[k]]

LEMMA SameFcn ==
    ASSUME NEW f, NEW g, IsFcn(f), IsFcn(g), DOMAIN f = DOMAIN g,
           \A k \in DOMAIN f : f[k] = g[k]
    PROVE  f = g
  BY DEF IsFcn

LEMMA OverFacts ==
    ASSUME NEW d, NEW e
    PROVE  /\ IsFcn(Over(d, e)) /\ DOMAIN Over(d, e) = DOMAIN d \cup DOMAIN e
           /\ \A k \in DOMAIN e : Over(d, e)[k] = e[k]
           /\ \A k \in DOMAIN d : k \notin DOMAIN e => Over(d, e)[k] = d[k]
  BY DEF Over, IsFcn

LEMMA EntryFacts ==
    ASSUME NEW k, NEW v
    PROVE  IsFcn(Entry(k, v)) /\ DOMAIN Entry(k, v) = {k} /\ Entry(k, v)[k] = v
  BY DEF Entry, IsFcn

LEMMA EmptyFacts == IsFcn(EmptyDict) /\ DOMAIN EmptyDict = {}
  BY DEF EmptyDict, IsFcn

LEMMA OptionalFacts ==
    ASSUME NEW k, NEW v, NEW present \in BOOLEAN
    PROVE  /\ IsFcn(OptionalEntry(k, v, present))
           /\ DOMAIN OptionalEntry(k, v, present) = IF present THEN {k} ELSE {}
           /\ present => OptionalEntry(k, v, present)[k] = v
  BY EntryFacts, EmptyFacts DEF OptionalEntry

LEMMA WithoutFacts ==
    ASSUME NEW d, NEW keys
    PROVE  /\ IsFcn(Without(d, keys)) /\ DOMAIN Without(d, keys) = DOMAIN d \ keys
           /\ \A k \in DOMAIN d \ keys : Without(d, keys)[k] = d[k]
  BY DEF Without, Restrict, IsFcn

LEMMA NonNullFacts ==
    ASSUME NEW d
    PROVE  /\ IsFcn(NonNull(d)) /\ DOMAIN NonNull(d) = {k \in DOMAIN d : d[k] # None}
           /\ \A k \in DOMAIN NonNull(d) : NonNull(d)[k] = d[k]
  BY DEF NonNull, Restrict, IsFcn

LEMMA LookupOver ==
    ASSUME NEW d, NEW e, NEW k
    PROVE  Lookup(Over(d, e), k) = IF k \in DOMAIN e THEN e[k] ELSE Lookup(d, k)
  BY DEF Lookup, Over

LEMMA LookupWithout ==
    ASSUME NEW d, NEW keys, NEW k
    PROVE  Lookup(Without(d, keys), k) = IF k \in keys THEN None ELSE Lookup(d, k)
<1>1. DOMAIN Without(d, keys) = DOMAIN d \ keys
  BY WithoutFacts
<1>2. CASE k \in DOMAIN d \ keys
  <2>1. Without(d, keys)[k] = d[k]
    BY <1>2, WithoutFacts
  <2> QED  BY <1>1, <1>2, <2>1 DEF Lookup
<1>3. CASE k \notin DOMAIN d \ keys
  BY <1>1, <1>3 DEF Lookup
<1> QED  BY <1>2, <1>3

LEMMA LookupNonNull ==
    ASSUME NEW d, NEW k
    PROVE  Lookup(NonNull(d), k) = Lookup(d, k)
  BY NonNullFacts DEF Lookup

LEMMA LookupEntry ==
    ASSUME NEW j, NEW v, NEW k
    PROVE  Lookup(Entry(j, v), k) = IF k = j THEN v ELSE None
  BY DEF Lookup, Entry

LEMMA LookupEmpty ==
    ASSUME NEW k
    PROVE  Lookup(EmptyDict, k) = None
  BY DEF Lookup, EmptyDict

\* Two dictionaries with the same lookups have the same keys that are not null.
LEMMA SameNonNull ==
    ASSUME NEW d, NEW e, \A k \in DOMAIN d \cup DOMAIN e : Lookup(d, k) = Lookup(e, k)
    PROVE  NonNull(d) = NonNull(e)
<1>1. /\ IsFcn(NonNull(d)) /\ DOMAIN NonNull(d) = {k \in DOMAIN d : d[k] # None}
      /\ \A k \in DOMAIN NonNull(d) : NonNull(d)[k] = d[k]
  BY NonNullFacts
<1>2. /\ IsFcn(NonNull(e)) /\ DOMAIN NonNull(e) = {k \in DOMAIN e : e[k] # None}
      /\ \A k \in DOMAIN NonNull(e) : NonNull(e)[k] = e[k]
  BY NonNullFacts

<1>3. ASSUME NEW k \in DOMAIN d, d[k] # None
      PROVE  k \in DOMAIN e /\ e[k] = d[k]
  BY <1>3 DEF Lookup
<1>4. ASSUME NEW k \in DOMAIN e, e[k] # None
      PROVE  k \in DOMAIN d /\ e[k] = d[k]
  BY <1>4 DEF Lookup
<1>5. DOMAIN NonNull(d) = DOMAIN NonNull(e)
  BY <1>1, <1>2, <1>3, <1>4
<1>6. \A k \in DOMAIN NonNull(d) : NonNull(d)[k] = NonNull(e)[k]
  BY <1>1, <1>2, <1>3, <1>5
<1> QED  BY <1>1, <1>2, <1>5, <1>6, SameFcn

LEMMA LookupOptional ==
    ASSUME NEW j, NEW v, NEW present \in BOOLEAN, NEW k
    PROVE  Lookup(OptionalEntry(j, v, present), k) = IF present /\ k = j THEN v ELSE None
<1>1. CASE present
  BY <1>1 DEF Lookup, OptionalEntry, Entry
<1>2. CASE ~present
  BY <1>2 DEF Lookup, OptionalEntry, EmptyDict
<1> QED  BY <1>1, <1>2

\* None and NotADict are none of them.
LEMMA DictNotNone ==
    ASSUME NEW d, DOMAIN d \subseteq Key,
           d \in [DOMAIN d -> Value \cup {None} \cup Dicts(Value \cup {None})]
    PROVE  d # None /\ d # NotADict
  BY CodecAssumption

LEMMA AddrNotNone ==
    ASSUME NEW a, IsAddr(a)
    PROVE  a # None /\ a # NotADict /\ IsFcn(a) /\ a \in Dicts(Value \cup {None})
<1>1. DOMAIN a \subseteq Key /\ a \in [DOMAIN a -> Value]
  BY DEF IsAddr, IsDict, Name
<1>2. a \in [DOMAIN a -> Value \cup {None}]
  BY <1>1
<1>3. a \in [DOMAIN a -> Value \cup {None} \cup Dicts(Value \cup {None})]
  BY <1>1
<1> QED  BY <1>1, <1>2, <1>3, DictNotNone DEF Dicts, IsFcn

LEMMA NamespaceNotNone ==
    ASSUME NEW d, IsNamespace(d)
    PROVE  d # None /\ d # NotADict /\ IsFcn(d)
<1>1. DOMAIN d \subseteq Key /\ IsFcn(d)
  BY DEF IsNamespace, IsFcn
<1>2. ASSUME NEW k \in DOMAIN d
      PROVE  d[k] \in Value \cup {None} \cup Dicts(Value \cup {None})
  <2>1. CASE k = "addr"
    BY <2>1, AddrNotNone DEF IsNamespace
  <2>2. CASE k = "ref"
    <3>1. CASE d[k] = None
      BY <3>1
    <3>2. CASE d[k] # None
      <4>1. IsDict(d[k], Value)
        BY <2>2, <3>2 DEF IsNamespace
      <4>2. DOMAIN d[k] \subseteq Key /\ d[k] \in [DOMAIN d[k] -> Value \cup {None}]
        BY <4>1 DEF IsDict
      <4> QED  BY <4>2 DEF Dicts
    <3> QED  BY <3>1, <3>2
  <2>3. CASE k # "addr" /\ k # "ref"
    BY <2>3 DEF IsNamespace, Name
  <2> QED  BY <2>1, <2>2, <2>3
<1>3. d \in [DOMAIN d -> Value \cup {None} \cup Dicts(Value \cup {None})]
  BY <1>1, <1>2 DEF IsFcn
<1> QED  BY <1>1, <1>3, DictNotNone

LEMMA NamespaceFacts ==
    ASSUME NEW meta, IsMeta(meta)
    PROVE  /\ IsNamespace(Namespace(meta)) /\ IsFcn(Namespace(meta)) /\ IsFcn(meta)
           /\ Namespace(meta) # EmptyDict =>
                 HasNamespace(meta) /\ "scitrera" \in DOMAIN meta
<1>1. IsNamespace(EmptyDict)
  BY EmptyFacts DEF IsNamespace, IsFcn
<1>2. IsNamespace(Namespace(meta))
  BY <1>1 DEF Namespace, IsMeta
<1> QED  BY <1>2, NamespaceNotNone DEF Namespace, HasNamespace, Lookup, IsMeta, IsFcn

----------------------------------------------------------------------------
\* Parts and blocks.

LEMMA ValueFacts ==
    /\ {"type", "text", "note", "thread_id", "workspace_id"} \cup Reserved \subseteq Key
    /\ "" \in Value /\ Name \subseteq Value /\ None \notin Value
    /\ Absent \notin Value \cup {None}
    /\ {"1.0", "assistant", "text", "unknown"} \cup Workspace \subseteq Name
  BY CodecAssumption DEF Name

\* A part made of a block has the block's type, its data, and its text unless data
\* has one.
LEMMA PartMade ==
    ASSUME NEW b, "type" \notin DOMAIN b.data
    PROVE  LET kind == IF b.type = None THEN "unknown" ELSE b.type
               p    == BlockToPartMap(b)
           IN  /\ IsFcn(p)
               /\ DOMAIN p = {"type"} \cup DOMAIN b.data
                             \cup (IF kind = "text" \/ Given(b.text) THEN {"text"} ELSE {})
               /\ p["type"] = kind
               /\ \A x \in DOMAIN b.data : p[x] = b.data[x]
               /\ "text" \notin DOMAIN b.data =>
                     /\ kind = "text" => p["text"] = GivenOr(b.text, "")
                     /\ kind # "text" /\ Given(b.text) => p["text"] = b.text
<1> DEFINE kind   == IF b.type = None THEN "unknown" ELSE b.type
           filled == GivenOr(b.text, "")
           given  == OptionalEntry("text", filled, kind = "text")
           outer  == OptionalEntry("text", b.text, Given(b.text))
           start  == Over(Entry("type", kind), given)
           inner  == Over(start, b.data)
           p      == BlockToPartMap(b)
<1>1. p = Over(outer, inner)
  BY DEF BlockToPartMap
<1> HIDE DEF kind, filled, p
<1>2. /\ DOMAIN given = IF kind = "text" THEN {"text"} ELSE {}
      /\ kind = "text" => given["text"] = filled
  BY DEF OptionalEntry, Entry, EmptyDict
<1>3. /\ DOMAIN outer = IF Given(b.text) THEN {"text"} ELSE {}
      /\ Given(b.text) => outer["text"] = b.text
  BY DEF OptionalEntry, Entry, EmptyDict
<1> HIDE DEF given, outer
<1>4. /\ DOMAIN start = {"type"} \cup DOMAIN given
      /\ start["type"] = kind
      /\ "text" \in DOMAIN given => start["text"] = given["text"]
  BY <1>2 DEF Over, Entry
<1> HIDE DEF start
<1>5. /\ DOMAIN inner = DOMAIN start \cup DOMAIN b.data
      /\ \A x \in DOMAIN b.data : inner[x] = b.data[x]
      /\ \A x \in DOMAIN start : x \notin DOMAIN b.data => inner[x] = start[x]
  BY DEF Over
<1> HIDE DEF inner
<1>6. /\ IsFcn(p) /\ DOMAIN p = DOMAIN outer \cup DOMAIN inner
      /\ \A x \in DOMAIN inner : p[x] = inner[x]
      /\ \A x \in DOMAIN outer : x \notin DOMAIN inner => p[x] = outer[x]
  BY <1>1 DEF Over, IsFcn
<1>7. p["type"] = kind
  BY <1>4, <1>5, <1>6
<1>8. \A x \in DOMAIN b.data : p[x] = b.data[x]
  BY <1>5, <1>6
<1>9. "text" \notin DOMAIN b.data =>
         /\ kind = "text" => p["text"] = filled
         /\ kind # "text" /\ Given(b.text) => p["text"] = b.text
  BY <1>2, <1>3, <1>4, <1>5, <1>6
<1>10. DOMAIN p = {"type"} \cup DOMAIN b.data
                  \cup (IF kind = "text" \/ Given(b.text) THEN {"text"} ELSE {})
  BY <1>2, <1>3, <1>4, <1>5, <1>6
<1> QED  BY <1>6, <1>7, <1>8, <1>9, <1>10 DEF kind, filled, p

LEMMA DefaultsFacts ==
    ASSUME NEW t
    PROVE  /\ DOMAIN Defaults(t) \subseteq {"note", "text"}
           /\ \A x \in DOMAIN Defaults(t) : Defaults(t)[x] \in {None, ""}
           /\ t \in Textual => "text" \in DOMAIN Defaults(t) /\ Defaults(t)["text"] = ""
           /\ t \notin Textual => Lookup(Defaults(t), "text") = None
           /\ Lookup(Defaults(t), "note") = None
           /\ t = "unknown" => DOMAIN Defaults(t) = {}
<1> DEFINE note  == OptionalEntry("note", None, t # "unknown")
           empty == OptionalEntry("text", "", t \in Textual)
           null  == OptionalEntry("text", None, t = "feedback")
           texts == Over(empty, null)
<1>1. Defaults(t) = Over(note, texts)
  BY DEF Defaults
<1>2. /\ DOMAIN note \subseteq {"note"} /\ \A x \in DOMAIN note : note[x] = None
      /\ t = "unknown" => DOMAIN note = {}
      /\ DOMAIN empty = (IF t \in Textual THEN {"text"} ELSE {})
      /\ \A x \in DOMAIN empty : empty[x] = ""
      /\ DOMAIN null = (IF t = "feedback" THEN {"text"} ELSE {})
      /\ \A x \in DOMAIN null : null[x] = None
  BY DEF OptionalEntry, Entry, EmptyDict
<1> HIDE DEF note, empty, null
<1>3. DOMAIN texts = DOMAIN empty \cup DOMAIN null
  BY DEF Over
<1>4. \A x \in DOMAIN texts : texts[x] = IF t = "feedback" THEN None ELSE ""
  BY <1>2, <1>3 DEF Over
<1> HIDE DEF texts
<1>5. /\ DOMAIN Defaults(t) = DOMAIN note \cup DOMAIN texts
      /\ \A x \in DOMAIN texts : Defaults(t)[x] = texts[x]
      /\ \A x \in DOMAIN note : x \notin DOMAIN texts => Defaults(t)[x] = note[x]
  BY <1>1 DEF Over
<1>6. "feedback" \notin Textual /\ "unknown" \notin Textual
  BY DEF Textual
<1> HIDE DEF Textual
<1>7. t = "unknown" => DOMAIN Defaults(t) = {}
  BY <1>2, <1>3, <1>5, <1>6
<1> QED  BY <1>2, <1>3, <1>4, <1>5, <1>6, <1>7, ZenonT(60) DEF Lookup

\* Python's part has the same keys, and defaults where they are missing.
LEMMA PartOfFacts ==
    ASSUME NEW b, NEW k
    PROVE  LET p == BlockToPartMap(b)
               q == PartOf(k, b)
           IN  /\ DOMAIN p \subseteq DOMAIN q /\ \A x \in DOMAIN p : q[x] = p[x]
               /\ \A x \in DOMAIN q \ DOMAIN p :
                     x \in DOMAIN Defaults(p["type"]) /\ q[x] = Defaults(p["type"])[x]
               /\ IsFcn(p) => IsFcn(q)
<1> DEFINE p == BlockToPartMap(b)
           d == Defaults(p["type"])
<1>1. PartOf(k, b) = IF k = "python" THEN Over(d, p) ELSE p
  BY DEF PartOf
<1> HIDE DEF p, d
<1>2. /\ IsFcn(Over(d, p)) /\ DOMAIN Over(d, p) = DOMAIN d \cup DOMAIN p
      /\ \A x \in DOMAIN p : Over(d, p)[x] = p[x]
      /\ \A x \in DOMAIN d : x \notin DOMAIN p => Over(d, p)[x] = d[x]
  BY OverFacts
<1>3. CASE k = "python"
  BY <1>1, <1>2, <1>3 DEF p, d
<1>4. CASE k # "python"
  BY <1>1, <1>4 DEF p, d
<1> QED  BY <1>3, <1>4

\* What a reader makes of a block is a part, ...
LEMMA PartRead ==
    ASSUME NEW b, NEW k, IsBlock(b)
    PROVE  IsPart(PartOf(k, b))
<1> DEFINE kind   == IF b.type = None THEN "unknown" ELSE b.type
           filled == GivenOr(b.text, "")
           p      == BlockToPartMap(b)
           d      == Defaults(kind)
           q      == PartOf(k, b)
<1>1. /\ b.type \in Name \cup {None} /\ b.text \in Value \cup {None, Absent}
      /\ DOMAIN b.data \subseteq Key /\ "type" \notin DOMAIN b.data
      /\ \A x \in DOMAIN b.data : b.data[x] \in Value \cup {None}
      /\ b.type \in Textual /\ "text" \in DOMAIN b.data => b.data["text"] # None
  BY DEF IsBlock, IsDict
<1>2. /\ IsFcn(p)
      /\ DOMAIN p = {"type"} \cup DOMAIN b.data
                    \cup (IF kind = "text" \/ Given(b.text) THEN {"text"} ELSE {})
      /\ p["type"] = kind
      /\ \A x \in DOMAIN b.data : p[x] = b.data[x]
      /\ "text" \notin DOMAIN b.data =>
            /\ kind = "text" => p["text"] = filled
            /\ kind # "text" /\ Given(b.text) => p["text"] = b.text
  BY <1>1, PartMade
<1>3. kind \in Name /\ (kind \in Textual => b.type \in Textual)
  BY <1>1, ValueFacts DEF Textual
<1>4. filled \in Value
  BY <1>1, ValueFacts DEF GivenOr, Given
<1> HIDE DEF p, kind, filled
<1>5. /\ DOMAIN p \subseteq DOMAIN q /\ \A x \in DOMAIN p : q[x] = p[x]
      /\ \A x \in DOMAIN q \ DOMAIN p : x \in DOMAIN d /\ q[x] = d[x]
      /\ IsFcn(q)
  BY <1>2, PartOfFacts DEF p
<1>6. /\ DOMAIN d \subseteq {"note", "text"} /\ \A x \in DOMAIN d : d[x] \in {None, ""}
      /\ kind \in Textual => "text" \in DOMAIN d /\ d["text"] = ""
  BY DefaultsFacts
<1> HIDE DEF d, q
<1>7. "text" \notin DOMAIN b.data /\ "text" \in DOMAIN p =>
         /\ kind = "text" => p["text"] = filled
         /\ kind # "text" => b.text \in Value /\ p["text"] = b.text
  BY <1>1, <1>2 DEF Given
<1>8. ASSUME NEW x \in DOMAIN p
      PROVE  x \in Key /\ p[x] \in Value \cup {None}
  <2>1. CASE x \in DOMAIN b.data
    BY <1>1, <1>2, <2>1
  <2>2. CASE x = "type"
    BY <1>2, <1>3, <2>2, ValueFacts
  <2>3. CASE x = "text" /\ x \notin DOMAIN b.data
    BY <1>1, <1>4, <1>7, <1>8, <2>3, ValueFacts
  <2> QED  BY <1>2, <2>1, <2>2, <2>3
<1>9. ASSUME NEW x \in DOMAIN q
      PROVE  x \in Key /\ q[x] \in Value \cup {None}
  BY <1>5, <1>6, <1>8, <1>9, ValueFacts
<1>10. IsDict(q, Value \cup {None})
  BY <1>5, <1>9 DEF IsDict, IsFcn
<1>11. "type" \in DOMAIN q /\ q["type"] = kind
  BY <1>2, <1>5
<1>12. kind \in Textual /\ "text" \in DOMAIN q => q["text"] # None
  <2> SUFFICES ASSUME kind \in Textual, "text" \in DOMAIN q
               PROVE  q["text"] # None
    OBVIOUS
  <2>1. CASE "text" \notin DOMAIN p
    BY <1>5, <1>6, <2>1, ValueFacts
  <2>2. CASE "text" \in DOMAIN b.data
    BY <1>1, <1>2, <1>3, <1>5, <2>2
  <2>3. CASE "text" \in DOMAIN p /\ "text" \notin DOMAIN b.data
    BY <1>4, <1>5, <1>7, <2>3, ValueFacts
  <2> QED  BY <2>1, <2>2, <2>3
<1>13. IsPart(q)
  BY <1>3, <1>10, <1>11, <1>12 DEF IsPart, Lookup
<1> QED  BY <1>13 DEF q

\* ... and says the same whatever the reader's language.
LEMMA SamePart ==
    ASSUME NEW b, NEW k, IsFcn(BlockToPartMap(b)), "type" \in DOMAIN BlockToPartMap(b)
    PROVE  Full(PartOf(k, b)) = Full(BlockToPartMap(b))
<1> DEFINE p == BlockToPartMap(b)
           q == PartOf(k, b)
           d == Defaults(p["type"])
<1>1. /\ DOMAIN p \subseteq DOMAIN q /\ \A x \in DOMAIN p : q[x] = p[x]
      /\ \A x \in DOMAIN q \ DOMAIN p : x \in DOMAIN d /\ q[x] = d[x]
  BY PartOfFacts
<1>2. q["type"] = p["type"]
  BY <1>1
<1> HIDE DEF p, q
<1>3. CASE p["type"] = "unknown"
  <2>1. DOMAIN d = {}
    BY <1>3, DefaultsFacts
  <2>2. IsFcn(p) /\ IsFcn(q)
    BY PartOfFacts DEF p, q
  <2> HIDE DEF d
  <2>3. p = q
    BY <1>1, <2>1, <2>2, SameFcn
  <2> QED  BY <2>3 DEF p, q
<1> SUFFICES ASSUME p["type"] # "unknown"
             PROVE  Full(q) = Full(p)
  BY <1>3 DEF p, q
<1>6. /\ Full(p) = NonNull(Over(d, p)) /\ Full(q) = NonNull(Over(d, q))
  BY <1>2 DEF Full
<1> HIDE DEF d
<1>4. ASSUME NEW x
      PROVE  Lookup(Over(d, q), x) = Lookup(Over(d, p), x)
  BY <1>1 DEF Lookup, Over
<1>5. NonNull(Over(d, q)) = NonNull(Over(d, p))
  BY <1>4, SameNonNull
<1> QED  BY <1>5, <1>6

\* What a writer makes of a part is a block with what the part says, ...
LEMMA BlockWritten ==
    ASSUME NEW p, NEW l, IsPart(p)
    PROVE  LET b == PartToMLContent(l, p)
           IN  /\ IsBlock(b) /\ b.type = p["type"]
               /\ \A x \in DOMAIN b.data : x \in DOMAIN p /\ b.data[x] = p[x]
               /\ \A x \in DOMAIN p : p[x] # None /\ x \notin {"type", "text"} => x \in DOMAIN b.data
               /\ p["type"] = "text" =>
                     /\ "text" \notin DOMAIN b.data
                     /\ b.text = IF "text" \in DOMAIN p THEN p["text"] ELSE ""
               /\ p["type"] # "text" =>
                     /\ b.text = Absent
                     /\ "text" \in DOMAIN p /\ p["text"] # None => "text" \in DOMAIN b.data
                     /\ l = "go" \/ NonNull(p) = p => DOMAIN b.data = DOMAIN p \ {"type"}
<1> DEFINE dump  == IF l = "go" THEN p ELSE NonNull(p)
           b     == PartToMLContent(l, p)
           kind  == p["type"]
           given == OrElse(Lookup(dump, "text"), "")
           whole == Without(dump, {"type"})
           rest  == Without(dump, {"type", "text"})
<1>1. /\ IsFcn(p) /\ DOMAIN p \subseteq Key
      /\ \A x \in DOMAIN p : p[x] \in Value \cup {None}
      /\ "type" \in DOMAIN p /\ kind \in Name /\ kind # None
      /\ kind \in Textual /\ "text" \in DOMAIN p => p["text"] # None
  BY ValueFacts DEF IsPart, IsDict, IsFcn, Lookup
<1>2. /\ DOMAIN dump \subseteq DOMAIN p /\ \A x \in DOMAIN dump : dump[x] = p[x]
      /\ \A x \in DOMAIN p : p[x] # None => x \in DOMAIN dump
  BY NonNullFacts
<1>11. l = "go" \/ NonNull(p) = p => dump = p
  OBVIOUS
<1>3. b = BlockOf(dump)
  BY DEF PartToMLContent
<1> HIDE DEF dump
<1>4. dump["type"] = kind
  BY <1>1, <1>2
<1>5. /\ IsFcn(whole) /\ DOMAIN whole = DOMAIN dump \ {"type"}
      /\ \A x \in DOMAIN whole : whole[x] = dump[x]
      /\ IsFcn(rest) /\ DOMAIN rest = DOMAIN dump \ {"type", "text"}
      /\ \A x \in DOMAIN rest : rest[x] = dump[x]
  BY DEF Without, Restrict, IsFcn
<1>6. b = IF kind = "text" THEN [type |-> "text", text |-> given, data |-> rest]
          ELSE [type |-> kind, text |-> Absent, data |-> whole]
  BY <1>3, <1>4 DEF BlockOf
<1> HIDE DEF b, kind, whole, rest
<1>7. kind = "text" => given = (IF "text" \in DOMAIN p THEN p["text"] ELSE "") /\ given \in Value
  <2> SUFFICES ASSUME kind = "text"
               PROVE  given = (IF "text" \in DOMAIN p THEN p["text"] ELSE "") /\ given \in Value
    OBVIOUS
  <2>1. "text" \in Textual
    BY DEF Textual
  <2>2. CASE "text" \in DOMAIN p
    <3>1. "text" \in DOMAIN dump /\ dump["text"] = p["text"] /\ p["text"] # None
      BY <1>1, <1>2, <2>1, <2>2
    <3> QED  BY <1>1, <2>2, <3>1 DEF Lookup, OrElse
  <2>3. CASE "text" \notin DOMAIN p
    BY <1>2, <2>3, ValueFacts DEF Lookup, OrElse
  <2> QED  BY <2>2, <2>3
<1> HIDE DEF given
<1>8. /\ IsDict(whole, Value \cup {None}) /\ "type" \notin DOMAIN whole
      /\ IsDict(rest, Value \cup {None}) /\ "type" \notin DOMAIN rest
      /\ "text" \notin DOMAIN rest
  BY <1>1, <1>2, <1>5 DEF IsDict, IsFcn
<1>9. CASE kind = "text"
  <2>1. /\ b = [type |-> b.type, text |-> b.text, data |-> b.data]
        /\ b.type = kind /\ b.text = given /\ b.data = rest
    BY <1>6, <1>9
  <2>2. IsBlock(b)
    BY <1>1, <1>7, <1>8, <1>9, <2>1 DEF IsBlock
  <2>3. /\ \A x \in DOMAIN b.data : x \in DOMAIN p /\ b.data[x] = p[x]
        /\ \A x \in DOMAIN p : p[x] # None /\ x \notin {"type", "text"} => x \in DOMAIN b.data
    BY <1>2, <1>5, <2>1
  <2>4. "text" \notin DOMAIN b.data /\ b.text = IF "text" \in DOMAIN p THEN p["text"] ELSE ""
    BY <1>7, <1>8, <1>9, <2>1
  <2> QED  BY <1>9, <2>1, <2>2, <2>3, <2>4 DEF b, kind
<1>10. CASE kind # "text"
  <2>1. /\ b = [type |-> b.type, text |-> b.text, data |-> b.data]
        /\ b.type = kind /\ b.text = Absent /\ b.data = whole
    BY <1>6, <1>10
  <2>2. /\ \A x \in DOMAIN b.data : x \in DOMAIN p /\ b.data[x] = p[x]
        /\ \A x \in DOMAIN p : p[x] # None /\ x # "type" => x \in DOMAIN b.data
    BY <1>2, <1>5, <2>1
  <2>3. kind \in Textual /\ "text" \in DOMAIN b.data => b.data["text"] # None
    BY <1>1, <2>2
  <2>4. IsBlock(b)
    BY <1>1, <1>8, <2>1, <2>3, ValueFacts DEF IsBlock
  <2>5. l = "go" \/ NonNull(p) = p => DOMAIN b.data = DOMAIN p \ {"type"}
    BY <1>5, <1>11, <2>1
  <2> QED  BY <1>10, <2>1, <2>2, <2>4, <2>5 DEF b, kind
<1> QED  BY <1>9, <1>10

\* ... from which any reader makes a part that says the same.
LEMMA PartRoundTrip ==
    ASSUME NEW p, NEW l, NEW k, IsPart(p), l = "go" \/ NoNulls(p)
    PROVE  Full(PartOf(k, PartToMLContent(l, p))) = Full(p)
<1> DEFINE b    == PartToMLContent(l, p)
           q    == BlockToPartMap(b)
           kind == p["type"]
           d    == Defaults(kind)
<1>1. /\ "type" \in DOMAIN p /\ kind # None
      /\ kind \in Textual /\ "text" \in DOMAIN p => p["text"] # None
  BY ValueFacts DEF IsPart, Lookup
<1>2. /\ IsBlock(b) /\ b.type = p["type"]
      /\ \A x \in DOMAIN b.data : x \in DOMAIN p /\ b.data[x] = p[x]
      /\ \A x \in DOMAIN p : p[x] # None /\ x \notin {"type", "text"} => x \in DOMAIN b.data
      /\ p["type"] = "text" =>
            /\ "text" \notin DOMAIN b.data
            /\ b.text = IF "text" \in DOMAIN p THEN p["text"] ELSE ""
      /\ p["type"] # "text" =>
            /\ b.text = Absent
            /\ "text" \in DOMAIN p /\ p["text"] # None => "text" \in DOMAIN b.data
            /\ l = "go" \/ NonNull(p) = p => DOMAIN b.data = DOMAIN p \ {"type"}
  BY BlockWritten
<1>3. "type" \notin DOMAIN b.data
  BY <1>2 DEF IsBlock
<1> HIDE DEF b
<1>4. (IF b.type = None THEN "unknown" ELSE b.type) = kind
  BY <1>1, <1>2
<1>5. /\ IsFcn(q) /\ q["type"] = kind
      /\ DOMAIN q = {"type"} \cup DOMAIN b.data
                    \cup (IF kind = "text" \/ Given(b.text) THEN {"text"} ELSE {})
      /\ \A x \in DOMAIN b.data : q[x] = b.data[x]
      /\ "text" \notin DOMAIN b.data /\ kind = "text" => q["text"] = GivenOr(b.text, "")
  BY <1>3, <1>4, PartMade
<1> HIDE DEF q
<1>6. Full(PartOf(k, b)) = Full(q)
  BY <1>5, SamePart DEF q
<1> HIDE DEF kind
<1>11. CASE kind = "unknown"
  <2>1. DOMAIN b.data = DOMAIN p \ {"type"} /\ b.text = Absent
    BY <1>2, <1>11 DEF NoNulls, kind
  <2>2. DOMAIN q = DOMAIN p
    BY <1>1, <1>5, <1>11, <2>1 DEF Given
  <2>3. \A x \in DOMAIN q : q[x] = p[x]
    BY <1>2, <1>5, <2>1, <2>2 DEF kind
  <2>4. IsFcn(p)
    BY DEF IsPart, IsDict, IsFcn
  <2>5. q = p
    BY <1>5, <2>2, <2>3, <2>4, SameFcn
  <2> QED  BY <1>6, <2>5 DEF b
<1> SUFFICES ASSUME kind # "unknown"
             PROVE  Full(q) = Full(p)
  BY <1>6, <1>11 DEF b
<1>7. /\ Full(q) = NonNull(Over(d, q)) /\ Full(p) = NonNull(Over(d, p))
  BY <1>5 DEF Full, kind
<1>8. /\ \A x : x \notin {"type", "text"} => Lookup(d, x) = None
      /\ kind \in Textual => "text" \in DOMAIN d /\ d["text"] = ""
      /\ kind \notin Textual => Lookup(d, "text") = None
  BY DefaultsFacts DEF Lookup
<1> HIDE DEF d
<1>9. ASSUME NEW x
      PROVE  Lookup(Over(d, q), x) = Lookup(Over(d, p), x)
  <2>1. /\ Lookup(Over(d, q), x) = IF x \in DOMAIN q THEN q[x] ELSE Lookup(d, x)
        /\ Lookup(Over(d, p), x) = IF x \in DOMAIN p THEN p[x] ELSE Lookup(d, x)
    BY LookupOver
  <2>2. CASE x = "type"
    BY <1>1, <1>5, <2>1, <2>2 DEF kind
  <2>3. CASE x \notin {"type", "text"}
    <3>1. x \in DOMAIN q <=> x \in DOMAIN b.data
      BY <1>5, <2>3
    <3>2. x \in DOMAIN b.data => x \in DOMAIN p /\ q[x] = p[x]
      BY <1>2, <1>5
    <3>3. x \in DOMAIN p /\ x \notin DOMAIN b.data => p[x] = None
      BY <1>2, <2>3
    <3> QED  BY <1>8, <2>1, <2>3, <3>1, <3>2, <3>3
  <2>4. CASE x = "text" /\ kind = "text"
    <3>1. "text" \in Textual
      BY DEF Textual
    <3>5. "text" \in DOMAIN p => p["text"] \in Value
      BY <1>1, <2>4, <3>1 DEF IsPart, IsDict, kind
    <3>4. b.text \in Value /\ Given(b.text)
      <4>1. b.text \in Value
        BY <1>2, <2>4, <3>5, ValueFacts DEF kind
      <4> QED  BY <4>1, ValueFacts DEF Given
    <3>2. "text" \in DOMAIN q /\ q["text"] = IF "text" \in DOMAIN p THEN p["text"] ELSE ""
      BY <1>1, <1>2, <1>5, <2>4, <3>1, <3>4 DEF GivenOr, kind
    <3>3. d["text"] = "" /\ "text" \in DOMAIN d
      BY <1>8, <2>4, <3>1
    <3> QED  BY <2>1, <2>4, <3>2, <3>3 DEF Lookup
  <2>5. CASE x = "text" /\ kind # "text"
    <3>1. "text" \in DOMAIN q <=> "text" \in DOMAIN b.data
      BY <1>2, <1>5, <2>5 DEF kind, Given
    <3>2. "text" \in DOMAIN b.data => "text" \in DOMAIN p /\ q["text"] = p["text"]
      BY <1>2, <1>5
    <3>3. "text" \in DOMAIN p /\ "text" \notin DOMAIN b.data => p["text"] = None /\ kind \notin Textual
      BY <1>1, <1>2, <2>5 DEF kind
    <3> QED  BY <1>8, <2>1, <2>5, <3>1, <3>2, <3>3
  <2> QED  BY <2>2, <2>3, <2>4, <2>5
<1>10. NonNull(Over(d, q)) = NonNull(Over(d, p))
  BY <1>9, SameNonNull
<1> QED  BY <1>7, <1>10

----------------------------------------------------------------------------
\* Contents.

\* A function over the places of a sequence is a sequence of that length.
LEMMA SeqOver ==
    ASSUME NEW s, IsSeq(s), NEW f, f = [i \in DOMAIN s |-> f[i]]
    PROVE  IsSeq(f) /\ Len(f) = Len(s) /\ DOMAIN f = DOMAIN s
<1> DEFINE n == Len(s)
           T == {f[i] : i \in DOMAIN f}
<1>1. n \in Nat /\ DOMAIN s = 1..n
  BY LenProperties DEF IsSeq
<1> HIDE DEF n
<1>2. f \in [1..n -> T]
  BY <1>1
<1> HIDE DEF T
<1>3. f \in Seq(T)
  BY <1>1, <1>2, SeqDef
<1>4. Len(f) = n
  BY <1>1, <1>2, <1>3, LenProperties
<1> QED  BY <1>1, <1>3, <1>4 DEF IsSeq, T, n

IsContent(c) == IsSeq(c) /\ \A i \in DOMAIN c : IsPart(c[i])

\* Whatever a row holds is read as parts ...
LEMMA ContentRead ==
    ASSUME NEW r, NEW k, IsRow(r)
    PROVE  IsContent(MLContentToParts(k, r.content))
<1> DEFINE c == MLContentToParts(k, r.content)
<1>1. CASE r.content.string = None
  <2>1. c = [i \in DOMAIN r.content.blocks |-> PartOf(k, r.content.blocks[i])]
    BY <1>1 DEF MLContentToParts
  <2> HIDE DEF c
  <2>2. IsSeq(r.content.blocks) /\ \A i \in DOMAIN r.content.blocks : IsBlock(r.content.blocks[i])
    BY DEF IsRow
  <2>3. c = [i \in DOMAIN r.content.blocks |-> c[i]]
    BY <2>1
  <2>4. IsSeq(c) /\ DOMAIN c = DOMAIN r.content.blocks
    BY <2>2, <2>3, SeqOver
  <2>5. ASSUME NEW i \in DOMAIN c
        PROVE  IsPart(c[i])
    <3>1. c[i] = PartOf(k, r.content.blocks[i])
      BY <2>1, <2>4
    <3> QED  BY <2>2, <2>4, <3>1, PartRead
  <2>6. IsContent(c)
    BY <2>4, <2>5 DEF IsContent
  <2> QED  BY <2>6 DEF c
<1>2. CASE r.content.string # None /\ r.content.string = ""
  <2>1. c = <<>>
    BY <1>2 DEF MLContentToParts
  <2> HIDE DEF c
  <2>2. IsContent(c)
    BY <2>1 DEF IsContent, IsSeq
  <2> QED  BY <2>2 DEF c
<1>3. CASE r.content.string # None /\ r.content.string # ""
  <2> DEFINE b == [type |-> "text", text |-> r.content.string, data |-> EmptyDict]
             p == PartOf(k, b)
  <2>1. c = <<p>>
    BY <1>3 DEF MLContentToParts
  <2>2. r.content.string \in Value
    BY <1>3 DEF IsRow
  <2>3. IsBlock(b)
    BY <2>2, ValueFacts, EmptyFacts DEF IsBlock, IsDict, IsFcn
  <2>4. IsPart(p)
    <3> HIDE DEF b
    <3> QED  BY <2>3, PartRead
  <2> HIDE DEF c, p
  <2>5. c \in Seq({p})
    BY <2>1
  <2>6. IsContent(c)
    BY <2>1, <2>4, <2>5 DEF IsContent, IsSeq
  <2> QED  BY <2>6 DEF c
<1> QED  BY <1>1, <1>2, <1>3

LEMMA SameContentFacts ==
    /\ \A c : SameContent(c, c)
    /\ \A c, d, e : IsSeq(c) /\ IsSeq(d) /\ SameContent(c, d) /\ SameContent(d, e)
                       => SameContent(c, e)
<1>1. ASSUME NEW c, NEW d, NEW e, IsSeq(c), IsSeq(d), SameContent(c, d), SameContent(d, e)
      PROVE  SameContent(c, e)
  <2>1. DOMAIN c = 1..Len(c) /\ DOMAIN d = 1..Len(d)
    BY <1>1, LenProperties DEF IsSeq
  <2> QED  BY <1>1, <2>1 DEF SameContent
<1> QED  BY <1>1 DEF SameContent

\* ... the same parts by any reader ...
LEMMA SameContentRead ==
    ASSUME NEW r, NEW k, NEW l, IsRow(r)
    PROVE  SameContent(MLContentToParts(k, r.content), MLContentToParts(l, r.content))
<1>1. ASSUME NEW b, IsBlock(b)
      PROVE  Full(PartOf(k, b)) = Full(PartOf(l, b))
  <2>1. "type" \notin DOMAIN b.data
    BY <1>1 DEF IsBlock
  <2>2. IsFcn(BlockToPartMap(b)) /\ "type" \in DOMAIN BlockToPartMap(b)
    BY <2>1, PartMade
  <2> QED  BY <2>2, SamePart
<1> DEFINE c == MLContentToParts(k, r.content)
           d == MLContentToParts(l, r.content)
<1>2. CASE r.content.string = None
  <2>1. /\ c = [i \in DOMAIN r.content.blocks |-> PartOf(k, r.content.blocks[i])]
        /\ d = [i \in DOMAIN r.content.blocks |-> PartOf(l, r.content.blocks[i])]
    BY <1>2 DEF MLContentToParts
  <2> HIDE DEF c, d
  <2>2. IsSeq(r.content.blocks) /\ \A i \in DOMAIN r.content.blocks : IsBlock(r.content.blocks[i])
    BY DEF IsRow
  <2>3. Len(c) = Len(r.content.blocks) /\ DOMAIN c = DOMAIN r.content.blocks
    BY <2>1, <2>2, SeqOver
  <2>4. Len(d) = Len(r.content.blocks) /\ DOMAIN d = DOMAIN r.content.blocks
    BY <2>1, <2>2, SeqOver
  <2>5. ASSUME NEW i \in DOMAIN c
        PROVE  Full(c[i]) = Full(d[i])
    <3>1. c[i] = PartOf(k, r.content.blocks[i]) /\ d[i] = PartOf(l, r.content.blocks[i])
      BY <2>1, <2>3
    <3> QED  BY <1>1, <2>2, <2>3, <3>1
  <2> QED  BY <2>3, <2>4, <2>5 DEF SameContent, c, d
<1>3. CASE r.content.string # None /\ r.content.string = ""
  BY <1>3, SameContentFacts DEF MLContentToParts
<1>4. CASE r.content.string # None /\ r.content.string # ""
  <2> DEFINE b == [type |-> "text", text |-> r.content.string, data |-> EmptyDict]
             p == PartOf(k, b)
             q == PartOf(l, b)
  <2>1. c = <<p>> /\ d = <<q>>
    BY <1>4 DEF MLContentToParts
  <2>2. r.content.string \in Value
    BY <1>4 DEF IsRow
  <2>3. IsBlock(b)
    BY <2>2, ValueFacts, EmptyFacts DEF IsBlock, IsDict, IsFcn
  <2>4. Full(p) = Full(q)
    <3> HIDE DEF b
    <3> QED  BY <1>1, <2>3
  <2> HIDE DEF c, d, p, q
  <2> QED  BY <2>1, <2>4 DEF SameContent, c, d
<1> QED  BY <1>2, <1>3, <1>4

\* ... and what was written is what is read, unknown parts with null keys apart.
LEMMA ContentWritten ==
    ASSUME NEW m, NEW l, IsContent(m.content)
    PROVE  LET written == ToMemoryLayerPayload(l, m).content
           IN  /\ written.string = None
               /\ written.blocks = [i \in DOMAIN m.content |-> PartToMLContent(l, m.content[i])]
               /\ IsSeq(written.blocks) /\ Len(written.blocks) = Len(m.content)
               /\ DOMAIN written.blocks = DOMAIN m.content
               /\ \A i \in DOMAIN written.blocks : IsBlock(written.blocks[i])
<1> DEFINE written == ToMemoryLayerPayload(l, m).content
           b == written.blocks
<1>1. /\ written.string = None
      /\ b = [i \in DOMAIN m.content |-> PartToMLContent(l, m.content[i])]
  BY DEF ToMemoryLayerPayload
<1> HIDE DEF written, b
<1>2. IsSeq(b) /\ DOMAIN b = DOMAIN m.content /\ Len(b) = Len(m.content)
  BY <1>1, SeqOver DEF IsContent
<1>3. ASSUME NEW i \in DOMAIN b
      PROVE  IsBlock(b[i])
  <2>1. IsPart(m.content[i]) /\ b[i] = PartToMLContent(l, m.content[i])
    BY <1>1, <1>2, <1>3 DEF IsContent
  <2>2. IsBlock(PartToMLContent(l, m.content[i]))
    BY <2>1, BlockWritten
  <2> QED  BY <2>1, <2>2
<1> QED  BY <1>1, <1>2, <1>3 DEF written, b

LEMMA ContentRoundTrip ==
    ASSUME NEW m, NEW l, NEW k, IsContent(m.content),
           l = "go" \/ \A i \in DOMAIN m.content : NoNulls(m.content[i])
    PROVE  SameContent(MLContentToParts(k, ToMemoryLayerPayload(l, m).content), m.content)
<1> DEFINE written == ToMemoryLayerPayload(l, m).content
           c == MLContentToParts(k, written)
           b == written.blocks
<1>1. /\ written.string = None
      /\ b = [i \in DOMAIN m.content |-> PartToMLContent(l, m.content[i])]
      /\ IsSeq(b) /\ DOMAIN b = DOMAIN m.content /\ Len(b) = Len(m.content)
  BY ContentWritten
<1> HIDE DEF written
<1>2. c = [i \in DOMAIN b |-> PartOf(k, b[i])]
  BY <1>1 DEF MLContentToParts
<1> HIDE DEF b, c
<1>4. Len(c) = Len(b) /\ DOMAIN c = DOMAIN b
  BY <1>1, <1>2, SeqOver
<1>5. ASSUME NEW i \in DOMAIN b
      PROVE  Full(c[i]) = Full(m.content[i])
  <2>1. IsPart(m.content[i]) /\ b[i] = PartToMLContent(l, m.content[i])
    BY <1>1, <1>5 DEF IsContent
  <2>2. c[i] = PartOf(k, b[i])
    BY <1>2, <1>5
  <2>3. Full(PartOf(k, PartToMLContent(l, m.content[i]))) = Full(m.content[i])
    BY <1>1, <1>5, <2>1, PartRoundTrip
  <2> QED  BY <2>1, <2>2, <2>3
<1> QED  BY <1>1, <1>4, <1>5 DEF SameContent, written, c, b

----------------------------------------------------------------------------
\* The message's own fields under meta.scitrera, and the residual keys.

LEMMA ExtrasFacts ==
    ASSUME NEW m
    PROVE  /\ DOMAIN SpecExtras(m) \subseteq Reserved
           /\ {"schema_version", "message_id"} \subseteq DOMAIN SpecExtras(m)
           /\ Lookup(SpecExtras(m), "schema_version") = m.schema_version
           /\ Lookup(SpecExtras(m), "message_id") = m.id
           /\ Lookup(SpecExtras(m), "created_at") = m.created_at
           /\ Lookup(SpecExtras(m), "addr") = IF m.addr = EmptyDict THEN None ELSE m.addr
           /\ Lookup(SpecExtras(m), "ref") = IF m.ref \in {None, EmptyDict} THEN None ELSE m.ref
<1> DEFINE ids  == [schema_version |-> m.schema_version, message_id |-> m.id]
           time == OptionalEntry("created_at", m.created_at, m.created_at # None)
           addr == OptionalEntry("addr", m.addr, m.addr # EmptyDict)
           ref  == OptionalEntry("ref", m.ref, m.ref \notin {None, EmptyDict})
           last == Over(addr, ref)
           rest == Over(time, last)
<1>1. SpecExtras(m) = Over(ids, rest)
  BY DEF SpecExtras
<1>2. DOMAIN time \subseteq {"created_at"} /\ Lookup(time, "created_at") = m.created_at
  BY DEF OptionalEntry, Entry, EmptyDict, Lookup
<1>3. DOMAIN addr \subseteq {"addr"} /\ Lookup(addr, "addr") = IF m.addr = EmptyDict THEN None ELSE m.addr
  <2>1. CASE m.addr = EmptyDict
    BY <2>1 DEF OptionalEntry, EmptyDict, Lookup
  <2>2. CASE m.addr # EmptyDict
    BY <2>2 DEF OptionalEntry, Entry, Lookup
  <2> QED  BY <2>1, <2>2
<1>4. DOMAIN ref \subseteq {"ref"} /\ Lookup(ref, "ref") = IF m.ref \in {None, EmptyDict} THEN None ELSE m.ref
  <2>1. CASE m.ref \in {None, EmptyDict}
    BY <2>1 DEF OptionalEntry, EmptyDict, Lookup
  <2>2. CASE m.ref \notin {None, EmptyDict}
    BY <2>2 DEF OptionalEntry, Entry, Lookup
  <2> QED  BY <2>1, <2>2
<1>5. /\ DOMAIN ids = {"schema_version", "message_id"}
      /\ ids["schema_version"] = m.schema_version /\ ids["message_id"] = m.id
  OBVIOUS
<1> HIDE DEF ids, time, addr, ref
<1>6. DOMAIN last = DOMAIN addr \cup DOMAIN ref /\ DOMAIN rest = DOMAIN time \cup DOMAIN last
  BY DEF Over
<1>7. /\ Lookup(last, "addr") = Lookup(addr, "addr")
      /\ Lookup(last, "ref") = Lookup(ref, "ref")
  BY <1>3, <1>4 DEF Over, Lookup
<1> HIDE DEF last
<1>8. /\ Lookup(rest, "addr") = Lookup(last, "addr")
      /\ Lookup(rest, "ref") = Lookup(last, "ref")
      /\ Lookup(rest, "created_at") = Lookup(time, "created_at")
  BY <1>2, <1>3, <1>4, <1>6 DEF Over, Lookup
<1> HIDE DEF rest
<1>9. \A k \in {"addr", "ref", "created_at"} : Lookup(SpecExtras(m), k) = Lookup(rest, k)
  BY <1>1, <1>5 DEF Over, Lookup
<1>10. DOMAIN SpecExtras(m) = DOMAIN ids \cup DOMAIN rest
  BY <1>1 DEF Over
<1>11. DOMAIN rest \subseteq {"addr", "ref", "created_at"}
  BY <1>2, <1>3, <1>4, <1>6
<1>12. /\ Lookup(SpecExtras(m), "schema_version") = m.schema_version
       /\ Lookup(SpecExtras(m), "message_id") = m.id
  BY <1>1, <1>5, <1>11 DEF Over, Lookup
<1>13. DOMAIN SpecExtras(m) \subseteq Reserved
  BY <1>5, <1>10, <1>11 DEF Reserved
<1>14. {"schema_version", "message_id"} \subseteq DOMAIN SpecExtras(m)
  BY <1>5, <1>10
<1> QED  BY <1>2, <1>3, <1>4, <1>7, <1>8, <1>9, <1>12, <1>13, <1>14

IsFields(e) ==
    \A k \in DOMAIN e : /\ k \in Reserved
                        /\ CASE k = "addr" -> IsAddr(e[k])
                             [] k = "ref"  -> IsDict(e[k], Value)
                             [] OTHER      -> e[k] \in Name

LEMMA ExtrasTyped ==
    ASSUME NEW m, IsMessage(m)
    PROVE  IsFields(SpecExtras(m))
<1> DEFINE e == SpecExtras(m)
<1>1. \A k \in DOMAIN e : e[k] = Lookup(e, k)
  BY DEF Lookup
<1>2. DOMAIN e \subseteq Reserved
  BY ExtrasFacts
<1>3. /\ Lookup(e, "schema_version") \in Name /\ Lookup(e, "message_id") \in Name
  BY ExtrasFacts DEF IsMessage
<1>4. "created_at" \in DOMAIN e => Lookup(e, "created_at") \in Name
  <2>1. "created_at" \in DOMAIN e => m.created_at # None
    BY DEF SpecExtras, Over, OptionalEntry, Entry, EmptyDict
  <2> QED  BY <2>1, ExtrasFacts DEF IsMessage
<1>5. "addr" \in DOMAIN e => IsAddr(Lookup(e, "addr"))
  <2>1. "addr" \in DOMAIN e => m.addr # EmptyDict
    BY DEF SpecExtras, Over, OptionalEntry, Entry, EmptyDict
  <2> QED  BY <2>1, ExtrasFacts DEF IsMessage
<1>6. "ref" \in DOMAIN e => IsDict(Lookup(e, "ref"), Value)
  <2>1. "ref" \in DOMAIN e => m.ref \notin {None, EmptyDict}
    BY DEF SpecExtras, Over, OptionalEntry, Entry, EmptyDict
  <2> QED  BY <2>1, ExtrasFacts DEF IsMessage
<1> HIDE DEF e
<1> QED  BY <1>1, <1>2, <1>3, <1>4, <1>5, <1>6 DEF IsFields, Reserved, e

\* Fields go over the residual keys, and do not disturb them.
LEMMA FieldsOver ==
    ASSUME NEW d, NEW e, IsNamespace(d), IsFields(e)
    PROVE  /\ IsNamespace(Over(d, e))
           /\ Without(Over(d, e), Reserved) = Without(d, Reserved)
<1>1. /\ DOMAIN Over(d, e) = DOMAIN d \cup DOMAIN e /\ IsFcn(Over(d, e))
      /\ \A k \in DOMAIN e : Over(d, e)[k] = e[k]
      /\ \A k \in DOMAIN d : k \notin DOMAIN e => Over(d, e)[k] = d[k]
  BY OverFacts, ZenonT(60)
<1> DEFINE n == Over(d, e)
<1> HIDE DEF n
<1>2. /\ DOMAIN n = DOMAIN d \cup DOMAIN e /\ IsFcn(n)
      /\ \A k \in DOMAIN e : n[k] = e[k]
      /\ \A k \in DOMAIN d : k \notin DOMAIN e => n[k] = d[k]
  BY <1>1 DEF n
<1>3. DOMAIN n \subseteq Key
  BY <1>2, ValueFacts DEF IsNamespace, IsFields
<1>4. ASSUME NEW k \in DOMAIN n
      PROVE  n[k] # None => /\ k = "addr" => IsAddr(n[k])
                            /\ k = "ref" => IsDict(n[k], Value)
                            /\ k \in Reserved \ {"addr", "ref"} => n[k] \in Name
                            /\ k \notin Reserved => n[k] \in Value
  <2>1. CASE k \in DOMAIN e
    <3>1. n[k] = e[k]
      BY <1>2, <2>1
    <3> QED  BY <2>1, <3>1 DEF IsFields
  <2>2. CASE k \notin DOMAIN e
    <3>1. k \in DOMAIN d /\ n[k] = d[k]
      BY <1>2, <1>4, <2>2
    <3> QED  BY <3>1 DEF IsNamespace
  <2> QED  BY <2>1, <2>2
<1>5. IsNamespace(n)
  BY <1>2, <1>3, <1>4 DEF IsNamespace, IsFcn
<1>6. Without(n, Reserved) = Without(d, Reserved)
  <2>1. DOMAIN e \subseteq Reserved
    BY DEF IsFields
  <2>2. DOMAIN n \ Reserved = DOMAIN d \ Reserved
    BY <1>2, <2>1
  <2>3. \A k \in DOMAIN d \ Reserved : n[k] = d[k]
    BY <1>2, <2>1
  <2> HIDE DEF Reserved
  <2> QED  BY <2>2, <2>3 DEF Without, Restrict
<1> QED  BY <1>5, <1>6 DEF n

LEMMA FieldsRead ==
    ASSUME NEW d, NEW e, DOMAIN d \cap Reserved = {}, NEW k \in Reserved
    PROVE  Lookup(Over(d, e), k) = Lookup(e, k)
<1>1. k \notin DOMAIN d
  OBVIOUS
<1> QED  BY <1>1 DEF Over, Lookup

LEMMA WithoutNothing ==
    ASSUME NEW d, NEW keys, IsFcn(d), DOMAIN d \cap keys = {}
    PROVE  Without(d, keys) = d
<1>1. DOMAIN d \ keys = DOMAIN d
  OBVIOUS
<1>2. (DOMAIN d \cap (DOMAIN d \ keys)) = DOMAIN d
  BY <1>1
<1> QED  BY <1>1, <1>2 DEF Without, Restrict, IsFcn

LEMMA ResidualShape ==
    ASSUME NEW n, IsNamespace(n)
    PROVE  /\ IsNamespace(Without(n, Reserved))
           /\ DOMAIN Without(n, Reserved) \cap Reserved = {}
<1>1. /\ IsFcn(Without(n, Reserved)) /\ DOMAIN Without(n, Reserved) = DOMAIN n \ Reserved
      /\ \A k \in DOMAIN n \ Reserved : Without(n, Reserved)[k] = n[k]
  BY WithoutFacts
<1> DEFINE d == Without(n, Reserved)
<1> HIDE DEF d
<1>2. IsFcn(d) /\ DOMAIN d = DOMAIN n \ Reserved /\ \A k \in DOMAIN n \ Reserved : d[k] = n[k]
  BY <1>1 DEF d
<1>3. \A k \in DOMAIN d : d[k] = n[k] /\ k \in DOMAIN n
  BY <1>2
<1>4. IsNamespace(d)
  BY <1>2, <1>3 DEF IsNamespace, IsFcn
<1> QED  BY <1>2, <1>4 DEF d

\* A dictionary under meta.scitrera.
LEMMA MetaWith ==
    ASSUME NEW meta, NEW n, IsNamespace(n),
           "app_workspace" \in DOMAIN meta => meta["app_workspace"] \in Workspace
    PROVE  LET M == Over(meta, Entry("scitrera", n))
           IN  /\ IsMeta(M) /\ HasNamespace(M) /\ Namespace(M) = n
               /\ DOMAIN M = DOMAIN meta \cup {"scitrera"}
               /\ \A k \in DOMAIN meta : k # "scitrera" => M[k] = meta[k]
<1> DEFINE M == Over(meta, Entry("scitrera", n))
<1>1. /\ IsFcn(M) /\ DOMAIN M = DOMAIN meta \cup {"scitrera"} /\ M["scitrera"] = n
      /\ \A k \in DOMAIN meta : k # "scitrera" => M[k] = meta[k]
  BY DEF Over, Entry, IsFcn
<1> HIDE DEF M
<1>2. n # None /\ n # NotADict
  BY NamespaceNotNone
<1>3. HasNamespace(M) /\ Namespace(M) = n
  BY <1>1, <1>2 DEF HasNamespace, Namespace, Lookup
<1>4. IsMeta(M)
  BY <1>1, <1>3 DEF IsMeta, IsFcn
<1> QED  BY <1>1, <1>3, <1>4 DEF M

\* The meta a client reads is the row's, with the residual keys under meta.scitrera
\* unless it reads in typescript.
LEMMA MetaRead ==
    ASSUME NEW r, NEW l, IsRow(r)
    PROVE  /\ IsMeta(ReadMeta(l, r))
           /\ Namespace(ReadMeta(l, r)) = IF l = "typescript" THEN EmptyDict ELSE Residual(r)
           /\ \A k : k # "scitrera" =>
                 /\ k \in DOMAIN ReadMeta(l, r) <=> k \in DOMAIN r.metadata
                 /\ k \in DOMAIN r.metadata => ReadMeta(l, r)[k] = r.metadata[k]
           /\ "scitrera" \in DOMAIN ReadMeta(l, r) =>
                 /\ "scitrera" \in DOMAIN r.metadata
                 /\ HasNamespace(r.metadata) => Residual(r) # EmptyDict
<1> DEFINE meta == r.metadata
           own  == OwnMeta(r)
           M    == ReadMeta(l, r)
<1>1. IsMeta(meta) /\ IsFcn(meta)
  BY DEF IsRow, IsMeta, IsFcn
<1>2. IsNamespace(Namespace(meta))
  <2> HIDE DEF meta
  <2> QED  BY <1>1, NamespaceFacts
<1>3. IsNamespace(Residual(r)) /\ DOMAIN Residual(r) \cap Reserved = {}
  BY <1>2, ResidualShape DEF Residual
<1>4. ~HasNamespace(meta) => Residual(r) = EmptyDict
  BY WithoutNothing, EmptyFacts DEF Residual, Namespace
<1>5. HasNamespace(meta) => "scitrera" \in DOMAIN meta
  BY DEF HasNamespace, Lookup
<1>6. /\ IsFcn(own) /\ DOMAIN own = IF HasNamespace(meta) THEN DOMAIN meta \ {"scitrera"} ELSE DOMAIN meta
      /\ \A k \in DOMAIN own : own[k] = meta[k]
  <2>1. CASE HasNamespace(meta)
    BY <2>1 DEF OwnMeta, Without, Restrict, IsFcn
  <2>2. CASE ~HasNamespace(meta)
    BY <1>1, <2>2 DEF OwnMeta
  <2> QED  BY <2>1, <2>2
<1>7. "app_workspace" \in DOMAIN meta => meta["app_workspace"] \in Workspace
  BY <1>1 DEF IsMeta
<1>8. CASE l = "typescript" \/ Residual(r) = EmptyDict
  <2>1. M = own
    BY <1>8 DEF ReadMeta
  <2> HIDE DEF M, own, meta
  <2>2. Namespace(M) = EmptyDict /\ ~HasNamespace(M)
    <3>1. CASE HasNamespace(meta)
      <4>1. "scitrera" \notin DOMAIN M
        BY <1>6, <2>1, <3>1
      <4> QED  BY <4>1 DEF HasNamespace, Namespace, Lookup
    <3>2. CASE ~HasNamespace(meta)
      <4>1. Lookup(M, "scitrera") = Lookup(meta, "scitrera")
        BY <1>6, <2>1, <3>2 DEF Lookup
      <4> QED  BY <3>2, <4>1 DEF HasNamespace, Namespace
    <3> QED  BY <3>1, <3>2
  <2>3. IsMeta(M)
    BY <1>6, <1>7, <2>1, <2>2 DEF IsMeta, IsFcn
  <2>4. /\ \A k : k # "scitrera" =>
              /\ k \in DOMAIN M <=> k \in DOMAIN meta
              /\ k \in DOMAIN meta => M[k] = meta[k]
        /\ "scitrera" \in DOMAIN M => "scitrera" \in DOMAIN meta /\ ~HasNamespace(meta)
    BY <1>6, <2>1
  <2> QED  BY <1>4, <1>8, <2>2, <2>3, <2>4 DEF M, meta
<1>9. CASE l # "typescript" /\ Residual(r) # EmptyDict
  <2>1. M = Over(own, Entry("scitrera", Residual(r)))
    BY <1>9 DEF ReadMeta
  <2>2. "app_workspace" \in DOMAIN own => own["app_workspace"] \in Workspace
    BY <1>6, <1>7
  <2> HIDE DEF M, own, meta
  <2>3. /\ IsMeta(M) /\ Namespace(M) = Residual(r) /\ DOMAIN M = DOMAIN own \cup {"scitrera"}
        /\ \A k \in DOMAIN own : k # "scitrera" => M[k] = own[k]
    BY <1>3, <2>1, <2>2, MetaWith
  <2>4. HasNamespace(meta)
    BY <1>4, <1>9
  <2>5. \A k : k # "scitrera" =>
              /\ k \in DOMAIN M <=> k \in DOMAIN meta
              /\ k \in DOMAIN meta => M[k] = meta[k]
    BY <1>6, <2>3, <2>4
  <2> QED  BY <1>5, <1>9, <2>3, <2>4, <2>5 DEF M, meta
<1> QED  BY <1>8, <1>9

\* What a client writes is a row, with the message's fields and residual keys.
LEMMA RowWritten ==
    ASSUME NEW m, NEW l, IsMessage(m)
    PROVE  LET r == Stored(ToMemoryLayerPayload(l, m))
           IN  /\ IsRow(r) /\ HasNamespace(r.metadata)
               /\ Namespace(r.metadata) = Over(Namespace(m.meta), SpecExtras(m))
               /\ Residual(r) = Namespace(m.meta)
               /\ \A k \in DOMAIN m.meta : k # "scitrera" =>
                     k \in DOMAIN r.metadata /\ r.metadata[k] = m.meta[k]
               /\ DOMAIN r.metadata \ DOMAIN m.meta \subseteq {"app_workspace", "scitrera"}
               /\ Lookup(r.metadata, "app_workspace") =
                     IF "app_workspace" \in DOMAIN m.meta THEN m.meta["app_workspace"]
                     ELSE Lookup(m.addr, "workspace_id")
<1> DEFINE payload == ToMemoryLayerPayload(l, m)
           r    == Stored(payload)
           base == WithAppWorkspace(m)
           n    == Over(Namespace(m.meta), SpecExtras(m))
           M    == Over(base, Entry("scitrera", n))
<1>1. /\ r.id = Row.id /\ r.thread_id = Row.thread_id /\ r.created_at = Row.created_at
      /\ r.role = payload.role /\ r.content = payload.content /\ r.metadata = payload.metadata
      /\ r = [id |-> r.id, thread_id |-> r.thread_id, created_at |-> r.created_at,
              role |-> r.role, content |-> r.content, metadata |-> r.metadata]
  BY DEF Stored
<1>2. payload.role = m.role /\ payload.metadata = M
  BY DEF ToMemoryLayerPayload, BuildMLMetadata
<1>3. IsMeta(m.meta) /\ DOMAIN Namespace(m.meta) \cap Reserved = {}
  BY DEF IsMessage
<1>4. IsNamespace(Namespace(m.meta)) /\ IsFcn(Namespace(m.meta))
  BY <1>3, NamespaceFacts
<1>5. IsNamespace(n) /\ Without(n, Reserved) = Namespace(m.meta)
  BY <1>3, <1>4, ExtrasTyped, FieldsOver, WithoutNothing
<1>6. /\ \A k \in DOMAIN m.meta : k \in DOMAIN base /\ base[k] = m.meta[k]
      /\ DOMAIN base \ DOMAIN m.meta \subseteq {"app_workspace"}
      /\ "app_workspace" \in DOMAIN base \ DOMAIN m.meta =>
            "workspace_id" \in DOMAIN m.addr /\ base["app_workspace"] = m.addr["workspace_id"]
      /\ "workspace_id" \in DOMAIN m.addr => "app_workspace" \in DOMAIN base
  BY DEF WithAppWorkspace, Over, OptionalEntry, Entry, EmptyDict, Lookup
<1>7. "app_workspace" \in DOMAIN base => base["app_workspace"] \in Workspace
  <2>1. "workspace_id" \in DOMAIN m.addr => m.addr["workspace_id"] \in Workspace
    BY DEF IsMessage, IsAddr
  <2>2. "app_workspace" \in DOMAIN m.meta => m.meta["app_workspace"] \in Workspace
    BY <1>3 DEF IsMeta
  <2> QED  BY <1>6, <2>1, <2>2
<1> HIDE DEF n, base
<1>8. /\ IsMeta(M) /\ HasNamespace(M) /\ Namespace(M) = n
      /\ DOMAIN M = DOMAIN base \cup {"scitrera"}
      /\ \A k \in DOMAIN base : k # "scitrera" => M[k] = base[k]
  BY <1>5, <1>7, MetaWith
<1>9. /\ payload.content.string = None /\ IsSeq(payload.content.blocks)
      /\ \A i \in DOMAIN payload.content.blocks : IsBlock(payload.content.blocks[i])
  BY ContentWritten DEF IsMessage, IsContent
<1>10. m.role \in Name
  BY DEF IsMessage
<1> HIDE DEF payload, r, M
<1>11. IsRow(r)
  BY <1>1, <1>2, <1>8, <1>9, <1>10 DEF IsRow
<1>12. Residual(r) = Namespace(m.meta)
  BY <1>1, <1>2, <1>5, <1>8 DEF Residual
<1>13. Lookup(M, "app_workspace") =
          IF "app_workspace" \in DOMAIN m.meta THEN m.meta["app_workspace"]
          ELSE Lookup(m.addr, "workspace_id")
  BY <1>6, <1>8 DEF Lookup
<1>14. /\ \A k \in DOMAIN m.meta : k # "scitrera" => k \in DOMAIN M /\ M[k] = m.meta[k]
       /\ DOMAIN M \ DOMAIN m.meta \subseteq {"app_workspace", "scitrera"}
  BY <1>6, <1>8
<1>15. r.metadata = M
  BY <1>1, <1>2
<1> QED  BY <1>8, <1>11, <1>12, <1>13, <1>14, <1>15 DEF r, payload, n

----------------------------------------------------------------------------
\* Reading.

LEMMA RowNamespace ==
    ASSUME NEW r, IsRow(r)
    PROVE  /\ IsNamespace(Namespace(r.metadata))
           /\ IsNamespace(Residual(r)) /\ DOMAIN Residual(r) \cap Reserved = {}
           /\ \A k \in Reserved \ {"addr", "ref"} :
                 Lookup(Namespace(r.metadata), k) \in Name \cup {None}
           /\ Lookup(Namespace(r.metadata), "addr") = None
              \/ IsAddr(Lookup(Namespace(r.metadata), "addr"))
           /\ Lookup(Namespace(r.metadata), "ref") = None
              \/ IsDict(Lookup(Namespace(r.metadata), "ref"), Value)
<1> DEFINE meta == r.metadata
           n    == Namespace(meta)
<1>1. IsMeta(meta)
  BY DEF IsRow
<1> HIDE DEF meta
<1>2. IsNamespace(n)
  BY <1>1, NamespaceFacts
<1> HIDE DEF n
<1>3. \A k \in Reserved \ {"addr", "ref"} : Lookup(n, k) \in Name \cup {None}
  BY <1>2 DEF Lookup, IsNamespace
<1>4. /\ Lookup(n, "addr") = None \/ IsAddr(Lookup(n, "addr"))
      /\ Lookup(n, "ref") = None \/ IsDict(Lookup(n, "ref"), Value)
  BY <1>2 DEF Lookup, IsNamespace
<1>5. IsNamespace(Residual(r)) /\ DOMAIN Residual(r) \cap Reserved = {}
  BY <1>2, ResidualShape DEF Residual, n, meta
<1> QED  BY <1>2, <1>3, <1>4, <1>5 DEF n, meta

\* Where a message is read to be: where it says, and where MemoryLayer knows it is.
LEMMA AddrRead ==
    ASSUME NEW r, IsRow(r)
    PROVE  LET addr == OrElse(Lookup(Namespace(r.metadata), "addr"), EmptyDict)
           IN  /\ IsAddr(addr) /\ IsAddr(FilledAddr(r)) /\ IsFcn(FilledAddr(r))
               /\ Within(addr, FilledAddr(r))
               /\ \A k \in DOMAIN FilledAddr(r) \ DOMAIN addr :
                     \/ k = "thread_id" /\ FilledAddr(r)[k] = r.thread_id
                     \/ k = "workspace_id"
                        /\ FilledAddr(r)[k] = Lookup(r.metadata, "app_workspace")
               /\ r.thread_id # None => "thread_id" \in DOMAIN FilledAddr(r)
               /\ Lookup(r.metadata, "app_workspace") # None =>
                     "workspace_id" \in DOMAIN FilledAddr(r)
<1> DEFINE addr   == OrElse(Lookup(Namespace(r.metadata), "addr"), EmptyDict)
           ws     == Lookup(r.metadata, "app_workspace")
           thread == OptionalEntry("thread_id", r.thread_id, r.thread_id # None)
           space  == OptionalEntry("workspace_id", ws, ws # None)
           known  == Over(thread, space)
           f      == FilledAddr(r)
<1>1. f = Over(known, addr)
  BY DEF FilledAddr
<1>2. r.thread_id \in Name \cup {None}
  BY CodecAssumption DEF IsRow
<1>3. ws = None \/ ws \in Workspace
  BY DEF IsRow, IsMeta, Lookup
<1>4. IsAddr(addr)
  <2>1. IsAddr(EmptyDict)
    BY EmptyFacts DEF IsAddr, IsDict, IsFcn
  <2> QED  BY <2>1, RowNamespace DEF OrElse
<1>5. /\ DOMAIN thread = IF r.thread_id # None THEN {"thread_id"} ELSE {}
      /\ r.thread_id # None => thread["thread_id"] = r.thread_id
  BY DEF OptionalEntry, Entry, EmptyDict
<1> HIDE DEF ws, addr, f
<1>6. /\ DOMAIN space = IF ws # None THEN {"workspace_id"} ELSE {}
      /\ ws # None => space["workspace_id"] = ws
  BY DEF OptionalEntry, Entry, EmptyDict
<1> HIDE DEF thread, space
<1>7. /\ DOMAIN known = DOMAIN thread \cup DOMAIN space
      /\ "workspace_id" \in DOMAIN known => known["workspace_id"] = ws /\ ws # None
      /\ "thread_id" \in DOMAIN known => known["thread_id"] = r.thread_id /\ r.thread_id # None
  BY <1>5, <1>6 DEF Over
<1> HIDE DEF known
<1>8. /\ IsFcn(f) /\ DOMAIN f = DOMAIN known \cup DOMAIN addr
      /\ \A k \in DOMAIN addr : f[k] = addr[k]
      /\ \A k \in DOMAIN f \ DOMAIN addr : k \in DOMAIN known /\ f[k] = known[k]
  BY <1>1 DEF Over, IsFcn
<1>9. \A k \in DOMAIN f \ DOMAIN addr :
         \/ k = "thread_id" /\ f[k] = r.thread_id /\ r.thread_id # None
         \/ k = "workspace_id" /\ f[k] = ws /\ ws # None
  BY <1>5, <1>6, <1>7, <1>8
<1>10. IsAddr(f)
  <2>1. DOMAIN f \subseteq Key
    BY <1>4, <1>8, <1>9, ValueFacts DEF IsAddr, IsDict
  <2>2. ASSUME NEW k \in DOMAIN f
        PROVE  f[k] \in Name
    <3>1. CASE k \in DOMAIN addr
      BY <1>4, <1>8, <3>1 DEF IsAddr, IsDict
    <3>2. CASE k \notin DOMAIN addr
      BY <1>2, <1>3, <1>9, <3>2, ValueFacts
    <3> QED  BY <3>1, <3>2
  <2>3. "workspace_id" \in DOMAIN f => f["workspace_id"] \in Workspace
    BY <1>3, <1>4, <1>8, <1>9 DEF IsAddr
  <2> QED  BY <1>8, <2>1, <2>2, <2>3 DEF IsAddr, IsDict, IsFcn
<1>11. Within(addr, f)
  BY <1>8 DEF Within
<1>12. /\ r.thread_id # None => "thread_id" \in DOMAIN f
       /\ ws # None => "workspace_id" \in DOMAIN f
  BY <1>5, <1>6, <1>7, <1>8
<1> QED  BY <1>4, <1>8, <1>9, <1>10, <1>11, <1>12 DEF addr, ws, f

LEMMA FieldsOfRead ==
    ASSUME NEW l, NEW r
    PROVE  LET m == FromMemoryLayerMessage(l, r)
               n == Namespace(r.metadata)
           IN  /\ m = [schema_version |-> m.schema_version, id |-> m.id, role |-> m.role,
                       created_at |-> m.created_at, content |-> m.content, addr |-> m.addr,
                       meta |-> m.meta, ref |-> m.ref]
               /\ m.schema_version = OrElse(Lookup(n, "schema_version"), "1.0")
               /\ m.id = OrElse(Lookup(n, "message_id"), r.id)
               /\ m.role = GivenOr(r.role, "assistant")
               /\ m.created_at = OrElse(Lookup(n, "created_at"), r.created_at)
               /\ m.content = MLContentToParts(l, r.content)
               /\ m.addr = FilledAddr(r) /\ m.meta = ReadMeta(l, r)
               /\ m.ref = IF Lookup(n, "ref") = EmptyDict THEN None ELSE Lookup(n, "ref")
  BY DEF FromMemoryLayerMessage

\* Whatever row it is, and whoever wrote it, what is read is a message.
LEMMA MessageRead ==
    ASSUME NEW r, NEW l, IsRow(r)
    PROVE  IsMessage(FromMemoryLayerMessage(l, r))
<1> DEFINE m == FromMemoryLayerMessage(l, r)
           n == Namespace(r.metadata)
<1>1. /\ m = [schema_version |-> m.schema_version, id |-> m.id, role |-> m.role,
              created_at |-> m.created_at, content |-> m.content, addr |-> m.addr,
              meta |-> m.meta, ref |-> m.ref]
      /\ m.schema_version = OrElse(Lookup(n, "schema_version"), "1.0")
      /\ m.id = OrElse(Lookup(n, "message_id"), r.id)
      /\ m.role = GivenOr(r.role, "assistant")
      /\ m.created_at = OrElse(Lookup(n, "created_at"), r.created_at)
      /\ m.content = MLContentToParts(l, r.content)
      /\ m.addr = FilledAddr(r) /\ m.meta = ReadMeta(l, r)
      /\ m.ref = IF Lookup(n, "ref") = EmptyDict THEN None ELSE Lookup(n, "ref")
  BY FieldsOfRead
<1> HIDE DEF m, n
<1>2. /\ \A k \in Reserved \ {"addr", "ref"} : Lookup(n, k) \in Name \cup {None}
      /\ Lookup(n, "ref") = None \/ IsDict(Lookup(n, "ref"), Value)
  BY RowNamespace DEF n
<1>3. /\ r.id \in Name /\ r.role \in Name \cup {None, Absent}
      /\ r.created_at \in Name \cup {None}
  BY CodecAssumption DEF IsRow
<1>4. {"schema_version", "message_id", "created_at"} \subseteq Reserved \ {"addr", "ref"}
  BY DEF Reserved
<1>5. {m.schema_version, m.id, m.role} \subseteq Name /\ m.created_at \in Name \cup {None}
  BY <1>1, <1>2, <1>3, <1>4, ValueFacts DEF OrElse, GivenOr, Given
<1>6. IsSeq(m.content) /\ \A i \in DOMAIN m.content : IsPart(m.content[i])
  BY <1>1, ContentRead DEF IsContent
<1>7. IsAddr(m.addr)
  BY <1>1, AddrRead
<1>8. IsMeta(m.meta) /\ DOMAIN Namespace(m.meta) \cap Reserved = {}
  BY <1>1, MetaRead, RowNamespace, EmptyFacts
<1>9. m.ref = None \/ IsDict(m.ref, Value)
  BY <1>1, <1>2
<1>10. IsMessage(m)
  BY <1>1, <1>5, <1>6, <1>7, <1>8, <1>9 DEF IsMessage
<1> QED  BY <1>10 DEF m

\* What a typescript client does not see of a row are its residual keys.
SeesAll(l, r) == l # "typescript" \/ Residual(r) = EmptyDict

\* Any two clients that see all of a row read the same message from it.
LEMMA ReadTheSame ==
    ASSUME NEW r, NEW l, NEW k, IsRow(r), SeesAll(l, r), SeesAll(k, r)
    PROVE  LET a == FromMemoryLayerMessage(l, r)
               b == FromMemoryLayerMessage(k, r)
           IN  /\ a.schema_version = b.schema_version /\ a.id = b.id /\ a.role = b.role
               /\ a.created_at = b.created_at /\ a.addr = b.addr /\ a.meta = b.meta
               /\ a.ref = b.ref
               /\ SameContent(a.content, b.content)
<1>1. ReadMeta(l, r) = ReadMeta(k, r)
  BY DEF ReadMeta, SeesAll
<1>2. SameContent(MLContentToParts(l, r.content), MLContentToParts(k, r.content))
  BY SameContentRead
<1> QED  BY <1>1, <1>2 DEF FromMemoryLayerMessage

LEMMA NamespaceRead ==
    ASSUME NEW r, NEW l, IsRow(r), SeesAll(l, r)
    PROVE  Namespace(ReadMeta(l, r)) = Residual(r)
  BY MetaRead DEF SeesAll

\* A message that a client of any language wrote is read whole by any other, if no
\* python or typescript client wrote an unknown part with null keys.
LEMMA RoundTrip ==
    ASSUME NEW m, NEW l, NEW k, IsMessage(m),
           l = "go" \/ \A i \in DOMAIN m.content : NoNulls(m.content[i]),
           SeesAll(k, Stored(ToMemoryLayerPayload(l, m)))
    PROVE  Extends(FromMemoryLayerMessage(k, Stored(ToMemoryLayerPayload(l, m))), m)
<1> DEFINE r == Stored(ToMemoryLayerPayload(l, m))
           a == FromMemoryLayerMessage(k, r)
           n == Namespace(r.metadata)
           e == SpecExtras(m)
<1>1. /\ IsRow(r) /\ HasNamespace(r.metadata)
      /\ n = Over(Namespace(m.meta), e)
      /\ Residual(r) = Namespace(m.meta)
      /\ \A x \in DOMAIN m.meta : x # "scitrera" =>
            x \in DOMAIN r.metadata /\ r.metadata[x] = m.meta[x]
      /\ DOMAIN r.metadata \ DOMAIN m.meta \subseteq {"app_workspace", "scitrera"}
      /\ Lookup(r.metadata, "app_workspace") =
            IF "app_workspace" \in DOMAIN m.meta THEN m.meta["app_workspace"]
            ELSE Lookup(m.addr, "workspace_id")
  BY RowWritten
<1>2. /\ r.thread_id = Row.thread_id /\ r.created_at = Row.created_at /\ r.role = m.role
      /\ r.content = ToMemoryLayerPayload(l, m).content
  BY DEF Stored, ToMemoryLayerPayload
<1>3. SeesAll(k, r)
  OBVIOUS
<1> HIDE DEF r
<1>4. /\ a.schema_version = OrElse(Lookup(n, "schema_version"), "1.0")
      /\ a.id = OrElse(Lookup(n, "message_id"), r.id)
      /\ a.role = GivenOr(r.role, "assistant")
      /\ a.created_at = OrElse(Lookup(n, "created_at"), r.created_at)
      /\ a.content = MLContentToParts(k, r.content)
      /\ a.addr = FilledAddr(r) /\ a.meta = ReadMeta(k, r)
      /\ a.ref = IF Lookup(n, "ref") = EmptyDict THEN None ELSE Lookup(n, "ref")
  BY FieldsOfRead
<1>5. DOMAIN Namespace(m.meta) \cap Reserved = {}
  BY DEF IsMessage
<1> HIDE DEF a, n
<1>6. ASSUME NEW x \in Reserved
      PROVE  Lookup(n, x) = Lookup(e, x)
  BY <1>1, <1>5, FieldsRead
<1> HIDE DEF e
<1>7. /\ Lookup(n, "schema_version") = m.schema_version
      /\ Lookup(n, "message_id") = m.id
      /\ Lookup(n, "created_at") = m.created_at
      /\ Lookup(n, "addr") = IF m.addr = EmptyDict THEN None ELSE m.addr
      /\ Lookup(n, "ref") = IF m.ref \in {None, EmptyDict} THEN None ELSE m.ref
  BY <1>6, ExtrasFacts DEF Reserved, e
<1>8. m.schema_version # None /\ m.id # None /\ Given(m.role)
  BY ValueFacts DEF IsMessage, Given
<1>9. a.schema_version = m.schema_version /\ a.id = m.id /\ a.role = m.role
  BY <1>2, <1>4, <1>7, <1>8 DEF OrElse, GivenOr
<1>10. /\ m.created_at # None => a.created_at = m.created_at
       /\ a.created_at \in {m.created_at, Row.created_at}
  BY <1>2, <1>4, <1>7 DEF OrElse
<1>11. OrElse(a.ref, EmptyDict) = OrElse(m.ref, EmptyDict)
  BY <1>4, <1>7 DEF OrElse
<1>12. SameContent(a.content, m.content)
  BY <1>2, <1>4, ContentRoundTrip DEF IsMessage, IsContent
<1>13. OrElse(Lookup(n, "addr"), EmptyDict) = m.addr
  <2>1. m.addr # None
    BY AddrNotNone DEF IsMessage
  <2> QED  BY <1>7, <2>1 DEF OrElse
<1>14. /\ Within(m.addr, a.addr)
       /\ \A x \in DOMAIN a.addr \ DOMAIN m.addr :
             \/ x = "thread_id" /\ a.addr[x] = Row.thread_id
             \/ x = "workspace_id" /\ a.addr[x] = Lookup(r.metadata, "app_workspace")
  BY <1>1, <1>2, <1>4, <1>13, AddrRead DEF n
<1>15. /\ Namespace(a.meta) = Namespace(m.meta)
       /\ \A x : x # "scitrera" =>
             /\ x \in DOMAIN a.meta <=> x \in DOMAIN r.metadata
             /\ x \in DOMAIN r.metadata => a.meta[x] = r.metadata[x]
       /\ "scitrera" \in DOMAIN a.meta => Namespace(m.meta) # EmptyDict
  BY <1>1, <1>3, <1>4, MetaRead, NamespaceRead
<1>16. Lookup(a.meta, "app_workspace") = Lookup(r.metadata, "app_workspace")
  BY <1>15 DEF Lookup
<1>17. Within(Without(m.meta, {"scitrera"}), a.meta)
  <2>1. ASSUME NEW x \in DOMAIN Without(m.meta, {"scitrera"})
        PROVE  x \in DOMAIN m.meta /\ x # "scitrera" /\ Without(m.meta, {"scitrera"})[x] = m.meta[x]
    BY DEF Without, Restrict
  <2> QED  BY <1>1, <1>15, <2>1 DEF Within
<1>18. DOMAIN a.meta \ DOMAIN m.meta \subseteq {"app_workspace"}
  <2>1. Namespace(m.meta) # EmptyDict => "scitrera" \in DOMAIN m.meta
    BY NamespaceFacts DEF IsMessage
  <2> QED  BY <1>1, <1>15, <2>1
<1>19. Keeps(a, m)
  BY <1>9, <1>10, <1>11, <1>12, <1>14, <1>15, <1>17 DEF Keeps, Within
<1>20. Fills(a, m)
  BY <1>5, <1>10, <1>14, <1>15, <1>16, <1>18 DEF Fills
<1> QED  BY <1>19, <1>20 DEF Extends, a, r

\* What any client writes, every other can read.
LEMMA WrittenIsReadable ==
    ASSUME NEW m, NEW l, NEW k, IsMessage(m)
    PROVE  CanRead(k, Stored(ToMemoryLayerPayload(l, m)))
<1> DEFINE payload == ToMemoryLayerPayload(l, m)
           r == Stored(payload)
           n == Namespace(r.metadata)
           b == payload.content.blocks
<1>1. r.role = m.role /\ r.content = payload.content
  BY DEF Stored, ToMemoryLayerPayload
<1>2. n = Over(Namespace(m.meta), SpecExtras(m))
  BY RowWritten
<1>3. /\ payload.content.string = None
      /\ b = [i \in DOMAIN m.content |-> PartToMLContent(l, m.content[i])]
      /\ DOMAIN b = DOMAIN m.content
  BY ContentWritten DEF IsMessage, IsContent
<1> HIDE DEF payload, r, n, b
<1>4. Lookup(n, "schema_version") = m.schema_version
  <2>1. "schema_version" \in DOMAIN SpecExtras(m)
    BY ExtrasFacts
  <2>2. Lookup(n, "schema_version") = SpecExtras(m)["schema_version"]
    BY <1>2, <2>1, LookupOver
  <2> QED  BY <2>1, <2>2, ExtrasFacts DEF Lookup
<1>5. m.role # None /\ m.schema_version # None
  BY ValueFacts DEF IsMessage
<1>6. ASSUME NEW i \in DOMAIN b
      PROVE  Readable(b[i])
  <2> DEFINE p == m.content[i]
  <2>1. IsPart(p) /\ b[i] = PartToMLContent(l, p)
    BY <1>3, <1>6 DEF IsMessage
  <2> HIDE DEF p
  <2>4. IsPart(p)
    BY <2>1
  <2>2. /\ PartToMLContent(l, p).type = p["type"]
        /\ p["type"] = "text" =>
              PartToMLContent(l, p).text = IF "text" \in DOMAIN p THEN p["text"] ELSE ""
    BY <2>4, BlockWritten
  <2>3. p["type"] = "text" /\ "text" \in DOMAIN p => p["text"] # None
    BY <2>1 DEF IsPart, Textual
  <2> QED  BY <2>1, <2>2, <2>3, ValueFacts DEF Readable
<1>7. CanRead(k, r)
  BY <1>1, <1>3, <1>4, <1>5, <1>6 DEF CanRead, n, b
<1> QED  BY <1>7 DEF r, payload

\* What a python client leaves in the row it read is a row, and every client reads
\* the same from it as before.
LEMMA RowLeft ==
    ASSUME NEW r, NEW l, IsRow(r), NEW s \in {r, RowAfterRead(l, r)}
    PROVE  /\ IsRow(s) /\ Residual(s) = Residual(r)
           /\ \A k : FromMemoryLayerMessage(k, s) = FromMemoryLayerMessage(k, r)
<1> DEFINE meta == r.metadata
           n == Namespace(meta)
           f == FilledAddr(r)
           e == Entry("addr", f)
           M == Over(meta, Entry("scitrera", Over(n, e)))
<1>1. CASE s = r
  BY <1>1
<1>2. CASE s # r
  <2>1. /\ l = "python" /\ Lookup(n, "addr") \notin {None, EmptyDict}
        /\ s = [r EXCEPT !.metadata = Over(@, Entry("scitrera", Over(@["scitrera"], e)))]
    BY <1>2 DEF RowAfterRead
  <2>2. HasNamespace(meta) /\ n = meta["scitrera"] /\ "scitrera" \in DOMAIN meta
    BY <2>1, LookupEmpty DEF Namespace, HasNamespace, Lookup
  <2>3. r = [id |-> r.id, thread_id |-> r.thread_id, created_at |-> r.created_at,
             role |-> r.role, content |-> r.content, metadata |-> meta]
    BY DEF IsRow
  <2>4. s = [id |-> r.id, thread_id |-> r.thread_id, created_at |-> r.created_at,
             role |-> r.role, content |-> r.content, metadata |-> M]
    <3> HIDE DEF e, n
    <3> QED  BY <2>1, <2>2, <2>3
  <2>5. IsNamespace(n)
    BY RowNamespace
  <2>6. IsAddr(f) /\ IsFcn(f)
    BY AddrRead
  <2>7. IsFields(e)
    BY <2>6 DEF IsFields, Entry, Reserved
  <2>8. DOMAIN e = {"addr"} /\ e["addr"] = f
    BY DEF Entry
  <2> HIDE DEF e, n, f, meta
  <2>9. IsNamespace(Over(n, e)) /\ Without(Over(n, e), Reserved) = Without(n, Reserved)
    BY <2>5, <2>7, FieldsOver
  <2>10. IsMeta(meta)
    BY DEF IsRow, meta
  <2>11. "app_workspace" \in DOMAIN meta => meta["app_workspace"] \in Workspace
    BY <2>10 DEF IsMeta
  <2>12. /\ IsMeta(M) /\ HasNamespace(M) /\ Namespace(M) = Over(n, e)
         /\ DOMAIN M = DOMAIN meta \cup {"scitrera"}
         /\ \A x \in DOMAIN meta : x # "scitrera" => M[x] = meta[x]
    BY <2>9, <2>11, MetaWith
  <2> HIDE DEF M
  <2>13. /\ s.id = r.id /\ s.thread_id = r.thread_id /\ s.created_at = r.created_at
         /\ s.role = r.role /\ s.content = r.content /\ s.metadata = M
         /\ s = [id |-> s.id, thread_id |-> s.thread_id, created_at |-> s.created_at,
                 role |-> s.role, content |-> s.content, metadata |-> s.metadata]
    BY <2>4
  <2>14. IsRow(s)
    BY <2>12, <2>13 DEF IsRow
  <2>15. Residual(s) = Residual(r)
    BY <2>9, <2>12, <2>13 DEF Residual, n, meta
  <2>16. OwnMeta(s) = OwnMeta(r)
    <3>1. DOMAIN M \ {"scitrera"} = DOMAIN meta \ {"scitrera"}
      BY <2>12
    <3>2. Without(M, {"scitrera"}) = Without(meta, {"scitrera"})
      <4> DEFINE c == Without(M, {"scitrera"})
                 d == Without(meta, {"scitrera"})
      <4>1. IsFcn(c) /\ DOMAIN c = DOMAIN M \ {"scitrera"} /\ \A x \in DOMAIN c : c[x] = M[x]
        BY DEF Without, Restrict, IsFcn
      <4>2. IsFcn(d) /\ DOMAIN d = DOMAIN meta \ {"scitrera"} /\ \A x \in DOMAIN d : d[x] = meta[x]
        BY DEF Without, Restrict, IsFcn
      <4> HIDE DEF c, d
      <4>3. DOMAIN c = DOMAIN d /\ \A x \in DOMAIN c : c[x] = d[x]
        BY <2>12, <3>1, <4>1, <4>2
      <4>4. c = d
        BY <4>1, <4>2, <4>3, SameFcn
      <4> QED  BY <4>4 DEF c, d
    <3> QED  BY <2>2, <2>12, <2>13, <3>2 DEF OwnMeta, meta
  <2>17. Lookup(s.metadata, "app_workspace") = Lookup(r.metadata, "app_workspace")
    BY <2>12, <2>13 DEF Lookup, meta
  <2>18. /\ Lookup(Over(n, e), "addr") = f
         /\ \A x : x # "addr" => Lookup(Over(n, e), x) = Lookup(n, x)
    BY <2>8 DEF Over, Lookup
  <2>19. FilledAddr(s) = f
    <3>1. f # None
      BY <2>6, AddrNotNone
    <3> DEFINE ws     == Lookup(r.metadata, "app_workspace")
               thread == OptionalEntry("thread_id", r.thread_id, r.thread_id # None)
               space  == OptionalEntry("workspace_id", ws, ws # None)
               known  == Over(thread, space)
    <3>2. OrElse(Lookup(Namespace(s.metadata), "addr"), EmptyDict) = f
      BY <2>12, <2>13, <2>18, <3>1 DEF OrElse
    <3>3. FilledAddr(s) = Over(known, f)
      BY <2>13, <2>17, <3>2 DEF FilledAddr
    <3>4. DOMAIN known \subseteq DOMAIN f
      <4>1. /\ DOMAIN thread = IF r.thread_id # None THEN {"thread_id"} ELSE {}
            /\ DOMAIN space = IF ws # None THEN {"workspace_id"} ELSE {}
        BY DEF OptionalEntry, Entry, EmptyDict
      <4>2. DOMAIN known = DOMAIN thread \cup DOMAIN space
        BY DEF Over
      <4>3. /\ r.thread_id # None => "thread_id" \in DOMAIN f
            /\ ws # None => "workspace_id" \in DOMAIN f
        BY AddrRead DEF f
      <4> HIDE DEF known, thread, space, ws
      <4> QED  BY <4>1, <4>2, <4>3
    <3> HIDE DEF known
    <3>5. DOMAIN known \cup DOMAIN f = DOMAIN f
      BY <3>4
    <3>6. Over(known, f) = f
      <4>1. /\ IsFcn(Over(known, f)) /\ DOMAIN Over(known, f) = DOMAIN f
            /\ \A x \in DOMAIN f : Over(known, f)[x] = f[x]
        BY <3>5 DEF Over, IsFcn
      <4> QED  BY <2>6, <4>1, SameFcn
    <3> QED  BY <3>3, <3>6
  <2>20. ASSUME NEW k
         PROVE  FromMemoryLayerMessage(k, s) = FromMemoryLayerMessage(k, r)
    <3>1. ReadMeta(k, s) = ReadMeta(k, r)
      BY <2>15, <2>16 DEF ReadMeta
    <3>2. /\ Lookup(Namespace(s.metadata), "schema_version") = Lookup(n, "schema_version")
          /\ Lookup(Namespace(s.metadata), "message_id") = Lookup(n, "message_id")
          /\ Lookup(Namespace(s.metadata), "created_at") = Lookup(n, "created_at")
          /\ Lookup(Namespace(s.metadata), "ref") = Lookup(n, "ref")
      BY <2>12, <2>13, <2>18
    <3>3. FilledAddr(s) = FilledAddr(r)
      BY <2>19 DEF f
    <3> QED  BY <2>13, <3>1, <3>2, <3>3 DEF FromMemoryLayerMessage, n, meta
  <2> QED  BY <2>14, <2>15, <2>20
<1> QED  BY <1>1, <1>2

----------------------------------------------------------------------------
\* Extending a message, and amending it.

LEMMA ExtendsItself ==
    ASSUME NEW m, NEW w, IsMessage(m),
           m.schema_version = w.schema_version, m.id = w.id, m.role = w.role,
           m.created_at = w.created_at, m.addr = w.addr, m.meta = w.meta, m.ref = w.ref,
           SameContent(m.content, w.content)
    PROVE  Extends(m, w)
<1>1. Within(Without(w.meta, {"scitrera"}), m.meta)
  BY DEF Within, Without, Restrict
<1>2. DOMAIN Namespace(m.meta) \cap Reserved = {}
  BY DEF IsMessage
<1> QED  BY <1>1, <1>2 DEF Extends, Keeps, Fills, Within

LEMMA ExtendsOn ==
    ASSUME NEW m, NEW h, NEW w, IsMessage(m), IsMessage(h), Extends(m, h), Extends(h, w)
    PROVE  Extends(m, w)
<1>1. SameContent(m.content, w.content)
  BY SameContentFacts DEF Extends, Keeps, IsMessage
<1>2. Within(w.addr, m.addr) /\ Within(Namespace(w.meta), Namespace(m.meta))
  BY DEF Extends, Keeps, Within
<1>3. \A k \in DOMAIN h.meta : k # "scitrera" => k \in DOMAIN m.meta /\ m.meta[k] = h.meta[k]
  <2>1. ASSUME NEW k \in DOMAIN h.meta, k # "scitrera"
        PROVE  k \in DOMAIN m.meta /\ m.meta[k] = h.meta[k]
    <3>1. k \in DOMAIN Without(h.meta, {"scitrera"}) /\ Without(h.meta, {"scitrera"})[k] = h.meta[k]
      BY <2>1 DEF Without, Restrict
    <3> QED  BY <3>1 DEF Extends, Keeps, Within
  <2> QED  BY <2>1
<1>4. Within(Without(w.meta, {"scitrera"}), m.meta)
  <2>1. Within(Without(w.meta, {"scitrera"}), h.meta)
    BY DEF Extends, Keeps
  <2>2. \A k \in DOMAIN Without(w.meta, {"scitrera"}) : k # "scitrera"
    BY DEF Without, Restrict
  <2> QED  BY <1>3, <2>1, <2>2 DEF Within
<1>5. Keeps(m, w)
  BY <1>1, <1>2, <1>4 DEF Extends, Keeps
<1>6. ASSUME NEW k \in DOMAIN m.addr \ DOMAIN w.addr
      PROVE  \/ k = "thread_id" /\ m.addr[k] = Row.thread_id
             \/ k = "workspace_id" /\ m.addr[k] = Lookup(m.meta, "app_workspace")
  <2>1. CASE k \notin DOMAIN h.addr
    BY <1>6, <2>1 DEF Extends, Fills
  <2>2. CASE k \in DOMAIN h.addr
    <3>1. m.addr[k] = h.addr[k]
      BY <2>2 DEF Extends, Keeps, Within
    <3>2. \/ k = "thread_id" /\ h.addr[k] = Row.thread_id
          \/ k = "workspace_id" /\ h.addr[k] = Lookup(h.meta, "app_workspace")
      BY <1>6, <2>2 DEF Extends, Fills
    <3>3. h.addr[k] # None
      BY <2>2, ValueFacts DEF IsMessage, IsAddr, IsDict
    <3>4. Lookup(h.meta, "app_workspace") # None =>
             Lookup(m.meta, "app_workspace") = Lookup(h.meta, "app_workspace")
      BY <1>3 DEF Lookup
    <3> QED  BY <3>1, <3>2, <3>3, <3>4
  <2> QED  BY <2>1, <2>2
<1>7. /\ m.created_at \in {w.created_at, Row.created_at}
      /\ DOMAIN m.meta \ DOMAIN w.meta \subseteq {"app_workspace"}
      /\ DOMAIN Namespace(m.meta) \cap Reserved = {}
  BY DEF Extends, Fills
<1>8. Fills(m, w)
  BY <1>6, <1>7 DEF Fills
<1> QED  BY <1>5, <1>8 DEF Extends

LEMMA RefDropped ==
    ASSUME NEW m, NEW w, IsMessage(m), IsMessage(w)
    PROVE  /\ IsMessage([m EXCEPT !.ref = None]) /\ IsMessage([w EXCEPT !.ref = None])
           /\ Extends(m, w) => Extends([m EXCEPT !.ref = None], [w EXCEPT !.ref = None])
<1> DEFINE Dropped(x) == [x EXCEPT !.ref = None]
<1>1. ASSUME NEW x, IsMessage(x)
      PROVE  /\ Dropped(x) = [schema_version |-> x.schema_version, id |-> x.id, role |-> x.role,
                              created_at |-> x.created_at, content |-> x.content,
                              addr |-> x.addr, meta |-> x.meta, ref |-> None]
  BY <1>1 DEF IsMessage
<1> HIDE DEF Dropped
<1>2. ASSUME NEW x, IsMessage(x)
      PROVE  /\ IsMessage(Dropped(x))
             /\ Dropped(x).schema_version = x.schema_version /\ Dropped(x).id = x.id
             /\ Dropped(x).role = x.role /\ Dropped(x).created_at = x.created_at
             /\ Dropped(x).content = x.content /\ Dropped(x).addr = x.addr
             /\ Dropped(x).meta = x.meta /\ Dropped(x).ref = None
  BY <1>1, <1>2 DEF IsMessage
<1>3. Extends(m, w) => Extends(Dropped(m), Dropped(w))
  BY <1>2 DEF Extends, Keeps, Fills
<1> QED  BY <1>2, <1>3 DEF Dropped

LEMMA MessageMoved ==
    ASSUME NEW m, IsMessage(m), NEW ws \in Workspace
    PROVE  LET x == Moved(m, ws)
           IN  /\ IsMessage(x)
               /\ x.schema_version = m.schema_version /\ x.id = m.id /\ x.role = m.role
               /\ x.created_at = m.created_at /\ x.content = m.content
               /\ x.meta = m.meta /\ x.ref = m.ref
               /\ DOMAIN x.addr = DOMAIN m.addr \cup {"workspace_id"}
               /\ x.addr["workspace_id"] = ws
               /\ \A k \in DOMAIN m.addr : k # "workspace_id" => x.addr[k] = m.addr[k]
<1> DEFINE x == Moved(m, ws)
           a == Over(m.addr, Entry("workspace_id", ws))
<1>1. x = [schema_version |-> m.schema_version, id |-> m.id, role |-> m.role,
           created_at |-> m.created_at, content |-> m.content,
           addr |-> a, meta |-> m.meta, ref |-> m.ref]
  BY DEF IsMessage, Moved
<1>2. /\ IsFcn(a) /\ DOMAIN a = DOMAIN m.addr \cup {"workspace_id"} /\ a["workspace_id"] = ws
      /\ \A k \in DOMAIN m.addr : k # "workspace_id" => a[k] = m.addr[k]
  BY DEF Over, Entry, IsFcn
<1> HIDE DEF x, a
<1>3. IsAddr(m.addr)
  BY DEF IsMessage
<1>4. IsAddr(a)
  BY <1>2, <1>3, ValueFacts DEF IsAddr, IsDict, IsFcn
<1>5. IsMessage(x)
  BY <1>1, <1>4 DEF IsMessage
<1> QED  BY <1>1, <1>2, <1>5 DEF x

LEMMA ExtendsMoved ==
    ASSUME NEW m, NEW w, IsMessage(m), IsMessage(w), NEW ws \in Workspace, Extends(m, w)
    PROVE  Extends(Moved(m, ws), Moved(w, ws))
<1> DEFINE x == Moved(m, ws)
           y == Moved(w, ws)
<1>1. /\ x.schema_version = m.schema_version /\ x.id = m.id /\ x.role = m.role
      /\ x.created_at = m.created_at /\ x.content = m.content
      /\ x.meta = m.meta /\ x.ref = m.ref
      /\ DOMAIN x.addr = DOMAIN m.addr \cup {"workspace_id"}
      /\ x.addr["workspace_id"] = ws
      /\ \A k \in DOMAIN m.addr : k # "workspace_id" => x.addr[k] = m.addr[k]
  BY MessageMoved
<1>2. /\ y.schema_version = w.schema_version /\ y.id = w.id /\ y.role = w.role
      /\ y.created_at = w.created_at /\ y.content = w.content
      /\ y.meta = w.meta /\ y.ref = w.ref
      /\ DOMAIN y.addr = DOMAIN w.addr \cup {"workspace_id"}
      /\ y.addr["workspace_id"] = ws
      /\ \A k \in DOMAIN w.addr : k # "workspace_id" => y.addr[k] = w.addr[k]
  BY MessageMoved
<1> HIDE DEF x, y
<1>3. Keeps(m, w) /\ Fills(m, w)
  BY DEF Extends
<1>4. Within(y.addr, x.addr)
  BY <1>1, <1>2, <1>3 DEF Keeps, Within
<1>5. Keeps(x, y)
  BY <1>1, <1>2, <1>3, <1>4 DEF Keeps
<1>6. ASSUME NEW k \in DOMAIN x.addr \ DOMAIN y.addr
      PROVE  \/ k = "thread_id" /\ x.addr[k] = Row.thread_id
             \/ k = "workspace_id" /\ x.addr[k] = Lookup(x.meta, "app_workspace")
  <2>1. k \in DOMAIN m.addr \ DOMAIN w.addr /\ k # "workspace_id" /\ x.addr[k] = m.addr[k]
    BY <1>1, <1>2, <1>6
  <2> QED  BY <1>1, <1>3, <2>1 DEF Fills
<1>7. Fills(x, y)
  BY <1>1, <1>2, <1>3, <1>6 DEF Fills
<1> QED  BY <1>5, <1>7 DEF Extends, x, y

----------------------------------------------------------------------------
\* The theorems.

LEMMA TypesFirst == CodecInit => CodecTypeOK
  BY InputAssumption DEF CodecInit, CodecTypeOK

LEMMA TypesKept == CodecTypeOK /\ [CodecNext]_codecVars => CodecTypeOK'
<1> SUFFICES ASSUME CodecTypeOK, [CodecNext]_codecVars
             PROVE  CodecTypeOK'
  OBVIOUS
<1>1. ASSUME NEW l \in Client, Write(l)
      PROVE  CodecTypeOK'
  <2>1. IsMessage(held) /\ IsMessage(was)
    BY <1>1 DEF CodecTypeOK, Write
  <2>2. IsRow(row')
    BY <1>1, <2>1, RowWritten DEF Write
  <2> QED  BY <1>1, <2>1, <2>2 DEF CodecTypeOK, Write
<1>2. ASSUME NEW l \in Client, Read(l)
      PROVE  CodecTypeOK'
  <2>1. IsRow(row) /\ row' \in {row, RowAfterRead(l, row)}
    BY <1>2 DEF CodecTypeOK, Read
  <2>2. IsMessage(held')
    BY <1>2, <2>1, MessageRead DEF Read
  <2>3. IsRow(row')
    BY <2>1, RowLeft
  <2>4. IsMessage(was') /\ rowWas' = was'
    BY <1>2, <2>2 DEF CodecTypeOK, Read
  <2> QED  BY <2>2, <2>3, <2>4 DEF CodecTypeOK
<1>6. ASSUME NEW l \in Client, FailToRead(l)
      PROVE  CodecTypeOK'
  <2>1. IsRow(row')
    BY <1>6, RowLeft DEF CodecTypeOK, FailToRead
  <2> QED  BY <1>6, <2>1 DEF CodecTypeOK, FailToRead
<1>3. CASE DropRef
  <2>1. IsMessage(held) /\ IsMessage(was)
    BY <1>3 DEF CodecTypeOK, DropRef
  <2>2. IsMessage(held') /\ IsMessage(was')
    BY <1>3, <2>1, RefDropped DEF DropRef
  <2> QED  BY <1>3, <2>2 DEF CodecTypeOK, DropRef
<1>4. ASSUME NEW w \in Workspace, Move(w)
      PROVE  CodecTypeOK'
  <2>1. IsMessage(held) /\ IsMessage(was)
    BY <1>4 DEF CodecTypeOK, Move
  <2>2. IsMessage(held') /\ IsMessage(was')
    BY <1>4, <2>1, MessageMoved DEF Move
  <2> QED  BY <1>4, <2>2 DEF CodecTypeOK, Move
<1>5. CASE UNCHANGED codecVars
  BY <1>5 DEF CodecTypeOK, codecVars
<1> QED  BY <1>1, <1>2, <1>3, <1>4, <1>5, <1>6 DEF CodecNext

\* Whatever rows there are, and whoever wrote them, what a client holds validates:
\* the codecs never make a part without its type, or a message out of its schema
\* (memorylayer.py:126-177).
THEOREM HeldMessagesValidate == CodecSpec => []CodecTypeOK
  BY TypesFirst, TypesKept, PTL DEF CodecSpec

\* No typescript client reads a row with producer keys under meta.scitrera.
NoTagsAtRisk == ~TagsAtRisk \/ "typescript" \notin Client

\* No python or typescript client writes an unknown part that has null keys.
NoNullsAtRisk == ~NullsAtRisk \/ Client \subseteq {"go"}

LEMMA MaySeesAll ==
    ASSUME NoTagsAtRisk, NEW l \in Client, NEW r, MayRead(l, r)
    PROVE  SeesAll(l, r)
  BY DEF NoTagsAtRisk, MayRead, SeesAll

LEMMA ExtendsFirst == CodecInit => CodecInv
<1> SUFFICES ASSUME CodecInit
             PROVE  CodecInv
  OBVIOUS
<1>1. CodecTypeOK
  BY TypesFirst
<1>2. held # None => Extends(held, was)
  BY <1>1, ExtendsItself, SameContentFacts DEF CodecInit, CodecTypeOK
<1> QED  BY <1>1, <1>2 DEF CodecInit, CodecInv

LEMMA ExtendsKept ==
    ASSUME NoTagsAtRisk, NoNullsAtRisk
    PROVE  CodecInv /\ [CodecNext]_codecVars => CodecInv'
<1> SUFFICES ASSUME CodecInv, [CodecNext]_codecVars
             PROVE  CodecInv'
  OBVIOUS
<1>1. CodecTypeOK /\ CodecTypeOK'
  BY TypesKept DEF CodecInv
<1>2. ASSUME NEW l \in Client, Write(l)
      PROVE  CodecInv'
  <2>1. /\ IsMessage(held) /\ IsMessage(was) /\ Extends(held, was)
        /\ row' = Stored(ToMemoryLayerPayload(l, held))
        /\ held' = held /\ was' = was /\ rowWas' = was
    BY <1>1, <1>2 DEF CodecInv, CodecTypeOK, Write
  <2>5. l = "go" \/ \A i \in DOMAIN held.content : NoNulls(held.content[i])
    BY <1>2 DEF Write, MayWrite, NoNullsAtRisk
  <2>2. ASSUME NEW k \in Client, MayRead(k, row')
        PROVE  Extends(FromMemoryLayerMessage(k, row'), was)
    <3> DEFINE m == FromMemoryLayerMessage(k, row')
    <3>1. IsRow(row')
      BY <2>1, RowWritten
    <3>2. IsMessage(m)
      BY <3>1, MessageRead
    <3>3. Extends(m, held)
      <4>1. SeesAll(k, row')
        BY <2>2, MaySeesAll
      <4> QED  BY <2>1, <2>5, <4>1, RoundTrip
    <3> HIDE DEF m
    <3>4. Extends(m, was)
      BY <2>1, <3>2, <3>3, ExtendsOn
    <3> QED  BY <3>4 DEF m
  <2>3. held' # None => Extends(held', was')
    BY <2>1
  <2>4. \A k \in Client : MayRead(k, row') => Extends(FromMemoryLayerMessage(k, row'), rowWas')
    BY <2>1, <2>2
  <2> QED  BY <1>1, <2>3, <2>4 DEF CodecInv
<1>3. ASSUME NEW l \in Client, Read(l)
      PROVE  CodecInv'
  <2> DEFINE m == FromMemoryLayerMessage(l, row)
  <2>1. /\ IsRow(row) /\ row' \in {row, RowAfterRead(l, row)} /\ MayRead(l, row)
        /\ held' = m /\ was' = (IF rowWas = None THEN m ELSE rowWas) /\ rowWas' = was'
    BY <1>1, <1>3 DEF CodecTypeOK, Read
  <2>2. IsMessage(m)
    BY <2>1, MessageRead
  <2>3. ASSUME NEW k \in Client, MayRead(k, row)
        PROVE  Extends(FromMemoryLayerMessage(k, row), was')
    <3>1. CASE rowWas = None
      <4> DEFINE c == FromMemoryLayerMessage(k, row)
      <4>1. IsMessage(c)
        BY <2>1, MessageRead
      <4>2. /\ c.schema_version = m.schema_version /\ c.id = m.id /\ c.role = m.role
            /\ c.created_at = m.created_at /\ c.addr = m.addr /\ c.meta = m.meta
            /\ c.ref = m.ref
            /\ SameContent(c.content, m.content)
        BY <2>1, <2>3, MaySeesAll, ReadTheSame
      <4> HIDE DEF c, m
      <4>3. Extends(c, m)
        BY <4>1, <4>2, ExtendsItself
      <4> QED  BY <2>1, <3>1, <4>3 DEF c
    <3>2. CASE rowWas # None
      BY <2>1, <2>3, <3>2, <1>3 DEF CodecInv, Read
    <3> QED  BY <3>1, <3>2
  <2>4. held' # None => Extends(held', was')
    BY <2>1, <2>3
  <2>5. Residual(row') = Residual(row)
        /\ \A k : FromMemoryLayerMessage(k, row') = FromMemoryLayerMessage(k, row)
    BY <2>1, RowLeft
  <2>6. \A k : MayRead(k, row') <=> MayRead(k, row)
    BY <2>5 DEF MayRead
  <2>7. \A k \in Client : MayRead(k, row') => Extends(FromMemoryLayerMessage(k, row'), rowWas')
    BY <2>1, <2>3, <2>5, <2>6
  <2> QED  BY <1>1, <2>4, <2>7 DEF CodecInv
<1>7. ASSUME NEW l \in Client, FailToRead(l)
      PROVE  CodecInv'
  <2>1. /\ IsRow(row) /\ row' \in {row, RowAfterRead(l, row)}
        /\ held' = held /\ was' = was /\ rowWas' = rowWas
    BY <1>1, <1>7 DEF CodecTypeOK, FailToRead
  <2>2. Residual(row') = Residual(row)
        /\ \A k : FromMemoryLayerMessage(k, row') = FromMemoryLayerMessage(k, row)
    BY <2>1, RowLeft
  <2>3. \A k : MayRead(k, row') <=> MayRead(k, row)
    BY <2>2 DEF MayRead
  <2>4. rowWas' # None =>
           \A k \in Client : MayRead(k, row') => Extends(FromMemoryLayerMessage(k, row'), rowWas')
    BY <1>7, <2>1, <2>2, <2>3 DEF CodecInv, FailToRead
  <2>5. held' # None => Extends(held', was')
    BY <2>1 DEF CodecInv
  <2> QED  BY <1>1, <2>4, <2>5 DEF CodecInv
<1>4. CASE DropRef
  <2>1. IsMessage(held) /\ IsMessage(was) /\ Extends(held, was)
    BY <1>1, <1>4 DEF CodecInv, CodecTypeOK, DropRef
  <2>2. Extends(held', was')
    BY <1>4, <2>1, RefDropped DEF DropRef
  <2> QED  BY <1>1, <1>4, <2>2 DEF CodecInv, DropRef
<1>5. ASSUME NEW w \in Workspace, Move(w)
      PROVE  CodecInv'
  <2>1. IsMessage(held) /\ IsMessage(was) /\ Extends(held, was)
    BY <1>1, <1>5 DEF CodecInv, CodecTypeOK, Move
  <2>2. Extends(held', was')
    BY <1>5, <2>1, ExtendsMoved DEF Move
  <2> QED  BY <1>1, <1>5, <2>2 DEF CodecInv, Move
<1>6. CASE UNCHANGED codecVars
  BY <1>1, <1>6 DEF CodecInv, codecVars
<1> QED  BY <1>2, <1>3, <1>4, <1>5, <1>6, <1>7 DEF CodecNext

\* However often a message is written and read, by whichever clients, and amended in
\* between, nothing of it is lost and nothing taken out comes back, the null keys of
\* unknown parts included -- as long as no typescript client reads a row with producer
\* keys, and no python or typescript client writes an unknown part that has null keys:
\* those lose them (memorylayer.py:137, memorylayer.ts:91, 139).
THEOREM NothingIsLost ==
    ASSUME NoTagsAtRisk, NoNullsAtRisk
    PROVE  CodecSpec => []Lossless
<1>1. CodecInv => Lossless
  BY DEF CodecInv, Extends, Lossless
<1> QED  BY <1>1, ExtendsFirst, ExtendsKept, PTL DEF CodecSpec

\* And all that reading adds is what MemoryLayer knows (memorylayer.py:65-67): no field
\* of the message stays behind in the metadata, to be written a second time.
THEOREM OnlyFilledIn ==
    ASSUME NoTagsAtRisk, NoNullsAtRisk
    PROVE  CodecSpec => []OnlyFilled
<1>1. CodecInv => OnlyFilled
  BY DEF CodecInv, Extends, OnlyFilled
<1> QED  BY <1>1, ExtendsFirst, ExtendsKept, PTL DEF CodecSpec

\* Clients of any two languages that can both read a row read the same message from
\* it, whoever wrote it, the null keys of its unknown parts included; and what any of
\* them writes all of them can read (memorylayer.go:13-14, memorylayer.ts:12-13).  It
\* does not say that they can read the same rows: python raises at nulls of others'
\* rows where go and typescript fall back.
THEOREM LanguagesAgree ==
    ASSUME NoTagsAtRisk
    PROVE  CodecSpec => []ReadersAgree
<1>1. ASSUME CodecTypeOK, row # None,
             NEW l \in Client, NEW k \in Client, MayRead(l, row), MayRead(k, row)
      PROVE  LET a == FromMemoryLayerMessage(l, row)
                 b == FromMemoryLayerMessage(k, row)
             IN  [a EXCEPT !.content = <<>>] = [b EXCEPT !.content = <<>>]
                 /\ SameContent(a.content, b.content)
  <2> DEFINE a == FromMemoryLayerMessage(l, row)
             b == FromMemoryLayerMessage(k, row)
  <2>1. IsMessage(a) /\ IsMessage(b)
    BY <1>1, MessageRead DEF CodecTypeOK
  <2>2. /\ a.schema_version = b.schema_version /\ a.id = b.id /\ a.role = b.role
        /\ a.created_at = b.created_at /\ a.addr = b.addr /\ a.meta = b.meta
        /\ a.ref = b.ref
        /\ SameContent(a.content, b.content)
    BY <1>1, MaySeesAll, ReadTheSame DEF CodecTypeOK
  <2> HIDE DEF a, b
  <2>3. [a EXCEPT !.content = <<>>] = [b EXCEPT !.content = <<>>]
    BY <2>1, <2>2 DEF IsMessage
  <2> QED  BY <2>2, <2>3 DEF a, b
<1>2. CodecTypeOK /\ held # None =>
         \A l, k \in Client : CanRead(k, Stored(ToMemoryLayerPayload(l, held)))
  BY WrittenIsReadable DEF CodecTypeOK
<1>3. CodecTypeOK => ReadersAgree
  BY <1>1, <1>2 DEF ReadersAgree
<1> QED  BY <1>3, HeldMessagesValidate, PTL

\* A row that is read, moved and written back is indexed where it was before
\* (memorylayer.py:40-41), whatever languages do it.
THEOREM IndexKeepsTheOrigin == CodecSpec => []OriginStays
<1>1. CodecTypeOK => OriginStays
  <2> SUFFICES ASSUME CodecTypeOK, row # None,
                      NEW l \in Client, NEW k \in Client, NEW w \in Workspace,
                      CanRead(l, row)
               PROVE  LET read   == FromMemoryLayerMessage(l, row)
                          stored == ToMemoryLayerPayload(k, Moved(read, w)).metadata
                          origin == Lookup(row.metadata, "app_workspace")
                      IN  stored["app_workspace"] = OrElse(origin, w)
    BY DEF OriginStays
  <2> DEFINE read == FromMemoryLayerMessage(l, row)
             m    == Moved(read, w)
             r    == Stored(ToMemoryLayerPayload(k, m))
             ws   == Lookup(row.metadata, "app_workspace")
  <2>1. IsRow(row)
    BY DEF CodecTypeOK
  <2>2. IsMessage(read) /\ read.meta = ReadMeta(l, row)
    BY <2>1, MessageRead DEF FromMemoryLayerMessage
  <2>3. /\ IsMessage(m) /\ m.meta = read.meta
        /\ "workspace_id" \in DOMAIN m.addr /\ m.addr["workspace_id"] = w
    <3> HIDE DEF read
    <3> QED  BY <2>2, MessageMoved
  <2>4. Lookup(r.metadata, "app_workspace") =
           IF "app_workspace" \in DOMAIN m.meta THEN m.meta["app_workspace"]
           ELSE Lookup(m.addr, "workspace_id")
    <3> HIDE DEF m
    <3> QED  BY <2>3, RowWritten
  <2>5. r.metadata = ToMemoryLayerPayload(k, m).metadata
    BY DEF Stored
  <2>6. /\ "app_workspace" \in DOMAIN read.meta <=> "app_workspace" \in DOMAIN row.metadata
        /\ "app_workspace" \in DOMAIN row.metadata =>
              read.meta["app_workspace"] = row.metadata["app_workspace"]
    BY <2>1, <2>2, MetaRead
  <2>7. "app_workspace" \in DOMAIN row.metadata => row.metadata["app_workspace"] # None
    BY <2>1, ValueFacts DEF IsRow, IsMeta
  <2>8. w # None
    BY ValueFacts
  <2> HIDE DEF r, m, read
  <2>9. Lookup(r.metadata, "app_workspace") = OrElse(ws, w)
    BY <2>3, <2>4, <2>6, <2>7 DEF Lookup, OrElse
  <2>10. OrElse(ws, w) # None
    BY <2>8 DEF OrElse
  <2>11. r.metadata["app_workspace"] = OrElse(ws, w)
    BY <2>9, <2>10 DEF Lookup
  <2> QED  BY <2>5, <2>11 DEF r, m, read
<1> QED  BY <1>1, HeldMessagesValidate, PTL
===============================================================================
