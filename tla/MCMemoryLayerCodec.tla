-------------------------- MODULE MCMemoryLayerCodec --------------------------
(* Messages and rows for checking MemoryLayerCodec with TLC. *)
EXTENDS MemoryLayerCodec

CONSTANTS w1, w2, th0, th1, time0, time1, val

MCRow == [id |-> "row", thread_id |-> th0, created_at |-> time0]

MCKey ==
    {"type", "text", "note", "thread_id", "workspace_id", "parent_id", "agent_name"}
    \cup Reserved
MCValue ==
    {"", "1.0", "assistant", "text", "reasoning", "feedback", "unknown", "m", "row", "user", "t", "t2",
     w1, w2, th0, th1, time0, time1, val}

AnyOf(k, vals) == {EmptyDict} \cup {Entry(k, v) : v \in vals}
Both(D, E) == {Over(d, e) : d \in D, e \in E}

PartsOf(types, texts) ==
    {Over(Entry("type", t), d) :
        t \in types, d \in Both(AnyOf("note", {val, None}), AnyOf("text", texts))}

Parts ==
    PartsOf({"text"}, {"t", ""}) \cup PartsOf({"reasoning"}, {"t"})
    \cup PartsOf({"feedback", "unknown"}, {"t", None})

Contents == {<<>>} \cup {<<p>> : p \in Parts} \cup {<<p, [type |-> "text", text |-> "t"]>> : p \in Parts}

Addrs == Both(AnyOf("workspace_id", {w1, w2}), AnyOf("thread_id", {th1}))

Messages(contents, metas) ==
    [schema_version : {"1.0"}, id : {"m"}, role : {"user"}, created_at : {None, time1},
     content : contents, addr : Addrs, meta : metas,
     ref : {None, EmptyDict, [parent_id |-> val]}]

Metas(namespaces) ==
    Both(AnyOf("app_workspace", {w1}), Both(AnyOf("bucket", {val}), AnyOf("scitrera", namespaces)))

NoNamespace == {EmptyDict, NotADict}
AgentName == {[agent_name |-> val]}

\* Every part with a plain envelope, and every envelope with a plain part.
Composing(namespaces) ==
    Messages({<<[type |-> "text", text |-> "t"]>>}, Metas(namespaces))
    \cup Messages(Contents, {EmptyDict})

AllMessages    == Composing(NoNamespace \cup AgentName)
TaggedMessages == Composing(AgentName)

\* Rows that no client of this library wrote.
ForeignContents ==
    {[string |-> s, blocks |-> <<>>] : s \in {"", "t"}} \cup
    {[string |-> None, blocks |-> <<b>>] :
        b \in [type : {None, "text", "reasoning"}, text : {Absent, None, "t"},
               data : {EmptyDict, [note |-> val], [text |-> "t2"]}]}

\* What others may put under scitrera; null is not a version.
ForeignNamespaces ==
    NoNamespace \cup AgentName \cup {[addr |-> [thread_id |-> th1]], [schema_version |-> None]}

ForeignRows ==
    {[id |-> MCRow.id, thread_id |-> MCRow.thread_id, created_at |-> MCRow.created_at,
      role |-> r, content |-> c, metadata |-> m] :
        r \in {Absent, None, "user"}, c \in ForeignContents, m \in Metas(ForeignNamespaces)}

NoRows == {}
===============================================================================
