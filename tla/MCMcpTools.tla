----------------------------- MODULE MCMcpTools -----------------------------
(* Instances of McpTools: what the clients ask for.                        *)
EXTENDS McpTools

CONSTANTS a, b

Two    == {a, b}
First(r, s) == [c \in Two |-> IF c = a THEN r ELSE s]

(* Each tool with the arguments its definition requires, next to a call    *)
(* that is recorded.                                                       *)
Alone == {First(Full(t.name), Call("find", {})) : t \in Advertised}

(* Pipelines with what read-only mode forbids, at depth one and two, with  *)
(* what it does not, and with an operation nobody knows.                   *)
Inner == Pipeline(<<Full("find"), Full("insert")>>)
Mixed == {Pipeline(<<Full("find"), Full("delete")>>), Pipeline(<<Full("find"), Inner>>),
          Pipeline(<<Full("transaction_pipeline"), Embed(<<TRUE>>)>>),
          Pipeline(<<Call("find_and_modify", InColl), Full("find")>>),
          Pipeline(<<Call("search", InColl), Full("find")>>), Pipeline(<<>>)}
Piped == {First(r, s) : r \in Mixed,
          s \in {Full("insert"), Full("explain_session"), Full("explain_last")}}

(* A script of the session beside a call that is recorded.                 *)
Scripted == {First(Full("explain_session"), Embed(<<TRUE, TRUE>>)),
             First(Full("find"), Full("insert")), First(Full("explain_session"), Full("find"))}

Everything == {"analytics", "ingestion", "watcher", "voyage", "translator"}
All == Alone \union Piped \union Scripted
=============================================================================
