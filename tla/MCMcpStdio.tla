----------------------------- MODULE MCMcpStdio -----------------------------
(* Two tool calls that need the LLM and one that does not, for the bounded *)
(* instances of McpStdio.                                                  *)
EXTENDS McpStdio

CONSTANTS ask1, ask2, list
ThreeRequests == {ask1, ask2, list}
TwoAsk == {ask1, ask2}
=============================================================================
