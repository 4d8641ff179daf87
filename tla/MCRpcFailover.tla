---------------------------- MODULE MCRpcFailover ----------------------------
EXTENDS RpcFailover, TLC

CONSTANTS r1, r2

TwoRequests == {r1, r2}
ReadAndSend == r1 :> "read" @@ r2 :> "send"

\* The primary may fail or block, the fallback always answers.
OneGood == <<{"ok", "error", "blocked", "missing"}, {"ok"}>>
=============================================================================
