----------------------------- MODULE MCRpcBatch -----------------------------
(***************************************************************************)
(* Small instances of RpcBatch: batches of four or five requests.          *)
(***************************************************************************)
EXTENDS RpcBatch

MCFirstIds == {-1, 3}
=============================================================================
