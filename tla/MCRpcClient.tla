---------------------------- MODULE MCRpcClient ----------------------------
(* Small instances of RpcClient: the constants are given in the .cfg files. *)
EXTENDS RpcClient
=============================================================================
