---------------------------- MODULE MCRpcReconnect ----------------------------
(* The instance of MCRpcGroup, with the history of RpcReconnect. *)
EXTENDS MCRpcGroup, RpcReconnect
=============================================================================
