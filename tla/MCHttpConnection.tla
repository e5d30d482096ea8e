-------------------------- MODULE MCHttpConnection --------------------------
(* Instances of HttpConnection need bounds only. *)
EXTENDS HttpConnection
=============================================================================
