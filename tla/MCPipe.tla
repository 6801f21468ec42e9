------------------------------- MODULE MCPipe -------------------------------
(***************************************************************************)
(* The pipe alone, with one host: what a call of it comes to.              *)
(***************************************************************************)
EXTENDS PipeSession, TLC

CONSTANT app

\* Hello, a request whose answer is refused, and one more.
MCMaxRequests == app :> 3
=============================================================================
