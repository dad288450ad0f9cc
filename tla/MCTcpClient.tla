----------------------------- MODULE MCTcpClient -----------------------------
(***************************************************************************)
(* Constants of TcpClient for TLC.                                         *)
(***************************************************************************)
EXTENDS TcpClient

(* With -c the server only answers; with -ec, which sends one command, it  *)
(* speaks twice of its own accord.                                         *)
MCMaxOutputs == [m \in {"c", "ec"} |-> IF m = "ec" THEN 2 ELSE 0]
=============================================================================
