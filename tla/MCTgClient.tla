----------------------------- MODULE MCTgClient -----------------------------
(* One chat of the client with a short stream.                             *)
EXTENDS TgClient, TLC
=============================================================================
