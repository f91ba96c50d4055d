---------------------------- MODULE MCExchange ----------------------------
(***************************************************************************)
(* Two calls, of a request that is served, one with another version and    *)
(* one that is too long for the server.                                    *)
(***************************************************************************)
EXTENDS Exchange, TLC

CONSTANTS find, foreign, huge

mcSize == find :> 2 @@ foreign :> 1 @@ huge :> 3
=============================================================================
