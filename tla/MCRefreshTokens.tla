-------------------------- MODULE MCRefreshTokens --------------------------
(***************************************************************************)
(* Instances of RefreshTokens for TLC.                                     *)
(***************************************************************************)
EXTENDS RefreshTokens

CONSTANTS a, b,       \* requests
          t1, t2, t3  \* tokens
=============================================================================
