-------------------------- MODULE MCRevocationRetry --------------------------
(***************************************************************************)
(* A small instance of RevocationRetry.                                    *)
(***************************************************************************)
EXTENDS RevocationRetry

CONSTANTS p1, p2, p3
=============================================================================
