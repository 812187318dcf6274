---------------------------- MODULE MCGovernance ----------------------------
(***************************************************************************)
(* A small instance of Governance for TLC.                                 *)
(***************************************************************************)
EXTENDS Governance

\* Each signer has one buffer to deploy; the first has two.
BufferOwners ==
    [b \in Buffers |-> IF b = "bob1" THEN "bob" ELSE "alice"]
=============================================================================
