-------------------------- MODULE MCCommitCustody --------------------------
(***************************************************************************)
(* Instances of CommitCustody.                                             *)
(***************************************************************************)
EXTENDS CommitCustody, TLC

\* Keys are only compared for equality.
KeySymmetry == Permutations(Keys)
=============================================================================
