--------------------------- MODULE MCDraftEditing ---------------------------
(***************************************************************************)
(* Instances of DraftEditing.                                              *)
(***************************************************************************)
EXTENDS DraftEditing
=============================================================================
