--------------------------- MODULE MCFileJournal ----------------------------
(***************************************************************************)
(* A small instance of FileJournal.                                        *)
(***************************************************************************)
EXTENDS FileJournal
=============================================================================
