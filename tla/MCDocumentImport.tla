--------------------------- MODULE MCDocumentImport ---------------------------
(* Sessions importing the same PDF. *)
EXTENDS DocumentImport
=============================================================================
