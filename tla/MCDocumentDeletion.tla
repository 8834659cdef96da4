------------------------- MODULE MCDocumentDeletion -------------------------
(* Two documents of the same PDF (imported one after the other), the first
   with a Markdown file that is edited. *)
EXTENDS DocumentDeletion, TLC

CONSTANTS d1, d2, raw, md, v0, v1

MCFilesOf == d1 :> {raw, md} @@ d2 :> {raw}
=============================================================================
