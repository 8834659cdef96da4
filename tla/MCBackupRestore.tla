--------------------------- MODULE MCBackupRestore ---------------------------
(* One original and one Markdown file, two contents. *)
EXTENDS BackupRestore
=============================================================================
