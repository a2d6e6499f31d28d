----------------------------- MODULE MCNoteSave -----------------------------
(* Instance of NoteSave for TLC. *)
EXTENDS NoteSave
=============================================================================
