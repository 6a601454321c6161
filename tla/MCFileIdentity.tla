---------------------------- MODULE MCFileIdentity -----------------------------
(* One path the UI thread resolves while the file is being written. *)
EXTENDS FileIdentity
================================================================================
