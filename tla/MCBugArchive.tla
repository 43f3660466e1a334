---------------------------- MODULE MCBugArchive ----------------------------
(* Instance of BugArchive for TLC: one bug, every earlier bug of its name. *)
EXTENDS BugArchive
=============================================================================
