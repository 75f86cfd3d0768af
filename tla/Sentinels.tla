----------------------------- MODULE Sentinels -----------------------------
(***************************************************************************)
(* What stands for a value that is not there, in the lanes.                *)
(***************************************************************************)

CONSTANTS
  Missing,   \* no file, receipt, commit, name or value; nothing detected or declared
  Torn,      \* a file that was not written to its end, or that does not parse
  Unparsed   \* a version that does not parse
=============================================================================
