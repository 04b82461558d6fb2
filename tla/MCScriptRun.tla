---------------------------- MODULE MCScriptRun ----------------------------
(* A small instance of ScriptRun for TLC.                                  *)
EXTENDS ScriptRun, TLC

CONSTANTS s1, r1, window
=============================================================================
