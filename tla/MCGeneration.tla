---------------------------- MODULE MCGeneration ----------------------------
(***************************************************************************)
(* Small instances of the language-model adapters for TLC.                 *)
(***************************************************************************)
EXTENDS GenerationProperties

AllProviders == {"gemini", "generic", "openai", "codex"}
=============================================================================
