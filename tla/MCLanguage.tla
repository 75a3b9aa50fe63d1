----------------------------- MODULE MCLanguage -----------------------------
(* Two places, and a key without a translation.                             *)
EXTENDS Language
=============================================================================
