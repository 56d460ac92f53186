----------------------------- MODULE MCStorage -----------------------------
(* Storage for TLC: four-bit bytes, commands of one and of two words.      *)
EXTENDS Storage

MCCommands == {<<3>>, <<4, 3>>}
=============================================================================
