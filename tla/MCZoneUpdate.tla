---------------------------- MODULE MCZoneUpdate ----------------------------
(* Two commands and one edit by others, on a type and a contact. *)
EXTENDS ZoneUpdate, TLC

CONSTANTS c1, c2

MCCommands == {c1, c2}
MCFields == {"type", "contact"}
MCChecked == {"type"}
Symmetric == Permutations(MCCommands)
=============================================================================
