-------------------------- MODULE MCInventoryInstall --------------------------
(* Two commands in a row, two changes by other programs and one crash; two   *)
(* interchangeable valid inventories and one that does not parse.            *)
EXTENDS InventoryInstall, TLC

CONSTANTS valid1, valid2, bad

MCBytes == {valid1, valid2, bad}
MCValidBytes == {valid1, valid2}
MCSymmetry == Permutations(MCValidBytes)
==============================================================================
