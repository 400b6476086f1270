------------------------------ MODULE MCPkiLocks ------------------------------
(* A holder and its rival, either of which may be the child the other forked,  *)
(* and one lock or two.  There is a description for every lock that can be    *)
(* open at the same time.                                                     *)
EXTENDS PkiLocks

MCProfiles == {1, 2}
MCDescriptions == 1..(2 * Cardinality(Processes))
==============================================================================
