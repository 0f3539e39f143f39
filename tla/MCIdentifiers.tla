---------------------------- MODULE MCIdentifiers ----------------------------
(* All names of up to five characters, a letter or a colon, and some longer  *)
(* ones with two letters.                                                    *)
EXTENDS Identifiers

Names == UNION {[1 .. n -> {"a", Colon}] : n \in 0 .. 5}
         \cup UNION {[1 .. n -> {"a", "b", Colon}] : n \in 1 .. 3}
=============================================================================
