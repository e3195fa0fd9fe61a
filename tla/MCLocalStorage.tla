--------------------------- MODULE MCLocalStorage ---------------------------
(***************************************************************************)
(* LocalStorage with two fields and four calls: two that collide on a      *)
(* field, one that sets the other field, one the schema knows nothing of.  *)
(***************************************************************************)
EXTENDS LocalStorage

CONSTANTS f, g, c1, c2, c3, c4, zero, one, two

MCFields == {f, g}
MCCalls == {c1, c2, c3, c4}
MCDefaults == [x \in {f, g} |-> zero]
MCData == [c \in MCCalls |->
             CASE c = c1 -> [x \in {f} |-> one]
               [] c = c2 -> [x \in {f, g} |-> two]
               [] c = c3 -> [x \in {g} |-> one]
               [] c = c4 -> <<>>]
=============================================================================
