----------------------------- MODULE MCDataTree -----------------------------
(***************************************************************************)
(* Small instances of DataTree for TLC: a draw with a single possible      *)
(* value and one with two, enough for pseudo-choices, splits and branches. *)
(***************************************************************************)
EXTENDS DataTree

MCTwo      == {"two"}
MCKinds    == {"one", "two"}
MCValues   == {0, 1}
MCTwoOnly  == [k \in MCTwo |-> {0, 1}]
MCChildren == [k \in MCKinds |-> IF k = "one" THEN {0} ELSE {0, 1}]
=============================================================================
