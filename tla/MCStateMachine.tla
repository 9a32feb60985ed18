--------------------------- MODULE MCStateMachine ---------------------------
(***************************************************************************)
(* A small state machine for TLC: two initialize rules, one of them with a *)
(* bundle twice among its targets, a rule that fills two bundles, and one  *)
(* that consumes twice from the same bundle.                               *)
(***************************************************************************)
EXTENDS StateMachine

Arg(b, c, r, f) == [bundle |-> b, consume |-> c, reference |-> r, filtered |-> f]

MCTargets ==
  [start |-> <<"a">>, again |-> <<"a", "a">>, push |-> <<"a", "b">>, pop |-> <<>>]

MCArguments ==
  [start |-> <<>>,
   again |-> <<Arg("a", FALSE, FALSE, FALSE)>>,
   push  |-> <<>>,
   pop   |-> <<Arg("a", TRUE, TRUE, FALSE), Arg("a", TRUE, FALSE, TRUE)>>]
=============================================================================
