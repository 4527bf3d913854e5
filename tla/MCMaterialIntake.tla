-------------------------- MODULE MCMaterialIntake --------------------------
(***************************************************************************)
(* Three handlers on one content under two names.                          *)
(***************************************************************************)
EXTENDS MaterialIntake

CONSTANTS a1, a2, a3, c1, n1, n2

MCTasks == {a1, a2, a3}
MCContents == {c1}
MCNames == {n1, n2}
=============================================================================
