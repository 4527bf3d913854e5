--------------------------- MODULE MCDraftReview ---------------------------
(***************************************************************************)
(* Two reviewers, a required field the extraction proposed and an optional *)
(* one it did not, one value that the document supports for the first      *)
(* field and not for the second.                                           *)
(***************************************************************************)
EXTENDS DraftReview, TLC

CONSTANTS number, remark, text

MCSound == {<<number, text>>}

Symmetry == Permutations(Reviewers)
=============================================================================
