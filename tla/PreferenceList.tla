--------------------------- MODULE PreferenceList ---------------------------
(***************************************************************************)
(* What the assistant promises about preferences: the texts that were      *)
(* added since they were last cleared, the newest Keep of them.  They are  *)
(* told apart, and listed, by ids that grow.                               *)
(***************************************************************************)
EXTENDS Naturals, FiniteSets

CONSTANTS Keep, Ids

VARIABLE list

NewestOf(ids) == {i \in ids : Cardinality({j \in ids : j > i}) < Keep}

Init == list = {}

Add ==
    \E id \in Ids :
        /\ \A i \in list : i < id
        /\ list' = NewestOf(list \cup {id})

Clear == list' = {}

Next == Add \/ Clear

Spec == Init /\ [][Next]_list
=============================================================================
