----------------------------- MODULE MCPagedRead -----------------------------
(***************************************************************************)
(* Lists of up to four documents in pages of two, read while up to two     *)
(* changes happen upstream.                                                *)
(***************************************************************************)
EXTENDS PagedRead

CONSTANTS a, b, c, d, x

MCDocs == {a, b, c, d, x}
MCStart == {<<>>, <<a, b>>, <<a, b, c>>, <<a, b, c, d>>}
MCListed ==
    [q \in Queries |->
        CASE q = "applicant" -> {a, b, c, x}
          [] q = "project" -> {b, c, d}
          [] q = "application" -> {a, c}
          [] OTHER -> MCDocs]
MCMatched == [MCListed EXCEPT !["applicant"] = @ \ {x}]
MCHops ==
    {[method |-> m, host |-> "business", shape |-> "plain", path |-> p,
      form |-> NoForm] : m \in {"GET"}, p \in {"pr_delete", "portal"}} \cup
    {[method |-> "GET", host |-> "passport", shape |-> "plain",
      path |-> "passport", form |-> NoForm],
     [method |-> "POST", host |-> "business", shape |-> "plain",
      path |-> "travel_list",
      form |-> [control |-> "other", filter |-> FALSE, page |-> 1, rows |-> 2]]}
AllOfThem == AllKinds
OnlyPaged == {"paged"}
=============================================================================
