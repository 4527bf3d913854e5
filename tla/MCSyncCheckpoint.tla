------------------------- MODULE MCSyncCheckpoint -------------------------
(***************************************************************************)
(* Two documents; a status that ends a document and two approvers.  The    *)
(* upstream list is empty, has either document or both, and has them in    *)
(* enough states that every kind of event happens.                         *)
(***************************************************************************)
EXTENDS SyncCheckpoint, TLC

CONSTANTS d1, d2

Doc(status, approver, related) ==
    [status |-> status, approver |-> approver, related |-> related]

Lists(first, second) ==
    [d \in Docs |-> IF d = d1 THEN first ELSE second]

\* For runs one at a time: every kind of event.
MCListings ==
    {NoDocs,
     Lists(Doc("open", "a", TRUE), None),
     Lists(None, Doc("open", "a", FALSE)),
     Lists(Doc("open", "b", FALSE), Doc("open", "a", FALSE)),
     Lists(Doc("closed", "a", FALSE), Doc("open", "a", FALSE))}

\* For runs that overlap: contents matter less than which documents there
\* are.
MCOverlapListings ==
    {NoDocs,
     Lists(Doc("open", "a", FALSE), None),
     Lists(None, Doc("open", "a", FALSE)),
     Lists(Doc("closed", "a", FALSE), Doc("open", "a", TRUE))}

Symmetry == Permutations(Runs)
=============================================================================
