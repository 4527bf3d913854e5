-------------------------- MODULE MCWorkspaceSync --------------------------
(***************************************************************************)
(* One procurement stream; a module whose list is asked for by name and    *)
(* one that shows everything; a document of the user's project, and one    *)
(* the user submitted.  The list has both, the second one or neither; a    *)
(* document also changes as the user's projects do.                        *)
(***************************************************************************)
EXTENDS WorkspaceSync, TLC

CONSTANTS d1, d2, p1, tool, web

MCProjectOf == (d1 :> p1) @@ (d2 :> None)

MCStreams == <<"requisition">>

MCOrder == <<"payment", "bizcase">>

Lists(first, second) == (d1 :> first) @@ (d2 :> second)

MCListings == {Lists(None, None), Lists(1, 1), Lists(None, 1)}

MCBatches == {MCStreams, <<"bizcase">>}
=============================================================================
