--------------------------- MODULE MCScheduledDay ---------------------------
(***************************************************************************)
(* A day beside a request of the page, of one stream.                      *)
(***************************************************************************)
EXTENDS ScheduledDay

CONSTANTS child, page, purchase

MCRequests == {child, page}
MCStreams == {purchase}
=============================================================================
