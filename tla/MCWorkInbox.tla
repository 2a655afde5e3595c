---------------------------- MODULE MCWorkInbox -----------------------------
(* Small instances of WorkInbox for TLC: one assignment, one other item. *)
EXTENDS WorkInbox

CONSTANTS assign, invoke

MCItems == {assign, invoke}
MCAssignments == {assign}
=============================================================================
