----------------------------- MODULE MCMessages -----------------------------
(***************************************************************************)
(* Three threads; two of them call the same resource.                      *)
(***************************************************************************)
EXTENDS Messages

CONSTANTS t1, t2, t3

MCUses == [t \in Thread |-> IF t = t3 THEN {"b"} ELSE {"a"}]

=============================================================================
