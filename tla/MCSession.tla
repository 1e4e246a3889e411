----------------------------- MODULE MCSession ------------------------------
(***************************************************************************)
(* Two resources, of which the program may only read the second.           *)
(***************************************************************************)
EXTENDS Session, TLC

CONSTANTS t1, t2

(* Programs of one thread with one resource or two, and of two threads     *)
(* with one.                                                               *)
MCPrograms ==
  {[threads |-> {t1}, rps |-> R, modes |-> Mode] : R \in {{"a"}, {"a", "b"}}}
  \cup {[threads |-> {t1, t2}, rps |-> {"b"}, modes |-> {m}] : m \in Mode}

(* One kind of program each.                                               *)
MCOne  == {[threads |-> {t1}, rps |-> {"a"}, modes |-> Mode]}
MCTwo  == {[threads |-> {t1}, rps |-> {"a", "b"}, modes |-> Mode]}
MCPair == {[threads |-> {t1, t2}, rps |-> {"b"}, modes |-> {{"r"}}]}

MCAccess == [rp \in RP |-> IF rp = "a" THEN {"r", "w"} ELSE {"r"}]

=============================================================================
