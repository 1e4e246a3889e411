------------------------------ MODULE MCKernel ------------------------------
(* Kernel for TLC.                                                         *)
EXTENDS Kernel

CONSTANTS t0, t1, t2, t3, t4, p0, p1, p2, p3

(* The threads other than the main thread of init are interchangeable, and *)
(* so are the process structures of the other processes.                   *)
Symmetry == Permutations({t1, t2, t3, t4} \cap Thread) \cup Permutations({p2, p3} \cap Proc)

(* Two states with the same view have the same future, up to the stacks of *)
(* the threads.  It leaves out seg, which no step reads; where in pidlist  *)
(* the ring begins, and the places behind its end; and in the structures   *)
(* of dead processes the parent, and a pid that no child can read.         *)
View ==
  LET free == Cardinality({i \in Pid : kernel.table[i] = NULL})
      read == Processes \cup {kernel.parent[p] : p \in Processes}
  IN <<[kernel EXCEPT
          !.seg     = <<>>,
          !.pidlist = [i \in Pid |-> IF i < free THEN @[(kernel.top + i) % MaxTasks] ELSE 0],
          !.top     = 0,
          !.bot     = (@ + MaxTasks - kernel.top) % MaxTasks,
          !.pid     = [p \in Proc |-> IF p \in read THEN @[p] ELSE 0],
          !.parent  = [p \in Proc |-> IF p \in Processes THEN @[p] ELSE NULL]],
       image>>

=============================================================================
