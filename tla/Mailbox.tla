------------------------------ MODULE Mailbox -------------------------------
(***************************************************************************)
(* What the message queues of a process promise (libc/ipc/mqueue.c): a     *)
(* port holds messages in the order in which they were put, and a taker    *)
(* gets the first one of the source it asks for, or the first of all.      *)
(***************************************************************************)
EXTENDS Naturals, Sequences

CONSTANTS Port,    \* the ports
          Letter,  \* messages: records with a field src
          Every    \* the source zero: any source matches

VARIABLE box  \* box[p]: the messages of port p, oldest first

Init == box = [p \in Port |-> <<>>]

Matches(letter, src) == src = Every \/ letter.src = src

Put(p, letter) == box' = [box EXCEPT ![p] = Append(@, letter)]

Without(s, i) == SubSeq(s, 1, i - 1) \o SubSeq(s, i + 1, Len(s))

Take(p, src) ==
  \E i \in DOMAIN box[p] :
    /\ Matches(box[p][i], src)
    /\ \A j \in 1..i - 1 : ~Matches(box[p][j], src)
    /\ box' = [box EXCEPT ![p] = Without(@, i)]

Next ==
  \E p \in Port :
    /\ box'[p] # box[p]
    /\ \/ \E letter \in Letter : Put(p, letter)
       \/ \E src \in {letter.src : letter \in Letter} \cup {Every} : Take(p, src)

Spec == Init /\ [][Next]_box

=============================================================================
