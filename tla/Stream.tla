------------------------------- MODULE Stream -------------------------------
(***************************************************************************)
(* What a stream of stdio promises: a file that is read and written at a   *)
(* position, as if there were no buffer.                                   *)
(***************************************************************************)
EXTENDS Naturals, Sequences, SequencesExt

CONSTANTS Data,    \* what is written at once: sequences of bytes
          Counts,  \* how much is read at once
          Junk,    \* the bytes between the end of a file and a write behind it
          MaxPos   \* bound on positions

VARIABLES content,  \* the bytes of the file
          pos,      \* the position of the stream
          reads,    \* it is open for reading
          back,     \* the byte that was pushed back: <<>> or a sequence of one
          got       \* what was read last

Larger(a, b) == IF a > b THEN a ELSE b
Lesser(a, b) == IF a < b THEN a ELSE b

(* The file f after d was written at offset off.                           *)
Overlay(f, off, d) ==
  IF d = <<>> THEN f
  ELSE [i \in 1..Larger(Len(f), off + Len(d)) |->
          IF i \in off + 1..off + Len(d) THEN d[i - off]
          ELSE IF i <= Len(f) THEN f[i] ELSE Junk]

(* Up to n bytes of the file f from offset off on.                         *)
Extract(f, off, n) == IF off > Len(f) THEN <<>> ELSE SubSeq(f, off + 1, Lesser(off + n, Len(f)))

Init == content = <<>> /\ pos = 0 /\ reads = FALSE /\ back = <<>> /\ got = <<>>

Open(erase, end, read) ==
  /\ content' = IF erase THEN <<>> ELSE content
  /\ pos' = IF end THEN Len(content') ELSE 0
  /\ reads' = read /\ back' = <<>> /\ UNCHANGED got

Close == pos' = 0 /\ reads' = FALSE /\ back' = <<>> /\ UNCHANGED <<content, got>>

Write(d) ==
  /\ content' = Overlay(content, pos, d)
  /\ pos' = pos + Len(d)
  /\ UNCHANGED <<reads, back, got>>

Read(n) ==
  LET m == IF n = 0 THEN 0 ELSE n - Len(back)
      d == IF reads THEN Extract(content, pos, m) ELSE <<>>
  IN /\ got' = (IF n = 0 THEN <<>> ELSE back) \o d
     /\ pos' = pos + Len(d)
     /\ back' = IF n = 0 THEN back ELSE <<>>
     /\ UNCHANGED <<content, reads>>

Unread(c) == back = <<>> /\ back' = <<c>> /\ UNCHANGED <<content, pos, reads, got>>

Seek(p) == pos' = p /\ UNCHANGED <<content, reads, back, got>>

SeekEnd == Seek(Len(content))

Next ==
  \/ \E erase, end, read \in BOOLEAN : Open(erase, end, read)
  \/ \E d \in Data : Write(d)
  \/ \E n \in Counts : Read(n)
  \/ \E d \in Data : Unread(d[1])
  \/ \E p \in 0..MaxPos : Seek(p)
  \/ SeekEnd
  \/ Close

Spec == Init /\ [][Next]_<<content, pos, reads, back, got>>

=============================================================================
