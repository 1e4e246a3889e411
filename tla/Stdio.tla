------------------------------- MODULE Stdio --------------------------------
(***************************************************************************)
(* A stream of the C library (libc/stdio) on a file of tmpfs (driver/tmpfs *)
(* behind rp_read, rp_write and rp_reset of libc/natio).                   *)
(*                                                                         *)
(* A step is a section under the mutex of the stream; fseek and setvbuf    *)
(* have two, of which the first is fflush.                                 *)
(*                                                                         *)
(* What the code does not withstand is left out, unless named in Beyond:   *)
(*   "between"   another thread uses the stream between the two sections   *)
(*   "partial"   a write stores part of the bytes and says so (tmpfs does  *)
(*               not, other drivers may)                                   *)
(*   "fails"     a write is refused: the stream was opened for reading     *)
(*   "unflushed" a read with bytes in the buffer                           *)
(*   "grown"     SEEK_END in a file that changed since it was opened       *)
(*   "empty"     appending to a file without data, or SEEK_END in a stream *)
(*               that was opened on one: its size is not initialized       *)
(***************************************************************************)
EXTENDS Naturals, Sequences, SequencesExt

CONSTANTS Data,     \* what is written at once: sequences of bytes
          Newline,  \* the byte that ends a line
          Counts,   \* how much is read at once
          BufSizes, \* sizes of buffers
          Junk,     \* uninitialized bytes
          Unset,    \* what an uninitialized number may be
          None,
          MaxPos,   \* bound on the size of the file and on positions
          Beyond    \* the restrictions that are lifted

VARIABLES file,    \* the contents of the file, in tmpfs
          stream,  \* the FILE, or None
          second,  \* the section that a call in fseek or setvbuf has to do
          got      \* what was read last

vars == <<file, stream, second, got>>

Larger(a, b) == IF a > b THEN a ELSE b
Lesser(a, b) == IF a < b THEN a ELSE b

(* driver/tmpfs: memory from realloc() is not cleared.                     *)
tmpfs_write(f, d, off) ==
  IF d = <<>> THEN f
  ELSE [i \in 1..Larger(Len(f), off + Len(d)) |->
          IF i \in off + 1..off + Len(d) THEN d[i - off]
          ELSE IF i <= Len(f) THEN f[i] ELSE Junk]

tmpfs_read(f, n, off) ==
  IF off > Len(f) THEN <<>> ELSE SubSeq(f, off + 1, Lesser(off + n, Len(f)))

-----------------------------------------------------------------------------
Init ==
  /\ file = <<>> /\ stream = None /\ second = None /\ got = <<>>

(* rp_size: a file without data answers "0", of which sscanf("%u:%u") sets *)
(* the upper half only.                                                    *)
rp_size(f) == IF f = <<>> THEN Unset ELSE {Len(f)}

(* fopen, in the modes "r", "w" and "a", each with or without "+"; the     *)
(* stream has no buffer and keeps the size that the file has now.  The     *)
(* driver is asked for the rights that the mode names.                     *)
fopen(letter, plus) ==
  /\ stream = None
  /\ letter = "a" /\ ~plus /\ file = <<>> => "empty" \in Beyond
  /\ file' = IF letter = "w" THEN <<>> ELSE file
  /\ \E size \in rp_size(file') :
       stream' = [position |-> IF letter = "a" /\ ~plus THEN size ELSE 0,
                  size |-> size, known |-> file' # <<>>,
                  buffer |-> <<>>, buffsize |-> 0, mode |-> "none", revbuf |-> <<>>,
                  read |-> letter = "r" \/ plus, write |-> letter # "r" \/ plus]
  /\ UNCHANGED <<second, got>>

(* The stream can be used: no other call is between its two sections.      *)
Usable == stream # None /\ (second = None \/ "between" \in Beyond)

(* rp_write of n bytes: how many are written.                              *)
Accepted(s, n) ==
  IF ~s.write THEN {0} ELSE IF "partial" \in Beyond THEN 1..n ELSE {n}

(* The bytes a loop of writes stores that starts again from the first byte *)
(* after a write of k bytes.                                               *)
Restarted(d, k) == SubSeq(d, 1, k) \o SubSeq(d, 1, Len(d) - k)

Memory(f, s) == [file |-> f, stream |-> s, ok |-> TRUE]

(* __bufwrite: the buffer is sent, and empty afterwards.                   *)
__bufwrite(m) ==
  LET s == m.stream
      d == s.buffer
  IN IF d = <<>> THEN {m}
     ELSE {IF k = 0 THEN [m EXCEPT !.ok = FALSE]
           ELSE Memory(tmpfs_write(m.file, Restarted(d, k), s.position),
                       [s EXCEPT !.position = @ + Len(d), !.buffer = <<>>]) :
             k \in Accepted(s, Len(d))}

__nobufwrite(m, d) ==
  LET s == m.stream
  IN {IF k = 0 THEN [m EXCEPT !.ok = FALSE]
      ELSE Memory(tmpfs_write(m.file, Restarted(d, k), s.position),
                  [s EXCEPT !.position = @ + Len(d)]) :
        k \in Accepted(s, Len(d))}

(* Without a buffer a write is one request, which may store less.          *)
Unbuffered(m, d) ==
  {Memory(tmpfs_write(m.file, SubSeq(d, 1, k), m.stream.position),
          [m.stream EXCEPT !.position = @ + k]) : k \in Accepted(m.stream, Len(d))}

(* Mutant of Fully: the bytes before are not sent first.                   *)
Fully_swapped(m, d) ==
  IF Len(m.stream.buffer) + Len(d) >= m.stream.buffsize
  THEN UNION {IF n.ok THEN __bufwrite(n) ELSE {n} : n \in __nobufwrite(m, d)}
  ELSE {[m EXCEPT !.stream.buffer = @ \o d]}

Fully(m, d) ==
  IF Len(m.stream.buffer) + Len(d) >= m.stream.buffsize
  THEN UNION {IF n.ok THEN __nobufwrite(n, d) ELSE {n} : n \in __bufwrite(m)}
  ELSE {[m EXCEPT !.stream.buffer = @ \o d]}

(* Line buffering takes byte by byte, until a write is refused.            *)
Line(ms, b) ==
  UNION {LET n == [m EXCEPT !.stream.buffer = Append(@, b)]
         IN IF ~m.ok THEN {m}
            ELSE IF b = Newline \/ Len(n.stream.buffer) >= n.stream.buffsize
            THEN __bufwrite(n) ELSE {n} : m \in ms}

(* The file as the stream shows it: with the bytes of the buffer in place. *)
Content == IF stream = None THEN file
           ELSE tmpfs_write(file, stream.buffer, stream.position)

(* What ftell returns.                                                     *)
Position == stream.position + Len(stream.buffer)

fwrite(d) ==
  /\ Usable /\ Position + Len(d) <= MaxPos
  /\ ~stream.write => "fails" \in Beyond
  /\ \E m \in CASE stream.mode = "none" -> Unbuffered(Memory(file, stream), d)
                [] stream.mode = "line" -> FoldLeft(Line, {Memory(file, stream)}, d)
                [] OTHER                -> Fully(Memory(file, stream), d) :
       file' = m.file /\ stream' = m.stream
  /\ UNCHANGED <<second, got>>

(* The byte that was pushed back comes first.  The driver answers nothing  *)
(* to who did not open the file for reading.                               *)
fread(n) ==
  LET rev == IF n = 0 THEN <<>> ELSE stream.revbuf
      d   == IF stream.read THEN tmpfs_read(file, n - Len(rev), stream.position) ELSE <<>>
  IN /\ Usable
     /\ stream.buffer # <<>> => "unflushed" \in Beyond
     /\ got' = rev \o d
     /\ stream' = [stream EXCEPT !.position = @ + Len(d),
                                 !.revbuf = IF n = 0 THEN @ ELSE <<>>]
     /\ UNCHANGED <<file, second>>

ungetc(c) ==
  /\ Usable /\ stream.revbuf = <<>>
  /\ stream' = [stream EXCEPT !.revbuf = <<c>>]
  /\ UNCHANGED <<file, second, got>>

(* fflush: one write; what is left are as many bytes as were not stored,   *)
(* from the beginning of the buffer.                                       *)
Flushed(s) ==
  {[file   |-> tmpfs_write(file, SubSeq(s.buffer, 1, k), s.position),
    stream |-> [s EXCEPT !.position = @ + k, !.buffer = SubSeq(@, 1, Len(@) - k)]] :
     k \in IF s.buffer = <<>> THEN {0} ELSE Accepted(s, Len(s.buffer))}

fflush ==
  /\ Usable
  /\ \E m \in Flushed(stream) : file' = m.file /\ stream' = m.stream
  /\ UNCHANGED <<second, got>>

(* fseek and setvbuf: fflush, and then their own section.                  *)
TwoSections(next) ==
  /\ Usable /\ second = None
  /\ \E m \in Flushed(stream) : file' = m.file /\ stream' = m.stream
  /\ second' = next
  /\ UNCHANGED got

fseek(whence, p) ==
  /\ stream # None
  /\ whence = "end" /\ "empty" \notin Beyond => stream.known
  /\ whence = "end" /\ stream.known /\ "grown" \notin Beyond => Len(Content) = stream.size
  /\ TwoSections([does |-> "seek", whence |-> whence, to |-> p])

setvbuf(mode, size) == TwoSections([does |-> "buffer", mode |-> mode, size |-> size])

fseek_move ==
  /\ second # None /\ second.does = "seek"
  /\ LET p == CASE second.whence = "set" -> second.to
                [] second.whence = "cur" -> stream.position + second.to
                [] OTHER                 -> stream.size
     IN /\ p <= MaxPos
        /\ stream' = [stream EXCEPT !.position = p]
  /\ second' = None
  /\ UNCHANGED <<file, got>>

(* Whatever is in the old buffer is dropped: nothing is, after the first   *)
(* section, unless a restriction is lifted.                                *)
setvbuf_set ==
  /\ second # None /\ second.does = "buffer"
  /\ stream' = [stream EXCEPT !.mode = second.mode, !.buffer = <<>>,
                              !.buffsize = IF second.mode = "none" THEN 0 ELSE second.size]
  /\ second' = None
  /\ UNCHANGED <<file, got>>

(* fclose: fflush, and the stream is gone.                                 *)
fclose ==
  /\ Usable /\ second = None
  /\ \E m \in Flushed(stream) : file' = m.file
  /\ stream' = None
  /\ UNCHANGED <<second, got>>

Next ==
  \/ \E letter \in {"r", "w", "a"}, plus \in BOOLEAN : fopen(letter, plus)
  \/ \E d \in Data : fwrite(d)
  \/ \E n \in Counts : fread(n)
  \/ \E d \in Data : ungetc(d[1])
  \/ fflush
  \/ \E p \in 0..MaxPos : fseek("set", p)
  \/ fseek("cur", 1) \/ fseek("end", 0)
  \/ \E mode \in {"none", "line", "full"}, size \in BufSizes : setvbuf(mode, size)
  \/ fseek_move \/ setvbuf_set
  \/ fclose

Spec == Init /\ [][Next]_vars

-----------------------------------------------------------------------------
(* Between calls a buffer has room: fwrite stores a byte before it looks   *)
(* whether the buffer is full (fwrite.c:62-72), and fully buffered bytes   *)
(* are copied only if they leave room; a change of mode keeps that.        *)
BufferFits ==
  stream # None => IF stream.mode = "none" THEN stream.buffer = <<>>
                   ELSE Len(stream.buffer) < stream.buffsize

(* The position is what ftell returns; a closed stream is at zero.         *)
S == INSTANCE Stream
       WITH content <- Content,
            pos     <- IF stream = None THEN 0 ELSE Position,
            reads   <- stream # None /\ stream.read,
            back    <- IF stream = None THEN <<>> ELSE stream.revbuf

(* The stream implements a file without a buffer: whatever the order of    *)
(* writes, reads, seeks, flushes and changes of the buffer, what is read,  *)
(* where, and what the file holds once flushed or closed is the same.      *)
IsStream == S!Spec

Shown == <<Content, IF stream = None THEN <<0, <<>>>> ELSE <<Position, stream.revbuf>>, got>>

(* Each call does to that file what the same call without a buffer would   *)
(* do, and flushing, or choosing a buffer, does nothing to it (fwrite.c,   *)
(* fflush.c, fseek.c, setvbuf.c).                                          *)
TransparentStep ==
  /\ \A letter \in {"r", "w", "a"}, plus \in BOOLEAN :
       fopen(letter, plus) => S!Open(letter = "w", letter = "a" /\ ~plus, letter = "r" \/ plus)
  /\ \A d \in Data : (fwrite(d) => S!Write(d)) /\ (ungetc(d[1]) => S!Unread(d[1]))
  /\ \A n \in Counts : fread(n) => S!Read(n)
  /\ (fflush \/ (second # second' /\ ~fseek_move)) => UNCHANGED Shown
  /\ fseek_move => CASE second.whence = "set" -> S!Seek(second.to)
                     [] second.whence = "cur" -> S!Seek(Position + second.to)
                     [] OTHER                 -> S!SeekEnd
  /\ fclose => S!Close

Transparent == [][TransparentStep]_vars

=============================================================================
