----------------------------- MODULE FileStream -----------------------------
(***************************************************************************)
(* std::ofstream as the programs use it (external: the C++ library).       *)
(*                                                                         *)
(* A stream is a record: what the operating system has (disk), what is     *)
(* still in the process (pending), and the sticky failure bit (bad).       *)
(* A write lands in pending and may push any part of it out; only what was *)
(* pushed out survives the process.  The device accepts room symbols.      *)
(***************************************************************************)
EXTENDS Integers, Sequences

FreshStream == [disk |-> <<>>, pending |-> <<>>, bad |-> FALSE]

\* The first n pending symbols are handed to a device that holds room.
PushOut(s, n, room) ==
  LET fits == IF n <= room - Len(s.disk) THEN n ELSE room - Len(s.disk)
  IN  [disk    |-> s.disk \o SubSeq(s.pending, 1, fits),
       pending |-> SubSeq(s.pending, fits + 1, Len(s.pending)),
       bad     |-> s.bad \/ fits < n]

\* All the results a write of data may have; a bad stream takes nothing.
AfterWrite(s, data, room) ==
  IF s.bad THEN {s}
  ELSE LET full == [s EXCEPT !.pending = s.pending \o data]
       IN  {PushOut(full, n, room) : n \in 0..Len(full.pending)}

AfterFlush(s, room) == IF s.bad THEN s ELSE PushOut(s, Len(s.pending), room)

\* Destroying the stream pushes the rest out and reports nothing.
AfterClose(s, room) == PushOut(s, Len(s.pending), room)

\* The process is killed: what it had not pushed out is gone.
AfterKill(s) == [s EXCEPT !.pending = <<>>]

=============================================================================
