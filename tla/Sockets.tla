------------------------------ MODULE Sockets ------------------------------
(***************************************************************************)
(* One accepted TCP connection as the server's descriptor of it behaves:   *)
(* the kernel's side of read, write and close, which server/base/Packet.cc *)
(* and server/net/Socket.cc only wrap.  The descriptor comes from a plain  *)
(* accept (Packet.cc:33), so it blocks; setnonblocking is never called.    *)
(*                                                                         *)
(* A request is one unit of up: the client of src/client sends a line of   *)
(* at most 1023 bytes in one write.  An answer is a sequence of units of   *)
(* down, each of the size of the client's receive buffer.                  *)
(***************************************************************************)
EXTENDS Naturals, Sequences

CONSTANTS
  SndBuf,     \* units that fit between the server's write and the client's read
  RecvMax     \* units one read of the client takes at most

ASSUME SndBufAssumption == SndBuf \in Nat \ {0}
ASSUME RecvMaxAssumption == RecvMax \in Nat \ {0}

(* How the client has ended the connection:                                *)
(*   "open"   not at all                                                   *)
(*   "fin"    it closed with nothing unread                                *)
(*   "dead"   after a fin, the server's data has been answered by a reset  *)
(*   "rst"    it closed with unread data, which resets at once             *)
Ends == {"open", "fin", "dead", "rst"}

\* pending: the reset has not been reported to the server by any call yet.
Socket(Unit) == [up : Nat, down : Seq(Unit), end : Ends, pending : BOOLEAN]

Fresh == [up |-> 0, down |-> <<>>, end |-> "open", pending |-> FALSE]

Room(s) == SndBuf - Len(s.down)

Readable(s) == s.up > 0 \/ s.end # "open"

Writable(s) == s.end \in {"dead", "rst"} \/ Len(s.down) < SndBuf

-----------------------------------------------------------------------------
(* The server's calls, by their outcomes.                                  *)

\* read returns 0: the end of the client's stream.
AtEof(s) == s.up = 0 /\ s.end # "open" /\ ~s.pending

\* read or write fails with the reset; the kernel reports it once.
ResetPending(s) == s.end = "rst" /\ s.pending

Reported(s) == [s EXCEPT !.pending = FALSE]

\* A write of which the kernel has taken nothing raises SIGPIPE.
PipeBroken(s) == s.end = "dead" \/ (s.end = "rst" /\ ~s.pending)

\* A write that waits for room: how many more units the kernel can take now.
Accepts(s, len) ==
  IF s.end \in {"dead", "rst"} THEN 0
  ELSE IF len <= Room(s) THEN len ELSE Room(s)

Given(s, units) == [s EXCEPT !.down = @ \o units]

-----------------------------------------------------------------------------
(* The client's calls, and the reset that follows a fin.                   *)

\* close, by the destructor of Client or by the end of its process.  Data that
\* is still on its way does not count as unread.
Closed(s) ==
  {[s EXCEPT !.end = "fin"]} \cup
  (IF s.down = <<>> THEN {} ELSE {[s EXCEPT !.end = "rst", !.pending = TRUE, !.down = <<>>]})

\* What was given to a socket that is closed at the other end comes back as a
\* reset.
ResetDue(s) == s.end = "fin" /\ s.down # <<>>

Dead(s) == [s EXCEPT !.end = "dead", !.down = <<>>]

\* read of the client: some of what has arrived, as far as its buffer goes.
Received(s) ==
  {[s EXCEPT !.down = SubSeq(@, n + 1, Len(@))] :
     n \in {k \in 1..Len(s.down) : k <= RecvMax}}
=============================================================================
