----------------------------- MODULE Connection -----------------------------
(***************************************************************************)
(* The server's one Acceptor (server/net/Acceptor.{h,cc}) under the loop   *)
(* of server/net/EventLoop.cc, with the clients of src/client at the other *)
(* end of its sockets.  An Acceptor is the listening socket and, at the    *)
(* same time, the connection: channelAccept, the state and both buffers    *)
(* exist once, and the next client to be accepted takes them over.  The    *)
(* Channel it replaces is destroyed, and stays registered if its client    *)
(* had not left.                                                           *)
(*                                                                         *)
(* The server is one process.  pc says where it is: in the loop between    *)
(* two callbacks, in the read or write callback of the event at the head   *)
(* of active, or inside a write that waits for room.  Between its steps    *)
(* clients connect, ask, read and leave.                                   *)
(***************************************************************************)
EXTENDS Epoll, Sockets, SequencesExt

CONSTANTS
  MaxFds,        \* accepted descriptors the process may hold; none is closed
  MaxAnswer,     \* units of the longest answer
  MaxRequests,   \* bound: requests a client sends
  Overlap        \* may a client come while another one has not left?

ASSUME BoundsAssumption == MaxFds \in Nat /\ MaxAnswer \in Nat /\ MaxRequests \in Nat
ASSUME OverlapAssumption == Overlap \in BOOLEAN

VARIABLES
  \* the server
  fate,      \* "up", or what has ended the process
  pc,
  active,    \* events of this turn of the loop that are not handled yet
  ep,        \* the poller
  chan,      \* the Channel of channelAccept
  state,     \* of the Acceptor; kDisconnecting is only set by shutdown(), which nobody calls
  out,       \* outputBuffer: units not yet taken back by retrieve
  msg, nw,   \* inside a write: what is written, and how much of it the kernel has
  answered,  \* number of answers computed for each client
  given,     \* what the kernel took last
  \* the kernel and the clients
  backlog,   \* clients that wait to be accepted
  sock,
  client,    \* "off", "prompt", "waiting" in its read, or "gone"
  asked      \* number of requests each has sent

server == <<fate, pc, active, ep, chan, state, out, msg, nw, answered, given>>
others == <<backlog, sock, client, asked>>
vars == <<server, others>>

\* A unit of an answer: whose request it answers, the number of the answer,
\* and its place in it.
Unit == Clients \X (1..MaxRequests) \X (1..MaxAnswer)

AnswerTo(c, no, size) == [i \in 1..size |-> <<c, no, i>>]

Answers == {AnswerTo(c, no, size) : c \in Clients, no \in 1..MaxRequests, size \in 1..MaxAnswer}

\* What ends the process: an assert of Epoll.cc, the assert of handleClose, the
\* signal of a write nobody will read, or the use of a destroyed Channel.
Fates == {"up", "registration", "closed twice", "sigpipe", "dangling"}

TypeOK ==
  /\ fate \in Fates
  /\ pc \in {"loop", "in", "out", "send", "flush"}
  /\ active \in Seq(Slots)
  /\ ep \in Pollers
  /\ chan \in Channels
  /\ state \in {"disconnected", "connected"}
  /\ out \in Seq(Unit)
  /\ msg \in Seq(Unit)
  /\ nw \in 0..Len(msg)
  /\ answered \in [Clients -> Nat]
  /\ given \in Seq(Unit)
  /\ backlog \in Seq(Clients)
  /\ sock \in [Clients -> Socket(Unit)]
  /\ client \in [Clients -> {"off", "prompt", "waiting", "gone"}]
  /\ asked \in [Clients -> 0..MaxRequests]

\* After the construction of the server, whose last step here is listen().
\* Until a client comes, chan stands for channelAccept being null.
Init ==
  LET listening == enableReading(EmptyPoller, NewChannel(Listener))
  IN /\ fate = "up"
     /\ pc = "loop"
     /\ active = <<>>
     /\ ep = listening.ep
     /\ chan = NewChannel(Listener)
     /\ state = "disconnected"
     /\ out = <<>>
     /\ msg = <<>> /\ nw = 0
     /\ answered = [c \in Clients |-> 0]
     /\ given = <<>>
     /\ backlog = <<>>
     /\ sock = [c \in Clients |-> Fresh]
     /\ client = [c \in Clients |-> "off"]
     /\ asked = [c \in Clients |-> 0]

\* The model ends with the process: every action needs it.
Up == fate = "up"

connected == state = "connected"

isWriting == "out" \in chan.mask

Die(why) ==
  /\ fate' = why
  /\ UNCHANGED <<pc, active, ep, chan, state, out, msg, nw, answered, given>>

-----------------------------------------------------------------------------
(* The loop.                                                               *)

Ready(fd) ==
  IF fd = Listener
    THEN {m \in {"in"} : backlog # <<>>}
    ELSE {m \in ep.interest[fd] :
            \/ m = "in" /\ Readable(sock[fd])
            \/ m = "out" /\ Writable(sock[fd])}

\* epoll_wait, and fillActiveChannel.  Events come in any order, all that are
\* ready unless there are more than entries in the vector.
Wait ==
  /\ Up
  /\ pc = "loop" /\ active = <<>>
  /\ LET ready == {fd \in ep.channel : Ready(fd) # {}}
     IN \E R \in SUBSET ready :
          /\ R # {}
          /\ R = ready \/ Cardinality(R) = Len(ep.events)
          /\ Cardinality(R) <= Len(ep.events)
          /\ \E order \in SetToSeqs(R) :
               LET got == [i \in 1..Len(order) |->
                             [ptr |-> order[i], mask |-> Ready(order[i])]]
               IN ep' = Polled(ep, got) /\ active' = got
  /\ UNCHANGED <<fate, pc, chan, state, out, msg, nw, answered, given, others>>

\* channelAccept holds the only shared_ptr to its Channel.
Destroyed(fd) == fd \notin {Listener, chan.fd}

\* A pointer to a destroyed Channel is followed, by fillActiveChannel or by the
\* loop.  What then happens is undefined.  One outcome is the end of the
\* process, by an assert of fillActiveChannel or by a call into freed memory;
\* the other, as long as that memory holds what it held, or holds the Channel
\* of a later client, is that the callbacks run: Wait and HandleEvent make no
\* difference for a destroyed Channel.
FollowDangling ==
  /\ Up
  /\ pc = "loop"
  /\ IF active = <<>>
       THEN \E fd \in ep.channel : Destroyed(fd) /\ Ready(fd) # {}
       ELSE Destroyed(active[1].ptr)
  /\ Die("dangling")
  /\ UNCHANGED others

Handled == pc' = "loop" /\ active' = Tail(active)

\* Whichever Channel the event was for, its callbacks work on channelAccept.
HandleEvent ==
  /\ Up
  /\ pc = "loop" /\ active # <<>>
  /\ active[1].ptr # Listener
  /\ pc' = IF "in" \in active[1].mask THEN "in" ELSE "out"
  /\ UNCHANGED <<fate, active, ep, chan, state, out, msg, nw, answered, given, others>>

Accepted == Cardinality({c \in Clients : client[c] # "off"}) - Len(backlog)

\* Mutant of NewConnection: reading is not enabled.
NewConnectionUnread(c) ==
  ep' = ep /\ chan' = NewChannel(c) /\ state' = "connected"

\* NewConnection and setChannel: only the Channel and the state are new.
NewConnection(c) ==
  LET new == enableReading(ep, NewChannel(c))
  IN ep' = new.ep /\ chan' = new.ch /\ state' = "connected"

\* Without a descriptor left accept fails, and the client stays in the backlog.
HandleAccept ==
  /\ Up
  /\ pc = "loop" /\ active # <<>>
  /\ active[1].ptr = Listener
  /\ Handled
  /\ IF backlog # <<>> /\ Accepted < MaxFds
       THEN NewConnection(Head(backlog)) /\ backlog' = Tail(backlog)
       ELSE UNCHANGED <<ep, chan, state, backlog>>
  /\ UNCHANGED <<fate, out, msg, nw, answered, given, sock, client, asked>>

-----------------------------------------------------------------------------
(* The read callback.                                                      *)

mine == sock[chan.fd]

\* Mutant of LeaveInBuffer: nobody asks to be told when the client has room.
LeaveInBufferQuietly(units) ==
  /\ out' = out \o units
  /\ UNCHANGED <<fate, ep, chan>>

\* The end of sendInLoop: the rest goes to outputBuffer, to be written when
\* the socket has room.
LeaveInBuffer(units) ==
  LET u == enableWriting(ep, chan)
  IN /\ out' = out \o units
     /\ IF isWriting
          THEN UNCHANGED <<fate, ep, chan>>
          ELSE IF u.ok THEN ep' = u.ep /\ chan' = u.ch /\ UNCHANGED fate
                       ELSE fate' = "registration" /\ UNCHANGED <<ep, chan>>

\* Mutant of sendInLoop: the answer is written although others wait.
sendInLoopAtOnce(units) ==
  IF ~isWriting
    THEN /\ pc' = "send" /\ msg' = units /\ nw' = 0
         /\ UNCHANGED <<fate, ep, chan, out>>
    ELSE /\ LeaveInBuffer(units)
         /\ pc' = "out"
         /\ UNCHANGED <<msg, nw>>

sendInLoop(units) ==
  IF ~isWriting /\ out = <<>>
    THEN /\ pc' = "send" /\ msg' = units /\ nw' = 0
         /\ UNCHANGED <<fate, ep, chan, out>>
    ELSE /\ LeaveInBuffer(units)
         /\ pc' = "out"
         /\ UNCHANGED <<msg, nw>>

\* handleRead with data, onMessage, and send.  Everything that has arrived is
\* one request to the server, and gets one answer.
ReadRequest ==
  /\ Up
  /\ pc = "in" /\ chan.fd # Listener
  /\ \E n \in 1..mine.up : sock' = [sock EXCEPT ![chan.fd].up = @ - n]
  /\ answered' = [answered EXCEPT ![chan.fd] = @ + 1]
  /\ \E size \in 1..MaxAnswer :
       IF connected
         THEN sendInLoop(AnswerTo(chan.fd, answered'[chan.fd], size))
         ELSE pc' = "out" /\ UNCHANGED <<fate, ep, chan, out, msg, nw>>
  /\ UNCHANGED <<active, state, given, backlog, client, asked>>

\* handleRead when the read fails.
ReadError ==
  /\ Up
  /\ pc = "in" /\ chan.fd # Listener
  /\ mine.up = 0 /\ ResetPending(mine)
  /\ sock' = [sock EXCEPT ![chan.fd] = Reported(@)]
  /\ pc' = "out"
  /\ UNCHANGED <<fate, active, ep, chan, state, out, msg, nw, answered, given, backlog, client, asked>>

\* Mutant of handleClose: the channel is only disabled.
handleCloseOnly ==
  LET off == disableAll(ep, chan)
  IN IF ~connected THEN Die("closed twice")
     ELSE IF ~off.ok THEN Die("registration")
     ELSE /\ state' = "disconnected"
          /\ ep' = off.ep /\ chan' = off.ch
          /\ pc' = "out"
          /\ UNCHANGED <<fate, active, out, msg, nw, answered, given>>

\* disableAll and removeChannel; the descriptor stays open, and outputBuffer
\* stays as it is.
handleClose ==
  LET off == disableAll(ep, chan)
      removed == RemoveChannel(off.ep, off.ch)
  IN IF ~connected THEN Die("closed twice")
     ELSE IF ~(off.ok /\ removed.ok) THEN Die("registration")
     ELSE /\ state' = "disconnected"
          /\ ep' = removed.ep /\ chan' = off.ch
          /\ pc' = "out"
          /\ UNCHANGED <<fate, active, out, msg, nw, answered, given>>

\* handleRead at the end of the client's stream.
ReadEof ==
  /\ Up
  /\ pc = "in" /\ chan.fd # Listener
  /\ AtEof(mine)
  /\ handleClose
  /\ UNCHANGED others

-----------------------------------------------------------------------------
(* Writing.  A write to a blocking socket returns when everything is with  *)
(* the kernel, or when the connection has broken.                          *)

\* handleWrite up to its write.  The event may have been for reading only, and
\* the read callback may have closed the connection.
HandleWrite ==
  /\ Up
  /\ pc = "out"
  /\ IF "out" \in active[1].mask /\ isWriting
       THEN /\ pc' = "flush" /\ msg' = out /\ nw' = 0
            /\ UNCHANGED active
       ELSE Handled /\ UNCHANGED <<msg, nw>>
  /\ UNCHANGED <<fate, ep, chan, state, out, answered, given, others>>

Writing == pc \in {"send", "flush"} /\ chan.fd # Listener

\* Mutant of WriteSome: whatever remains is written from the start again.
WriteSomeAgain ==
  /\ Up
  /\ Writing
  /\ LET n == Accepts(mine, Len(msg))
         units == SubSeq(msg, 1, n)
     IN /\ n > 0
        /\ sock' = [sock EXCEPT ![chan.fd] = Given(@, units)]
        /\ nw' = nw + n
        /\ given' = units
  /\ UNCHANGED <<fate, pc, active, ep, chan, state, out, msg, answered, backlog, client, asked>>

WriteSome ==
  /\ Up
  /\ Writing
  /\ LET n == Accepts(mine, Len(msg) - nw)
         units == SubSeq(msg, nw + 1, nw + n)
     IN /\ n > 0
        /\ sock' = [sock EXCEPT ![chan.fd] = Given(@, units)]
        /\ nw' = nw + n
        /\ given' = units
  /\ UNCHANGED <<fate, pc, active, ep, chan, state, out, msg, answered, backlog, client, asked>>

AfterSend ==
  /\ IF nw < Len(msg)
       THEN LeaveInBuffer(SubSeq(msg, nw + 1, Len(msg)))
       ELSE UNCHANGED <<fate, ep, chan, out>>
  /\ pc' = "out"
  /\ UNCHANGED active

AfterFlush ==
  LET rest == SubSeq(out, nw + 1, Len(out))
      u == disableWriting(ep, chan)
  IN /\ out' = rest
     /\ IF nw > 0 /\ rest = <<>>
          THEN IF u.ok THEN ep' = u.ep /\ chan' = u.ch /\ UNCHANGED fate
                       ELSE fate' = "registration" /\ UNCHANGED <<ep, chan>>
          ELSE UNCHANGED <<fate, ep, chan>>
     /\ Handled

\* The write returns: all written, cut short, or -1, which counts as nothing.
WriteReturns ==
  /\ Up
  /\ Writing
  /\ \/ nw = Len(msg) /\ UNCHANGED sock
     \/ nw \in 1..Len(msg) - 1 /\ mine.end \in {"dead", "rst"} /\ UNCHANGED sock
     \/ nw = 0 /\ ResetPending(mine) /\ sock' = [sock EXCEPT ![chan.fd] = Reported(@)]
  /\ IF pc = "send" THEN AfterSend ELSE AfterFlush
  /\ msg' = <<>> /\ nw' = 0
  /\ UNCHANGED <<state, answered, given, backlog, client, asked>>

\* SIGPIPE has its default action.
WriteToNobody ==
  /\ Up
  /\ Writing
  /\ nw = 0 /\ msg # <<>> /\ PipeBroken(mine)
  /\ Die("sigpipe")
  /\ UNCHANGED others

-----------------------------------------------------------------------------
(* The clients, and the network.                                           *)

Away == {"off", "gone"}

\* Nobody but c is there, and the server knows it.
Quiet(c) ==
  /\ \A d \in Clients \ {c} : client[d] \in Away
  /\ backlog = <<>> /\ ep.channel = {Listener}

Connect(c) ==
  /\ Up
  /\ client[c] = "off"
  /\ Overlap \/ Quiet(c)
  /\ client' = [client EXCEPT ![c] = "prompt"]
  /\ backlog' = Append(backlog, c)
  /\ UNCHANGED <<server, sock, asked>>

\* handleRequest for most commands: send, then recv.
Ask(c) ==
  /\ Up
  /\ client[c] = "prompt" /\ asked[c] < MaxRequests
  /\ client' = [client EXCEPT ![c] = "waiting"]
  /\ sock' = [sock EXCEPT ![c].up = @ + 1]
  /\ asked' = [asked EXCEPT ![c] = @ + 1]
  /\ UNCHANGED <<server, backlog>>

\* Client::recv: what one read returns is the answer.
Recv(c) ==
  /\ Up
  /\ client[c] = "waiting"
  /\ \E s \in Received(sock[c]) : sock' = [sock EXCEPT ![c] = s]
  /\ client' = [client EXCEPT ![c] = "prompt"]
  /\ UNCHANGED <<server, backlog, asked>>

\* "quit", a signal at any time, or an assert of handleRequest that fails: for an
\* empty line, a missing argument, or any hset or zadd, whose last argument must
\* have no c_str() at all.
Leave(c) ==
  /\ Up
  /\ client[c] \in {"prompt", "waiting"}
  /\ \E s \in Closed(sock[c]) : sock' = [sock EXCEPT ![c] = s]
  /\ client' = [client EXCEPT ![c] = "gone"]
  /\ UNCHANGED <<server, backlog, asked>>

ResetArrives(c) ==
  /\ Up
  /\ ResetDue(sock[c])
  /\ sock' = [sock EXCEPT ![c] = Dead(@)]
  /\ UNCHANGED <<server, backlog, client, asked>>

-----------------------------------------------------------------------------
Serve ==
  \/ Wait \/ FollowDangling \/ HandleEvent \/ HandleAccept
  \/ ReadRequest \/ ReadError \/ ReadEof
  \/ HandleWrite \/ WriteSome \/ WriteReturns \/ WriteToNobody

Next ==
  \/ Serve
  \/ \E c \in Clients :
       Connect(c) \/ Ask(c) \/ Recv(c) \/ Leave(c) \/ ResetArrives(c)

Spec == Init /\ [][Next]_vars

\* The loop never sleeps while something is ready, a client whose read has
\* data returns from it, and TCP delivers.  Nobody has to ask, read or leave.
Fairness ==
  /\ WF_vars(Serve)
  /\ \A c \in Clients : WF_vars(Recv(c)) /\ WF_vars(ResetArrives(c))

FairSpec == Spec /\ Fairness

-----------------------------------------------------------------------------
(* Safety.                                                                 *)

Orphans == ep.channel \ {Listener, chan.fd}

\* The asserts of updateChannel and removeChannel hold although epoll_wait
\* writes into the vector they look things up in, and that of handleClose does
\* unless a client has been replaced while connected (Epoll.cc:58, 76,
\* Acceptor.cc:203).
AssertsHold ==
  /\ fate # "registration"
  /\ fate = "closed twice" => Orphans # {}

\* The vector has room for one event more than there are channels: after the
\* first wait, which doubles a vector of one, epoll_wait never fills it, so that
\* no entry at its end is overwritten and it is not doubled again (Epoll.cc:17).
DoublesOnce == [][Len(ep.events') <= Len(ep.events) + 1]_vars

\* A client that waits in its read, on the connection the server works for,
\* has something coming: its request is still to be read, or output is on its
\* way, being written, or due as soon as the socket has room - even if the
\* server took several requests for one (Server.cc:54, Acceptor.cc:65).
NeverStranded ==
  \A c \in Clients :
    connected /\ chan.fd = c /\ client[c] = "waiting" =>
      \/ sock[c].up > 0
      \/ sock[c].down # <<>>
      \/ pc = "send"
      \/ out # <<>> /\ isWriting

Unwritten ==
  CASE pc = "send"  -> SubSeq(msg, nw + 1, Len(msg)) \o out
    [] pc = "flush" -> SubSeq(out, nw + 1, Len(out))
    [] OTHER        -> out

\* Written at once, written in part or kept for later, answers reach the
\* kernel in the order they were computed in, each unit of them once
\* (Acceptor.cc:46-70, 173-182).
Queue == INSTANCE AnswerQueue WITH queue <- Unwritten, taken <- given

RefinesAnswerQueue == Queue!Spec

-----------------------------------------------------------------------------
(* What a client gets that is not its own.                                 *)

\* Output that was meant for another client is what one that has left, or been
\* replaced, did not take; it goes to the present client, but in front of its
\* own answers and never among them (Acceptor.cc:46, 65, 201-208).
LeftoversInFront ==
  LET due == mine.down \o Unwritten
  IN chan.fd # Listener =>
       \A i \in 1..Len(due) :
         due[i][1] # chan.fd =>
           /\ client[due[i][1]] = "gone" \/ due[i][1] \in Orphans
           /\ \A j \in 1..i - 1 : due[j][1] # chan.fd

-----------------------------------------------------------------------------
(* Liveness.                                                               *)

\* An accepted socket blocks: the server waits for a client that does not read.
HeldUp(c) == Writing /\ chan.fd # c

\* As long as no client has been replaced and the process lives, every request
\* is followed by an answer or by the client's leaving, unless the server is in a
\* write to another client, and for ever (Acceptor.cc:38-71, 154-199).
RequestsAnswered ==
  \A c \in Clients :
    \/ <>[]HeldUp(c)
    \/ client[c] = "waiting" ~> client[c] # "waiting" \/ Orphans # {} \/ ~Up

\* And the channel of a client that has left is removed, however it left (Acceptor.cc:162-165, 201-208).
DeparturesNoticed ==
  \A c \in Clients :
    client[c] = "gone" /\ c \in ep.channel ~> c \notin ep.channel \/ Orphans # {} \/ ~Up

-----------------------------------------------------------------------------
(* What the code is said to do, and does not.                              *)

\* Once a connection is down nothing more is written of what was meant for it
\* (Acceptor.cc:197): what is given to a client answers its own requests.
OwnAnswersOnly ==
  \A c \in Clients : \A i \in 1..Len(sock[c].down) : sock[c].down[i][1] = c
=============================================================================
