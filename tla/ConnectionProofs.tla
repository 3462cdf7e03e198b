-------------------------- MODULE ConnectionProofs --------------------------
(* Connection keeps its types, its poller never overwrites or doubles what  *)
(* it looks things up in, no request is forgotten, what a client gets of    *)
(* others lies in front of its own, and it implements AnswerQueue: for      *)
(* every set of clients, every size of the sockets and of the answers, and  *)
(* every number of requests.                                                *)
EXTENDS Connection, SequenceTheorems, FiniteSetTheorems, TLAPS

-----------------------------------------------------------------------------
(* The inductive invariant.                                                *)

\* What the poller and the connection's channel agree on: while connected, the
\* channel's entry is the last of the vector; and the vector has more entries
\* than there are channels, before and after every wait but the very first.
Registered ==
  /\ IsFiniteSet(ep.channel)
  /\ Listener \in ep.channel
  /\ Len(ep.events) > 0
  /\ connected =>
       /\ chan.fd \in ep.channel \ {Listener}
       /\ chan.index = Len(ep.events) - 1
       /\ ep.events[Len(ep.events)] = [ptr |-> chan.fd, mask |-> chan.mask]
  /\ ~connected => chan.mask = {} /\ chan.fd \notin ep.channel \ {Listener}

HasRoom ==
  \/ Cardinality(ep.channel) < Len(ep.events)
  \/ Len(ep.events) = 1 /\ ep.channel = {Listener} /\ active = <<>>

\* Where the server is, and what it holds there.
Placed ==
  /\ pc # "loop" => active # <<>> /\ active[1].ptr # Listener
  /\ pc \in {"send", "flush"} => connected
  /\ pc = "send" => out = <<>> /\ msg # <<>>
  /\ pc = "flush" => msg = out /\ isWriting
  /\ isWriting => out # <<>>

\* The events of a turn of the loop are for different descriptors, and unless a
\* client was replaced none is for a connection that is closed, but the one
\* whose callback has just closed it.
Turn ==
  /\ \A i, j \in 1..Len(active) : active[i].ptr = active[j].ptr => i = j
  /\ Orphans = {} =>
       \A i \in 1..Len(active) :
         \/ active[i].ptr = Listener
         \/ active[i].ptr = chan.fd /\ (connected \/ (pc = "out" /\ i = 1))

\* Clients that wait to be accepted, or have not come, are unknown to the
\* poller, and nothing was given to them.
Arriving ==
  /\ \A i, j \in 1..Len(backlog) : backlog[i] = backlog[j] => i = j
  /\ \A i \in 1..Len(backlog) : client[backlog[i]] # "off" /\ backlog[i] \notin ep.channel \cup {chan.fd}
  /\ \A i \in 1..Len(backlog) :
       /\ sock[backlog[i]].down = <<>>
       /\ client[backlog[i]] = "waiting" => sock[backlog[i]].up > 0
  /\ \A c \in Clients : client[c] = "off" => c \notin ep.channel \cup {chan.fd} /\ sock[c].down = <<>>
  /\ \A c \in Clients : client[c] \in {"off", "prompt", "waiting"} => sock[c].end = "open"

\* No request is answered twice.
Counted == \A c \in Clients : answered[c] + sock[c].up <= asked[c]

\* NeverStranded, once the server has begun to write.
Owed ==
  connected /\ client[chan.fd] = "waiting" =>
    \/ sock[chan.fd].up > 0
    \/ sock[chan.fd].down # <<>>
    \/ pc = "send" /\ nw = 0
    \/ out # <<>> /\ isWriting /\ ~(pc = "flush" /\ nw > 0)

IInv ==
  /\ TypeOK
  /\ Placed
  /\ Registered
  /\ HasRoom
  /\ AssertsHold
  /\ Turn
  /\ Arriving
  /\ Counted
  /\ Owed

\* One entry more at most: what DoublesOnce says of a step.
Grows == Len(ep'.events) <= Len(ep.events) + 1

-----------------------------------------------------------------------------
(* The poller.                                                             *)

\* Adding a channel puts it in the last entry (Epoll.cc:45-57).
LEMMA AddedProperties ==
  ASSUME NEW p \in Pollers, NEW ch \in Channels
  PROVE  LET a == Added(p, ch)
         IN /\ a.ok
            /\ a.ep \in Pollers
            /\ a.ch \in Channels
            /\ a.ch.fd = ch.fd /\ a.ch.mask = ch.mask
            /\ a.ch.index = Len(a.ep.events) - 1
            /\ Len(a.ep.events) = Len(p.events) + 1
            /\ a.ep.events[Len(a.ep.events)] = [ptr |-> ch.fd, mask |-> ch.mask]
            /\ a.ep.channel = p.channel \cup {ch.fd}
<1> DEFINE slot == [ptr |-> ch.fd, mask |-> ch.mask]
           events == Append(p.events, slot)
<1>1. p.events \in Seq(Slots) /\ p.channel \in SUBSET Fds /\ p.interest \in [Fds -> SUBSET Modes]
  BY DEF Pollers
<1>2. ch.fd \in Fds /\ ch.mask \in SUBSET Modes /\ ch.index \in Int
  BY DEF Channels
<1>3. slot \in Slots
  BY <1>2 DEF Slots
<1>4. /\ events \in Seq(Slots)
      /\ Len(events) = Len(p.events) + 1
      /\ events[Len(p.events) + 1] = slot
  BY <1>1, <1>3, AppendProperties
<1>5. Len(p.events) \in Nat
  BY <1>1, LenProperties
<1>6. [p.interest EXCEPT ![ch.fd] = ch.mask] \in [Fds -> SUBSET Modes]
  BY <1>1, <1>2
<1>7. [events |-> events, channel |-> p.channel \cup {ch.fd},
       interest |-> [p.interest EXCEPT ![ch.fd] = ch.mask]] \in Pollers
  BY <1>1, <1>2, <1>4, <1>6 DEF Pollers
<1>8. [ch EXCEPT !.index = Len(p.events)] \in Channels
  BY <1>2, <1>5 DEF Channels
<1>9. /\ [ch EXCEPT !.index = Len(p.events)].fd = ch.fd
      /\ [ch EXCEPT !.index = Len(p.events)].mask = ch.mask
      /\ [ch EXCEPT !.index = Len(p.events)].index = Len(p.events)
  BY DEF Channels
<1> HIDE DEF slot, events
<1>10. Len(p.events) = Len(events) - 1
  BY <1>4, <1>5
<1> QED
  BY <1>4, <1>7, <1>8, <1>9, <1>10 DEF Added, slot, events

\* Modifying a channel that is in the last entry changes that entry alone
\* (Epoll.cc:60-71).
LEMMA ModifiedProperties ==
  ASSUME NEW p \in Pollers, NEW ch \in Channels,
         Len(p.events) > 0,
         ch.fd \in p.channel, ch.index = Len(p.events) - 1,
         p.events[Len(p.events)].ptr = ch.fd
  PROVE  LET m == UpdateChannel(p, ch)
         IN /\ m.ok
            /\ m.ep \in Pollers
            /\ m.ch = ch
            /\ Len(m.ep.events) = Len(p.events)
            /\ m.ep.events[Len(p.events)] = [ptr |-> ch.fd, mask |-> ch.mask]
            /\ m.ep.channel = p.channel
<1> DEFINE slot == [ptr |-> ch.fd, mask |-> ch.mask]
           e(i) == IF i = ch.index + 1 THEN slot ELSE p.events[i]
           events == [i \in 1..Len(p.events) |-> e(i)]
<1>1. p.events \in Seq(Slots) /\ p.channel \in SUBSET Fds /\ p.interest \in [Fds -> SUBSET Modes]
  BY DEF Pollers
<1>2. ch.fd \in Fds /\ ch.mask \in SUBSET Modes /\ ch.index \in Int
  BY DEF Channels
<1>3. slot \in Slots
  BY <1>2 DEF Slots
<1>4. Len(p.events) \in Nat
  BY <1>1, LenProperties
<1>5. \A i \in 1..Len(p.events) : e(i) \in Slots
  BY <1>1, <1>3, ElementOfSeq
<1>6. events \in Seq(Slots)
  <2> HIDE DEF e
  <2> QED
    BY <1>4, <1>5, IsASeq
<1>7. Len(events) = Len(p.events)
  BY <1>4, <1>6, LenProperties
<1>8. events[Len(p.events)] = slot
  BY <1>2, <1>4
<1>9. [events |-> events, channel |-> p.channel,
       interest |-> [p.interest EXCEPT ![ch.fd] = ch.mask]] \in Pollers
  <2>1. [p.interest EXCEPT ![ch.fd] = ch.mask] \in [Fds -> SUBSET Modes]
    BY <1>1, <1>2
  <2> QED
    BY <1>1, <1>6, <2>1 DEF Pollers
<1>10. ~(ch.index < 0)
  BY <1>2, <1>4
<1>11. OwnSlot(p, ch)
  BY <1>2, <1>4 DEF OwnSlot
<1>12. UpdateChannel(p, ch) =
         [ok |-> OwnSlot(p, ch),
          ep |-> [events |-> events, channel |-> p.channel,
                  interest |-> [p.interest EXCEPT ![ch.fd] = ch.mask]],
          ch |-> ch]
  BY <1>10 DEF UpdateChannel, Modified
<1> HIDE DEF events, slot
<1> QED
  BY <1>7, <1>8, <1>9, <1>11, <1>12 DEF slot

\* A disabled channel in the last entry is removed with it (Epoll.cc:76-107).
LEMMA RemovedProperties ==
  ASSUME NEW p \in Pollers, NEW ch \in Channels,
         Len(p.events) > 0,
         ch.fd \in p.channel, ch.mask = {}, ch.index = Len(p.events) - 1,
         p.events[Len(p.events)].mask = {}
  PROVE  LET r == RemoveChannel(p, ch)
         IN /\ r.ok
            /\ r.ep \in Pollers
            /\ Len(r.ep.events) = Len(p.events) - 1
            /\ r.ep.channel = p.channel \ {ch.fd}
<1> DEFINE events == SubSeq(p.events, 1, Len(p.events) - 1)
<1>1. p.events \in Seq(Slots) /\ p.channel \in SUBSET Fds /\ p.interest \in [Fds -> SUBSET Modes]
  BY DEF Pollers
<1>2. ch.fd \in Fds /\ ch.mask \in SUBSET Modes /\ ch.index \in Int
  BY DEF Channels
<1>3. Len(p.events) \in Nat
  BY <1>1, LenProperties
<1>4. \A i \in 1..Len(p.events) - 1 : p.events[i] \in Slots
  BY <1>1, <1>3, ElementOfSeq
<1>5. events \in Seq(Slots) /\ Len(events) = Len(p.events) - 1
  BY <1>3, <1>4, SubSeqProperties
<1>6. [p.interest EXCEPT ![ch.fd] = {}] \in [Fds -> SUBSET Modes]
  BY <1>1, <1>2
<1>7. [events |-> events, channel |-> p.channel \ {ch.fd},
       interest |-> [p.interest EXCEPT ![ch.fd] = {}]] \in Pollers
  BY <1>1, <1>5, <1>6 DEF Pollers
<1>8. ch.index + 1 = Len(p.events)
  BY <1>2, <1>3
<1> HIDE DEF events
<1> QED
  BY <1>5, <1>7, <1>8 DEF RemoveChannel, events

\* A wait that does not fill the vector leaves its length and its last entry
\* alone; one that does doubles it (Epoll.cc:8-26).
LEMMA PolledProperties ==
  ASSUME NEW p \in Pollers, NEW got \in Seq(Slots), Len(got) <= Len(p.events)
  PROVE  LET q == Polled(p, got)
         IN /\ q \in Pollers
            /\ q.channel = p.channel
            /\ Len(got) < Len(p.events) =>
                 /\ Len(q.events) = Len(p.events)
                 /\ q.events[Len(p.events)] = p.events[Len(p.events)]
            /\ Len(got) = Len(p.events) => Len(q.events) = Len(p.events) + Len(p.events)
<1> DEFINE rest == SubSeq(p.events, Len(got) + 1, Len(p.events))
           filled == got \o rest
           empty == [i \in 1..Len(p.events) |-> NoSlot]
           doubled == filled \o empty
<1>1. p.events \in Seq(Slots) /\ p.channel \in SUBSET Fds /\ p.interest \in [Fds -> SUBSET Modes]
  BY DEF Pollers
<1>2. Len(p.events) \in Nat /\ Len(got) \in Nat
  BY <1>1, LenProperties
<1>3. \A i \in Len(got) + 1..Len(p.events) : p.events[i] \in Slots
  BY <1>1, <1>2, ElementOfSeq
<1>4. /\ rest \in Seq(Slots)
      /\ Len(rest) = Len(p.events) - Len(got)
      /\ \A i \in 1..Len(p.events) - Len(got) : rest[i] = p.events[Len(got) + i]
  <2>1. /\ rest \in Seq(Slots)
        /\ Len(rest) = IF Len(got) + 1 <= Len(p.events) THEN Len(p.events) - (Len(got) + 1) + 1 ELSE 0
        /\ \A i \in 1..Len(p.events) - (Len(got) + 1) + 1 : rest[i] = p.events[(Len(got) + 1) + i - 1]
    BY <1>2, <1>3, SubSeqProperties
  <2> HIDE DEF rest
  <2> QED
    BY <1>2, <2>1
<1>5. /\ filled \in Seq(Slots)
      /\ Len(filled) = Len(p.events)
      /\ Len(got) < Len(p.events) => filled[Len(p.events)] = p.events[Len(p.events)]
  <2> HIDE DEF rest
  <2>1. /\ filled \in Seq(Slots)
        /\ Len(filled) = Len(got) + Len(rest)
        /\ \A i \in 1..Len(got) + Len(rest) :
             filled[i] = IF i <= Len(got) THEN got[i] ELSE rest[i - Len(got)]
    BY <1>4, ConcatProperties
  <2> HIDE DEF filled
  <2>2. Len(filled) = Len(p.events)
    BY <1>2, <1>4, <2>1
  <2>3. ASSUME Len(got) < Len(p.events)
        PROVE  filled[Len(p.events)] = p.events[Len(p.events)]
    <3>1. filled[Len(p.events)] = rest[Len(p.events) - Len(got)]
      BY <1>2, <1>4, <2>1, <2>3
    <3>2. rest[Len(p.events) - Len(got)] = p.events[Len(got) + (Len(p.events) - Len(got))]
      BY <1>2, <1>4, <2>3
    <3> QED
      BY <1>2, <3>1, <3>2
  <2> QED
    BY <2>1, <2>2, <2>3
<1>6. NoSlot \in Slots
  BY DEF NoSlot, Slots, Modes
<1>7. empty \in Seq(Slots)
  BY <1>2, <1>6, IsASeq
<1>8. Len(empty) = Len(p.events)
  BY <1>2, <1>7, LenProperties
<1>9. doubled \in Seq(Slots) /\ Len(doubled) = Len(p.events) + Len(p.events)
  <2> HIDE DEF filled, empty
  <2>1. doubled \in Seq(Slots) /\ Len(doubled) = Len(filled) + Len(empty)
    BY <1>5, <1>7, ConcatProperties
  <2> QED
    BY <1>5, <1>8, <2>1
<1>10. Polled(p, got) =
         [p EXCEPT !.events = IF Len(got) = Len(p.events) THEN doubled ELSE filled]
  BY DEF Polled
<1> HIDE DEF filled, doubled
<1>11. CASE Len(got) = Len(p.events)
  <2>1. Polled(p, got) = [p EXCEPT !.events = doubled]
    BY <1>10, <1>11
  <2>2. [p EXCEPT !.events = doubled] \in Pollers
    BY <1>9 DEF Pollers
  <2>3. [p EXCEPT !.events = doubled].events = doubled /\ [p EXCEPT !.events = doubled].channel = p.channel
    BY DEF Pollers
  <2> QED
    BY <1>2, <1>9, <1>11, <2>1, <2>2, <2>3
<1>12. CASE Len(got) # Len(p.events)
  <2>1. Polled(p, got) = [p EXCEPT !.events = filled]
    BY <1>10, <1>12
  <2>2. [p EXCEPT !.events = filled] \in Pollers
    BY <1>5 DEF Pollers
  <2>3. [p EXCEPT !.events = filled].events = filled /\ [p EXCEPT !.events = filled].channel = p.channel
    BY DEF Pollers
  <2> QED
    BY <1>5, <1>12, <2>1, <2>2, <2>3
<1> QED
  BY <1>11, <1>12

-----------------------------------------------------------------------------
(* The sockets.                                                            *)

\* What each call does to the fields of a socket.
LEMMA SocketProperties ==
  ASSUME NEW U, NEW s \in Socket(U)
  PROVE  /\ s.up \in Nat /\ s.down \in Seq(U) /\ s.end \in Ends /\ s.pending \in BOOLEAN
         /\ Len(s.down) \in Nat
         /\ /\ [s EXCEPT !.up = s.up + 1] \in Socket(U)
            /\ [s EXCEPT !.up = s.up + 1].up = s.up + 1
            /\ [s EXCEPT !.up = s.up + 1].down = s.down
            /\ [s EXCEPT !.up = s.up + 1].end = s.end
         /\ /\ Reported(s) \in Socket(U)
            /\ Reported(s).up = s.up
            /\ Reported(s).down = s.down
            /\ Reported(s).end = s.end
         /\ /\ Dead(s) \in Socket(U)
            /\ Dead(s).up = s.up
            /\ Dead(s).down = <<>>
            /\ Dead(s).end = "dead"
<1>1. s.up \in Nat /\ s.down \in Seq(U) /\ s.end \in Ends /\ s.pending \in BOOLEAN
  BY DEF Socket
<1>2. <<>> \in Seq(U)
  BY EmptySeq
<1>3. Len(s.down) \in Nat
  BY <1>1, LenProperties
<1>4. s.up + 1 \in Nat
  BY <1>1
<1> QED
  BY <1>1, <1>2, <1>3, <1>4 DEF Socket, Reported, Dead, Ends

\* The server's read takes what has arrived (Acceptor.cc:157).
LEMMA TakenProperties ==
  ASSUME NEW U, NEW s \in Socket(U), NEW n \in 0..s.up
  PROVE  /\ [s EXCEPT !.up = s.up - n] \in Socket(U)
         /\ [s EXCEPT !.up = s.up - n].up = s.up - n
         /\ [s EXCEPT !.up = s.up - n].end = s.end
<1>1. s.up - n \in Nat
  BY DEF Socket
<1> QED
  BY <1>1 DEF Socket

\* A write that was taken adds to what is on its way (Acceptor.cc:48, 177).
LEMMA GivenProperties ==
  ASSUME NEW U, NEW s \in Socket(U), NEW units \in Seq(U)
  PROVE  /\ Given(s, units) \in Socket(U)
         /\ Given(s, units).up = s.up
         /\ Given(s, units).end = s.end
         /\ Given(s, units).down = s.down \o units
<1>1. s.down \o units \in Seq(U)
  BY ConcatProperties DEF Socket
<1> QED
  BY <1>1 DEF Given, Socket

\* The client's close ends its stream, and keeps what it has sent.
LEMMA ClosedProperties ==
  ASSUME NEW U, NEW s \in Socket(U), NEW t \in Closed(s)
  PROVE  /\ t \in Socket(U)
         /\ t.up = s.up
         /\ t.end # "open"
<1>1. <<>> \in Seq(U)
  BY EmptySeq
<1> QED
  BY <1>1 DEF Closed, Socket, Ends

\* The client's read takes something, and from what was on its way.
LEMMA ReceivedProperties ==
  ASSUME NEW U, NEW s \in Socket(U), NEW t \in Received(s)
  PROVE  /\ t \in Socket(U)
         /\ t.up = s.up
         /\ t.end = s.end
         /\ s.down # <<>>
<1>1. s.down \in Seq(U)
  BY DEF Socket
<1>2. PICK n \in 1..Len(s.down) : t = [s EXCEPT !.down = SubSeq(s.down, n + 1, Len(s.down))]
  BY DEF Received
<1>3. Len(s.down) \in Nat
  BY <1>1, LenProperties
<1>4. \A i \in n + 1..Len(s.down) : s.down[i] \in U
  BY <1>1, <1>3, ElementOfSeq
<1>5. SubSeq(s.down, n + 1, Len(s.down)) \in Seq(U)
  BY <1>3, <1>4, SubSeqProperties
<1>6. s.down # <<>>
  BY <1>3
<1> QED
  BY <1>2, <1>5, <1>6 DEF Socket

-----------------------------------------------------------------------------
(* The actions of the clients leave the server alone.                      *)

\* What only speaks of the server survives any step of a client.
LEMMA ServerAlone ==
  ASSUME IInv, UNCHANGED server
  PROVE  /\ Placed'
         /\ Registered'
         /\ HasRoom'
         /\ AssertsHold'
         /\ Turn'
BY DEF IInv, server, Placed, Registered, HasRoom, AssertsHold, Turn, connected, isWriting, Orphans

\* A client comes (Client.cc, connectServer).
LEMMA ConnectStep ==
  ASSUME IInv, NEW c \in Clients, Connect(c)
  PROVE  IInv'
<1>1. client[c] = "off" /\ client' = [client EXCEPT ![c] = "prompt"] /\ backlog' = Append(backlog, c)
  BY DEF Connect
<1>2. UNCHANGED <<server, sock, asked>>
  BY DEF Connect
<1>3. TypeOK /\ Arriving
  BY DEF IInv
<1>4. /\ backlog' \in Seq(Clients)
      /\ Len(backlog') = Len(backlog) + 1
      /\ \A i \in 1..Len(backlog) : backlog'[i] = backlog[i]
      /\ backlog'[Len(backlog) + 1] = c
  BY <1>1, <1>3, AppendProperties DEF TypeOK
<1>5. Len(backlog) \in Nat /\ \A i \in 1..Len(backlog) : backlog[i] \in Clients
  BY <1>3, LenProperties, ElementOfSeq DEF TypeOK
<1>6. TypeOK'
  BY <1>1, <1>2, <1>3, <1>4 DEF TypeOK, server
<1>7. Arriving'
  <2>1. \A i \in 1..Len(backlog') : i \in 1..Len(backlog) \/ i = Len(backlog) + 1
    BY <1>4, <1>5
  <2>2. \A i \in 1..Len(backlog) : backlog[i] # c
    BY <1>1, <1>3 DEF Arriving
  <2>3. \A d \in Clients : client'[d] = IF d = c THEN "prompt" ELSE client[d]
    BY <1>1, <1>3 DEF TypeOK
  <2>4. UNCHANGED <<ep, chan, sock>>
    BY <1>2 DEF server
  <2>5. \A i, j \in 1..Len(backlog') : backlog'[i] = backlog'[j] => i = j
    BY <1>3, <1>4, <2>1, <2>2 DEF Arriving
  <2>6. \A i \in 1..Len(backlog') :
          /\ client'[backlog'[i]] # "off"
          /\ backlog'[i] \notin ep.channel \cup {chan.fd}
          /\ sock[backlog'[i]].down = <<>>
          /\ client'[backlog'[i]] = "waiting" => sock[backlog'[i]].up > 0
    BY <1>1, <1>3, <1>4, <1>5, <2>1, <2>2, <2>3 DEF Arriving
  <2> QED
    BY <1>1, <1>3, <2>3, <2>4, <2>5, <2>6 DEF Arriving
<1>8. Counted'
  BY <1>2 DEF IInv, Counted, server
<1>9. Owed'
  BY <1>1, <1>2, <1>3 DEF IInv, Owed, server, connected, isWriting, TypeOK
<1> QED
  BY <1>2, <1>6, <1>7, <1>8, <1>9, ServerAlone DEF IInv

\* A client asks (Client.cc:213-217).
LEMMA AskStep ==
  ASSUME IInv, NEW c \in Clients, Ask(c)
  PROVE  IInv'
<1>1. /\ client[c] = "prompt" /\ asked[c] < MaxRequests
      /\ client' = [client EXCEPT ![c] = "waiting"]
      /\ sock' = [sock EXCEPT ![c].up = @ + 1]
      /\ asked' = [asked EXCEPT ![c] = @ + 1]
      /\ UNCHANGED <<server, backlog>>
  BY DEF Ask
<1>2. TypeOK /\ Arriving /\ Counted /\ Owed
  BY DEF IInv
<1>3. sock \in [Clients -> Socket(Unit)] /\ asked \in [Clients -> 0..MaxRequests]
  BY <1>2 DEF TypeOK
<1>4. /\ sock' \in [Clients -> Socket(Unit)]
      /\ \A d \in Clients \ {c} : sock'[d] = sock[d]
      /\ sock'[c].up = sock[c].up + 1
      /\ sock'[c].down = sock[c].down
      /\ sock'[c].end = sock[c].end
  <2> DEFINE s == [sock[c] EXCEPT !.up = sock[c].up + 1]
  <2>1. sock' = [sock EXCEPT ![c] = s]
    BY <1>1
  <2>2. sock[c] \in Socket(Unit)
    BY <1>3
  <2>3. s \in Socket(Unit) /\ s.up = sock[c].up + 1 /\ s.down = sock[c].down /\ s.end = sock[c].end
    BY <2>2, SocketProperties
  <2> HIDE DEF s
  <2> QED
    BY <1>3, <2>1, <2>3
<1>5. sock[c].up \in Nat /\ MaxRequests \in Nat
  BY <1>3, SocketProperties, BoundsAssumption
<1>6. \A d \in Clients : client'[d] = IF d = c THEN "waiting" ELSE client[d]
  BY <1>1, <1>2 DEF TypeOK
<1>7. TypeOK'
  <2>1. asked' \in [Clients -> 0..MaxRequests]
    BY <1>1, <1>3, <1>5
  <2> QED
    BY <1>1, <1>2, <1>4, <2>1 DEF TypeOK, server
<1>8. Arriving'
  <2>1. UNCHANGED <<ep, chan, backlog>>
    BY <1>1 DEF server
  <2>2. \A i \in 1..Len(backlog) : backlog[i] \in Clients
    BY <1>2, ElementOfSeq DEF TypeOK
  <2> QED
    BY <1>1, <1>2, <1>4, <1>5, <1>6, <2>1, <2>2 DEF Arriving
<1>9. Counted'
  <2>1. answered \in [Clients -> Nat] /\ answered' = answered
    BY <1>1, <1>2 DEF TypeOK, server
  <2>2. \A d \in Clients \ {c} : asked'[d] = asked[d]
    BY <1>1, <1>3
  <2>3. asked'[c] = asked[c] + 1 /\ asked[c] \in Nat /\ answered[c] \in Nat
    BY <1>1, <1>3, <1>5, <2>1
  <2>4. answered[c] + sock[c].up <= asked[c]
    BY <1>2 DEF Counted
  <2>5. answered'[c] + sock'[c].up <= asked'[c]
    BY <1>4, <1>5, <2>1, <2>3, <2>4
  <2> QED
    BY <1>2, <1>4, <2>1, <2>2, <2>5 DEF Counted
<1>10. Owed'
  <2>1. UNCHANGED <<state, chan, pc, nw, out>>
    BY <1>1 DEF server
  <2>2. CASE chan.fd = c
    BY <1>4, <1>5, <2>1, <2>2 DEF Owed
  <2>3. CASE chan.fd # c
    <3>1. chan.fd \in Clients \/ chan.fd = Listener
      BY <1>2 DEF TypeOK, Channels, Fds
    <3>2. connected => chan.fd \in Clients
      BY <3>1 DEF IInv, Registered
    <3> QED
      BY <1>2, <1>4, <1>6, <2>1, <2>3, <3>2 DEF Owed, connected, isWriting
  <2> QED
    BY <2>2, <2>3
<1> QED
  BY <1>1, <1>7, <1>8, <1>9, <1>10, ServerAlone DEF IInv

\* A socket's end that is the client's own doing, or the network's, makes
\* nothing worse as long as the client is not waiting afterwards.
LEMMA SocketStep ==
  ASSUME IInv, NEW c \in Clients, NEW s \in Socket(Unit),
         sock' = [sock EXCEPT ![c] = s],
         s.up = sock[c].up,
         sock[c].down = <<>> => s.down = <<>>,
         client' \in [Clients -> {"off", "prompt", "waiting", "gone"}],
         \A d \in Clients \ {c} : client'[d] = client[d],
         client[c] # "off", client'[c] \notin {"off", "waiting"},
         client'[c] = "prompt" => s.end = "open",
         UNCHANGED <<server, backlog, asked>>
  PROVE  IInv'
<1>1. TypeOK /\ Arriving /\ Counted /\ Owed
  BY DEF IInv
<1>2. /\ sock \in [Clients -> Socket(Unit)]
      /\ sock' \in [Clients -> Socket(Unit)]
      /\ \A d \in Clients \ {c} : sock'[d] = sock[d]
      /\ sock'[c] = s
  BY <1>1 DEF TypeOK
<1>3. TypeOK'
  BY <1>1, <1>2 DEF TypeOK, server
<1>4. UNCHANGED <<ep, chan, backlog>>
  BY DEF server
<1>5. \A i \in 1..Len(backlog) : backlog[i] \in Clients
  BY <1>1, ElementOfSeq DEF TypeOK
<1>6. Arriving'
  BY <1>1, <1>2, <1>4, <1>5 DEF Arriving
<1>7. Counted'
  <2>1. UNCHANGED <<answered, asked>>
    BY DEF server
  <2> QED
    BY <1>1, <1>2, <2>1 DEF Counted
<1>8. Owed'
  <2>1. UNCHANGED <<state, chan, pc, nw, out>>
    BY DEF server
  <2>2. connected => chan.fd \in Clients
    BY <1>1 DEF IInv, Registered, TypeOK, Channels, Fds
  <2> QED
    BY <1>1, <1>2, <2>1, <2>2 DEF Owed, connected, isWriting
<1> QED
  BY <1>3, <1>6, <1>7, <1>8, ServerAlone DEF IInv

\* A client reads an answer (Client.cc:219-224).
LEMMA RecvStep ==
  ASSUME IInv, NEW c \in Clients, Recv(c)
  PROVE  IInv'
<1>1. TypeOK /\ Arriving
  BY DEF IInv
<1>2. sock[c] \in Socket(Unit)
  BY <1>1 DEF TypeOK
<1>3. PICK s \in Received(sock[c]) : sock' = [sock EXCEPT ![c] = s]
  BY DEF Recv
<1>4. /\ client[c] = "waiting"
      /\ client' = [client EXCEPT ![c] = "prompt"]
      /\ UNCHANGED <<server, backlog, asked>>
  BY DEF Recv
<1>5. s \in Socket(Unit) /\ s.up = sock[c].up /\ s.end = sock[c].end /\ sock[c].down # <<>>
  BY <1>2, ReceivedProperties
<1>6. /\ client' \in [Clients -> {"off", "prompt", "waiting", "gone"}]
      /\ \A d \in Clients \ {c} : client'[d] = client[d]
      /\ client'[c] = "prompt"
  BY <1>1, <1>4 DEF TypeOK
<1>7. sock[c].end = "open"
  BY <1>1, <1>4 DEF Arriving
<1> QED
  BY <1>3, <1>4, <1>5, <1>6, <1>7, SocketStep

\* A client leaves, or stops at its own assert (Client.cc:138, 191).
LEMMA LeaveStep ==
  ASSUME IInv, NEW c \in Clients, Leave(c)
  PROVE  IInv'
<1>1. TypeOK /\ Arriving
  BY DEF IInv
<1>2. sock[c] \in Socket(Unit)
  BY <1>1 DEF TypeOK
<1>3. client[c] \in {"prompt", "waiting"}
  BY DEF Leave
<1>4. PICK s \in Closed(sock[c]) : sock' = [sock EXCEPT ![c] = s]
  BY DEF Leave
<1>5. /\ client' = [client EXCEPT ![c] = "gone"]
      /\ UNCHANGED <<server, backlog, asked>>
  BY DEF Leave
<1>6. s \in Socket(Unit) /\ s.up = sock[c].up
  BY <1>2, ClosedProperties
<1>7. sock[c].down = <<>> => s.down = <<>>
  BY <1>2, <1>4 DEF Closed, Socket
<1>8. /\ client' \in [Clients -> {"off", "prompt", "waiting", "gone"}]
      /\ \A d \in Clients \ {c} : client'[d] = client[d]
      /\ client'[c] = "gone"
  BY <1>1, <1>5 DEF TypeOK
<1> QED
  BY <1>3, <1>4, <1>5, <1>6, <1>7, <1>8, SocketStep

\* What nobody will read is answered by a reset.
LEMMA ResetStep ==
  ASSUME IInv, NEW c \in Clients, ResetArrives(c)
  PROVE  IInv'
<1>1. TypeOK /\ Arriving
  BY DEF IInv
<1>2. sock[c] \in Socket(Unit) /\ client \in [Clients -> {"off", "prompt", "waiting", "gone"}]
  BY <1>1 DEF TypeOK
<1>3. /\ ResetDue(sock[c])
      /\ sock' = [sock EXCEPT ![c] = Dead(sock[c])]
      /\ UNCHANGED <<server, backlog, client, asked>>
  BY DEF ResetArrives
<1>4. Dead(sock[c]) \in Socket(Unit) /\ Dead(sock[c]).up = sock[c].up /\ Dead(sock[c]).down = <<>>
  BY <1>2, SocketProperties
<1>5. client[c] \notin {"off", "prompt", "waiting"}
  BY <1>1, <1>3 DEF Arriving, ResetDue
<1> QED
  BY <1>2, <1>3, <1>4, <1>5, SocketStep

-----------------------------------------------------------------------------
(* The loop.                                                               *)

\* A function on an initial segment of the numbers is a sequence.
LEMMA SegmentIsSeq ==
  ASSUME NEW S, NEW n \in Nat, NEW f \in [1..n -> S]
  PROVE  f \in Seq(S) /\ Len(f) = n
<1> DEFINE e(i) == f[i]
<1>1. \A i \in 1..n : e(i) \in S
  OBVIOUS
<1>2. [i \in 1..n |-> e(i)] \in Seq(S)
  <2> HIDE DEF e
  <2> QED
    BY <1>1, IsASeq
<1>3. f = [i \in 1..n |-> e(i)]
  OBVIOUS
<1>4. f \in Seq(S)
  BY <1>2, <1>3
<1>5. Len(f) \in Nat /\ DOMAIN f = 1..Len(f) /\ DOMAIN f = 1..n
  BY <1>4, LenProperties
<1> QED
  BY <1>4, <1>5

\* The events of one wait: of different registered descriptors, and no more of
\* them than there are.
LEMMA WaitReports ==
  ASSUME TypeOK, IsFiniteSet(ep.channel),
         NEW R \in SUBSET ep.channel,
         NEW order \in SetToSeqs(R),
         NEW got, got = [i \in 1..Len(order) |-> [ptr |-> order[i], mask |-> Ready(order[i])]]
  PROVE  /\ got \in Seq(Slots)
         /\ Len(got) = Cardinality(R)
         /\ Len(got) <= Cardinality(ep.channel)
         /\ \A i \in 1..Len(got) : got[i].ptr \in R
         /\ \A i, j \in 1..Len(got) : got[i].ptr = got[j].ptr => i = j
<1>1. IsFiniteSet(R) /\ Cardinality(R) <= Cardinality(ep.channel) /\ Cardinality(R) \in Nat
  BY FS_Subset, FS_CardinalityType
<1>2. order \in [1..Cardinality(R) -> R] /\ \A i, j \in 1..Cardinality(R) : i # j => order[i] # order[j]
  BY DEF SetToSeqs
<1>3. Len(order) = Cardinality(R)
  BY <1>1, <1>2, SegmentIsSeq
<1>4. \A fd \in Fds : Ready(fd) \in SUBSET Modes
  BY DEF TypeOK, Pollers, Ready, Modes
<1>5. R \in SUBSET Fds
  BY DEF TypeOK, Pollers
<1>6. got \in [1..Cardinality(R) -> Slots]
  BY <1>2, <1>3, <1>4, <1>5 DEF Slots
<1>7. got \in Seq(Slots) /\ Len(got) = Cardinality(R)
  BY <1>1, <1>6, SegmentIsSeq
<1>8. \A i \in 1..Cardinality(R) : got[i].ptr = order[i]
  BY <1>3
<1>9. \A i \in 1..Len(got) : got[i].ptr \in R
  BY <1>2, <1>7, <1>8
<1>10. \A i, j \in 1..Len(got) : got[i].ptr = got[j].ptr => i = j
  BY <1>2, <1>7, <1>8
<1>11. got \in Seq(Slots) /\ Len(got) = Cardinality(R) /\ Len(got) <= Cardinality(ep.channel)
  BY <1>1, <1>7
<1> QED
  BY <1>9, <1>10, <1>11

\* epoll_wait leaves the entry of the connection alone (EventLoop.cc, Epoll.cc:8-41).
LEMMA WaitStep ==
  ASSUME IInv, Wait
  PROVE  IInv' /\ Grows
<1>1. /\ pc = "loop" /\ active = <<>> /\ fate = "up"
      /\ UNCHANGED <<fate, pc, chan, state, out, msg, nw, answered, given, others>>
  BY DEF Wait, Up
<1>2. TypeOK /\ Registered /\ HasRoom /\ Arriving /\ Counted /\ Owed
  BY DEF IInv
<1> DEFINE ready == {fd \in ep.channel : Ready(fd) # {}}
           events(order) == [i \in 1..Len(order) |-> [ptr |-> order[i], mask |-> Ready(order[i])]]
<1>3. PICK R \in SUBSET ready :
        /\ R # {}
        /\ Cardinality(R) <= Len(ep.events)
        /\ \E order \in SetToSeqs(R) :
             ep' = Polled(ep, events(order)) /\ active' = events(order)
  BY DEF Wait
<1>4. PICK order \in SetToSeqs(R) : ep' = Polled(ep, events(order)) /\ active' = events(order)
  BY <1>3
<1>5. R \in SUBSET ep.channel /\ IsFiniteSet(ep.channel)
  BY <1>2 DEF Registered
<1>6. /\ active' \in Seq(Slots)
      /\ Len(active') = Cardinality(R)
      /\ Len(active') <= Cardinality(ep.channel)
      /\ \A i \in 1..Len(active') : active'[i].ptr \in R
      /\ \A i, j \in 1..Len(active') : active'[i].ptr = active'[j].ptr => i = j
  BY <1>2, <1>4, <1>5, WaitReports
<1>7. Len(active') <= Len(ep.events) /\ ep' = Polled(ep, active') /\ ep \in Pollers
  BY <1>2, <1>3, <1>4, <1>6 DEF TypeOK
<1> HIDE DEF ready, events
<1>8. /\ ep' \in Pollers
      /\ ep'.channel = ep.channel
      /\ Len(active') < Len(ep.events) =>
           /\ Len(ep'.events) = Len(ep.events)
           /\ ep'.events[Len(ep.events)] = ep.events[Len(ep.events)]
      /\ Len(active') = Len(ep.events) => Len(ep'.events) = Len(ep.events) + Len(ep.events)
  BY <1>6, <1>7, PolledProperties
<1>9. Len(ep.events) \in Nat /\ Len(active') \in Nat /\ Cardinality(ep.channel) \in Nat
  BY <1>5, <1>6, <1>7, LenProperties, FS_CardinalityType DEF Pollers
<1>10. TypeOK'
  BY <1>1, <1>2, <1>6, <1>8 DEF TypeOK, others
<1>11. Placed'
  BY <1>1 DEF IInv, Placed, connected, isWriting
<1>12. ASSUME Cardinality(ep.channel) < Len(ep.events)
       PROVE  Registered' /\ HasRoom' /\ Grows
  <2>1. Len(ep'.events) = Len(ep.events) /\ ep'.events[Len(ep.events)] = ep.events[Len(ep.events)]
    BY <1>6, <1>8, <1>9, <1>12
  <2> QED
    BY <1>1, <1>2, <1>8, <1>9, <1>12, <2>1 DEF Registered, HasRoom, Grows, connected
<1>13. ASSUME Len(ep.events) = 1, ep.channel = {Listener}
       PROVE  Registered' /\ HasRoom' /\ Grows
  <2>1. R = {Listener}
    BY <1>3, <1>5, <1>13
  <2>2. Len(active') = 1 /\ Cardinality(ep.channel) = 1
    BY <1>6, <1>13, <2>1, FS_Singleton
  <2>3. Len(ep'.events) = 2
    BY <1>8, <1>13, <2>2
  <2>4. ~connected
    BY <1>2, <1>13 DEF Registered
  <2>5. Registered'
    BY <1>1, <1>2, <1>8, <2>3, <2>4 DEF Registered, connected
  <2>6. HasRoom'
    BY <1>8, <2>2, <2>3 DEF HasRoom
  <2> QED
    BY <1>13, <2>3, <2>5, <2>6 DEF Grows
<1>14. Registered' /\ HasRoom' /\ Grows
  BY <1>2, <1>12, <1>13 DEF HasRoom
<1>15. AssertsHold'
  BY <1>1 DEF AssertsHold
<1>16. Turn'
  <2>1. ASSUME Orphans' = {}, NEW i \in 1..Len(active')
        PROVE  active'[i].ptr = Listener \/ (active'[i].ptr = chan.fd /\ connected)
    <3>1. active'[i].ptr \in ep.channel
      BY <1>5, <1>6, <2>1
    <3>2. active'[i].ptr \in {Listener, chan.fd}
      BY <1>1, <1>8, <2>1, <3>1 DEF Orphans
    <3> QED
      BY <1>2, <3>1, <3>2 DEF Registered
  <2> QED
    BY <1>1, <1>6, <2>1 DEF Turn, connected
<1>17. Arriving' /\ Counted'
  BY <1>1, <1>2, <1>8 DEF Arriving, Counted, others
<1>18. Owed'
  BY <1>1, <1>2 DEF Owed, others, connected, isWriting
<1> QED
  BY <1>10, <1>11, <1>14, <1>15, <1>16, <1>17, <1>18 DEF IInv

\* The end of the process changes nothing else.
LEMMA DieStep ==
  ASSUME IInv, NEW why \in {"sigpipe", "dangling"}, Die(why), UNCHANGED others
  PROVE  IInv'
<1>1. fate' = why /\ UNCHANGED <<pc, active, ep, chan, state, out, msg, nw, answered, given, backlog, sock, client, asked>>
  BY DEF Die, others
<1>2. TypeOK'
  BY <1>1 DEF IInv, TypeOK, Fates
<1>3. AssertsHold'
  BY <1>1 DEF AssertsHold
<1>4. Placed' /\ Registered' /\ HasRoom' /\ Turn'
  BY <1>1 DEF IInv, Placed, Registered, HasRoom, Turn, connected, isWriting, Orphans
<1>5. Arriving' /\ Counted' /\ Owed'
  BY <1>1 DEF IInv, Arriving, Counted, Owed, connected, isWriting
<1> QED
  BY <1>2, <1>3, <1>4, <1>5 DEF IInv

\* The loop takes the next event (EventLoop.cc, Channel.cc:16-25).
LEMMA HandleEventStep ==
  ASSUME IInv, HandleEvent
  PROVE  IInv'
<1>1. /\ fate = "up" /\ pc = "loop" /\ active # <<>> /\ active[1].ptr # Listener
      /\ pc' \in {"in", "out"}
      /\ UNCHANGED <<fate, active, ep, chan, state, out, msg, nw, answered, given, backlog, sock, client, asked>>
  BY DEF HandleEvent, Up, others
<1>2. TypeOK'
  BY <1>1 DEF IInv, TypeOK
<1>3. Placed'
  BY <1>1 DEF IInv, Placed, connected, isWriting
<1>4. Registered' /\ HasRoom' /\ AssertsHold'
  BY <1>1 DEF IInv, Registered, HasRoom, AssertsHold, connected
<1>5. Turn'
  BY <1>1 DEF IInv, Turn, connected, Orphans
<1>6. Arriving' /\ Counted'
  BY <1>1 DEF IInv, Arriving, Counted
<1>7. Owed'
  BY <1>1 DEF IInv, Owed, connected, isWriting
<1> QED
  BY <1>2, <1>3, <1>4, <1>5, <1>6, <1>7 DEF IInv

\* An event is taken off the list when its callbacks have returned.
LEMMA HandledProperties ==
  ASSUME active \in Seq(Slots), active # <<>>, Handled
  PROVE  /\ pc' = "loop"
         /\ active' \in Seq(Slots)
         /\ Len(active') = Len(active) - 1
         /\ \A i \in 1..Len(active') :
              /\ i + 1 \in 2..Len(active)
              /\ active'[i] = active[i + 1]
         /\ \A i \in 2..Len(active) : i \in 1..Len(active) /\ i # 1
<1>1. Len(active) \in Nat
  BY LenProperties
<1>2. /\ Tail(active) \in Seq(Slots)
      /\ Len(Tail(active)) = Len(active) - 1
      /\ \A i \in 1..Len(Tail(active)) : Tail(active)[i] = active[i + 1]
  BY HeadTailProperties
<1>3. pc' = "loop" /\ active' = Tail(active)
  BY DEF Handled
<1> QED
  BY <1>1, <1>2, <1>3

\* What is left of a turn after an event that neither closed nor opened a
\* connection.
LEMMA HandledTurn ==
  ASSUME IInv, active # <<>>, Handled,
         ep'.channel = ep.channel, chan'.fd = chan.fd, state' = state
  PROVE  active' \in Seq(Slots) /\ pc' = "loop" /\ Turn'
<1>1. active \in Seq(Slots) /\ Turn
  BY DEF IInv, TypeOK
<1>2. /\ pc' = "loop"
      /\ active' \in Seq(Slots)
      /\ \A i \in 1..Len(active') :
           i + 1 \in 1..Len(active) /\ i + 1 # 1 /\ active'[i] = active[i + 1]
  BY <1>1, HandledProperties
<1>3. \A i, j \in 1..Len(active') : active'[i].ptr = active'[j].ptr => i = j
  <2> SUFFICES ASSUME NEW i \in 1..Len(active'), NEW j \in 1..Len(active'),
                      active'[i].ptr = active'[j].ptr
               PROVE  i = j
    OBVIOUS
  <2>1. i + 1 = j + 1
    BY <1>1, <1>2 DEF Turn
  <2> QED
    BY <2>1
<1>4. Orphans' = Orphans
  BY DEF Orphans
<1>5. ASSUME Orphans = {}, NEW i \in 1..Len(active')
      PROVE  active'[i].ptr = Listener \/ (active'[i].ptr = chan.fd /\ connected)
  BY <1>1, <1>2, <1>5 DEF Turn
<1> QED
  BY <1>2, <1>3, <1>4, <1>5 DEF Turn, connected

\* The first client in the backlog is accepted, and its channel takes the place
\* of the last one (Acceptor.cc:90-109, 136-152).
LEMMA AcceptedStep ==
  ASSUME IInv, pc = "loop", fate = "up", active # <<>>, backlog # <<>>, Handled,
         NewConnection(Head(backlog)), backlog' = Tail(backlog),
         UNCHANGED <<fate, out, msg, nw, answered, given, sock, client, asked>>
  PROVE  IInv' /\ Grows
<1> DEFINE c == Head(backlog)
           fresh == [NewChannel(c) EXCEPT !.mask = @ \cup {"in"}]
           new == Added(ep, fresh)
<1>1. TypeOK /\ Placed /\ Registered /\ HasRoom /\ Turn /\ Arriving /\ Counted
  BY DEF IInv
<1>2. backlog \in Seq(Clients) /\ active \in Seq(Slots) /\ ep \in Pollers
  BY <1>1 DEF TypeOK
<1>3. /\ c \in Clients /\ c = backlog[1]
      /\ Tail(backlog) \in Seq(Clients)
      /\ Len(Tail(backlog)) = Len(backlog) - 1
      /\ \A i \in 1..Len(Tail(backlog)) : Tail(backlog)[i] = backlog[i + 1]
      /\ Len(backlog) \in Nat \ {0}
  BY <1>2, HeadTailProperties, EmptySeq
<1>4. c # Listener /\ c \in Fds
  BY <1>3, ListenerAssumption DEF Fds
<1>5. 1 \in 1..Len(backlog)
  BY <1>3
<1>6. c \notin ep.channel /\ client[c] # "off" /\ (client[c] = "waiting" => sock[c].up > 0)
  BY <1>1, <1>3, <1>5 DEF Arriving
<1>7. fresh \in Channels /\ fresh.fd = c /\ fresh.mask = {"in"} /\ fresh.index = -1
  BY <1>4 DEF NewChannel, Channels, Modes
<1>8. ep' = new.ep /\ chan' = new.ch /\ state' = "connected"
  BY <1>7 DEF NewConnection, enableReading, UpdateChannel
<1> HIDE DEF fresh
<1>9. /\ ep' \in Pollers /\ chan' \in Channels
      /\ chan'.fd = c /\ chan'.mask = {"in"}
      /\ chan'.index = Len(ep'.events) - 1
      /\ Len(ep'.events) = Len(ep.events) + 1
      /\ ep'.events[Len(ep'.events)] = [ptr |-> c, mask |-> {"in"}]
      /\ ep'.channel = ep.channel \cup {c}
  <2>1. ep \in Pollers /\ fresh \in Channels
    BY <1>2, <1>7
  <2>2. /\ new.ep \in Pollers
        /\ new.ch \in Channels
        /\ new.ch.fd = fresh.fd /\ new.ch.mask = fresh.mask
        /\ new.ch.index = Len(new.ep.events) - 1
        /\ Len(new.ep.events) = Len(ep.events) + 1
        /\ new.ep.events[Len(new.ep.events)] = [ptr |-> fresh.fd, mask |-> fresh.mask]
        /\ new.ep.channel = ep.channel \cup {fresh.fd}
    BY <2>1, AddedProperties
  <2> HIDE DEF new, c
  <2> QED
    BY <1>7, <1>8, <2>2
<1> HIDE DEF c, new
<1>10. /\ pc' = "loop"
       /\ active' \in Seq(Slots)
       /\ \A i \in 1..Len(active') :
            i + 1 \in 1..Len(active) /\ i + 1 # 1 /\ active'[i] = active[i + 1]
  BY <1>2, HandledProperties
<1>11. TypeOK'
  BY <1>1, <1>3, <1>8, <1>9, <1>10 DEF TypeOK
<1>12. Placed'
  BY <1>9, <1>10 DEF Placed, isWriting
<1>13. Registered' /\ HasRoom'
  <2>1. IsFiniteSet(ep.channel) /\ Cardinality(ep.channel) < Len(ep.events)
    BY <1>1 DEF Registered, HasRoom
  <2>2. Cardinality(ep.channel) \in Nat /\ Len(ep.events) \in Nat
    BY <1>2, <2>1, FS_CardinalityType, LenProperties DEF Pollers
  <2>3. IsFiniteSet(ep'.channel) /\ Cardinality(ep'.channel) = Cardinality(ep.channel) + 1
    BY <1>6, <1>9, <2>1, FS_AddElement
  <2>4. HasRoom'
    BY <1>9, <2>1, <2>2, <2>3 DEF HasRoom
  <2>5. Listener \in ep'.channel /\ c \in ep'.channel \ {Listener} /\ Len(ep'.events) > 0
    BY <1>1, <1>4, <1>9, <2>2 DEF Registered
  <2> QED
    BY <1>8, <1>9, <2>3, <2>4, <2>5 DEF Registered, connected
<1>14. AssertsHold'
  BY DEF AssertsHold
<1>15. Turn'
  <2>1. \A i, j \in 1..Len(active') : active'[i].ptr = active'[j].ptr => i = j
    <3> SUFFICES ASSUME NEW i \in 1..Len(active'), NEW j \in 1..Len(active'),
                        active'[i].ptr = active'[j].ptr
                 PROVE  i = j
      OBVIOUS
    <3>1. i + 1 = j + 1
      BY <1>1, <1>10 DEF Turn
    <3> QED
      BY <3>1
  <2>2. ASSUME Orphans' = {}, NEW i \in 1..Len(active')
        PROVE  active'[i].ptr = Listener
    <3>1. ep.channel \subseteq {Listener}
      BY <1>6, <1>9, <2>2 DEF Orphans
    <3>2. Orphans = {} /\ ~connected
      BY <1>1, <3>1 DEF Orphans, Registered
    <3> QED
      BY <1>1, <1>10, <3>2 DEF Turn
  <2> QED
    BY <2>1, <2>2 DEF Turn
<1>16. Arriving'
  <2>1. \A i \in 1..Len(backlog') :
          /\ i + 1 \in 1..Len(backlog)
          /\ backlog'[i] = backlog[i + 1]
          /\ backlog'[i] # c
    <3> SUFFICES ASSUME NEW i \in 1..Len(backlog')
                 PROVE  /\ i + 1 \in 1..Len(backlog)
                        /\ backlog'[i] = backlog[i + 1]
                        /\ backlog'[i] # c
      OBVIOUS
    <3>1. i + 1 \in 1..Len(backlog) /\ i + 1 # 1 /\ backlog'[i] = backlog[i + 1]
      BY <1>3
    <3> QED
      BY <1>1, <1>3, <1>5, <3>1 DEF Arriving
  <2>2. \A i, j \in 1..Len(backlog') : backlog'[i] = backlog'[j] => i = j
    <3> SUFFICES ASSUME NEW i \in 1..Len(backlog'), NEW j \in 1..Len(backlog'),
                        backlog'[i] = backlog'[j]
                 PROVE  i = j
      OBVIOUS
    <3>1. i + 1 = j + 1
      BY <1>1, <2>1 DEF Arriving
    <3> QED
      BY <3>1
  <2>3. \A i \in 1..Len(backlog') :
          /\ client[backlog'[i]] # "off"
          /\ backlog'[i] \notin ep'.channel \cup {chan'.fd}
          /\ sock[backlog'[i]].down = <<>>
          /\ client[backlog'[i]] = "waiting" => sock[backlog'[i]].up > 0
    BY <1>1, <1>9, <2>1 DEF Arriving
  <2> QED
    BY <1>1, <1>6, <1>9, <2>2, <2>3 DEF Arriving
<1>17. Counted'
  BY <1>1 DEF Counted
<1>18. Owed'
  BY <1>6, <1>9 DEF Owed
<1> QED
  BY <1>2, <1>9, <1>11, <1>12, <1>13, <1>14, <1>15, <1>16, <1>17, <1>18, LenProperties DEF IInv, Grows, Pollers

\* A vector of the same length has not grown.
LEMMA NoGrowth ==
  ASSUME IInv, Len(ep'.events) = Len(ep.events)
  PROVE  Grows
<1>1. Len(ep.events) \in Nat
  BY LenProperties DEF IInv, TypeOK, Pollers
<1> QED
  BY <1>1 DEF Grows

\* accept, or its failure (Acceptor.cc:136-152).
LEMMA HandleAcceptStep ==
  ASSUME IInv, HandleAccept
  PROVE  IInv' /\ Grows
<1>1. /\ fate = "up" /\ pc = "loop" /\ active # <<>> /\ Handled
      /\ UNCHANGED <<fate, out, msg, nw, answered, given, sock, client, asked>>
  BY DEF HandleAccept, Up
<1>2. CASE backlog # <<>> /\ Accepted < MaxFds
  <2>1. NewConnection(Head(backlog)) /\ backlog' = Tail(backlog)
    BY <1>2 DEF HandleAccept
  <2> QED
    BY <1>1, <1>2, <2>1, AcceptedStep
<1>3. CASE ~(backlog # <<>> /\ Accepted < MaxFds)
  <2>1. UNCHANGED <<ep, chan, state, backlog>>
    BY <1>3 DEF HandleAccept
  <2>2. active' \in Seq(Slots) /\ pc' = "loop" /\ Turn'
    BY <1>1, <2>1, HandledTurn
  <2>3. TypeOK'
    BY <1>1, <2>1, <2>2 DEF IInv, TypeOK
  <2>4. Placed'
    BY <1>1, <2>1, <2>2 DEF IInv, Placed, isWriting
  <2>5. Registered' /\ HasRoom' /\ AssertsHold'
    BY <1>1, <2>1 DEF IInv, Registered, HasRoom, AssertsHold, connected
  <2>6. Arriving' /\ Counted'
    BY <1>1, <2>1 DEF IInv, Arriving, Counted
  <2>7. Owed'
    BY <1>1, <2>1, <2>2 DEF IInv, Owed, connected, isWriting
  <2> QED
    BY <2>1, <2>2, <2>3, <2>4, <2>5, <2>6, <2>7, NoGrowth DEF IInv
<1> QED
  BY <1>2, <1>3

-----------------------------------------------------------------------------
(* The channel of the connection.                                          *)

\* The channel is the same but for its mask, and its entry still is the last.
ChannelKept ==
  /\ ep' \in Pollers
  /\ chan' \in Channels
  /\ ep'.channel = ep.channel
  /\ chan'.fd = chan.fd
  /\ chan'.index = chan.index
  /\ Len(ep'.events) = Len(ep.events)
  /\ ep'.events[Len(ep.events)] = [ptr |-> chan.fd, mask |-> chan'.mask]

\* While connected the channel can be updated (Channel.cc:82-108).
LEMMA MaskProperties ==
  ASSUME IInv, connected, NEW mask \in SUBSET Modes
  PROVE  LET u == UpdateChannel(ep, [chan EXCEPT !.mask = mask])
         IN /\ u.ok
            /\ u.ep \in Pollers
            /\ u.ch \in Channels
            /\ u.ep.channel = ep.channel
            /\ u.ch.fd = chan.fd
            /\ u.ch.index = chan.index
            /\ u.ch.mask = mask
            /\ Len(u.ep.events) = Len(ep.events)
            /\ u.ep.events[Len(ep.events)] = [ptr |-> chan.fd, mask |-> mask]
<1> DEFINE ch == [chan EXCEPT !.mask = mask]
<1>1. /\ ep \in Pollers /\ chan \in Channels
      /\ Len(ep.events) > 0 /\ chan.fd \in ep.channel
      /\ chan.index = Len(ep.events) - 1
      /\ ep.events[Len(ep.events)].ptr = chan.fd
  BY DEF IInv, TypeOK, Registered
<1>2. ch \in Channels /\ ch.fd = chan.fd /\ ch.mask = mask /\ ch.index = chan.index
  BY <1>1 DEF Channels
<1> HIDE DEF ch
<1>3. /\ ch.fd \in ep.channel
      /\ ch.index = Len(ep.events) - 1
      /\ ep.events[Len(ep.events)].ptr = ch.fd
  BY <1>1, <1>2
<1> DEFINE m == UpdateChannel(ep, ch)
<1>4. /\ m.ok
      /\ m.ep \in Pollers
      /\ m.ch = ch
      /\ Len(m.ep.events) = Len(ep.events)
      /\ m.ep.events[Len(ep.events)] = [ptr |-> ch.fd, mask |-> ch.mask]
      /\ m.ep.channel = ep.channel
  <2>1. ep \in Pollers /\ ch \in Channels /\ Len(ep.events) > 0
    BY <1>1, <1>2
  <2> QED
    BY <1>3, <2>1, ModifiedProperties
<1> HIDE DEF m
<1>5. /\ m.ok
      /\ m.ep \in Pollers
      /\ m.ch \in Channels
      /\ m.ep.channel = ep.channel
      /\ m.ch.fd = chan.fd
      /\ m.ch.index = chan.index
      /\ m.ch.mask = mask
      /\ Len(m.ep.events) = Len(ep.events)
      /\ m.ep.events[Len(ep.events)] = [ptr |-> chan.fd, mask |-> mask]
  BY <1>2, <1>4
<1> QED
  BY <1>5 DEF m, ch

\* A channel that is kept stays registered.
LEMMA KeptRegistered ==
  ASSUME IInv, connected, active # <<>>, ChannelKept, state' = state
  PROVE  Registered' /\ HasRoom' /\ Orphans' = Orphans
<1>1. Registered /\ HasRoom
  BY DEF IInv
<1>2. connected'
  BY DEF connected
<1>3. Registered'
  BY <1>1, <1>2 DEF Registered, ChannelKept
<1>4. HasRoom'
  BY <1>1 DEF HasRoom, ChannelKept
<1>5. Orphans' = Orphans
  BY DEF Orphans, ChannelKept
<1> QED
  BY <1>3, <1>4, <1>5

\* What is left in outputBuffer will be asked for (Acceptor.cc:63-70).
LEMMA LeaveInBufferProperties ==
  ASSUME IInv, connected, NEW units \in Seq(Unit), units # <<>>, LeaveInBuffer(units)
  PROVE  /\ fate' = fate
         /\ out' = out \o units /\ out' \in Seq(Unit) /\ out' # <<>>
         /\ ChannelKept
         /\ "out" \in chan'.mask
<1>1. TypeOK /\ Registered
  BY DEF IInv
<1>2. out' = out \o units
  BY DEF LeaveInBuffer
<1>3. out' \in Seq(Unit) /\ out' # <<>>
  BY <1>1, <1>2, ConcatProperties, ConcatEqualIffEmpty DEF TypeOK
<1>4. CASE isWriting
  <2>1. fate' = fate /\ ep' = ep /\ chan' = chan
    BY <1>4 DEF LeaveInBuffer
  <2> QED
    BY <1>1, <1>2, <1>3, <1>4, <2>1 DEF isWriting, ChannelKept, TypeOK, Registered
<1>5. CASE ~isWriting
  <2> DEFINE mask == chan.mask \cup {"out"}
             u == UpdateChannel(ep, [chan EXCEPT !.mask = mask])
  <2>1. mask \in SUBSET Modes
    BY <1>1 DEF TypeOK, Channels, Modes
  <2>2. /\ u.ok
        /\ u.ep \in Pollers
        /\ u.ch \in Channels
        /\ u.ep.channel = ep.channel
        /\ u.ch.fd = chan.fd
        /\ u.ch.index = chan.index
        /\ u.ch.mask = mask
        /\ Len(u.ep.events) = Len(ep.events)
        /\ u.ep.events[Len(ep.events)] = [ptr |-> chan.fd, mask |-> mask]
    <3> HIDE DEF mask
    <3> QED
      BY <2>1, MaskProperties
  <2>3. fate' = fate /\ ep' = u.ep /\ chan' = u.ch
    BY <1>5, <2>2 DEF LeaveInBuffer, enableWriting
  <2> HIDE DEF u
  <2>4. "out" \in mask
    OBVIOUS
  <2> HIDE DEF mask
  <2> QED
    BY <1>2, <1>3, <2>2, <2>3, <2>4 DEF ChannelKept
<1> QED
  BY <1>4, <1>5

\* An answer is never empty.
LEMMA AnswerProperties ==
  ASSUME NEW c \in Clients, NEW no \in 1..MaxRequests, NEW size \in 1..MaxAnswer
  PROVE  /\ AnswerTo(c, no, size) \in Seq(Unit)
         /\ Len(AnswerTo(c, no, size)) = size
         /\ AnswerTo(c, no, size) # <<>>
         /\ AnswerTo(c, no, size) \in Answers
<1>1. size \in Nat \ {0} /\ MaxAnswer \in Nat
  BY BoundsAssumption
<1>2. \A i \in 1..size : <<c, no, i>> \in Unit
  BY <1>1 DEF Unit
<1>3. AnswerTo(c, no, size) \in [1..size -> Unit]
  BY <1>2 DEF AnswerTo
<1>4. AnswerTo(c, no, size) \in Seq(Unit) /\ Len(AnswerTo(c, no, size)) = size
  BY <1>1, <1>3, SegmentIsSeq
<1>5. AnswerTo(c, no, size) # <<>>
  BY <1>1, <1>4, EmptySeq
<1> QED
  BY <1>4, <1>5 DEF Answers

-----------------------------------------------------------------------------
(* The read callback.                                                      *)

\* The server only touches the socket of its connection, whose client has come
\* and been accepted.
LEMMA ServedSocket ==
  ASSUME IInv, chan.fd # Listener, NEW s \in Socket(Unit),
         sock' = [sock EXCEPT ![chan.fd] = s], s.end = sock[chan.fd].end,
         ep'.channel = ep.channel, chan'.fd = chan.fd,
         UNCHANGED <<backlog, client>>
  PROVE  /\ sock' \in [Clients -> Socket(Unit)]
         /\ sock'[chan.fd] = s
         /\ \A d \in Clients \ {chan.fd} : sock'[d] = sock[d]
         /\ Arriving'
<1>1. TypeOK /\ Arriving
  BY DEF IInv
<1>2. chan.fd \in Clients
  BY <1>1 DEF TypeOK, Channels, Fds
<1>3. /\ sock' \in [Clients -> Socket(Unit)]
      /\ sock'[chan.fd] = s
      /\ \A d \in Clients \ {chan.fd} : sock'[d] = sock[d]
  BY <1>1, <1>2 DEF TypeOK
<1>4. \A i \in 1..Len(backlog) : backlog[i] \in Clients \ {chan.fd}
  BY <1>1, ElementOfSeq DEF TypeOK, Arriving
<1>5. Arriving'
  BY <1>1, <1>2, <1>3, <1>4 DEF Arriving
<1> QED
  BY <1>3, <1>5

\* A request is read, and its answer written, kept or dropped (Acceptor.cc:38-71,
\* 154-171, Server.cc:45-49).
LEMMA ReadRequestStep ==
  ASSUME IInv, ReadRequest
  PROVE  IInv' /\ Grows
<1>1. /\ fate = "up" /\ pc = "in" /\ chan.fd # Listener
      /\ answered' = [answered EXCEPT ![chan.fd] = @ + 1]
      /\ UNCHANGED <<active, state, given, backlog, client, asked>>
  BY DEF ReadRequest, Up
<1>2. TypeOK /\ Placed /\ Registered /\ HasRoom /\ Turn /\ Counted
  BY DEF IInv
<1>3. chan.fd \in Clients
  BY <1>1, <1>2 DEF TypeOK, Channels, Fds
<1>4. PICK n \in 1..sock[chan.fd].up : sock' = [sock EXCEPT ![chan.fd].up = @ - n]
  BY DEF ReadRequest, mine
<1> DEFINE s == [sock[chan.fd] EXCEPT !.up = sock[chan.fd].up - n]
<1>5. sock[chan.fd] \in Socket(Unit) /\ sock[chan.fd].up \in Nat /\ n \in 0..sock[chan.fd].up /\ n > 0
  <2>1. sock[chan.fd] \in Socket(Unit)
    BY <1>2, <1>3 DEF TypeOK
  <2>2. sock[chan.fd].up \in Nat
    BY <2>1, SocketProperties
  <2> QED
    BY <1>4, <2>1, <2>2
<1>6. sock' = [sock EXCEPT ![chan.fd] = s]
  BY <1>4
<1>7. s \in Socket(Unit) /\ s.up = sock[chan.fd].up - n /\ s.end = sock[chan.fd].end
  BY <1>5, TakenProperties
<1> HIDE DEF s
<1>8. /\ answered \in [Clients -> Nat] /\ asked \in [Clients -> 0..MaxRequests] /\ MaxRequests \in Nat
      /\ answered[chan.fd] + sock[chan.fd].up <= asked[chan.fd]
  BY <1>2, <1>3, BoundsAssumption DEF TypeOK, Counted
<1>9. /\ answered' \in [Clients -> Nat]
      /\ answered'[chan.fd] = answered[chan.fd] + 1
      /\ \A d \in Clients \ {chan.fd} : answered'[d] = answered[d]
  BY <1>1, <1>3, <1>8
<1>10. answered'[chan.fd] \in 1..MaxRequests
  BY <1>3, <1>5, <1>8, <1>9
<1>11. ASSUME ep'.channel = ep.channel, chan'.fd = chan.fd
       PROVE  sock' \in [Clients -> Socket(Unit)] /\ Arriving' /\ Counted'
  <2>1. /\ sock' \in [Clients -> Socket(Unit)]
        /\ sock'[chan.fd] = s
        /\ \A d \in Clients \ {chan.fd} : sock'[d] = sock[d]
        /\ Arriving'
    BY <1>1, <1>6, <1>7, <1>11, ServedSocket
  <2>2. answered'[chan.fd] + sock'[chan.fd].up <= asked'[chan.fd]
    BY <1>1, <1>3, <1>5, <1>7, <1>8, <1>9, <2>1
  <2> QED
    BY <1>1, <1>2, <1>9, <2>1, <2>2 DEF Counted
<1>12. PICK size \in 1..MaxAnswer :
         IF connected
           THEN sendInLoop(AnswerTo(chan.fd, answered'[chan.fd], size))
           ELSE pc' = "out" /\ UNCHANGED <<fate, ep, chan, out, msg, nw>>
  BY DEF ReadRequest
<1> DEFINE units == AnswerTo(chan.fd, answered'[chan.fd], size)
<1>13. units \in Seq(Unit) /\ Len(units) = size /\ units # <<>> /\ size \in Nat
  <2>1. size \in Nat
    BY BoundsAssumption
  <2> QED
    BY <1>3, <1>10, <2>1, AnswerProperties
<1> HIDE DEF units
<1>14. CASE connected /\ ~isWriting /\ out = <<>>
  <2>1. pc' = "send" /\ msg' = units /\ nw' = 0 /\ UNCHANGED <<fate, ep, chan, out>>
    BY <1>12, <1>14 DEF sendInLoop, units
  <2>2. sock' \in [Clients -> Socket(Unit)] /\ Arriving' /\ Counted'
    BY <1>11, <2>1
  <2>3. TypeOK'
    <3>1. fate' \in Fates /\ ep' \in Pollers /\ chan' \in Channels /\ out' \in Seq(Unit)
      BY <1>2, <2>1 DEF TypeOK
    <3>2. pc' \in {"loop", "in", "out", "send", "flush"} /\ msg' \in Seq(Unit) /\ nw' \in 0..Len(msg')
      BY <1>13, <2>1
    <3>3. active' \in Seq(Slots) /\ state' \in {"disconnected", "connected"} /\ given' \in Seq(Unit)
          /\ backlog' \in Seq(Clients)
      BY <1>1, <1>2, <1>9 DEF TypeOK
    <3>4. answered' \in [Clients -> Nat] /\ asked' \in [Clients -> 0..MaxRequests]
          /\ client' \in [Clients -> {"off", "prompt", "waiting", "gone"}]
      BY <1>1, <1>2, <1>9 DEF TypeOK
    <3> QED
      BY <2>2, <3>1, <3>2, <3>3, <3>4 DEF TypeOK
  <2>4. Placed'
    BY <1>1, <1>2, <1>13, <1>14, <2>1 DEF Placed, connected, isWriting
  <2>5. Registered' /\ HasRoom' /\ Turn' /\ AssertsHold'
    BY <1>1, <1>2, <1>14, <2>1 DEF Registered, HasRoom, Turn, AssertsHold, connected, Orphans
  <2>6. Owed'
    BY <2>1 DEF Owed
  <2> QED
    BY <2>1, <2>2, <2>3, <2>4, <2>5, <2>6, NoGrowth DEF IInv
<1>15. CASE connected /\ ~(~isWriting /\ out = <<>>)
  <2>1. LeaveInBuffer(units) /\ pc' = "out" /\ UNCHANGED <<msg, nw>>
    BY <1>12, <1>15 DEF sendInLoop, units
  <2>2. /\ fate' = fate /\ out' \in Seq(Unit) /\ out' # <<>>
        /\ ChannelKept /\ "out" \in chan'.mask
    BY <1>13, <1>15, <2>1, LeaveInBufferProperties
  <2>3. active # <<>>
    BY <1>1, <1>2 DEF Placed
  <2>4. Registered' /\ HasRoom' /\ Orphans' = Orphans
    BY <1>1, <1>15, <2>2, <2>3, KeptRegistered
  <2>5. sock' \in [Clients -> Socket(Unit)] /\ Arriving' /\ Counted'
    BY <1>11, <2>2 DEF ChannelKept
  <2>6. TypeOK'
    BY <1>1, <1>2, <1>9, <2>1, <2>2, <2>5 DEF TypeOK, ChannelKept
  <2>7. Placed'
    BY <1>1, <1>2, <2>1, <2>2 DEF Placed
  <2>8. Turn' /\ AssertsHold'
    BY <1>1, <1>2, <1>15, <2>1, <2>2, <2>4 DEF Turn, AssertsHold, connected, ChannelKept
  <2>9. Owed'
    BY <2>1, <2>2 DEF Owed, isWriting
  <2> QED
    BY <2>2, <2>4, <2>5, <2>6, <2>7, <2>8, <2>9, NoGrowth DEF IInv, ChannelKept
<1>16. CASE ~connected
  <2>1. pc' = "out" /\ UNCHANGED <<fate, ep, chan, out, msg, nw>>
    BY <1>12, <1>16
  <2>2. sock' \in [Clients -> Socket(Unit)] /\ Arriving' /\ Counted'
    BY <1>11, <2>1
  <2>3. TypeOK'
    BY <1>1, <1>2, <1>9, <2>1, <2>2 DEF TypeOK
  <2>4. Placed'
    BY <1>1, <1>2, <2>1 DEF Placed, connected, isWriting
  <2>5. Registered' /\ HasRoom' /\ Turn' /\ AssertsHold'
    BY <1>1, <1>2, <2>1 DEF Registered, HasRoom, Turn, AssertsHold, connected, Orphans
  <2>6. Owed'
    BY <1>1, <1>16, <2>1 DEF Owed, connected
  <2> QED
    BY <2>1, <2>2, <2>3, <2>4, <2>5, <2>6, NoGrowth DEF IInv
<1> QED
  BY <1>14, <1>15, <1>16

\* A read that fails changes nothing (Acceptor.cc:166-170).
LEMMA ReadErrorStep ==
  ASSUME IInv, ReadError
  PROVE  IInv'
<1>1. /\ fate = "up" /\ pc = "in" /\ chan.fd # Listener /\ pc' = "out"
      /\ sock' = [sock EXCEPT ![chan.fd] = Reported(sock[chan.fd])]
      /\ UNCHANGED <<fate, active, ep, chan, state, out, msg, nw, answered, given, backlog, client, asked>>
  BY DEF ReadError, Up
<1>2. TypeOK /\ Placed /\ Registered /\ HasRoom /\ Turn /\ Counted /\ Owed
  BY DEF IInv
<1>3. chan.fd \in Clients
  BY <1>1, <1>2 DEF TypeOK, Channels, Fds
<1>4. /\ Reported(sock[chan.fd]) \in Socket(Unit)
      /\ Reported(sock[chan.fd]).up = sock[chan.fd].up
      /\ Reported(sock[chan.fd]).down = sock[chan.fd].down
      /\ Reported(sock[chan.fd]).end = sock[chan.fd].end
  <2>1. sock[chan.fd] \in Socket(Unit)
    BY <1>2, <1>3 DEF TypeOK
  <2> QED
    BY <2>1, SocketProperties
<1>5. /\ sock' \in [Clients -> Socket(Unit)]
      /\ sock'[chan.fd] = Reported(sock[chan.fd])
      /\ \A d \in Clients \ {chan.fd} : sock'[d] = sock[d]
      /\ Arriving'
  BY <1>1, <1>4, ServedSocket
<1>6. TypeOK'
  BY <1>1, <1>2, <1>5 DEF TypeOK
<1>7. Placed'
  BY <1>1, <1>2 DEF Placed, connected, isWriting
<1>8. Registered' /\ HasRoom' /\ Turn' /\ AssertsHold'
  BY <1>1, <1>2 DEF Registered, HasRoom, Turn, AssertsHold, connected, Orphans
<1>9. Counted'
  BY <1>1, <1>2, <1>4, <1>5 DEF Counted
<1>10. Owed'
  BY <1>1, <1>2, <1>4, <1>5 DEF Owed, connected, isWriting
<1> QED
  BY <1>5, <1>6, <1>7, <1>8, <1>9, <1>10 DEF IInv

\* handleClose finds the channel where it looks for it, and only a replaced
\* client can make it run twice (Acceptor.cc:162-165, 201-208).
LEMMA ReadEofStep ==
  ASSUME IInv, ReadEof
  PROVE  IInv' /\ Grows
<1>1. fate = "up" /\ pc = "in" /\ chan.fd # Listener /\ handleClose
  BY DEF ReadEof, Up
<1>2. UNCHANGED <<backlog, sock, client, asked>>
  BY DEF ReadEof, others
<1>3. TypeOK /\ Placed /\ Registered /\ HasRoom /\ Turn /\ Arriving /\ Counted
  BY DEF IInv
<1>4. active # <<>> /\ active[1].ptr # Listener
  BY <1>1, <1>3 DEF Placed
<1>5. 1 \in 1..Len(active)
  BY <1>3, <1>4, EmptySeq DEF TypeOK
<1>6. CASE ~connected
  <2>1. fate' = "closed twice" /\ UNCHANGED <<pc, active, ep, chan, state, out, msg, nw, answered, given>>
    BY <1>1, <1>6 DEF handleClose, Die
  <2>2. Orphans # {}
    BY <1>1, <1>3, <1>4, <1>5, <1>6 DEF Turn
  <2>3. TypeOK'
    BY <1>2, <1>3, <2>1 DEF TypeOK, Fates
  <2>4. AssertsHold'
    BY <2>1, <2>2 DEF AssertsHold, Orphans
  <2>5. Placed' /\ Registered' /\ HasRoom' /\ Turn'
    BY <1>3, <2>1 DEF Placed, Registered, HasRoom, Turn, connected, isWriting, Orphans
  <2>6. Arriving' /\ Counted' /\ Owed'
    BY <1>2, <1>3, <1>6, <2>1 DEF Arriving, Counted, Owed, connected
  <2> QED
    BY <2>1, <2>3, <2>4, <2>5, <2>6, NoGrowth DEF IInv
<1>7. CASE connected
  <2> DEFINE off == UpdateChannel(ep, [chan EXCEPT !.mask = {}])
             removed == RemoveChannel(off.ep, off.ch)
  <2>1. /\ off.ok
        /\ off.ep \in Pollers
        /\ off.ch \in Channels
        /\ off.ep.channel = ep.channel
        /\ off.ch.fd = chan.fd
        /\ off.ch.index = chan.index
        /\ off.ch.mask = {}
        /\ Len(off.ep.events) = Len(ep.events)
        /\ off.ep.events[Len(ep.events)] = [ptr |-> chan.fd, mask |-> {}]
    <3>1. {} \in SUBSET Modes
      OBVIOUS
    <3> QED
      BY <1>7, <3>1, MaskProperties
  <2>2. /\ Len(ep.events) > 0 /\ chan.fd \in ep.channel
        /\ chan.index = Len(ep.events) - 1
    BY <1>3, <1>7 DEF Registered
  <2>3. /\ removed.ok
        /\ removed.ep \in Pollers
        /\ Len(removed.ep.events) = Len(ep.events) - 1
        /\ removed.ep.channel = ep.channel \ {chan.fd}
    <3> HIDE DEF off
    <3>1. /\ off.ep \in Pollers /\ off.ch \in Channels
          /\ Len(off.ep.events) > 0
          /\ off.ch.fd \in off.ep.channel /\ off.ch.mask = {}
          /\ off.ch.index = Len(off.ep.events) - 1
          /\ off.ep.events[Len(off.ep.events)].mask = {}
      BY <2>1, <2>2
    <3>2. /\ removed.ok
          /\ removed.ep \in Pollers
          /\ Len(removed.ep.events) = Len(off.ep.events) - 1
          /\ removed.ep.channel = off.ep.channel \ {off.ch.fd}
      BY <3>1, RemovedProperties
    <3> HIDE DEF removed
    <3> QED
      BY <2>1, <3>2
  <2>4. /\ state' = "disconnected"
        /\ ep' = removed.ep /\ chan' = off.ch /\ pc' = "out"
        /\ UNCHANGED <<fate, active, out, msg, nw, answered, given>>
    BY <1>1, <1>7, <2>1, <2>3 DEF handleClose, disableAll
  <2> HIDE DEF off, removed
  <2>5. /\ ep' \in Pollers /\ chan' \in Channels
        /\ ep'.channel = ep.channel \ {chan.fd}
        /\ Len(ep'.events) = Len(ep.events) - 1
        /\ chan'.fd = chan.fd /\ chan'.mask = {}
    BY <2>1, <2>3, <2>4
  <2>6. TypeOK'
    BY <1>2, <1>3, <2>4, <2>5 DEF TypeOK
  <2>7. Placed'
    BY <1>4, <2>4, <2>5 DEF Placed, isWriting
  <2>8. Registered' /\ HasRoom' /\ Grows
    <3>1. IsFiniteSet(ep.channel) /\ Cardinality(ep.channel) < Len(ep.events)
      BY <1>3, <1>4 DEF Registered, HasRoom
    <3>2. Cardinality(ep.channel) \in Nat /\ Len(ep.events) \in Nat
      BY <1>3, <3>1, FS_CardinalityType, LenProperties DEF TypeOK, Pollers
    <3>3. /\ IsFiniteSet(ep'.channel)
          /\ Cardinality(ep'.channel) = Cardinality(ep.channel) - 1
          /\ Cardinality(ep'.channel) \in Nat
      <4>1. /\ IsFiniteSet(ep.channel \ {chan.fd})
            /\ Cardinality(ep.channel \ {chan.fd}) = Cardinality(ep.channel) - 1
        BY <2>2, <3>1, FS_RemoveElement
      <4>2. Cardinality(ep.channel \ {chan.fd}) \in Nat
        BY <4>1, FS_CardinalityType
      <4> QED
        BY <2>5, <4>1, <4>2
    <3>4. HasRoom' /\ Len(ep'.events) > 0 /\ Grows
      BY <2>5, <3>1, <3>2, <3>3 DEF HasRoom, Grows
    <3> QED
      BY <1>1, <1>3, <2>4, <2>5, <3>3, <3>4 DEF Registered, connected
  <2>9. AssertsHold'
    BY <1>1, <2>4 DEF AssertsHold
  <2>10. Turn'
    <3>1. Orphans' = Orphans
      BY <2>5 DEF Orphans
    <3>2. ASSUME Orphans = {}, NEW i \in 1..Len(active)
          PROVE  active[i].ptr = Listener \/ (active[i].ptr = chan.fd /\ i = 1)
      BY <1>3, <1>4, <1>5, <3>2 DEF Turn
    <3> QED
      BY <1>3, <2>4, <2>5, <3>1, <3>2 DEF Turn
  <2>11. Arriving' /\ Counted'
    BY <1>2, <1>3, <2>4, <2>5 DEF Arriving, Counted
  <2>12. Owed'
    BY <2>4 DEF Owed, connected
  <2> QED
    BY <2>6, <2>7, <2>8, <2>9, <2>10, <2>11, <2>12 DEF IInv
<1> QED
  BY <1>6, <1>7

-----------------------------------------------------------------------------
(* The write callback, and the writes.                                     *)

\* handleWrite up to its write (Acceptor.cc:173-177, 195-198, Channel.cc:23-24).
LEMMA HandleWriteStep ==
  ASSUME IInv, HandleWrite
  PROVE  IInv'
<1>1. fate = "up" /\ pc = "out" /\ UNCHANGED <<fate, ep, chan, state, out, answered, given, backlog, sock, client, asked>>
  BY DEF HandleWrite, Up, others
<1>2. TypeOK /\ Placed /\ Registered /\ HasRoom /\ Turn /\ Arriving /\ Counted /\ Owed
  BY DEF IInv
<1>3. active # <<>> /\ active[1].ptr # Listener
  BY <1>1, <1>2 DEF Placed
<1>4. Registered' /\ HasRoom' /\ AssertsHold' /\ Arriving' /\ Counted'
  BY <1>1, <1>2, <1>3 DEF Registered, HasRoom, AssertsHold, Arriving, Counted, connected
<1>5. CASE "out" \in active[1].mask /\ isWriting
  <2>1. pc' = "flush" /\ msg' = out /\ nw' = 0 /\ UNCHANGED active
    BY <1>5 DEF HandleWrite
  <2>2. connected /\ out # <<>>
    BY <1>2, <1>5 DEF Placed, Registered, isWriting
  <2>3. Len(out) \in Nat
    BY <1>2, LenProperties DEF TypeOK
  <2>4. TypeOK'
    BY <1>1, <1>2, <2>1, <2>3 DEF TypeOK
  <2>5. Placed'
    BY <1>1, <1>3, <1>5, <2>1, <2>2 DEF Placed, connected, isWriting
  <2>6. Turn'
    BY <1>1, <1>2, <2>1, <2>2 DEF Turn, connected, Orphans
  <2>7. Owed'
    BY <1>1, <1>5, <2>1, <2>2 DEF Owed, isWriting
  <2> QED
    BY <1>4, <2>4, <2>5, <2>6, <2>7 DEF IInv
<1>6. CASE ~("out" \in active[1].mask /\ isWriting)
  <2>1. Handled /\ UNCHANGED <<msg, nw>>
    BY <1>6 DEF HandleWrite
  <2>2. active' \in Seq(Slots) /\ pc' = "loop" /\ Turn'
    BY <1>1, <1>3, <2>1, HandledTurn
  <2>3. TypeOK'
    BY <1>1, <1>2, <2>1, <2>2 DEF TypeOK
  <2>4. Placed'
    BY <1>1, <1>2, <2>1, <2>2 DEF Placed, isWriting
  <2>5. Owed'
    BY <1>1, <1>2, <2>1, <2>2 DEF Owed, connected, isWriting
  <2> QED
    BY <1>4, <2>2, <2>3, <2>4, <2>5 DEF IInv
<1> QED
  BY <1>5, <1>6

\* The kernel never takes more than is left.
LEMMA AcceptsProperties ==
  ASSUME NEW U, NEW s \in Socket(U), NEW len \in Nat, Accepts(s, len) > 0
  PROVE  Accepts(s, len) \in 1..len
<1>1. Len(s.down) \in Nat /\ SndBuf \in Nat
  BY SocketProperties, SndBufAssumption
<1> QED
  BY <1>1 DEF Accepts, Room

\* The kernel takes a part of what is written, which is on its way then.
LEMMA WriteSomeStep ==
  ASSUME IInv, WriteSome
  PROVE  IInv'
<1> DEFINE n == Accepts(mine, Len(msg) - nw)
           units == SubSeq(msg, nw + 1, nw + n)
<1>1. /\ fate = "up" /\ pc \in {"send", "flush"} /\ chan.fd # Listener
      /\ n > 0
      /\ sock' = [sock EXCEPT ![chan.fd] = Given(sock[chan.fd], units)]
      /\ nw' = nw + n
      /\ given' = units
      /\ UNCHANGED <<fate, pc, active, ep, chan, state, out, msg, answered, backlog, client, asked>>
  BY DEF WriteSome, Writing, Up, mine
<1>2. TypeOK /\ Placed /\ Registered /\ HasRoom /\ Turn /\ Counted
  BY DEF IInv
<1>3. chan.fd \in Clients
  BY <1>1, <1>2 DEF TypeOK, Channels, Fds
<1>4. sock[chan.fd] \in Socket(Unit) /\ sock[chan.fd].down \in Seq(Unit)
  BY <1>2, <1>3 DEF TypeOK, Socket
<1>5. Len(msg) \in Nat /\ nw \in 0..Len(msg) /\ Len(msg) - nw \in Nat
  BY <1>2, LenProperties DEF TypeOK
<1>6. n \in 1..(Len(msg) - nw)
  BY <1>1, <1>4, <1>5, AcceptsProperties DEF mine
<1> HIDE DEF n
<1>7. \A i \in nw + 1..nw + n : msg[i] \in Unit
  BY <1>2, <1>5, <1>6, ElementOfSeq DEF TypeOK
<1>8. units \in Seq(Unit) /\ Len(units) = n
  BY <1>5, <1>6, <1>7, SubSeqProperties
<1> HIDE DEF units
<1>9. units # <<>>
  BY <1>6, <1>8, EmptySeq
<1>10. /\ Given(sock[chan.fd], units) \in Socket(Unit)
       /\ Given(sock[chan.fd], units).up = sock[chan.fd].up
       /\ Given(sock[chan.fd], units).end = sock[chan.fd].end
       /\ Given(sock[chan.fd], units).down = sock[chan.fd].down \o units
  BY <1>4, <1>8, GivenProperties
<1>11. /\ sock' \in [Clients -> Socket(Unit)]
       /\ sock'[chan.fd] = Given(sock[chan.fd], units)
       /\ \A d \in Clients \ {chan.fd} : sock'[d] = sock[d]
       /\ Arriving'
  BY <1>1, <1>10, ServedSocket
<1>12. sock'[chan.fd].down # <<>>
  BY <1>4, <1>8, <1>9, <1>10, <1>11, ConcatEqualIffEmpty
<1>13. nw' \in 0..Len(msg)
  BY <1>1, <1>5, <1>6
<1>14. TypeOK'
  BY <1>1, <1>2, <1>8, <1>11, <1>13 DEF TypeOK
<1>15. Placed'
  BY <1>1, <1>2 DEF Placed, connected, isWriting
<1>16. Registered' /\ HasRoom' /\ Turn' /\ AssertsHold'
  BY <1>1, <1>2 DEF Registered, HasRoom, Turn, AssertsHold, connected, Orphans
<1>17. Counted'
  BY <1>1, <1>2, <1>10, <1>11 DEF Counted
<1>18. Owed'
  BY <1>1, <1>12 DEF Owed
<1> QED
  BY <1>11, <1>14, <1>15, <1>16, <1>17, <1>18 DEF IInv

\* The rest of a sequence of units.
LEMMA RestProperties ==
  ASSUME NEW s \in Seq(Unit), NEW k \in 0..Len(s)
  PROVE  /\ SubSeq(s, k + 1, Len(s)) \in Seq(Unit)
         /\ Len(SubSeq(s, k + 1, Len(s))) = Len(s) - k
         /\ \A i \in 1..Len(s) - k : SubSeq(s, k + 1, Len(s))[i] = s[k + i]
         /\ SubSeq(s, k + 1, Len(s)) = <<>> <=> k = Len(s)
<1>1. Len(s) \in Nat /\ k \in Nat
  BY LenProperties
<1>2. \A i \in k + 1..Len(s) : s[i] \in Unit
  BY <1>1, ElementOfSeq
<1> DEFINE r == SubSeq(s, k + 1, Len(s))
<1>3. /\ r \in Seq(Unit)
      /\ Len(r) = IF k + 1 <= Len(s) THEN Len(s) - (k + 1) + 1 ELSE 0
      /\ \A i \in 1..Len(s) - (k + 1) + 1 : r[i] = s[(k + 1) + i - 1]
  BY <1>1, <1>2, SubSeqProperties
<1> HIDE DEF r
<1>4. Len(r) = Len(s) - k /\ \A i \in 1..Len(s) - k : r[i] = s[k + i]
  BY <1>1, <1>3
<1>5. r = <<>> <=> Len(r) = 0
  BY <1>3, EmptySeq
<1> QED
  BY <1>1, <1>3, <1>4, <1>5 DEF r

\* What a write's return leaves alone: of the socket at most the error is
\* taken back.
LEMMA WriteReturnsFrame ==
  ASSUME IInv, WriteReturns
  PROVE  /\ fate = "up" /\ pc \in {"send", "flush"} /\ connected /\ active # <<>>
         /\ msg' = <<>> /\ nw' = 0
         /\ UNCHANGED <<state, answered, given, backlog, client, asked>>
         /\ sock' \in [Clients -> Socket(Unit)]
         /\ \A d \in Clients :
              /\ sock'[d].up = sock[d].up
              /\ sock'[d].down = sock[d].down
              /\ sock'[d].end = sock[d].end
<1>1. /\ fate = "up" /\ pc \in {"send", "flush"} /\ chan.fd # Listener
      /\ msg' = <<>> /\ nw' = 0
      /\ UNCHANGED <<state, answered, given, backlog, client, asked>>
  BY DEF WriteReturns, Writing, Up
<1>2. TypeOK /\ Placed
  BY DEF IInv
<1>3. chan.fd \in Clients /\ sock \in [Clients -> Socket(Unit)] /\ sock[chan.fd] \in Socket(Unit)
  BY <1>1, <1>2 DEF TypeOK, Channels, Fds
<1>4. \/ sock' = sock
      \/ sock' = [sock EXCEPT ![chan.fd] = Reported(sock[chan.fd])]
  BY DEF WriteReturns
<1>5. /\ Reported(sock[chan.fd]) \in Socket(Unit)
      /\ Reported(sock[chan.fd]).up = sock[chan.fd].up
      /\ Reported(sock[chan.fd]).down = sock[chan.fd].down
      /\ Reported(sock[chan.fd]).end = sock[chan.fd].end
  BY <1>3, SocketProperties
<1> QED
  BY <1>1, <1>2, <1>3, <1>4, <1>5 DEF Placed

\* A write from send returns, and what it did not take is kept
\* (Acceptor.cc:48-70).
LEMMA AfterSendStep ==
  ASSUME IInv, WriteReturns, pc = "send"
  PROVE  IInv' /\ Grows
<1>1. TypeOK /\ Placed /\ Registered /\ HasRoom /\ Turn /\ Arriving /\ Counted /\ Owed
  BY DEF IInv
<1>2. /\ fate = "up" /\ connected /\ active # <<>>
      /\ msg' = <<>> /\ nw' = 0
      /\ UNCHANGED <<state, answered, given, backlog, client, asked>>
      /\ sock' \in [Clients -> Socket(Unit)]
      /\ \A d \in Clients :
           /\ sock'[d].up = sock[d].up
           /\ sock'[d].down = sock[d].down
           /\ sock'[d].end = sock[d].end
  BY WriteReturnsFrame
<1>3. AfterSend
  BY DEF WriteReturns
<1>4. pc' = "out" /\ UNCHANGED active
  BY <1>3 DEF AfterSend
<1>5. msg \in Seq(Unit) /\ nw \in 0..Len(msg) /\ Len(msg) \in Nat /\ out = <<>> /\ msg # <<>>
  BY <1>1, LenProperties DEF TypeOK, Placed
<1>6. Len(msg) > 0
  BY <1>5, EmptySeq
<1>7. chan.fd \in Clients
  BY <1>1, <1>2 DEF Registered, TypeOK, Channels, Fds
<1>8. \A i \in 1..Len(backlog) : backlog[i] \in Clients
  BY <1>1, ElementOfSeq DEF TypeOK
<1>9. <<>> \in Seq(Unit) /\ Len(<<>>) = 0
  BY EmptySeq
<1>10. CASE nw < Len(msg)
  <2> DEFINE rest == SubSeq(msg, nw + 1, Len(msg))
  <2>1. rest \in Seq(Unit) /\ rest # <<>>
    <3>1. msg \in Seq(Unit) /\ nw \in 0..Len(msg)
      BY <1>5
    <3>2. rest \in Seq(Unit) /\ (rest = <<>> <=> nw = Len(msg))
      BY <3>1, RestProperties
    <3> HIDE DEF rest
    <3> QED
      BY <1>5, <1>10, <3>2
  <2>2. LeaveInBuffer(rest)
    BY <1>3, <1>10 DEF AfterSend
  <2> HIDE DEF rest
  <2>3. fate' = fate /\ out' \in Seq(Unit) /\ out' # <<>> /\ ChannelKept /\ "out" \in chan'.mask
    BY <1>2, <2>1, <2>2, LeaveInBufferProperties
  <2>4. Registered' /\ HasRoom' /\ Orphans' = Orphans
    BY <1>2, <2>3, KeptRegistered
  <2>5. TypeOK'
    BY <1>1, <1>2, <1>4, <1>9, <2>3 DEF TypeOK, ChannelKept
  <2>6. Placed'
    BY <1>1, <1>4, <2>3 DEF Placed
  <2>7. Turn' /\ AssertsHold'
    BY <1>1, <1>2, <1>4, <2>3, <2>4 DEF Turn, AssertsHold, ChannelKept, connected
  <2>8. Arriving' /\ Counted'
    BY <1>1, <1>2, <1>8, <2>3 DEF Arriving, Counted, ChannelKept
  <2>9. Owed'
    BY <1>4, <2>3 DEF Owed, isWriting
  <2> QED
    BY <2>3, <2>4, <2>5, <2>6, <2>7, <2>8, <2>9, NoGrowth DEF IInv, ChannelKept
<1>11. CASE nw = Len(msg)
  <2>1. UNCHANGED <<fate, ep, chan, out>>
    BY <1>3, <1>5, <1>11 DEF AfterSend
  <2>2. TypeOK'
    BY <1>1, <1>2, <1>4, <1>9, <2>1 DEF TypeOK
  <2>3. Placed'
    BY <1>1, <1>2, <1>4, <2>1 DEF Placed, isWriting
  <2>4. Registered' /\ HasRoom' /\ Turn' /\ AssertsHold'
    BY <1>1, <1>2, <1>4, <2>1 DEF Registered, HasRoom, Turn, AssertsHold, connected, Orphans
  <2>5. Arriving' /\ Counted'
    BY <1>1, <1>2, <1>8, <2>1 DEF Arriving, Counted
  <2>6. Owed'
    BY <1>1, <1>2, <1>5, <1>6, <1>7, <1>11, <2>1 DEF Owed, connected
  <2> QED
    BY <2>1, <2>2, <2>3, <2>4, <2>5, <2>6, NoGrowth DEF IInv
<1> QED
  BY <1>5, <1>10, <1>11

\* A write from handleWrite returns, and writing ends when all is written
\* (Acceptor.cc:177-194).
LEMMA AfterFlushStep ==
  ASSUME IInv, WriteReturns, pc = "flush"
  PROVE  IInv' /\ Grows
<1>1. TypeOK /\ Placed /\ Registered /\ HasRoom /\ Turn /\ Arriving /\ Counted /\ Owed
  BY DEF IInv
<1>2. /\ fate = "up" /\ connected /\ active # <<>>
      /\ msg' = <<>> /\ nw' = 0
      /\ UNCHANGED <<state, answered, given, backlog, client, asked>>
      /\ sock' \in [Clients -> Socket(Unit)]
      /\ \A d \in Clients :
           /\ sock'[d].up = sock[d].up
           /\ sock'[d].down = sock[d].down
           /\ sock'[d].end = sock[d].end
  BY WriteReturnsFrame
<1>3. AfterFlush
  BY DEF WriteReturns
<1> DEFINE rest == SubSeq(out, nw + 1, Len(out))
<1>4. out \in Seq(Unit) /\ Len(out) \in Nat /\ nw \in 0..Len(out) /\ isWriting /\ out # <<>>
  BY <1>1, LenProperties DEF TypeOK, Placed
<1>5. rest \in Seq(Unit) /\ (rest = <<>> <=> nw = Len(out))
  BY <1>4, RestProperties
<1>6. out' = rest /\ Handled
  BY <1>3 DEF AfterFlush
<1>7. chan.fd \in Clients
  BY <1>1, <1>2 DEF Registered, TypeOK, Channels, Fds
<1>8. \A i \in 1..Len(backlog) : backlog[i] \in Clients
  BY <1>1, ElementOfSeq DEF TypeOK
<1>9. <<>> \in Seq(Unit) /\ Len(<<>>) = 0
  BY EmptySeq
<1>10. CASE nw > 0 /\ rest = <<>>
  <2> DEFINE mask == chan.mask \ {"out"}
             u == UpdateChannel(ep, [chan EXCEPT !.mask = mask])
  <2>1. mask \in SUBSET Modes
    BY <1>1 DEF TypeOK, Channels
  <2>2. /\ u.ok
        /\ u.ep \in Pollers
        /\ u.ch \in Channels
        /\ u.ep.channel = ep.channel
        /\ u.ch.fd = chan.fd
        /\ u.ch.index = chan.index
        /\ u.ch.mask = mask
        /\ Len(u.ep.events) = Len(ep.events)
        /\ u.ep.events[Len(ep.events)] = [ptr |-> chan.fd, mask |-> mask]
    <3> HIDE DEF mask
    <3> QED
      BY <1>2, <2>1, MaskProperties
  <2>3. fate' = fate /\ ep' = u.ep /\ chan' = u.ch
    BY <1>3, <1>10, <2>2 DEF AfterFlush, disableWriting
  <2>4. "out" \notin mask
    OBVIOUS
  <2> HIDE DEF u, mask
  <2>5. ChannelKept /\ "out" \notin chan'.mask
    BY <2>2, <2>3, <2>4 DEF ChannelKept
  <2> HIDE DEF rest
  <2>6. Registered' /\ HasRoom' /\ Orphans' = Orphans
    BY <1>2, <2>5, KeptRegistered
  <2>7. active' \in Seq(Slots) /\ pc' = "loop" /\ Turn'
    BY <1>2, <1>6, <2>5, HandledTurn DEF ChannelKept
  <2>8. TypeOK'
    BY <1>1, <1>2, <1>5, <1>6, <1>9, <2>3, <2>5, <2>7 DEF TypeOK, ChannelKept
  <2>9. Placed'
    BY <2>5, <2>7 DEF Placed, isWriting
  <2>10. AssertsHold'
    BY <1>2, <2>3 DEF AssertsHold
  <2>11. Arriving' /\ Counted'
    BY <1>1, <1>2, <1>8, <2>5 DEF Arriving, Counted, ChannelKept
  <2>12. Owed'
    BY <1>1, <1>2, <1>7, <1>10, <2>5, <2>7 DEF Owed, connected, ChannelKept
  <2> QED
    BY <2>5, <2>6, <2>7, <2>8, <2>9, <2>10, <2>11, <2>12, NoGrowth DEF IInv, ChannelKept
<1>11. CASE ~(nw > 0 /\ rest = <<>>)
  <2>1. UNCHANGED <<fate, ep, chan>>
    BY <1>3, <1>11 DEF AfterFlush
  <2>2. Len(out) > 0
    BY <1>4, EmptySeq
  <2>3. rest # <<>>
    BY <1>4, <1>5, <1>11, <2>2
  <2> HIDE DEF rest
  <2>4. active' \in Seq(Slots) /\ pc' = "loop" /\ Turn'
    BY <1>2, <1>6, <2>1, HandledTurn
  <2>5. TypeOK'
    BY <1>1, <1>2, <1>5, <1>6, <1>9, <2>1, <2>4 DEF TypeOK
  <2>6. Placed'
    BY <1>6, <2>3, <2>4 DEF Placed
  <2>7. Registered' /\ HasRoom' /\ AssertsHold'
    BY <1>1, <1>2, <2>1 DEF Registered, HasRoom, AssertsHold, connected
  <2>8. Arriving' /\ Counted'
    BY <1>1, <1>2, <1>8, <2>1 DEF Arriving, Counted
  <2>9. Owed'
    BY <1>4, <1>6, <2>1, <2>3, <2>4 DEF Owed, isWriting
  <2> QED
    BY <2>1, <2>4, <2>5, <2>6, <2>7, <2>8, <2>9, NoGrowth DEF IInv
<1> QED
  BY <1>10, <1>11

-----------------------------------------------------------------------------
(* Invariance, and what follows.                                           *)

\* The server has just begun to listen.
LEMMA InitInv == Init => IInv
<1> SUFFICES ASSUME Init PROVE IInv
  OBVIOUS
<1> DEFINE l == [NewChannel(Listener) EXCEPT !.mask = @ \cup {"in"}]
           a == Added(EmptyPoller, l)
<1>1. l \in Channels /\ l.fd = Listener /\ l.index = -1
  BY DEF NewChannel, Channels, Fds, Modes
<1>2. EmptyPoller \in Pollers /\ Len(EmptyPoller.events) = 0 /\ EmptyPoller.channel = {}
  <2>1. <<>> \in Seq(Slots) /\ Len(<<>>) = 0
    BY EmptySeq
  <2>2. [fd \in Fds |-> {}] \in [Fds -> SUBSET Modes]
    OBVIOUS
  <2> QED
    BY <2>1, <2>2 DEF EmptyPoller, Pollers
<1>3. ep = a.ep
  BY <1>1 DEF Init, enableReading, UpdateChannel
<1>4. a.ep \in Pollers /\ Len(a.ep.events) = 1 /\ a.ep.channel = {Listener}
  <2> HIDE DEF l
  <2>1. /\ a.ep \in Pollers
        /\ Len(a.ep.events) = Len(EmptyPoller.events) + 1
        /\ a.ep.channel = EmptyPoller.channel \cup {l.fd}
    <3>1. EmptyPoller \in Pollers /\ l \in Channels
      BY <1>1, <1>2
    <3> QED
      BY <3>1, AddedProperties
  <2> HIDE DEF a
  <2> QED
    BY <1>1, <1>2, <2>1
<1> HIDE DEF l, a
<1>5. ep \in Pollers /\ Len(ep.events) = 1 /\ ep.channel = {Listener}
  BY <1>3, <1>4
<1>6. NewChannel(Listener) \in Channels /\ NewChannel(Listener).fd = Listener /\ NewChannel(Listener).mask = {}
  BY DEF NewChannel, Channels, Fds, Modes
<1>7. \A S : <<>> \in Seq(S) /\ Len(<<>>) = 0
  BY EmptySeq
<1>8. /\ fate = "up" /\ pc = "loop" /\ active = <<>> /\ chan = NewChannel(Listener)
      /\ state = "disconnected" /\ out = <<>> /\ msg = <<>> /\ nw = 0 /\ given = <<>> /\ backlog = <<>>
      /\ answered = [c \in Clients |-> 0] /\ asked = [c \in Clients |-> 0]
      /\ sock = [c \in Clients |-> Fresh] /\ client = [c \in Clients |-> "off"]
  BY DEF Init
<1>9. Fresh \in Socket(Unit) /\ Fresh.up = 0 /\ Fresh.down = <<>> /\ Fresh.end = "open"
  BY <1>7 DEF Fresh, Socket, Ends
<1>10. TypeOK
  <2>1. 0 \in 0..MaxRequests
    BY BoundsAssumption
  <2>2. sock \in [Clients -> Socket(Unit)]
    BY <1>8, <1>9
  <2> QED
    BY <1>5, <1>6, <1>7, <1>8, <2>1, <2>2 DEF TypeOK, Fates
<1>11. Placed
  BY <1>6, <1>8 DEF Placed, isWriting
<1>12. Registered /\ HasRoom
  <2>1. IsFiniteSet(ep.channel)
    BY <1>5, FS_Singleton
  <2>2. ~connected /\ chan.mask = {} /\ chan.fd = Listener
    BY <1>6, <1>8 DEF connected
  <2>3. Registered
    BY <1>5, <2>1, <2>2 DEF Registered
  <2>4. HasRoom
    BY <1>5, <1>8 DEF HasRoom
  <2> QED
    BY <2>3, <2>4
<1>13. AssertsHold
  BY <1>8 DEF AssertsHold
<1>14. Turn /\ Arriving
  <2>1. 1..Len(active) = {} /\ 1..Len(backlog) = {}
    BY <1>7, <1>8
  <2>2. \A c \in Clients : c # Listener
    BY ListenerAssumption
  <2> QED
    BY <1>5, <1>6, <1>8, <1>9, <2>1, <2>2 DEF Turn, Arriving
<1>15. Counted
  BY <1>8, <1>9 DEF Counted
<1>16. Owed
  BY <1>8 DEF Owed, connected
<1> QED
  BY <1>10, <1>11, <1>12, <1>13, <1>14, <1>15, <1>16 DEF IInv

\* Every step keeps the invariant, and adds one entry to the vector at most.
LEMMA NextInv == IInv /\ [Next]_vars => IInv' /\ Grows
<1> SUFFICES ASSUME IInv, [Next]_vars PROVE IInv' /\ Grows
  OBVIOUS
<1>1. CASE Wait \/ HandleAccept \/ ReadRequest \/ ReadEof
  BY <1>1, WaitStep, HandleAcceptStep, ReadRequestStep, ReadEofStep
<1>2. CASE WriteReturns
  <2>1. pc \in {"send", "flush"}
    BY <1>2 DEF WriteReturns, Writing
  <2> QED
    BY <1>2, <2>1, AfterSendStep, AfterFlushStep
<1>3. CASE FollowDangling \/ WriteToNobody
  <2>1. PICK why \in {"sigpipe", "dangling"} : Die(why) /\ UNCHANGED others
    BY <1>3 DEF FollowDangling, WriteToNobody
  <2>2. IInv'
    BY <2>1, DieStep
  <2>3. Grows
    BY <2>1, NoGrowth DEF Die
  <2> QED
    BY <2>2, <2>3
<1>4. CASE HandleEvent \/ ReadError \/ HandleWrite \/ WriteSome
  <2>1. IInv'
    BY <1>4, HandleEventStep, ReadErrorStep, HandleWriteStep, WriteSomeStep
  <2>2. ep' = ep
    BY <1>4 DEF HandleEvent, ReadError, HandleWrite, WriteSome
  <2> QED
    BY <2>1, <2>2, NoGrowth
<1>5. ASSUME NEW c \in Clients,
             Connect(c) \/ Ask(c) \/ Recv(c) \/ Leave(c) \/ ResetArrives(c)
      PROVE  IInv' /\ Grows
  <2>1. IInv'
    BY <1>5, ConnectStep, AskStep, RecvStep, LeaveStep, ResetStep
  <2>2. ep' = ep
    BY <1>5 DEF Connect, Ask, Recv, Leave, ResetArrives, server
  <2> QED
    BY <2>1, <2>2, NoGrowth
<1>6. CASE UNCHANGED vars
  <2>1. TypeOK' /\ Placed' /\ Registered' /\ HasRoom' /\ AssertsHold'
    BY <1>6 DEF IInv, vars, server, others, TypeOK, Placed, Registered, HasRoom, AssertsHold,
                connected, isWriting, Orphans
  <2>2. Turn' /\ Arriving' /\ Counted' /\ Owed'
    BY <1>6 DEF IInv, vars, server, others, Turn, Arriving, Counted, Owed, connected, isWriting, Orphans
  <2>3. Grows
    BY <1>6, NoGrowth DEF vars, server
  <2> QED
    BY <2>1, <2>2, <2>3 DEF IInv
<1> QED
  BY <1>1, <1>2, <1>3, <1>4, <1>5, <1>6 DEF Next, Serve

\* The inductive invariant holds in every reachable state of Connection.
THEOREM Invariance == Spec => []IInv
<1> QED
  BY InitInv, NextInv, PTL DEF Spec

\* Every variable keeps its type; what has been written of a message never
\* exceeds it.
THEOREM TypeCorrect == Spec => []TypeOK
<1>1. IInv => TypeOK
  BY DEF IInv
<1> QED
  BY <1>1, Invariance, PTL

\* The channel is found where the poller's asserts look for it, although
\* epoll_wait writes into the same vector, and handleClose runs once for a
\* connection unless a client was replaced (Epoll.cc:58, 76, Acceptor.cc:203).
THEOREM AssertsAlwaysHold == Spec => []AssertsHold
<1>1. IInv => AssertsHold
  BY DEF IInv
<1> QED
  BY <1>1, Invariance, PTL

\* After the first wait epoll_wait never fills the vector (Epoll.cc:17).
THEOREM VectorDoublesOnce == Spec => DoublesOnce
<1>1. IInv /\ [Next]_vars => [Len(ep.events') <= Len(ep.events) + 1]_vars
  <2> SUFFICES ASSUME IInv, [Next]_vars PROVE Len(ep'.events) <= Len(ep.events) + 1
    OBVIOUS
  <2>1. Grows
    BY NextInv
  <2> QED
    BY <2>1 DEF Grows
<1> QED
  BY <1>1, Invariance, PTL DEF Spec, DoublesOnce

\* A client that waits on the served connection has something coming
\* (Server.cc:54, Acceptor.cc:65).
THEOREM NobodyStranded == Spec => []NeverStranded
<1>1. IInv => NeverStranded
  <2> SUFFICES ASSUME IInv, NEW c \in Clients, connected, chan.fd = c, client[c] = "waiting"
               PROVE  \/ sock[c].up > 0
                      \/ sock[c].down # <<>>
                      \/ pc = "send"
                      \/ out # <<>> /\ isWriting
    BY DEF NeverStranded
  <2> QED
    BY DEF IInv, Owed
<1> QED
  BY <1>1, Invariance, PTL

-----------------------------------------------------------------------------
(* The refinement of AnswerQueue.                                          *)

\* What is unwritten, in terms of the place the server is at.
Unwrittens ==
  /\ pc \in {"send", "flush"} => Unwritten = SubSeq(msg, nw + 1, Len(msg))
  /\ pc \notin {"send", "flush"} => Unwritten = out

\* At a place the invariant allows, that is all there is to it.
LEMMA UnwrittenForms == IInv => Unwrittens
<1> SUFFICES ASSUME IInv PROVE Unwrittens
  OBVIOUS
<1>1. TypeOK /\ Placed
  BY DEF IInv
<1>2. ASSUME pc = "send" PROVE Unwritten = SubSeq(msg, nw + 1, Len(msg))
  <2> DEFINE rest == SubSeq(msg, nw + 1, Len(msg))
  <2>1. out = <<>> /\ msg \in Seq(Unit) /\ nw \in 0..Len(msg)
    BY <1>1, <1>2 DEF TypeOK, Placed
  <2>2. rest \in Seq(Unit)
    BY <2>1, RestProperties
  <2>3. Unwritten = rest \o out
    BY <1>2 DEF Unwritten
  <2> HIDE DEF rest
  <2>4. rest \o <<>> = rest
    BY <2>2, ConcatEmptySeq
  <2> QED
    BY <2>1, <2>3, <2>4 DEF rest
<1>3. ASSUME pc = "flush" PROVE Unwritten = SubSeq(msg, nw + 1, Len(msg))
  <2>1. msg = out
    BY <1>1, <1>3 DEF Placed
  <2> QED
    BY <1>3, <2>1 DEF Unwritten
<1>4. pc \notin {"send", "flush"} => Unwritten = out
  BY DEF Unwritten
<1> QED
  BY <1>2, <1>3, <1>4 DEF Unwrittens

\* The same after a step.
LEMMA UnwrittenFormsNext == IInv' => Unwrittens'
BY UnwrittenForms, PTL

\* The whole of a sequence, as the part from its first element.
LEMMA WholeSubSeq ==
  ASSUME NEW s \in Seq(Unit)
  PROVE  SubSeq(s, 0 + 1, Len(s)) = s
BY SubSeqFull

\* An answer joins the end of what is unwritten, or is dropped.
LEMMA ReadRequestJoins ==
  ASSUME IInv, IInv', ReadRequest
  PROVE  \/ \E size \in 1..MaxAnswer :
              LET units == AnswerTo(chan.fd, answered'[chan.fd], size)
              IN units \in Answers /\ units \in Seq(Unit) /\ Unwritten' = Unwritten \o units
         \/ Unwritten' = Unwritten
<1>1. /\ pc = "in" /\ chan.fd # Listener
      /\ answered' = [answered EXCEPT ![chan.fd] = @ + 1]
      /\ UNCHANGED <<given, asked>>
  BY DEF ReadRequest
<1>2. TypeOK /\ TypeOK' /\ Counted'
  BY DEF IInv
<1>3. chan.fd \in Clients
  BY <1>1, <1>2 DEF TypeOK, Channels, Fds
<1>4. answered'[chan.fd] \in 1..MaxRequests
  <2>1. answered'[chan.fd] = answered[chan.fd] + 1 /\ answered[chan.fd] \in Nat
    BY <1>1, <1>2, <1>3 DEF TypeOK
  <2>2. sock'[chan.fd] \in Socket(Unit) /\ asked'[chan.fd] \in 0..MaxRequests /\ MaxRequests \in Nat
    BY <1>2, <1>3, BoundsAssumption DEF TypeOK
  <2>3. sock'[chan.fd].up \in Nat
    BY <2>2, SocketProperties
  <2>4. answered'[chan.fd] + sock'[chan.fd].up <= asked'[chan.fd]
    BY <1>2, <1>3 DEF Counted
  <2> QED
    BY <2>1, <2>2, <2>3, <2>4
<1>5. PICK size \in 1..MaxAnswer :
         IF connected
           THEN sendInLoop(AnswerTo(chan.fd, answered'[chan.fd], size))
           ELSE pc' = "out" /\ UNCHANGED <<fate, ep, chan, out, msg, nw>>
  BY DEF ReadRequest
<1> DEFINE units == AnswerTo(chan.fd, answered'[chan.fd], size)
<1>6. units \in Seq(Unit) /\ units # <<>> /\ units \in Answers
  BY <1>3, <1>4, AnswerProperties
<1> HIDE DEF units
<1>7. Unwritten = out
  BY <1>1, UnwrittenForms DEF Unwrittens
<1>8. CASE connected /\ ~isWriting /\ out = <<>>
  <2>1. pc' = "send" /\ msg' = units /\ nw' = 0
    BY <1>5, <1>8 DEF sendInLoop, units
  <2>2. Unwritten' = SubSeq(units, 0 + 1, Len(units))
    BY <2>1, UnwrittenFormsNext DEF Unwrittens
  <2>3. SubSeq(units, 0 + 1, Len(units)) = units
    BY <1>6, WholeSubSeq
  <2>4. <<>> \o units = units
    BY <1>6, ConcatEmptySeq
  <2>5. Unwritten' = Unwritten \o units
    BY <1>7, <1>8, <2>2, <2>3, <2>4
  <2> QED
    BY <1>6, <2>5 DEF units
<1>9. CASE connected /\ ~(~isWriting /\ out = <<>>)
  <2>1. LeaveInBuffer(units) /\ pc' = "out"
    BY <1>5, <1>9 DEF sendInLoop, units
  <2>2. out' = out \o units
    BY <2>1 DEF LeaveInBuffer
  <2>3. Unwritten' = out'
    BY <2>1, UnwrittenFormsNext DEF Unwrittens
  <2> QED
    BY <1>6, <1>7, <2>2, <2>3 DEF units
<1>10. CASE ~connected
  <2>1. pc' = "out" /\ UNCHANGED out
    BY <1>5, <1>10
  <2>2. Unwritten' = out'
    BY <2>1, UnwrittenFormsNext DEF Unwrittens
  <2> QED
    BY <1>7, <2>1, <2>2
<1> QED
  BY <1>8, <1>9, <1>10

\* That is what AnswerQueue calls Put, or nothing to it.
LEMMA ReadRequestPuts ==
  ASSUME IInv, IInv', ReadRequest
  PROVE  (\E answer \in Answers : Queue!Put(answer)) \/ UNCHANGED Queue!vars
<1>1. given' = given
  BY DEF ReadRequest
<1>2. (\E answer \in Answers : Unwritten' = Unwritten \o answer) \/ Unwritten' = Unwritten
  BY ReadRequestJoins
<1> QED
  BY <1>1, <1>2 DEF Queue!Put, Queue!vars

\* A part of the rest of a sequence, and the rest of that rest.
LEMMA RestOfRest ==
  ASSUME NEW s \in Seq(Unit), NEW k \in 0..Len(s), NEW n \in 1..(Len(s) - k)
  PROVE  LET rest == SubSeq(s, k + 1, Len(s))
         IN /\ n \in 1..Len(rest)
            /\ SubSeq(rest, 1, n) = SubSeq(s, k + 1, k + n)
            /\ SubSeq(rest, n + 1, Len(rest)) = SubSeq(s, (k + n) + 1, Len(s))
<1> DEFINE rest == SubSeq(s, k + 1, Len(s))
           first == SubSeq(rest, 1, n)
           part == SubSeq(s, k + 1, k + n)
           last == SubSeq(rest, n + 1, Len(rest))
           left == SubSeq(s, (k + n) + 1, Len(s))
<1>1. Len(s) \in Nat /\ k \in Nat /\ n \in Nat /\ k + n \in 0..Len(s)
  BY LenProperties
<1>2. /\ rest \in Seq(Unit)
      /\ Len(rest) = Len(s) - k
      /\ \A i \in 1..Len(s) - k : rest[i] = s[k + i]
  BY RestProperties
<1> HIDE DEF rest
<1>3. n \in 0..Len(rest)
  BY <1>1, <1>2
<1>4. \A i \in 1..n : rest[i] \in Unit
  BY <1>1, <1>2, ElementOfSeq
<1>5. /\ first \in Seq(Unit)
      /\ Len(first) = n
      /\ \A i \in 1..n : first[i] = rest[i]
  <2>1. /\ first \in Seq(Unit)
        /\ Len(first) = IF 1 <= n THEN n - 1 + 1 ELSE 0
        /\ \A i \in 1..n - 1 + 1 : first[i] = rest[1 + i - 1]
    BY <1>1, <1>4, SubSeqProperties
  <2> HIDE DEF first
  <2> QED
    BY <1>1, <2>1
<1>6. \A i \in k + 1..k + n : s[i] \in Unit
  BY <1>1, ElementOfSeq
<1>7. /\ part \in Seq(Unit)
      /\ Len(part) = n
      /\ \A i \in 1..n : part[i] = s[k + i]
  <2>1. /\ part \in Seq(Unit)
        /\ Len(part) = IF k + 1 <= k + n THEN (k + n) - (k + 1) + 1 ELSE 0
        /\ \A i \in 1..(k + n) - (k + 1) + 1 : part[i] = s[(k + 1) + i - 1]
    BY <1>1, <1>6, SubSeqProperties
  <2> HIDE DEF part
  <2>2. Len(part) = n
    BY <1>1, <2>1
  <2>3. \A i \in 1..n : part[i] = s[k + i]
    BY <1>1, <2>1
  <2> QED
    BY <2>1, <2>2, <2>3
<1>8. /\ last \in Seq(Unit)
      /\ Len(last) = Len(rest) - n
      /\ \A i \in 1..Len(rest) - n : last[i] = rest[n + i]
  BY <1>2, <1>3, RestProperties
<1>9. /\ left \in Seq(Unit)
      /\ Len(left) = Len(s) - (k + n)
      /\ \A i \in 1..Len(s) - (k + n) : left[i] = s[(k + n) + i]
  BY <1>1, RestProperties
<1> HIDE DEF first, part, last, left
<1>10. \A i \in 1..n : first[i] = part[i]
  <2> SUFFICES ASSUME NEW i \in 1..n PROVE first[i] = part[i]
    OBVIOUS
  <2>1. i \in 1..Len(s) - k
    BY <1>1
  <2> QED
    BY <1>2, <1>5, <1>7, <2>1
<1>11. first = part
  BY <1>5, <1>7, <1>10, SeqEqual
<1>12. Len(last) = Len(left) /\ Len(last) = Len(s) - (k + n)
  BY <1>1, <1>2, <1>8, <1>9
<1>13. \A i \in 1..Len(last) : last[i] = left[i]
  <2> SUFFICES ASSUME NEW i \in 1..Len(last) PROVE last[i] = left[i]
    OBVIOUS
  <2>1. i \in 1..Len(rest) - n /\ i \in 1..Len(s) - (k + n) /\ n + i \in 1..Len(s) - k
    BY <1>1, <1>2, <1>12
  <2>2. last[i] = rest[n + i] /\ left[i] = s[(k + n) + i] /\ rest[n + i] = s[k + (n + i)]
    BY <1>2, <1>8, <1>9, <2>1
  <2>3. (k + n) + i = k + (n + i)
    BY <1>1, <2>1
  <2> QED
    BY <2>2, <2>3
<1>14. last = left
  BY <1>8, <1>9, <1>12, <1>13, SeqEqual
<1> QED
  BY <1>1, <1>2, <1>11, <1>14 DEF rest, first, part, last, left

\* What the kernel accepts of a write leaves the front of the queue.
LEMMA WriteSomeTakes ==
  ASSUME IInv, IInv', WriteSome
  PROVE  \E n \in 1..Len(Unwritten) : Queue!Take(n)
<1> DEFINE n == Accepts(mine, Len(msg) - nw)
           rest == SubSeq(msg, nw + 1, Len(msg))
<1>1. /\ pc \in {"send", "flush"} /\ chan.fd # Listener
      /\ n > 0
      /\ nw' = nw + n
      /\ given' = SubSeq(msg, nw + 1, nw + n)
      /\ UNCHANGED <<pc, msg>>
  BY DEF WriteSome, Writing
<1>2. TypeOK
  BY DEF IInv
<1>3. sock[chan.fd] \in Socket(Unit)
  BY <1>1, <1>2 DEF TypeOK, Channels, Fds
<1>4. msg \in Seq(Unit) /\ Len(msg) \in Nat /\ nw \in 0..Len(msg) /\ Len(msg) - nw \in Nat
  BY <1>2, LenProperties DEF TypeOK
<1>5. n \in 1..(Len(msg) - nw)
  BY <1>1, <1>3, <1>4, AcceptsProperties DEF mine
<1> HIDE DEF n
<1>6. Unwritten = rest /\ Unwritten' = SubSeq(msg, (nw + n) + 1, Len(msg))
  BY <1>1, UnwrittenForms, UnwrittenFormsNext DEF Unwrittens
<1>7. /\ n \in 1..Len(rest)
      /\ SubSeq(rest, 1, n) = SubSeq(msg, nw + 1, nw + n)
      /\ SubSeq(rest, n + 1, Len(rest)) = SubSeq(msg, (nw + n) + 1, Len(msg))
  BY <1>4, <1>5, RestOfRest
<1> HIDE DEF rest
<1> QED
  BY <1>1, <1>6, <1>7 DEF Queue!Take

\* When a write returns, what it has not taken is unwritten still.
LEMMA WriteReturnsStutters ==
  ASSUME IInv, IInv', WriteReturns
  PROVE  UNCHANGED Queue!vars
<1>1. /\ pc \in {"send", "flush"} /\ given' = given
      /\ IF pc = "send" THEN AfterSend ELSE AfterFlush
  BY DEF WriteReturns, Writing
<1>2. TypeOK /\ Placed
  BY DEF IInv
<1>3. msg \in Seq(Unit) /\ Len(msg) \in Nat /\ nw \in 0..Len(msg)
  BY <1>2, LenProperties DEF TypeOK
<1> DEFINE rest == SubSeq(msg, nw + 1, Len(msg))
<1>4. rest \in Seq(Unit) /\ (rest = <<>> <=> nw = Len(msg))
  BY <1>3, RestProperties
<1>5. Unwritten = rest
  BY <1>1, UnwrittenForms DEF Unwrittens
<1>6. CASE pc = "send"
  <2>1. pc' = "out" /\ out = <<>>
    BY <1>1, <1>2, <1>6 DEF AfterSend, Placed
  <2>2. Unwritten' = out'
    BY <2>1, UnwrittenFormsNext DEF Unwrittens
  <2>3. IF nw < Len(msg) THEN LeaveInBuffer(rest) ELSE UNCHANGED out
    BY <1>1, <1>6 DEF AfterSend
  <2> HIDE DEF rest
  <2>4. ASSUME nw < Len(msg) PROVE out' = rest
    <3>1. <<>> \o rest = rest
      BY <1>4, ConcatEmptySeq
    <3> QED
      BY <2>1, <2>3, <2>4, <3>1 DEF LeaveInBuffer
  <2>5. ASSUME ~(nw < Len(msg)) PROVE out' = rest
    <3>1. nw = Len(msg)
      BY <1>3, <2>5
    <3> QED
      BY <1>4, <2>1, <2>3, <2>5, <3>1
  <2> QED
    BY <1>1, <1>5, <2>2, <2>4, <2>5 DEF Queue!vars
<1>7. CASE pc = "flush"
  <2>1. pc' = "loop" /\ out' = SubSeq(out, nw + 1, Len(out)) /\ msg = out
    BY <1>1, <1>2, <1>7 DEF AfterFlush, Handled, Placed
  <2>2. Unwritten' = out'
    BY <2>1, UnwrittenFormsNext DEF Unwrittens
  <2> QED
    BY <1>1, <1>5, <2>1, <2>2 DEF Queue!vars
<1> QED
  BY <1>1, <1>6, <1>7

\* An event is handed to handleWrite, which begins to write all there is.
LEMMA HandleWriteStutters ==
  ASSUME IInv, IInv', HandleWrite
  PROVE  UNCHANGED Queue!vars
<1>1. pc = "out" /\ UNCHANGED <<out, given>>
  BY DEF HandleWrite
<1>2. Unwritten = out
  BY <1>1, UnwrittenForms DEF Unwrittens
<1>3. CASE "out" \in active[1].mask /\ isWriting
  <2>1. pc' = "flush" /\ msg' = out /\ nw' = 0
    BY <1>3 DEF HandleWrite
  <2>2. Unwritten' = SubSeq(out, 0 + 1, Len(out))
    BY <2>1, UnwrittenFormsNext DEF Unwrittens
  <2>3. out \in Seq(Unit)
    BY DEF IInv, TypeOK
  <2>4. SubSeq(out, 0 + 1, Len(out)) = out
    BY <2>3, WholeSubSeq
  <2> QED
    BY <1>1, <1>2, <2>2, <2>4 DEF Queue!vars
<1>4. CASE ~("out" \in active[1].mask /\ isWriting)
  <2>1. pc' = "loop"
    BY <1>4 DEF HandleWrite, Handled
  <2>2. Unwritten' = out'
    BY <2>1, UnwrittenFormsNext DEF Unwrittens
  <2> QED
    BY <1>1, <1>2, <2>2 DEF Queue!vars
<1> QED
  BY <1>3, <1>4

\* The other steps of the server write nothing and compute nothing.
LEMMA OthersStutter ==
  ASSUME IInv, IInv',
         \/ Wait \/ FollowDangling \/ HandleEvent \/ HandleAccept
         \/ ReadError \/ ReadEof \/ WriteToNobody
         \/ \E c \in Clients :
              Connect(c) \/ Ask(c) \/ Recv(c) \/ Leave(c) \/ ResetArrives(c)
         \/ UNCHANGED vars
  PROVE  UNCHANGED Queue!vars
<1>1. ASSUME UNCHANGED <<pc, out, msg, nw, given>> PROVE UNCHANGED Queue!vars
  BY <1>1 DEF Queue!vars, Unwritten
<1>2. ASSUME pc \in {"loop", "in"}, pc' \in {"loop", "in", "out"}, UNCHANGED <<out, given>>
      PROVE  UNCHANGED Queue!vars
  <2>1. Unwritten = out /\ Unwritten' = out'
    BY <1>2, UnwrittenForms, UnwrittenFormsNext DEF Unwrittens
  <2> QED
    BY <1>2, <2>1 DEF Queue!vars
<1>3. CASE Wait \/ FollowDangling \/ WriteToNobody
  BY <1>1, <1>3 DEF Wait, FollowDangling, WriteToNobody, Die
<1>4. CASE HandleEvent \/ HandleAccept
  BY <1>2, <1>4 DEF HandleEvent, HandleAccept, Handled
<1>5. CASE ReadError
  BY <1>2, <1>5 DEF ReadError
<1>6. CASE ReadEof
  <2>1. pc = "in" /\ UNCHANGED <<out, given>> /\ pc' \in {"in", "out"}
    BY <1>6 DEF ReadEof, handleClose, Die
  <2> QED
    BY <1>2, <2>1
<1>7. CASE \E c \in Clients :
             Connect(c) \/ Ask(c) \/ Recv(c) \/ Leave(c) \/ ResetArrives(c)
  BY <1>1, <1>7 DEF Connect, Ask, Recv, Leave, ResetArrives, server
<1>8. CASE UNCHANGED vars
  BY <1>1, <1>8 DEF vars, server
<1> QED
  BY <1>3, <1>4, <1>5, <1>6, <1>7, <1>8

\* Answers reach the kernel in the order they were computed in, each unit of
\* them once (Acceptor.cc:46-70, 173-182).
THEOREM ImplementsAnswerQueue == Spec => RefinesAnswerQueue
<1>1. Init => Queue!Init
  BY DEF Init, Queue!Init, Unwritten
<1>2. IInv /\ IInv' /\ [Next]_vars => [Queue!Next]_(Queue!vars)
  <2> SUFFICES ASSUME IInv, IInv', [Next]_vars PROVE Queue!Next \/ UNCHANGED Queue!vars
    OBVIOUS
  <2>1. CASE ReadRequest
    BY <2>1, ReadRequestPuts DEF Queue!Next
  <2>2. CASE WriteSome
    BY <2>2, WriteSomeTakes DEF Queue!Next
  <2>3. CASE WriteReturns \/ HandleWrite
    BY <2>3, WriteReturnsStutters, HandleWriteStutters
  <2>4. CASE ~(ReadRequest \/ WriteSome \/ WriteReturns \/ HandleWrite)
    BY <2>4, OthersStutter DEF Next, Serve
  <2> QED
    BY <2>1, <2>2, <2>3, <2>4
<1> QED
  BY <1>1, <1>2, Invariance, PTL DEF Spec, Queue!Spec, RefinesAnswerQueue

-----------------------------------------------------------------------------
(* What a client gets of others lies in front of its own answers: from the  *)
(* invariant above and what is known of the owners of every unit still due. *)

\* Of a sequence of units, those of others than f are of F, and lie in front.
InFront(q, f, F) ==
  \A i \in 1..Len(q) :
    q[i][1] # f => q[i][1] \in F /\ \A j \in 1..i - 1 : q[j][1] # f

\* Clients the server has stopped to work for.
Former == {c \in Clients : client[c] = "gone"} \cup Orphans

\* LeftoversInFront, and what makes it last: nothing is unwritten for a client
\* that is still in the backlog, and a closed connection is one whose client
\* has gone.
Leftover ==
  /\ \A i \in 1..Len(Unwritten) :
       /\ Unwritten[i][1] \in Former \cup {chan.fd}
       /\ \A j \in 1..Len(backlog) : Unwritten[i][1] # backlog[j]
  /\ chan.fd # Listener =>
       /\ InFront(mine.down \o Unwritten, chan.fd, Former)
       /\ connected \/ client[chan.fd] = "gone"

-----------------------------------------------------------------------------
(* Sequences of units.                                                     *)

\* Taking units off the front, or letting more clients go, changes nothing.
LEMMA InFrontSuffix ==
  ASSUME NEW q \in Seq(Unit), NEW r \in Seq(Unit), NEW k \in 0..Len(q),
         Len(r) = Len(q) - k, \A i \in 1..Len(r) : r[i] = q[k + i],
         NEW f, NEW F, NEW G, F \subseteq G, InFront(q, f, F)
  PROVE  InFront(r, f, G)
<1>1. Len(q) \in Nat /\ Len(r) \in Nat
  BY LenProperties
<1>2. SUFFICES ASSUME NEW i \in 1..Len(r), r[i][1] # f
               PROVE  r[i][1] \in G /\ \A j \in 1..i - 1 : r[j][1] # f
  BY DEF InFront
<1>3. k + i \in 1..Len(q) /\ r[i] = q[k + i]
  BY <1>1
<1>4. q[k + i][1] \in F /\ \A j \in 1..(k + i) - 1 : q[j][1] # f
  BY <1>2, <1>3 DEF InFront
<1>5. ASSUME NEW j \in 1..i - 1 PROVE r[j][1] # f
  <2>1. j \in 1..Len(r) /\ k + j \in 1..(k + i) - 1
    BY <1>1
  <2> QED
    BY <1>4, <2>1
<1> QED
  BY <1>3, <1>4, <1>5

\* The same of two sequences, of the first of which a front is taken.
LEMMA InFrontRest ==
  ASSUME NEW a \in Seq(Unit), NEW b \in Seq(Unit), NEW k \in 0..Len(a),
         NEW f, NEW F, NEW G, F \subseteq G, InFront(a \o b, f, F)
  PROVE  InFront(SubSeq(a, k + 1, Len(a)) \o b, f, G)
<1> DEFINE d == SubSeq(a, k + 1, Len(a))
           q == a \o b
           r == d \o b
<1>1. Len(a) \in Nat /\ Len(b) \in Nat /\ k \in Nat
  BY LenProperties
<1>2. d \in Seq(Unit) /\ Len(d) = Len(a) - k /\ \A i \in 1..Len(a) - k : d[i] = a[k + i]
  BY RestProperties
<1> HIDE DEF d
<1>3. /\ q \in Seq(Unit) /\ Len(q) = Len(a) + Len(b)
      /\ \A i \in 1..Len(a) + Len(b) : q[i] = IF i <= Len(a) THEN a[i] ELSE b[i - Len(a)]
  BY ConcatProperties
<1>4. /\ r \in Seq(Unit) /\ Len(r) = Len(d) + Len(b)
      /\ \A i \in 1..Len(d) + Len(b) : r[i] = IF i <= Len(d) THEN d[i] ELSE b[i - Len(d)]
  BY <1>2, ConcatProperties
<1> HIDE DEF q, r
<1>5. ASSUME NEW i \in 1..Len(r) PROVE r[i] = q[k + i]
  <2>1. i \in 1..Len(d) + Len(b) /\ k + i \in 1..Len(a) + Len(b)
    BY <1>1, <1>2, <1>4
  <2>2. CASE i <= Len(d)
    <3>1. i \in 1..Len(a) - k /\ k + i <= Len(a)
      BY <1>1, <1>2, <2>1, <2>2
    <3> QED
      BY <1>2, <1>3, <1>4, <2>1, <2>2, <3>1
  <2>3. CASE ~(i <= Len(d))
    <3>1. ~(k + i <= Len(a)) /\ i - Len(d) = (k + i) - Len(a)
      BY <1>1, <1>2, <2>1, <2>3
    <3> QED
      BY <1>3, <1>4, <2>1, <2>3, <3>1
  <2> QED
    BY <2>2, <2>3
<1>6. k \in 0..Len(q) /\ Len(r) = Len(q) - k
  BY <1>1, <1>2, <1>3, <1>4
<1>7. InFront(r, f, G)
  <2>1. InFront(q, f, F)
    BY DEF q
  <2> QED
    BY <1>3, <1>4, <1>5, <1>6, <2>1, InFrontSuffix
<1> QED
  BY <1>7 DEF r, d

\* The client's own units may follow.
LEMMA InFrontOwn ==
  ASSUME NEW q \in Seq(Unit), NEW u \in Seq(Unit), NEW f, NEW F,
         InFront(q, f, F), \A i \in 1..Len(u) : u[i][1] = f
  PROVE  InFront(q \o u, f, F)
<1> DEFINE r == q \o u
<1>1. Len(q) \in Nat /\ Len(u) \in Nat
  BY LenProperties
<1>2. /\ Len(r) = Len(q) + Len(u)
      /\ \A i \in 1..Len(q) + Len(u) : r[i] = IF i <= Len(q) THEN q[i] ELSE u[i - Len(q)]
  BY ConcatProperties
<1> HIDE DEF r
<1>3. ASSUME NEW i \in 1..Len(r), r[i][1] # f
      PROVE  r[i][1] \in F /\ \A j \in 1..i - 1 : r[j][1] # f
  <2>1. i <= Len(q)
    <3>1. ASSUME ~(i <= Len(q)) PROVE FALSE
      <4>1. i - Len(q) \in 1..Len(u) /\ r[i] = u[i - Len(q)]
        BY <1>1, <1>2, <3>1
      <4> QED
        BY <1>3, <4>1
    <3> QED
      BY <3>1
  <2>2. \A j \in 1..i : j \in 1..Len(q) /\ r[j] = q[j]
    BY <1>1, <1>2, <2>1
  <2>3. i \in 1..i /\ \A j \in 1..i - 1 : j \in 1..i
    OBVIOUS
  <2>4. q[i][1] \in F /\ \A j \in 1..i - 1 : q[j][1] # f
    BY <1>3, <2>2, <2>3 DEF InFront
  <2> QED
    BY <2>2, <2>3, <2>4
<1> QED
  BY <1>3 DEF InFront, r

\* Concatenation of units, for any way of putting the brackets.
LEMMA Associative ==
  ASSUME NEW a \in Seq(Unit), NEW b \in Seq(Unit), NEW c \in Seq(Unit)
  PROVE  (a \o b) \o c = a \o (b \o c)
BY ConcatAssociative

\* Units of others alone are all in front.
LEMMA InFrontOthers ==
  ASSUME NEW q, NEW f, NEW F, \A i \in 1..Len(q) : q[i][1] \in F \ {f},
         Len(q) \in Nat
  PROVE  InFront(q, f, F)
<1>1. ASSUME NEW i \in 1..Len(q), NEW j \in 1..i - 1 PROVE j \in 1..Len(q)
  OBVIOUS
<1> QED
  BY <1>1 DEF InFront

-----------------------------------------------------------------------------
(* What a step leaves alone.                                               *)

\* What is due to a client is made of units, each of the request of a client.
LEMMA DueIsSeq ==
  ASSUME IInv
  PROVE  /\ Unwritten \in Seq(Unit) /\ Len(Unwritten) \in Nat
         /\ \A i \in 1..Len(Unwritten) : Unwritten[i][1] \in Clients
         /\ chan.fd # Listener =>
              /\ chan.fd \in Clients
              /\ sock[chan.fd] \in Socket(Unit)
              /\ sock[chan.fd].down \in Seq(Unit)
<1>1. TypeOK
  BY DEF IInv
<1>2. Unwritten \in Seq(Unit)
  <2>1. CASE pc \in {"send", "flush"}
    <3>1. msg \in Seq(Unit) /\ nw \in 0..Len(msg)
      BY <1>1 DEF TypeOK
    <3>2. SubSeq(msg, nw + 1, Len(msg)) \in Seq(Unit)
      BY <3>1, RestProperties
    <3> QED
      BY <2>1, <3>2, UnwrittenForms DEF Unwrittens
  <2>2. CASE pc \notin {"send", "flush"}
    BY <1>1, <2>2, UnwrittenForms DEF Unwrittens, TypeOK
  <2> QED
    BY <2>1, <2>2
<1>3. \A i \in 1..Len(Unwritten) : Unwritten[i] \in Unit
  BY <1>2, ElementOfSeq
<1>4. \A u \in Unit : u[1] \in Clients
  BY DEF Unit
<1>5. chan.fd # Listener => chan.fd \in Clients
  BY <1>1 DEF TypeOK, Channels, Fds
<1>6. \A c \in Clients : sock[c] \in Socket(Unit)
  BY <1>1 DEF TypeOK
<1>7. Len(Unwritten) \in Nat
  BY <1>2, LenProperties
<1> QED
  BY <1>2, <1>3, <1>4, <1>5, <1>6, <1>7, SocketProperties

\* A change of the channel's mask orphans nobody.
LEMMA UpdateKeepsOrphans ==
  ASSUME NEW p, NEW ch \in Channels, NEW mask
  PROVE  LET u == UpdateChannel(p, [ch EXCEPT !.mask = mask])
         IN u.ch.fd = ch.fd /\ u.ep.channel \ {ch.fd} = p.channel \ {ch.fd}
<1> DEFINE m == [ch EXCEPT !.mask = mask]
<1>1. m.fd = ch.fd /\ m.index = ch.index
  BY DEF Channels
<1>2. /\ Added(p, m).ch.fd = m.fd
      /\ Added(p, m).ep.channel = p.channel \cup {m.fd}
  <2>1. m = [fd |-> m.fd, mask |-> m.mask, index |-> m.index]
    BY DEF Channels
  <2> HIDE DEF m
  <2> QED
    BY <2>1 DEF Added
<1>3. Modified(p, m).ch = m /\ Modified(p, m).ep.channel = p.channel
  BY DEF Modified
<1> HIDE DEF m
<1> QED
  BY <1>1, <1>2, <1>3 DEF UpdateChannel, m

\* The connection stays, and so do the orphans.
SameConnection == chan'.fd = chan.fd /\ Orphans' = Orphans

\* The rest of an answer is left in the buffer.
LEMMA LeaveInBufferStays ==
  ASSUME TypeOK, NEW units, LeaveInBuffer(units)
  PROVE  SameConnection
<1> DEFINE u == enableWriting(ep, chan)
<1>1. u.ch.fd = chan.fd /\ u.ep.channel \ {chan.fd} = ep.channel \ {chan.fd}
  BY UpdateKeepsOrphans DEF TypeOK, enableWriting
<1>2. UNCHANGED <<ep, chan>> \/ (ep' = u.ep /\ chan' = u.ch)
  BY DEF LeaveInBuffer
<1> HIDE DEF u
<1> QED
  BY <1>1, <1>2 DEF SameConnection, Orphans

\* The server may close its connection, or change what it waits for, and
\* still it is the connection it works for.
LEMMA ServerStays ==
  ASSUME TypeOK,
         \/ Wait \/ FollowDangling \/ HandleEvent
         \/ ReadRequest \/ ReadError \/ ReadEof
         \/ HandleWrite \/ WriteSome \/ WriteReturns \/ WriteToNobody
  PROVE  SameConnection
<1>1. ASSUME UNCHANGED <<ep, chan>> PROVE SameConnection
  BY <1>1 DEF SameConnection, Orphans
<1>2. CASE FollowDangling \/ HandleEvent \/ ReadError \/ HandleWrite \/ WriteSome \/ WriteToNobody
  BY <1>1, <1>2 DEF FollowDangling, HandleEvent, ReadError, HandleWrite, WriteSome, WriteToNobody, Die
<1>3. CASE Wait
  <2>1. PICK got : ep' = Polled(ep, got)
    BY <1>3 DEF Wait
  <2>2. ep'.channel = ep.channel
    BY <2>1 DEF Polled, TypeOK, Pollers
  <2> QED
    BY <1>3, <2>2 DEF Wait, SameConnection, Orphans
<1>4. CASE ReadRequest
  <2>1. (\E units : LeaveInBuffer(units)) \/ UNCHANGED <<ep, chan>>
    BY <1>4 DEF ReadRequest, sendInLoop
  <2> QED
    BY <1>1, <2>1, LeaveInBufferStays
<1>5. CASE ReadEof
  <2> DEFINE off == disableAll(ep, chan)
             removed == RemoveChannel(off.ep, off.ch)
  <2>1. off.ch.fd = chan.fd /\ off.ep.channel \ {chan.fd} = ep.channel \ {chan.fd}
    BY UpdateKeepsOrphans DEF TypeOK, disableAll
  <2>2. UNCHANGED <<ep, chan>> \/ (ep' = removed.ep /\ chan' = off.ch)
    BY <1>5 DEF ReadEof, handleClose, Die
  <2>3. removed.ep.channel = off.ep.channel \ {off.ch.fd}
    BY DEF RemoveChannel
  <2> HIDE DEF off, removed
  <2> QED
    BY <2>1, <2>2, <2>3 DEF SameConnection, Orphans
<1>6. CASE WriteReturns
  <2> DEFINE u == disableWriting(ep, chan)
  <2>1. u.ch.fd = chan.fd /\ u.ep.channel \ {chan.fd} = ep.channel \ {chan.fd}
    BY UpdateKeepsOrphans DEF TypeOK, disableWriting
  <2>2. \/ \E units : LeaveInBuffer(units)
        \/ UNCHANGED <<ep, chan>>
        \/ ep' = u.ep /\ chan' = u.ch
    BY <1>6 DEF WriteReturns, AfterSend, AfterFlush
  <2> HIDE DEF u
  <2>3. ASSUME ep' = u.ep, chan' = u.ch PROVE SameConnection
    BY <2>1, <2>3 DEF SameConnection, Orphans
  <2> QED
    BY <1>1, <2>2, <2>3, LeaveInBufferStays
<1> QED
  BY <1>2, <1>3, <1>4, <1>5, <1>6

-----------------------------------------------------------------------------
(* The steps that take from what is due, or leave it alone.                *)

\* The ways in which what is on its way to a client gets shorter.
Shorter(down, rest) == \E k \in 0..Len(down) : rest = SubSeq(down, k + 1, Len(down))

\* It stays as it is, or all of it is lost.
LEMMA ShorterForms ==
  ASSUME NEW down \in Seq(Unit)
  PROVE  Shorter(down, down) /\ Shorter(down, <<>>)
<1>1. Len(down) \in Nat /\ 0 \in 0..Len(down) /\ Len(down) \in 0..Len(down)
  BY LenProperties
<1>2. SubSeq(down, 0 + 1, Len(down)) = down
  BY WholeSubSeq
<1>3. SubSeq(down, Len(down) + 1, Len(down)) = <<>>
  BY <1>1, RestProperties
<1> QED
  BY <1>1, <1>2, <1>3 DEF Shorter

\* A step that computes nothing and accepts nobody.
LEMMA NothingAdded ==
  ASSUME IInv, Leftover, SameConnection,
         Unwritten' = Unwritten, backlog' = backlog, Former \subseteq Former',
         chan.fd # Listener =>
           /\ connected' \/ client'[chan.fd] = "gone"
           /\ Shorter(sock[chan.fd].down, sock'[chan.fd].down)
  PROVE  Leftover'
<1>1. chan'.fd = chan.fd
  BY DEF SameConnection
<1>2. \A i \in 1..Len(Unwritten) :
        /\ Unwritten[i][1] \in Former' \cup {chan.fd}
        /\ \A j \in 1..Len(backlog) : Unwritten[i][1] # backlog[j]
  BY DEF Leftover
<1>3. ASSUME chan.fd # Listener
      PROVE  InFront(mine'.down \o Unwritten, chan.fd, Former')
  <2>1. PICK k \in 0..Len(sock[chan.fd].down) :
          sock'[chan.fd].down = SubSeq(sock[chan.fd].down, k + 1, Len(sock[chan.fd].down))
    BY <1>3 DEF Shorter
  <2>2. sock[chan.fd].down \in Seq(Unit) /\ Unwritten \in Seq(Unit)
    BY <1>3, DueIsSeq
  <2>3. InFront(sock[chan.fd].down \o Unwritten, chan.fd, Former)
    BY <1>3 DEF Leftover, mine
  <2>4. InFront(sock'[chan.fd].down \o Unwritten, chan.fd, Former')
    BY <2>1, <2>2, <2>3, InFrontRest
  <2> QED
    BY <1>1, <2>4 DEF mine
<1> QED
  BY <1>1, <1>2, <1>3 DEF Leftover

\* Steps of the server that neither compute an answer, nor write, nor accept:
\* a connection is closed only when its client has gone (Acceptor.cc:157-171).
LEMMA ServerStepsKeep ==
  ASSUME IInv, IInv', Leftover,
         \/ Wait \/ FollowDangling \/ HandleEvent \/ ReadError \/ ReadEof
         \/ HandleWrite \/ WriteReturns \/ WriteToNobody
  PROVE  Leftover'
<1>1. TypeOK /\ Arriving
  BY DEF IInv
<1>2. SameConnection
  BY <1>1, ServerStays
<1>3. Unwritten' = Unwritten
  <2>1. UNCHANGED Queue!vars
    BY OthersStutter, HandleWriteStutters, WriteReturnsStutters
  <2> QED
    BY <2>1 DEF Queue!vars
<1>4. client' = client /\ backlog' = backlog
  BY DEF Wait, FollowDangling, HandleEvent, ReadError, ReadEof, HandleWrite, WriteReturns,
         WriteToNobody, others
<1>5. Former' = Former
  BY <1>2, <1>4 DEF Former, SameConnection
<1>6. ASSUME chan.fd # Listener
      PROVE  Shorter(sock[chan.fd].down, sock'[chan.fd].down)
  <2>1. chan.fd \in Clients /\ sock[chan.fd] \in Socket(Unit) /\ sock[chan.fd].down \in Seq(Unit)
    BY <1>6, DueIsSeq
  <2>2. sock' = sock \/ sock' = [sock EXCEPT ![chan.fd] = Reported(sock[chan.fd])]
    BY DEF Wait, FollowDangling, HandleEvent, ReadError, ReadEof, HandleWrite, WriteReturns,
           WriteToNobody, others
  <2>3. Reported(sock[chan.fd]).down = sock[chan.fd].down
    BY <2>1, SocketProperties
  <2>4. sock'[chan.fd].down = sock[chan.fd].down
    BY <1>1, <2>1, <2>2, <2>3 DEF TypeOK
  <2> QED
    BY <2>1, <2>4, ShorterForms
<1>7. ASSUME chan.fd # Listener
      PROVE  connected' \/ client'[chan.fd] = "gone"
  <2>1. chan.fd \in Clients /\ (connected \/ client[chan.fd] = "gone")
    BY <1>6, <1>7, DueIsSeq DEF Leftover
  <2>2. CASE ReadEof
    <3>1. sock[chan.fd].end # "open"
      BY <2>2 DEF ReadEof, AtEof, mine
    <3> QED
      BY <1>1, <1>4, <2>1, <3>1 DEF Arriving, TypeOK
  <2>3. CASE ~ReadEof
    <3>1. state' = state
      BY <2>3 DEF Wait, FollowDangling, HandleEvent, ReadError, HandleWrite, WriteReturns,
                  WriteToNobody, Die
    <3> QED
      BY <1>4, <2>1, <3>1 DEF connected
  <2> QED
    BY <2>2, <2>3
<1> QED
  BY <1>2, <1>3, <1>4, <1>5, <1>6, <1>7, NothingAdded

\* Clients that are there ask, read and leave; what they leave unread is lost,
\* or is a reset.
LEMMA ClientStepsKeep ==
  ASSUME IInv, Leftover, NEW c \in Clients,
         Ask(c) \/ Recv(c) \/ Leave(c) \/ ResetArrives(c)
  PROVE  Leftover'
<1>1. TypeOK
  BY DEF IInv
<1>2. UNCHANGED server /\ backlog' = backlog
  BY DEF Ask, Recv, Leave, ResetArrives
<1>3. SameConnection
  BY <1>2 DEF SameConnection, Orphans, server
<1>4. Unwritten' = Unwritten /\ (connected' <=> connected)
  BY <1>2 DEF server, Unwritten, connected
<1>5. \A d \in Clients : client[d] = "gone" => client'[d] = "gone"
  BY <1>1 DEF Ask, Recv, Leave, ResetArrives, TypeOK
<1>6. Former \subseteq Former'
  BY <1>3, <1>5 DEF Former, SameConnection
<1>7. ASSUME NEW d \in Clients PROVE Shorter(sock[d].down, sock'[d].down)
  <2>1. sock \in [Clients -> Socket(Unit)] /\ sock[d] \in Socket(Unit) /\ sock[c] \in Socket(Unit)
    BY <1>1 DEF TypeOK
  <2>2. sock[d].down \in Seq(Unit) /\ sock[c].down \in Seq(Unit)
    BY <2>1, SocketProperties
  <2>3. PICK s : sock' = [sock EXCEPT ![c] = s] /\ Shorter(sock[c].down, s.down)
    <3>1. CASE Ask(c)
      <4>1. sock' = [sock EXCEPT ![c] = [sock[c] EXCEPT !.up = sock[c].up + 1]]
        BY <3>1 DEF Ask
      <4>2. [sock[c] EXCEPT !.up = sock[c].up + 1].down = sock[c].down
        BY <2>1, SocketProperties
      <4> QED
        BY <2>2, <4>1, <4>2, ShorterForms
    <3>2. CASE Recv(c)
      <4>1. PICK n \in 1..Len(sock[c].down) :
              sock' = [sock EXCEPT ![c] =
                         [sock[c] EXCEPT !.down = SubSeq(sock[c].down, n + 1, Len(sock[c].down))]]
        BY <3>2 DEF Recv, Received
      <4>2. n \in 0..Len(sock[c].down)
        BY <2>2, LenProperties
      <4>3. [sock[c] EXCEPT !.down = SubSeq(sock[c].down, n + 1, Len(sock[c].down))].down
              = SubSeq(sock[c].down, n + 1, Len(sock[c].down))
        BY <2>1 DEF Socket
      <4> QED
        BY <4>1, <4>2, <4>3 DEF Shorter
    <3>3. CASE Leave(c)
      <4>1. PICK s \in Closed(sock[c]) : sock' = [sock EXCEPT ![c] = s]
        BY <3>3 DEF Leave
      <4>2. s.down = sock[c].down \/ s.down = <<>>
        BY <2>1, <4>1 DEF Closed, Socket
      <4> QED
        BY <2>2, <4>1, <4>2, ShorterForms
    <3>4. CASE ResetArrives(c)
      <4>1. sock' = [sock EXCEPT ![c] = Dead(sock[c])]
        BY <3>4 DEF ResetArrives
      <4>2. Dead(sock[c]).down = <<>>
        BY <2>1, SocketProperties
      <4> QED
        BY <2>2, <4>1, <4>2, ShorterForms
    <3> QED
      BY <3>1, <3>2, <3>3, <3>4
  <2>4. CASE d = c
    BY <2>1, <2>3, <2>4
  <2>5. CASE d # c
    <3>1. sock'[d] = sock[d]
      BY <2>1, <2>3, <2>5
    <3> QED
      BY <2>2, <3>1, ShorterForms
  <2> QED
    BY <2>4, <2>5
<1>8. ASSUME chan.fd # Listener
      PROVE  /\ connected' \/ client'[chan.fd] = "gone"
             /\ Shorter(sock[chan.fd].down, sock'[chan.fd].down)
  <2>1. chan.fd \in Clients /\ (connected \/ client[chan.fd] = "gone")
    BY <1>8, DueIsSeq DEF Leftover
  <2> QED
    BY <1>4, <1>5, <1>7, <2>1
<1> QED
  BY <1>2, <1>3, <1>4, <1>6, <1>8, NothingAdded

-----------------------------------------------------------------------------
(* The steps that add to what is due, or change whom it is due to.         *)

\* Nothing is unwritten for a client that has not come yet.
LEMMA ConnectKeeps ==
  ASSUME IInv, Leftover, NEW c \in Clients, Connect(c)
  PROVE  Leftover'
<1>1. TypeOK /\ Arriving
  BY DEF IInv
<1>2. /\ client[c] = "off" /\ backlog' = Append(backlog, c)
      /\ client' = [client EXCEPT ![c] = "prompt"]
      /\ UNCHANGED <<server, sock>>
  BY DEF Connect
<1>3. UNCHANGED <<chan, ep>> /\ Unwritten' = Unwritten /\ (connected' <=> connected)
  BY <1>2 DEF server, Unwritten, connected
<1>4. \A d \in Clients : client[d] = "gone" => client'[d] = "gone"
  BY <1>1, <1>2 DEF TypeOK
<1>5. Former \subseteq Former'
  BY <1>3, <1>4 DEF Former, Orphans
<1>6. c \notin Former \cup {chan.fd}
  BY <1>1, <1>2 DEF Arriving, Former, Orphans
<1>7. \A j \in 1..Len(backlog') : backlog'[j] = c \/ (j \in 1..Len(backlog) /\ backlog'[j] = backlog[j])
  <2>1. backlog \in Seq(Clients) /\ Len(backlog) \in Nat
    BY <1>1, LenProperties DEF TypeOK
  <2>2. /\ Len(backlog') = Len(backlog) + 1
        /\ \A j \in 1..Len(backlog) : backlog'[j] = backlog[j]
        /\ backlog'[Len(backlog) + 1] = c
    BY <1>2, <2>1, AppendProperties
  <2>3. ASSUME NEW j \in 1..Len(backlog') PROVE j = Len(backlog) + 1 \/ j \in 1..Len(backlog)
    BY <2>1, <2>2
  <2> QED
    BY <2>2, <2>3
<1>8. \A i \in 1..Len(Unwritten) :
        /\ Unwritten[i][1] \in Former' \cup {chan.fd}
        /\ \A j \in 1..Len(backlog') : Unwritten[i][1] # backlog'[j]
  BY <1>5, <1>6, <1>7 DEF Leftover
<1>9. ASSUME chan.fd # Listener
      PROVE  /\ InFront(mine.down \o Unwritten, chan.fd, Former')
             /\ connected \/ client'[chan.fd] = "gone"
  <2>1. chan.fd \in Clients /\ sock[chan.fd].down \in Seq(Unit) /\ Unwritten \in Seq(Unit)
    BY <1>9, DueIsSeq
  <2>2. /\ InFront(sock[chan.fd].down \o Unwritten, chan.fd, Former)
        /\ connected \/ client[chan.fd] = "gone"
    BY <1>9 DEF Leftover, mine
  <2>3. Shorter(sock[chan.fd].down, sock[chan.fd].down)
    BY <2>1, ShorterForms
  <2>4. InFront(sock[chan.fd].down \o Unwritten, chan.fd, Former')
    <3>1. PICK k \in 0..Len(sock[chan.fd].down) :
            sock[chan.fd].down = SubSeq(sock[chan.fd].down, k + 1, Len(sock[chan.fd].down))
      BY <2>3 DEF Shorter
    <3>2. InFront(SubSeq(sock[chan.fd].down, k + 1, Len(sock[chan.fd].down)) \o Unwritten,
                  chan.fd, Former')
      BY <1>5, <2>1, <2>2, InFrontRest
    <3> QED
      BY <3>1, <3>2
  <2> QED
    BY <1>4, <2>1, <2>2, <2>4 DEF mine
<1>10. chan'.fd = chan.fd /\ mine' = mine
  BY <1>2, <1>3 DEF mine
<1> QED
  BY <1>3, <1>8, <1>9, <1>10 DEF Leftover

\* The answer computed is the client's own, and goes to the end.
LEMMA ReadRequestKeeps ==
  ASSUME IInv, IInv', Leftover, ReadRequest
  PROVE  Leftover'
<1>1. TypeOK /\ chan.fd # Listener
  BY DEF IInv, ReadRequest
<1>2. SameConnection
  BY <1>1, ServerStays
<1>3. chan.fd \in Clients /\ sock[chan.fd].down \in Seq(Unit) /\ Unwritten \in Seq(Unit)
  BY <1>1, DueIsSeq
<1>4. client' = client /\ backlog' = backlog /\ state' = state
  BY DEF ReadRequest
<1>5. Former' = Former /\ (connected' <=> connected)
  BY <1>2, <1>4 DEF Former, SameConnection, connected
<1>6. sock'[chan.fd].down = sock[chan.fd].down
  <2>1. PICK n : sock' = [sock EXCEPT ![chan.fd] = [sock[chan.fd] EXCEPT !.up = sock[chan.fd].up - n]]
    BY DEF ReadRequest
  <2>2. sock[chan.fd] \in Socket(Unit) /\ sock \in [Clients -> Socket(Unit)]
    BY <1>1, <1>3 DEF TypeOK
  <2>3. [sock[chan.fd] EXCEPT !.up = sock[chan.fd].up - n].down = sock[chan.fd].down
    BY <2>2 DEF Socket
  <2> QED
    BY <1>3, <2>1, <2>2, <2>3
<1>7. CASE Unwritten' = Unwritten
  <2>1. connected \/ client[chan.fd] = "gone"
    BY <1>1 DEF Leftover
  <2> QED
    BY <1>1, <1>2, <1>3, <1>4, <1>5, <1>6, <1>7, <2>1, ShorterForms, NothingAdded
<1>8. CASE Unwritten' # Unwritten
  <2>1. PICK units : /\ units \in Seq(Unit) /\ Unwritten' = Unwritten \o units
                     /\ \E size : units = AnswerTo(chan.fd, answered'[chan.fd], size)
    BY <1>8, ReadRequestJoins
  <2>2. \A i \in 1..Len(units) : units[i][1] = chan.fd
    <3>1. PICK size : units = AnswerTo(chan.fd, answered'[chan.fd], size)
      BY <2>1
    <3>2. DOMAIN units = 1..Len(units)
      BY <2>1, LenProperties
    <3>3. ASSUME NEW i \in DOMAIN units PROVE units[i][1] = chan.fd
      <4>1. units[i] = <<chan.fd, answered'[chan.fd], i>>
        BY <3>1 DEF AnswerTo
      <4> QED
        BY <4>1
    <3> QED
      BY <3>2, <3>3
  <2>3. /\ Len(Unwritten) \in Nat /\ Len(units) \in Nat
        /\ Len(Unwritten') = Len(Unwritten) + Len(units)
        /\ \A i \in 1..Len(Unwritten) + Len(units) :
             Unwritten'[i] = IF i <= Len(Unwritten) THEN Unwritten[i] ELSE units[i - Len(Unwritten)]
    BY <1>3, <2>1, ConcatProperties, LenProperties
  <2>4. ASSUME NEW i \in 1..Len(Unwritten')
        PROVE  \/ Unwritten'[i][1] = chan.fd
               \/ i \in 1..Len(Unwritten) /\ Unwritten'[i] = Unwritten[i]
    <3>1. CASE i <= Len(Unwritten)
      BY <2>3, <3>1
    <3>2. CASE ~(i <= Len(Unwritten))
      <4>1. i - Len(Unwritten) \in 1..Len(units) /\ Unwritten'[i] = units[i - Len(Unwritten)]
        BY <2>3, <3>2
      <4> QED
        BY <2>2, <4>1
    <3> QED
      BY <3>1, <3>2
  <2>5. \A j \in 1..Len(backlog) : chan.fd # backlog[j]
    BY DEF IInv, Arriving
  <2>6. \A i \in 1..Len(Unwritten') :
          /\ Unwritten'[i][1] \in Former' \cup {chan'.fd}
          /\ \A j \in 1..Len(backlog') : Unwritten'[i][1] # backlog'[j]
    BY <1>2, <1>4, <1>5, <2>4, <2>5 DEF Leftover, SameConnection
  <2>7. InFront(mine'.down \o Unwritten', chan'.fd, Former')
    <3>1. InFront(sock[chan.fd].down \o Unwritten, chan.fd, Former)
      BY <1>1 DEF Leftover, mine
    <3>2. sock[chan.fd].down \o Unwritten \in Seq(Unit)
      BY <1>3, ConcatProperties
    <3>3. InFront((sock[chan.fd].down \o Unwritten) \o units, chan.fd, Former)
      BY <2>1, <2>2, <3>1, <3>2, InFrontOwn
    <3>4. (sock[chan.fd].down \o Unwritten) \o units = sock[chan.fd].down \o Unwritten'
      BY <1>3, <2>1, Associative
    <3> QED
      BY <1>2, <1>5, <1>6, <3>3, <3>4 DEF mine, SameConnection
  <2>8. connected' \/ client'[chan'.fd] = "gone"
    BY <1>1, <1>2, <1>4, <1>5 DEF Leftover, SameConnection
  <2> QED
    BY <2>6, <2>7, <2>8 DEF Leftover
<1> QED
  BY <1>7, <1>8

\* What is written moves from the front of the one to the end of the other.
LEMMA WriteSomeKeeps ==
  ASSUME IInv, IInv', Leftover, WriteSome
  PROVE  Leftover'
<1>1. TypeOK /\ chan.fd # Listener
  BY DEF IInv, WriteSome, Writing
<1>2. SameConnection
  BY <1>1, ServerStays
<1>3. /\ chan.fd \in Clients /\ sock[chan.fd] \in Socket(Unit)
      /\ sock[chan.fd].down \in Seq(Unit) /\ Unwritten \in Seq(Unit) /\ Len(Unwritten) \in Nat
  BY <1>1, DueIsSeq
<1>4. client' = client /\ backlog' = backlog /\ state' = state
  BY DEF WriteSome
<1>5. Former' = Former /\ (connected' <=> connected)
  BY <1>2, <1>4 DEF Former, SameConnection, connected
<1>6. PICK n \in 1..Len(Unwritten) :
        /\ Unwritten' = SubSeq(Unwritten, n + 1, Len(Unwritten))
        /\ given' = SubSeq(Unwritten, 1, n)
  BY WriteSomeTakes DEF Queue!Take
<1>7. given' \in Seq(Unit) /\ Unwritten' \in Seq(Unit) /\ Unwritten = given' \o Unwritten'
  <2>1. TypeOK'
    BY DEF IInv
  <2>2. n \in 0..Len(Unwritten)
    BY <1>3
  <2>3. Unwritten = SubSeq(Unwritten, 1, n) \o SubSeq(Unwritten, n + 1, Len(Unwritten))
    <3>1. 1 \in 1..Len(Unwritten) + 1 /\ n \in 1 - 1..Len(Unwritten)
      BY <1>3
    <3>2. SubSeq(Unwritten, 1, n) \o SubSeq(Unwritten, n + 1, Len(Unwritten))
            = SubSeq(Unwritten, 1, Len(Unwritten))
      BY <1>3, <3>1, ConcatAdjacentSubSeq
    <3> QED
      BY <1>3, <3>2, SubSeqFull
  <2> QED
    BY <1>3, <1>6, <2>1, <2>2, <2>3, RestProperties DEF TypeOK
<1>8. sock'[chan.fd].down = sock[chan.fd].down \o given'
  <2>1. sock' = [sock EXCEPT ![chan.fd] = Given(sock[chan.fd], given')]
    BY DEF WriteSome, mine
  <2>2. sock'[chan.fd] = Given(sock[chan.fd], given')
    BY <1>1, <1>3, <2>1 DEF TypeOK
  <2> QED
    BY <1>3, <1>7, <2>2, GivenProperties
<1>9. InFront(mine'.down \o Unwritten', chan'.fd, Former')
  <2>1. (sock[chan.fd].down \o given') \o Unwritten' = sock[chan.fd].down \o (given' \o Unwritten')
    <3>1. sock[chan.fd].down \in Seq(Unit) /\ given' \in Seq(Unit) /\ Unwritten' \in Seq(Unit)
      BY <1>3, <1>7
    <3> QED
      BY <3>1, Associative
  <2>2. mine'.down \o Unwritten' = sock[chan.fd].down \o Unwritten
    BY <1>2, <1>7, <1>8, <2>1 DEF mine, SameConnection
  <2> QED
    BY <1>1, <1>2, <1>5, <2>2 DEF Leftover, mine, SameConnection
<1>10. \A i \in 1..Len(Unwritten') :
         /\ Unwritten'[i][1] \in Former' \cup {chan'.fd}
         /\ \A j \in 1..Len(backlog') : Unwritten'[i][1] # backlog'[j]
  <2>1. n \in 0..Len(Unwritten)
    BY <1>3
  <2>2. /\ Len(Unwritten') = Len(Unwritten) - n
        /\ \A i \in 1..Len(Unwritten) - n : Unwritten'[i] = Unwritten[n + i]
    BY <1>3, <1>6, <2>1, RestProperties
  <2>3. \A i \in 1..Len(Unwritten') : n + i \in 1..Len(Unwritten) /\ Unwritten'[i] = Unwritten[n + i]
    BY <1>3, <2>2
  <2> QED
    BY <1>2, <1>4, <1>5, <2>3 DEF Leftover, SameConnection
<1>11. connected' \/ client'[chan'.fd] = "gone"
  BY <1>1, <1>2, <1>4, <1>5 DEF Leftover, SameConnection
<1> QED
  BY <1>9, <1>10, <1>11 DEF Leftover

\* The client accepted has got nothing yet, and everything that is still
\* unwritten is for clients the server has stopped to work for: the one it
\* replaces has gone, or is an orphan from now on (Acceptor.cc:90-109).
LEMMA AcceptKeeps ==
  ASSUME IInv, Leftover, HandleAccept
  PROVE  Leftover'
<1>1. TypeOK /\ Arriving /\ Registered
  BY DEF IInv
<1>2. pc = "loop" /\ pc' = "loop" /\ UNCHANGED <<out, msg, nw, sock, client>>
  BY DEF HandleAccept, Handled
<1>3. Unwritten' = Unwritten
  BY <1>2 DEF Unwritten
<1>4. CASE ~(backlog # <<>> /\ Accepted < MaxFds)
  <2>1. UNCHANGED <<ep, chan, state, backlog>>
    BY <1>4 DEF HandleAccept
  <2>2. SameConnection /\ Former' = Former /\ (connected' <=> connected)
    BY <1>2, <2>1 DEF SameConnection, Former, Orphans, connected
  <2>3. ASSUME chan.fd # Listener
        PROVE  /\ connected' \/ client'[chan.fd] = "gone"
               /\ Shorter(sock[chan.fd].down, sock'[chan.fd].down)
    BY <1>2, <2>2, <2>3, DueIsSeq, ShorterForms DEF Leftover
  <2> QED
    BY <1>3, <2>1, <2>2, <2>3, NothingAdded
<1>5. CASE backlog # <<>> /\ Accepted < MaxFds
  <2> DEFINE c == Head(backlog)
  <2>1. NewConnection(c) /\ backlog' = Tail(backlog)
    BY <1>5 DEF HandleAccept
  <2>2. /\ c \in Clients /\ c = backlog[1] /\ 1 \in 1..Len(backlog)
        /\ \A j \in 1..Len(backlog') : j + 1 \in 1..Len(backlog) /\ backlog'[j] = backlog[j + 1]
    <3>1. backlog \in Seq(Clients) /\ Len(backlog) \in Nat
      BY <1>1, LenProperties DEF TypeOK
    <3>2. /\ c \in Clients /\ c = backlog[1]
          /\ Len(backlog') = Len(backlog) - 1
          /\ \A j \in 1..Len(backlog') : backlog'[j] = backlog[j + 1]
      BY <1>5, <2>1, <3>1, HeadTailProperties
    <3>3. Len(backlog) # 0
      BY <1>5, <3>1, EmptySeq
    <3> QED
      BY <3>1, <3>2, <3>3
  <2>3. c \notin ep.channel \cup {chan.fd} /\ sock[c].down = <<>> /\ c # Listener
    BY <1>1, <2>2, ListenerAssumption DEF Arriving
  <2> HIDE DEF c
  <2>4. chan'.fd = c /\ connected' /\ ep'.channel \ {c} = ep.channel \ {c}
    <3> DEFINE fresh == NewChannel(c)
               new == enableReading(ep, fresh)
    <3>1. fresh \in Channels /\ fresh.fd = c
      BY <2>2 DEF NewChannel, Channels, Fds, Modes
    <3> HIDE DEF fresh
    <3>2. new.ch.fd = fresh.fd /\ new.ep.channel \ {fresh.fd} = ep.channel \ {fresh.fd}
      BY <3>1, UpdateKeepsOrphans DEF enableReading
    <3>3. ep' = new.ep /\ chan' = new.ch /\ state' = "connected"
      BY <2>1 DEF NewConnection, fresh
    <3> HIDE DEF new
    <3> QED
      BY <3>1, <3>2, <3>3 DEF connected
  <2>5. Orphans' = ep.channel \ {Listener}
    BY <2>3, <2>4 DEF Orphans
  <2>6. chan.fd # Listener => chan.fd \in Former'
    <3>1. chan.fd # Listener => chan.fd \in Clients /\ (connected \/ client[chan.fd] = "gone")
      BY DueIsSeq DEF Leftover
    <3>2. connected => chan.fd \in ep.channel \ {Listener}
      BY <1>1 DEF Registered
    <3> QED
      BY <1>2, <2>5, <3>1, <3>2 DEF Former
  <2>7. Former \subseteq Former'
    BY <1>2, <2>5 DEF Former, Orphans
  <2>8. \A i \in 1..Len(Unwritten) : Unwritten[i][1] \in Former' \ {c}
    <3> SUFFICES ASSUME NEW i \in 1..Len(Unwritten) PROVE Unwritten[i][1] \in Former' \ {c}
      OBVIOUS
    <3>1. Unwritten[i][1] \in Clients /\ Unwritten[i][1] \in Former \cup {chan.fd}
      BY DueIsSeq DEF Leftover
    <3>2. Unwritten[i][1] # c
      BY <2>2 DEF Leftover
    <3>3. Unwritten[i][1] # Listener
      BY <3>1, ListenerAssumption
    <3> QED
      BY <2>6, <2>7, <3>1, <3>2, <3>3
  <2>9. \A i \in 1..Len(Unwritten), j \in 1..Len(backlog') : Unwritten[i][1] # backlog'[j]
    BY <2>2 DEF Leftover
  <2>10. InFront(mine'.down \o Unwritten, c, Former')
    <3>1. mine'.down = <<>>
      BY <1>2, <2>3, <2>4 DEF mine
    <3>2. Unwritten \in Seq(Unit) /\ Len(Unwritten) \in Nat
      BY DueIsSeq
    <3>3. InFront(Unwritten, c, Former')
      BY <2>8, <3>2, InFrontOthers
    <3>4. <<>> \o Unwritten = Unwritten
      BY <3>2, ConcatEmptySeq
    <3> QED
      BY <3>1, <3>3, <3>4
  <2> QED
    BY <1>3, <2>4, <2>8, <2>9, <2>10 DEF Leftover
<1> QED
  BY <1>4, <1>5

-----------------------------------------------------------------------------
(* The invariant.                                                          *)

\* Nothing is due before the first client.
LEMMA InitLeftover == Init => Leftover
<1> SUFFICES ASSUME Init PROVE Leftover
  OBVIOUS
<1>1. Unwritten = <<>> /\ chan.fd = Listener
  BY DEF Init, Unwritten, NewChannel
<1>2. 1..Len(<<>>) = {}
  OBVIOUS
<1> QED
  BY <1>1, <1>2 DEF Leftover

\* Every step keeps it.
LEMMA NextLeftover == IInv /\ IInv' /\ Leftover /\ [Next]_vars => Leftover'
<1> SUFFICES ASSUME IInv, IInv', Leftover, [Next]_vars PROVE Leftover'
  OBVIOUS
<1>1. CASE \/ Wait \/ FollowDangling \/ HandleEvent \/ ReadError \/ ReadEof
           \/ HandleWrite \/ WriteReturns \/ WriteToNobody
  BY <1>1, ServerStepsKeep
<1>2. CASE HandleAccept
  BY <1>2, AcceptKeeps
<1>3. CASE ReadRequest
  BY <1>3, ReadRequestKeeps
<1>4. CASE WriteSome
  BY <1>4, WriteSomeKeeps
<1>5. CASE \E c \in Clients :
             Connect(c) \/ Ask(c) \/ Recv(c) \/ Leave(c) \/ ResetArrives(c)
  BY <1>5, ConnectKeeps, ClientStepsKeep
<1>6. CASE UNCHANGED vars
  <2>1. UNCHANGED <<pc, ep, chan, state, out, msg, nw, backlog, sock, client>>
    BY <1>6 DEF vars, server, others
  <2>2. Unwritten' = Unwritten /\ Former' = Former /\ SameConnection
    BY <2>1 DEF Unwritten, Former, Orphans, SameConnection
  <2>3. ASSUME chan.fd # Listener
        PROVE  /\ connected' \/ client'[chan.fd] = "gone"
               /\ Shorter(sock[chan.fd].down, sock'[chan.fd].down)
    BY <2>1, <2>3, DueIsSeq, ShorterForms DEF Leftover, connected
  <2> QED
    BY <2>1, <2>2, <2>3, NothingAdded
<1> QED
  BY <1>1, <1>2, <1>3, <1>4, <1>5, <1>6 DEF Next, Serve

\* Output that was meant for another client reaches the present one in front
\* of its own answers and never among them, and only from clients that have
\* gone or have been replaced (Acceptor.cc:46, 65, 201-208).
THEOREM LeftoversStayInFront == Spec => []LeftoversInFront
<1>1. Leftover => LeftoversInFront
  BY DEF Leftover, LeftoversInFront, InFront, Former
<1> QED
  BY <1>1, InitLeftover, NextLeftover, Invariance, PTL DEF Spec
=============================================================================
