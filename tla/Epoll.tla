------------------------------- MODULE Epoll -------------------------------
(***************************************************************************)
(* The poller of the reactor (server/net/Epoll.{h,cc}) and the Channel it  *)
(* keeps for a descriptor (server/net/Channel.{h,cc}).  No state of its    *)
(* own: a poller is a record                                               *)
(*   events    the vector of epoll_event.  It is the list of registrations *)
(*             that updateChannel appends to, and also the array that      *)
(*             epoll_wait fills from its front: after a wait the first     *)
(*             entries are whatever was ready                              *)
(*   channel   the keys of the map from descriptors to Channels, which are *)
(*             the descriptors the kernel watches, too                     *)
(*   interest  what the kernel watches each of them for                    *)
(* and a Channel is a record [fd, mask, index].  A Channel and the pointer *)
(* to it are named by its descriptor: the server closes none, so none is   *)
(* used twice.  Indices count from 0.                                      *)
(***************************************************************************)
EXTENDS Integers, Sequences, FiniteSets

CONSTANTS
  Listener,     \* the listening socket
  Clients,      \* accepted sockets, each named by the client behind it
  Null          \* no pointer

ASSUME ListenerAssumption == Listener \notin Clients
ASSUME NullAssumption == Null \notin Clients \cup {Listener}

Fds == Clients \cup {Listener}

Modes == {"in", "out"}

Slots == [ptr : Fds \cup {Null}, mask : SUBSET Modes]

NoSlot == [ptr |-> Null, mask |-> {}]

Pollers == [events : Seq(Slots), channel : SUBSET Fds, interest : [Fds -> SUBSET Modes]]

Channels == [fd : Fds, mask : SUBSET Modes, index : Int]

NewChannel(fd) == [fd |-> fd, mask |-> {}, index |-> -1]

EmptyPoller == [events |-> <<>>, channel |-> {}, interest |-> [fd \in Fds |-> {}]]

-----------------------------------------------------------------------------
(* Registration.  The results say whether every assert has held.           *)

\* Mutant of Added: the index is one too high.
AddedPastEnd(ep, ch) ==
  [ok |-> TRUE,
   ep |-> [events   |-> Append(ep.events, [ptr |-> ch.fd, mask |-> ch.mask]),
           channel  |-> ep.channel \cup {ch.fd},
           interest |-> [ep.interest EXCEPT ![ch.fd] = ch.mask]],
   ch |-> [ch EXCEPT !.index = Len(ep.events) + 1]]

Added(ep, ch) ==
  [ok |-> TRUE,
   ep |-> [events   |-> Append(ep.events, [ptr |-> ch.fd, mask |-> ch.mask]),
           channel  |-> ep.channel \cup {ch.fd},
           interest |-> [ep.interest EXCEPT ![ch.fd] = ch.mask]],
   ch |-> [ch EXCEPT !.index = Len(ep.events)]]

\* The entry found at the channel's index must still be the channel's own.
OwnSlot(ep, ch) ==
  /\ ch.fd \in ep.channel
  /\ ch.index \in 0..Len(ep.events) - 1
  /\ ep.events[ch.index + 1].ptr = ch.fd

Modified(ep, ch) ==
  [ok |-> OwnSlot(ep, ch),
   ep |-> [events   |-> [i \in 1..Len(ep.events) |->
                           IF i = ch.index + 1 THEN [ptr |-> ch.fd, mask |-> ch.mask]
                                               ELSE ep.events[i]],
           channel  |-> ep.channel,
           interest |-> [ep.interest EXCEPT ![ch.fd] = ch.mask]],
   ch |-> ch]

UpdateChannel(ep, ch) == IF ch.index < 0 THEN Added(ep, ch) ELSE Modified(ep, ch)

\* The members of Channel that change what it waits for.
enableReading(ep, ch) == UpdateChannel(ep, [ch EXCEPT !.mask = @ \cup {"in"}])

enableWriting(ep, ch) == UpdateChannel(ep, [ch EXCEPT !.mask = @ \cup {"out"}])

disableWriting(ep, ch) == UpdateChannel(ep, [ch EXCEPT !.mask = @ \ {"out"}])

disableAll(ep, ch) == UpdateChannel(ep, [ch EXCEPT !.mask = {}])

\* An entry that is not the last would be swapped with it, and the code then
\* takes half of the pointer in the last entry for a descriptor: it finds no
\* channel, and writes to a null pointer.
RemoveChannel(ep, ch) ==
  [ok |-> /\ ch.fd \in ep.channel
          /\ ch.mask = {}
          /\ ch.index = Len(ep.events) - 1
          /\ ep.events[ch.index + 1].mask = ch.mask,
   ep |-> [events   |-> SubSeq(ep.events, 1, Len(ep.events) - 1),
           channel  |-> ep.channel \ {ch.fd},
           interest |-> [ep.interest EXCEPT ![ch.fd] = {}]]]

-----------------------------------------------------------------------------
(* Waiting.                                                                *)

\* Mutant of Polled: the vector is made longer by what it has reported.
PolledLonger(ep, got) ==
  [ep EXCEPT !.events = got \o SubSeq(@, Len(got) + 1, Len(@))
                        \o [i \in 1..Len(got) |-> NoSlot]]

\* epoll_wait overwrites the front of the vector; a full one is doubled.
Polled(ep, got) ==
  LET filled == got \o SubSeq(ep.events, Len(got) + 1, Len(ep.events))
  IN [ep EXCEPT !.events = IF Len(got) = Len(ep.events)
                             THEN filled \o [i \in 1..Len(ep.events) |-> NoSlot]
                             ELSE filled]
=============================================================================
