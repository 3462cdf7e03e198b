# A TLA+ model of Sidis

Sidis (`src/`) is a small Redis-like server in C++: five types of objects in 16
databases, expiry of keys, a dump file, and a single-threaded reactor that
serves clients over TCP. This directory holds TLA+ modules that model it, the
TLC configurations that check them, and proofs that TLAPS checks.

    tlc -workers 2 -config MCKeyspace.cfg MCKeyspace     # a run
    tlapm KeyspaceProofs.tla                             # a proof

Paths below are relative to `src/server/` unless they begin with `src/`.

## 1. Inventory

### Components, their state and their operations

| component | source | state | operations |
|---|---|---|---|
| Database | `db/Database.*` | five dictionaries (string, list, hash, set, zset), five dictionaries of deadlines, five LRU caches | `addKey`, `delKey`, `getKey`, `judgeKeyExpiredTime`, `setPexpireTime`, `rpopList`, `rdbLoad`, sizes |
| Server | `db/Server.*` | 16 databases, the selected one (`dbIndex`), time of the last save | `cmdRequest` and 14 command handlers, `rdbSave` in a forked child |
| Skip list | `db/Skiplist.*` | nodes, levels, spans, a tail | `insertNode`, which `zadd` calls; deletion and ranges, which nothing calls |
| LRU cache | `base/LRUCache.h` | a hash table and a doubly linked list of at most 1000 nodes | `set`, which `addKey` calls; `get`, which nothing calls |
| Buffer | `net/Buffer.*` | a vector, a read and a write index | `append`, `readFd`, `prepend`, `retrieve…` |
| Connection | `net/Acceptor.*` | listening socket, one accepted channel, a state, an input and an output buffer | accept, read, write, close |
| Reactor | `net/EventLoop.*`, `Epoll.*`, `Channel.*` | registered channels, a vector of `epoll_event`, the active channels of this turn | `loop`, `updateChannel`, `removeChannel`, dispatch |
| Sockets | `net/Socket.*`, `InetAddress.*`, `base/Packet.*` | descriptors | wrappers of system calls |
| Client | `src/client/` | a socket | reads a line, sends it, prints what one read returns |

### How they interact

`EventLoop::loop` waits in `Epoll::epoll` and calls `Channel::handleEvent` of
every ready channel. That calls back into `Acceptor`: a readable client is read
into the input `Buffer`, `Server::onMessage` takes all of it as one command
line, runs the handler to its end, and hands the answer to `Acceptor::send`,
which writes it or leaves the rest in the output `Buffer`. Handlers call
`Database` on the selected database. `bgsave` forks; the child writes all the
databases to `dump.rdb` and exits. Starting the server and `select` read the
file back. There is one thread, so what interleaves is: the clock with a
handler, the children with the server and with each other, the end of any
process with everything, and the readiness of several descriptors.

### What is hard, and what makes each part correct

* **Expiry** is lazy: nothing happens at a deadline; a later `set` or `get`
  deletes the key. Correct if a client cannot tell, if a deadline goes when its
  key goes, and if nothing else ever makes an object disappear. The clock moves
  while a handler runs, and `get` reads it twice.
* **The dump** is appended to by children that nobody waits for, may end after any
  of their writes, and is read by a parser that looks for marks instead of counting.
  Correct if what is loaded was once stored, goes to the right database,
  destroys nothing there, and if a save can be loaded.
* **The buffer** moves and grows under data of any size. Correct if it is a
  queue of bytes.
* **Zsets** put ties where random levels lead them, and every level of the skip
  list keeps its own count of what it leads over. Correct if the levels agree,
  and the whole is a sorted list.
* **The caches** hold copies that deletion does not tell them of. Correct if
  table and list agree, what is dropped was used longest ago, and no copy is
  older than the object.
* **The reactor** keeps its registrations in the vector the kernel writes events
  into, and a **connection** is one object for all clients, over sockets that
  block. Correct if a registration is found again, an event never reaches a
  channel that is gone, answers go out in order and once, a client gets its own
  answers only, and one that waits is not forgotten.

`PROJECT.json` lists these hazards line by line, with the properties that watch
them or the reason why none does.

## 2. Modules

    Database ──┬── Keyspace ──(implements)── TtlStore
               │       └── KeyspaceProofs (with DatabaseProofs)
               ├── Rdb ── Persistence
               │       └── PersistenceProofs (with DatabaseProofs and Recursion)
               ├── SortedList ──(implemented by)── Skiplist
               │                   SkiplistProofs (with DatabaseProofs and Recursion)
               └── Caching ── LRUProofs
    LRUCache ──────┘
       └──(implements)── Recency
    Buffer ──(implements)── ByteQueue
       └── BufferProofs
    Epoll ───┬── Connection ──(implements)── AnswerQueue
    Sockets ─┘       └── ConnectionProofs

**Database** (`db/Database.*`, `insertNode` of `db/Skiplist.cc`) has no
variables. A database is a record `[dict, due]`: for each type a total function
from keys to objects (`NoVal` for an absent key), and one to deadlines (-1 for
none, as `getKeyExpiredTime` says). Each member function is an operator from a
database to the database, or the set of databases, it may leave: `AddKey` has
several outcomes because a new zset node may go to several places among equal
scores (`InsertPositions`). The caches are written and never read by the
functions modelled; they are in `Caching`.

**Keyspace** (the handlers of `db/Server.cc`) has the selected database, the
clock, the last answer, and whether the process lives. One action per command.
A command that looks at the clock at most once is atomic; `get` is
two actions, `GetJudge` and `GetFetch`, with ticks in between. Saving, loading
and switching are elsewhere. `rpop` of a list that has become empty calls
`back()` on an empty `std::list`: `RpopEmpty` ends the process. An argument the
client left out is read as the empty text, `Blank`.

**TtlStore** is what the string commands promise: a key lapses at the tick its
deadline passes, seen or unseen. `Keyspace!RefinesTtlStore` states that lazy
deletion implements it, under a mapping that splits the stored strings into
live and lapsed ones. It includes what the code really does with a lapsed key
nobody has met: `pexpire` can bring it back.

**Rdb** is the dump format and both its ends. A dump is a sequence of sections,
blocks and entries instead of a text. `Saves` gives every sequence of writes the
child may make (hash order, and a string that is not emptied between
databases). Of a zset, `Written` has the members with a score above 0 and
`Announced` the number of all. `RdbLoad` gives every database `rdbLoad` may leave:
it keeps what decides the outcome in the code, namely which section is found first,
where the end is thought to be, and where the cursor stands after each kind of
object: after it, inside it (a list of several elements), beyond the next one's
start (a list without elements), or short of what was announced (a zset). In that
last case the code goes through the rest of the file taking marks of other
entries for its own. What it finds is not followed byte by byte: any hashes may get
any texts (`Strewn`), and the loop may read a later entry properly, miss it, end,
or throw (`Lost`).
Three things are parameters because the code leaves them to the build or the file:
`IntMax`, the largest int, the type that `atoi` returns; `Cuts`, the texts that may be
cut out of the wrong bytes; and `ShiftEnds`, whether the
shift in the guard `pos2 << end` (`Database.cc:544`) may yield 0 and end the loop
early; with `TRUE` every turn may be the last. The model of `rdbLoad` was compared
with the compiled function on several thousand random dumps, scores of 0 and below
among them, with `ShiftEnds` both ways: no outcome of the function was missing in it.

**Persistence** puts 16 (here `DBNUM`) databases, `bgsave`, the children,
the file, `select`, crashes and restarts around it. A child is the sequence of
writes it has still to make; `ChildWrite` takes any number of them to the file
(an `ofstream` holds short writes back until it is closed), `ChildDies`
loses the rest. `fork` may fail, which the client is not told. `SelectNowhere`
is `select 0` and `select DBNUM+1`, after which any command but `bgsave` and
`select` is the end of the process (`StrayCommand`). A load that throws is the
end of the process, too. Two history variables, `said` and `given`, which no crash
resets, remember what clients have set and which deadlines they have given.
The other handlers are one step each here.

**Buffer** (`net/Buffer.*`) has the vector and the two indices; `MakeSpace` and
`AppendAt` are `append`, `readFd` is `readv` into the vector and a second
buffer on the stack followed by `append`, `Drop` is what all retrievals share.
The asserts on arguments are guards, being the caller's duty; the asserts inside
`append` set `failed` when they do not hold. **ByteQueue** is a queue of bytes
without a bound, and `Buffer!RefinesByteQueue` that the one implements the other.

**Sockets** is external: the kernel's side of one accepted connection, as the
calls in `base/Packet.cc` meet it. The accepted descriptor comes from a plain
`accept` and blocks, so a write returns when everything is with the kernel, or
when the connection has broken. A client that closes sends a fin, or, if it
has left data unread, a reset; data sent after a fin is answered by a reset. The
first call after a reset fails, the next write raises SIGPIPE.

**Epoll** (`net/Epoll.*`, `Channel.*`) has no state of its own: a poller is a
record, and each function a record operator that also says whether its asserts
have held (`ok`). The point of the module is the vector `events`, which
`updateChannel` appends registrations to and `epoll_wait` fills from its front
(`Polled`), so that an index kept in a channel may come to lead to another
entry. `RemoveChannel` covers the last entry of the vector, which is the one
the code gets right; `ok` is false for any other, and `AssertsHold` says
that none other is ever asked for.

**Connection** (`net/Acceptor.*`, `net/EventLoop.*`) is the server's one process,
its clients and their sockets. `pc` says where the process is: in the loop
between two callbacks, in the read or the write callback of the first event of
`active`, or in a `write` that waits for room (`send` from `sendInLoop`, `flush`
from `handleWrite`). Between its steps clients connect, ask, read one piece of what
has come, and leave, by `quit`, by a signal, or because an assert of
`handleRequest` fails; `Leave` is all of these. `Acceptor` has one
channel, one state and one `outputBuffer`: a client that is accepted while
another is connected takes them over (`NewConnection`), and the `Channel` it
replaces is destroyed while it stays registered (`Orphans`). When such a
pointer is followed, `FollowDangling` ends the process; the other actions give
the other outcome, that the freed memory still works as a channel.
Whichever channel an event is for, the callbacks then work on the present one, as in
the code. `shutdown`, and with it `kDisconnecting`, has no caller and is left out.
What the handlers compute is here an answer of one to `MaxAnswer` units; all
that has arrived when `read` is called is one request.

**AnswerQueue** is what the server's side promises: computed answers reach the
kernel in order, every unit once. `Connection!RefinesAnswerQueue` maps the queue
to what is in the buffer and in the call of `write` that is under way.

**LRUCache** (`base/LRUCache.h`) has the nodes, their `pre` and `next`, and the
table. `set` is `setOld` or `setNew`, the latter with or without `popTail`.
**Recency** is what such a cache promises, a sequence of entries with
the one used last in front. **Caching** puts one dictionary of `Database` beside
the cache: `addKey` stores and gives the cache a copy, which it builds from the old
object by itself (`cached`, `copied`), or for a zset the pointer that is in the
dictionary; `delKey` and `rpop` leave the cache alone. `Recency` allows an entry that
is used any value; that `get` changes none is part of what `CopiesKeepUp` checks. The five pairs do not touch each other, so a behaviour has
one of them.

**Skiplist** (`db/Skiplist.*`) has the nodes with their arrays of levels.
Searches are functions over levels and nodes (`Stops`), `rank` of `insertNode` is
`Ranks`, and `insertNode`, `deleteNode` and `deleteRange` set forwards, spans,
backwards, tail, length and level as the code does. `deleteNode` deletes the
node its search ended at even when it did not unlink it; `usable` becomes
FALSE and the behaviour ends. **SortedList** is the list of members that
`Database` takes a zset for; `zset`, the members along the lowest level, is the
refinement mapping. The loops over levels and nodes are functions defined by
recursion, each over a finite set: `Walk` along one level, `Stops` down the
levels, `Spans` and `Ranks` for the counts, `From` for what a range query collects.

The `MC…` modules give constants small values; the definitions named after a
definition, such as `DelKeyOnly` for `DelKey`, are wrong versions of it. Put in
its place, they break the property `PROJECT.json` lists beside them, which shows
that the property depends on that code.

## 3. Runs

| run | shows |
|---|---|
| `keyspace` | every command, two keys, five types, moving clock: `RefinesTtlStore`; deadlines go with their keys (`ExpireHasKey`); no hash or set ever has one, so listing deletes nothing (`OnlyStringsExpire`); nothing but an expired string disappears (`OnlyExpiredVanish`); zsets are sorted whatever the ties (`ZsetOrdered`) |
| `persistence_strings` | two saves whose children interleave and may be killed, two selects, a crash, `pexpire` at any time: a string is only found under a key it was set under (`StringsWereSet`); a deadline is one that was given to that key, never one made of what was read (`DeadlinesWereGiven`); only the selected database changes (`OnlySelectedChanges`) |
| `persistence_objects` | the other four types, with scores of 0 and 1: a dump whose lists and sets have one element each and whose zsets are complete is always loadable, whichever whole writes have reached it (`SimpleDumpsLoad`); a `select` loses nothing of the database it loads over (`SelectKeeps`) |
| `buffer` | every sequence of operations on a few bytes: a queue (`RefinesByteQueue`), its asserts hold (`AssertsHold`), emptied means reset (`EmptyIsReset`), growth only when moving is not enough (`GrowthIsNeeded`) |
| `connection` | two clients that come, ask, read and go as they like: the asserts of `Epoll.cc` hold although the vector is written over, that of `handleClose` unless a client has been replaced (`AssertsHold`); `epoll_wait` never fills the vector after its first turn (`DoublesOnce`); answers reach the kernel in order and once (`RefinesAnswerQueue`); a client that waits has something coming (`NeverStranded`); what it gets of others lies in front of its own (`LeftoversInFront`). Under fairness, requests are answered (`RequestsAnswered`), and the channel of a client that left goes (`DeparturesNoticed`) |
| `caching` | a dictionary of strings, of lists or of zsets and its cache, three keys for two places: list and table agree (`Consistent`), what is dropped was used longest ago (`RefinesRecency`), no copy is older than its object (`CopiesKeepUp`) |
| `skiplist` | insertions, deletions and range deletions with ties: a sorted list (`RefinesSortedList`); levels and spans agree (`SpansCount`); backwards is forwards reversed (`BackwardMirrors`); ranges are right (`RangesFound`); a member is found unless another has its score (`SoleScoresFound`) |
| `expired_stays_gone` | violated: `pexpire` revives an expired key (`README.md:19`, lazy deletion) |
| `restored_strings` | violated: after three saves a restart restores the first (`README.md:18`, RDB) |
| `restored_deadlines` | violated: a deadline that lies ahead is lost by a restart (`README.md:18`) |
| `zero_scores` | violated: after a `zadd` with score 0 and a save the server cannot start (`README.md:18`; `Server.cc:352-358`) |
| `own_answers_only` | violated, with clients that come one after the other: output a client did not take is sent to the next one (`Acceptor.cc:197`, "is down, no more writing") |

Deadlock is checked in `caching`, where something can always be done. The other runs
end where their bounds do: the clock, the number of objects, of requests or of
nodes run out, the process may die, and a server without clients waits.

### Fairness

Only `connection` assumes any. `WF(Serve)`: one thread that does nothing but
serve; `epoll_wait` returns when something is ready, a callback goes on to its end,
and a `write` that waits is woken by the kernel when there is room. (The
kernel decides which: `Serve` is not enabled in a write that waits.)
`WF(Recv(c))`: a client that waits is in `read`, which returns when there is data.
`WF(ResetArrives(c))`: TCP delivers a reset. Nobody has to connect, ask or
leave, and a client at its prompt may stay there for ever, with an answer
unread. That is why `RequestsAnswered` has the alternative `<>[]HeldUp(c)`: the server
may hang in a write to somebody else for ever, since the socket blocks. It
claims nothing once a client has been replaced, whose channel nobody serves any
more, or once the process has ended.

### Bounds, and why they are enough

* `keyspace`: two keys, so that a command can hit the wrong one; two texts, one
  of them blank; two scores; three objects or elements at a time, so that a zset has
  at most two members, which tie or are put in front or behind. (A member between two
  others is left to `skiplist` and to the proof.) Two ticks and deadlines -1 and +1:
  ahead, in the past, and negative, which the code takes for none. Keys are symmetric.
* `persistence_*`: two databases are the least for a section to run on into
  another and for the repeated prefix in the child's writes; an int of 3 bits
  and a clock that starts beyond it, as the time of day in ms does; two saves and two children, so that one appends to the middle
  of the other's writes; one kill or crash. The string run has two keys and one
  text (a text under the wrong key, or another text, is the question) and two selects, so
  that a database can be selected, saved, and loaded again after a restart. Its clock stands
  still, and its deadlines lie ahead; of them `atoi` leaves a positive number, which only a
  comparison with the clock keeps from being taken for a deadline. The object run has one
  key, scores 0 and 1, and lists and sets of up to three elements, since two is the length at
  which the loader goes wrong and three the one at which it goes wrong
  differently from its first element. A third save is used where it is needed, in
  `restored_strings`: of two sections of a database the loop reads the first and then the
  first block of the second, which holds the newer strings; of a third it reads nothing.
  The runs that expect a violation set `ShiftEnds` to `FALSE`, so that none
  rests on what the shift yields.
* `buffer`: two bytes, chunks of zero to three, room for one prepended byte, an
  initial size of two and two bytes on the stack: the vector moves, grows and
  overflows to the stack within three operations. Nothing is added beyond seven.
* `connection`: two clients, one that is replaced or has left something behind
  and one that comes after it; three registrations then share the vector. An
  answer has one or two units and the socket room for one, so that an answer is
  cut, waits, and is broken off between its units; two requests each, so that
  one can come before the answer to the other has been read. There are as many
  descriptors as clients: with fewer, only the refusal to accept is added,
  which the proofs, for any number of both, cover.
* `caching`: three keys for a cache of two, so that one is always dropped and the
  last node, the first and one that is both can be the one that is used; one address
  to spare. Strings are replaced and deleted, lists grow and shrink, zsets grow in any
  place. Hashes and sets are left to the proof, since TLC cannot compare a function on
  texts with a sequence; a set differs from a hash only in having no values.
* `skiplist`: four nodes of one or two levels with two scores: ties, the same
  member twice, a node above and below every other. The code treats each level
  with the one above it only. Ranges are open and closed at both ends, and one is empty.

### What the rest of the code does to these results

Keys and texts hold none of the marks (`SD`, `EOF`, `^`, `!`, …) the loader looks
for; nothing is claimed of a dump with such texts. A write reaches the file as a
whole or not at all: a child killed in the middle of one, which leaves a section
without its end, is not modelled.
Memory is unbounded, and files do not fail. A request is one
`write` of the client's line of at most 1023 bytes, and TCP may join requests
but does not split one.

### Disagreements without a run of their own

Met while modelling, and visible in the models; the reading of the code leaves nothing
for a run to find out:

* Sockets are said to be non-blocking (`src/README.md:10`); `setnonblocking` has
  no caller and `accept` passes no flag (`base/Packet.cc:26-33`). `HeldUp` is the
  consequence.
* Memory is said to be managed by smart pointers (`src/README.md:15`); `epoll` keeps
  a plain pointer to the `Channel` that `setChannel` replaces (`net/Acceptor.cc:92`).
  `FollowDangling` is the consequence.
* Least-recently-used eviction is said to limit memory (`src/README.md:14`); only the caches
  are cut (`base/LRUCache.h:67`), not the dictionaries.
* Sorted sets are offered (`src/README.md:2`), but a member added twice is in the zset twice:
  `insertNode` always inserts (`db/Skiplist.cc:60`).
* A saved zset comes back as a hash of its members, with their scores as texts: `rdbLoad`'s
  block for zsets calls `addKey(dbObject::dbHash, ...)` (`db/Database.cc:693`).
* Databases are said to be kept apart (`src/README.md:17`); the loop of `rdbLoad` reads the
  first block behind the section it looked for as well (`db/Database.cc:541-544`), and puts
  what another database holds into the one selected (`past` in `Turn`).
* A list or set of several elements is read back with its last element empty
  (`ReadItems`; the searches of `db/Database.cc:587-596` stop one mark too early), and a
  `select` over a database that is in use adds the elements of its lists once more.
* `deleteNode` deletes a node it has not unlinked when its search ends elsewhere
  (`db/Skiplist.cc:125`, `149`), which ties make possible for a member that is there.

## 4. Proofs

`KeyspaceProofs`, `PersistenceProofs` and `SkiplistProofs` (all on lemmas of `DatabaseProofs`),
`BufferProofs`, `ConnectionProofs` and `LRUProofs` (`LRUCache` and `Caching`) prove for all
values of the constants, from the named assumptions in the modules, all the safety properties
and all the refinements that the passing runs check on an instance.

* **Keyspace.** The properties are not inductive one by one: `delKey` and `getKey`
  keep zsets sorted, and deadlines with their keys, only on databases whose
  parts have their types. The invariant is `IInv == TypeOK /\ Sound(db)`, with
  `Sound` the conjunction of the type of a database and the three invariants, as
  a predicate on one database. Every operator of `Database` is first shown to
  preserve `Sound`; a step of `Next` then only says which operator it applies.
  `NothingElseVanishes` (an action property) uses the same invariant, and in
  particular that only strings have deadlines. `KeyspaceRefinesTtlStore` goes
  action by action: a `get` maps to one abstract `Get` at the step that answers
  it, a `tick` to the tick that lapses keys.
* **Buffer.** `IInv` adds to the checked invariants that the vector reaches as
  far as `KCheapPrepend` (`PlaceForReset`), without which resetting the indices
  could put them outside it. The work is in four lemmas about `Window`, what
  lies between the indices: copying behind it lengthens it, making the vector
  longer keeps it, moving it to the front keeps it, and dropping shortens it.
  That the two asserts of `append` hold, and that the bounds in its two `if`s are
  the right ones, is `MakeSpaceEffect`.
* **Connection.** The checked invariants do not say why a registration is found
  again. `IInv` does: while connected, the channel's entry is the last of the vector
  (`Registered`), and the vector has more entries than there are channels
  (`HasRoom`), so that events never reach it. `Turn` says what the events of a turn
  may still be for, `Placed` ties `pc` to the event that is handled and `isWriting` to
  what is in `outputBuffer`, and `Owed` sharpens `NeverStranded` to what each
  part of a write keeps. From it follow that the asserts of `Epoll.cc`
  cannot fail (`AssertsAlwaysHold`), that the vector is doubled at most once
  (`VectorDoublesOnce`), that a waiting client has something coming
  (`NobodyStranded`), and that every step maps to a put, a take or nothing
  (`ImplementsAnswerQueue`).
* **LRUCache** and **Caching.** `Consistent` says that some order of the nodes is the list,
  and nothing of where a node stands. `IInv` names the order (`Chain`), and the lemmas say what
  each operation makes of it: `addNode` puts a node in front (`AddChain`), `removeNode` drops
  one wherever it stands (`UnlinkChain`), the two together are `moveToHead`. A list has one order
  only (`ChainUnique`, by the least place at which two would differ), so the refinement
  mapping, which chooses one, chooses that. The table has as many keys as there are nodes
  (`SizeIsNodes`), so comparing its size with the capacity cuts the list where `Recency` does.
  Its second part shows that the dictionary uses the cache as `LRUCache` allows; that what `addKey`
  builds for the cache is, for each of the five types, what it stores (`CopyIsObject`); and adds to
  `CopiesKeepUp` that copies of lists are lists, which prefixes need.

* **Leftovers** (in `ConnectionProofs`). `LeftoversInFront` speaks of the present client alone, and
  says nothing of what the next one will find. `Leftover` adds that no unit that is still unwritten
  is for a client in the backlog, and that a connection is closed only when its client has
  gone. Then the client accepted next finds nothing but units of others, all of clients that
  have gone or become orphans at that very step (`AcceptKeeps`). The other steps put the
  present client's units at the end (`ReadRequestKeeps`), move units from one of the two parts to
  the other (`WriteSomeKeeps`), or take a front off (`NothingAdded`).
* **Persistence.** What the runs check of `database` alone is not inductive: a dump comes
  back. `IInv` therefore says the same of everything strings can come from. Every database is
  in `Databases(said)`: its parts have their types, no hash and no zset is empty, and every
  string is under a key a client has set it under. Every section of the dump is in `Sections(said)`,
  the sections and blocks that a save can make of such databases, never without blocks or entries,
  and so is every section a child has still to write. `DeadlinesWereGiven` is the last conjunct;
  it needs only `ClockAssumption`, that the time of day does not fit an int: what `atoi`
  leaves of a deadline is then never ahead, and never handed to `setPexpireTime`. `said` grows, and
  all these sets grow with it (`SectionsMonotone`, `ChunksMonotone`, `ChildrenMonotone`).
  What is left to show is that a save of databases makes sections (`SavesAreChunks`, loop by
  loop: `WrittenAreItems`, `SavedBlocksAreBlocks`, …) and that a load makes a database again.
  `rdbLoad` is four loops, one in the other. Each is a function over the turns of the loop,
  whose values are sets of states the turn may leave, and one lemma for each says: if every
  turn leads from states of a set into it, the loop ends in it. For the strings and for
  `LoadsOnlyAdd` this set is `Loaded(V, old)`, the databases whose strings are in `V` and which
  have lost nothing of `old`, and fields put together from the wrong bytes (`StrewnLoaded`) leave it as it is;
  for `SimpleDumpsCanBeLoaded` it is the states in which the cursor
  stands after an entry whose list or set has one element and whose zset is complete, with the loop going on only while there is a block
  left. `LoadsOnlyAdd` is thus proved from what a load does, `OnlySelectedChanges`
  (`OthersOutOfReach`) only from where it puts what it makes.
  `FinitelyMany` (keys and texts are finite) is there because a hash table is written in
  some order of its keys: an infinite one has none. `MaxTimeAssumption` says that the bound on
  the clock does not lie before its start.
* **Skiplist.** The checked properties follow links from the head and say what is found. None of
  them is inductive, because a walk cannot be followed across a step that changes the links it
  goes over. `IInv` therefore says that the list can be numbered: `s` names the node at every place,
  `P` the place of every node (head and Null have one, too), and `h` how many levels lead through
  it (`InPlace`, `Typed`). The other parts then say of each link what it is, without a walk: level
  `i` leads from a node to the next place that has `i` levels, and its span is the difference of the places
  (`Leveled`); backward pointers lead one place back (`Mirrored`), scores ascend with the places
  (`Ascends`), and the top level is not empty (`TopUsed`). The height is not the length of the array
  of levels: `insertNode` makes a node with as many as the list has, and the upper ones may stay unused.
  A level of a search ends at a node that it may pass in front of one that it may not (`StopsAt`). Whatever the
  search passes, each level so ends at its last node before, or at, the place where the lowest
  ends (`Straddles`), also among ties, and that is all that inserting and unlinking need.
  `rank[0] - rank[i]` is a difference of places (`RanksArePlaces`). Inserting shifts the places
  behind the new node by one, and a lemma for each part of `IInv` says that it survives the
  shift (`InsertInPlace`, `InsertLeveled`, …); unlinking shifts them back (`UnlinkedInPlace`, …),
  and the levels that become empty go. `deleteRange` unlinks many nodes after one search: by
  induction over the turns of its loop, after each the search still straddles the place behind which the
  next node stands (`GoesWithout`). What `From` collects along the lowest level is `s` (`OrderIs`),
  which turns `IInv` into the properties checked and into `zset` (`MappedNow`). With it an insertion is one
  of `SortedList`, at one of `InsertPositions` even among ties, and a deletion, or that
  of a range, is one (`InsertInserts`, `DeleteDeletes`, `DeleteRangeDeletes`). Assumed is
  that addresses are finitely many and differ from the head and the null pointer, that there is a level, and
  that scores and the bounds of ranges are integers; nothing is assumed of how heights are drawn.
* **Recursion** holds what stands in for the induction theorems of the library, which take an
  operator as a parameter that the installed provers cannot instantiate: a set of numbers
  that has the first and with each number the next has all (`SetInduction`, from the least
  number that is missing), and for every first value and sequence of steps, given as
  functions, the function that the recursion `f[n] == IF n = m THEN a ELSE step[n][f[n - 1]]`
  defines exists (`RecursiveFunction`). So does the function that asks for its value at `next[x]`, where
  `next` leads down a rank (`DescendingFunction`): a walk along a level is one.

Only model-checked: `RequestsAnswered` and `DeparturesNoticed` are liveness under
fairness and stay with TLC. So do the five runs that expect a violation.

## 5. Not modelled, and the plan

Not modelled: the test programs, the wording of requests and answers, addresses, socket
options and error messages; `shutdown` and the `kDisconnecting` state, destructors,
and `setquit`, which have no caller while the server runs; `getRank` and
`getLastInRange` of the skip list, which change nothing and have no caller (the one counts
its level upwards out of the array, the other stops in front of the first node).

What is left, in the order of its worth:

1. The handlers are in `Keyspace` with the clock moving in them and in `Persistence` as one
   step each, over the same operators of `Database`. That a step of the one is a step of the
   other, while no child, crash or load is involved, is not stated.
2. A larger `connection`: a third client, which takes the run past its time.
