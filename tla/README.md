# Formal models of bis, the sorted-set service of lib_c

`src/` is a collection of a C++ programmer's libraries and one larger program,
`bis/src`: a service that stores scored members under keys and answers rank and
range queries. A **client** talks TCP to a **proxy**, which chooses a **server**
by a hash of the key and forwards the request over a message queue; the server
keeps a skip list per key and saves everything to a file.

This directory models that program in TLA+, checks the models with TLC and
proves theorems about them with TLAPS: the skip list, the sorted set built on it
and the answers made from it, the protocol by which the server keeps its data on
disk and the codec of its file, one connection of the proxy byte by byte, the way
of a request from clients through proxy and queues to servers and back, and the
containers that stand beside the service. The rest of this file is the
inventory, what the modules say, what the runs and proofs show, and what is left
out.

## Inventory

The server is one thread, `ApplicationBase::Run`: take up to ten messages, tick
when the tick timer has expired, go idle after `idle_count_` rounds without a
message. Its only concurrency is with the processes it forks and with other
servers started on the same files. The proxy is one thread around an epoll loop;
concurrency reaches it as the order of socket events and queue messages.

| component | state | operations | hard behaviour | what makes it correct |
|---|---|---|---|---|
| skip list `server/skiplist.h` | nodes with links, spans, backward; `tail_`, `lenth_`, `level_` | `Insert`, `Delete`, rank, index and score queries | spans of many levels kept by differences; equal scores | one chain per level, nested; spans are distances; queries agree with the order |
| sorted set `server/sort_set.*` | `dict` and a skip list | `Insert`, `Update`, `DelMem`, queries | two structures changed one after the other, results ignored | dictionary and list agree |
| database `server/db.*` | `db_dict`, a file | `Insert`, queries, `SaveToFile`, `BgSaveDb`, `CheckDbFileAndLoad` | fork, failing calls, kills, two writers of one file | the file is a whole snapshot; what is saved stays |
| file codec `server/sldb.*` | `FILE*`, position | `SaveObj`, `LoadObj`, `SaveLen`, `LoadLen` | truncated or damaged records, reading out of step | what is written is read back |
| server `server/server.*` | `transApp`, `uiLastSaveTime`, `chilld_pid` | six request handlers, `OnInit`, `OnIdle`, `OnTick`, `OnExit` | child that ends unnoticed, save at exit | each request gets its answer; idle data reach the disk |
| framework `server/include/application_base.*` | `is_exit_`, `is_reload_`, pid file | `Init`, `Run`, signal handlers | second start, signals, starved idle | callbacks run in order |
| server queue `server/mq_mgr.*` | connection per proxy address | `SendMsg`, `RecvMsgs` | lossy non-blocking send | reply goes to the asking proxy |
| ring queue `server/include/ring_queue.h` | `data_`, `front_`, `rear_`, `size_` | `push`, `pop`, index | `max_size_ = Size + 1` against `data_[Size]` | indexes within the array |
| proxy server `proxy/server.*` | `objTaskMap`, `iPosCnt` | `AcceptTask`, `HldAllEvs`, `OnMqRecv`, `RemoveTask` | counter wrap, early returns in the accept loop, late replies | a reply reaches the client that asked |
| task, command, epoll `proxy/task.*`, `cmd.*`, `cepoll.*` | receive buffer, send queue, registered events | read, parse, forward, respond, flush | edge-triggered events, full buffer, partial writes | every complete command is forwarded, every response drained |
| sharding `proxy/mq_mgr.*` | push sockets | `GetIndex`, `SendMsg` | division of buckets among servers | one key, one server |
| client `client/*` | socket | connect, send, one read | a response in two segments | request and response pair up |
| binary tree `binary_tree/binary_tree.h` | nodes with parent links | `Insert`, `Delete`, `Search` | equal data, successor moved up | the walk is the contents, sorted |
| red-black tree `rb_tree/src/rb_tree.h` | nodes, sentinel, colours | `Insert`, `Search` | recolouring and rotations up to the root | red-black after every insertion |
| hash table `hash_map/hash_table.h` | buckets, chains | `hset`, `hget`, `Resize` | growth without rehashing | no value but the latest |
| list `list/list.h` | ring around `nil` | `push`, `del`, `search` | freed and reused nodes | the same ring both ways |
| timer heap, older skip list `skiplist/`, `mmap/` | | | no callers; `mmap` is a program of a few lines | |

`PROJECT.json` lists every component with its status, and under `hazards` the
places in the code where these behaviours bite.

Components interact as follows. `Server::ProcessDbSet` calls `db::Insert`, which
calls `sort_set::Update`, which changes `dict` and the skip list. `Server::OnIdle`
calls `db::BgSaveDb`, which forks a child that runs `db::SaveToFile` through
`sldb`; `Server::OnTick` looks for the child's end; `Server::OnExit` calls
`SaveToFile` in the server itself; `Server::OnInit` calls `CheckDbFileAndLoad`.
The proxy's `AcceptTask` gives a connection a position, `Task::DoCmd` puts it
into the message `mq_mgr::SendMsg` sends to the server of the key,
`Server::Respone` copies it into the reply, and `Server::OnMqRecv` of the proxy
looks the task up by it. A client's only state towards all that is its socket
and `check_connect_`.

## Modules

| module | models | how |
|---|---|---|
| `ScoredList` | the promise of the skip list | a sequence of (score, member), insertion behind equal scores, deletion that may miss a member only if its score is shared |
| `SkipList` | `skiplist.h` | a heap of nodes; operators on lists, actions on the variable `sl` |
| `SkipListProperties` | | the invariants of the heap, used by `MCSkipList` and `MCTableFile`, and the refinement of `ScoredList` |
| `MCSkipList` | | instance |
| `SkipListProofs` | | theorems about `SkipList`: the layout of the heap, the queries, the refinement |
| `SortSet` | `sort_set.cpp` | EXTENDS `SkipList`, adds `dict`; every operation changes both |
| `Persistence` | `db::SaveToFile`, `BgSaveDb`, `CheckDbFileAndLoad`, `OnInit`, `OnIdle`, `OnTick`, `OnExit` | processes that save one system call at a time |
| `MCPersistence` | | instances |
| `PersistenceProofs` | | theorems about `Persistence` |
| `TableFile` | the loops over a table in `db::SaveToFile` and `CheckDbFileAndLoad`, `db::Insert`, `db::DelMem` | EXTENDS `SortSet`; a table, the records of its file, the entries still to load, and history variables for shared scores |
| `Requests` | the request handlers of `server.cpp` with the queries of `db.cpp` | EXTENDS `TableFile`; an operator from request to answer for each handler that only reads, and what the answers promise |
| `MCTableFile` | | instances of `TableFile` and `Requests`; evaluates the statements about `Sldb` |
| `TableFileProofs` | | theorems about `SortSet`, `TableFile` and `Requests` |
| `Sldb` | `sldb.cpp`, `bs_db.proto` | lengths and raw strings as functions on sequences of bytes |
| `SldbProofs` | | theorems about `Sldb` |
| `Task` | `proxy/task.cpp`, `Cmd::Parse`, `cepoll.cpp`, the loop of `proxy/server.cpp` as one task sees it | one connection: client, kernel and loop, streams as byte counts |
| `MCTask` | | instances |
| `TaskProofs` | | theorems about `Task` |
| `Service` | `client/main.cpp`, `tcp_client.cpp`, `proxy/server.cpp`, `task.cpp`, both `mq_mgr.cpp`, the dispatch of `server.cpp` | clients, proxy, queues and servers composed, with messages for bytes |
| `MCService` | | instance |
| `ServiceProofs` | | theorems about `Service`: types, positions, delivery, the backlog, what the clients get |
| `BinaryTree`, `RbTree`, `HashTable`, `List`, `RingQueue` | the headers of those names | one specification each |
| `SearchTree` | the loops `binary_tree.h` and `rb_tree.h` have in common | the ways down a tree, as recursive functions on its nodes |
| `Trees` | | the two trees, and what each promises |
| `TreeProofs` | | theorems about the two |
| `Containers` | | the hash table, the list and the queue, and what each promises |
| `ContainerProofs` | | theorems about the three |
| `MCContainers` | | an instance of the three and the two trees, side by side |

**SkipList.** A list is a value `[node, tail, lenth, level]`; `node` is a function
from the allocated addresses to node records, so a freed or dangling address is
one outside its domain. All operations of the code share one loop nest (from the
head, follow a level while a test holds of the next node, go down a level);
`Descend` is that nest, and gives for each level the node and the sum of spans
where the walk leaves it, which is the code's `update[]` and `ranks[]`. The test
is its parameter, as the set of spots (a node and the spans crossed until it)
from which the walk goes on; `Onto` is the test that only looks at the next node. The random level and the allocated address are chosen
nondeterministically, so that every shape a list can take is reached. `lenth`
counts up in `DeleteNode`, as the code does. Where the code would dereference the
`tail_` of an empty list, the query gives `SEGV`.

**SortSet.** `Update` deletes and inserts in one step, as the single thread does;
the result of `Delete` is ignored as in the code. `Insert_` is the variant the
loader uses.

**Persistence.** The tables are abstracted to the set of acknowledged writes: a
snapshot is the set a process had in memory when it was forked (or when it began
to exit). A snapshot reaches the file in `NChunks` pieces, standing for the TABLE
and KEY records; write `w` is in piece `Slot[w]`. `content[f][c]` names the
process whose piece `c` is in file `f`. A file is distinct from its name: `tmp`
and `db` are the files currently called `db_file_.tmp` and `db_file_`, `fd[p]`
the file process `p` has open, so that a file truncated, renamed or unlinked by
another process stays what the kernel makes of it. Each process goes through
`SaveToFile` by the actions `OpenTmp`, `WriteRecords`, `Sync`, `Rename` and their
failing variants; `Kill` ends any process anywhere. A TABLE or KEY record that
cannot be written, or only in part, is logged and the save goes on, as in the code,
and the history variable `dropped` remembers it. The history variable `raced` remembers that a server
stopped or started while a child was saving.

**TableFile.** A save writes the entries of the list in its order, in records of
`GROUP` (50) entries. The code goes on after a record that failed, so any record
may be missing from the file; and `SaveObj` writes type, length and bytes of a
record one after the other, so that it may also be there in part (`Files`). Of a
file the model keeps the KEY records that were written whole, how many of them
come before the first record in part (`intact`), and whether there is one
(`torn`), in this table or another. `Restart` begins from an empty sorted set;
`LoadEntry` is `sort_set::Insert` for the next entry read in step, so the
dictionary comes back from the list. Behind a record in part the loader takes any
bytes for a type, a length and a message: `Astray` gives the table any entries,
until the file ends or a type is none (`AstrayDone`). That a length read there is
too large for `new` and ends the server is left out; `Restart` may follow anyway. The fork gives the child the table of one moment, so that a save is one
step here; how the file gets its name, and what a second writer does to it, is
in `Persistence`. The history variables `tied` and `keptTied` remember that two
members of the table in memory, or of the one in the file, have shared a score:
from then on `Delete` may miss its node. No handler calls `db::DelMem`; it is an action all the same,
because it leaves states nothing else does: a table without nodes, of which a
save dies, and a deleted member that its forgotten node brings back.

**Requests.** The server has one thread, so a request is answered in one state,
and a handler that only reads is an operator on the state of `TableFile`:
whatever is said of its answer is said of every state a request can meet. The
batch in a request is a loop of the same query. Items carry rank, score and
member; texts are left out but for the one that stands in for a missing member.
`ProcessDbSet` is `DbInsert`, once per entry. Ranks are `unsigned long long`, so
numbers below `RankMod` (2^64), and `max - min + 1` is counted modulo `RankMod`:
the range from 0 to the largest rank, which a client asks for with `0 -1`
(`client/main.cpp` reads ranks with `stoull`), counts 0 items and is answered
with none. `RequestsAnswered` says so.

**Sldb.** A file is the sequence of the bytes not read yet. The theorems are about
every length and every string, and about every file that begins with one or ends
within one; `CodecReadsBack` in `MCTableFile` evaluates the same two statements
where an encoding ends and the next begins.

**Task.** A stream is the number of bytes that passed each point: `sent` by the
client, `rcvd` into `objRecvBuff_`, and, through `done`, what `HandleCmdMsg` took
out of it. What the client sends is a script: the declared lengths of its
commands, the places they begin, and the length of the whole. A response is a
length; `queued` is what `objSendQueue_` holds, `room` what the socket would
still take. Events are edge-triggered: `ready` says that something the task asked
for happened since `epoll_wait` last returned it, and `epoll_wait` returns what
is true of the socket by then. `pc` walks through `HldAllEvs` for this task and
the rest of the loop. `RecvMsgs` may also happen before the task's own events are
handled, on behalf of tasks before it in the array; every message is handled in a
step of its own, between which the client and the servers act. `Response` is two
steps, the write and `EpollMod`, because the socket may change in between.
`ev.events` is uninitialised in `EpollAdd` and `EpollMod`, so any subset of
`Garbage` comes along; a build is one choice of these bits. With EPOLLEXCLUSIVE
among them the kernel would refuse the call, which is left out.

**Service.** A connection is a pair of a client and a number, since a client that
reconnects has closed the one before. `Task` is about the bytes of one
connection; here a request is read whole, and an answer arrives as two pieces,
`first` and `last`, of which one `read` may bring one. What the client makes of
a part depends on where it was cut, so it is a choice (`PART`, or an error).
`net` is the proxy's side of a connection: in the backlog, served, leaked by a
failed call, closed; `epos` the position its descriptor was registered with, and
`objTaskMap` the map from positions to tasks. A terminated task may stay in the
map, as in the code, until its position comes round. `AcceptTask` is a loop of
steps between which clients connect, with the failing calls as actions of their
own. Each server has a queue to it and one from it, of `Cap` messages, and a
full one drops what is sent. A server's data are the sets it has applied, and an
answer to a get shows those of its key; `Persistence` is about how much of them a
restart brings back, here all of it (`Loaded`), so what `Service` says of
acknowledged writes assumes that servers stop with a good save. `ServerRestart`
and `ProxyRestart` lose any part of what is under way at their end of a queue; a
new proxy counts positions from 0 and gets what the servers still have for the
old one. The history variable `mixed` remembers that a position was given while a
message bore it, which then reaches a stranger; `split` the connections on which
an answer was read in part; `cli[c].must` the sets of the key that were
acknowledged when a get was sent.

**Containers.** Each is a heap of numbered nodes, or an array, with its operations
as actions, and history variables for what was put in. `BinaryTree` lets data be
inserted a second time, which may lose a subtree; the
nodes of it stay allocated, and nothing reaches them. Freed nodes are blanked
(`Freed`), as nothing reads them. In `RbTree` the loop of `InsertFixup` is a
function from the number of rounds to the tree after them; it is asked for as
many rounds as there are nodes, and a round under a black parent changes nothing,
so the bound is one a loop that ends never feels (`LoopEnds`, below).
`HashTable` starts from a
zeroed array and keeps chains where `Resize` leaves them. `RingQueue` has a
place behind its array. By the type of the elements, it is padding, or shares bytes
with `front_` and, for longer ones, with the numbers behind it (`covered`); then a
write there changes them, and a change of one of them changes what is in the place
(`Beneath`). How much of it, the type decides, so both are choices. The history
variable `spoilt` remembers that a number or an element still in the queue was
changed so, and the model follows no queue beyond that. `List::del` and `HTable::Resize` end without
a return although they have a result type; no caller uses the result, and the
builds do not optimise.

## Runs

| run | instance | distinct states | shows |
|---|---|---|---|
| `skiplist` | 4 members, scores 1 and 3, 4 addresses, 3 levels, 8 operations | 6,886 | all heap invariants, exact index and score queries, rank exact or 0 under a tie, refinement of `ScoredList` |
| `restart` | 3 members, 3 scores, 4 addresses, 2 levels, records of 2 entries, written whole, in part or not | 31,834 | dictionary and list agree exactly until two members share a score, and afterwards every member is listed under its score; the handlers answer what the dictionary says; a restart brings back every member, the first entry of each in the saved order, and the same dictionary until members share a score; what the loader reads out of step changes nothing it read before |
| `restart_tied` | 2 members, 3 addresses | | **violation**: a member gets an old score back |
| `restart_lost` | 2 members, 3 addresses, records of 1 entry | | **violation**: records written whole behind one in part do not come back |
| `persistence` | 4 processes, 2 writes in 2 pieces, 2 faults, 1 kill | 1,151,929 | one saver, whole file, good exits save everything, nothing saved is lost |
| `persistence_live` | 3 processes, one start, no faults | 349 | writes before the first fork reach the disk |
| `persistence_idle` | 4 processes, one start, no faults | | **violation**: later writes do not |
| `persistence_race` | 4 processes, 1 kill | | **violation**: exit beside a saving child leaves a broken database |
| `task` | streams of whole, cut-off, too long and too short commands; buffer 4, send buffer 2, responses of 3 bytes; garbage EPOLLOUT and EPOLLONESHOT | 121,995 | no overrun; unread bytes and queued responses are announced; hangups only for clients that left or broke the protocol |
| `task_live` | two streams of good commands, buffer 5, at most 4 bytes unhandled, no garbage | 33,972 | commands are handled, responses sent, the sockets of clients that left closed |
| `service` | 2 clients with 2 connections each, 3 requests, 2 keys on 2 servers, positions modulo 3, queues of 1, one fault | 779,677 | positions find their tasks; answers reach who asked and are taken for what they answer; acknowledged writes are seen; the backlog is announced |
| `containers` | trees of 5 and 8 nodes and 4 data, 2 to 8 buckets and 4 keys, a list of 5 nodes, a queue of 2 places and 9 pushes | 220,746 | the binary tree's walk is its contents, insertion keeps the red-black tree one, the hash table never shows an old value, the list is one ring, the queue keeps its order while the place behind its array and the numbers do not change each other |

**Bounds.** The scores of `skiplist` leave a gap, so that query bounds fall below,
between, on and above them (`QueryScore` is 0..4, ranks asked for go from 0 to one
more than there are addresses; in `restart` they are the numbers below `RankMod`,
5, so that there is a rank with nothing behind it and a range that counts 0); two
scores and four members give ties of up to four. Three levels give a level that
crosses two nodes and an unused one above. `MaxLenth` bounds the only counter,
which every insertion and deletion increases: eight operations fill the four
addresses and empty them again. In `restart` the third score lets a member move
across another, the fourth address holds a node a `Delete` missed, and a list of
three or four nodes fills one record and begins a second. `MaxLenth` (5) is enough
to insert three members, move one and delete it; once a table was saved
`MaxLenthSaved` (1) leaves at most the beginning of a table for the time before
the restart, because what is changed between a save and the restart is lost, and
what a loaded table does a table made by requests does as well. `DelMemCalled`
adds the calls of `db::DelMem`; the violations `restart_tied` and `restart_lost`
do without them, so that they are ones requests alone lead to. `TornBelow` (3)
leaves records in part to the first save of a table of at most two nodes, where
the record in part is the table's only one, its TABLE record or one of another
table, and `MaxAstray` (1) lets one entry come out of the bytes behind it. That is
enough to read an entry out of step into an empty table, behind a whole record of
two, and for a member already read; the proofs have no such bounds. In
`persistence` four processes are a server, its child, a second server and its
child; two pieces are the least that can be half written; the two faults can hit
two different saves. The run follows no behaviour past the start of a race,
because every property it checks is about behaviours without one. In `task` the
client may have one byte more under way than the buffer holds, so that a read
stops at a full buffer with a byte left; a response does not fit in the send
buffer, so every one is written in parts. In `service` two positions are in use
and the counter wraps after two connections, so that a third meets its own
position in the map and in messages; with queues of one message every send can
find one full; of three requests one can be given up, answered late and asked
again on a new connection. The constraint `Bounds` ends a behaviour at the step
that mixes positions up, because no property promises answers there, and asks for
the key nobody sets only first. In `containers` five nodes give a deletion whose
successor is not the child; eight insertions reach recolourings over two levels
and all rotations; the four hashes make the table grow twice, to where keys have
moved away and come back; nine pushes go three times round the ring. In
`task_live` the window is below the buffer: a client that fills the buffer can
leave bytes, or the end of its stream, unannounced (`task.cpp:112`), and nothing
is promised to it.

**Fairness.** `persistence_live` and `persistence_idle` assume that the save
period runs out, that `Run` reaches `OnTick` and, once traffic pauses, `OnIdle`
(the writes of an instance are finite, so traffic does pause; under steady
traffic the code never goes idle, see the hazards), and that the scheduler runs a
process that saves. Nobody has to write, start or stop a server. `task_live`
assumes that the proxy's loop goes on, which never blocks (the timeout of
`epoll_wait` is 0 and every call is non-blocking), and that the client goes on
reading what fits its side; it need not send, close, or be answered.

**Deadlock** is not checked in the other runs: an instance stops at its bounds,
and a server that is not started does nothing. The loop of `Task` never stops,
and its runs check that.

## Findings

* `db.cpp:280` — `Delete` passes members of the same score, and on a high level
  the member itself (`skiplist.h:318`); `sort_set::Update` ignores that and inserts
  the member again, against the comment at `skiplist.h:279`. The list with both
  nodes is saved, the loader refuses the second, and the member reverts to its old
  score. Run `restart_tied`: two members share a score, one is moved, and after a
  restart it is back where it was.
* `db.cpp:186` (and 174, 195) — a record that could be written only in part is
  logged, and the save goes on, renames the file and reports success, although
  the comment at line 202 wants all data on disk. The loader cannot find the next
  record, so whole records behind the broken one are lost, of every table that
  follows. Run `restart_lost`: a record of an earlier table is in part, and no
  member of the table comes back.
* `application_base.cpp:433` — SIGCHLD is ignored, `wait3` never returns a child,
  `chilld_pid` is never reset and there is no second background save. This
  answers the question in the comment at `server.cpp:312`. Run
  `persistence_idle`.
* `server.cpp:286` — `OnExit` saves in the server beside a saving child, on the
  same `.tmp`. Run `persistence_race`: the child fills its file, the server
  truncates it, the child renames it.

## Proofs

All theorems hold for every value of the constants that satisfies the named
assumptions: scores and the bounds of queries are integers; at least one level;
addresses, the head and the null pointer are distinct, and addresses finitely
many; a KEY record has room for an entry; there is a number of ranks; at least one piece; every write has a piece; no
process is called `NONE`; the bounds on faults and kills are naturals; a command
header fits in the receive buffer; the places where commands begin are the sums
of their lengths; there is a bucket and a server, hashes are naturals, and the
position counter has at least two values.

For one sorted set `TableFileProofs` proves `TypeCorrect` and `DictionaryListed`. The inductive
invariant is `TypeOK` with `DictInList`. `DictInList` needs an argument about
`Delete`: it may miss its node, but the node it removes is one holding exactly
the score and member asked for (`TargetHolds`), so the entries of all other
members survive (`DeleteMemberListed`), and the inserted node holds the new entry
(`InsertNodeListed`). What the walk `Descend` computes is not needed, only that
`Target` tests what it found. `LevelInUseBounds` keeps `level_` between 1 and
`MaxLevel`.

`SkipListProofs` proves the heap invariants, the three query properties and
`RefinesScoredList`, all from one inductive invariant. None of the properties is
inductive: that a span is a distance says nothing of the span of a link to
nowhere, which the next insertion at the end makes a real one; and none says what
a walk does. `Laid` says that there is a place for each node (the head has place
0, the others 1 to `N`), by score, such that

* on each level a link leads to the next place of a node that reaches that
  level, and its span is the distance; a link to nowhere has no such node behind
  it, and its span is at least the distance to the end, which is what
  `DeleteNode`'s counting `lenth_` up leaves of it (`Linked`);
* the levels above `level_` are empty, `backward` leads to the place before and
  `tail_` to the last (`Mirrored`).

`Descend` and `Chain` are recursive functions. What they compute is proved by
induction on places and levels, through least elements of sets of naturals
(`LeastElement`, `Upward`, `Downward`), because the induction rule itself takes
an operator. `AlongWalks` and `DescendWalks` say of any test that every step of a
walk on a level passed it, that the walk ends where the next step would not, and
that the spans it adds up are the place it is at; `DescendOnto` that the walk of
`Insert` and `Delete` ends on every level before a node it does not pass, on
lower levels not behind that; `ChainIs` that a chain lists the nodes of its
level by place. So although among equal scores the walk of each level may stop
for another reason, the links that `Insert` and `DeleteNode` change are, on all
levels, the ones over one and the same place (`PredecessorsSplice`, `PathOver`):
an insertion opens a place behind it (`Opened`), a deletion closes it
(`Closed`). The refinement maps the heap to its entries by place; a deletion that
finds nothing is one that `ScoredList` allows, because another entry has the
score (`TargetMissed`).

For a table `TableFileProofs` proves its invariants and what a restart makes of
its file: `FileTypeCorrect`, `FileDictionaryListed`, `FileHeapWellFormed`,
`ListIsDictionary`, `EveryMemberRestored`, `FirstEntriesLoaded`,
`DictionaryRestored`, and `RequestsExact`, that the handlers answer from the
dictionary alone. Its invariant `FileInv` has, beside the invariant of
one sorted set and a heap that is laid out,

* `TieOK` — until members share a score the list is `Clean`: it holds no member
  twice, and each under its score in the dictionary. Then `Delete` does not miss,
  because no other entry has the score (`DeleteKeeps`). A tie is remembered for
  as long as the process serves, because a node missed stays; the next process
  starts clean.
* `OnFile` — the entries read back from the file are in order of score
  (`RecordsAreCuts`: records cut where the code cuts them; `FlattenReadsBack`,
  with any of them missing, up to the first in part), a complete file has the
  entry of every member saved, and, if no members shared a score, no other.
* `LoadingOK` — while a table is loaded, dictionary and list are the first entry
  of each member among those taken so far (`Taken`). Loaded entries come in
  order, so each goes to the end (`InsertAtEnd`).
* `AstrayOK` — while the loader is out of step, the members read in step have the
  score their first entry gives them (`LoadedFirsts`), because `Insert_` changes
  none that is there (`InsertKeepsEntries`).

The answers rest on a clean list being exact: a member's place in the list is the
number of members with scores up to its own (`RankIsPlace`, by a bijection), so a
range of places is what was asked for by rank (`WindowAnswered`, and `RangeCount`
for how many the handler takes of it in arithmetic modulo `RankMod`), and the places
of the scores between two bounds are a range.

`PersistenceProofs` proves `PersistenceTypes`, `OneSaver`, `DbFileWhole`,
`StopIsSafe` and the action property `SavedNeverLost`. The properties are not
inductive: that a file is whole when renamed depends on who wrote its pieces, and
that depends on there being one writer. `IInv` adds three parts, each proved to
be kept by every action:

* `Processes` — unconditional: only `main` serves, a process that writes has a
  file, a file's name and the pieces in it belong to processes that have begun to
  write, `.tmp` and the database are different files.
* `Alone` — without a race: at most one saver, it is `main` or `chilld_pid`, and
  the file it has open is the one called `.tmp`.
* `Snapshots` — without a race and a dropped record: the pieces a saver has been
  through are its own; what is on disk is contained in what is being saved, and
  that in the memory of the server; the database is whole.

`ServiceProofs` proves `TypeCorrect`, `TasksAreFound`, `AnswersAreOwn` and
`BacklogIsAnnounced`, for any numbers of clients, servers, buckets and positions,
any queues and any number of faults; and `IndexIsWhereLoopStops`, that the
arithmetic `GetIndex` of the model stops where the code's loop does, at a server
that exists. There are two inductive invariants:

* `TaskInv`, unconditional — `Registered`, that a task in the map was registered
  with the position it has there; `Opened`, that a client's used connections are
  those it has opened; `Queued`, that the backlog has connections that wait, each
  once. With them `TasksFound` is kept when an insertion is refused, and when a
  position is reused.
* `AnswerInv`, until positions are mixed up — the request under way on a
  connection is its own, the position of a request or reply in a queue leads to
  the connection that asked or to none, and what is sent to a connection answers
  it. A new position breaks it only where a message bears that position, which
  is what `mixed` says.

`ServiceProofs` also proves the two promises to clients, `AcceptedIsTheClients` (the
property `AcceptedIsOwn`) and `AcknowledgedIsSeen` (`AcknowledgedWritesSeen`), on
top of `TaskInv` and `AnswerInv`. `send_and_recv` checks nothing of an answer but
its length, so that it is the right one rests on there being no other:

* `OwnInv`, until positions are mixed up — `Single`, that on a connection no
  answer was read in part one thing is under way, in one of four places, and an
  answer has both its pieces; `Attended`, that on the connection a client uses it
  is the client's request or an answer to it, and that nothing is under way where
  the client may send again without a new connection; `Unopened`, that nothing is
  under way for connections to come. The steps of proxy and servers keep what is
  under way for each connection (`Kept`); that a batch lost or a queue cut short
  does is `StretchKeeps`, adding and taking one message are `PutOne` and `TakeOne`.
* `SeenInv` — `Routed`, unconditional: a queue holds requests for the keys of its
  server; and, until positions are mixed up or an answer is read in part,
  acknowledged sets and those a get must show are in the database of their key's
  server, and every answer under way is `Truthful`: a set it answers was applied,
  and a get that is waited for shows what it must. A new request makes no old
  answer untruthful because none is under way on its connection.

`SldbProofs` proves `LengthsReadBack` and `StringsReadBack`: the three encodings
are told apart by their first byte, a length is the value of its bytes
(`BytesOfLength`), and fewer bytes than were written are refused.

`TaskProofs` proves `TypeCorrect`, `BytesAreAnnounced`, `QueueIsAnnounced` and
`HangupsAreEarned`, for every stream, every buffer and any garbage. The invariant
is `TypeOK`, the three properties, and `EventsTrue`: a hangup among the events in
hand did happen, though the events were fetched before. `EpollModWakes` is the
kernel's second look at the socket, on which both announcements rest where
`Response` and `WriteRemain` change what is asked for; `ReadType` is the one
argument about the buffer: what a read leaves is the end of the stream or a full
buffer, and the commands taken end inside what was read, because the places
where they begin never decrease (`StartsAreSums`).

`ContainerProofs` proves `QueueServesInOrder`, `HashShowsNothingOld` and
`ListMeetsItsNodes`. Each has an invariant that says where things are.
`RingInv`: the element `i` behind the front lies at `Place(i)`, `rear_` is the last
of these places, and during the first round `rear_` still counts the pushes, so
that none of them is behind the array. `PushKeeps` and `PopKeeps` say what a change
of the place behind the array means for the elements: one that waits there is
changed only in a step that sets `spoilt` (`LastIsSeen`), and padding in none
(`OnPadding`). `HashInv`: the first entry of a key in the
bucket it is looked for in has its latest value, if the key was set since its place
last moved, and otherwise that bucket has no entry of it. Growing keeps
this because with twice the buckets a hash stays where it is or moves up by the
buckets there were (`TwiceTheBuckets`), to a bucket nothing was ever put in. `ListInv`:
there is a sequence of the nodes in use, each once, between two nils, whose values
are what was pushed and not deleted, with the links of neighbours leading to each
other (`Circle`); `search`, a recursive function, ends at the first node of the
sequence with the value, from the last place backwards (`SearchIsFirstHit`).

`TreeProofs` proves `TreeKeepsItsContents` and `InsertionKeepsItRedBlack`, for any
number of nodes and any integers as data and keys. Neither property is inductive: both say what
walks down a tree give, and a rotation or a successor moved up changes the tree in
the middle of them. What is kept is a layout (`Laid`): each node of the tree has a place among
`1..n`, and with it the interval of places of the nodes below, which the
intervals of its children divide between them at the node's own place; children
know their parents, and the root has all the places. So the walk lists the nodes by
place (`WalkFinds`), and the tree is sorted if its values are (`Sorted`). The loops are
recursive functions; that they end is proved by induction on a measure that falls
from parent to child (`Grounded`, `ByMeasure`, `Solvable`), which in a tree that is
laid out is the width of the intervals. Each change of the links is a change of the layout:

* an insertion opens a place beside a node without the child (`AttachedRight`,
  `AttachedLeft`). Where the data of that node is inserted again, the new node takes the
  place of a whole subtree, whose interval is cut out (`Pruned`): `TreeInv`
  promises a sorted and searchable tree of nodes in use all the same, and that the
  data are the ones inserted only while none was repeated (`Holds`);
* a deletion closes a place (`RemovedLeftless`, `RemovedRightless`), after the
  successor, if there is one, has taken over place and interval
  (`SuccessorLaid`, `RaiseIs`);
* a rotation leaves the places as they are and changes two intervals
  (`RotatedLaid`). Left and right are proved once, the other by the mirror image of
  the layout (`MirroredLaid`).

`RbInv` adds the colours: there is a number of black nodes on the ways down from
each node, and a red node stands under a black one (`Colored`), but for one node
`z` while `InsertFixup` is at work (`RbLoop`). A round recolours and climbs
(`RoundRecolors`), or turns `z` to the outer side and then, once, the grandparent
(`RoundTurnsIn`, `RoundTurnsOut`). That the loop ends is `LoopEnds`: each
recolouring leaves two more nodes below `z` on the way up (`RoundClimbs`), so there are
at most half as many of them as nodes, and two rotations after them.

**Only model-checked:** liveness under fairness, and everything about the
violations. Every invariant and action property a passing run checks is stated by
a theorem.

## What could follow

* A refinement from `Task` to the messages of `Service`, which needs a stream with
  contents where `Task` has byte counts.
* Liveness over the whole way of a request; with non-blocking sends that drop,
  the code promises an answer only where no queue is full.

## Not modelled, and why

Configuration and log files, option parsing, statistics and string utilities have
no behaviour over time. Almost all of the source by lines is vendored (`snslib`
twice, `libev`, glog) or protobuf output, which is not this program; the part
that is, about ten thousand lines, is what the modules are about. ZeroMQ, the
kernel's files, sockets, processes and signals are modelled only as far as the
code uses them. `Search` of the skip list, the timer heap, `epoll_client` and
`src/skiplist` have no callers. `rb_tree::Delete` is unfinished (the `if` without
a condition at `rb_tree.h:269` is a syntax error) and `hdel` is only declared. Memory errors are
nondeterministic choices where they bite: the uninitialised event mask in `Task`,
the place behind the array in `RingQueue`. `List::search` before the first `push`
reads through a null pointer; no caller does it, and the model has no such step.
