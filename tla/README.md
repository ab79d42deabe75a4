# Verification of SDBC

SDBC (Secure DataBase Connect) is a C framework for request/response servers
and their clients: a thread-pool server, a pooled client, an encrypted
length-framed protocol between them, and libraries for packing records,
encryption, data structures and configuration.  This directory holds TLA+
models of its concurrent core, configurations that check them with TLC on
small instances, and theorems about them checked by TLAPS.

## 1. Inventory

| component | source | state | operations | what is hard | what makes it correct |
|---|---|---|---|---|---|
| client connection pool | `sccli/scpool.c`, `sccli/getsvc.c`, `sccli/netconnect.c` | per path: ring `free_q`, `weight`, service table; per connection: socket, `Errno`, `freevar`; `weightLock` | `get_path_resource`, `get_SC_connect`, `release_SC_connect`, `scpool_check` | threads, two condition variables, locks given up around a connect, failures at every step of a connect | exclusive lending, nothing lost, weights and usage counts that survive failures, wakeups that are not lost |
| thread-pool server | `scsrv/tpool.c` | TCBs, ready queue and its lock, epoll ONESHOT registrations, free list, timers, fiber contexts | `TCB_add`/`TCB_get`, worker loop, `do_work`, `check_TCB_timeout`, `set_event`, `set_callback` | an event, a timeout and a yielded fiber race for one TCB | a TCB is in one place, run by one worker, freed once |
| wait queue for pooled connections | `scsrv/mod_sc.c` | `scpool_MGR` wait queue of TCBs per pool | `bind_sc`, `unbind_sc`, `wait_sc`, `weakup_sc` | tasks parked while connections are returned | a parked task is resumed when a connection is free |
| session loops | `scsrv/TPC_srv.c`, `scsrv/PPC_srv.c` | `conn->only_do`, `status`, timeouts per session | accept, login, service dispatch, close | login before service, status across requests | no service is dispatched before the login; `only_do` by the rules of each server |
| key handshake | `scsrv/clikey.c`, `sccli/get_clikey.c` | `CryptFlg`, key family | `mk_clikey`, `get_clikey` | two parties that must take matching steps | both ends agree on key and flags or close |
| framing | `socket/net_pkg.c` (`net_memzip.c`, `net_quicklz.c` are variants) | buffers, `CryptFlg`, header with `T_LEN`, `PKG_LEN`, check number | `SendPack`, `RecvPack`, `initconnect`, `freeconnect` | lengths that do not fit, compression choice, partial reads | what is received is what was sent or an error; heads are read as heads |
| raw I/O | `socket/tcp.c`, `socket/AIO_tcp.c`, `scsrv/AIO_fd.c`, `scsrv/SIO_fd.c`, `socket/tcpopen.c`, `socket/gethostaddr.c` | a descriptor | blocking and fiber-yielding read and write | the yield inside a read | short counts are reported |
| remote files and commands | `scsrv/rexec.c`, `scsrv/filelist.c`, `scsrv/chkexec.c`, `sccli/client.c`, `sccli/getls.c` | an open file on each side | `Rexec`, `PutFile`, `GetFile` | each side may fail in the middle | both sides stop in step |
| SQL client | `sccli/sqlc.c`, `sccli/sqlinit.c`, `sccli/N_get_tpl.c` | `conn->status` as transaction counter, cursor numbers | `N_SQL_Prepare`, `N_SQL_Exec`, ... | results out of step with requests | counters agree with the server's |
| dynamic modules | `scsrv/dm_app.c`, `scsrv/dmapp.c` | balanced tree of modules, reader/writer lock, reference counts | `dmapp` call, load, unload | load and unload while calls run | a module is not unloaded while it runs |
| small services | `scsrv/echo.c`, `PutEvent.c`, `get_srvname.c`, `return_error.c`, `Function.c`, `set_showid.c`, `sqlo_type.c` | none | one reply each | nothing | - |
| data structures | `ds/`, `pack/colidx.c` | balanced tree, hash with overflow chains, sorted arrays | insert, delete, look up | rotations, chains, bounds | order is kept, look-ups find what was put in and nothing else |
| packing | `pack/` | templates of records, built column by column | records to and from delimited text, copies of templates | escapes, field widths, alignment | round trip; two ways to lay out a record agree |
| encryption | `crypto/` | rotors, long numbers | encrypt, decrypt, key exchange | carries, estimates of a quotient, state kept between packages | both ends compute the same key; round trip in pieces |
| configuration and logging | `conf/` | environment, log file | read configuration, write logs | rotation of the log at midnight under two threads | no line is lost |
| json-c | `json-c-0.9/` (vendored, built in) | values with a count of references, hash table, growing buffers, tokener | make, read, write, refer | texts in pieces, escapes, growth, shared values | a value is read as it was written; nothing is freed twice or overrun |

How they interact: a client session (`sccli`) and a server session (`scsrv`)
exchange frames (`socket/net_pkg.c`) over one connection.  The server's worker
threads run the application's services; a service that needs another server
asks the client pool for a connection without waiting (`scpool_MGR`) and, when
none is free, parks its task in the wait queue, whose thread waits in
`get_SC_connect` and makes the task ready again.  Every blocking read or write
goes through the hook of `set_yield`, by which the thread-pool server gives the
worker to another client (`do_event`).

## 2. Modules

| module | models |
|---|---|
| `ConnPool` | what the client pool promises: a connection is lent to one thread and comes back from that thread |
| `ScPool` | one `sc_path` of the client pool, with the shared service table and the periodic check |
| `ScPoolLive` | `ScPool` with a bounded number of calls and the fairness of the threads |
| `ScPoolMC`, `ScPoolLiveMC` | the instances of it that TLC checks |
| `ScPoolProofs` | type correctness of `ScPool`; exclusive lending, nothing lost, weights, wake-ups, the refinement of `ConnPool`; the service table and its shares; sockets; who waits for ever |
| `TPool`, `TPoolMC` | the thread-pool server: workers, task blocks, queues, one-shot events, fibers, timers; its instances |
| `TPoolProofs` | the proof that the thread-pool server loses no task, serves it by one worker and keeps its fiber intact |
| `WaitQueue` | the wait queue of `mod_sc.c`: services that park their task, and the thread that waits for a connection for them |
| `DmApp` | the dynamic modules of `dm_app.c`: calls, loading, replacing |
| `ServerProofs` | the proofs that a wait queue is watched, by one thread, that no connection is lent twice, and that the dynamic modules are safe |
| `ServerMC` | the instances of `WaitQueue` and `DmApp` |
| `Wire`, `WireProofs` | the bytes of one connection: `SendNet`, `RecvNet`, and `RecvPack`'s reading of heads and bodies; the proof that packets arrive as they were sent |
| `Session`, `SessionProofs` | a connection from accept over key and login to its end, in the three servers; the proof that sessions do not mix and that nobody is served before the login |
| `Transfer` | what a client and a service say to each other during files, commands and single calls |
| `SqlCalls` | what SQL calls leave open on the server and `connect->status` counts |
| `CallProofs` | the proofs that the count of `SqlCalls` is what is open, and that client and service of `Transfer` agree who speaks next |
| `Frame` | a package through `SendPack`, forwarders and `RecvPack`: check number, compression, encryption, CRC |
| `PackBuffers` | the buffers of a connection in the three builds of `SendPack` and `RecvPack` |
| `JsonText` | the text of a JSON value and the tokener that reads it, in pieces, with comments or cut short |
| `Columns`, `Stmt` | columns of every type as text and back (`json_pack.c`, `pack.c`); the statements `SRM.c` makes of a template, an owner and a condition |
| `SessionMC` | the instances of `Wire`, `PackBuffers` (with `Frame`), `Session`, `Transfer`, `SqlCalls`, `Pack`, `JsonText`, `Columns` and `Stmt` |
| `Logs` | `showlog.c`: processes and threads that write to the file of the day |
| `Rings`, `Lines` | the circular lists of `tpool.c` and `scpool.c`; the queues they stand for |
| `BBTree`, `Search` | the balanced tree; the searches in sorted arrays and the static hash table |
| `Bignum`, `Enigma` | long numbers and the key exchange; the two rotor ciphers |
| `Pattern`, `Pack` | templates of records and their copies; packed records and escaped texts |
| `QuickLz`, `MemZip`, `Checksums` | the two compressions; the two CRCs and MD5 |
| `JsonObject`, `Buffers` | of json-c: the hash table of an object and who owns a value; the buffers that grow |
| `FrameProofs` | the proofs that heads and bodies are read as they were sent, through the buffers there are |
| `DataProofs` | the proofs that the buffers of json-c are not overrun, that the log of one process keeps its lines, that rings are lines, that patterns are laid out, indexed and copied rightly, that balanced trees keep their order and depths and answer their queries, and that the searches in sorted arrays and the static hash table find what there is |
| `Config` | the making of the client pools from their file, their look-up by number and label, and their end; the files of the environment, of the keys of passwords and of the accounts |
| `Services` | the built-in services and the client's side of them: the index of services by name, listings and their target names, the gate before remote commands, modules, `Echo` |
| `Des` | DES as `crypt` uses it, the schedule of keys, the key made of a number |
| `DataMC` | the instances of `BBTree`, `Search`, `Rings`, `Bignum`, `Enigma`, `Pattern`, `Logs`, `JsonObject`, `Buffers`, `Config`, `QuickLz`, `MemZip`, `Checksums`, `Des` and `Services` |

A module that composes others lets one of them move and the others rest: they
share no state in the code either, and one run then asks all their questions.

### ScPool

A critical section under `pl->mut` is one action, enabled while the mutex is
free; `mut` records the one place where the code sleeps with it locked
(scpool.c:429).  `weightLock` is held across actions and is a variable of its
own.  `pc[t]` says where a thread is in `get_SC_connect`, `get_SC_by_weight`,
`get_SC_resource`, `sc_connect` or `release_SC_connect`; a call in progress has
its parameters and locals in `from path flg repeat bad seen`.  Both condition
variables keep no state: their waiters are the threads at a label, a signal
moves one of them, and a wakeup may come without cause.  The ring `free_q` is a
sequence, head first.  A socket is `"none"`, `"open"`, `"broken"` (the peer is
gone and no one has noticed) or `"stale"` (closed, its number still in
`conn->Socket`).  The servers may fail in the ways of the constant `Faults`.

### TPool

`pc[w]` follows `thread_work`, `do_work` and `do_event`.  A task block has its
connection (`open status call_back`), its event (`fd armed events timeout`) and
its fiber (`AIO_flg lock fiber saved link`).  `armed` is the one-shot
registration in epoll; `saved` says that a fiber's context is at rest and can
be switched to, which the code has no variable for.  A worker's own context is
where it was saved last: behind `getcontext` (`started[w] = Nobody`) or behind
the `swapcontext` by which it started a fiber.  The operator `Return` is what
happens there when a fiber leaves the worker.

The services are the application's.  An action stands for each thing
`include/scsrv.h` lets them do: yield in a read or write, set or clear a
callback, wait for another descriptor, park the task in a queue, make it ready,
reply, or fail.  They may do these in any order, with one rule of the code's
own documentation: a service that has given its task away returns
`THREAD_ESCAPE` at once.  The values of `status` from 0 up mean "key agreed".
There is no clock: a timer that runs may run out at any time.

The code keeps some pairs of steps apart only by the windows between them being
a few instructions long (section 6).  `Races` says which of these windows are
open; the passing run has none.  `InMemory` says where the compiler keeps the
variable `task` of `thread_work`; the passing run has it in memory, which the
code needs.

### WaitQueue and DmApp

`WaitQueue` has one pool of `mod_sc.c` with its queue `parkq`, the thread
`wait_sc` at `wt` with its locals `job conn clr_q`, and `tid`, which is the
identifier of the thread, of the service that claims it, or nobody's.  Of the
thread-pool server it has the ready queue, the free list, the workers (`at has
using`) and the timers; of the connection pool the set of free connections and
whether the server can be reached.  `bind_sc` and `unbind_sc` are the
application's: they store a connection for a task that still waits and remove
it.  `Upsets` says what may go wrong: in the run the pool's number is bad, a
timer expires, the server goes down and comes back.

`DmApp` has the tree `cmd_tree`, the counter `lock` of a node (`uses`), the
number of times a module is open (`handles`), the reader/writer lock and where
each thread is.  A module in `Unfit` has a file that does not hold its command.

### Wire, Session, Transfer, SqlCalls

These four are the layers of a connection.  `Wire` numbers the bytes of a
packet, so that a reader that is out of step is seen; reads and writes move as
many bytes as there are, and with a yield function the fiber waits between
them, or cannot.  `Session` has the messages by number (`num`, the service) and
identity; login, the services and the application's `only_do` are external, and
`conn_init`, the login, the services and `only_do` itself may install `only_do` or
take it away; `ran` says which of the user's functions ran for a client, `given`
that it had an `only_do` before it had passed.
`Transfer` has a file as its number of blocks, two FIFO channels and, per
package, `ERRNO2` (`more`: another package follows, `quiet`: no answer is
wanted); `strayed` says that `get_srvname` has answered the end of an empty input.
`SqlCalls` has the set of open cursors and of debts (counted but
never opened), `connect->status` modulo its size, and whether the server's
forwarder is bound.  In `PackBuffers` a buffer is its size; one connection sends,
receives, echoes and is freed in any order, in one of three builds and with or
without `UNDO_ZIP`, and every answer of `RecvPack` occurs.

### Data structures and codecs

Each module builds its object by the code's own operations and states what a
reader of it must see.  `BBTree` inserts and deletes in every order; `Search`
has the searches and the index of `multi_hash.c`, `Pattern` that of `colidx.c`; `Rings` has pointers
(`next`, and the last element of each ring) and the number in `Conn.Socket`, which
`add_lnk` looks at and `scpool_check` may clear in the ring, and maps a ring to
the sequence of `Lines`.  Words have `BITS` bits and the radix of a digit is a constant, so
that every carry and every wrong estimate of a quotient occurs.  In `Pattern` a
value is the name of its column; in `Pack` a byte is one of the classes the code
tells apart.  In `Frame` a body is what was done to it, as a list of layers, and
a check number is two half words.  `Logs` has the file of a day as the lines in
it; a stream's position is the length it has when it writes, and `stderr` is the
file that is open, or none after a `freopen` that failed.  In `Buffers` an
element of an `array_list` is put at its end or at any place.  The compressions
are the code's own loops over texts of small symbols, with the widths of a
field scaled down (`CwordBits`, `OffsetBits`, `ByteSize`, ...) so that the
longest match, the farthest copy and every length class occur in texts of a few
dozen symbols.  The CRCs and MD5 work on whole words of 32 bits (pairs of halves)
with the code's tables.  `JsonObject` counts the references to a value and who
holds one; a value whose count falls to 0 gives up its members.

A word of `Des` is the set of the places of its ones.  The tables of the code
(`des_skb`, `DES_SPtrans`) are in the module as the code uses them, and
`DesRight` compares what they do with the definition of the standard, which the
module writes out as well: permutations, expansion, boxes and turns of the key.
In `Config` a text is a sequence of pieces or characters, and each file is given
line by line; what is expected of it is stated over the lines themselves.  In
`Services` a package is a record of its head and its words; what a service meets
(a file that is missing, a pattern that matches, a module that fails) is chosen
with the package.

## 3. Runs

| run | question | instance |
|---|---|---|
| `pool` | Are connections lent once, kept, counted; do descriptors leak; is `ConnPool` implemented? | 3 threads that wait one round, 1 path, 2 connections, every fault of the key exchange and of the service list |
| `wakeups` | Are wakeups lost when the server can be reached? Does the table outlive its users? | 4 threads, 1 path, 2 connections, no faults, applications that leave -1 or -2 in `Errno` |
| `pool_live` | Does every call return; does `flg=-1` wait and get served? | 2 threads, 2 paths of 1 connection, the first of which may fail, 2 calls each |
| `late`, `table`, `wakeup` | three disagreements of section 6 | 2 threads |
| `tpool` | Is a client served by one worker at a time, never forgotten, its fiber entered and recycled at the right time; are ready tasks taken? | 3 workers (1 for the ready queue), 1 task |
| `tpool_sync` | Is the synchronous mode only for tasks that were broken in upon? | 2 workers, 1 task |
| `tpool_register` | What if `task` is kept in a register? | 3 workers, 2 tasks |
| `server` | Is a parked task called back, with one connection of its own? Does a module stay loaded while it runs, and does unloading end? | 2 workers, 2 tasks, 1 connection; 3 threads, 2 modules, one without its command |
| `session` | Are heads read as heads; is a service run only after its client's login; do client and service agree who speaks; is the forwarder bound exactly while something is open? | 2 packets of 2 sizes in pieces; 2 clients, 2 slots, 2 requests, in each kind of server; 3 calls of 6 kinds with up to 2 faults and files of up to 2 blocks; 3 cursors; heads of 2 numbers of 4 bits; 3 packages of 7 lengths about the limits of the buffers; JSON values of 4 levels cut anywhere; 2 columns of 8 types, with integers of 3 and 4 bits |
| `data` | Do the structures and codecs agree with their definitions for every small input; is a line of the log lost at midnight? | 7 keys; arrays up to 6; 4 rows; 2 queues and 1 path of 3 elements; words of 3 bits; texts up to 3 or 4 bytes; 2 writers over 3 days; 3 names in a table of 3; configuration files of 3 lines; 3 values with a member or an item each; texts of three repeated parts; MD5 messages of up to 4 pieces, up to 304 bytes; CRCs of every first byte; DES keys, weak ones among them, and passwords with two salts; environment, key and account files of 3 lines; 5 services whose names collide; listings of 3 words in blocks of 8; answers of 2 packages |

Bounds, and why they are enough.  A wait in the pool needs one thread more than
connections, and a wakeup that overtakes needs one more: hence three and four
threads on two connections.  Two paths are the least for which
`get_SC_by_weight` chooses; `pool_live` has them.  `repeat` counts the rounds of
a caller, so `flg` is 0, 1 or -1.  `UsageBound` caps a counter that a reconnect
over an open socket would let grow for ever in `wakeups`.  In `TPool` all
interplay between workers is about one task, and three workers are the least
for which one is leaving it, one enters it and one has it from the ready queue.
Two tasks are needed only where a worker takes one task for another
(`tpool_register`).  In `WaitQueue` two tasks on one connection are the least
of which one waits; in `DmApp` two threads call while a third unloads, and
`MaxUses` caps the counter of a module that is never given back.  A head of two
bytes in a buffer of two gives every way to cut it; a second packet shows a
reader that is out of step.  Two clients on two slots let a slot be used again.
Three calls are one that is cut short, one that may be hit by what is left and
one more; two blocks are a first and a last.  Seven keys give trees of four
levels, where deletion has all its cases; three elements give a ring a first, a
middle and a last; three-bit words give quotients whose first estimate is right,
one too large and two too large.  `Cycle` and `LastDay` let a file's name come
again.  Deadlock is checked except where a behaviour may really end: in `pool`
and `pool_live` a refused service list stops a caller for ever, or all calls
have been made; in `server`, `session` and `data` modules whose timers, clients
or inputs are used up are at rest; a violation run stops at its counterexample.

Fairness.  `ScPoolLive` assumes strong fairness of the threads: a mutex that is
free again and again is taken in the end, timed waits end, connect attempts
end, applications return what they were lent.  `TPool` assumes weak fairness of
each worker's steps and that a service returns in the end.  `WaitQueue` assumes
the same of its workers and its thread, and that ready tasks are taken, which
`ReadyServed` of `TPool` shows.  `DmApp` assumes that threads go on and commands
end.  `Wire`, `Session` and `Transfer` assume that both processes run and that
the main thread accepts; a sender that owes bytes sends them or closes.  Nothing
is assumed of clients' decisions, of timers, of faults or of the main thread of
the pool.

## 4. Properties

For the pool: `Exclusive`, `NoneLost`, `WeightCounts`, `UsageCounts`,
`TableOutlivesUse`, `LoadingHasLoader`, `NoLostWakeup`, `NoSocketLeak`,
`ImplementsConnPool`, `CallsReturn`, `WaitersServed`, `ForeverMeansForever`.
For the thread-pool server: `OneRunner` (one worker runs a client's service,
although an event and a timeout may both announce it), `TasksKept` (every task
is free, or can be heard, or is in somebody's hands; ready tasks do not wait for
sleeping workers), `FiberIntact` (the hand-over of a fiber),
`RecycledComplete` (its stack) and `ReadyServed`.

For the wait queue: `WaitSafe` (a connection is with one holder; the task it is
bound to will be called back; somebody looks at a queue that holds a task),
`OneThread`, `ParkedServed`.  For the dynamic modules: `DmSafe` (no command runs
in a module that was unloaded; the counters cover the calls; what left the tree
is closed), `UnloadEnds`.

For a connection: `WireSafe` (reader and sender are in step, the descriptor's
mode is restored), `ReadEnds`; `SessionsApart`, `ServedAfterLogin`
(no service before the client's own login; an `only_do` before it in the server of
threads alone, and only one installed for this client), `AnsweredOrEnded`;
`AnswersMatch` (no package is taken for the answer of another call), `StoredIsRead`
(success on a connection that is kept means stored), `CallReturns`; `BoundExactly`.
Both properties of `Transfer` end with the answer to an empty input (section 6).

For the rest: `TreeRight` (order and true depths, balance as long as nothing
is deleted, the queries, what a deletion reports), `LookupsRight` (arrays, hashes, the members of a JSON object, the configured
pools; buffers are large enough, but for an element put far behind the end; a JSON value lives while somebody refers to it;
the files of the environment, keys and accounts mean what is in them; a service is
found by its name, answers once, runs only permitted commands, and a listing or
the target of a file is what was asked for),
`CryptoRight` (numbers, ciphers, DES, compressions, checksums and digests),
`PatternAgrees` (a layout by the sizes and
one by the types agree, copies keep values, but of pointers and long doubles), `TextsStand` (what was packed is
read back: records, SQL literals, JSON values, columns of every type; a statement
names each column once, with its value), `FramesAgree` (both ends of a chain of
forwarders read the same body, or one reports an error; no buffer is overrun or lost but where the property names
the code that does it), `LinesKept`, `ImplementsLines`.

Each has a mutant: an operator that changes one definition as a slip in that
code would, and that breaks the property in the same run (`PROJECT.json`).

## 5. Proofs

All theorems hold for every value of the constants that the named assumptions
allow.

`ScPool` (any number of threads, paths and connections, every set of flags,
faults and application errors, under `PoolAssumption`).  `TypeCorrect` proves
`TypeOK`.  It is not inductive: `given` must be a connection where it is put
back, a path that is entered must exist, and the list of scanned weights must be
shorter than the list of paths.  `LocalOK` says so, and
`TypeInv == TypeOK /\ LocalOK` is kept by each action.  `TypeOK` also says that
a thread has a connection exactly at the labels in `Holding`.

The safety theorems rest on one lemma, `Moves`: every step takes the head of
one ring for a thread that has nothing, puts a thread's connection into the
ring of its path at either end, or moves no connection.  From it follow
`ConnectionsExclusive` (`TypeInv /\ Exclusive` is inductive),
`ConnectionsKept` (with `NoneLost`), `WeightCorrect` (with `WeightCounts`) and
`PoolImplementsConnPool`: a connection's owner is the thread that has it, by
`Exclusive` there is at most one, so a taking is a `Lend`, a putting back a
`GiveBack`, and every other step a stutter.  `WakeupsKept` shows `NoLostWakeup`
when nothing fails (`NothingFails`: `FailBack` puts a connection back without a
signal, section 6) and the threads are finitely many.  It weighs, for each path,
the free connections against the threads at `released` and `get`: a step adds a
connection only with a thread that will signal it, and a thread stops signalling
only when it has woken a waiting one or there was none.

The service table of a path.  `TableKept` shows
`TableOutlivesUse` for all faults and all error codes; `LoadingManned` shows
`LoadingHasLoader` under `NoneRefused` (no server sets both error codes;
otherwise it fails, section 6).  Again a lemma, `TableMoves`, says what a step
may do to the table: begin a load, publish it, give it up, take or give back one
use.  The invariant adds that a path has one loader and that who loads has
marked the table; a path whose table is marked is then nobody else's to change.
`UsageExact` shows `UsageCounts`, the equation, under `OnlyClosing` (applications
leave no negative code but -1; another has the connection made again with its
share not given back).  It needs `SharesHeld`: a connection that is or will be
connected has no share, nor has one without a socket, and a connection that is
marked with an error and still has a share is with the thread that has just got
the share or that uses the connection.  `UserMoves` says once how each move
changes the number of users, the mark and `usage`; both bounds follow from it.
`NoneForgotten` shows `NoSocketLeak` under the same assumption and with the same
`SharesHeld`, which speaks of sockets as well: a connection that is about to be
connected has no open socket, and one that is marked with an error and still
has one is with a thread between `Net_Connect` and the end of `sc_connect`, or
with its user; nobody connects it again before it was closed.

`WaitersStay` shows `ForeverMeansForever` under `OneAnswers` (the server of at
least one path never fails; when all may be out of order `flg=-1` gets NULL,
section 6).  Its invariant, `StaysUp`, follows that path through
`get_sc_connection`: no weight of it becomes negative, and a thread that has
gone past it in its list remembers that not all are bad.

`TPool` (any number of workers and tasks).  `TypeCorrect` needs no assumption.
`OneRunnerAlways`, `TasksKeptAlways`, `FiberIntactAlways` and
`RecycledCompleteAlways` hold under `Quiet`: no timer runs out for a task in a
worker's hands, no worker that ends a client is overtaken, and the variable
`task` of `thread_work` lives in memory.  The code relies on each of the three;
section 6 says what happens without.  None of the four is inductive: whether a
worker may touch a task depends on where the task was before.  `TPoolInv` says
so for each task: it is in exactly one place, with the worker that `Owns` it, in
one queue, or in epoll (`InOnePlace`); who deletes it has it alone, and a free
task is with nobody but a worker on its way out (`EndsAlone`); `AIO_flg`, the
lock, `uc_link` and the saved context fit together (`FiberKept`).  The worker
that has registered or queued its task owns it no more, although it goes on for
some steps: that is where the reasons of the code end and those of the invariant
begin.  `QueuesApart` and `Awake` speak of the whole pool; the last says that a
worker is not in `epoll_wait`, because `RDY_NUM` workers wait for the queue
first.  A step concerns one task; `UntouchedKept` shows once that the others keep
what is said of them, so each action is proved for its own task only, as one of
four kinds: the owner goes on (`Serves`), registers the task (`WaitsForClient`),
a worker leaves what it does not own (`GivesUp`), or a queue changes.

`DmApp` (any number of threads and modules, any unfit ones).  `DmSafety` shows
`DmSafe` under `OneLoader`: nobody loads or searches while another thread puts a
module into the tree under the read lock, which the code leaves to chance
(section 6).  `DmSafe` is not inductive.
`DmInv` adds who may hold the lock at which label, what each thread knows of
the module it works on, that a module is open once while it is in the tree, and
that the counter of a node is at least the number of threads that called and
have not given back.

`WaitQueue` (any number of workers, tasks and connections).  `QueueWatched`
(`NoneStranded`) and `ThreadAlone` (`OneThread`) under `LooksBeforeEnd`, which
excludes the timeout of section 6.  The invariant `Claimed` says whose
identifier `tid` is: that of the thread that runs, of the service that will
create it, or nobody's.  `WaitSafeAlways` shows the whole of `WaitSafe`, when
besides no callback overtakes the thread and no client asks again before its
wait is over (`Orderly`).  `LentOnce` is far from inductive: a task may be in the
thread's hands a second time while a connection is bound to it, or be ready
without a callback, or be parked while another worker is in its callback.
`LendingInv` says what is always so: a task has one service at a time until the
service has woken the thread; who waits for a connection has none; while one is
waited for or bound no worker uses or answers (`Marked`); and a bound task that
the thread holds again is in no queue and with no service that could park it,
so that `Undo` returns only what `Bind` has bound (`Bound`).

`SqlCalls` (any number of cursors, any counter large enough for them).
`StaysBound`, `FreedWhenDone` and, with both, `BoundExactlyWhileOpen`, under
`Orderly`: the server commits and closes what it is asked to, and nobody ends a
transaction that was not begun.  Without `Orderly` they fail (section 6).  The
invariant says that the counter is the number of things that are open, and the
forwarder is bound exactly while it is not 0.

`Session` (any number of connections, slots, services and requests).
`SessionsApartAlways` shows `SessionsApart` and `LoginFirst` shows
`ServedAfterLogin`, with no assumption; the `only_do` that runs before the login is
in the property.  Neither is inductive.  `SessionInv` adds
`Talk`, which relates what a client knows to the packages on its connection: at
most one request that will be answered is on the way and it is the last, those
before it are quiet ones for Echo; a client in the key exchange has sent 26 bytes
or been sent the key, not both.  `Clientele` says that a connection nobody has
exchanged keys on is still in that first state; `Slot`, that a session has an
open socket and that its login state is not better than what became of its own
client; `HandOver`, that at most one thread has still to copy `Conn.Socket` and
that the main thread waits for it.  `TurnsProper` says of every answer of the
three loops that nothing runs before the login, and that no login is taken back.
A step concerns one connection: `ClientMoves` and `SlotMoves` show once that the
others keep what is said of them.

`Transfer` (any number of calls, blocks and faults).  `AnswersOwnCall` shows
`AnswersMatch` and `StoredWhole` shows `StoredIsRead`, under `NothingMissed`:
no timeout is set for `N_Rexec`, for the calls of `sqlc.c` and for `PutFile`, each
of which keeps a connection it has given up waiting on, and no write of `PutFile` is
short, which it does not notice (section 6).  All other faults happen at any step, the timeouts of
`Rexec` and of the calls of `client.c` among them.
Neither property is inductive: they speak of the package at the head of a queue,
and why it is there depends on whose turn it was.  `TransferInv` has one
disjunct per stage of a call (`Asked`, `Headed`, `Sending`, `Finishing`, `Taking`,
`Answered`, `Idle`) that says where both ends are and what is on the way: before
the request are only blocks that `Echo` does not answer (`Mute`), left by a
command's input that outlived its service; while a file is sent, the blocks
stored and those on the way are those read, or an error is kept (`Storing`); while
one is fetched, the queue is a size, some blocks and perhaps the end, in this
order, and the blocks stored and on the way are those the server read
(`Incoming`).  That the first k packages are the unfinished ones (`Heads`) is what
makes the last one the only one that is answered.

`Wire` (any size of the head, of the bodies, of a write and of the kernel's
buffer, any number of packets).  `WireSafeAlways` shows `WireSafe` with no
assumption.  The property speaks of the packets that have arrived and of the
descriptor; `WireInv` speaks of each byte.  `InOrder`: on the wire byte follows
byte and head follows body, the byte that is to be written next included.
`Joined`: the first byte on the wire is the one `RecvPack` awaits, so an end that
reads too much or too little is out of step at once, not at the next head.
`Taken`: what `RecvPack` has of a packet are its first bytes, and the head, once
read, is whole; that is why the size in it can be trusted.  `Mode`: the
descriptor does not block only inside a read whose fiber may wait.  After a
timeout or a short read only the packets that did arrive are spoken of.

`Logs` (any number of threads, days, files and lines).  `LinesKeptAlways` shows
`LinesKept` under `OneProcess`: two processes with one file may lose lines
(section 6).  `LogInv` adds `Opening` (who opens a file is alone, has its day,
and empties it only if it was last changed before that day), `AtEnd` (the process
is at the end of its file unless it appends) and `Dated` (a file is not older
than its lines, which is why an emptied file had no line of the day).

`Buffers` (any first size, any lengths appended, any places).  `BuffersSafe`: nothing
is written behind the end, whatever the order of the calls, but one place behind it
once an element was put at a place twice as far as the array reached.

`Frame` and `PackBuffers` (numbers of any size, heads of any length, bodies of any
size, longer than their texts too, any number of connections in a row and of
packages, the three builds).  `FramesAgreeAlways` shows `FramesAgree` with no
assumption, from two theorems.

`FramesReadAlways`: the functions that the definitions compute by recursion
(`Sum`, `Delivered`) are unfolded by
`RecExists`, and what they yield is shown by `AllNumbers`, induction over a set
of numbers, which needs no theorem about formulas.  Heads: `SumDiff` says that the
sums of two heads that differ in one number differ by as much (`Low` of it for the
first number), so the check number does not depend on the old one (`ChknumIs`),
and a changed number is noticed exactly when its lower half changes
(`DispackChanged`, `SameLow`).  Bodies: the property speaks of the last
connection; what makes it inductive along the chain is `Coming`, which says of a
package between two connections that it is compressed exactly when `T_LEN` is not
`PKG_LEN`.  That is all that a forwarder tells the next one, and why it may encrypt
otherwise than its neighbours.

`BuffersKeptAlways` shows `BuffersKept`, the part about space.  `PackInv` bounds the
buffers from both sides: one that is kept is as long as its length says (`Roomy`),
which is why the next package may be measured against the length, and `RecvBuffer`
is at most twice the largest body received and two, which is why `Echo` reads after
free only what is larger than `SendPack` keeps.  `SendFits` and `RecvFits` are the
arithmetic of one call.  A body that is longer than its text is the one case in which
`RecvFits` fails for the build that is used (section 6); the property remembers it.

`Rings` (any number of task blocks, connections and queues).  `RingsAreLines`
shows `ImplementsLines` under `OneMover`: no two threads look at one task before
either has linked it, which the code leaves to its callers (section 6,
tpool.c:119).  `Stand(next, tail, L)` says that the rings stand for the lines
`L`: along each ring the successor of an element is the next of its line and that
of the last is the first, no element is twice in the lines, and what has a
successor is in one.  The last two make it inductive: an element without a
successor is then in no line (`OutOfLine`), so that linking it disturbs none.
`Put` and `Take` show that `Linked` and `Unlinked` keep `Stand` with the line one
longer at either end or shorter by its head, and `LinesAre` that the walk along
the successors, by which `lines` is defined, finds the line the ring stands for.
The walk is a recursive function; what it yields is shown by its least
wrong step (`LeastNumber`, from the well-foundedness of `<`), which needs no
theorem about formulas.

`Pattern` (any pattern, any names, any hash function).  `PatternAgreesAlways` shows
`PatternAgrees`.  `LayOut` and the walk along a chain are recursive functions over
numbers, unfolded by `RecExists`.  Layout: what `set_offset` keeps from column to
column is the compiler's place of the next one.  Index: the rank of a name
(`RankLow`, `RankHigh`, `RankStrict`) says how many names are before it; as many
places are left over as columns come late (`SameMany`), so the loop that fills the
places finds one for each (`OnTopIs`, `OnTopOver`, `OnTopFalls`); along a chain the
ranks descend (`PlacesFall`), which is why every search ends, and ends at the
first column of the name (`IndexIs`).  Copies: what an object holds are the columns of the list
(`OnlyHas`, `OnlyMapped`, `ObjectIs`), and no others change; a pointer is `inside` the object until that is freed.

`BBTree` (any finite set of contents, any of which `user_free` may refuse).
`TreeRightAlways` shows `TreeRight` with no assumption.  What the code computes by
recursion over a tree is a function on the trees that are no deeper than there are
contents.  `AllTrees` is induction over that set (over depths, then over sets of
trees, never over formulas) and `TreeRecExists` unfolds the functions.  `MakeNode` is
why they suffice: a node over two sound trees whose keys lie on its two sides is
again no deeper than it has keys.  `TreeInv` says that the tree is `Sound` (order
and true depths) and has the keys that were put in; it adds that the tree is `Flat`
as long as nothing was deleted.  `R_rotIs` to `L_blcIs` show that every rotation,
`RightOutIs` and `LeftOutIs` that the removal of a neighbour, keeps a tree sound and
its keys, whatever the difference of the depths is; that is why the order survives
deletions, though the balance does not.  `RaiseLeftIs`, `RaiseRightIs` and `InsertIs`
carry the depth through an insertion: a flat tree grows by one level at most, and a
rotation takes the level back.  For the queries, `Found` says of the
loop from any node with any node remembered what it ends with.

`Search` (any sorted array; any grouped array, hash function and number of places
that suffices).  `SearchesRightAlways` and `HashFindsAlways` show the two parts of
`LookupsRight` that `Search` states.  Every search is a loop that halves what is left:
`Halve` takes the rows where it returns, those where it turns left, and those it
remembers.  `HalveLeast` and `HalveGreatest` say what such a loop ends with when
everything left of `l` and right of `h` is excluded already, by the least length for
which that fails; `SidesAre`, that rows below, at and above the key follow each other,
is where the order of the array is used.  For the table, `HashInv` is needed while it
is built: every key met so far is in one place or on the stack, with its first row and
its number of rows (`AllHeld`, `PlacesTell`, `StackTells`); the first pass leaves every
key in its own place and without a link (`AtHome`); in the second a key that is not in
its own place is in one that was left over, the places of one hash value are linked
upwards and none is missed (`ChainLinked`), and all places before `row` are taken
(`FilledUp`).  A chain therefore ends (`ChainEnds`), a search meets its key
(`FindEnds`), the place at its end may be linked to the next one without losing
another (`ChainGrows`), and, as there are as many places as keys, the stack empties
before the places end (`StackEmpty`).

Only model-checked: liveness; `TextsStand`, `CryptoRight`, and the parts of
`LookupsRight` other than `Buffers` and `Search`: `MembersKept`, `ConfigRight`,
`RefsRight`, `ConfTextsRight` and `ServicesRight`.  They compare what recursive
definitions compute with what is meant, for every input, and their modules use
RECURSIVE operators, for which tlapm has no SMT backend.  Where a recursion is over
numbers or trees, `AllNumbers`, `LeastNumber` and `AllTrees` took the place of the
library's induction theorems, whose operator parameter the provers at hand cannot
instantiate.

## 6. Where code and text disagree

Shown by violation runs, with the quoted lines in `PROJECT.json`:
`late` (scpool.c:654), `table` (getsvc.c:158), `wakeup` (scpool.c:479),
`tpool_sync` (tpool.c:711), `tpool_register` (tpool.c:804).  For the last: with
gcc 12 and `-O3`, the flags of `CMakeLists.txt`, the compiled `thread_work`
keeps `task` in `r12` across `swapcontext` and has no trace of line 711.

Known limits of the code, which the passing runs exclude by their constants or
the properties do not ask for.  Where a constant is named, TLC finds the
property violated with it.

Client pool:

- scpool.c:586-589: with `flg=-1` a caller gets NULL when all paths are out of
  order, although 597 says it waits; 572: -1 is returned while the connections
  of a path that failed once still work.
- scpool.c:469 and 645: a connection that lost its server is connected again
  without giving its share of the service table back, when `Errno` is negative
  but not -1.
- netconnect.c:67: a connection whose key exchange failed keeps the number of its
  closed socket, and `add_lnk` (scpool.c:328) puts it at the front of the ring, although
  the comment there says "坏连接排队尾" (bad connections queue at the end);
  `ImplementsLines` goes by the number.
- getsvc.c:156: a refused service list leaves `srvn` at -1; every later connect
  on that path spins with `pl->mut` locked.
- netconnect.c:64-69: after a failed key exchange `Net_Connect` returns `errno`,
  which may be 0.

Thread-pool server, wait queue, modules:

- tpool.c:861: `AIO_flg` is set before `task->lock` is taken.  With
  `Races = {"timeout"}` `FiberIntact` is violated: the timeout check falls
  between and a worker enters the fiber before its context is saved.
- tpool.c:906: the timeout check deletes a client whose event a worker has
  received and not yet begun to serve.
- tpool.c:685: a worker reads `status` after it registered the task again; when
  another has marked it for deletion, both delete it (`Races = {"overtake"}`).
- tpool.c:119: `TCB_add` looks at `next` before it locks: two threads that add
  one task break the ring (`Twice = TRUE`, `ImplementsLines`).
- tpool.c:505: `client_del` leaves `call_back` to the task's next client.
- tpool.c:729, 1083: a failed `epoll_ctl` is ignored and the client unheard
  until its timer runs out.
- mod_sc.c:101-108: `wait_sc` leaves on a timeout without a look at the queue; a
  task parked just then waits for the next one that is parked (`"idle"`,
  `NoneStranded`).
- mod_sc.c:123-133: the task's timer may delete its client between the binding
  and `TCB_add` (`"overtake"`, `LentOnce`); a task that is in a queue already is
  not called (`"again"`).
- mod_sc.c:64, 166, 172: the queues are made by the first who asks, without a
  lock; 184: when the thread cannot be created its identifier stays claimed.
- dm_app.c:51, 71: two threads load one module under the read lock, or one searches
  while the tree is turned (`"loaders"`);
  96: the node is read after its mutex was given back (`"signal"`); 154-157: a
  module without its command keeps its count at 1 and is never unloaded.

Sessions:

- TPC_srv.c:57, 84: the server of threads runs an `only_do` before it looks at
  `logined`, be it installed by `conn_init` or by a login that was refused; the other
  two servers look first.
- TPC_srv.c:92: a request with the number of the table's end calls the null
  function there, although the next line logs "没有这个服务号" (no such service).
- PPC_srv.c:86-91: a login that returns 0 replaces the login function, and the
  client can never log in; there is no check of the number's range.
- AIO_tcp.c:41: the receive timeout of a body stays for the next head, which
  then reports a timeout of 0 seconds; 59: the end of the stream with an old
  `EAGAIN` in `errno` is a timeout, with `errno` 0 it is an endless loop.
- rexec.c and sqlc.c do not mark a connection whose call gave up waiting: its
  answer is read by the next call (`"forget"`, `AnswersMatch`); likewise when the
  server gives up waiting for a block (`"putwait"`).
- client.c:91, 99-102: when nothing is read from the input the last package keeps the
  number of the answer before, 0 (another one after an event).  The `Rexec` that waits
  for it takes it; after one that gave up waiting `get_srvname` answers it, and that
  answer is the next call's.
- client.c:304-309: after a short local write `N_Get_File` returns `errno`, which may be
  0, although it gives up the connection; rexec.c:347-350: `PutFile` takes a short
  write for a good one (`"short"`, `StoredIsRead`).
- client.c:200 and rexec.c:251: a read error is taken for the end of the file.
- sqlc.c:41, 217: the counter is decremented before the answer is known; after a
  refused commit or close the forwarder is freed while something is open
  (`Refusals` with `"commit"` or `"close"`).  The end of a transaction that was
  not begun wraps the counter (`Unbegun = TRUE`).
- net_pkg.c:133-138: `SendPack` frees a large receive buffer in which `Echo`'s
  answer lies.

- net_pkg.c:204-223: the room in `RecvBuffer` is for a body no longer than its text;
  one with `T_LEN` above `PKG_LEN` is read behind its end.  `SendPack` makes none, but
  a package of the older build with memzip may be one.  `BuffersKept` names the case.

Libraries:

- tree_del.c: after deletions the tree need not be balanced, although line 1
  says "二叉树平衡删除" (balanced deletion): deleting 1 after inserting 3, 2, 5, 1,
  4, 7, 6 leaves a difference of two levels, deleting 8 and 10 after inserting 5, 1,
  8, 4, 9, 7, 11, 3, 10, 6, 12, 2 one of three at the root.  `TreeRight` asks for no
  bound once something has been deleted; the stored depths stay true.
- patt_copy.c:61: an unknown name reads the element before the first; a list
  that excludes every column copies all of them.
- pack.c:327: a pointer's text loses its escapes where it stands; under GBK a byte that
  was moved may be taken for the first half of a character, so that an escape is kept
  or lost (its comment says "有问题", there is a problem).  `TextsStand` does not ask for
  such texts back.  SRM_json.c:27-30: the copy of such a column points into an object
  that is freed then; json_pack.c:31-33: of a long double the bytes are taken for a text.
- mkvalues.c:26-29 writes null for an empty text where pack.h:124-130 says `''`;
  mkfield.c:116-123: the blank before a name is not skipped behind the name of a table.
- arraylist.c:67-68, 81-82: the array grows to the place an element is put at when that
  is twice as far as it reaches or farther, and the element is written just behind it.
- pack.c:185, 208: the high bit is cleared whatever the flag for GBK says.
- showlog.c:6: "本函数是多进程多线程安全的" (safe for many processes and threads): two
  processes that change the file at midnight each truncate it (`Procs` with two
  elements, `LinesKept`); 199-203: after a `freopen` that failed the lines of the day
  go to `/dev/null`.
- net_pkg.c:260: under `UNDO_ZIP` the byte 0 behind the text is written where the
  text would end if it were not compressed, behind the buffer;
  net_quicklz.c:217-242: a compressed body that comes late or damaged leaves its
  block to nobody; 167: a failing `realloc` loses the old block.
- scpool.c: the last line of `SCPOOLCFG` is lost when it has no newline; after a
  lock that could not be made (-12, -13) `scpool` stays set and the next
  `scpool_init` returns 0; `scpool_free` leaves `SCPOOLNUM`.
- linkhash.c: a look-up in a table with no empty slot left, which removals may
  leave, does not end; json_tokener.c: a comment that ends in an even number of
  `*` is not seen to end.
- pack.c: a null double becomes 0 and a null pointer an empty text; 446: the end of
  the text is noticed behind a column but not behind a structure.
- mkvalues.c:103: a column that is not selected uses up a field; SRM.c: a
  condition that begins with `D` is taken for a whole `DELETE`; `$DB.` is replaced
  in a select and left alone in an update or a delete.
- getdw.c:53: the name of a number that is there already is never freed.
- openauth.c:84-121: the value of an indented line is taken from the wrong place;
  the end of a section is seen only at a label without a blank behind `<`.  The
  last line of a configuration file is lost when it has no newline.  `AccountRight`
  and `EnvironmentRight` ask for files without these, and for references to the
  environment that end where a name cannot go on.
- envcfg.c: `strcfg` frees the compiled pattern that another thread may use;
  chkexec.c: the flag that the patterns are compiled is set before they are.
- filelist.c: only the first name of a later block has a blank behind it; getls.c
  ends a listing only at `ERRNO2` 100, which `filels` never sends: its first package
  that another follows ends the call with -1 and the rest is left on the
  connection.  The last word of a package without a blank is dropped, and 64-66: in
  a target directory given without `/` the slash is put behind the first 2
  characters.  `ListingRight` and `FilesGot` say what is got in spite of these.
- dmapp.c:47, 59: bad JSON is answered even when no answer is wanted, and the
  result -1 of a module that wants its thread to end is given back as if it were an
  object.
- memzip.c may return more bytes than it was given, although its line 6 says it
  never does, and a result of exactly that length is taken for the text itself;
  crc.c:11 gives 0x7ADD as the CRC of "UDFFaaa", the code 0xEA65.

## 7. What is not modelled

`timeout_deal` of the client pool; the exhaustion of memory (`mmap`,
`swapcontext`, `malloc` fail), but where a module names it; more than one
descriptor of a task registered at a time; the numbers of timers; the lock of
the ready queue (a queue operation and its signal are one step).  In the pool,
one thread has one connection at a time.  `scpool_MGR` for a connection
whose `only_do` is 1 (mod_sc.c:157-162): nobody in the repository sets it.  An empty
list of services: `get_srvname` lists every service but the first and could not
answer without one (get_srvname.c:17-30).  What a search meets in a tree that is
being turned, beyond missing its module.  Lengths below 0 in a head.  The heads of the
two older builds, texts of up to 48 digits for which `HEADPACKLENGTH` (sc.h:13) leaves
36 bytes: `socket/CMakeLists.txt:10` builds neither.  The hook `Event_proc` of a transfer;
signals; the options of a listening socket; the child process of `chkexec.c`; the
names of log files by time of day.  Of `pack/`: the conversions of dates and
numbers, lists of columns by number (`json_pack.c:71-90`).  Of json-c: doubles, files (`json_util.c`), the debug functions.  Of DES:
the modes of operation, which `des_old.h` declares and the repository does not
contain.  `quicklz_bata.c` is an older QuickLZ that is not built.  `tcp.c`,
`AIO_fd.c`, `net_memzip.c`, `net_quicklz.c` and `memzip.c` are not built either; the
last three are modelled as variants.  A
third of the repository's lines are headers of other projects (`sqlora.h`,
`ldap/`, `safestack.h`, `crypto.h`), which hold nothing to model; the map's share
of all lines is small for that reason.  The components' notes in `PROJECT.json`
say what is left in each.

## 8. Plan

What is left, most important first:

1. `timeout_deal` of the pool.
2. The making of a server's socket; the child process of a remote command.
3. Proofs that a service is found by its name whatever the sums of the names are,
   and that what was packed is read back, by induction over sets of numbers.
