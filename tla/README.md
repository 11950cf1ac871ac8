# TLA+ models of the real-time market data client

The program keeps a table of the latest traded price of each instrument. One or
more workers each hold a WebSocket connection to the exchange's feed; a frame
travels from the socket through a lock-free ring to a consumer thread, which
parses it and writes the quote into one table that the application reads. This
directory models the parts of that program whose correctness depends on
interleaving, ordering, partial failure or machine arithmetic, checks the models
with TLC on small instances, and proves the main results for all instances with
TLAPS.

References such as `sharder.cpp:142` are to `src/`, `include/` and `tests/` of
the repository.

## The system

| component | state | operations | hard behaviour | correct when |
|---|---|---|---|---|
| `IngestQueue` | slots, `head_`, `tail_` (atomics, wrapping) | `try_push` (socket thread), `try_pop` (consumer thread), `size`/`empty`/`full`, `clear` | no lock: each side acts on an old value of the other's index; indices wrap | a bounded FIFO queue: nothing lost, repeated, reordered or torn; no two threads in one slot |
| `Consumer` | `running_`, its thread | `start`, `stop`, loop pop → parse → upsert → sink | stop during a frame; restart; frames that keep coming | each accepted frame handled once in order; stop returns; nothing after stop |
| `Parser` | prefix to strip | `parse_ltp` | several wrappings and key spellings, epochs in s/ms, two spellings of one token | one quote per tick, one token per instrument |
| `LTPStore` | `unordered_map` under a `shared_mutex` | `upsert`, `get`, `snapshot`, `size` | an assignment of several members under a reader-writer lock | every read is of whole quotes at one instant |
| `WebSocketClient` | `running`, `connected`, the stream `ws`, the IO thread | `start`, `stop`, `send_*`, callback setters; loops `connect_once`, `read_loop`, `reconnect_loop` | reconnection against stop, send and setters, with no lock; blocking calls that may never end | stop joins; a lost connection comes back and is resubscribed; no use of a destroyed stream |
| `SubscriptionManager` | desired and active token sets, batch size, formatter, under a mutex | add/remove, `build_*_batches`, `mark_*` | batches built outside the lock; answers that arrive during the next build | the batches partition exactly what is missing; the active set follows the server; both reach the desired set |
| `Sharder` | workers, desired tokens, headers, `running` | `start`, `stop`, `set_tokens`, `set_access_token`, broadcast | order of start and stop across threads; the initial subscription against the connection | every token of every worker subscribed while connected; sockets have consumers while they run; `start` and `stop` return and leave no thread behind |
| `Auth` | three tokens and an expiry | `login`, `refresh`, `is_expired` | fields absent or of another type, a lifetime per token, beyond an int or not stated, answers that arrive late or never | the tokens belong to one login; what `is_expired` vouches for is accepted, within stated limits |
| `TOTP` | none | Base32 decoding, codes, `verify` | shifts in an `int`, moduli in a word, a window at the edge of the counters | RFC 6238 codes; no code from outside the window |
| `Logger` | level, stream, mutex | `log`, `set_level`, move | a static buffer of the C library, an unlocked read | lines whole, with their own time |
| `HTTPClient`, `Config` | default headers; none | blocking requests; read a file | only the network and the disk | – |

**How they meet.** `Sharder::start` builds, per slice of the desired tokens, a
`SubscriptionManager`, an `IngestQueue`, a `Consumer` and a `WebSocketClient`,
starts the consumers, then the sockets, and sends the subscriptions. The IO
thread of `WebSocketClient` invokes `on_message`, which pushes the raw frame or
drops it when the ring is full (`sharder.cpp:116-120`); the consumer's thread
pops it. The IO thread also invokes `on_resubscribe` after a reconnection, which
builds the batches again and sends them. The consumers of all workers share one
`Parser`, one `LTPStore` and one `Logger` with the application. `Auth` calls
`HTTPClient` and `TOTP` and hands its access token to whoever sets the headers.

## Modules

| module | what it is | models |
|---|---|---|
| `BoundedFifo` | abstract: a FIFO queue of bounded length | what `ingest_queue.h` promises |
| `IngestQueue` | detailed: the ring | `ingest_queue.cpp:20-62` |
| `AtomicStore` | abstract: a table with atomic operations | what `ltp_store.h` promises |
| `LTPStore` | detailed: the map under its mutex | `ltp_store.cpp` |
| `Pipeline` | socket → queue → consumer → table; uses `BoundedFifo` and `AtomicStore` | `consumer.cpp`, `sharder.cpp:113-120` |
| `Connection` | abstract: what other threads see of a client | what `websocket_client.h` promises |
| `WebSocketClient` | detailed: IO thread, application thread, sending thread | `websocket_client.cpp` |
| `Batching` | slices of a list, shared by the next two | `sharder.cpp:50-62`, `subscription_manager.cpp:141-155` |
| `SubscriptionManager` | the two token sets, one builder, a server that answers | `subscription_manager.cpp` |
| `Sharder` | one controlling thread and the workers' IO and consumer threads, each client a `Connection` | `sharder.cpp` |
| `Auth` | one application thread, the server, the clock | `auth.cpp`, the requests of `http_client.cpp` |
| `Logger` | any number of logging threads, the level, the clock | `logger.cpp` |
| `QueueSizing` | operators: `next_pow2` | `ingest_queue.cpp:5-18` |
| `TOTP` | operators: decoder, codes, `verify` | `totp.cpp` |
| `Parser` | operators: `parse_ltp`, and the encodings of a tick | `parser.cpp` |
| `Algorithms` | one call of one of these three, on inputs from small sets | – |
| `*Proofs` | the theorems about the module of that name; `SharderProofs` also has those of `SubscriptionManager` and `Batching`, `AlgorithmsProofs` those of the operators | – |
| `MC*` | what the configurations check | – |

`Pipeline` composes the queue and the table at their *abstract* specifications;
`IngestQueue` and `LTPStore` are shown, by TLC and by proof, to implement them.
`Sharder` composes clients at `Connection`, which `WebSocketClient` is shown to
implement in the same two ways. That is what lets the compositions stay small.

Some operators have a second form whose name ends in what is wrong with it
(`TryPushBegin_FullOffByOne`). They are not part of any `Next`: each states a
plausible slip in the code, and substituting it makes the property it belongs to
fail, which shows that the property watches that line.

### IngestQueue

One action per access to memory the two threads share. `try_push` is
`TryPushFull` (returns false) or `TryPushBegin`, `TryPushWrite`,
`TryPushPublish`; `try_pop` likewise. An acquire load of the *other* side's index
returns any value it has held since the one this thread last saw: `\E n \in
seenTail .. popped`. That is all release/acquire ordering promises, and more
than what an x86 build does. `pushed`, `popped`, `seenTail` and `seenHead` are
history variables; the code's tests read only the wrapped indices. Indices wrap
at `IndexMod`, a parameter that stands for 2^64. `size()` is two steps, because
its two loads are; `clear()` happens only when both threads are outside a call,
as its comment requires.

### LTPStore

`map_[v.token] = v` is a step that inserts a default quote and then a step per
member; a reader copies member by member in any order. A quote's price and time
carry the number of the event, so that a mixture is recognised. The mutex is
`excl` and `shared`.

### Pipeline

The n-th frame from the socket carries event n, so "older" can be said. A frame
is what the parser reads from it: `Garbage`, or a token made of a prefix and an
instrument, which `StripPrefix` normalises as `parse_ltp` does at its end.
`StartExchange`/`StartSpawn` and `StopExchange`/`StopJoin` split `start` and
`stop` where another thread can see the difference. The socket thread's view of
the pops may be old (`seenPops`), as in the ring, so a frame may be dropped
although a slot has just become free; so may the consumer's view of the pushes
(`seenPushes`), so it may find nothing although a frame has just come.

### WebSocketClient and Connection

`io` is the IO thread's next step and `ctl` the application thread's. `running`
and `connected` are the atomics of `Impl`; `ws` is a stream's name, and a stream
that `make_unique` replaces becomes "gone". A network call is a pair of states:
the thread sits in `tcp`, `handshake` or `read` until some step ends the call, if
one ever does. `closing` and `sending` name the stream a thread is inside a
call of, which is how a use after destruction is seen. A stream that `stop`
closes or shuts down, or whose read failed, is "shut": a read of it can only fail,
and is the one read that is bound to end.

The application may call `start`, `stop` and the setters at any time its last
call has returned. `hurried` remembers that it called `start` or `stop` before
the IO thread had set `running`, the one case in which `stop` joins nothing and
a second `start` ends the program by assigning to a joinable thread.

`Connection` has only where the IO thread is, the flag, and whether
`reconnect_loop` has taken over; its operators give the records a step may lead
to, so that a worker of `Sharder` can carry these fields among others.
`ImplementsConnection` maps the eighteen places of the detailed IO thread to its
seven.

### SubscriptionManager

Every operation on the sets is one step, because each holds the mutex
throughout. Building is two: `BuildSubscribe` or `BuildUnsubscribe` takes the
difference under the mutex, in whatever order the hash set is walked, and
`MakeBatches` cuts it afterwards with the batch size of that moment. `Send`
puts one payload at a time on `net`; the server applies payloads in order and
answers each, and `Mark` is `mark_subscribed` or `mark_unsubscribed` for an
answer, as the header asks (`subscription_manager.h:38`). `ActiveFollowsServer`
says where the answers under way lead, token by token: the last of them that
names a token decides, and where none does the active set is already right. `net`, `server` and
`acks` are not in the repository: a connection that keeps order and a server
that answers are what the class is written for. `Sharder`, its only user in the
repository, never marks anything, so its active sets stay empty. Its behaviour
is `ManagerInit`, `ManagerNext` and `ManagerSpec`, so that one module can hold the
proofs of both users of `Batching`.

### Sharder

`workers` is the vector, a worker a record: its `tokens`, whether its consumer
runs (`cons`), the length of its queue (`queued`), the three fields of
`Connection`, what the server was told on this connection (`told`), how many
batches of a resubscription are done (`todo`), and whether a write has failed
(`broken`). `ctl` walks through `start` (`consumers`, `sockets`, `subscribe`)
and `stop` (`stopws`, `join`, `stopcons`, `clear`), one worker a step, while the
other threads run. A write delivers its batch or breaks the connection;
`InitialSend` does nothing on a worker that is not connected, as `send_text`
does. The first connection goes straight to reading and only a reconnection
resubscribes (`websocket_client.cpp:154-159` against `143`). Frames still queued
when the consumer has stopped are destroyed with the queue (`sharder.cpp:227`). A
`stop` that comes before an IO thread's first step leaves that thread running;
such workers are remembered in `overtaken`. The destruction of the workers then
either catches the thread in time (the destructor of `WebSocketClient` stops it
again) or destroys the queue it uses, after which `ctl` is `undefined` and
nothing more is claimed.

### Auth

A token is the number of the login it descends from, the empty string is 0. A
call is a step, the server's grant a step, and the handling of the answer a step
for each way it can end: `LoginTaken`, or `LoginIncomplete`, `LoginThrows`,
`AnswerRefused`, `RequestThrows`. A string field of the answer is absent, empty,
a text or something else, which makes the JSON library throw after the fields
before it have been assigned. Every grant has a lifetime of its own, which the
answer states or not, and which is narrowed to an `int` by what the conversion
does. Time passes whatever is under way: `expires_after` (`http_client.cpp:129`)
does not reach the synchronous calls that follow it, so nothing bounds the time
an answer takes. Two history variables say what an expiry is worth: `held`, when
the access token was granted and for how long, and `dated`, the lifetime the
expiry was computed from and how late its answer was handled. `Overrun` is what
the two allow the expiry to lie behind the token's end.

### Logger

`log` compares with the level without the mutex and takes the time; `Convert` is
`std::localtime` writing the process's one buffer, member by member; `Format`
reads it back; then the lock, three insertions and the unlock. Two members stand
for all. Filtered lines change nothing but the count of calls.

### Algorithms

A behaviour is one call of `next_pow2`, `base32_decode`, `verify` or
`parse_ltp`, each against a definition that does not follow the code: the least
power of two, the bits of the text cut into bytes, the counters of a window,
and the tick from which a frame was made. Widths are parameters (`SizeBits`,
`WordBits`, `CounterBits`, `TimeMod`), small enough in the run that each is
exceeded. Where the code works on bits, a word, a byte or a Base32 symbol is the
set of its one bits: `&` is intersection, `|` union, a shift moves the members.
`MCAlgorithms` has TLC count them (`BitsCount`): borrowing, carrying, shifting and
comparing on sets are subtraction, addition, division and `<` on the numbers.
Loops are recursive functions of the number of passes.
HMAC-SHA1 is the parameter `BinCode`.

## Runs

Bounds are chosen so that each interesting event happens several times; nothing
else depends on them, and where a theorem exists it removes them.

| run | instance | distinct states | shows |
|---|---|---|---|
| `ring` | 8 slots, indices modulo 16, 18 frames | 31k | every slot reused, both indices wrap and pass zero again. All safety properties of the ring, that it implements `BoundedFifo`, and that every accepted frame is handed out unless `clear` discards it |
| `store` | 2 writers, 1 reader, 2 tokens, 2 events | 700k | no torn quote; snapshots are of one instant; implements `AtomicStore` |
| `pipeline` | queue of 2, 2 instruments, one with two spellings, 4 frames | 124k | no accepted frame lost over stops, restarts and overflows; the table holds the last handled quote of each instrument; `stop` returns; an accepted frame is handled unless stopped |
| `ws_client` | 3 stream names, back-off 1, 2, 4, 5 | 75k | stop joins unless it overtakes the thread; no silent death; implements `Connection`; `stop` returns from under the read of a quiet connection, if attempts and `close` end; lost connections come back, if the server at last answers |
| `ws_lifetime` (violation) | 4 stream names | – | a stream is destroyed in use |
| `sharder` | 3 tokens at 2 a connection and 1 a batch, or none; queue of 1 | 87k | the workers share out the tokens; a reconnection has told the server all of them; sockets always have consumers; `stop` leaves no thread but one it overtook; `start` and `stop` return |
| `sharder_subscribe` (violation) | as `sharder` | – | a first connection that comes up late is never subscribed |
| `subscriptions` | 3 tokens, batch sizes 2 and the default, 3 changes, one payload under way when a build starts | 51k | batches partition the difference whatever happens to the batch size; the active set follows the server; both end at the desired set |
| `auth` | 2 logins, lifetimes 1, 3, 5 and 10 a grant with a 3-bit int, margin 1, clock to 5 | 703k | the tokens belong to one login unless a login threw half way; `is_expired` errs by no more than the lateness of the expiry's answer and the difference of lifetimes |
| `logger` | 2 threads of 2 lines, 2 levels, 2 times | 54k | lines are whole |
| `logger_time` (violation) | as `logger` | – | a line shows another thread's time |
| `algorithms` | 8-bit sizes; Base32 texts of up to 8 characters in 13-bit words; 34 clock readings and 16 counters; every encoding of 12 ticks | 170k | the four algorithms give what they should, but for the inputs named below |

**Why the bounds are enough.** The ring has one behaviour per residue of the two
indices and per position of each thread; 16 residues and 18 frames visit them
all. A store operation touches one token, or all: one token written
while another is read is the largest distinct case. A queue of 2 and 4 frames fill, overflow
and drain the pipeline while both spellings of one instrument are under way.
At any moment four streams can matter: the current one, those `stop` and
`send_text` hold, and the next one; a name is used again only when no thread
holds it. With three names an attempt waits while both calls hold two old
streams, until `close` ends; the violation takes four. Three tokens at two
a connection give a full worker with two batches and a partial one with one, and
no tokens give the idle worker; workers meet only in the controller's loops, so
a third would repeat the second. Three tokens and three changes let a token be
added, removed and added again while a payload for it is under way. Two logins
are enough to mix tokens of two, and the four lifetimes are two that a refresh
may exchange for one another, one that turns negative and one that turns short;
five seconds let an answer be later than the margin and a token end while an
older one's expiry still vouches for it. Two threads share the logger's
buffer; two lines each let one be between two of the other. Eight Base32
characters are one whole group of five bytes and overflow the 13-bit word
several times; the two data characters are one with few bits and one with many,
the other two stand for padding and for foreign characters. The clock readings
reach below zero and two windows past the first counter.

**Deadlock** is checked everywhere except in `algorithms` (a call ends), the
logger's runs (threads have written their lines), `ws_client` and `ws_lifetime`,
where the program may have terminated, and the sharder's runs, where its
behaviour may be undefined.

## Fairness

* `IngestQueue`: weak fairness of every step inside a call, strong fairness of a
  pop that sees a frame (the consumer may call `size` in between). The consumer
  polls for ever (`consumer.cpp:23-26`) and a release store becomes visible in finite time. The producer owes nothing once it has returned.
* `Pipeline`: weak fairness of the consumer thread and of a controller inside
  `start` or `stop`, strong fairness of a pop that sees a frame, for the same
  reason as in the ring. The feed need not deliver and nobody need stop.
* `WebSocketClient`: the threads run, and a read of a stream that has been shut
  returns (`ReadEnds`). A read of an open stream need never end: `ws->read` is
  synchronous, and the peer owes neither a frame nor a failure. That `stop` returns
  from under it is therefore the doing of its own `close` and `shutdown`
  (`websocket_client.cpp:167-170`); a `Shut` that only cancels breaks
  `StopReturns`. Two things are assumed because nothing in the client bounds
  them: an attempt to connect ends, in success or failure (`Attempt`), and so does
  the blocking `close` (`StopClosed`). A peer that hangs in a handshake, or never
  answers a close, holds `stop`. For `Reconnects` only, a server asked for ever at
  last answers (strong fairness of success). A write need not end.
* `Sharder`: the controller goes on with a call it has begun, the IO threads run,
  an attempt ends and in the end succeeds, and a read on a broken stream or a
  stopped client returns. Nobody need call `start` or `stop`, no connection need
  fail, and no frame need arrive.
* `SubscriptionManager`: the builder builds both kinds for ever (strong: it may
  be waiting for earlier payloads), sends what it has built, and payloads are
  applied, answered and marked.
* `Auth`, `Logger` and `Algorithms` state no liveness: a request may hang for
  ever and `std::mutex` promises no fairness.

## What is proved

Every theorem holds for all values of the constants under the named assumption
of its module. Each `Invariance` is the same argument: an `IInv` that `Init`
establishes and every action keeps, one lemma an action; the other theorems
follow from it, and a property that a run checks is implied by it. `TypeOK` is
a conjunct of every `IInv`.

* **`IngestQueueProofs`** (`QueueAssumption`: the capacity divides the number of
  values of an index and is below it). What each side has seen is old but never
  wrong, so the counts are ordered `seenTail <= popped <= seenHead <= pushed`
  and never more than a capacity apart; the wrapped indices are the counts'
  residues; accepted frames are unharmed in their slots. Two residues of counts
  less than a capacity apart differ (`ModInjective`), which gives the
  absence of slot races and the exactness of the full and empty tests. With it
  the ring implements `BoundedFifo`: the queue's contents are the slots from the
  oldest frame on. `SizeBounded` needs the callers of `size()` to be the two owners.
* **`LTPStoreProofs`** (`StoreAssumption`). A thread inside holds the lock as its
  step requires; every entry but the one being written is whole; what a reader
  has copied agrees with the table it still holds. The store implements
  `AtomicStore`, an upsert taking effect when it has its entry and a read when it
  gives up the lock.
* **`PipelineProofs`** (`PipelineAssumption`, `AbsentAssumption`). The controller,
  the flag and the thread agree; the queue is what was accepted and not yet
  popped; events grow along the accepted frames; and a token's entry is the quote of
  the last handled frame naming it under any spelling. Hence the table is the
  latest and never goes back.
* **`WebSocketClientProofs`** (`ClientAssumption`). A thread that has not begun or
  is gone has not set the flag; a stopped thread is gone unless it was overtaken;
  `reconnect_loop` runs exactly because the connection is down. Hence `stop`
  joins, nothing dies silently, and the client implements `Connection`.
  `StreamsReplaced` is what remains true beside the finding `ws_lifetime`: the one
  stream that is not destroyed is the one `ws` points to (`OneStream`), it is as far
  as the IO thread's place says (`StreamWorkedOn`), and so a destroyed stream is
  used only by a `stop` or `send_text` that was inside a call when it was replaced.
* **`SharderProofs`** (`SharderAssumption`: no list needs more than `MaxWorkers`
  workers, which makes the set of workers finite). First that the slices of a
  list are pieces of it, no longer than the limit, that leave no element out
  (`SlicesCover`) and, put together again, are the list (`FlattenSlices`), for
  any list and limit. The invariant: a resubscribing
  connection has told the server the batches it is past (`Subscribed`); the
  controller's loops run over existing workers (`CtlInv`); before the loop that
  starts sockets none runs, and behind the loop that stops them only overtaken
  ones do (`SocketInv`); consumers run in between (`ConsumerInv`). One lemma,
  `WorkerStep`, serves every step of a worker's own threads. `TokensCovered` needs
  a second invariant on top (`SharesInv`): the property looks only at the tokens,
  and what keeps it is that no step but `StartBuild` changes any worker's list.
  From the same two invariants and `SlicesPartition`, `TokensNotShared`: a token
  listed once is never subscribed on two connections.
* **`SharderProofs`, the manager** (`SubscriptionAssumption`). A batch's tokens are
  a set, so batches are disjoint only if the difference being cut names no token
  twice (`NeedDistinct`, with `SlicesPartition`); that the server may have been told
  things out of date is no harm to `ActiveFollowsServer`, which is inductive as it
  stands: the server appends, with every payload it applies, the answer that
  decides for its tokens, and a mark removes the oldest, which decides only for
  tokens no later answer names.
  `BatchesShareOut` is an action property, proved from the same invariant.
* **`AlgorithmsProofs`** (`WidthAssumption`, `InputAssumption`). The prover has no
  induction over an arbitrary predicate, so each loop is proved the same way: a run
  of it exists (`Iteration`), and its loop invariant holds at every pass because
  there is no least pass at which it fails (`EveryPass`, from the well-foundedness
  of `<`). `next_pow2`: after a pass with shift `i`, the bits are those within `i`
  below a one of the number, and no pass lowers the highest (`SmearPassKeeps`), so in
  the end every bit below the highest is set and one more is a power
  (`Carried`, `NextIsLeast`). The decoder: between characters, the
  buffer's bits that are still to be used are those of the last symbols, however
  many of the older ones the word has lost (`DecodedBy`, `TakeSymbolKeeps`).
  `verify`: ten to the digits passes through the word unharmed if it fits
  (`ModulusFits`); two clocks apart by at most `window` periods read counters at most
  `window` apart (`WindowCovers`), even before 1970. The parser: which of a
  frame's keys is used depends only on what each list's first usable entry is
  (`OneUsable`, `KeyLists`);
  unwrapping undoes each wrapper (`UnwrapsAll`); the guess between seconds and
  milliseconds is right for every time of the era (`GuessedRight`).
* **`AuthProofs`** (`AuthAssumption`). An answer is for the call under way
  (`GrantForCall`). An expiry is at most the lifetime it was computed from ahead of
  the clock and of any grant under way, and so of the grant of whatever token is
  held with it, but for the lateness of its own answer (`ExpiryBounded`);
  narrowing a lifetime to an `int` never lengthens it. So `is_expired` errs by no
  more than `Overrun`, with no assumption on the time an answer takes or on the
  server's lifetimes. `NeverVouchesForExpired` is what that means for an
  application whose answers come within the margin, of a server that does not
  shorten a lifetime without stating it.
* **`LoggerProofs`** (`LoggerAssumption`, `NobodyAssumption`). The thread between
  lock and unlock is the mutex's holder (`MutexHeld`), and the end of the stream
  is what it has put of its line (`StreamEnds`).

Every safety invariant and action property of a passing run is the statement of
a theorem, and each of the three refinements is one.

**Only model-checked.** Liveness (`EveryFrameDelivered`, the two `StopReturns`,
`AcceptedIsHandled`, `Reconnects`, `OperationsReturn`, `Converges`), which the
prover cannot state. That the bit sets of `QueueSizing` count as numbers do
(`BitsCount`), for 8 bits: `2^k` with a variable exponent is beyond the provers'
arithmetic, so the theorems speak of the bits.

## Findings

Three runs show a disagreement between the code and what it says:

* `sharder_subscribe`: `start` sends the subscriptions while the connections are
  still being made and ignores that `send_text` refused; the first connection
  does not call `on_resubscribe`. A worker that connects later is never
  subscribed (`sharder.cpp:142`, `websocket_client.cpp:154-159`).
* `ws_lifetime`: `connect_once` replaces the stream while `stop` or `send_text` of
  another thread uses it (`websocket_client.cpp:80`).
* `logger_time`: `std::localtime`'s buffer is shared by all threads, so a line may
  carry another line's time, although `log` locks for its output (`logger.cpp:51`).

Read off the code while modelling, at the boundary of what the properties claim:

* `WebSocketClient`. `stop` before the IO thread's first step does nothing, and a
  second `start` then ends the program (the exception in `StopJoins`). A close by
  the peer leaves `running` set, so `start` does nothing until `stop`
  (`websocket_client.cpp:194`). `stop` during an attempt has no stream to close;
  the connect timeout does not reach the synchronous calls, so a hanging
  attempt holds `stop`. `stop` leaves `connected` set: after a restart
  `send_text` tries the old stream. `is_connected` reads a flag nothing writes.
  The callback setters race with the IO thread.
* `Sharder`. Headers are copied when a worker is built: the comment at
  `sharder.cpp:165-166` relies on reconnections to apply new ones, and they use
  the old token.
* `IngestQueue`. `size` from a third thread may wrap below zero (add `"monitor"`
  to `SizeCallers`); a capacity above half the word is rounded to no slots.
* `TOTP`. The constructor allows ten digits, and 10^10 does not fit the 32-bit
  modulus, which becomes 1410065408.
* `Parser`. Microsecond epochs and seconds outside the era that is guessed give
  another time; a token sent as the number 26000.0 is the token "26000.0".
* `Auth`. A login that throws half way leaves tokens of two logins (the exception
  in `TokensOfOneLogin`); one without an access token overwrites all and returns
  false. A refresh without a lifetime, and one that throws half way, keeps the old
  expiry: where the new token is shorter-lived, `is_expired` vouches for it after it
  has ended (`auth.cpp:160-162`). The expiry is counted from the handling of the
  answer, so an answer later than the margin has the same effect (`auth.cpp:131`).
  Both are inside `Overrun`, and the `auth` run reaches both.
* `Logger`. `level_` is read without the mutex; move assignment destroys a mutex
  it holds, and a moved-from logger has none.
* `consumer_test.cpp:34` waits for two entries and asserts at line 41 what the
  third frame does: it may look too early.

## Not modelled

* Memory: allocation failure, reclamation other than of streams, the stack that
  `read_loop` and `reconnect_loop` use up by calling each other
  (`websocket_client.cpp:130`).
* Exceptions from callbacks and sinks; two threads that call `start` and `stop` of
  one consumer at once; the fairness of `shared_mutex`.
* The texts of frames, payloads, requests and log lines, but for what `Parser`
  and `TOTP` do with them; with them `set_mode` and `set_token_formatter`, which
  are read without the lock while payloads are formatted.
* What two overlapping writes leave on one stream (`websocket_client.cpp:209`):
  that is the library's, as are TLS, WebSocket framing, JSON and HMAC-SHA1.
* `Sharder`'s header setters, `num_workers` and `debug_broadcast_text` (which read
  the vector of workers without the lock); tokens listed twice, of which
  `SubscriptionManager` keeps one.
* `HTTPClient`'s URL parsing and TLS, `Config`, moving a `Logger`, and the tests.

## Plan

* `Sharder` with the version of the headers each worker has copied, so that a
  connection's token can be compared with the one last set, and with `num_workers`
  and `debug_broadcast_text`, which read the vector of workers without a lock.
* `WebSocketClient` with two threads sending on one stream.
* Proofs of what the liveness runs rest on: that the steps assumed fair are the
  only ones that can be pending, stated as invariants (someone is inside a call
  exactly when one of its steps is next).
