# A verification of jm_client

`jm_client` is the client of the JMicro platform for IoT devices, written in C: a codec for
messages, an RPC layer with a login session, periodic timers, publish/subscribe, and the event
loop of its STM32 port. Everything runs on one thread: the interleavings that make it hard are
those of events in a queue, of callbacks that call back into the code that called them, and of
datagrams that are lost, late or repeated.

This directory holds TLA+ modules that model the control of that code, TLC configurations that
check them on small instances, and theorems with proofs checked by TLAPS. `PROJECT.json` lists,
for every definition that models code, the lines it stands for.

Contents: [1 inventory](#1-inventory), [2 modules and code](#2-the-modules-and-the-code),
[3 what is checked](#3-what-the-runs-check), [4 bounds and fairness](#4-bounds-and-fairness),
[5 what is proved](#5-what-is-proved), [6 findings](#6-findings),
[7 what is not modelled](#7-what-is-not-modelled), [8 plan](#8-plan), [9 running](#9-running-it).

## 1 Inventory

| Part | Source | State it keeps | Operations |
|---|---|---|---|
| Event queue and main loop | `jm_runner.c` | a ring of `TASK_QUEUE_SIZE` (5) slots with head, tail and `taskEmpty`; the millisecond clock `msEque` | `user_postEvent`, `_jm_user_popEvent`, `jm_runEvent`, `_eventHandler`, `jm_ElseMs` |
| Event listeners | `jm_runner.c`, `jm_msg_elist.h` | a list of listeners per event type, in a hash table | `jm_cli_registEventListener`, `jm_cli_unregistEventListener`, the walk in `_eventHandler` |
| RPC layer, login session | `jm_cli_rpc.h`, `jm_client.c` | `wait_for_resps`, `loginCode`, `loginKey`, `lastLoginTime`, `inited`, the connection status | `jm_cli_invokeRpc...`, `_c_rpcMsgHandle`, `_c_checkRpcTimeout`, `jm_cli_login`, `_c_loginResult`, `jm_cli_logout`, `jm_cli_setLoginKey`, `jm_cli_init`, the socket callbacks |
| Message dispatch, senders, standard time | `jm_client.c` | handlers by message type, senders by channel number, the offset of the server's clock | register, send, dispatch, heartbeat |
| Hash table | `jm_mem.c` | chains of items, `size`, `ver` | put, get, remove, iterate, remove while iterating |
| Timers | `jm_cli_timer.h` | `timerCheckers`, each with `lastCallTime` | register, unregister, the pass over all timers |
| Buffer | `jm_buffer.c` | a ring of bytes with read, write and mark positions and the flags `BB_EMPTY`, `BB_FULL` | put, get, move, mark and return, reset, grow |
| Message framing | `jm_msg.c` | the bytes in a receive buffer | `jm_msg_encode`, `jm_msg_decode`, `jm_msg_readMessage` |
| Extra codec | `jm_msg_extra.h` | typed entries; the map that goes with a message, on the wire | `jm_extra_put...`, `jm_extra_get...`, `jm_extra_encode`, `jm_extra_decode` |
| Maps and lists of values | `jm_msg_emap.h`, `jm_msg_elist.h` | linked lists of entries and a count | put, update, find, remove, copy, add, iterate |
| RPC parameters | `jm_cli_encode.h` | nested lists, maps and values, on the wire | `jm_cli_encodeExtra`, `jm_cli_decodeExtra` |
| Publish and subscribe | `jm_cli_ps.h` | the topics with their listeners and ids, listeners by item type | subscribe, unsubscribe, subscribe after a login, dispatch, publish, reject, answer, write and read an item |
| Key-value client | `jm_cli_kv.h` | none | build parameters and invoke |
| Utilities, constants, configuration | `jm_stdcimpl.c`, `*_def.h`, `jm_cons*.h`, ... | none | strings, numbers, names |

### How the parts interact

* `jm_ElseMs`, called by the port's clock, posts `JM_TASK_APP_CHECKER` into the **event queue**
  once a second. Its listener runs the **timers**; two of the timers are the sweep of the waiting
  requests (`_c_RPCC`, every 3 s) and the attempt to log in (`_c_net`).
* The port posts received datagrams and changes of the connection as events. Their listeners run
  the **message dispatch**, which hands replies to the **RPC layer** and items and answers to
  **publish/subscribe**.
* The RPC layer calls the callback of the request; that of a login changes the session and posts
  `JM_TASK_APP_LOGIN_RESULT`, whose listener in publish/subscribe subscribes all topics again.
* Every callback may post events, issue requests, register and unregister timers and listeners:
  all the tables (timers, waiting requests, listeners) change while something walks over them.
* A message goes through the **codec** and a **buffer**: its map through the extra codec, its
  payload (parameters or an item) through the codec of parameters. On a stream,
  `jm_msg_readMessage` is called by the port on its receive buffer.

### What is hard, and what makes each part correct

* **Event queue.** The slot of the event that is being handled is free for posts; data is owned
  by the event; a full ring refuses silently. Correct: an event is not changed under its handler;
  each block of data has one owner and is freed once; what is accepted is handled, in order.
* **RPC and login.** Replies come late, twice or never and race the sweep; logins are repeated;
  the server may end the session in any reply. Correct: each request gets at most one outcome,
  and gets one; two logins of a session never overlap; a session ends only for the reasons
  that end sessions.
* **Hash table, timers.** Passes are cut short by removals, and callbacks change the table under
  the pass, down to the item and the record that it uses next; string keys are taken for those they
  begin; the clock wraps. Correct: no item is lost; no timer is early, called twice in a pass or
  never again; a one-time timer runs once.
* **Buffer, framing.** Full and empty have equal positions; growth copies a ring that wraps; a
  message may arrive in parts. Correct: bytes come out as they went in, messages as they were sent.
* **Typed values.** Writer and reader are separate functions that must agree on every type, on
  every length (a signed byte, two bytes) and on which optional fields are there; one disagreement
  puts everything behind it out of step. Correct: what can be carried arrives, nothing else does,
  and what follows is read from its start; a map finds what was put last.
* **Publish/subscribe.** Answers are matched to requests of a topic that may have been subscribed
  again; listeners come and go during the dispatch; the login races subscriptions. Correct: the id
  of a topic is that of its last request; listeners are those that subscribed, called once each;
  a topic is subscribed once things are quiet; an answer is not answered; an item carries this
  device's account and goes where its caller asked.

The full list of hazards, with the line where each bites and the properties that watch it, is
under `hazards` in `PROJECT.json`.

## 2 The modules and the code

Every module says in its header what it models. Conventions: constants and variables keep the
source's names; `\* Fault:` operators are wrong variants of the operator that follows them, which
no specification uses: each breaks a property, and so shows that the property depends on the code.
History variables are marked as such; no guard reads them (the server of `PubSub` numbers its
subscriptions by `given`).

```
  EventQueue ------refines----> BoundedFifo      EventQueueProofs
  RpcClient                                      RpcClientProofs
     ^ justified by
  RpcSweep --------extends----> HashTable        PartsProofs ---------> HashTableFacts
  EventListeners, ItemAnswers                    PartsProofs                  |
  ByteStream ------extends----> RingBuffer       PartsProofs                  |
     \-------------refines----> ByteQueue                                     |
  MsgFraming ------extends----> RingBuffer       PartsProofs                  |
  TimerChecker ----extends----> HashTable        TimerCheckerProofs ----------+--> ListFacts
  PubSub                                         PubSubProofs ----------------+
  TypedData, with ExtraCodec, ParamCodec         TypedDataProofs -------------/
     |  and Arrival for its constants
     |----extends----> ItemCodec ----> ItemAddress ----> TypedMap
     |----extends----> MapProgram ----> TypedMap
     \----extends----> WellTyped ----> ValueCodec ----> Wire, TypedMap
```

The `MC` modules give the constants their values. `MCParts` checks four parts that share no state
(`EventListeners`, `ItemAnswers`, `RpcSweep`, `ByteStream`) in one run, in each behaviour of which
one part moves and the others stay in an initial state.

**EventQueue** (`jm_runner.c`). `taskQueue`, `taskHeaderIdx`, `taskTailIdx`, `taskEmpty` are the
code's; `jevent` is the *slot* that the pointer from `_jm_user_popEvent` names, so reuse of that
slot is in the model. `AppPost` and `HandlerPost` are `user_postEvent`, `ElseMs` is `jm_ElseMs`,
`PopEvent` the pop in `jm_runEvent`, `FinishEvent` the end of `_eventHandler` with its free.
`heap` is the set of allocated blocks that events own.

**BoundedFifo** is what the ring promises: accepted events are handled one at a time, in the order
they were accepted, and only a full queue refuses.

**RpcClient** (`jm_cli_rpc.h`, `jm_client.c`). `waits` are the ids in `wait_for_resps`, `live`
those with `startTime # 0`: the code clears `startTime` when a reply comes and leaves the entry to
the sweep. One action per entry point: `InvokeRpc`, `CallLogin`, `SocketEvent`, `SocketDiscon`,
`SetLoginKey`, `Logout`, `ReInit`, `ReceiveReply`, `ReceiveInvalidLogin`, `CheckRpcTimeout`. A
reply needs a request that was sent, and is never consumed: it may come late and again. An instant
the code stores is kept as the ticks since then, saturated where no comparison can tell more; the
clock so runs for ever in a finite state space. `CheckRpcTimeout` removes the set `Swept` in one step.

**RpcSweep** walks the table item by item as `_c_checkRpcTimeout` does, with callbacks that issue
requests while it stands on their item, and shows that the set removed is `Swept`.

**HashTable** (`jm_mem.c`) is the chains and the iterator as operators: `HashPut`, `HashRemove`,
`IteNext`, and `IteRemove` with `StepBack`, which forgets its place at the head of a chain. A lookup
takes the first item of the chain whose key *matches* (`Hits`, `Find`). `Matches` is equality for
the numbers that are the keys of the waiting requests; for the names of timers, which `jm_strcmp`
compares without their case and up to the end of the first, a key matches all that it begins.
Removing `"_a"` so removes `"_ab"` of the same chain when `"_a"` is not there.

**TimerChecker** (`jm_cli_timer.h`): `RegistTimer`, `UnregistTimer` by the application and by
callbacks, `StartPass`, `Walk`, `CallbackReturns`. `inte` is the difference that
`_c_invokeTimerChecker` computes, for a clock of `HORIZON` values that starts again from 0, or,
when `wraps` is false, for a client that stops before the clock reaches its end. `stale` is the
comparison of `ver` in `jm_hashmap_iteNext`; removals count `ver` up, registrations do not.
A callback may call the API any number of times (`CallbackCall`). When it unregisters its own timer,
`freed`, the item of the iterator and the record `c` are freed; a timer that the same callback
registers then may be given the memory of either, and `ite.cur` and `c` are then that timer, or
stay `None`. What the pass reads from a freed record may be anything: `CallbackReturns` takes either
branch, and so may remove the new timer or write the time into its record. `atRisk` names these
timers, and those that another's removal may have taken for another key.

**EventListeners** (`jm_runner.c`, `jm_msg_elist.h`): the list of one event type, `Reg`, `Unreg`, and
the walk `Invoke`, `ListenerReturns` of `_jm_invokeEventListener`. `rest` is what the iterator still
points to: it holds the *next* item before the call. `Removed` is the item that `jm_elist_remove`
really removes: asked for the second of the list it removes the first, and `misplaced` records it.
The specification is `ListenSpec`.

**ItemAnswers** (`jm_cli_ps.h`): devices send each other items (`Publish`); the receiver rejects one
of another account, or its listeners answer it (`Receive`), in both cases with the item of
`jm_cli_respExtra` (`Answer`). `IsResp` is what `_c_dispachPubsubItem` takes for an answer. A device
has two accounts: the one in its configuration, which a login replaces (`LoginResult`), and the one
its items carry, which only `jm_cli_init` brings up to date (`ReInit`) and a logout clears.

**RingBuffer, ByteStream, ByteQueue** (`jm_buffer.c`). `RingBuffer` holds the operators: a write
that does not fit grows the ring (`Grown`), each byte makes room for itself (`PutBytes`), reads and
skips move the read position and set the flags (`MoveForward`), a mark can be gone back to.
`Store` and `GetBytes` are the closed forms of the byte loops. `ByteStream` is one buffer with its
users, `ByteQueue` what a buffer promises.

**MsgFraming** (`jm_msg.c`). `Encode` and the three outcomes of `jm_msg_readMessage`: too short,
cut off, whole. One model byte stands for one header field; the length has one field or two.

**Wire** (`jm_buffer.c`): numbers and strings as sequences of bytes, the typed puts and gets. A read
returns a value and the rest of the buffer, a failure, or "wild" where the code would go on with
memory it never wrote. **TypedMap** (`jm_msg_extra.h`, `jm_msg_emap.h`, `jm_msg_elist.h`): entries,
maps and lists, with the lookup by `jm_strcasecmp`. **ValueCodec** (`jm_extra_encodeVal` and
`jm_extra_decodeVal`): the values that hold no other entries. **ExtraCodec**: the map of a message.
**ParamCodec**: parameters and results of requests, and the data of items. **ItemCodec**
(`jm_cli_ps.h`): the layout of an item, and what the peer reads. **Arrival**: what it means that
entries arrive through one of the two layouts. These modules are operators. The functions of the
code that call themselves for what is nested are constants here: `EncodeNested` is `jm_extra_encode`
as called for a map in a map, `EncodeEntries` its body. `MCTypedData` ties the knot: it defines the
constants as recursive operators. So no module needs `RECURSIVE`, and all can be proved about.

**WellTyped** says which entries a program can make: what each C type of `jm_msg_extra_data_t` holds
(`Holds`), what a value of each type is (`ValueFits`), and `Level[d]`, the entries with less than
`d` maps and lists in one another.

**MapProgram** (`jm_msg_emap.h`) is a program that works on one map: `PutValue`, `RemoveEntry`,
`CopyAll` and `Nest`, one for each operation that changes it; `model` is the function that the map
should be. **ItemAddress** (`jm_cli_publishPubsubItem` of `jm_cli_ps.h`, and `jm_cli_sendMessage` of
`jm_cli_rpc.h`): the map that goes with an item (`PublishExtra`) and the sender that gets it
(`SendMessage`); `Address` publishes an item, `published` holds what was sent. **TypedData** puts
them together: a map is built (`BuildMap`) and sent (`SendExtra`, `SendParams`, `Publish`), or an item is addressed
(`AddressItem`); `got` holds what the peer has read. Each of its steps is a step of `MapProgram` or of
`ItemAddress`, or changes nothing of theirs.

**PubSub** (`jm_cli_ps.h`). `ps_listener` is the list of topics with their listeners, newest
first. `Subscribe`, `UnsubscribeOther` and `UnsubscribeNewest` (the code treats the first item of
the list differently), `LoginResult` (`_c_subTopicAfterjmLogin`), `Subscribed` (the answer, in
`_c_pubsubOpMsgHandle`), `Dispatch` and `ListenerReturns` (`_c_dispachPubsubItem`). `Login` and
`Logout` are what the session does to this part. Requests, answers and the login event may be lost
(`Send`, `Lose`); `missed` records whether that happened since the last login that subscribed
everything. The server (`ServerSubscribes`, `ServerUnsubscribes`) is external: it gives each subscription an id of its own.

The modules of theorems extend those they are about. **ListFacts** holds what they share: adding
an item to a list without repetitions, at either end, unlinking one, the order of the items that
stay, the joining of a sequence of sequences. **HashTableFacts** says what puts, removals and the
iterator do to a table: which keys it has, and which of them are still ahead of the iterator.

## 3 What the runs check

| Run | Question | Checked |
|---|---|---|
| `event_queue` | posts by the application, handlers and the clock, interleaved with pops and frees | `TypeOK`; `HandledIntactUnlessFull`; `SoleOwner`; `AcceptedIsHandled`; `FifoSpec` (the ring refines `BoundedFifo`); `CheckerEverySecond` |
| `event_queue_clobber` | finding 1 | `HandledDataReleased` is violated |
| `rpc_safety` | requests, lost, late and repeated replies, sweeps, logins, logouts, re-initialisation | `TypeOK`; `OneOutcome`; `OneLoginPerSession`; `SessionIsSettled`; `SessionLasts`; `SessionHasKey` |
| `rpc_liveness` | the same with a clock that starts at 0, one chain, and a key set by the application | `OutcomeComes`; `EntriesLeave` |
| `parts` | listeners of an event that register and unregister each other and themselves while they are called | `ListedAreWanted`; `SteadyCalledOnce` |
| | the walk of the sweep, item by item, with callbacks that issue requests | `PassIsSwept`; `LateLeave` |
| | items between devices of the same and of other accounts, which change meanwhile | `NoAnswerToAnswer`; `ExchangesEnd` |
| | the buffer: writes, reads, look-aheads, marks and growth from small capacities | `FlagsAgree`; `QueueUnlessLost` (the buffer refines `ByteQueue` but for a lost write) |
| `answers_loop` | finding 4 | `ExchangesEnd` is violated |
| `timers` | timers with different intervals and delays, one-time timers, any number of (un)registrations by a callback, of its own timer too, passes cut short by removals, keys that match others, with and without the wrap of the clock | `TypeOK`; `TableIsRegistered`; `NeverEarly`; `OncePerPass`; `OneTimeOnce`; `TimersKeepRunning` (without the wrap) |
| `timers_wrap` | finding 2 | `HeartbeatGoesOn` is violated |
| `typed_data` | maps of typed values that are built, changed, copied and nested, and sent with a message, as parameters or as an item; items with every subset of their fields and the address each is sent to | `MapIsModel`; `ExtraArrives`; `ParamsArrive`; `ItemArrives`; `ItemIsAddressed` |
| `framing` | messages of both length formats, cut anywhere by the network or handed over whole | `IntactUntilCutOff`; `EveryMessageRead` |
| `framing_cut` | finding 3 | `StreamIntact` is violated |
| `pubsub` | listeners that subscribe and unsubscribe each other while called; requests, answers and login events lost, late and repeated; logins and logouts | `SubIdIsCurrent`; `ListenersAreWanted`; `SubscribedWhenQuiet`; `CalledOnce`; `NotCalledAfter` |

What these results say, beyond "it holds":

* **The ring** loses and reorders nothing, and the only blocks that leak while no slot in use is
  overwritten are those of refused posts. The handled event changes only by posts that fill the
  ring; then ownership breaks, which is finding 1.
* **One login at a time** is not a matter of a lock but of numbers: a login request must have left
  the table before the next is allowed. The sweep gets through a chain at one late head per pass;
  the proof (section 5) gives the exact price: with K requests ahead of it in its chain a login
  request needs K + 1 passes, so that 30 s, 60 s and a sweep every 3 s allow 8 of them. Nothing
  in the code keeps a backlog that short; the property fails with the 30 s that the comment at
  `jm_cli_rpc.h:192` speaks of.
* **A session has its key**, whichever replies, timeouts and logouts came between, with two
  exceptions: a login reply without the field `data`, for which the code 0 of the start of
  `_c_loginResult` stands, and one whose data has no `loginKey` (`jm_cli_rpc.h:142`), which is taken
  for a success: the client is then logged in without a key, or with the one of an earlier session.
* **A session lasts** until a logout, a reply that says the login is not valid, or the outcome of a
  login from before the last logout: the sweep, which still finds the entry of the session's own
  login after its reply, does not end it (`SessionLasts`), nor does another login.
* **An entry of a clock that reads 0** has `startTime = 0`, which means "answered": it gets no
  timeout. `rpc_liveness` shows that such a request, which is not `live`, still leaves the table.
* **The shortened passes.** When a pass removes a one-time timer at the head of a chain, the rest of
  the chain waits for the next pass: that delays timers and does not starve them. When a callback
  unregisters a timer the rest of the *table* waits, and if a callback does so in every pass (one
  that arms its timer anew, say) the chains behind it wait for ever. `TimersKeepRunning` so has the
  premise that, again and again, a pass comes to its end (`PassCompletes`): then every timer runs.
* **A callback that unregisters its own timer** leaves the pass with freed memory. The pass ends at
  its next step, because `ver` has changed, but first reads `oneTime` from the freed record and
  removes an item or writes the time. What that does reaches timers that the same callback has
  registered after, and no others: `TableIsRegistered`, `NeverEarly` and `OncePerPass` hold for
  the rest. `_ctrl_syncStdTime_checker` (`jm_client.c:269`) is such a callback; it registers nothing.
* **Names of timers** must not begin one another: unregistering one that is not there removes the
  longer one (`Matches`), and registering one is refused while a longer one is there. No two names in
  `src/` do.
* **The buffer** is a queue of bytes, except when an *empty* buffer grows and is then within one
  growth of its maximum: growth clears `BB_EMPTY`, the first byte asks for more room once again and
  is refused, `jm_buf_put_bytes` does not look at that result, and the buffer takes and gives
  nothing until it is reset. `FlagsAgree` states exactly when that can happen.
* **Listeners** that are registered all through a walk are called once, also when the wrong item is
  removed (`misplaced`); until that happens the list is what its callers were told. A listener that
  has the *next* item removed is left out: the walk would go on from freed memory.
* **Subscriptions**: a login heals what was lost before: `SubscribedWhenQuiet` asks that nothing was
  lost *since* the last login that subscribed everything (`missed`). The two weaknesses of
  `jm_cli_unsubscribe` - unsubscribing the newest listener drops the others, and a topic that was
  unsubscribed is not subscribed again until the next login - are named by `dropped` and `ended`,
  and every property says what holds outside of them.
* **Answers are not answered** for items of the types `ctrl` and `slave`, whatever accounts the
  devices are bound to meanwhile. For any other type the mark of an answer is not read: finding 4.
* **Maps** behave as functions from keys to values, until a key is asked for that *begins* another:
  `jm_strcasecmp` ends with the first string, so that the entry of the longer one is found
  (`confused` in `MapProgram`).
* **Typed values** arrive, with the exceptions the properties name. Strings of 128 characters and
  more are cut or not carried (their length is a signed byte), but the reader stays in step. A
  `FLOAT` or `DOUBLE` among parameters puts the reader out of step: the writer falls through to
  `BOOLEAN`. An entry whose value was replaced by a null pointer keeps its old length, which the
  encoder of parameters then reads (`ReadsNull`). An empty map refuses the whole message map.
* **Items** arrive with every subset of their fields, except where the two ends disagree: the
  context, which is written with its type and read without it, bytes, and maps that are empty or
  hold a `FLOAT` (`Agreed`). An item carries the account of *this* device, also when its caller
  passes on the map of a received message. A publish to the server whose caller names no channel
  is never sent.

## 4 Bounds and fairness

| Run | Instance | Why it is enough |
|---|---|---|
| event queue | 3 slots, 2 blocks, clock step 2 of 4, at most 2 posts per handled event (`MaxPosts`) | 2 posts by a handler plus waiting events fill the ring and go round it; a second block is needed for two owners; the clock takes two steps per second |
| rpc | 3 messages (2 for liveness), 2 chains (1 for liveness), timeout 1, login after 4 (3), sweep every tick | 3 messages in 2 chains are the least in which a late head shields a later request of its chain while another chain is swept; the ratio of the times leaves the sweep its passes (see above) |
| rpc sweep (in `parts`) | 5 messages in 2 chains | a chain of 3 has a head, a middle and an end; messages are issued during the pass |
| timers | 3 timers in 2 chains, one of them one-time, whose key matches another's; any number of calls of the API; at most 2 checker events late (`MaxLate`), 1 in `timers_wrap`; a clock of 5 values (8 in `timers_wrap`) | a timer to remove, one behind it in the chain and one, due at every second, in a chain before; a clock longer than every delay plus interval |
| listeners (in `parts`) | 4 listeners | an item before, at, next to and behind the one being called |
| answers | in `parts` 2 devices, 2 accounts, 2 items of the types ctrl and slave, with logins, logouts and restarts; in `answers_loop` 1 item of another type, accounts fixed | an exchange has two ends; two items, because an answer of one may meet the other; accounts that differ, agree, or change between an item and its answer |
| typed data | 3 keys, of which one begins another; 13 values of all types, strings of 127 and 128 characters; at most 2 puts (`MaxPuts`) and 3 operations (`MaxOps`) on a map, nested maps and lists with the short types (`Depth` is 1: the values in use hold entries, which hold none; `Nest` puts the map one level deeper); items with text of 0, 126, 127 and 300 characters, bytes or nothing, and every subset of the other fields | two entries are the least that can be out of step, updated, or removed at the head and behind it; the lengths are those where the layout changes |
| buffer (in `parts`) | bytes 0 and 1, capacities 0, 1 and 3 growing by at least 2 up to 7, writes of 1 to 4 bytes | empty, odd, full and wrapping rings grow more than once and reach the maximum |
| framing | 3 messages with payloads of 0, 1 and 4 bytes, a length of 4 being wide with both of its bytes in use; reads of at most 8 bytes into a buffer for 9, growing to at most 14 | the stream is longer than the buffer, so that it wraps and grows with a message in it |
| pubsub | 1 topic, 3 interchangeable listeners (symmetry; the run has no liveness property), 2 requests | a listener before, at and behind the one being called; a second request makes the first one's answer late. The topics of the list are independent but for the login, which subscribes them all (see the plan) |

Fairness, and why the code justifies it:

* `EventQueue`: the loop pops and finishes (`jm_runEvent` is called for ever, and handlers return).
  Nothing is assumed of posters or of the clock.
* `RpcClient`: the clock goes on and the timer of the sweep is run. Nothing is assumed of the
  network, the server or the application: every outcome that must come is a timeout at worst.
* `RpcSweep`, `TimerChecker`: the clock runs, checker events come, a pass goes on, callbacks return.
* `MsgFraming`: the network hands over what it carries and the receiver goes on calling
  `jm_msg_readMessage`. `EveryMessageRead` is claimed for a network that does not split messages.
* `ItemAnswers`: what has arrived is handled (`Receive`): the port calls `jm_cli_onMessage` for each
  datagram. Nothing is assumed of who publishes, and items may be lost.
* `MCParts`: the fairness of its parts, which asks nothing of a part that does not move.
* `EventListeners`, `ByteStream`, `TypedData` and `PubSub` have no liveness properties and no fairness.

Deadlock is checked except where the system may stop: all messages sent and read (`framing`),
all requests used up (`pubsub`), the one item lost (`answers_loop`).

## 5 What is proved

For every value of the constants that satisfies the module's named assumptions (sizes and counts
are positive, marker values are distinct; nothing else unless the table says so). Assumptions that
a theorem states itself are definitions (`FramingConstants`, `ChunksAndCaps`, `OneTimeWaits`);
`MCMsgFraming` and `MCParts` assert the first two of their instances. "Property" is the
property of a run that the theorem states.

Two groups of assumptions are about the typed values. `ValuesAssumption` and `ItemsAssumption` of
`TypedData` say that values hold what their C types can (`ValueFits`, of `Level[Depth]`, for any
`Depth`), that keys, topics and callbacks have a length that is written in two bytes, that the
fields of an item have the width they are sent with, and that at most 255 entries are put into a
map, which are counted in one byte. The theorems about whole layouts assume `OneLayout`: the
functions of the layout do for what is nested what they do outside, as the functions of the code
call themselves. `OneLayout` is a set of equations and not a property of the code: the recursive
operators of `MCTypedData` satisfy them by definition, and they fix the constants level by level.
That they hold of these operators is not itself proved, because a module with a theorem may not
reach a `RECURSIVE` operator.

| Theorem | Property | Argument |
|---|---|---|
| `EventQueueProofs!TypeCorrect` | `TypeOK` | inductive; one step per action, with `PostEventTyped` for the three that post |
| `EventQueueProofs!HandledIntact` | `HandledIntactUnlessFull` | `HandledInv`: the handled slot is the one before the head, so a post reaches it only as the last free slot, and the ring is full then |
| `EventQueueProofs!SoleOwnership` | `SoleOwner` | `OwnerInv`: `SoleOwner`, and a handled slot that was not overwritten does not wait. Needed because the free at the end of a handler would otherwise take a waiting event's block. Rests on what a post adds to the waiting slots (`PostAddsTail`) and a pop takes away (`PopRemovesHead`) |
| `EventQueueProofs!Implements` | the safety part of `FifoSpec` | the waiting slots read as a sequence (`WaitingIsSeq`): a post appends (`PostAppends`), a pop takes the head (`PopTakesHead`), every other step stutters |
| `EventQueueProofs!CheckerIsOffered` | `CheckerEverySecond` | assumes `StepDivides`: the step of the clock divides the second. The clock is then always a multiple of the step (`OnStep`) and meets the second exactly |
| `RpcClientProofs!TypeCorrect` | `TypeOK` | inductive; `IssueTyped` for the handlers that send |
| `RpcClientProofs!SingleOutcome` | `OneOutcome` | `OutcomeInv`: a request that is `live` has had no reply, one that was timed out has left `waits`, and no id is used twice. A reply clears the `startTime` that the sweep asks for, a timeout takes the entry that a reply asks for |
| `RpcClientProofs!KeyOfSession` | `SessionHasKey` | `LoginResultKey`, with the two replies that give no key, and a reply is given once: its repetitions say the same (`AnswerStays`) |
| `RpcClientProofs!LoginsApart` | `OneLoginPerSession` | assumes `BOOT # 0`, `Enough(K)`: `RPC_TIMEOUT + CHECK_INTERVAL * (K + 1) < LOGIN_INTERVAL`, and of the behaviour `Backlog(K)`: no request waits behind more than K others. `OrderInv`: an entry has waited at least as long as those behind it. `PaidFor`: the time since the login and the passes still needed fit into the budget. Once the login is older than `rpcTimeout` its request and all ahead of it have expired, so a pass takes one of them (`PassTakesOne`) and time and passes are exchanged at par |
| `RpcClientProofs!SessionSettled` | `SessionIsSettled` | the same assumptions; from `OneLoginPerSession`, because a new login is only requested without a session |
| `RpcClientProofs!SessionStays` | `SessionLasts` | the same assumptions; `OpenedInv`: the request that opened the session has had its reply, so that its entry, if the sweep still finds it, is not `live` and gets no timeout; by `SessionIsSettled` no other login waits that could end the session |
| `TimerCheckerProofs!TypeCorrect` | `TypeOK` | `TimerInv`, parts `Typed`, `TableInv` and `PassStands`: every chain has its own keys, each once (`Shape`), and the iterator stands on an item of the table until a callback removes one (`NextStands`, `StepBackStands`) |
| `TimerCheckerProofs!TableHolds` | `TableIsRegistered` | parts `TableInv` and `PassStands`: what puts, removals and the walk's own removals do to the set of keys (`PutShape`, `RemoveShape`, `IteRemoveIsRemove`). No key of a chain is matched by one behind it (`Apart`), because that one would not have been put: so a key that is there is found itself (`FindsItself`), and a wrong one is found only for a key that is not there. A freed item or record is none of the table, or one of a timer at risk (`PassStands`, `FreedReturnKeeps`) |
| `TimerCheckerProofs!CalledWhenDue` | `NeverEarly` | part `WaitInv`: the difference the code computes is as far from the interval as the timer has still to wait, or farther, across the wrap; it is called only where the walk stands (`WalkFinds`) |
| `TimerCheckerProofs!CalledOneTime` | `OneTimeOnce` | part `WaitInv`: a one-time timer leaves the table with its call, which its callback may have done itself |
| `PartsProofs!ListenersListed` | `ListedAreWanted` | `ListInv`: the list has no listener twice and, until a removal goes wrong, those that registered |
| `PartsProofs!EverySteadyIsCalledOnce` | `SteadyCalledOnce` | `WalkInv`: who is steady is called or still ahead, and not both |
| `PubSubProofs!IdOfLastRequest` | `SubIdIsCurrent` | `SubInv`: every reply on its way repeats what the server gave, so the check of the message id is enough |
| `PubSubProofs!OnlyTheWanted` | `ListenersAreWanted` | `WantInv`: each topic is listed once, its listeners once each |
| `PubSubProofs!EveryListenerIsCalledOnce` | `CalledOnce` | `PassInv`: what was called, then what is ahead, is a list without repetitions that holds all that were there at the start and did not go |
| `PubSubProofs!OnlyTheWantedAreCalled` | `NotCalledAfter` | `PassInv`: while the pass is linked, what is ahead is part of the list |
| `PartsProofs!AnswersEnd` | `NoAnswerToAnswer` | assumes that `Types` has no other type than ctrl and slave. An answer is recognised by its mark (`AnswerIsAccepted`); only one of an item and its answer is on its way (`OneOfEach`) |
| `PartsProofs!SweepIsSwept` | `PassIsSwept` | `SweepInv`: what has left the table was to be swept, and what is to be swept has left or is ahead of the iterator. A removal at the head of a chain ends the pass over that chain, and those behind a late head are not swept: `HeadStays` and `HeadsKept` say that a head which was not late stays the head, because new requests go to the end of their chain |
| `TimerCheckerProofs!CalledOncePerPass` | `OncePerPass` | assumes `OneTimeWaits`: a one-time timer has an interval or a delay, as every caller in `src/` gives. `PassInv`: a timer called in this pass that is ahead of the iterator again was removed and registered anew, and is not due; one that has left the table is a one-time timer. Without the assumption a one-time timer that is registered again in the pass that called it may be called in it once more |
| `PubSubProofs!LoginHeals` | `SubscribedWhenQuiet` | `QuietInv`: every topic that should be subscribed is held by the server under its last request or has that request on its way (`NeededComes`), no unsubscription on its way names a subscription that is needed (`EndsNoNeeded`), and the server gives each subscription once (`ServerInv`) |
| `PartsProofs!FlagsAlwaysAgree` | `FlagsAgree` | assumes `ChunksAndCaps`. `BufferInv`: the positions are inside, the flags say empty or full only of equal positions, and a ring with equal positions and neither flag (`Stuck`, it takes and gives nothing) is within one growth of the maximum. What a ring holds is counted from its positions (`At`), and growth unrolls it |
| `PartsProofs!RingIsByteQueue` | `QueueUnlessLost` | the same invariant; the readable bytes are the queue: one lemma for each of append, take, look ahead and clear, across the wrap and the growth |
| `PartsProofs!NothingLostUntilCutOff` | `IntactUntilCutOff` | assumes `FramingConstants`: a payload's length fits the wide length, the buffer starts with room for one read. `FramingInv`: what the buffer holds and what is on its way is the join of the encodings of the messages not yet returned. The header says how long a message is (`PayloadLen` of an encoding is its length), so that a message that is all there is decoded to what was sent, and the join without its first part is that of the others |
| `TypedDataProofs!MapHoldsModel` | `MapIsModel` | `MapInv`: until a key is asked for that begins another, no entry is found in place of one behind it, the values are those that a put leaves (`Wanted`), and the entries are those of `model`, one for each key. One lemma per operation; the copy is followed entry by entry (`PutAllIs` says what the recursive function `after` of `PutAll` is) |
| `TypedDataProofs!ItemGoesWhereAsked` | `ItemIsAddressed` | assumes `AskedAssumption`, which says what callers may pass (keys are numbers; the keys that are read back have a value that is not a `LONG`; ports and channels are unsigned; an operation is not 0), and `EnvAssumption`: the channel to the server has a sender. One lemma per operation says what it leaves alone (`PutFound`, `RemoveFound`, `PutAllFound`); followed through `PublishExtra` (`PublishReads`), they give for each key who was the last to put it, and through `SendMessage` (`SendReads`) that what is taken out is not what the server needs |
| `TypedDataProofs!StringsArrive` | - | lemmas about `Wire`: what the bytes of a number are worth, signed and unsigned, of one, two and four bytes (`SignedInt`, `UnsignedInt`), and that a read of what is at the front of a buffer leaves what is behind it (`BytesRead`, `IntRead`, `UintRead`); then one case for each format of the length (`LengthRead` is the same for `GetLen`). Assumes a length below 65536: it is a `uint16_t` |
| `TypedDataProofs!ScalarsArrive` | - | the same lemmas, one case for each kind of number; `Holds` says what fits the C type |
| `TypedDataProofs!TextIsCut`, `TextArrives` | - | `Cut`: the length as a signed byte. Whatever the length is, the theorem says what the reader gets: a string of 200 characters is refused, one of 255 comes as the null pointer, one of 300 as its first 44; up to 127 it is the string |
| `TypedDataProofs!BytesArrive` | - | assumes that `len` is the number of bytes, from 1 to 65535 |
| `TypedDataProofs!LevelsArrive` | - | assumes `OneLayout`. Every map of up to 255 entries of any `Level[d]` crosses in a message or is refused for an empty map in it. Induction over the depth, as the least depth that fails. In one level, each entry arrives or is one that is left out (`EachArrives`), and the loops of the writer and the reader are followed entry by entry (`EntriesCross`) |
| `TypedDataProofs!ParamLevels` | - | the same for parameters, maps and lists. An entry has one of four ends (`Fate`): it is refused, it puts the reader out of step (a `FLOAT`), it is read as nothing, or it is read with its value; `ParamsCross` follows the loops |
| `TypedDataProofs!ItemGoes` | - | an item without a context arrives with all its fields, for each of the 256 choices of those that are sent. The bits of `dataFlag` tell which (`BitsTell`); a field that is sent is what the next turn of the reader takes, one that is not keeps its default (`TurnGoes`) |
| `TypedDataProofs!PeerAdded` | - | the address of the sender is added behind what was in the data, unless its keys are there (`PutIfNew`) |
| `TypedDataProofs!ExtrasArrive` | `ExtraArrives` | assumes `OneLayout`; `LevelsArrive` with the inductive invariant `MapContents`: the entries of the map are of some `Level[d]`, no key finds another's entry, every key is one of the program's, and there are no more entries than `puts`. Needed because a layout carries only what its types can hold, can be counted in its bytes and is found again by its key. Every operation keeps it: what is put fits, a removal keeps the order, a copy has the same entries, and nesting the map is one level more |
| `TypedDataProofs!RequestsArrive` | `ParamsArrive` | assumes `OneLayout`; `ParamLevels` with `MapContents`; a map that is sent as a list loses its keys |
| `TypedDataProofs!ItemsArrive` | `ItemArrives` | assumes `OneLayout`; `ItemGoes` for text of any length that is written in two bytes, and for the map of the program, with `ParamLevels`, `PeerAdded` and `MapContents` |

Only model-checked: the liveness properties (`AcceptedIsHandled`, `OutcomeComes`, `EntriesLeave`,
`LateLeave`, `ExchangesEnd`, `TimersKeepRunning`, `EveryMessageRead`) and the fairness of `FifoSpec`,
which are out of the prover's reach. Every invariant that a run checks has a theorem.

## 6 Findings

Each is a run that is expected to end with a violation; the trace is the scenario.

1. **A handler's posts overwrite the event it is handling** (`event_queue_clobber`,
   `jm_runner.c:288`). `_eventHandler` frees the data it reads from the ring's slot at its end. When
   the handler has filled the ring, the slot holds a new event: the data of the handled event is
   never released, and that of the new event is released while it waits. `jm_client.h:125` says
   that the flag releases the data.
2. **Periodic timers stop when the clock wraps** (`timers_wrap`, `jm_cli_timer.h:65`). Timers compare
   seconds made from 32-bit milliseconds. After 4294967 s the difference to `lastCallTime` is
   negative and grows back only to less than the interval before the next wrap, so a timer called
   within one interval before the wrap is never called again. `jm_client.c:549` says of `_chb`: one
   heartbeat a minute.
3. **A message read before all of it has arrived is lost, and so is the stream**
   (`framing_cut`, `jm_msg.c:680`). `jm_msg_readMessage` marks the read position and returns `NULL`
   without going back to it; flag and length are gone, and the next call reads the rest as a
   header. `jm_msg.c:635` says that the mark is there to save the position.

4. **Two devices reject each other's rejections for ever** (`answers_loop`, `jm_cli_ps.h:474`).
   `_c_dispachPubsubItem` reads the mark of an answer only in items of type `ITEM_TYPE_CTRL`; a
   rejection of an item of another type looks like an item of a foreign account and is rejected
   again. The comment at `jm_cli_ps.h:418` says that the mark is there so as not to enter an endless
   loop. The fairness is that what arrives is handled; accounts are fixed and nothing else happens.

Seen while modelling, without a run of its own (most are named in a property as its exception):

* a full ring leaks the data of the refused event (`lost` in `SoleOwner`);
* `jm_cli_rpc.h:192` says 30 s where 193 has 60 s; a login reply without `data` leaves the client
  logged in without a key (`jm_cli_rpc.h:119`), one without a `loginKey` in it too (142);
* `_c_commonRpcResult` releases its result (about `jm_cli_rpc.h:631`) and `_c_rpcMsgHandle` releases
  it again (577);
* removing the second element of a list unlinks the first (`jm_msg_elist.h:143`; `misplaced`); a
  listener that unsubscribes itself, or the one that the walk goes on to, leaves a freed item behind
  (`jm_cli_ps.h:524`, `jm_msg_elist.h:65`);
* an item's context is written with its type (`jm_cli_ps.h:894`) and read without it (629); its bytes
  are read with their length in front of them (635); an empty map as data does not arrive (669); a
  publish to the server without a channel is refused (1163);
* the key-value client compares an unsigned byte with the negative numbers of types
  (`jm_cli_kv.h:9`), which are never equal; it is not compiled;
* the query parser keeps an index in eight bits (`jm_stdcimpl.c:1115`), and
  `jm_elist_removeByIdx` (`jm_msg_elist.h:104`) does not walk to the index; nothing calls either;
* the step of the clock is the port's: with one that does not divide 1000 `jm_ElseMs` skips seconds
  (`jm_runner.c:30`);
* a removal by a callback ends the pass over the timers, in every pass if it does so in every pass
  (`jm_mem.c:605`); a callback that unregisters its own timer leaves freed memory to the pass
  (`jm_cli_timer.h:71`); `_c_invokeTimerChecker` uses the record before it asks for `NULL` (65);
* the channel number is an unsigned byte, so that its exhaustion is never noticed (`jm_client.c:387`).

## 7 What is not modelled

* **Registration of senders, dispatch by message type, standard time** (`jm_client.c`): table lookups,
  and an offset that nothing else in `src/` depends on; `Issue` lets every send fail, `SendMessage` in
  `ItemAddress` refuses a channel without a sender.
* **Listeners by item type and the reuse of items** from a cache (`jm_cli_ps.h`): the same list
  operations as the listeners of a topic.
* **Lists**: `jm_elist_get` and `jm_elist_removeByIdx`, which nothing calls; the ownership of keys and
  values (who frees them), here and in the hash table.
* **Key-value client**: compiled only with `JM_KE_ENABLE`, which no file of the repository sets.
* **Utilities, constants, ports, logging**: no state or no code of this repository. Of
  `jm_stdcimpl.c`, `jm_strcasecmp` is modelled (`TypedMap`); the query parser has no caller.
* **Memory**: the pools of `jm_mem.c` are compiled out in this configuration. `mallocWithError`
  resets the system when memory is out, so that no caller goes on; memory is zeroed.

Inside the modules:

* `EventQueue`: data posted without `JM_EVENT_FLAG_FREE_DATA` stays the poster's (`NoData`).
* `RpcClient`: a device with an invoke code and a device id; the wrap of the clock is left to
  `TimerChecker`; other callbacks differ only by the requests they issue, which `InvokeRpc` adds.
* `TimerChecker`, `HashTable`: freed memory is given to the item or the record of a timer that is
  registered in the same callback, or to nothing that the pass could damage; what the pass could
  write to memory of other users of the allocator is left out. `ver` is a signed byte
  (`jm_mem.h:34`): a callback is taken to make fewer than 256 removals.
  Items and records that nobody frees any more, as those of a one-time timer whose item the
  pass removes, are left out with the rest of the memory.
* `ByteStream`: `PutBytes` looks for room a second time at each byte; `jm_buf_put_u8` and
  `jm_buf_put_s8` do not, so that of them the model loses more than the code. Buffers that wrap another one, `jm_buf_move_forward(0)` on a full buffer and a mark
  kept across writes are left out; no size is above `MAX_SHORT_VALUE`, so that the 16-bit sum in
  the growth does not wrap.
* `ItemAnswers`: of an item what decides about rejection and answer; its data is in `ItemCodec`.
* `MapProgram`: the copy of a map stops in the code at an entry whose key is 0 or `NULL`; the keys of
  the model are neither.
* `TypedData`: an item is written once. The bits of `dataFlag` stay from one writing of an item to
  the next (`jm_cli_ps.h:819`): an item that is changed and published again is not covered.
* `MapProgram`, `TypedData`: a build with 32-bit pointers and `NET_DATA_BIG_END`; the two halves of a `LONG` are kept
  apart, because the code moves them through pointers. Capacities of buffers are left to
  `ByteStream`. The peer is the same code.
* `MsgFraming`: flag bits other than `FLAG_LENGTH_INT` are left out, the extra map is in `ExtraCodec`; the receive
  buffer has room for one network read when it is created.
* `PubSub`: unsubscribing before the answer to the subscription sends the id 0 (`jm_cli_ps.h:365`); what
  the server does with it is not known from this code. A listener does not unsubscribe itself while it is being called (`jm_cli_ps.h:524` would
  read its freed item: a misuse with no defined outcome); payloads and channels are left out.

## 8 Plan

Done, in the order of importance: the event queue with its refinement, the RPC layer and the
session, the hash table and timers, the event listeners, subscriptions - each with its proofs -, the
answers between devices with the proof that they end, the buffer and framing with theirs, and the
codecs and items, with the proofs that what they carry arrives. Left:

1. **Session**: EventQueue, RpcClient and PubSub composed, the reply posted as an event and
   `JM_TASK_APP_LOGIN_RESULT` as the event that the ring may refuse (now `missed` in `PubSub`).
2. `PubSub` with two topics in a run (the theorems hold for any number), and its listeners by type.
3. **StdTime** (`jm_client.c`, from line 121 and from 241): the offset to the server's clock.

## 9 Running it

```
tlasany EventQueue.tla                                # parse
tlc -config event_queue.cfg MCEventQueue.tla          # check; see "runs" in PROJECT.json
tlapm EventQueueProofs.tla                            # prove; the last two hold the shared lemmas
tlapm RpcClientProofs.tla
tlapm TimerCheckerProofs.tla
tlapm PubSubProofs.tla
tlapm PartsProofs.tla
tlapm TypedDataProofs.tla                             # about a quarter of an hour
tlapm HashTableFacts.tla
tlapm ListFacts.tla
```
