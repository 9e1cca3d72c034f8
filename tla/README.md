# TLA+ models of the proxy

This directory holds TLA+ models of the PostgreSQL logging proxy in `src/src`.
Every module is translated from the C++ source. `PROJECT.json` maps each definition to
the source lines it models. It also lists every component, run, mutant, finding and
hazard.

## 1. The system

The proxy accepts clients, connects each one to the server, and forwards bytes both
ways. It also logs the traffic.

- **Peer and lines.** Each client/server pair is a *peer* (`transfer_loop_t`) with two
  *lines* (`transfer_line_t`):
  - the client line, for bytes read from the client socket;
  - the server line, for bytes read from the server socket.
- **Buffer.** A line owns a `buffer_t`: one writer cursor over pages and K = 2 reader
  *lanes*. Lane 0 is for the sender and lane 1 for the logger.
- **Slots.** A line has K+1 *slots*. Slot 0 is the writer, and 1..K are the lanes.
  Each slot has:
  - an `atomic_flag` lock;
  - the owning task;
  - a *transfer flag*: `operational_error` (-3), `descriptor_error` (-2),
    `descriptor_shutdown` (-1), `no_transfer_flag` (0) or `data_pending` (1).
- **Registry.** The conveyor (`transfer_conveyer_t`) keeps a list of loops plus a
  descriptor hash, under a `shared_mutex`:
  - per-line operations take it shared;
  - `add_peer` and `drop_peer` take it exclusive.
- **Pages.** Pages come from the pager (`memory_pager_t` over `cache_t`). A page goes
  back when its last `shared_ptr` owner drops it.

The worker threads (`proxy.h`) are `hardware_concurrency` copies of each of these:

| worker | side | slot | what it does |
|---|---|---|---|
| connector | — | — | accept, connect, `add_peer`, register the 4 epolls, hand the cleanup stack to the peer |
| receiver | each | 0 (writer) | sweeps `data_pending` lines (try-lock); one-shot epoll events (`write(fd)`, forced lock); `recv` → flag |
| sender | each | 1 (lane 0) | reads lines with flag `no_transfer_flag`; `other_side()` (registry shared); `send` → flag |
| logger / psql logger | each | 2 (lane 1) | reads lines with flag `no_transfer_flag`; writes the log or feeds the frame decoder |
| senders helper (one per side) | each | 1 (lane 0) | EPOLLOUT edge on socket T → `flag(T, lane 0)` clears `data_pending` (forced lock) |
| supervisor (one) | — | all | every 100 ms: `drop_peers` (dead flag → take all 2(K+1) slots → erase); memory policy |

Memory back-pressure runs through the `resource_waiter_t` and the `exceptor_t`. When
`new` throws `bad_alloc`, the thread waits on the waiter, and the supervisor pauses or
resumes consumers. Readers sleep on a per-lane `signal_t` until a receiver notifies.

## 2. Inventory: state, operations, hard behaviours, properties

| component | state | operations | hard behaviours | what makes it correct |
|---|---|---|---|---|
| buffer (buffer.h) | writer page/pos, lane queues of [page,pos,size], last_page_/last_pos_ | `advance_writer`, `writer_page`, `lane_t::put`, `lane_t::advance` | coalescing into the back node; resuming a drained page at last_pos_; page reuse | each lane reads exactly the committed stream; no page is freed while referenced |
| pager/cache | free stack, blocks in existence | `get_page` (take or allocate), page destructor (store or destroy) | empty cache allocates; full cache destroys | blocks in use are never on the free list |
| conveyor | list, slot locks/owners, flags, registry lock | `add_peer`, find/iterate, `write`, `read`, `flag`, `other_side`, `drop_peers`/`drop_peer` | forced spin under the shared lock; drop with a bounded wait; give-up | no use of an erased peer; dead flags persist; drop leaves no locks behind; dead peers are eventually dropped |
| workers | per-thread phase | receive / send / log / helper steps | EAGAIN back-pressure; one-shot re-arm; EOF | every committed byte is eventually forwarded |
| connector | descriptors and registrations held, the cleanup stacks, attempt index | accept, socket, connect retries, EINPROGRESS wait, `add_peer`, `register_epoll` ×4, hand-over | a failure at any step; stop during a wait; peer visible before hand-over | every exit releases what it acquired, in a safe order, or hands it to the peer |
| signal | `blocked_cnt_`, `notify_cnt_` | `wait`, `notify_one/n/all` | waiter entering between notify and wake-up | a notified waiter wakes up |
| resource waiter | `counter_`, signal | `wait`, `adjust_resource`, `release_tasks` | counting only while blocked; reset on threshold | a blocked producer is released within bounded ticks |
| drop vs. memory wait | slot holder, utility flag, yield flag, get_locks' attempts | try-lock, read the task, read its flag, yield, sleep; the wait's timeout/notify; the failure message | a yield landing on the wrong wait; a yield stored after the wait ended | a blocked holder lets go; a yield cancels only the wait of the peer being dropped |
| supervisor policy | pause flags, utility flags | pause on block, `release_tasks`, resume | pause/resume races | consumers are not paused forever |
| frame decoder (postgre_msg.cpp) | per-socket partial frame | `add_data`, the framing state machine | frames split across pages | decoded frames equal the reference framing |

## 3. Modules

Modules are listed in plan order: the most important behaviour comes first.

| module | models | composes / refines |
|---|---|---|
| `FanOut` | abstract promise of a line: one ordered stream, each lane receives a prefix | — |
| `Buffer` (+ `MCBuffer`) | buffer.h, cache.h, memory_pager.h, write_operation/read_operation data path | refines `FanOut` via `INSTANCE FanOut WITH stream <- committed bytes, got <- consumed` |
| `Conveyor` (+ `MCConveyor`) | transfer_conveyer.h locking, flags, add/drop; the receiver, sender, logger, helper, connector and supervisor steps that use them | buffer contents abstracted (they are `Buffer`'s job) |
| `SenderFlow` | sender back-pressure: EAGAIN → `data_pending`, EPOLLOUT edges, helper clearing per socket | one peer, both directions |
| `Signal` | signal.h `do_wait`/`do_notify` and the count operations of `notify_all/one/n`, as operators over the signal's variables | extended by the next two |
| `DataSignal` (+ `MCDataSignal`) | one lane's data signal with the readers that wait on it (reader.h) and the receivers that notify it (receiver.h) | extends `Signal` |
| `ResourceWaiter` (+ `MCResourceWaiter`) | resource_waiter.h, the pager's `get_page`/`free`, exceptor.h's bad_alloc wait, the supervisor's release/pause/resume | extends `Signal` |
| `Connector` (+ `MCConnector`) | connector.cpp `add_peer` whole, destructoid.h's cleanup stacks, exceptor.h's `except`/`prepend_or_call` | the conveyor's `add_peer` and `drop_peer` as single steps (`Conveyor` composes them with the workers) |
| `DropYield` (+ `MCDropYield`) | `drop_peer`'s get_locks against a receiver blocked for memory: task.h's `yield`/`is_yielding`/`utility_flag_helper`, the memory wait's stop condition, `except`/`show_message_except` on write_operation's failure path | the slot is the first one get_locks takes; the rest of the drop is one step |
| `PgFrames` (+ `MCPgFrames`) | postgre_msg.cpp `add_data`/`process` as RECURSIVE operators over byte chunks, fed by `psql_logger_t::read_data` | checked against a reference log of the messages sent |

### Buffer

Buffer models one line, with bytes named by their index in the writer's stream.
- **Variables:**
  - `writerPage`/`writerPos` are `writer_page_`/`writer_pos_`;
  - `lane` holds the node queues;
  - `lastPage`/`lastPos` are `last_page_`/`last_pos_`;
  - `memory` is the block contents;
  - `cache` is the free stack and `allocated` is the set of blocks that exist;
  - `consumed` is the history of what each reader took.
- **Actions:**
  - `GetData` is one `get_f` result.
  - `CopyCommit` is one inner pass of `write_operation`: `advance`, then `page()`
    (taking a block), then memcpy, then `advance_writer` → `put` on every lane.
  - `ReadLane(l, n)` is one pass of `read_operation` plus `lane_t::advance`, including
    the pop into last_page_ and dropping the previous page.
- **Page ownership:** a page goes back to the pager (`Free`: store or destroy) when no
  owner is left (`Owned`).

### Conveyor

Conveyor models the locking protocol.
- **Variables:**
  - `lock[p][s][i]` is the slot owner (a worker, the supervisor, or `Free`);
  - `flag[p][s][i]` is the transfer flag;
  - `armed` is each receiver socket's one-shot readiness;
  - `shared`/`exclusive` are the holders of the registry lock (readers-preferring, as
    in glibc's default rwlock);
  - `pc`/`target` are each worker's phase;
  - `spc`/`sPos`/`sSlot` are the supervisor's place in `drop_peers` and `get_locks`;
  - `creg` is the connector's registration progress.
- **Worker operations:** each is split at the points where it waits for a lock.
  - `Find` is `find_handler`, with try-lock under a shared lock.
  - `EpollEvent` + `SpinAcquire` are the forced handle, spinning with the registry held
    shared.
  - The sender's `OtherSide` needs the registry shared.
  - `WriteDone`/`SendDone`/`LogDone`/`HelperDone` store the flag the operation can
    leave and release the slot.
- **Buffer contents:** `Conveyor` abstracts them to which flags an operation can
  leave.

### SenderFlow

SenderFlow models one peer, with each socket's send buffer as free space.
- `Send` sends until done or EAGAIN. On EAGAIN it sets `data_pending` and SOCK_NOSPACE
  on the destination.
- `Drain` is the remote end reading. It raises an EPOLLOUT edge if SOCK_NOSPACE was
  set.
- `HelperEvent(t)` clears the flag of `line(t)`, exactly as `conveyer->flag(sock, …)`
  does.

### Signal, DataSignal and ResourceWaiter

`Signal` has the signal's state:
- `mx` is the holder of `mx_`;
- `blocked`/`notifyCnt` are `blocked_cnt_`/`notify_cnt_`;
- `wst` is each waiter's place in `do_wait`;
- `nst` is each notifier's place in `do_notify`.

Its operators split the two functions at the points where another thread can step in:
- `do_wait` becomes `WaitCheck` (lock, condition true), `WaitSkip` (condition false),
  `WaitBlock` (l.49-50: `++blocked_cnt_`, `notify_cnt_ = blocked_cnt_`, unlock in
  `wait_for`) and `WaitWake` (counts differ: `--blocked_cnt_`).
- `do_notify` becomes the unlocked pre-check, as `NotifyPre` or `NotifySkip` (l.27),
  then `NotifyLocked` (l.29-36).

The modules that use a signal conjoin these operators with their own state changes.
- **DataSignal:** readers `Read` lines or find none (`NoData`), then run the wait with
  the condition `ready_read <= reader_num_`. Receivers `Commit` k lines and notify with
  `notify_n(k)`, using the `NCnt` count operation.
- **ResourceWaiter:**
  - pages move between the cache, use and the heap (`GetPage`, `FreePage`);
  - `BadAlloc` is a bad_alloc in a task: it sets the utility flag and pauses the
    consumers;
  - `AdjustLocked` is `adjust_resource` (counter_ updated inside notify_all's
    condition, reset when it passes `required_` or goes below 0);
  - `SupTick` is the supervisor's memory policy.

### PgFrames

PgFrames models `protocol_message_t` for one descriptor as a record `dec` that holds
`state_`, `type_`, `type_byte_`, `size_`, `cur_size_`, `size_bytes_` and `data_`.
Pages are flattened into one byte sequence.
- `AddData`, `SizeStep`, `Size4Step` and `DataStep` are `add_data`, split at its
  states.
- `Process`, `ProcessTypeless` and `ProcessTyped` are `process`.
- `get_byte`, `skip_data` and `too_big` become `ReadDec`/`ReadChunk`, `SkipAll` and
  `TooBig`.
- `Finish` is the final check and the recursive call on the rest of the page.
- Length bytes go through `Int32BE`, as `size_` is an `int`.
- A skip amount outside the page is undefined behaviour, so the decoder goes to
  `Undefined` and stops decoding.
- A message carries its own length field (`len`). `MCPgFrames` builds well-formed
  messages with `Msg`, and `MCBadLength` sets lengths a hostile client can send.
- `CanRead` requires a read count in `0..size_`, as `get_byte` throws once `size_`
  goes negative.

Payload fields (c-strings, parameter blocks) are abstracted to reading `size_` bytes,
which is what `process` reads of a well-formed message. The typeless codes are decoded
because the dispatch depends on them.
- **State:** `msgs` is the stream the client sends, `rest` its undelivered bytes, and
  `out` the log records.
- **Actions:** `Deliver` hands the next 1..`MaxChunk` bytes to `add_data`. `Idle` is
  the reader waiting once everything is sent.

### Connector

- `open` is the set of descriptors and registrations add_peer holds: `client`,
  `server`, the scratch `epoll`, `watch` (server_sock in it) and `r1`..`r4` (the four
  worker epolls, in the order of l.147-150).
- `stacks.cleaner` and `stacks.epoll` are the operations the two `destructoid_t`s will
  run, first element first; `Prepend` is `destructoid_t::prepend`. `disc` is the
  peer's `disconnector_` after the swap.
- `conv` is the peer's entries in the conveyer registry: its two hash keys and its
  list element. `AddToConveyor` is the conveyer's `add_peer` as one step (it holds the
  exclusive lock), with a bad_alloc possible at each of the three insertions, followed
  by the catch block's `Undo`.
- One action per statement group of `add_peer` (`Accept`, `Socket`, `Connect`,
  `EpollCreate`, `EpollAdd`, `MakeEpoller`, `Wait`, `SockOpt`, `Backoff`, `Shutdown`,
  `MakePeer`, `AddToConveyor`, `Register`, `Handover`). Each takes every outcome of
  its system call or `except()`. A failing one calls `Unwind`, which runs what
  `prepend_or_call` called itself, then `epoll_cleaner`, then `cleaner`, as the C++
  scopes do.
- `Exec` runs one cleanup operation. An operation whose descriptor or registration is
  already gone goes into `ebadf`. `close` also removes the descriptor's epoll
  registrations, as the kernel does.
- `Drop` is `drop_peer` erasing the peer, which runs the disconnector. `NextClient` is
  `one_step` calling add_peer again. `SetStop` is another thread stopping the task.
- `RetryLimit` is the code's 5 (`i < 5`): at most 6 connect attempts.
- Fairness: `WF_vars(AddPeerStep)`. The connector thread is never starved. Its epoll
  wait ends because the kernel completes or fails a pending connect (TCP's SYN
  retries are bounded). `Drop` and `SetStop` are not fair: nothing forces them.

### DropYield

- Receiver: `Take` (the sweep or an epoll event locks a slot; `write_handle` needs
  `conveyer_mutex_` shared, so `Take` waits while a drop is under way), `Finish` (write_operation
  stores receive()'s flag, `ok` or `dead`, and unlocks), `NeedMemory` (a page
  allocation throws bad_alloc; `utility_flag_helper` sets `task_blocked`), `Timeout`
  and `Notify` (`wait_for` returns; `stop()` runs `is_yielding`, see `WaitEnds`),
  `Unblock` (the helper resets the flag; `except` retries or fails), `FailMsg`
  (`show_message_except` may itself wait for memory; then `operational_error` and
  unlock).
- Supervisor: `Tick` (check_flags finds a dead flag), `Try` (the loop condition:
  try-lock, then the desperate bound; success erases the peer), `Check` (l.526
  `active_task`), `ReadFlag` (l.529 `utility_flag`), `Yield`, `Sleep`.
- `OtherDies` is another slot of a peer reading EOF.
- Timing: a sleep after a yield is 1ms + `max_response`, longer than the task's
  `wait_for(max_response)`. So `Sleep` after a yield waits until the yielded wait has
  run `stop()`. This is the only timing the model assumes.
- Bounds: two peers (a yield meant for one can land on the other), `MaxAttempts = 3`
  sleeps before giving up, `PagesPerWrite = 2` allocations per write_operation.
- Fairness: weak fairness on the receiver's steps and on the supervisor's. `Notify`
  (memory freed) and `OtherDies` get none.

## 4. Runs

| run | cfg | expect | checks |
|---|---|---|---|
| buffer_pass | MCBuffer.cfg | pass | `BlocksAccounted`, `FanOutRefinement`, `AllCommittedDelivered` |
| conveyor_pass | MCConveyor.cfg | pass | `NoUseAfterDrop`, `DeadFlagsStick` |
| conveyor_lock_leak | MCConveyor_leak.cfg | violation | `NoOrphanedSlotLock` |
| senderflow_stall | MCSenderFlow_stall.cfg | violation | `AllForwarded` |
| datasignal_lost_wakeup | MCDataSignal_lost.cfg | violation | `AllRead` |
| waiter_starvation | MCResourceWaiter_starve.cfg | violation | `ProducerReleased` (two producers) |
| connector_pass | MCConnector.cfg | pass | `NoStaleRelease`, `ReleasedOrOwned`, `AddPeerReturns`, `RegistryWhole` |
| connector_wiring | MCConnector_wiring.cfg | violation | `PeerFullyWired` |
| yield_pass | MCDropYield.cfg | pass | `BlockedHolderReleases` |
| yield_stale | MCDropYield_stale.cfg | violation | `NoInnocentCancel` |
| pg_pass | MCPgFrames.cfg | pass | `DecodedAsSent`, `FramingInSync`, `AllLogged` |
| pg_malformed_length | MCPgFrames_badlen.cfg | violation | `DecodeErrorContained` |

Every passing run also checks its module's `TypeOK`.

What the runs show:

- **buffer_pass.**
  - The refinement shows that the coalescing rule in `put` and the `last_page_` resume
    rule deliver exactly the committed stream to each lane, in order. A resume at 0
    (mutant `PutResumeAtZero`) breaks it.
  - `BlocksAccounted` shows that the blocks that exist are exactly the referenced ones
    and the free-list ones, with no block cached twice. The last reference's
    `page_t` destructor always stores or destroys the block, so none leaks. This is
    the bound the pager keeps: memory is the pages in use plus at most `cache_size`.
  - With 4 blocks and a 2-block cache, both a take from an empty cache and a store
    into a full one happen. A store that keeps a block it cannot cache (mutant
    `FreeNoDestroy`) breaks `BlocksAccounted`.
  - `AllCommittedDelivered` shows every committed byte reaches every lane.
- **conveyor_pass.**
  - `NoUseAfterDrop` shows `drop_peer`'s all-slots rule keeps every worker off an
    erased peer. This includes spinners, which hold the registry shared.
  - `DeadFlagsStick` shows a dead flag is never overwritten before the drop. The reason
    is that the receiver socket is not re-armed after EOF or an error, and the helper
    clears only `data_pending`.
- **conveyor_lock_leak** (finding, code bug). The trace runs:
  1. a sender takes lane 0 and the supervisor starts a drop;
  2. the sender blocks in `other_side()` on the exclusive lock;
  3. `get_locks` times out and `drop_peer` returns holding the slot locks.

  No later attempt can take those slots again.
- **senderflow_stall** (finding, code bug). The trace runs:
  1. a client→server line hits EAGAIN on the server socket;
  2. the server socket's EPOLLOUT edge clears the server line's flag;
  3. the client line stays `data_pending` and its bytes are never sent.
- **yield_pass.** `BlockedHolderReleases` shows that a receiver blocked in
  `except()`'s memory wait, holding the slot of the peer being dropped, lets go of the
  slot even if memory is never freed again. The yield ends the wait, the write fails
  and the handle unlocks, and a give-up is followed by a retry on the next tick. A
  `Check` that never yields (mutant `CheckNoYield`) leaves the receiver waiting for
  ever. The property is stated for behaviours in which memory notifies eventually
  stop. While they keep coming, `show_message_except` may retry its own allocation
  for ever, and that is not a drop question.
- **yield_stale** (finding, code bug). The trace runs:
  1. the receiver holds p2's slot and blocks for a page;
  2. the supervisor takes `conveyer_mutex_` exclusively to drop p2. It sees the
     receiver in the slot (l.526) and reads `task_blocked` (l.529);
  3. memory comes back, the receiver's wait ends, and it finishes its write on p2;
  4. the supervisor yields (l.530), sleeps, finds the slot free and erases p2;
  5. the receiver takes p1's slot, since `write_handle` now gets the shared lock. It
     blocks for a page, and the stale yield (task.h:107) ends that wait with false;
  6. write_operation marks p1 `operational_error`, and the supervisor drops a healthy
     peer.

  `Take` waits while a drop holds `conveyer_mutex_` (l.498-501 against l.623), so the
  receiver cannot move to another peer during `get_locks`. The flag stays set because
  `yield_flag_` is cleared only by `is_yielding()` inside a wait, or when `run()` ends
  (task.h:121).
- **datasignal_lost_wakeup** (finding, code bug). The trace runs:
  1. reader 0 evaluates its condition under `mx_` and finds nothing readable;
  2. a receiver commits a line;
  3. the receiver's unlocked pre-check reads `blocked_cnt_ = 0` and drops the
     notification;
  4. the reader blocks.

  A `wait_for` timeout only re-tests `blocked_cnt_ == notify_cnt_`, so the line stays
  unread until another commit.
- **waiter_starvation** (finding, code bug). The trace runs:
  1. two producers are blocked and `release_tasks` sets `notify_cnt_` to 0;
  2. one of them wakes, retries, fails again and re-enters `do_wait` before the other
     has re-taken `mx_`;
  3. l.50 sets `notify_cnt_ = blocked_cnt_` again and cancels the other's wake-up.

  This can repeat for ever.
- **connector_pass.** 904 states: every failure point of add_peer, up to 6
  attempts, and a stop at any point.
  - `NoStaleRelease`: no cleanup operation acts on a descriptor or registration that
    is already released. The stacks run DEL and shutdown before close. With
    `destructoid_t::append`'s order (mutant `PrependAsAppend`), `shutdown(server_sock)`
    runs after its close.
  - `ReleasedOrOwned`: every return releases everything. A peer handed over has its
    sockets open, and the disconnector releases all that is still held.
    `destructoid_f` without its immediate `op()` call (mutant `PrependOrCallNoCall`)
    leaks the descriptor just acquired.
  - `AddPeerReturns`: every call returns. A retry that does not advance `i` (mutant
    `BackoffNoCount`) loops for ever on EAGAIN. `TypeOK` bounds `i` by 5, and retrying
    while `i <= 5` breaks it.
  - `RegistryWhole`: the conveyer's `descriptors_hash_` holds a peer's two keys
    exactly while `conveyer_` holds the peer. This holds whichever of add_peer's three
    allocations throws, across `except()`'s retries, and when `except()` gives up. A
    catch block that forgets the server key (mutant `UndoNoServer`) leaves a key that
    maps a descriptor to `conveyer_.end()`.
- **connector_wiring** (finding, spec/code divergence). `register_epoll`'s result is
  ignored (l.147-150). When an `EPOLL_CTL_ADD` fails (ENOMEM, or ENOSPC at
  `max_user_watches`), add_peer still reaches the swap. The peer stays in the conveyor
  without that readiness; for the client receivers' epoll, the client's data and
  hang-up are never read. The spec says every error releases the partial resources.
- **pg_pass.** However a stream is split into chunks, the decoder writes one record per
  message, in order, for the right message (`DecodedAsSent`). Every message is
  eventually logged (`AllLogged`).
  - `FramingInSync`: after every chunk, `state_` is `waiting_for_type` exactly when
    the bytes delivered end at a message boundary. This needs the decoder's pieces to
    agree: `waiting_for_data`'s test, `process`'s reset of `cur_size_`, and its
    hand-back of the page's rest. A `Finish` that keeps `cur_size_` (mutant
    `FinishNoCurReset`) makes the next message look complete too early.
  - The streams cover every well-formed path except the oversized startup message
    (see the retired runs): the four typeless codes, parsed, skipped and empty typed
    messages, and an Execute over `max_data_size`.
  - A message over `max_data_size` may be logged either in full or as too big; both
    are reached. `too_big` sees only `cur_size_`, the bytes of earlier chunks.
- **pg_malformed_length** (finding, code bug). The spec says a decode error marks the
  descriptor `out_of_sync` and relaying goes on (`DecodeErrorContained`: the decoder
  never reaches the `Undefined` state). The client chooses the 32-bit length field,
  and `add_data` stores it minus 4 in the `int size_` (l.454-455).
  - A CopyData with length 0 or a password message with 0xFFFFFFFF gives a negative
    `size_`. `check_type` accepts both types at any size, and `waiting_for_data`
    calls `process` at once.
  - `skip_data` then passes `size_ - cur_size_` to `adjust_pos(unsigned)`: its assert
    aborts the proxy, or, without asserts, the page's position wraps.
  - TLC finds this in one chunk.
  - With the same lengths, typeless, parsed and empty typed messages all end
    `out_of_sync`: `get_byte` throws once `size_ < 0` (modelled by `CanRead`), and
    `check_type` rejects a nonzero size for the empty types. A temporary run of those
    streams found no violation.

**Disagreements noted without a run of their own.** The project keeps to 12 runs, so
these four are recorded as hazards in `PROJECT.json`:
- **Pager conservation.** The spec's "free + outstanding = cache_size" does not hold:
  `cache_t::take` allocates when the cache is empty, and `store` destroys when it is
  full. `buffer_pass` checks the bound that does hold (`BlocksAccounted`).
- **Threshold wake.** `counter_` changes only inside `notify_all`'s condition, i.e.
  while someone is blocked. It therefore counts releases made after the waiter
  blocked, not `pages_available`.
- **Spec test 4.** A query of exactly `max_data_size + 1` bytes whose excess arrives
  with its last chunk is logged in full, not as too big (postgre_msg.cpp:84).
- **Parameter formats.** `params_pack` indexes `formats[prm]` with the counted-down
  `prm`, so per-parameter format codes are applied in reverse (postgre_msg.cpp:160).

**Bounds:**
- `MCBuffer`: 2 lanes, 2-byte pages, a 2-page cache, 4 blocks, 8 bytes in chunks of up
  to 3. This is enough to fill and recycle pages, to empty the cache (so a fresh block
  is allocated) and to overfill it (so a block is destroyed).
- `MCConveyor`: one peer, and a receiver and a sender on each side. It also has
  the client side's logger and the server side's senders helper.
  - Every slot but the server line's logger slot has a task that can hold it. So the
    drop meets every kind of holder: a sweeping or one-shot receiver, a sender blocked in `other_side()`, a
    logger, and a spinning helper.
  - The other side's logger and helper would add only mirror-image interleavings, at
    a state space beyond the run's time budget.
  - A second peer would add only list-position interleavings to `drop_peers`.
- `MCSenderFlow`: 3 bytes per line and a 1-byte socket buffer, so both sockets can
  fill.
- `MCDataSignal`: readers 0 and 1 on one lane, two receivers, 2 lines, threading
  level 2, 3 commits. Both `notify_n` branches run (k < level and k = level), and two
  readers with different conditions overlap.
- `MCResourceWaiter`: a 5-page cache, `required_ = 1`, and a heap of 6 pages. One
  receiver and one logger; the starvation run adds a second producer. The cache
  empties and the heap fills, so bad_alloc, pausing, release and resumption all
  happen.
- `MCPgFrames`: `max_data_size` is 12 bytes, so a cancel request (12-byte payload) fits
  and a 14-byte Execute does not. Chunks are 1..8 bytes, so a message is split inside
  its length bytes, just after its type byte, and across collected pages. Payload
  filler bytes (1) are no message type, so any loss of framing is caught at once.

**Fairness:**
- `Buffer`: weak fairness on the writer and on each lane reader. Each worker loops on
  its line while data is available.
- `SenderFlow`:
  - weak fairness on the sender, the helper and the remote end's draining. The OS
    schedules threads, and the workers poll with timeouts.
  - `Poll` stands for those timeouts, so a stalled state is a stutter and not a
    deadlock.
- `Conveyor` states only safety properties.
- `DataSignal`: weak fairness on each reader's step and each notifier step. The OS
  schedules the threads, and a reader back from `wait_for` re-tests its loop condition.
  Commits get no fairness: they depend on clients.
- `ResourceWaiter`: weak fairness on frees, waits, adjustments and the supervisor's
  tick (every 100 ms). `GetPage` and `BadAlloc` get none: they depend on traffic.
- `DropYield`: see its section above.
- `PgFrames`: weak fairness on `Deliver`. The logger reads whatever bytes its lane
  holds.

**Deadlock checking:**
- `MCConveyor.cfg` sets `CHECK_DEADLOCK FALSE`. The leaked slot lock (conveyor_lock_leak)
  can really stop the system: a forced spinner holds the registry shared forever, and
  the supervisor waits for exclusive forever.
- `MCConnector.cfg` and `MCConnector_wiring.cfg` set it too. After a stop the
  connector thread leaves its loop (`task_t::run`), so a returned add_peer with the
  stop flag set really is the end.
- `MCDropYield.cfg` and `MCDropYield_stale.cfg` set it too. Once every peer is
  dropped nothing is left to do: the proxy then only waits for new connections,
  which this module does not add.
- The other cfgs check deadlock.

**Retired runs.** These runs were retired in favour of the connector and drop/yield
runs, as their questions are asked elsewhere or are recorded here:
- `senderflow_pass` checked that a pending line is re-enabled when its own socket
  drains. That is a single guard of the helper. `senderflow_stall` still checks
  `SenderFlow`.
- `waiter_pass` checked `ProducerReleased` with a single producer.
  `waiter_starvation` checks the same property with two producers, where it fails.
- `datasignal_pass` checked that no wake-up of the data signal stays outstanding for
  ever. The same `notify_cnt_` reset is behind `waiter_starvation`, and
  `datasignal_lost_wakeup` still checks `DataSignal`.
- `conveyor_handover` showed a code bug at connector.cpp:154. A client that sends EOF
  right after registration gets its peer flagged `descriptor_shutdown`, and the
  supervisor may drop it before the connector's `peer_disconnector->swap`, which then
  writes into a destroyed peer and never closes the sockets. `Conveyor` keeps the
  `Register`/`Handover` steps this needs.
- `pg_startup_oversize` showed a code bug at postgre_msg.cpp:187. It made way for
  `pg_malformed_length`. For a startup message, `get_int4` reads the protocol code
  before `too_big`, so `skip_data` advances `size_ - cur_size_`, 4 bytes short of the
  payload. The last 4 payload bytes are then decoded as a message, and the descriptor
  goes out of sync where the spec says the message is skipped. If the last chunk
  brings fewer than 4 payload bytes, the advance is negative. `MCPgFrames` keeps the
  stream as `MCBigStartup`: `DecodedAsSent` fails with `Streams <- MCBigStartup` and
  `MaxData = 12`, `MaxChunk = 8`.

## 5. Not modelled (yet) and why

- **Receiver re-arm window (receiver.h:39):** `WriteDone` re-arms the socket, stores
  the flag and releases the slot in one step, and each side has one receiver. A
  second receiver taking the re-armed event and spinning on the slot is therefore not
  in the model, and no run checks that hazard. The read path's `operational_error`
  (transfer_conveyer.h:469-473) is also left out of `SendDone` and `LogDone`.
- **Frame decoder fields:** the c-string, parameter-block and integer fields are read
  as `size_` bytes. Malformed lengths are checked in `pg_malformed_length`. The
  per-socket map of `postgre_msg_t`
  and its `clear_from` are covered by `Conveyor` (`NoUseAfterDrop`).
- **Signal pack:** it forwards to one `signal_t` per lane; one lane is modelled.
- **Task pause/resume (task.h):** only the consumers' pause flag is modelled.
  Yielding is modelled in `DropYield` for a receiver; senders and loggers hold slots
  and block for memory the same way.
- **Connector:** descriptor numbers are not modelled, so a stale release is flagged
  (`ebadf`) and not followed into another thread's reuse of the number. EINTR
  retries inside `sys_caller_t::call` are not modelled; they are invisible to
  add_peer. `errno` at l.49 is read after `message_error` has written to `cout`; the
  model lets `Connect` see any errno.
- **System call wrappers, console, logging output:** pure I/O. Their results appear as
  nondeterministic outcomes. `logger_t` (logger.h) writes one line per page, with
  a timestamp, and has no state a property could tell apart. Its `read_if` and
  `read_data` return values are part of the reader steps of `Conveyor`.
- **Descriptor numbers and their reuse after close:** peers are distinct model values.
- **`drop_random_peer`:** never called.
- **`clear()` and `stop()`:** run after all threads are joined.

## 6. What the plan has left

- `params_pack` as its own operator, checked against the spec's per-parameter rule.
  The check would fail (postgre_msg.cpp:160), so it needs a run slot.
- A pass run for `ResourceWaiter` that checks paused consumers are resumed
  (superviser.h:81) and the threshold count (resource_waiter.h:41). This needs a run
  slot and a stated assumption that allocations eventually succeed.
- Composing `DataSignal` with `Conveyor`, so that readers wait on the real readiness
  of the lines.
- Proxy start/stop ordering (`proxy.h`).
