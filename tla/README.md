# TLA+ models of co_net

`co_net` (`src/include/co_net`, header-only C++20) runs coroutines on
`io_uring`: one main thread and a set of workers, each with a ring, a list of
tasks and a ring of receive buffers. This directory holds TLA+ models of its
concurrent core, the TLC configurations that check them, and TLAPS proofs about
them. Line numbers refer to files under `src/include/co_net` unless another
directory is named.

## 1. The system

| Component | State | Operations | Correct when |
|---|---|---|---|
| Event loop of a thread (`context/context.hpp`, `context/worker.hpp`) | where the thread is in pass, submit, wait, batch | `SystemLoop::run`, the lambda of `Workers`, `block_on`, `co_spawn`, `parallel_spawn(task)` | it never sleeps with work to do; every completion and every task sent to it is acted on |
| `TaskLoop`, `ScheduledTask` (`context/task_loop.hpp`, `async/scheduled_task.hpp`) | list of tasks; per task `awaiting_handle_`, `valid_`, `pending_` | `run`, `enqueue`, `emplace_back`, `resume` | it resumes the innermost frame of a task, and only when its result is there |
| Coroutine chains (`async/`) | a stack of frames per task, linked by `caller_`, each with a pointer to the root task | call, return, throw, all by symmetric transfer | every frame has the right root; the list's node is the one that runs |
| `Uring` and its tokens (`io/uring.hpp`, `io/prep/uring_awaiter.hpp`, `io/prep/completion_token.hpp`) | submission and completion queue, `stopped_`, `direct_map_`, `awaiting_direct_fd_` | `get_sqe`, `submit_all`, `wait_cqe_arrival_for`, `process_batch`, `process_all`, `handle_request` | each completion is handled once, and writes to a token that is still there |
| Hand-over of a connection (`context/context.hpp:126-172`, `net/tcp/connection.hpp:148-162`) | a slot in two descriptor tables, two linked messages, `direct_map_` | `parallel_spawn(task, conn)`, `impl_handle_msg_conn`, `notify_main_ring_release_fd` | the worker runs the task on that very connection; the main ring's slot is freed |
| `TcpConnection` (`net/tcp/connection.hpp`) | which slot, of which ring, and who owns it | construct, move, `release`, `set_subring_socket`, destroy | its destructor closes its own slot, once |
| Multishot accept (`net/tcp/listener.hpp`, `io/prep/prep_multishot_accept.hpp`, `context/context.hpp:216-248`) | the static token, `awaiting_direct_fd_` on the main ring and on each worker | `multishot_accept_then`, `mshot_accept_send_awaiting_fd_and_process`, `impl_handle_macc_task` | every accepted slot is sent to one worker, once, in turn, and gets one task |
| `TcpListener`, `Socket`, addresses (`net/tcp/listener.hpp`, `net/socket.hpp`, `net/ip_addr.hpp`, `io/prep/prep_socket.hpp`) | plain descriptors of the process, `fd_` of each `Socket` | `listen_on`, `accept`, bind, listen, moves and destructor of `Socket`, `make_addr_v4/v6` | a descriptor is owned once and not lost; a listener listens where it was asked to |
| `RingBuffer` (`io/buffer.hpp`, `net/tcp/connection.hpp:89-113`) | published buffers, `buf_count_`, `buffer_` | `ring_buf_receive`, `copy_data`, `repay`, `extend_buffer` | a buffer is in one place; a receive reads its own data |
| Start-up | `init_latch_`, `uring_fds_`, the rings | the constructors of `SystemLoop`, `Workers`, `Uring` | it ends or fails as a whole, and the list of rings is complete when it is used |
| Shutdown | `stopped_` of the loop and of each ring, stop tokens, what is destroyed when | `terminate`, `notify_workers_to_stop`, `notify_self_quit`, `Workers::stop`, the destructors | all threads end; a ring outlives what uses it |
| Config, timer literals, traits, `Dump`, `this_ctx` | none that steps change | constants, compile-time predicates, debug output | not modelled |

The threads share no data structure on purpose: they talk by messages that one
ring posts to another (`IORING_OP_MSG_RING`), so the interleavings that matter
are those of the threads' loops, of the kernel's order of execution and
completion, and, in the places listed below, of accesses to the main thread's
ring from elsewhere. What is hard here:

- a wake-up is a flag of a *root* task that is set by one frame and cleared
  through a pointer in another one's token; the static token of the multishot
  accepts wakes whoever armed last;
- requests carry raw pointers into coroutine frames;
- a descriptor is a small number that the kernel reuses at once, in the tables of
  the rings and in that of the process;
- the order of two messages is fixed only if the requests were linked, and a
  link is cut when the first one fails;
- a request that was never given a `user_data` has that of an earlier one;
- a SIGINT handler runs `terminate()` on top of the loop it is to stop;
- members are constructed in the order of their declarations, and destroyed in
  the reverse one.

The hazards are listed with their lines in `PROJECT.json`.

## 2. Modules

| Module | Models | Abstract specification | Proofs |
|---|---|---|---|
| `EventLoop` | one thread: list, chains, ring, loop | `AsyncIo` | `EventLoopProofs`, `AsyncIoProofs` (refinement) |
| `ConnHandoff` | `parallel_spawn(task, conn)` across main thread, kernel, workers | `Handoff` | `ConnHandoffProofs` |
| `MultishotAccept` | `multishot_accept_then` across the same | `Dispatch` | `MultishotAcceptProofs`, `DispatchProofs` (refinement) |
| `Listening` | `listen_on`, `accept`, `Socket` and the descriptors of the process | | `ListeningProofs` |
| `BufferRing` | the buffers of one thread | | `BufferRingProofs` |
| `Lifecycle` | start-up, SIGINT, shutdown, destruction | | `LifecycleProofs` |
| `MC*` | instances for TLC | | |

The modules cut the system where its parts meet through completions: a
module takes from the others only that a thread handles its completions in
order, each once. For that part `EventLoop` is the detailed account:
`CompletionResumes`, `RingTaskRuns` and `NoLostWakeup` are what the other
modules rely on when they let a thread handle the head of its queue.

### EventLoop

State: `queue` is `task_queue_`, `chain[t]` the stack of frames of task `t`
(each entry is the frame's `this_chain_task_`), `awaiting`, `valid`, `pending`
the fields of `ScheduledTask`, `token[t]` the `CompletionToken` in the awaiter
that `t` is suspended in. `sq`, `kernel`, `cq` hold the requests on their way,
`completed`/`handled` are the local variables of `process_batch`, and `pc`, `pos`,
`running` say where the thread is.

Actions: `Resume`, `SkipNode`, `EndPass` are `TaskLoop::run`; `CallTask`,
`ReturnToCaller`, `FinishRoot`, `CoSpawn`, `AwaitOp`, `Unwind`, `Catch` are what
a coroutine does between `resume()` and its next suspension, in any order, as
the program that uses the library is free to do; `Submit`, `WaitArrival`,
`WaitTimeout`, `HandleCompletion`, `HandleRingTask`, `Consume` are the rest of
the loop. `SubmitInPass(t, n)` is the `submit_all` in the middle of a pass, with the
n entries prepared for it: one for `parallel_spawn(task)` and for the close of a
destroyed `TcpConnection`, two for `parallel_spawn(task, conn)`, three per slot for a
multishot chain; `PassEntries` is the most. `NoSqe` is the null
pointer that `get_sqe` returns when the ring has fewer left; `Unwind` of a root frame is the
rethrow inside `noexcept` that ends the process. `KernelComplete` and
`RingTaskArrives` belong to the kernel and the main thread. All `prep_*`
operations are `AwaitOp`; on resumption a failed one may throw (`Raises`) or
hand its error on.

`co_spawn` carries the comment "! bug this will heap-use-after-free; currently
solution is mark the root chain task passed by block on" (`context.hpp:205-208`).
What a pending request goes through is checked for it: `CompletionHitsLiveToken`
says that, whatever was spawned meanwhile, each outstanding request leads to the token
of a suspended awaiter, its `chain_task_` to a listed, live task, and every frame of
that chain carries the same pointer. Two things in the code make it so. Every
`ScheduledTask`, not only that of `block_on`, marks its root in its constructor
(`scheduled_task.hpp:15-30`), and the nodes of a `std::list` do not move
(`task_loop.hpp`): with a vector (`EmplaceInVector`) the property fails at the first
await after a spawn. What it does not cover is the callable itself: a capturing lambda
given to `co_spawn` or `parallel_spawn` is destroyed before its coroutine starts,
and so may be what it takes by reference. No order of steps makes or avoids that, so it is
listed as a hazard and not modelled; spawned coroutines here take their arguments by
value, as those of the examples do.

`AsyncIo` states the promise without ring or flags: ready, waiting, completed,
ready again, one result per await, taken before the next await. `KeepsPromise`
is the refinement, with `StateOf` and `ResultOf` as its mapping.

### ConnHandoff

`table[r]` is the direct descriptor table of ring `r`; `object[c]` and
`served[c]` are the `TcpConnection` of `c` on the two sides, as the three fields
its destructor looks at; `kernel` holds unordered requests (a linked pair is one
request whose `op` changes from `send_fd` to `send_task`), `cq[r]` ordered
completions. Each handler of `handle_request` that takes part is an action. A
full table of the worker cuts the link (`SendFdFails`), and a failing close posts a
completion whose `user_data` nobody set (`Stale`): `handle_request` may then do
nothing or anything, so `undefined` is a free choice and ends the behaviour.
The closes of descriptor 0 by moved-from objects are requests of the model too
(`CloseStdin`). Completions that only delete their token are left out.

`Assign` and `AssignServed` are `operator=` (`connection.hpp:35-43`) over a variable
that holds another connection, on the main thread (`conn = co_await accept()`) and on
a worker: the slot number is overwritten and nothing is closed, so the connection is
in phase `overwritten` and its slot of that ring is never given back. The right-hand
object is then destroyed as a moved-from one. Assignment to an empty object is a
move, and moves are part of the action that makes or passes on the object.

`Handoff` states the promise: held by the main thread, then moving to the next
worker in turn, then served there or lost, never in two places. A holder that is
assigned another connection loses the one it had (`Overwrite`).

### MultishotAccept

Several listeners, each with its coroutine, share the static token:
`chainTask` is its `chain_task_`, that of the listener that armed last, and
`pending[l]` the flag of each listener's task. `started` are the coroutines past
their first await; `Arm` leaves `pending` alone, as that awaiter does.
`armed` are the accept requests in the kernel, `awaiting[r]` the
`awaiting_direct_fd_` of each ring. `SendAccepted` builds one chain per slot
(`send_fd`, `send_task`, `close_fd`) for the workers in turn; with less room than
three entries per slot in the submission queue, it writes through a null pointer
(`SendAcceptedNoSqe`). The function that only the first chain of a round carries
is the field `func`. `TcpConnection{fd}` on a worker owns a slot of the *main*
ring; its close is a request on the main ring, written by the wrong thread, so
`DestroyConnection` and `HandleTask` may end in undefined behaviour (`ended`).
The temporaries that connections are moved out of close slot -1, which the kernel
takes for descriptor 0.

`Dispatch` states the promise: waiting connections form one queue, are sent from
its head to the workers in turn, and arrive or are lost each on its own; and what
arrives for a connection is its own file. The code keeps the last part only until
the task of some connection ends: the `TcpConnection` a worker builds from its own
slot number (`connection.hpp:170`) closes the slot of that number of the main ring,
which may hold a connection that is still to be sent. The slot is then free, another
connection may be accepted into it, and the chain of the first copies the file of the
second. So `Dispatch` lets the file of another accepted connection arrive, once one in
`Ending` has arrived before, and not otherwise (`MayGet`).
`SendsInTurn` is the refinement: the queue is `awaiting[Main]` followed by the
accepts still in the completion queue (`WaitingConns`), a connection is where the
request, the message or the list entry with its slot number is (`Whereabouts`), and
the file it arrives with is what the table of the worker holds there (`FileOf`):
in the instance the exchange happens, and without the exception in `MayGet` TLC
finds it within 16 steps. The accepts in the
completion queue are picked by their rank (`Rank`, `Nth`) and not with
`SelectSeq`, whose recursive definition the provers cannot unfold; both are
the same sequence, and only the mapping uses it.

### Listening

`file[f]` is what descriptor `f` of the process is open on, `bound[s]` the address
of socket `s`, `refused` the sockets whose bind failed, `listening` those whose
`listen` has not. Per server: `at` is where
its coroutine is in `listen_on`, `asked` the `SocketAddr` it carries, `result` the
completion it has not read, `socket` and `listener` the `fd_` of the `Socket` inside
`listen_on` and of the one in the server's `TcpListener`. The kernel gives out the
lowest free descriptor. `Parse`, `Swap` and `SockName` are the conversions from text
and port to what `bind` reads: ports go through `htons` and `ntohs` in 16 bits, and a
text that `inet_pton` refuses leaves the address uninitialised, for `parse` tests
for -1 only. `MakeSocket` throws where the code throws (`ENFILE`, `set_reuse`);
`Bind` and `Listen` may each fail and drop the result as the code does: a listener
can have an address and not listen, listen at a port the kernel chose, or neither;
`accept` of one that does not listen throws (`Stop`). Neither is told to the caller,
so `ListensWhereAsked` says what the socket has become of in each case (`Became`),
and the loss itself stays a hazard without a property. `Return` moves the listener
into the server's variable; over one that owns a descriptor, that one is not
closed (`leaked`). `Accept` and `CloseZero` are the close of descriptor 0 that
every accepted connection costs, so that number 0 may be given to a socket and closed
under it.

### BufferRing

`ring` is the sequence of buffer ids the kernel may take, `data[b]` names the
reader whose bytes are in `b` until it has copied them (`Copied`); bytes themselves
are left out. `Repay` has the
wrap-around of `tail & mask`, so that a buffer too many overwrites another.
Receives end with data, with 0 bytes, without a buffer or with an error (`Throw`).
`Extend` is `extend_buffer` with `AUTO_EXTEND_WHEN_NOBUFS` as `config.hpp` has it:
`N_BUFFERS` = 16384, so the second size, 32768, is the largest the kernel accepts
and the third is refused, as are all after it: `MaxRing` is 2 for that reason. A
refused extension throws with the old ring gone and `buf_count_` grown; the
coroutine that catches it may receive, be told `-ENOBUFS` and extend again, so that
only `MaxCount` ends the growth. `damage` records what
the known defects have cost: a receive of 0 bytes repays buffer 0, which nobody
held (`"eof"`), and a ring that is overfull, or was extended and published every
buffer again, accounts for nothing any more (`"all"`). The properties speak of the
buffers still accounted for, `Sound`.

### Lifecycle

The main thread's constructor (`OpenRing`, `StartWorkers`, `ConstructLatch`,
`WaitLatch`, `RegisterFiles`, in the order of the declarations), its loop reduced
to pass, sleep and batch, and `terminate()` in steps of its own (`Sigint`,
`SendQuit`, `WaitArrival`, `ProcessAll`) during which the loop stands still. SIGINT
comes at any point of the loop, which is cut where that matters: a batch is at the
test of `stopped_` (`"batch"`, `TakeUp`) or in `handle_request` (`"handle"`,
`HandleOne`), and `taken` counts what `process_all` has consumed under it.
Any constructor that can throw may: the exception ends the process (`BootFails`), or,
thrown by the main thread's last step and caught, destroys what has been
constructed (`RegisterFilesFails`), without `~SystemLoop`. Then `Join`, `CloseRing`,
`DestroyTasks` on the main thread and `WorkerCloseRing`, `WorkerDestroyTasks` on each
worker are the destructors in the order of the members. `Hold` says which threads
have a `TcpConnection` in the frame of a task. Undefined outcomes set `undefined`,
after which nothing is promised: half a request, or an allocation of `terminate()` on top of an interrupted
one (both possible while coroutines run and in `handle_request`, not while the thread
sleeps), a completion handled a second time, a stale `user_data`, the head of the
queue past its tail, a close put into a ring that is gone.

## 3. Runs

| Run | Shows | Instance and why it is enough |
|---|---|---|
| `main` | the safety properties of the wake-up protocol | 3 tasks, 3 steps each, a ring of 5 entries of which one `submit_all` takes up to 3, batch of 2: a chain two calls deep, spawning behind the iterator, three requests at once over a batch boundary |
| `worker` | refinement of `AsyncIo`, progress of completions, messages and waiting tasks | 2 tasks, failing operations, ring of one entry, batch of 1: exceptions caught, unwound and fatal; the ring fills |
| `handoff` | identity of the connection, ownership of slots, leaks | 3 connections over 2 main slots: a slot number is reused while an earlier hand-over to the same worker is still under way, the third copy may find the worker's table full, and two connections meet on the main thread and on the worker, where one is assigned over the other |
| `handoff_promise` | refinement of `Handoff`, release of the main slot | 2 connections, 2 workers with one slot each; no symmetry, as it is a temporal run |
| `accept` | no accept forgotten, each sent once, order of fd and task, refinement of `Dispatch`, everything is sent | 3 connections to 2 listeners, 2 workers with one slot each, 2 main slots, a submission queue of 6, which two chains fill: accepts before, during and after the send, of either listener; tables that fill; one connection whose task ends, and closes the slot of another that waits |
| `accept_once`, `accept_function` | two of the findings below | 2 connections, 1 listener |
| `buffers` | a buffer in one place, own data, bounds | 4 readers, 2 buffers, two receives of 0 bytes, up to 5 steps of the ring: the ring runs empty with two completions outstanding, two coroutines find it so at once, the second extension is refused, and is tried again twice |
| `listening` | one owner per descriptor, no socket lost, right address | 2 servers, 3 sockets, descriptors 0 to 3, 3 calls of `listen_on`: binds and listens that fail, stop and listen again, listen over a listener, a socket on descriptor 0 |
| `lifecycle` | latch, Quit, a batch interrupted by SIGINT, order of destruction, end of shutdown | 2 workers, 2 completions: SIGINT at every point of pass, sleep, batch and handler, every constructor failing |
| `startup`, `returns` | the other two findings | 2 workers; 2 tasks |

Every bound is a CONSTANT: `MaxSteps` (calls, awaits and spawns of a task),
`MaxOps` (completions on the main ring before shutdown), `MaxEofs` (receives that
return 0), `MaxCount` (size of the ring in steps of `N_BUFFERS`), `MaxCalls` (calls of
`listen_on`), `Ending` (connections whose task ends); the number of connections
bounds `ConnHandoff` and `MultishotAccept`.
Runs without deadlock checking are those where the system may stop: the process
has ended, its behaviour is undefined, everything is destroyed, or there are no
more connections or calls. `BufferRing` can also run into a crash.

### Fairness

- `EventLoop`: weak fairness of the thread. Its waits have a timeout (50 ms,
  15 ms), nothing else in the loop blocks, and a coroutine reaches a suspension
  point after finitely many steps. Nothing is assumed of the kernel, except in
  `PendingResumes`, which has it as a hypothesis: *if* requests keep completing
  (timers, writes), every waiting task is resumed.
- `ConnHandoff`: each thread keeps handling completions, and the kernel executes
  messages and closes, which do not block. Nobody has to connect, and tasks
  need not end.
- `MultishotAccept`: weak fairness of the main thread alone.
- `Lifecycle`: the threads are scheduled; nobody has to press Ctrl-C.
- `Listening` and `BufferRing` state no liveness and assume no fairness.

## 4. Findings

1. `BlockOnReturns` (run `returns`): `TaskLoop::run` keeps finished tasks (the
   erase is commented out), so `SystemLoop::run` never finds the list empty and
   `block_on` does not return.
2. `OneTaskPerSlot` (`accept_once`): a worker never clears
   `awaiting_direct_fd_`; the second task message serves the first connection again.
3. `EveryConnectionGetsTask` (`accept_function`): `std::move(func_task)` is inside
   the loop; the second chain of a round carries an empty function.
4. `StartUpEnds` (`startup`): `workers_` is constructed before `init_latch_`; a
   worker that counts down early is never counted.

Other places where a model reaches something undefined are in the list of
hazards in `PROJECT.json`, each with its line.

## 5. Proofs

All theorems are for every value of the constants that satisfies the named
assumptions of the module: any number of tasks, connections, listeners, workers,
servers and readers, any sizes of queues and tables.

`EventLoopProofs`, from `TaskAssumption` and `BoundAssumption`:

| Theorem | Property |
|---|---|
| `TypeInvariant` | `TypeOK` |
| `ResumesLeaf` | `HandleIsLeaf` |
| `NoWakeupIsLost` | `NoLostWakeup` |
| `TokensOutliveRequests` | `CompletionHitsLiveToken` |
| `ResultsAreReal` | `ResumeSeesResult` |
| `SleepsOnlyWhenIdle` | `NoSleepWithWork` |
| `RingHasRoom` | `SqNeverFull`, if `Cardinality(Task) - 1 + PassEntries <= SqEntries` |

None of these is inductive. The invariant `IInv` has two layers:

- `ShapeInv`: types, an idle batch outside `process_batch`, no task twice in the
  list (`QueueInv`), every frame of a listed chain has its own root and a live
  chain is not empty (`ChainInv`), `HandleIsLeaf`, tasks in messages are fresh
  and in one message each (`MessageInv`), the running task is the one under the
  iterator (`ThreadInv`). It is inductive by itself.
- `RequestInv`, relative to `ShapeInv`: `RequestsOK` (pending if and only if
  outstanding, tokens live, one request per task), a pending task is listed, alive
  and not running (`WaiterInv`), a token whose task may run has its result
  (`TokenInv`), nothing behind the iterator can run (`PassInv`), and
  `NoSleepWithWork`.

`RequestsOK` is carried through each of the five things that can happen to a
request (prepared, submitted, completed, handled, left alone) by a lemma of its
own. `TokensOutliveRequests` follows from `RequestsOK`, `WaiterInv` and the shape of
the list: what is outstanding is pending, what is pending is a listed, live task that
is not running, and that is suspended in its leaf. `RingHasRoom` counts: the prepared
requests are of different tasks, none of them the running one, so there are fewer than
tasks, and what one coroutine prepares before its `submit_all` comes on top. Its
hypothesis is stated in the theorem because the code does not establish it (128
entries on the main ring, no limit on tasks, nor on the slots of one multishot chain);
`NoSqe` is what happens without it.

`AsyncIoProofs`: `AwaitsAreAnswered` (`SafeSpec => Promise!SafeSpec`, the safety part
of `KeepsPromise`). To `IInv` it adds `IdleTokens`: a task in no awaiter has no
result left to take, so that one that finishes, or awaits again, has taken its
last. `NoLostWakeup` and `OneRequestPerTask` make the mapping a function of one
task's request: `ResultIs` says that the `CHOOSE` of `ResultOf` finds the one
completion there is, `SameCompletions` that this completion is the same
when the queue moves under it (`Consume`), grows, or has a message handled in
front of it. Then each action of the loop, the kernel and other rings is shown
to be one action on one task (`Follows`) while all others stay as they are.

`ConnHandoffProofs`, from `ConnAssumption` and `SizeAssumption`:

| Theorem | Property |
|---|---|
| `TypeInvariant` | `TypeOK` |
| `OwnConnectionServed` | `ServedOwnConnection` |
| `OwnersHoldOpenSlots` | `OwnedIsOpen` |
| `NoForeignClose` | `ClosesOwnSlot` |
| `MapMatchesTables` | `DirectMapMatches` |
| `SlotsAreReturned` | `NoSlotLeaks` |
| `HandOverIsAtomic` | `Promise!SafeSpec`, the safety part of `HandsOver` |

The argument of `IInv` is that a slot is named by somebody only in the phase of
its connection that allows it: an object before it is sent, a request or a
message with the file while it is (`RequestInv`, `MessageInv`, `MapInv`), a
notification or a close after its task has run. `SlotInv` (a connection has one
main slot) makes the key of `direct_map_` unambiguous, `StageInv` says that the
task, and later the release, of a connection is in one place only, so that no slot
is closed twice, and `TaskIsLast` and `OrderInv` that the copied slot reaches a
worker before the task that looks for it. `LeakInv`, relative to it, says who is
going to close what is taken (`Told`: a connection that was served, whatever became
of it there, has had its main slot reported back; one that was assigned over on the
main thread has not). The refinement follows from `MovingIs`: a connection
that is sent is under way as long as a request or a message has its task.

`MultishotAcceptProofs`: `TypeInvariant` (`TypeOK`), `NoAcceptIsForgotten`
(`NoAcceptForgotten`), `SlotsAreSentOnce` (`SentOnce`), `TasksFindTheirFd`
(`TaskFindsFd`). The invariant says what the completions and requests may carry
(`MessageInv`, `RequestInv`); that only listeners that have armed are pending, and
the one in the token is one of them (`WakeInv`); that a connection is in the
batch, in the list or in a chain, once (`OnceInv`); and that a task is behind its
slot, also while it is still in the kernel (`OrderInv`).

`DispatchProofs`: `ConnectionsAreSentInTurn` (`SafeSpec => SendsInTurn`). The waiting
queue is a list followed by the accepts in a batch and behind it; `RankFacts`,
`NthFacts` and `NthUnique` say, without induction, what the k-th of a finite set of
positions is, so that handling a completion, an accept or a foreign one, and
sending a batch leave the order alone (`OrderOfAccept`, `OrderOfOther`,
`AcceptTaken`, `OtherTaken`). `PathInv` says that a connection that has reached a
worker, as a message, a list entry or a task, is nowhere else, and that one under
way is in one request: so a step moves one connection, and `Whereabouts` of all
others stays. `FileInv` is about the tables: a slot that was accepted for a connection
holds it until it has been sent, unless a task has ended (`OwnFile`). The kernel closes
a main slot for a chain that has sent its own, or for a connection whose task has
ended, and that one has arrived before (`TasksListed`); the slots of a worker are
never freed. With `Ending` empty, the theorem says that every connection that arrives
does so with its own file.

`ListeningProofs`: `TypeInvariant` (`TypeOK`, ports in 16 bits through both
conversions), `DescriptorsHeldByOne` (`HeldByOne`), `SocketsAreKept`
(`NoSocketLost`), `ListenersListenWhereAsked` (`ListensWhereAsked`). `OneHolder` and
`SomeHolder` restate the first two properties on places, and `PlaceInv` ties the
places to where each coroutine is. The address needs `AddressInv` on top: a socket is
open on one descriptor (`OneFd`), the `SocketAddr` a coroutine carries names what its
caller asked for, through both byte swaps (`AskedInv`), and the socket it holds is
as far as the coroutine is: fresh before `bind`, bound or refused after it, and
after `listen` where it was asked to be, or, if `bind` was refused, on a port of the
kernel's choice when it listens and on none when it does not (`Stage`, `BoundInv`).
That nobody else binds a socket on its way is `OneHolder`.

`BufferRingProofs`: `TypeInvariant` (`TypeOK`), `EachBufferInOnePlace`
(`BuffersInOnePlace`), `OwnDataReceived` (`ReceivesOwnData`), `CopiesInBounds`
(`CopyInBounds`). `OnePlace` says without counting that a buffer is published
once or held by one completion and not both, and `EofInv` that a completion of
0 bytes names buffer 0. The cardinalities of the property follow from `OnePlace`.

`LifecycleProofs`, from `WorkerAssumption`: `TypeInvariant` (`TypeOK`),
`RegisteredBeforeUse` (`AllRegistered`), `QuitAfterStop` (`QuitFindsStop`),
`MainRingLast` (`MainRingOutlivesWorkers`) and `InterruptedBatchStops`
(`BatchReadsPosted`). Because early count-downs are lost, the latch is not the
number of workers that are missing; the invariant `LatchInv` only says that it is
at least that, which is what `AllRegistered` needs and all that holds. `JoinInv`
says that past the join no worker is left, and that none starts again. `BatchInv` says
what SIGINT does to a batch: until `process_all` runs, the queue only grows under
the batch, and `process_all` empties it only with a Quit in it, which ends the batch
at its next test. The completion that was past the test is handled after it was
consumed; that is the code's doing, and an undefined outcome.

Model-checked only: liveness (`CompletionResumes`, `RingTaskRuns`, `PendingResumes`,
`MainSlotReleased`, `AcceptsAreSent`, `ShutdownEnds`) and the fairness part of the
refinements `KeepsPromise` and `HandsOver`, which are out of the prover's reach. Every
invariant a passing run checks, and the safety part of every refinement, is proved.

## 6. Not modelled

- Failures of `io_uring_submit` and overflow of the completion queue.
- Which of the `prep_*` operations throws on which error: `EventLoop` leaves the
  choice open for all of them, `Listening` has it for `prep_normal_socket`.
- The result that a timeout is resumed with: `prep_timeout.hpp:21` passes a count of
  1, so that the next completion on the ring, whosever it is, ends a sleep
  early. In `EventLoop` a request completes at any time, so that the wake-up is
  there and its being early is not visible.
- `write_all` (`connection.hpp:85`), which writes once: bytes are abstracted, and
  with them the rest of a short write.
- `prep_accept` and `prep_normal_socket` called on a worker, where they go to the
  ring of the main thread without a lock. The models call them where the
  examples do, on the main thread.
- `set_nonblock`, `to_string`, the `getpeername` constructor and UDP sockets: not
  called, or without an effect on the state of the program, or marked as to do.
- Configuration, timer literals, traits, debug output: constants and text.

## 7. Plan

1. Extend: the error policy of each `prep_*` operation as a table in
   `EventLoop`; sleeps with their count; `parallel_spawn(task)` as a composition of
   two `EventLoop`s; an abstract specification of `BufferRing` (a set of free
   buffers).
2. Prove: with such a specification, that `BufferRing` implements it; what the
   extended modules add.
