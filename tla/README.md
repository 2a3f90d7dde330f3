# Formal specification of the kernel

TLA+ specifications of the operating system kernel in this repository, the TLC
configurations that check them on small instances, and TLAPS proofs of the main
safety properties for instances of any size.

The repository is a course: each directory under `Chapter_*` and `Extensions` is
a complete kernel, one feature further than the one before it. The
specifications follow the last and most complete stage,
`src/Extensions/On_08_06_Schedulers`; paths below are relative to it. The earlier
stages hold older versions of the same files.

Contents: 1 inventory, 2 modules, 3 runs, 4 proofs, 5 where the code differs from
its comments, 6 what the models leave out, 7 plan.

## 1. Inventory

### How the system runs

The kernel runs on one processor. A system call, an exception or a device
interrupt enters the kernel with interrupts disabled, the handler runs to its
end, and on the way back the context of `active_thread` is loaded. So:

- handlers are atomic with respect to each other and to user code;
- user code is interleaved at every boundary between two handlers;
- a handler that calls `kthreads_schedule` goes on running afterwards, with
  `active_thread` perhaps another thread than its caller. The returned value
  goes to the context `k_syscall` saved on entry (the caller's); `SET_ERRNO`
  writes to the thread that is active at that moment;
- "blocking" is: link the caller in a queue, choose another active thread, return.
  The blocked thread continues in user code, after its system call, once some
  other handler has made it ready. Some calls must then be repeated
  (`-E_RETRY`); the loop for that is in `programs/api`, so other threads run
  between the wake-up and the repeated call.

### Components

| component | state | operations | interacts with |
|---|---|---|---|
| scheduling core, `kernel/thread.c` | `ready_q[]`, `rdy_mask`, `active_thread`; per thread state, priority, queue | enqueue, release, move to ready, remove, schedule | called by everything that blocks or wakes |
| thread life cycle, `kernel/thread.c`, `programs/api/thread.c` | descriptors: id, reference count, join queue, exit status; process: thread count | create, exit, cancel, join, self | scheduling core, identifiers, heap, process removal |
| semaphores, `kernel/semaphore.c` | value and queue per object; `sem_t` in user memory | init, destroy, post, wait | scheduling core, heap |
| monitors, `kernel/monitor.c` | lock, owner, entrance queue; condition queues; `qdata` per thread | init, destroy, lock, unlock, wait, signal, broadcast | scheduling core, heap |
| identifiers, `kernel/memory.c` | bit mask, last one given | new, free | threads, message queues |
| system call dispatch, `kernel/syscall.c`, `kernel/errno.h` | `errno` per thread | `k_syscall`, `EXIT`, `RETURN`, `SET_ERRNO` | all handlers |
| messages and signals, `kernel/messages.c` | global and per-thread queues, blocked receivers | create, delete, send, receive, signal | scheduling core, identifiers, heap |
| alarms, `kernel/time.c` | sorted list of alarms, threads waiting for them | new, set, remove, wait, timer interrupt | scheduling core, hardware timer, messages |
| clock, `arch/i386/arch/time.c`, `lib/types.h` | clock, loaded delay, alarm | set, get, interrupt; time arithmetic | alarms |
| scheduling policies, `kernel/sched.c`, `kernel/sched_rr.c` | policy and parameters per thread, time slices | policy changes, activate and deactivate hooks | scheduling core, alarms |
| processes, `kernel/thread.c`, `kernel/memory.c`, `kernel/startup.c` | programs, address space, thread count | start program, remove process | threads, heap |
| first-fit allocator, `lib/mm/ff_simple.c` | free list | alloc, free | everything dynamic |
| grid allocator, `lib/mm/gma.c` | not linked in the build | | |
| lists, `lib/list.c` | links inside the elements | append, prepend, sorted add, remove, find | everything |
| devices, `kernel/devices.c`, drivers `i8042.c`, `uart.c`, `null.c` | flags and queue per device, ring buffers | open, close, lock, unlock, send, receive, interrupt | scheduling core, interrupts |
| interrupts, context switch, descriptors, console | registers, tables, screen | | |
| user programs, `programs/*` | | the callers | system calls |

### What is hard, and what correctness means

- **Scheduling core.** Every handler edits the queues. A thread must never be in
  two of them, or in none; the mask must agree with the queues; a wake-up must be
  followed by a scheduling decision; something must always be able to run.
- **Threads.** The waiter repeats its call after its wake-up and finds whatever
  the others have done meanwhile: the descriptor may be collected, freed, reused.
  Reference and thread counts decide when memory disappears. Cancelling reaches
  into any state a thread can be in.
- **Semaphores and monitors.** Tokens and ownership pass directly from the thread
  that releases to the one that waits; nothing may be lost or handed out twice, also when
  the object is destroyed and its address used again.
- **Identifiers.** Uniqueness through wrap-around and frees in any order, and the
  two limits: zero, and all in use.
- **Messages.** A receiver repeats its call after its wake-up; meanwhile the message
  may be taken or the queue deleted and its address used again. No wake-up may be
  lost, no message leaked or freed twice, nobody left asleep in freed memory.
- **Alarms, timer, round robin.** An expired alarm ends a slice, the next thread's
  slice sets an alarm, setting it looks for expired alarms: the functions call each
  other in a circle, and each must find lists and threads as it left them. The
  hardware measures short intervals only, and reads wrong while an interrupt waits.
- **Devices.** Programs and interrupt handlers share ring buffers; a key's scan code
  is spread over interrupts; the device lock is passed on at a wake-up.
- **Heap.** Blocks freed in any order must be joined and found again; a wrong word
  shows much later.

`PROJECT.json` lists the hazards one by one, each at its line, with the
properties that watch it.

## 2. Modules

| module | models | extends or uses |
|---|---|---|
| `KThreads` | the scheduling core, as functions on the scheduling state | |
| `Threads` | thread life cycle, join with retry, cancel, counts | `KThreads` |
| `Workers` | a program's threads, sleeping on alarms and preempted by the timer | `KThreads` |
| `Semaphore` | semaphores | `Workers` |
| `SemaphoreAbs` | what semaphores promise, without scheduler | instantiated by `Semaphore` |
| `Monitor` | monitors and condition queues | `Workers` |
| `Messages` | message queues, thread mailboxes, signals, the receivers' retry loop | `Workers` |
| `Ring` | the circular buffers of the drivers, as functions on a record | |
| `BoundedQueue` | what such a buffer promises | instantiated by `Console`, `Keyboard` |
| `Console` | device lock, `print`, serial driver with its interrupts | `Workers`, `Ring` |
| `Keyboard` | keyboard driver: scan codes, modifiers, buffer | `Ring` |
| `UniqueId` | identifiers | |
| `FirstFit` | the heap, word by word | |
| `Resources` | objects that have memory and an identifier | `FirstFit`, `UniqueId` |
| `Clock` | system time and hardware timer, as functions on a record | |
| `Alarms` | alarms, secondary schedulers, round robin, time | `KThreads`, `Clock` |
| `TimeArith` | `time_add`, `time_sub`, `time_cmp` | |
| `MC...` | constants and symmetry for TLC | the modules above |
| `KThreadsProofs` | lemmas about the scheduling core | `KThreads`, `TLAPS` |
| `ThreadsProofs`, `SemaphoreProofs`, `MonitorProofs`, `MessagesProofs`, `ConsoleProofs` | theorems about these modules, and in `ConsoleProofs` about `Keyboard` | the module, the lemmas |
| `AlarmsProofs` | theorems about alarms and timer | `Alarms`, `KThreadsProofs` |
| `ServicesProofs` | theorems about identifiers, heap and times | `Resources`, `TimeArith`, `TLAPS` |

### KThreads

A handler edits the queues through several C functions before anybody else runs,
so these functions are operators from a scheduling state `k` to the next one, and
a handler is a composition: `kthreads_schedule(kthread_enqueue(k, t, x))`. `k` is
a record with the state, priority and queue of each descriptor, the contents of
each queue as a sequence, `rdy_mask` as a set of priorities, and `active_thread`.
The multi-word bit mask search of `kthread_ready_list_highest` is the maximum of
that set. `kthread_unlink` is the part of `kthread_cancel` that takes a thread
out of scheduling; as in the code only the active thread becomes `PASSIVE`.

### Threads

One process and the idle thread. A thread of the program is what its descriptor
says plus `waiting_for`, the handle its `wait_for_thread` loop repeats the call
with. `id[t] = 0` means the descriptor at address `t` is free; freed memory
keeps its contents until the address is given out again.

| action | code |
|---|---|
| `sys__create_thread`, `kthread_create` | `sys__create_thread`, `kthread_create`, with the priority forced into range |
| `sys__thread_self` | `sys__thread_self` |
| `sys__thread_exit`, `kthread_cancel`, `release_next`, `release_done` | `sys__thread_exit`, `kthread_cancel`; the loop `kthreadq_release_all` one thread per step |
| `sys__cancel_thread`, `cancel_unjoined`, `cancel_joined`, `cancel_ended`, `cancel_again` | `sys__cancel_thread` with `EXIT ( kthread_cancel ( ... ) )`, which runs `kthread_cancel` twice |
| `wait_for_thread`, `wait_for_thread_retry` | the loop in `programs/api/thread.c` around `sys__wait_for_thread` |
| `sys__wait_for_alarm`, `k_timer_interrupt` | sleeping on a one-shot alarm and its expiry, the source of preemption |

While the kernel is inside a loop (`releasing`) or between the two runs of
`kthread_cancel` (`again`) no other action is enabled. The first run takes the thread
out of its list but leaves its links as they are, and the second follows them: `again` holds the
neighbours they name, if these are not its neighbours any more (`goes_stale`), and `relink` is
`list_remove` with such links.

The constant `Uses` says what programs do with handles. The weaker guarantees of
the code under some uses are real (section 5), so each property is checked for
the largest set of uses it holds for, and a run with one more use shows that it
fails.

### Workers, Semaphore, SemaphoreAbs

A fixed set of workers at fixed but arbitrary priorities. All sleep at first; the
timer wakes any of them at any time, so every interleaving the timer can produce
occurs. `Semaphore` has one action per system call; `sem_destroy` is a loop of
`destroy_next` ended by `destroy_done`. A `sem_t` variable (`ptr`) is separate
from the kernel object, whose address is reused after a destroy. `errno` and
`ret` follow who is written to by `SET_ERRNO` and by `k_syscall`.

`SemaphoreAbs` has objects with a value and a sequence of waiting threads, and
the steps create, take, block, give, release, free. The refinement mapping takes
the allocated objects, their values and their queues; scheduling, errno and the
`sem_t` variables are hidden.

### Monitor

One action per system call; signal and broadcast share `release_next`, the loop
of `k_monitor_release`, and the two destroy calls share `destroy_next`. `claim`
is a history variable: the monitors a thread has asked to enter and not left,
against which ownership is judged. `Uses` says whether programs destroy a monitor
or a condition queue that threads wait on.

### Messages

A mailbox is a list of messages and a queue of threads, one in every thread
descriptor and one per global queue. One action per system call;
`sys__msg_recv`, `sys__msg_recv_block` and `sys__msg_recv_gone` are the three
ways through the receiving call, `retry` the call that the library's loop
repeats. `sys__delete_msg_queue` is a loop of `delete_next` ended by
`delete_done`. A signal takes a free descriptor and starts a thread one
priority above the one it is sent to. `heap` counts messages in kernel memory, so that leaks
show. `Selective` names the `msg_q` variables from which programs receive by type or
into buffers that may be too small.

### Ring, BoundedQueue, Console, Keyboard

`Ring` has the array, the indices and the count of both drivers, with the two ways
to store: overwrite the oldest, or refuse. `BoundedQueue` is a sequence from which
elements leave at the front; a new one comes at the end, and when there is no room it
costs exactly the oldest, or is refused. `contents(r)` is the refinement mapping. A
refinement alone allows a new element to be ignored, as a stutter, so `ArrivalsKept` in `Console` and
the second part of `KeystrokesInOrder` say which steps of the driver are arrivals.

`Console` composes three parts. `print` locks the device, sends character by
character and unlocks, with preemption in between; `k_device_lock` and
`k_device_unlock` are the kernel's; `uart_send`, `uart_recv` and
`uart_interrupt_handler` the driver's. The chip (`thr`, `rbr`, `iir`, `transmitted`,
`received`) is external. The handler's loop keeps `rcv` set once it has
received, as in the code.

`Keyboard` has keys that are pressed and released (external), their scan codes on
the way, and the driver's translation with what it keeps from one code to the
next: the prefix and the modifiers. A stored keystroke is one of four kinds.

### UniqueId, FirstFit, Resources

`k_new_unique_id` looks at `last_id + 1`, `last_id + 2`, ... modulo
`MAX_RESOURCES`, takes the first one whose bit is clear, and stops the machine
when it is back at `last_id`. `continue` in the `do ... while` leads to the loop's
test, so identifier 0 is looked at like any other.

`FirstFit` keeps the memory itself: heads, tails, and the links of the free list in
the words of free chunks. Callers overwrite their blocks with zeros, which
look like the tail of a free chunk. `ffs_alloc` and `ffs_free` are compositions of the
C functions they call; `blocks` and `data` are histories of what callers hold and what they
wrote last. A search along
the free list is the function `free_list` of the steps made, with `NULL` behind the
end; `Heads` are the words that following the sizes from the left border reaches.

`Resources` takes memory and identifier in the order of `sys__create_msg_queue`,
gives them back in that of `sys__delete_msg_queue`, and has other callers take
blocks of another size in between. Creating a queue also appends it to the list `kmsg_qs` of all
queues, whose links are words of the queues' blocks: `list_append` writes them into
`mem`, link by link, in the order of `lib/list.c`. Deleting removes nothing from
the list. `data` follows what is written into queues that exist, so a write through the stale end of
the list shows as a word that is not what its holder wrote. `Uses` says whether programs come to that
(`"staleLast"`). The identifier the kernel also keeps in the queue is kept in the handle only.

### Clock, Alarms, TimeArith

`Clock` has the interval loaded last, the counter, the delay asked for and the
pending interrupt. An interrupt that becomes due while the kernel runs waits for
the return to user code.

In `Alarms` the kernel stack is part of the state, because alarms, scheduler and
round robin call each other: a C function that calls `k_schedule_alarms`,
`kthreadq_release_all` or `rr_thread_activate` leaves a frame that says what it does
afterwards. The program's threads may have been created in any order.

| action | code |
|---|---|
| `expire_next`, `expire_done` | the loop of `k_schedule_alarms` and what follows it |
| `release_next` | the loop of `kthreadq_release_all`, one thread per step |
| `added`, `reschedule`, `activated`, `set_parameters` | the rest of `k_alarm_add`, of `k_timer_interrupt` and `k_alarm_remove`, of `ksched_activate_thread`, of `sys__set_thread_sched_params` |
| `sys__alarm_new`, `sys__alarm_set`, `sys__alarm_remove`, `sys__wait_for_alarm` | the system calls |
| `sys__set_thread_sched_params`, `sys__set_sched_params`, `kthread_exit` | changes of priority, policy and slice; end of a thread that ran an alarm's action |
| `tick`, `timer_interrupt` | the counter; `arch_timer_handler` and `k_timer_interrupt` |

`schedule` is `kthreads_schedule` with the hooks of `sched.c`; the modules above
use the version without, which is the same for `SCHED_FIFO` threads. `s.torn` is a
history variable (section 5). `Programs` lists what programs do: priorities,
who blocks on alarms, with which times, who changes whose parameters.

`TimeArith` is about the pairs of seconds and nanoseconds the other two modules
count in ticks.

## 3. Runs

| run | shows |
|---|---|
| `threads_cancel` | with creation, exit, shared joins of younger threads, and cancel of threads that have not ended and whose links do not go stale (section 5): types, no thread lost or linked twice, mask exact, the highest ready priority runs, the kernel's assertion that something can run never fails, queues are first in first out |
| `threads_counts` | without cancel, with any joins, cyclic ones too: the process's thread count and each descriptor's reference count are exact, and nobody is left waiting for a thread that has ended |
| `threads_join` | with cancel of threads nobody waits for and one waiter per thread: a blocked waiter always finds the status, and every `wait_for_thread` returns |
| `threads_process_kept` (violation) | one cancel removes the process under its running thread |
| `semaphore` | scheduling kept under semaphore calls, nobody sleeps on an available or freed semaphore, no dangling `sem_t`, failed calls reported to their caller, refinement of `SemaphoreAbs`, every waiter is served if posts go on |
| `monitor` | scheduling kept under monitor calls, mutual exclusion, a locked monitor has an owner who can unlock it, nobody stands before an open or freed monitor, entrances are served |
| `messages` | no thread lost or linked twice, no message waits with a receiver that sleeps, none leaked or freed twice, nobody sleeps in a freed mailbox, every call but delete leaves the highest ready priority running |
| `console` | scheduling kept under device calls, texts of two threads not mixed, the lock held exactly while a thread is inside, both buffers of the serial driver are bounded queues that store each arrival, at the cost of exactly the oldest in a full inbuff, refused by a full outbuff |
| `keyboard` | the driver's modifiers are the keys held, its buffer is a bounded queue in which every keystroke is stored, at the cost of exactly the oldest when it is full |
| `resources` | with queues created and deleted, but none created while the one created last is gone (section 5): blocks do not overlap and none leaks, what is written stays, the heap is intact (tails agree with heads, free chunks joined, free list exact in both directions), identifiers of existing objects distinct and none lost |
| `alarms` | scheduling kept through the nested calls and the kernel stack bounded, the list of alarms exact and sorted, no alarm overdue, nobody asleep on an alarm that is over, a running round robin thread inside its slice with the alarm set for it; for programs in which no thread changes its own parameters while it runs with a slice |
| `alarms_interval` (violation) | the interrupt handler loads an interval shorter than the driver's assertion allows |

Where a module's type invariant has no line of its own it is a conjunct of the
first invariant named (`SchedulingKept`, `QueuesConsistent`, `HeapExact`).

### Bounds

- Threads. Four descriptors besides reuse (idle, first thread, two more) in
  `threads_cancel` and `threads_join`, five in `threads_counts`. Three threads of
  a program are enough for a waiter, its target and one that intervenes.
  `MaxId` leaves enough identifiers for an address to be given to a second thread
  while handles of the first are still around. Identifiers do not wrap in
  `Threads`; that is `UniqueId`'s subject.
- Priorities. `PRIO_LEVELS = 3`: idle, and two levels for preemption. `PrioArgs`
  contains a value out of range, which the code forces to the highest level.
- Semaphores. Three workers: two in a queue, so that its order counts, and one that
  posts or destroys. Two objects for one `sem_t`: address reuse and a `sem_init`
  over a `sem_t` in use. `MaxValue = 1` distinguishes the token from the queue;
  larger values only repeat `sem_value > 0`.
- Monitors. Three workers: an owner, one at the entrance, one on a condition. One
  object of each kind, destroyed and created again at the same address.
- Messages. Two workers and a free descriptor for a signal's thread, one global
  queue deleted and created again at the same address, kernel memory for two
  messages, two types and two sizes. Two receivers, or a receiver, a sender and a
  handler thread, are the cases of a wake-up that goes to somebody else.
- Console. Three workers: one inside, two waiting, so that the lock is passed on
  twice. Buffers of two characters are full, empty and wrapped at every index; one
  character per `print` suffices, as a worker prints again and again.
- Keyboard. A letter, a key with a prefix, the keys whose left and right codes
  differ only by the prefix, and Caps Lock. Two codes on the way are one code with
  prefix or two without. Buffer of two.
- Resources. Twenty-two words hold four chunks of queues, of three words each, or three of
  the larger blocks with a rest too small to split; joins with the left, the right, both and neither
  neighbour occur. A queue here is only its links. Three identifiers: full, wrap-around and holes. The deadlock
  check is off because the code stops the machine (`halt`) when none is left.
- Alarms. Five ticks, a slice of three of which two are the threshold, intervals
  from two to four: slices that end, are interrupted early and late, and delays
  longer than the counter can measure. Two round robin threads share a priority,
  a third thread is at, above or below it, a fourth descriptor runs actions. With
  the shortest interval 2 no rest lies between half of it and it, so the assertion
  of `alarms_interval`, which uses 3, cannot fail in `alarms`. The deadlock check is off
  because time ends at `MaxTime`.

Symmetry is used for descriptors, workers, characters and addresses, in runs
without liveness properties only. It is sound because nothing orders or names them.

### Fairness

- The kernel's loops: the processor executes the handler it is in; nothing can
  disable it.
- `wait_for_thread_retry`: the user-mode loop runs whenever its thread does, and
  a thread in the loop makes no other call, so the call stays enabled until it is
  made or the thread is preempted. Weak fairness is all the code gives:
  preemption disables the call.
- `k_timer_interrupt`: a set alarm expires.
- `sys__thread_exit`, strong: `JoinReturns` says that joins return if the threads
  waited for end. A thread that is scheduled again and again returns from its
  start function in the end. Without this assumption a program may
  loop for ever and no join on it can return, in the code as in the model.
  `MaxId` bounds the threads ever created, so a waiter cannot be starved by an
  endless supply of new threads of a higher priority; fixed-priority scheduling
  gives no guarantee against that.

`WaiterServed` and `EntranceServed` assume nothing of programs: they say
"if posts (unlocks) on it never cease, then the waiter is released".

Each property has a variant of the code beside it in the module (comment
"Mutant"), with a plausible mistake, under which TLC finds it violated.

## 4. Proofs

All theorems hold for every value of the constants that satisfies the named
assumptions (`KThreadsAssumption`, `ThreadsAssumption`, `WorkersAssumption`,
`SemaphoreAssumption`, `MonitorAssumption`, `MessagesAssumption`, `RingAssumption`,
`ConsoleAssumption`, `KeyboardAssumption`, `UniqueIdAssumption`, `FirstFitAssumption`,
`ResourcesAssumption`, `ClockAssumption`, `AlarmsAssumption`): any finite or infinite set of threads,
any number of priority levels, any programs within `Uses`, a heap of any size from eight
words on and blocks of any sizes. The assumptions say that
queues have distinct names, that the null pointer is no thread, queue, object, handle
or pending call, and that the idle thread exists. Where a theorem counts threads
the ones that exist in the beginning are finitely many (`IsFiniteSet(Started)`); so
are those of a program in `Alarms` (`IsFiniteSet(Program)`), which are lined up in the
ready queues. `AlarmsAssumption` also has the order of the code's numbers: the threshold
of the timer below that of round robin, and that below the slice.

`KThreadsProofs` has one lemma per function of the scheduling core. They use the
predicate `Linked(k, L)`: types, `LinkedOnce`, `NoneLost` and `MaskExact` over the
live threads `L`. A thread that has been taken out of its queue and not put
elsewhere yet "floats": it is left out of `L`. Removing makes a thread float,
appending takes a floating one in, `kthreads_schedule` keeps `Linked` and
establishes `HighestRuns`, provided something can run. A handler's proof is the
chain of the lemmas of the calls it makes.

| theorem | says | hypothesis |
|---|---|---|
| `ThreadsProofs!SpecTypeOK` | types | `CarefulCancels`: no cancel of a thread that has ended, or whose links go stale |
| `ThreadsProofs!SpecQueuesConsistent` | no thread lost or linked twice, mask exact | same |
| `ThreadsProofs!SpecActiveIsHighest` | the thread that runs exists and has the highest ready priority | same |
| `ThreadsProofs!SpecAlwaysSchedulable` | the assertion in `kthreads_schedule` never fails | same |
| `ThreadsProofs!SpecQueuesFIFO` | no thread overtakes another one in a queue | same |
| `SemaphoreProofs!SpecSchedulingKept` | types, queues, mask and choice of the active thread, under semaphore calls | none |
| `SemaphoreProofs!SpecNoWaitWithTokens` | nobody sleeps on an available or freed semaphore | none |
| `SemaphoreProofs!SpecHandlesValid` | no `sem_t` points to a freed object | none |
| `SemaphoreProofs!SpecImplementsAbs` | every step of the kernel is a step of `SemaphoreAbs` or hidden there | none |
| `ConsoleProofs!SpecSchedulingKept` | types, queues, mask and choice of the active thread, under `print` and the serial driver | none |
| `ConsoleProofs!SpecPrintsWhole` | one thread at a time is past the device lock | none |
| `ConsoleProofs!SpecLockedHasHolder` | the device is locked exactly while a thread is inside | none |
| `ConsoleProofs!SpecBuffersInOrder` | both buffers of the serial driver refine `BoundedQueue`, and each character that comes is stored in them, at the cost of exactly the oldest in a full inbuff, refused by a full outbuff | none |
| `ConsoleProofs!SpecModifiersTracked` | once the codes have been read the keyboard driver's modifiers are the keys held | none |
| `ConsoleProofs!SpecKeystrokesInOrder` | the keyboard's buffer refines `BoundedQueue`, and each keystroke comes, at the cost of exactly the oldest when it is full | no read has `ONLY_LAST` |
| `ThreadsProofs!SpecNoWaitForEnded` | nobody sleeps on a thread that has ended | `JoinersSpared`: `CarefulCancels`, and no thread that waits or is waited for is cancelled |
| `ThreadsProofs!SpecThrCountExact`, `SpecRefCntExact` | thread count and reference counts are exact | `JoinersSpared`, `"cancel" \notin Uses` |
| `ThreadsProofs!SpecStatusKept` | the status stays until the waiter has it | `JoinersSpared`, `"sharedJoin" \notin Uses` |
| `SemaphoreProofs!SpecFailureReported` | a failed call is reported to its caller | none |
| `MonitorProofs!SpecSchedulingKept` | types, queues, mask and choice of the active thread, under monitor calls | `"destroyMonitor" \notin Uses` |
| `MonitorProofs!SpecLockedHasOwner`, `SpecNoWaitWhenOpen` | a locked monitor has an owner, nobody stands before an open or freed one | same |
| `MonitorProofs!SpecMutualExclusion` | one thread at a time is inside | also `"destroyCond" \notin Uses` |
| `MessagesProofs!SpecQueuesConsistent` | no thread lost or linked twice, mask exact, with threads that start and end | none |
| `MessagesProofs!SpecNoMessageForSleeper` | no wake-up is lost between wake-up and retry | none |
| `MessagesProofs!SpecNoMessageLeaked`, `SpecNoSleepInFreedMailbox` | memory is exact, nobody sleeps in freed memory | none |
| `MessagesProofs!SpecHighestKept` | every step but a delete leaves the highest priority running | none |
| `AlarmsProofs!SpecListExact` | the list of alarms holds the active ones, once each, by expiration time, at every step of the kernel | none |
| `AlarmsProofs!SpecNoneOverdue` | in user code no alarm is later than the shortest interval | none |
| `AlarmsProofs!SpecNoSleepOnExpired` | nobody is left asleep on an alarm that is over or removed | none |
| `AlarmsProofs!SpecInv` | the inductive invariant of the first two | none |
| `ServicesProofs!SpecIdsExact` | identifiers of existing objects are distinct, every bit of the mask is an object's | `"staleLast" \notin Uses` |
| `ServicesProofs!SpecHeapExact` | through every order of taking and giving back, chunks lie border to border, tails agree with heads, no two free chunks lie side by side, and the free list holds every free chunk once, in both directions | same |
| `ServicesProofs!SpecBlocksKept` | what callers hold are words of their own in chunks in use, with what they wrote last, and every chunk in use is held | same |
| `ServicesProofs!AddExact`, `SubExact` | `time_add` and `time_sub` add and subtract, for all times with at most 10^9 nanoseconds, and their results are such times | none |
| `ServicesProofs!CmpSound`, `CmpExact` | `time_cmp` never orders two such times the wrong way round, and is exact on those below 10^9 nanoseconds | none |
| `ServicesProofs!CmpNotExact` | a sum of exactly 10^9 nanoseconds compares as earlier than the same time with a second more | none |

The hypotheses exclude the uses under which the properties are false (section 5):
cancels that follow stale links, queues appended behind a freed one, cancelled waiters, reads with `ONLY_LAST`, a third caller that collects before a woken
waiter, destroyed monitors and conditions with threads in them.

*Inductive invariant of Threads.* `QueuesConsistent` alone is not inductive. That
the idle thread stays schedulable needs that no handle in user memory, and no
pending join, names it (`handles \subseteq UserHandle`). That a new descriptor
is in no queue needs that ended threads still hold their address (`ended \subseteq
Allocated`), so that free addresses are neither live nor linked. That the second
run of `kthread_cancel` changes no queue needs `AgainOK`: its thread has ended
and has no stale neighbour. And between the loop's steps the active thread may
have ended, so `HighestRuns` is claimed only when the kernel is about to return.

*Waiting, counting, status.* Three more invariants of `Threads` rest on the first.
`Joins` relates who stands in a join queue with what the waiters' loops hold: who
stands there waits for this thread, in this incarnation (the identifiers
agree), and an ended thread's queue is empty once its loop of releases is over.
`Counts` says that the thread count is the size of the set of live threads without
the idle one, that a live thread's reference count is one more than the size of the
set of those whose join has yet to collect it, and that an ended thread's is between
one and that size; each action adds or removes one element, and the sets are finite
because every descriptor is given out by a step. `Kept` adds that no two threads wait for the same
handle, so that nobody collects what a woken waiter has yet to read.

`QueuesFIFO` needs no more invariant than this. One call does several things to
a queue, so the order is shown for each function (`Fifo`) and put together by
`FifoTwice`, which asks that nobody leaves a queue and comes back within the call: the one
thread `kthreads_schedule` can put into a ready queue was active before, and so in no
queue (`ThenScheduleFifo`).

*Inductive invariant of Semaphore.* That nobody sleeps on a freed object needs
`HandlesValid` and `PtrInjective`: a `sem_t` points to an existing object and no
two share one, so the object a destroy frees is the one whose queue it has
emptied. The refinement is then a case per action: creating needs that the
fresh object's queue is empty, which `NoWaitWithTokens` gives; blocking and
releasing need that only the queue concerned changes; alarms and scheduling do
not touch semaphore queues.

`FailureReported` needs `Reported`: at its end a destroy writes success to
whoever is active by then. That is the caller or a thread the destroy has
released, because every ready thread of a higher priority was blocked before; and a
blocked thread has no failure to report, because the call it is blocked in returns
success.

*Inductive invariant of Monitor.* Ownership is passed on inside `unlock` and `wait`
and by the loop of signal and broadcast, which either makes a thread the owner or moves it
from the condition to the entrance (`ShiftMoves`: out of one queue and into
another, never ready in between). The invariant (`IInv`) says that variables point to
existing objects of their own, that a lock is set exactly while there is an owner, that who
stands at an entrance or on a condition has called for this monitor, and that
`qdata` names the monitor the thread comes back to. Mutual exclusion is about
`claim`, the history of who asked to enter; `Inside` says that a thread with a
claim that stands in no queue of the monitor is its owner.

*Inductive invariant of Messages.* Threads come and go, so the scheduling state is
consistent over `live` (`Settled`), and since a delete does not choose a thread, not
with the highest priority running. Who sleeps in a queue is in a call on the
variable that holds it (`SleepersCalled`, `QueuesOwned`). `Awaited` is the heart of
`NoMessageForSleeper`, freed of its condition on `deleting`: in a queue with sleepers there are no more
messages than threads that were woken and have not looked yet. Posting adds one
to both, as the released thread is taken from the sleepers; receiving takes at
most one from both; blocking presupposes an empty queue, because a receiver
that does not choose takes any message. In a thread's own mailbox the
argument is shorter: only the owner sleeps there (`OwnersOnly`), so the
one thread a message releases is the one it is for. `Counted` compares the heap
with the set of pairs of mailbox and position; each operation adds a pair, removes
one, or removes all pairs of a mailbox.

*Inductive invariant of Alarms.* `Inv(s)` holds at every step, between the calls of a
handler too. `InTime` is the heart of `NoneOverdue`: the delay that was asked of the
timer, counted from when it was asked, ends at most the shortest interval after the
first alarm. It holds unless `k_schedule_alarms` is on the stack (`Busy`), because what
it calls may add alarms and set the timer, and it sets the timer itself in the end.
That the delay it computes then is right needs `FrameOK`: the time it read at its
start is still the time. That a long delay, measured in pieces, is measured to
its end, and one that is too short is raised and not lost, is `Measures` with the
lemmas about `arch_timer_set` and `arch_timer_handler`. The list is followed through
`list_sort_add` (the position found is the one before which nothing expires later),
`list_remove` and the loop that takes the first one out (`Listed`); what the loop reads of
an alarm is there (`Owned`). Of the scheduling state the invariant claims only what alarms
need (`Runs`): the mask is exact and the idle thread can run, so `kthreads_schedule`
always finds a thread. More is not true for all programs: a thread that
changes its own parameters while its slice runs is linked twice, so `SchedulingKept`
is checked for the programs of the run, not proved. In such states the sequences
are not the code's lists (section 6).

*Who sleeps on alarms.* `NoSleepOnExpired` is about user code; `Asleep` is its form
between the calls of a handler. An alarm somebody sleeps on exists and is active, or has no
expiration time, or its sleepers are about to be released: a `release` for it is
on the stack, or the machine has halted. Nobody waits for the alarm of round robin, which
is the one alarm whose handler wakes nobody. All of the scheduler but `kthread_enqueue`
only takes threads out of the queues of alarms, and `k_alarm_set` and its callees turn no
awaited alarm into one that is not (`Calm`); the two places that give an alarm up,
expiry without a period and removal, push the release in the same step (`AsleepBut` is the state
in between).

*Inductive invariant of Console.* The lock has no owner in the code, so the
invariant follows the threads past it: those in `print` that do not stand in the
device's queue. There is at most one, there is one exactly while `locked` is set,
and who stands in the queue is in `print`. `LockInv` states this over queue, texts and
lock alone, and each operation has a lemma about it: joining the queue, passing an
open lock, opening it, passing it on (which needs that a queue holds a thread only
once), printing a character. `PrintsWhole` reads `kthread->queue` instead of the
queue itself; the two agree because the active thread's field names no queue of
blocked threads (`ActiveFree`), which `kthreads_schedule` sees to when it sets the
field to `NULL`.

*Buffers.* A ring is a queue by `last = (first + size) % SIZE`. All indices stay below
twice the size, so each remainder is a subtraction of `SIZE` at most once
(`Wrap`), and the three updates of the indices are shown to append, to append and
drop, and to drop. The steps of the driver compose them: `uart_recv` on a full
buffer with a character waiting in the chip drops two elements and appends one. The
keyboard's reads drop any number, `taken`, which is between one and the size.

*Modifiers of the keyboard.* `ModifiersTracked` speaks of the states in which no code
waits; keys may be pressed long before. The invariant (`ModInv`) says what the driver
will believe when it has read what waits: there is a run of decoder states
(`Run`), the first the driver's own, each the next one's predecessor under
`i8042_prepare_char`, and the last, after all codes, is between two keys and has the
modifiers held. That the run exists is carried along, so nothing recursive is unfolded: a key adds
one or two states at its end (`PressTells`, `ReleaseTells`, key by key), an
interrupt takes the first state away.

*Identifiers.* `IdsExact` is inductive once the search is known to return an
identifier whose bit is clear. It takes the first turn that finds one; that a
first turn exists among the turns that do is the well-foundedness of the natural
numbers. The heap and the halting cases do not touch mask and objects.

*Inductive invariant of the heap.* `HeapExact` speaks of what a walk along the sizes or
the links finds, which no step can be followed through. The invariant (`Intact`) has
the set `H` of heads and the set `S` of listed chunks as such instead:

- `Tiles`: each head is followed by a head, each but the left border follows one,
  and no chunk reaches over the next head;
- `Tails`, `Held`: tails agree with heads, blocks lie in chunks in use;
- `Listed`: the links of the chunks in `S` are inverse to each other, and some rank
  grows along them, so that the list has no cycle.

Inside a call one chunk is free, in no list, and without its tail: the set `X` of
`Intact`. `ffs_free` is a chain of lemmas from one intact heap to the next: `MarkFree`
opens the chunk, `JoinLeft` and `JoinRight` (both by `Merge`) move or widen it,
`PutBack` closes it. The left join reads the word before the chunk, which is the tail of
the neighbour and never what a caller wrote, because chunks tile and `X` does not
contain the neighbour. In `ffs_alloc`, `TakeWhole` or `TakeEnd` opens a chunk and
`TakeUsed` closes it. `SoundIsExact` leads back to the walks: the heads reached are `H`
(`HeadsFacts`, by the least head on which they differ), and the list holds all of `S`
(`FreeListFacts`: the listed chunk of least rank that the walk misses would be met after
its predecessor). It ends within `MaxFree` steps because chunks have at least four words,
a pigeonhole argument. What holders wrote is the array `D` of `Held`: a chunk that is moved,
joined or split leaves the words of blocks alone, and what a holder writes changes `mem` and `D` alike
(`WriteHeld`). For `Resources`, `ObjectsBacked` adds that each queue's
memory is a block, and no two queues share one; so `sys__delete_msg_queue` gives back a
block that is held, and `list_append` writes into two blocks that are held (`AppendKeeps`), unless the
end of the list is stale.

*Times.* The proofs are about all integers; 10^9 appears as an opaque positive
number, the products of seconds with it being distributed by lemmas. `time_t` in
the theorems is any number of seconds and 0 to 10^9 nanoseconds: the largest set
that is closed under the code's operations.

Only model-checked: the liveness properties (`JoinReturns`, `WaiterServed`,
`EntranceServed`), which need fairness; in `Alarms` the bound of the kernel stack, `SchedulingKept` (not true for all programs, see above),
and `SliceBounded`.

## 5. Where the code differs from its comments

Shown by a run:

1. `kernel/thread.c:681`: `EXIT ( kthread_cancel ( kthread, -1 ) )` evaluates its
   argument twice. The thread count drops by two, and the process is removed
   while a thread of it runs (`threads_process_kept`).
2. `arch/i386/arch/time.c:114`: the interrupt handler loads what is left of a long
   delay as it is. `arch_timer_set` raises a delay to the shortest interval; the
   rest is not raised, and between half of the shortest interval and
   the whole of it the driver's assertion (`i8253.c:65`) fails (`alarms_interval`).

Expressible with the same modules, without a run of their own:

- *Threads.* `kernel/thread.c:453`: a cancelled thread that was not active keeps
  `READY` or `WAIT`. While others wait for it the descriptor stays, and a
  woken waiter repeats its call, does not find it `PASSIVE`, and blocks for ever
  (`"cancelJoined"` in `Uses`: `NoWaitForEnded` fails).
- `kernel/thread.c:646`: two waiters and a third caller: the third can collect
  before a woken waiter does, and takes its reference (`"sharedJoin"`: `StatusKept`
  fails).
- The cut queue. `kernel/thread.c:681`, `lib/list.c:153`: the second run of
  `kthread_cancel` removes its thread a second time, through the links it keeps from the first
  removal. What stood around it has moved if it is the last of several in a
  ready queue and its waiters are released behind its old neighbour, or if it waits for itself, among
  others in its own join queue (`"cancelStale"`). With five descriptors the threads behind the old
  neighbour are cut off, and `QueuesConsistent` fails; with a self-join it can be the canceller, preempted by
  then, and those behind it.
- A thread that has ended while it was `READY` or `WAIT` can be cancelled again as long as its
  descriptor is kept for its waiters: `sys__cancel_thread` looks at the state only. Its links may name anything
  by then (`"cancelEnded"`), and the count of threads drops by two more.
- A cancelled waiter (`"cancelJoiner"`) never gives its reference back;
  `RefCntExact` fails, and the target's descriptor is kept for ever.
- *Semaphores.* `kernel/semaphore.c:55`: `sem_destroy` sets errno after
  `kthreads_schedule`, on the thread that is active by then. Its caller keeps the
  errno of an older call: `errno[t] = ret[t]` does not hold for successful calls;
  `FailureReported` says what does.
- *Monitors.* `kernel/monitor.c:92`: threads released from a destroyed condition
  queue are inside the monitor without owning it (`"destroyCond"`:
  `MutualExclusion` fails).
- Destroying a monitor while threads wait on its conditions
  (`"destroyMonitor"`): they keep the freed monitor's address in `qdata`;
  `LockedHasOwner` and `NoWaitWhenOpen` fail.
- *Identifiers.* `kernel/memory.c:143`: 0 is given after a wrap although line 142
  says "don't assign 0", and freeing it fails the assertion in `k_free_unique_id`.
- `kernel/memory.c:137`: the search ends at `last_id` without testing it, so with
  every identifier but that one in use the machine stops although one is free.
- *Heap.* `kernel/messages.c:81`, `lib/list.c:29`: "all global queues are in single list"
  (`messages.h:38`), and so are the deleted ones, since nothing removes a queue from `kmsg_qs`. The
  next create writes `list->last->next`. If the queue created last is gone the
  word belongs to the free list, or to whoever has got the memory: with `"staleLast"` in `Uses`
  `BlocksKept` fails after create, delete, `kmalloc`, create. It is harmless while the new queue gets
  the address of the deleted one.
- *Messages.* `kernel/messages.c:100`: deleting through a `msg_q` whose handle is `NULL` reads
  through it; post and receive test for that, delete does not. No program of `Messages` does it.
- `kernel/messages.c:180`: a message wakes the first waiting thread,
  whatever type it waits for. With `Selective = MsgQ` a message stays while the thread
  it is for sleeps behind the one that was woken and blocked again;
  `NoMessageForSleeper` fails.
- `kernel/messages.c:104`: deleting a queue makes its waiters ready without
  choosing a thread anew; a waiter of a higher priority runs at the next scheduling
  decision. `HighestKept` names this exception.
- *Keyboard.* `i8042.c:97`, "return last keystroke, drop all before": `ONLY_LAST`
  moves the last index to the first, then advances the first; the oldest
  keystroke is returned, and the next one read is stale. With it in `GetFlags`
  `KeystrokesInOrder` fails.
- `i8042.c:289`: releasing the right Ctrl key stores the key's code in the bits of
  a character (`"phantom"`), and a read with `ONLY_ASCII` returns it.
- *Round robin.* `kernel/sched.c:90`: `activated` is set after the activation
  returns. If setting the slice's alarm finds another alarm expired and that one
  makes a thread ready, the new thread is deactivated before it counts as
  activated, keeps its slice in the books, and is marked activated when it no
  longer runs. `s.torn` names the threads this happened to; `SliceBounded` is about
  the others. The same set holds threads activated while a timer
  interrupt was due: the time read then is one interval too low.
- *Alarms.* `kernel/time.c:154`: `k_alarm_add` blocks the creator of the alarm. A
  thread that sets another's alarm with `IPC_WAIT` would block a thread that is
  elsewhere, in a queue perhaps; programs in `Alarms` ask for it on their own.
- An alarm that is given no expiration time leaves the threads that wait for it
  asleep until it is set again or removed; `NoSleepOnExpired` names this case.

## 6. What the models leave out

- **Data.** Exit codes, per-thread storage, stacks, names and start arguments;
  the properties do not depend on them. What becomes of the status is represented
  by whether the descriptor that holds it is still there. Texts of messages.
- **Memory in the other modules.** The heap gives any free address there, and
  running out of memory makes a call fail and change nothing (in `Messages` it is
  modelled, in `Alarms` it stops the machine as in the code). The double free of the stack in a
  cancel is not made in `FirstFit`: what it does depends on who took the block
  in between, in programs that `Resources` does not have.
- **Removal of the process.** When the count reaches 0 the model records it in
  `thr_count`; threads of the removed process that go on running in the code do so in
  the model.
- **Threads.** After a cancel with stale links: the links back and `list->last`, which still name
  threads that have been cut off, so that later appends follow them out of the list, and lists that become rings (`relink`); wrap-around of identifiers inside `Threads`. Cancel is not
  composed with monitors, messages or devices: the owner of a monitor, the thread
  inside `print` or the receiver released for a message can be cancelled in the
  code, and each leaves the others waiting.
- **Monitors and messages.** errno, and calls that fail: they change nothing else.
  Messages sent with a copy of a `msg_q` whose queue is gone. The list of all
  queues, which `Resources` has: `Messages` takes the queues' memory to be safe, as it is
  for the programs of `SpecBlocksKept`.
- **Devices.** Registration, opening and closing; line parameters of the serial
  port; the keyboard's LEDs, echo, raw mode and configuration. `Console` has the
  programs' output on the serial line, which the build offers (`Makefile:48`);
  by default it is the screen, which has neither buffer nor interrupt.
- **Alarms.** A creator that has ended: `first->thread` then dangles and the priority
  of the action's thread is read from it; threads of the program do not end in
  `Alarms`. Round robin threads that block on an alarm of their own, and changes to
  the parameters of the thread that is active with a slice, are excluded by
  `Programs`. Conversion between ticks and nanoseconds.
- **Identifiers.** The build has `MAX_RESOURCES = 1000`, not a multiple of 32, and the
  bits of the last eight lie behind the end of `idmask`; the model takes a
  multiple of the word size.
- **Numbers.** `sem_value` is a C `int`; its overflow after 2^31 posts is beyond a
  bounded check, and the model stops counting at `MaxValue`.
- **Lists.** Sequences, except for the stale links a cancel follows and the list of all queues
  in `Resources`; no model of the other pointers.
- **Not modelled at all.** Hardware level code (interrupt tables, context switch,
  descriptors, screen): register and memory layout; what matters above it is that
  handlers are atomic. Loading of programs and address translation: data
  movement. The grid allocator, which is not linked. The demonstration programs:
  the models let programs make the calls in any order. The earlier stages of
  the course, which are older versions of the same files and most of the
  repository's lines.

## 7. Plan

Modelled and checked: every component of the last stage that has control of its
own. Left, in this order:

1. Compositions with cancel: `Threads` with `Monitor` and with `Messages`.
2. `ListImpl`: pointer-level lists refining sequences, and what removing an element
   twice does.
3. The producer and consumer program on `Semaphore` and the dining philosophers
   on `Monitor`, with their own liveness; start and removal of processes.
