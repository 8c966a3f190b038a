# KUtrace in TLA+

KUtrace records every transition between user and kernel code on every CPU of a
machine, at a cost of a few nanoseconds each, and turns the record into a picture of
what each CPU did when. This directory holds TLA+ models of its core, the TLC runs
that check them on small instances and TLAPS proofs for instances of any size.
`PROJECT.json` lists the runs, maps every definition to the source lines it stands
for, and names the hazards the properties are aimed at.

To check a run: `tlc -workers 2 -config <cfg> <MC module>`; to check proofs:
`tlapm <module>_proofs.tla`.

## 1. The system

| Part | Source | State | Operations | Talks to |
|---|---|---|---|---|
| Kernel trace buffer | `linux/module/kutrace_mod.c` | block pointers `traceblock_high/limit/next`; per CPU `tb->next`, `tb->limit`, `tb->prior_cycles`; `kutrace_tracing`, `do_wrap`, `did_wrap_around` | inserts from hooks (`insert_1`, `insert_2`, `insert_n_*`), claims (`get_claim`, `get_slow_claim`), commands ON, OFF, FLUSH, RESET, GETCOUNT, GETWORD, GET4KB | hooks in the kernel call it from tasks and interrupts; user programs through one system call |
| Kernel patch | `linux/linux-6.6.36/kutrace_patch_file_6.6.36.txt` | none | the hooks: entry and return of system calls, faults, interrupts, scheduler; switches, wakeups, IPIs, idle states | the trace buffer |
| Times in the trace | `kutrace_mod.c` and `postproc/rawtoevent.cc` | 20-bit times, TSDELTA words; rawtoevent's `prepend`, `prior_t` | recording, reconstruction | the file |
| Tracing session | `postproc/kutrace_lib.cc`, `postproc/kutrace_control.cc` | static time pairs `start_*`, `stop_*`, `control_flags`, the file being written | `go*`, `stop`, `on`, `off`, `flush`, `reset`, `dump`, `quit`, `-force`, `0`, `1`; `kutrace::go`, `kutrace::stop` | the module, by system call |
| Events to spans | `postproc/eventtospan3.cc` | per CPU a stack of calls, an open span, the last switch; per process its stack when switched out, end of its last span, pending wakeup | one pass over sorted events that inserts what is missing | text in, JSON out |
| Contention-tracing lock and its histogram | `bookcode/mutex2.cc`, `fancylock2.cc` | `lock`, `waiters`, `holder`; two words of packed counters | `Acquirelock` (try, spin, futex wait), `Releaselock`, `IncrCounts` | futex |
| Locking demonstration | `bookcode/mystery27.cc` | accounts, bank total, four locks | transactions, dashboards | the lock |
| Queueing program | `bookcode/queuetest.cc` | queues with `head`, `tail`, `count`, `lock`; `pending_count`; a log file | `Enqueue`, `Dequeue`, `PrimaryTask`, `WorkerTask`, `GenerateLoop` | futex |
| RPC server and clients | `bookcode/server4.cc`, `client4.cc`, `dclab_rpc.cc`, `spinlock.cc` | key-value map, spin lock, `stopping`; per connection a half-read request | `ping`, `read`, `write`, `sink`, `delete`, `stats`, `reset`, `quit` | sockets |
| Self-check, span filters | `checktrace.cc`, `spantospan.cc`, `spantotrim.cc`, `spantoprof.cc` | intervals | one pass | text |
| Ports, copies | `freebsd/`, `linux/android/`, `riscv_linux/`, `linux/setup/` | as the above | | |

What is hard in it, and what makes each part correct:

* **Trace buffer.** Entries are claimed with one atomic add and no lock, while an
  interrupt may log entries of its own, and even move the CPU to a new block,
  between any two instructions of the claim. Correct means: no word is given to two
  entries, an entry lies in one block, a stored entry stays, reading out covers the
  blocks in use and no others, the claim loop ends, and a trace that wraps around
  keeps its first block, which has the names.
* **Times.** The two sides of the 7/8 - 1/8 split must agree; `prior_cycles` is read
  and written in different steps of an insert. Correct means: the time read back is
  the time taken.
* **Session.** Commands run in several processes, which may die, and with kernel
  events in between; a file may fail to open. Correct means: the file is the trace,
  its time pairs were taken before and after everything in it, and every command ends.
* **Spans.** The trace starts in the middle of things, some returns are not traced,
  and after a switch it is not known how far out a process comes back. Correct means:
  the stacks are the calls in progress, spans say what ran and cover the time once,
  a process is shown waiting only while it does not run, and the fix-ups end.
* **Lock.** Three ways in (immediately, spinning, waiting) and a release that wakes
  only if it has reason to; waiting times are counted in bit fields that overflow into
  one another. Correct means: exclusion, a right `holder`, no lost wakeup, no thread
  asleep for ever, every wait counted once.
* **Bank.** Kinds of work take different locks of four. Correct means: no deadlock, no
  update lost, a dashboard that shows one moment.
* **Queues.** Tasks look at `count` without the lock. Correct means: nothing lost or
  doubled, the limit on transactions in flight is kept, no lost wakeup, every
  transaction ends.
* **RPC server.** Requests arrive in pieces from clients that may die; the spin lock
  gives up after 100 million tries and takes the lock. Correct means: methods are
  atomic, only whole requests are acted on, every waiting client hears something.

## 2. Modules

| Module | What |
|---|---|
| `ClaimSpace` | abstract specification: contexts are granted words nobody holds, store into them, and stored words stay until everything is cleared |
| `TraceBuffer`, `MCTraceBuffer`, `TraceBuffer_proofs` | the allocator of `kutrace_mod.c`; refines `ClaimSpace` |
| `Timestamps`, `MCTimestamps`, `Timestamps_proofs` | recording of time in `kutrace_mod.c`, reconstruction in `rawtoevent.cc` |
| `TraceSession`, `MCTraceSession`, `TraceSession_proofs` | commands, library calls and system calls, down to the trace file |
| `EventToSpan` | the converter `eventtospan3.cc`, for any input |
| `TracedKernel`, `MCTracedKernel` | a kernel with the patch, composed with `EventToSpan` |
| `EventToSpan_proofs`, `TracedKernel_proofs` | the converter for any input, then the two together: the first has its nesting, RPCs, tiles and waits, the second, which extends it, the calls on its stacks and the names of its spans |
| `Mutex2` | the lock |
| `TracedLock` | the lock composed with the entries it makes in a trace and the lines `eventtospan3.cc` draws from them |
| `FancyLock2`, `MCFancyLock2` | that composed with the lock's histogram |
| `Mystery27`, `MCMystery27` | the bank, over locks that do what Mutex2 promises |
| `Locks_proofs` | proofs about `TracedLock`, with it `Mutex2`, about `FancyLock2` and about `Mystery27` |
| `QueueTest`, `MCQueueTest`, `QueueTest_proofs` | the queueing program |
| `KeyValueStore` | abstract specification: every request changes or reads the map at one instant |
| `RpcServer`, `MCRpcServer`, `RpcServer_proofs` | server, clients, messages and spin lock; refines `KeyValueStore` |

Definitions whose names end in an underscore and a word (`AddNext_NoTsdelta`) are
mutants: the code with a plausible mistake in it. Each property is known to fail for
at least one of them.

### TraceBuffer

Pointers are word addresses and a word is only "stale", "head", "nop" or "entry".
A *context* is a task or an interrupt handler that is logging an entry. `stack[c]` is
who interrupted whom on CPU `c`: only the last one runs. `pc[x]` walks through
`get_claim`: read `tb->limit` ("limit"), the atomic add ("add"), the second read and
the decision ("recheck"), the slow path ("slow"), the store ("store"). The slow path
is one step, since it runs with interrupts off under `kutrace_lock`. `insert_1`
stores with the CPU still its own; the longer inserts give the CPU up first, so the
context leaves the stack when it is granted its words. `do_flush` and `do_reset` are
guarded by `Quiet`, no insert under way: this is what the 20 msec wait of `DoOff`
is for, and all documented uses wait. `-force` and a second `go` do not wait, and for
them exclusion does not hold: an insert that got its words before the RESET stores
into a block that has been handed out again. (`TraceSession` has such resets.)

### Timestamps

One CPU, one thread that makes calls, and one block. An insert reads the clock, reads
`prior_cycles`, claims and sets `prior_cycles`. A return whose value is small goes
through `insert_1_retopt`: it reads the clock, takes the last word of the block
(`GetPrior`) and, if that is a call with no return yet, merges the return into it
(`Merge`), even if the block has been left meanwhile; or it starts over as `insert_1`
(`NoMerge`). `Interrupt` may log a whole entry between any two of these, and
`raced` remembers that one came between the read and the write. A word carries the
ghost `at`, its true time. `decode` folds `DecodeWord` over the block as rawtoevent's
loop does. The 2^20 period is scaled to 16, its 7/8 and 1/8 to 14 and 2, the TSDELTA
argument from 2^32 to 256.

### TraceSession

Commands are given in any order, as far as the `menu` of the session goes; each
becomes a list of operations (`todo`), each one system call or one assignment to the
library's statics. Kernel events begin and end between any two: `EventBegin` finds
`kutrace_tracing` set, `EventEnd` inserts even if tracing was turned off meanwhile,
and `msleep` waits for it. `Exit` and `Die` forget the statics, so that later commands
are another process. The module is a sequence of blocks here; TraceBuffer has it in
detail. `kept` and `off` are histories: the pairs the process has are times before and
after all of the trace; DoOff has been done.

### EventToSpan and TracedKernel

`EventToSpan` has the state of `eventtospan3.cc` under its names. `Read` takes the
next event; `PreProcessEvent` is then a sequence of steps (`FixupReturnPop`,
`FixupReturnCall`, `FixupResched`, `FixupSched`, `FixupCall`, `FixupCexit`), each of
which inserts one event through the same operators that process real ones
(`ProcessCall`, `ProcessReturn`, ...), until `ProcessEvent` handles the event itself,
perhaps followed by the made-up wakeup of a new process. `shown` and `waits` are the
spans written for the current event. `ConvSpec` feeds it any events at all.

`TracedKernel` is the other half: for each CPU what really runs (`on`, `thread`) and
which entries the patched kernel makes of it. Calls nest by level; the scheduler is
entered, switches, and returns in the other process; a new process appears with no
scheduler to return from; `hidden` counts calls in progress that the trace never saw
begin, `strayed` marks processes that left calls without a trace. Bottom halves
(`BottomHalves`) are traced as interrupt 255 with interrupts enabled, so another
interrupt may come into one; `cut` marks the tasks in a bottom half for which it did.
Workloads (`Mixes`) choose which of this may happen. The properties compare the two
halves.

### Mutex2, TracedLock and FancyLock2

One step per access to the shared structure. The store that frees the lock may stay
invisible while `waiters` is read (`TestWaitersEarly`, `Drain`); `delayed` remembers
that such a store became visible while a thread slept. `QuickTry` starts an acquire at
any time, `Interrupted` is a futex wait that returns because of a signal. `TracedLock`
adds to each step the trace entry it makes (`LockEvent`) and what the converter does
with it (`ProcessLockEvent`). Entries of one thread are in order and the converter
keeps them by thread, so the entry may be taken together with the step before it.
`FancyLock2` adds `IncrCounts` between a contended acquire and its block, in two steps
that nothing but the lock keeps apart. The sizes of the fields (`Size`) and their
places (`kBucketIncr`) are constants, so that narrow fields can be checked and any
proved about. The masks and shifts of the code are operations on the fields of a word
(`GetField`, `ZeroField`, `ZeroLows`, `SetHighs`); `MasksAssumption` of `MCFancyLock2`
has TLC compare them with the masks, bit by bit, for every word of the instance.

### Mystery27

A lock has an owner; `Order` lists the locks a kind of work takes under the options.
`Release` wakes the threads that wait, or leaves some of them asleep on the free lock:
Mutex2's store of 0 delayed past the test of `waiters`. They are the variable `asleep`
until another thread releases the same lock, which finds them counted. Whether the
releasing thread's own acquire was contended, in which case Mutex2 always wakes, is not
kept: more wakeups can be lost here than there.
`balance += amount` is a load and a store, and the dashboard reads account by account.

### QueueTest

A list is read under the spinlock into `seen` and written back from it, so that two
threads in the critical section would lose an item. `FUTEX_WAKE` with the count of 0
the program passes wakes one thread on Linux, and only the queue's own task ever
sleeps on its count. `Finish`, `CloseLog` and `Exit` are main's end, which stops all
threads.

### RpcServer

One thread per port: `Listen`, `Accept`, `NextRequest`, `ReadSome` until the message
is whole, `Dispatch`, `Look`, `Grab` or `Try` for the lock, `Find` and `Act` on the
map (two steps, an iterator in between), `ReleaseSpinlock`, `SendResponse`, `Close`.
A message is a marker, a header and arguments, and any prefix of it may have arrived.
A client that is killed has sent some prefix; if a response was still to be read its
connection is reset, and reading from it is an error on which the code exits.
`grabbed` remembers that `Grab` cleared a lock that was held. The promise,
`KeyValueStore`, lets anything happen to the map once that is so.

## 3. Runs

The type invariants `TypeOK` are theorems of section 4. They are not listed among the
runs' properties, which say what the types do not.

| Run | Checks | Bounds and why they are enough |
|---|---|---|
| `two_cpus` | ExclusiveClaims, EntriesInsideBlock, CurrentBlockWhole, ImplementsClaimSpace | 2 CPUs, 2 contexts which may be on one CPU or on two, 2 blocks of 8 words, entries of 1 and 2 words with and without TSDELTA: blocks fill after a few entries, so that block changes meet claims at every step, and the buffer fills up |
| `wraparound` | ReadOutComplete, FirstBlockSurvives, InsertEnds | 1 CPU, 2 contexts, 3 blocks of 4 words, entries of 2 words, which with a TSDELTA word are longer than get_slow_claim allows (`SlowBadLen`): the trace before the first reset fills three blocks, later ones wrap over and over, also while a claim is interrupted, or fill the two blocks that IPC leaves. ReadOutComplete is proved for all |
| `wrap_sharing` | ExclusiveClaims, violated | 2 CPUs with wraparound |
| `times` | TimesRecovered, GapsRecorded, ReturnsTrue | calls and returns, interrupts at all points, gaps of 0, 1, 14, 15 and 33 ticks with a period of 16: none, below, at and above 7/8, and above two periods; tracing starts 3 ticks before the 20-bit time wraps; blocks of 4 words; returns merged into calls of up to 3 ticks, so that a call of 0 ticks and a gap of two periods and one tick are merged too |
| `sessions` | TimesBracketedIfKept, FileIsTrace, NamesStay, SessionEnds | 3 commands of 12 with 2 events and processes killed; 5 of on, off, dump and reset for pauses and second traces; go and stop with 9 events in 3 blocks of 2, which wraps; 3 of the library's calls and the other commands |
| `restarted_control` | TimesBracketed, violated | `1` and then `0` |
| `spans` | StacksNest, PreprocSuffices, StacksTrue, SpansTrue, SpansTile, WaitsTrueIfSwitched, RpcTrue, AllConverted | 12 workloads of 6 to 13 events on one CPU or two with one or two processes and the idle task, each around one difficulty: nesting, start inside calls, untraced exits, interrupts inside the scheduler, interrupts inside bottom halves, new processes, idle states, waits, marks before a process's first call, two CPUs, a process that moves between them once its CPU is done with it and before. The shortest behaviours that need a property's exception have 7 to 9 events |
| `spans_gap` | TimeCovered, violated | the workload with interrupts inside the scheduler |
| `lock` | MutualExclusion, LostByDelayOnly, HistogramTrue, LinesTrueIfWaited, SleepersWake | 2 threads, wakes of 1; two buckets of 2 bits and of 1, so that every carry and every halving happens after a few waits. Safety of the lock, and the histogram for any fields, is proved for any number of threads |
| `bank` | NothingLost, PageTrue, BooksBalance, ThreadsFinish | 2 workers with 2 actions each, an account for each of the two locks, one dashboard, all options: two threads and the one that takes all locks are what a cycle needs; every release may lose its wakeup |
| `queue_tasks` | NothingLost, InFlightLimited, NoLostWakeup, ItemsEnd | 2 workers, 3 transactions of one or two steps, room for 1, the build without `-DFIXED` that `compile_all_user.sh` makes: transactions are dropped and queued at the same time |
| `rpc_store` | OneInside, NothingHalfRead, FailsOnlyIf, AtomicStore, RequestsEnd | 2 ports, 2 clients on one port or on two, 8 pairs of jobs that use every method, one key and two values, one look at a held lock before it is grabbed |

Bounds in the guards: `MaxNest` (interrupts nested on a CPU), `MaxOver` and `MaxUnder`
(how far `tb->next` and `traceblock_next` run past their limits when the buffer is
full: every refused entry moves them, and only being past matters), `LastClock`, a
menu's `most` and `events`, a workload's `events`, `WORKER_ITER`, `reps`. CPUs and
contexts are interchangeable in TraceBuffer, so its safety runs use symmetry. Deadlock
is not checked where the system stops: the block is full or the clock bound is reached
(Timestamps), no more commands come (TraceSession), the trace has ended
(TracedKernel), all threads have finished (Mystery27), main has returned (QueueTest),
the clients are done or the server has exited (RpcServer).

### What the properties say, and do not say

* `CurrentBlockWhole`: a word of the block a CPU is filling that still holds old data
  is free or claimed. Words of blocks left behind may hold old data: a claim
  interrupted between its atomic add and its second look at `tb->limit` is given up
  if the interrupt changed blocks, wherever in the old block it lies. The comment at
  `kutrace_mod.c:1244` has it "at end of old block".
* An 8-word entry with a TSDELTA word is 9 words; `get_slow_claim` tests it against 8
  and stops the trace even if blocks are left (`SlowBadLen`). Its abandoned claim is
  also one word longer than the NOP tail, so `two_cpus` has no such entry.
* `ReadOutComplete` says which blocks are read out, not what is in them. In a trace
  that wraps around, interrupts may fill the whole buffer between the atomic add of a
  claim and its second look at `tb->limit`, after which the CPU may have the block again
  that it had at the first look. The two limits are then equal (`kutrace_mod.c:1237`)
  although the claim was made in a block between, and if it ran over the end of that
  one, the test for fit passes (line 1248) and the entry is stored over the front of
  the block above. `wraparound` has such behaviours, the shortest of
  about 26 steps. Hence a block counts as handed out, in the property, once its first word is
  not the one from before the reset, and the theorems about what is inside blocks are
  for traces that do not wrap around. FirstBlockSurvives holds all the same.
* `InsertEnds` excludes wrapping traces. There interrupts could change the block
  between the two reads of `tb->limit` for ever; without wraparound the buffer ends.
* `TimesRecovered` says that rawtoevent dates an entry right if the trace recorded the
  gaps up to it, and `GapsRecorded` that the module records them, if they fit in the
  argument of a TSDELTA word, when no interrupt fell between the read and the write of
  `prior_cycles`. What is excluded is what the
  code gets wrong: a gap of exactly 7/8 of the period, which the module takes for
  forward time (`kutrace_mod.c:782`) and rawtoevent for a late store
  (`rawtoevent.cc:302`), although comments in both say the compares "must be
  identical"; a TSDELTA computed from a `prior_cycles` an interrupt has replaced; a
  late store on the other side of a wrap of the 20-bit time; a block set up just after
  the time of its first entry wrapped.
* `TimesBracketedIfKept`: the file's time pairs enclose all its entries if the process
  that dumped it reset the trace with no insert under way and started it, or dumped
  it live. They do not for a second trace after `dump` without `reset` or `go`
  (`kutrace_lib.cc:947`), for a trace paused by off and on (line 616), for one started
  and dumped by two processes (line 803, `restarted_control`), nor for `dump` without
  `off` after the buffer filled up and tracing stopped by itself.
* `FileIsTrace` is about files after `DoOff`. A live dump writes a fixed number of
  blocks and repeats the last one if there are fewer; it also turns tracing off
  before it reads the first block, although it is meant to trace itself.
* `StacksTrue` leaves the scheduler itself out of the comparison and, for a process
  that left calls untraced, asks only that the stack has all calls in progress: the
  next system call of that process sets it right. `SpansTrue` is about spans of CPUs
  that have been heard of and of processes that neither strayed nor made marks before
  their first call; with a stray process the converter guesses, and a comment (`eventtospan3.cc:1413`) and
  `OnlyInKernelMode` disagree about what a user-mode PC sample tells: it is listed
  among the kernel-mode events, and in the patch the sample of a timer interrupt
  comes after the interrupt's return.
  Both except a bottom half that an interrupt came into, and except it by name. The
  patch traces the softirq handlers as interrupt 255 and runs them with interrupts
  enabled (`kutrace_patch_file_6.6.36.txt:3804`), and the list of changes in the
  converter has "allow irq within BH" (`eventtospan3.cc:40`). But to `NestLevel` (line
  1425) both are of level 3, and the loop of `FixupCall` (line 2303) ends the call on
  top if the new one is of the same level: the interrupt makes it insert a return of
  the bottom half. Until the bottom half returns it is in progress and not in the stack
  (`StacksTrue` compares everything else), and spans closed meanwhile name what
  is below it. The return finds no call to match, `FixupReturnCall` inserts one at the
  start of the open span, and that last span has the right name again: `SpansTrue`
  asks for it.
* `SpansTile` excludes interrupts inside the scheduler, for which `spans_gap` shows a
  gap, and marks and RPC changes that a CPU or a new process makes before the trace has
  a call of it (`mix.early`). After such a mark the converter still takes the process to
  be inside the scheduler that switched to it; `FixupSched` then inserts the missed
  return at the time of the switch (line 2527), in front of the span the mark began.
  `WaitsTrueIfSwitched` excludes interrupted schedulers too, and schedulers that do not
  switch: the return of such a scheduler takes the process of an older switch out of `pidRunning`
  (line 1767), and a wakeup of it then draws a wait while it runs.
  Excluded too is a process that another CPU switches to before the CPU it left has
  returned from its scheduler (`mix.hurry`; `leaving` says which process that is; in
  Linux only `finish_task_switch` must be over, the traced return comes later). The
  comment at lines 566-570 has `pidRunning` hold a process from the return of the
  scheduler that switched to it to the return of the one that switched away; with the
  two out of order the late return removes a process that runs again, and a wait
  of a process that is away may begin before it left. This takes 10 events on two
  CPUs; `spans` has a workload with such switches, in which the other properties hold.
  A process that has run since the trace began is not in `pidRunning` either; the
  property is about processes that were seen to be switched in. A wakeup of a process with no span
  behind it draws a wait from time 0.
* `AllConverted` also says that no input makes the loops of FixupReturn and FixupCall
  run for ever.
* `LostByDelayOnly`: `mutex2.cc:63` says of AcquireWait "Wait until lock is
  available". `Releaselock` clears the lock with release order and then reads the plain
  variable `waiters`; x86 and ARM may do the read first. A waiter that counts itself
  and goes to sleep in between sleeps on a free lock until somebody uses it again. The
  property is that this is the only way.
* `LinesTrueIfWaited` is about threads that waited. A thread that got the lock at once
  while others waited logs its acquire too (`mutex2.cc:110`); at its release it looks
  at `waiters` again, after the store that frees the lock. If a waiter has got the
  lock and uncounted itself by then no release is logged, and the line the converter
  draws "for this PID holding this lock" (`eventtospan3.cc:2009`) goes on to the
  thread's next logged release.
* `ReturnsTrue` leaves out calls of a period or more: `insert_1_retopt` computes the
  time of a call modulo 2^20 cycles, so a call of a whole number of periods and up to
  255 cycles more, with no other entry inside, is merged and looks short. A call of 0
  ticks is recorded as one of 1 (`kutrace_mod.c`, `insert_1_retopt`: a `delta_t` of 0
  means that no return is there): its return is dated 1 tick late, at or behind the
  entry that follows it.
* `HistogramTrue` compares the packed words with counts kept one by one, which are
  halved together when one reaches the largest number its two fields hold.
* `BooksBalance` is for single locks. With `-multilock` workers that hold different
  locks update `bankbalance` at the same time and can lose a posting to it. The line
  with the total is formatted by `BuildDashboardString` and never appended to the page.
* `ItemsEnd`: a transaction is logged or dropped, or main has closed the log. Main
  waits for `pending_count = 0`, which it may see with transactions still queued.
* `OneInside` and `AtomicStore` hold until a held lock is grabbed: with SPINS = 1 the
  grab happens early and often, and after it nothing is promised.
  `FailsOnlyIf` lists a killed client among the reasons for which *another* client
  fails: `ReadExactlyLenBytes` calls `Error`, which exits, on a reset connection,
  although the comment at `dclab_rpc.cc:80` has it return false "on error of any kind".
  `ReceiveResponse` returns true whatever `ReadOneRPC` says (`client4.cc:92-95`).

### Disagreements found

The three violation runs: with wraparound two CPUs may share a block
(`kutrace_mod.c:1130`); a trace dumped by another process than started it has no start
time pair (`kutrace_lib.cc:803`); an interrupt inside the scheduler leaves a gap in the
spans (`eventtospan3.cc:1850`). The others are named in the list above.

### Fairness

* TraceBuffer: strong fairness of each context's steps. An interrupt handler runs to
  its end, and an interrupted task gets the CPU again; it is enabled only between
  interrupts, hence strong. No entry has to be logged and no command given.
* TraceSession: weak fairness of the program and of the end of an insert.
* TracedKernel: weak fairness of the converter, a loop over its input. The kernel need
  do nothing.
* FancyLock2: weak fairness of each thread's steps inside the lock. No thread has to
  acquire it, and no signal has to come. `SleepersWake` needs at most `WAKE` sleepers:
  with more, the code's futex may wake the same ones each time.
* Mystery27: weak fairness of each thread. A thread need not get a lock that others
  keep taking; it gets it at the latest when they have finished. A thread in `asleep`
  has no step to be fair to: it wakes at the next release of its lock or, when no other
  thread takes that lock again, never. `ThreadsFinish` therefore says that all threads
  finish or that from some time on one is asleep for good, as `SleepersWake` of
  FancyLock2 excepts `delayed`.
* QueueTest: weak fairness of each thread, which the scheduler gives.
* RpcServer: weak fairness of each thread, of a client that has connected and of
  main's poll. No client has to come, and none has to be killed.

## 4. Proofs

All for any values of the constants the modules' ASSUMEs admit. Those are: sizes that
the code fixes at compile time and the models leave open (`SizesAssumption`,
`IpcAssumption`: the IPC bytes are whole blocks; `LiveBlocks` is not 0, 28 in the
code), that the inputs have the form the models expect (`MenuAssumption`,
`JobsAssumption`, `PatternsAssumption`), and that the values that stand for "nothing"
are none of the others (`TaskAssumption`: a CPU, which stands for its idle task, is no
process; `NameAssumption`: the name of a made-up `cexit` span is that of no process or
call); that the fields of a histogram are next to one another in a word and at least
one bit wide (`SizeAssumption`, `IncrAssumption`). `MixAssumption` says what a workload
is, and that the scheduler, and likewise `reschedule_ipi`, is the innermost call of a task that is inside it when the trace
starts: the model's kernel enters nothing above a `reschedule_ipi` but the scheduler,
of which it is then not heard again, as in the patch.
`BottomAssumption` says that interrupt 255 (`BHhi`) is a bottom half and that
`reschedule_ipi`, which no softirq makes, is none.

**TraceBuffer_proofs**, for any number of CPUs, contexts and nested interrupts and any
block and buffer sizes:

* `TypeCorrect`: Spec => []TypeOK;
* `FirstBlockSurvivesHolds`: Spec => FirstBlockSurvives, and `ReadOutCompleteHolds`:
  Spec => []ReadOutComplete, wrapping around or not;
* for traces that do not wrap around (`NoWrapping`: no RESET has the WRAP flag;
  `wrap_sharing` shows the hypothesis is needed) `ExclusiveClaimsHold`,
  `EntriesInsideBlockHolds`, and `Implementation`: Spec => ImplementsClaimSpace;
* `CurrentBlockWholeHolds`, which needs in addition that entries are shorter than the
  NOP tail (`ShortEntries`). In the code both are 8 words, so that the longest entry
  is left out; with its TSDELTA word it is the 9-word entry of section 3.

ExclusiveClaims is not inductive: a claim made by the atomic add is not granted yet,
and whether it will be depends on which block the CPU has by then. The invariant
`IInv` adds: blocks of CPUs are handed out (`BlocksTaken`) and apart (`BlocksApart`);
a claim not yet judged is not below the CPU's block, and if inside it then `tb->next`
is behind it (`FreshClaims`); granted claims are outside the free part of every
block (`GrantsTaken`); granted claims and those that would be granted now are
apart (`OwnersApart`); stored entries are apart from both (`EntriesSafe`). The key
fact is that blocks are handed out downward, so after a block change every older
claim lies above the new block and cannot be taken for one inside it. Wraparound
breaks exactly this. `BlockInv` adds that the blocks of CPUs and of granted claims have
their front set up, whence where an entry may lie; `StaleInv` adds that the
tail of a block is written and that old data in front of it is covered by a claim or
free. `FirstInv` is for wraparound: no CPU that is past the first block can come back
to it, since a wrapping trace takes its next block below it. `ReadInv` needs none of
this: whatever a claim is taken for, it is not below the lowest block handed out
(`ClaimsAbove`), so that the blocks that have been written to are those from the lowest
one up (`FrontsAbove`), and it stays the lowest when the trace wraps around or
`traceblock_next` overshoots.

**Timestamps_proofs**, for any period, thresholds, gaps and block size: `TypeCorrect`,
`GapsRecordedHolds`, `ReturnsTrueHolds`, `TimesRecoveredHolds`. `GapInv` says that no
TSDELTA word is last or next to another (`DeltasFollowed`), that `prior_cycles` is the
time of the last word unless an insert was interrupted (`LastIsPrior`) and that the
delta an insert works with is then the true one. `ReturnInv` says that a last word
which is a call without return is the call in progress (`OpenCall`), and of the word a
return is about to be merged into that it is still where it was and only interrupts
came behind it (`PriorTrue`). For `TimesRecovered` the recursion of `decode` is
unfolded once per word, and the argument is by the least word that is dated wrongly:
it has one in front that is dated right, and one step of rawtoevent then finds its
high bits (`EventDecoded`, `DeltaDecoded`).

**TraceSession_proofs**, for any commands in any number and order, any events and
kills, and any sizes: `TypeCorrect`, `TimesBracketedIfKeptHolds`, `FileIsTraceHolds`,
`NamesStayHolds`. `Shaped` says which operation may follow which in what is still to
be done, for every command (`BodyFacts`). `Ready` says what the operations done so far
have established when the next one comes: tracing is off once OFF has been done and
nothing is on its way after `msleep`; a stop pair is set before a live dump writes;
the number of blocks is right (`Counted`) and the blocks written so far are the
module's (`Copied`). `KeptTrue` is what the history `kept` stands for: everything in
the module, in the file being written and on its way was taken between the pairs.

**EventToSpan_proofs**, for the converter with any input whatever (`ConvSpec`):

* `StacksNestHolds`: every stack nests by level and fits in `int eventnum[5]`;
* `PreprocSufficesHolds`: when `ProcessEvent` pushes or pops, the stack already fits.

The invariant is the nesting of all stacks, those put aside included, and that events
are well formed. The lemmas say what `PopWhile`, push and pop do to a nested stack;
that resolving an ambiguous stack for a call or return cannot undo what the fix-ups
arranged; and that a strictly nested stack has at most five entries because there are
five levels.

For the traced kernel with the converter (`Spec`), any CPUs, processes and workloads:

* `KernelIsAnInput`: Spec => ConvSpec, so the two above hold for it;
* `RpcTrueHolds`: Spec => []RpcTrue;
* `SpansTileHolds`: Spec => []SpansTile;
* `WaitsTrueHolds`: Spec => []WaitsTrueIfSwitched;
* `StacksTrueHolds`: Spec => []StacksTrue;
* `SpansTrueHolds`: Spec => []SpansTrue; this and the one before it are in
  **TracedKernel_proofs**.

For RpcTrue, `RInv` says where the kernel stands relative to the converter: a task runs
on one CPU (`OneCPU`); the event being converted is what its CPU did last
(`EventTrue`); each CPU's stack is that of the process on it (`OwnersTrue`), from the
instant the context switch is converted; and a process that is on no CPU has its RPC in
`perpidstate` (`RpcsTrue`). The fix-ups never touch the process or the RPC of a stack.

For SpansTile, `CalmInv` says that `SInv` holds in all workloads, and `TInv` in calm
ones, whose schedulers are not interrupted and which have no early marks (`Calm`). `SInv`
relates the stacks to
the calls in progress as far as the scheduler goes: a thread calls the scheduler last
unless it is interrupted in there (`ThreadsTrue`), the stack of a process that is switched out ends with it (`Asleep`),
and the CPU's stack has it on top exactly when the switch leaves it there (`SchedTrue`).
This is why a switch never finds a process without a call, the case in which a span is
begun and the open one left. `TInv` says when the open span of a CPU
began: not after the last switch if its stack is inside the scheduler (`StartsTrue`),
nor after the event being converted (`EventTimes`), so that a return inserted at
either time falls into it; and that what was closed so far ends where it begins
(`Tiled`). It is carried through the fix-ups,
which close a span each, and then through `ProcessEvent`.

For WaitsTrue, `WInv` holds in orderly workloads (`Orderly`: schedulers are not
interrupted, return after a switch only, and finish with the process they leave before
it runs elsewhere). Of the kernel `MovesTrue` says that a process that was seen to come
runs somewhere and that one a CPU is leaving runs nowhere. Of the converter it says
whose span is open: that of a process switched away from stays open on its old CPU
until the scheduler returns there, is its only one, and began no later than the switch
(`AwayTrue`); a process that came has its span, or gets it with the event in hand
(`CameTrue`); the process that a scheduler's return takes out of `pidRunning` is the
one its CPU left (`OldTrue`). Hence `priorPidEnd` of a process is not before its last
switch once its span is closed (`EndsTrue`), and neither a wakeup nor the start of a
span finds an older end to draw a wait from. Section 3 says what goes wrong without
the hypotheses.

For StacksTrue, `CInv` holds in all workloads. It compares sets of calls: a stack of the
converter nests by level, and so do the calls that a thread has seen begin, so that
two equal sets are in one order; the scheduler, which may be above an interrupt and
below one, is left out on both sides. `ThreadsNest` says this of the kernel. `CallsAt`
says how the stack of a CPU stands to the thread on it: they agree when no event of the
CPU is in hand (`Holds`); while a call or return is converted they agree in the calls
that it keeps, those of lower level (`Follow`), and each of the fix-ups and guesses
takes away or adds only others; while a switch is converted the stack is still that of
the process that was left. `HeaderIdle` is one disagreement: a block header tells
of the idle task alone, and hides an interrupt that the converter may know. The other
is `Lost`, the bottom half of a task in `cut`: `InCut` says that it is innermost or
right below the interrupt that came into it, `IdleThread` which calls an idle task can
have then, `CutTop` and `EntryBelow` that what enters next ends it. `AsideTrue`
is the same for the processes that run nowhere. A process that leaves a call untraced
has from then on at most the calls on its stack.

For SpansTrue, `LInv` holds in all workloads beside the others. `LabelAt` says what the
name of a CPU's open span is: what is on top of its stack, which the other invariants
compare with the kernel. The two differ for a while in four ways. A stack is inside
the scheduler after the span of another call or of the process has begun (the span of a
new process starts at the switch, its stack still has the scheduler that switched to
it); the scheduler was interrupted; a call or return is being converted, whose fix-ups
may already have changed one or the other; or a switch is, after which the stack is
another one. `FreshAt` says of the first of these that the span began no later than the
switch and that the next call, which inserts the missed return at the time of the
switch (`FixupSched`), therefore closes nothing with a wrong name that lasts to the
event. `BeginsTrue` is about `reschedule_ipi`, which may vanish below the scheduler.
`StackTop` says what the stack has on top when an event is read, and `StackBelow` that in
an interrupted bottom half it is something of a lower level, so that the return of the
bottom half leads to the third disjunct of `Expected` below.
`SpanTrue` is the step itself: while an event is converted of which the trace says
enough, all spans closed so far say the truth, and what the fix-ups are left to do can
only close such spans (`Expected`): either the open one has the right name and will be
closed by returns and calls that end or begin at the time of the event, or its return
from the scheduler is inserted at a time that is past, or the event is the return of a
call that is not on the stack, as the trace did not see it begin or an interrupt ended
it, whose span is inserted. That the first
disjunct holds when an event is read is where `CInv`, `SInv` and `LabelAt` are used;
each fix-up then leads from one disjunct to another or to none.

**Locks_proofs**, about the lock and its entries, for any finite set of threads and any `WAKE`: `TypeCorrect`,
`MutualExclusionHolds`, `HolderNamesOwnerHolds`, `LostByDelayOnlyHolds`, and
`LinesTrueHolds` for the lock with its trace. `IInv` adds to the properties that
`waiters` is exactly the number of threads inside `AcquireWait` (`WaitersCount`, by the
cardinality theorems) and that `holder` is cleared between the two stores of
`Releaselock` (`HolderCleared`). A sleeper is therefore counted, and the thread that
frees the lock sees it unless its store was late. For the lines, what the converter
shows of a thread is determined by where the thread is, once it has waited.

For the lock with its histogram, `HistogramTrueHolds`: FancySpec => []HistogramTrue,
for any number of buckets of any even sizes and any threads. That a word is its fields
is proved by induction on the buckets (`Place`, `Part`): the fields of a word made of
digits are the digits (`FieldOfWord`) and the word made of the fields of a word is that
word (`WordOfFields`). From it follows what each operation does to the fields:
increment and decrement (`IncrementFacts`, a carry may go through all buckets and out
of the word), zeroing, shifting, setting the high bits; and with them that a count is
added or all counts are halved (`Counts`). `HInv` says that a thread which counts is
still before its block (`CountingHolds`), so that no two count at once, and that
between its two steps the word is the true counts with one added, as it is before
the overflow is repaired (`HalfCounted`).

The same module about Mystery27, for any number of workers, accounts and iterations
and all options: `BankTypeCorrect`, `NothingLostHolds`, `PageTrueHolds`,
`BooksBalanceHolds`. `BankInv` adds that a thread owns exactly the first `taken` locks of its order (`Owned`), that an
updating thread has all of them (`Locked`, `Busy`), that the balance such a thread has
loaded is still the account's, and that the page is empty outside the dashboard's work.
Two threads that update one account take the same reader lock, and the dashboard takes
both. For the total, `Balanced` adds that with one pair of locks the total is behind by
what the one thread between its two postings has still to post; that a change of one
account changes the sum by as much (`SumChanged`) is proved by induction on the number
of accounts.

**QueueTest_proofs**, for any number of workers, transactions and patterns, with and
without FIXED: `TypeCorrect`, `WakeupsKept`, `TransactionsKept`, `FlightLimited`. `IInv`
adds that the spinlocks exclude, so that a list is still as it was read (`Locked`); that
`count` is the length of the list and a task that saw an item still finds one
(`CountTrue`); that a sleeper on a queue with work has a wakeup coming (`WakeDue`); who
has an item in its hands (`Handed`) and how much work is left of items on each queue
(`WorkLeft`); that an item is at one place at most, only items made are anywhere, and
each is somewhere or in the log (`Unique`, `Made`, `Logged`); and that `pending_count`
counts the items in flight and the one being dropped (`Pending`).

**RpcServer_proofs**, for any number of ports, clients and keys and any `SPINS`:

* `TypeCorrect`, `OneInsideHolds`, `NothingHalfReadHolds`, `FailsOnlyIfHolds`;
* `AtomicStoreHolds`: Spec => AtomicStore, the refinement of `KeyValueStore`.

OneInside relates `lock` to the threads inside and needs that a `Grab` of a held lock
sets `grabbed`. `NInv` describes each connection: what has arrived and what has been
read make up a prefix of the one request under way, whole if the client awaits its
response, and a thread beyond its read has all of it (`Streams`, `OneRequest`); a
connection is closed and a client is without response for a reason that is listed
(`CloseReason`, `FailsOnlyIf`). For the refinement, `RInv` adds that a method which
needs the lock is inside it when it acts (`TakesLock`), and that what `Find` saw is
still so when `Act` uses it unless the lock was grabbed (`FoundTrue`). `Act` maps to
the instant at which `KeyValueStore` answers; every other step changes only who is
asking, or nothing.

Induction over data is done without the library's induction rules, whose operator
parameters the provers cannot instantiate: each such lemma takes a set and argues by
its least counterexample (`Least`, `Inductive`).

Only model-checked: liveness (InsertEnds, SessionEnds, AllConverted, SleepersWake,
ThreadsFinish, ItemsEnd, RequestsEnd), which the prover cannot do; and that the
operations on fields are the masks and shifts of `fancylock2.cc`, since the Bitwise
module is defined by recursion. Every other property of the passing runs is a theorem,
some of them under the hypotheses named above.

## 5. Not modelled

* The contents of entries but for their kind and time; IPC and LLC values and their
  bytes beside the entries (only the space they take is modelled). That
  `insert_1_retopt` may look at a word another insert has claimed and not stored. A
  length below 1 or above 9 given to `get_claim` (`kutrace_mod.c:1211-1214`), which only
  an `insert_n` whose first word claims such a length does; it stops the trace, as
  `SlowBadLen` does. An entry of one word is stored in the step that claims it: `insert_n` with
  one word lets go of the CPU between the two as well (lines 1512 and 1556), which
  the entries of more words show.
* FLUSH of a trace that has wrapped around: the module goes on downwards from
  `traceblock_next`, TraceSession again from its second block (`WrapTo`). The properties
  about files concern the trace up to the stop.
* In rawtoevent: scaling by the time pairs, names, and the sort that merges CPUs.
* In eventtospan3: spans of queues, RPC messages and clock rates, names, IPC,
  the rounding for slow clocks and the limit of eight seconds on a plausible span; of the
  events that `OnlyInKernelMode` lists, the P-state entries (lines 639-640), and in
  `ProcessEvent` the branch for user-mode execution spans in the input (`IsUserExec`,
  lines 2145-2147), which the converter makes itself.
  They are drawn from events of their own and share no state with the stacks.
* `checktrace` and the span filters, one pass each over what the converter wrote.
* Two control programs at the same time: they take no lock against each other.
* Trace entries made by Mystery27 and QueueTest, random choices and times
  (nondeterministic), minima, maxima and percentiles of the lock histogram.
* In queuetest, what a worker does with the log and the table of times after main has
  closed the one and deleted the other (`queuetest.cc:504-505`, 681): a write to a closed
  log is lost in the model, in the code it is a use after free.
* In the RPC programs: that a read from a connection the client has reset may return 0
  rather than -1 (the model makes it the error, after which the server exits); logging, with it that main closes the log while threads may
  still write to it; checksums; the disk server and the demonstration servers, which
  have the same loop around other methods.
* Floating-point alignment of clocks, text substitution, table lookup, hardware
  measurement programs, ports and copies of the module and of the converter.

## 6. Plan

Written in this order: TraceBuffer with ClaimSpace, Timestamps, TraceSession, Mutex2,
QueueTest; then EventToSpan with TracedKernel, RpcServer with KeyValueStore, FancyLock2
and TracedLock, Mystery27, and `insert_1_retopt` in Timestamps. Next:

1. Queue and message spans of `eventtospan3`, composed with QueueTest and RpcServer:
   a queue span begins at the RPC change after the ENQUEUE entry, which the task that
   takes the item may overtake. `checktrace`, whose checks would become properties of
   the conversion.
2. Pure operators: base-40 names against their inverse, `get_granular_ipc`.
