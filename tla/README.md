# libosal: specification and proofs

libosal is a C library with one interface (`src/include/libosal/*.h`) to the
tasks, locks, semaphores, timers, queues and shared memory of several operating
systems, and two services of its own on top of it: a timing trace and a message
ring in shared memory. This directory holds TLA+ models of the POSIX port, of the
bare-metal semaphores of the STM32 port and of the two services, TLC
configurations that check them, and TLAPS proofs.

## 1. The system

| Component | State | Operations | Uses | What is hard |
|---|---|---|---|---|
| binary semaphore, `posix/binary_semaphore.c` | flag `value`, mutex, condition variable | post, wait, trywait, timedwait | pthread | lost wake-ups, timeouts that race a post, five ways out of the critical section |
| counting semaphore, `posix/semaphore.c` | a `sem_t` | post, wait, trywait, timedwait | timer | deadline converted from one clock to another with two clock reads, carries, signals, a clock that is set |
| mutex, `posix/mutex.c` | a `pthread_mutex_t` with type and robustness | lock, trylock, unlock | pthread | owners that die, recursion limit, results that mean "taken" although they are errors |
| condition variable, `posix/condvar.c` | a `pthread_cond_t` | wait, timedwait, signal, broadcast | mutex | spurious wake-ups, relocking, errors before and after the wait |
| timer, `posix/timer.c`, `timer.c`, `timer.h` | the global clock source | sleep, sleep_until, busy wait, timer arithmetic | `clock_nanosleep` | interrupted sleeps, carries |
| task life cycle, `posix/task.c` | a record on the creator's stack | create, join, destroy, delete | pthread, timer | the record must outlive the new thread's use of it |
| task attributes, `posix/task.c` | policy, priority, affinity per thread (in the kernel) | set/get policy, priority, affinity, attribute record | pthread | read-modify-write without a lock, clamping, half-done changes |
| timing trace, `trace.c` | double buffer, position, statistics | time, point, timedwait, analyze, get_last_time | binary semaphore | no lock: a cyclic writer, an analysing task and others share it |
| message ring, `io.c`, `tools/logger` | ring in shared memory, two indices, a semaphore | printf, get_message, setup | semaphore, shm | no lock between writers and reader; a full ring moves the reader's index; processes set up at the same time, die and start again |
| shared memory, `posix/shm.c` | a named kernel object, a descriptor and its size | open, map | `shm_open`, `mmap` | three system calls per open, failures reported as success |
| spinlock, `posix/spinlock.c` | a `pthread_spinlock_t` | lock, unlock | pthread | no owner, no robustness |
| STM32 semaphores and clock, `stm32/*.c` | a counter or a flag, two hardware counters | post, wait, trywait, timedwait, sleep_until | interrupts | handlers between any two steps, polling, a clock read in two halves |
| message queue, `posix/mq.c` | a descriptor `mq_desc` | open, close, send, receive, timed forms | timer | interrupted timed calls, descriptors that are reused, clock of the timeouts |
| PikeOS, VxWorks, Windows ports | | | | wrappers of OS objects |
| console output, start-up | | | | none: pure I/O |

Callers interact with each component from any number of threads. The trace waits
on a binary semaphore, the ring on a counting semaphore, `osal_task_create` polls
with `osal_sleep`, and every timeout is a timer of the global clock source.

What makes each part correct: a binary semaphore hands every event to exactly one
caller and never leaves a waiter asleep beside a pending event; a timed call
reports a timeout neither early nor never; a lock's results tell the truth about
who owns it; a sleep lasts at least as long as asked; a new task gets its own
argument and attributes, from memory that still exists; attributes are legal and
go to the thread they were meant for; a message that was sent is received once, one whose
send failed never; an analysis sees one full buffer; a reader
gets complete messages in order and is not left waiting beside one.

## 2. Modules

| Module | Models | Run |
|---|---|---|
| `BinarySemaphoreSpec` | what a binary semaphore promises: each call takes effect in one step | (refined) |
| `BinarySemaphore` | `posix/binary_semaphore.c`, one step per statement that touches shared state | `binsem` |
| `BinarySemaphore_proofs` | its theorems | |
| `Timer` | arithmetic of `timer.h`, `osal_timer_init`, `osal_timer_expired` | through `Semaphore` |
| `SemaphoreSpec` | what a semaphore, counting or binary, promises on every port | (refined) |
| `Semaphore` | `posix/semaphore.c` with both clocks | `semaphore_carry`, and through `SemaphoreStm32` |
| `SemaphoreStm32` | the semaphores, the clock and `osal_sleep_until` of `stm32/`, beside the POSIX port | `semaphore` |
| `SemaphoreStm32_proofs` | theorems about `Timer`, `Semaphore` and `SemaphoreStm32` | |
| `Sleep`, `Sleep_proofs` | the sleeping functions, with theorems | `sleep` |
| `Mutex` | `posix/mutex.c`, `posix/spinlock.c` | through `Condvar` |
| `Condvar` | `posix/condvar.c`, composed with `Mutex` | `condvar`, `condvar_loop` |
| `Condvar_proofs` | theorems about `Mutex` and `Condvar` | |
| `Task` | creation, joining, cancellation of tasks | `task` |
| `TaskSched` | policy, priority, affinity | `sched` |
| `Task_proofs` | theorems about `Task` and `TaskSched`, the two models of `posix/task.c` | |
| `Mq`, `Mq_proofs` | `posix/mq.c` with the descriptors of the process, with theorems | `mq` |
| `Trace` | the double buffer of `trace.c` and its three users | `trace` |
| `TraceAnalyze` | the statistics of `trace.c`, one step per round of their loops, on machine words | `trace_analyze` |
| `TraceBuffer` | the size of a buffer, shared by the two | |
| `Trace_proofs` | theorems about `Trace` and `TraceAnalyze` | |
| `BoundedLog` | what the message ring promises: a log of the newest messages | (refined) |
| `IoShm` | the ring of `io.c`, one step per load or store that others can see | through `IoSetup` |
| `Shm` | `posix/shm.c`, one step per system call | through `IoSetup` |
| `IoSetup` | `osal_io_shm_setup`, composed with `Shm` and `IoShm`; processes that die | `io_ring` |
| `IoSetup_proofs` | theorems about `IoSetup`, `IoShm` and `BoundedLog` | |

How state and actions correspond to the code:

* Fields and locals keep their names (`value`, `act_buf`, `pos`, `next_write`,
  `start_args`, ...). `pc`, or `wpc`, `rpc`, `spc`, `cv` where there are several, is the next
  statement of a thread; the header comment of each module explains its values.
* One action is the code between two points where another thread, a signal or the
  clock can interfere. Code that holds a mutex is still split at the lock, the
  condition wait and the unlock. A call that only reads or writes one kernel
  object (`sem_post`, `pthread_setaffinity_np`) is one step.
* What is not libosal's own code (pthread mutexes and condition variables, `sem_t`,
  clocks, the scheduler's permission rules) is written down as the code uses it,
  and marked external in the map. Error codes are kept where callers can tell them
  apart.
* Variables marked "history" record what happened for a property and influence
  nothing.
* Definitions with a comment "Mutant:" are wrong variants of the definition after
  them. They are used by no specification; replacing the right one by them must
  break the property they are listed with in `PROJECT.json`.

## 3. Runs

Every passing run visits its whole state space.

**`binsem`**, 3 threads, all operations with and without a timeout and with one the
C library rejects. `MutexHeldInside`: the mutex is held exactly between lock and
unlock. `NoLostWakeup`: while the flag is set and somebody sleeps, some thread is on
its way to take the event. `ImplementsSpec`: every behaviour is one of
`BinarySemaphoreSpec` (linearizability), in which every success takes an event and a
timed wait gives up only after it had to wait; timedwaits with a NULL timeout take part
in the run but are left out of the mapping, because they do not keep to that
(section 6). `EventDelivered`: with waiters present an
event does not stay for ever. `TimedCallsReturn`: every call but the unbounded wait
comes back, apart from one that spins on a rejected timeout. Three threads give a
poster, a waiter and a competitor; the theorems cover any number.

**`semaphore`**, 2 threads, seconds of 3 ns, so that every carry is reached; the port
and the kind of semaphore are chosen in the initial state. POSIX: both clock sources,
two offsets between the clocks, one setting of CLOCK_REALTIME, signals at any time.
STM32: a main program and a handler that interrupts it between any two steps, both of
which post, try and wait (the handler with a timeout); callers post up to a count of 2 and
wait down to -2, so that a post or another consumer meets a consumer between its test and
its decrement.
The timeout of 4 lies beyond a second; time runs to 7, the latest deadline
that a clock set back by 2 and a delayed conversion leave.
`ConvertedDeadline`: the deadline given to `sem_timedwait` is the caller's timeout,
later at most by the delay between the two clock reads. `DeadlineNotEarly`: neither
port reports a timeout early, nor does `osal_sleep_until` on STM32 end early, although
the second may change between the reads of the two counters. (On POSIX: while
CLOCK_REALTIME is not set.) `ImplementsSpec`: every behaviour of either port is one of
`SemaphoreSpec`, in which every success takes a post that is there and a timed wait gives up
only after it had to wait. Three things the code does against `semaphore.h` are outside of
it (section 6): a timeout that is reported without a look at the semaphore
is no call in the mapping, UNAVAILABLE is mapped to the BUSY of the header, and on STM32
nothing is claimed from the moment on at which a second caller passes the test of the count
on a post that is promised already (`raced`). `TimedCallsReturn`:
every timed call comes back, whatever signals, handlers or the setting of a clock do.

**`semaphore_carry`** finds `WellFormedAccepted` violated: section 6.

**`sleep`**, 2 threads, sleeps up to 3, supported and unsupported clocks.
`NotEarly`, and `SleepEnds` on supported clocks although signals keep coming. Times
are relative, so time itself is unbounded.

**`condvar`**, 2 threads that lock and wait and one that only signals, mutexes of
every type, robust or not, or a spinlock in its place, recursion limit 2, one thread that
may die anywhere and one that waits without the mutex, valid and rejected timeouts. `ResultsAreTrue`:
who is told that it has the lock owns it, exactly as deep. `WaitReturnsLocked`:
a wait comes back with the mutex unless that can never be locked again. `LockEnds`
and `WaitEnds`: nobody waits for ever, except behind an owner that can never unlock
(`Stuck`). Two contenders are enough for every race for the mutex; the third thread
lets signals and broadcasts meet two sleepers.

**`condvar_loop`** finds `TimedwaitEnds` violated: section 6.

**`task`**, a main thread and two tasks that create, join and cancel each other.
`StartArgsAlive`: the record on the creator's stack is never used after the frame is
gone, unless the creator was cancelled inside `osal_task_create`. `OwnArgument`: the
argument is the one its creator gave, although frames are reused. `CreatedIsSetUp`:
when `osal_task_create` returns, the new thread has asked the kernel for every attribute,
whether that was granted or refused, and no longer uses the caller's attribute object.
`CreateEnds`. Two tasks give nested creation and a creation after another in the same frame.

**`sched`**, a privileged thread that creates an unprivileged one, two policies,
priorities too low, too high and beyond an int (numbers from 4 = `SignBit` on turn
negative; the code's 2^31), masks of two bits on a machine with processors 0
and 2 (one that no mask can name, one missing); the mask 0 is asked of set_affinity
and, with the other fields 0, of creation, not of set_task_attr. `NeverInvalid`: set_policy and
set_priority never write an inconsistent pair, whatever changes between their read
and their write. `NearestPriority`: a successful set_priority leaves the nearest
legal priority, for numbers an int can hold. `PolicyReadsBack`: the policy last asked for a
thread by its handle is what is read, although two functions give the
kernel different numbers for it; not after a set_policy on another thread's handle, nor
after a set_priority has undone a change (`Muddled`), until the policy is set anew.
`AffinityReadsBack`: the affinity that was set last is what is read, whoever set it, at
creation, alone or with the attribute record, and whoever reads.

**`mq`**, two threads, one that opens, closes and receives and one that sends, two objects
on two descriptors, write-only and read-write; one slot in the queue, two messages, so that
sends block too. One object is open while the other is closed, reopened while it is open, or
closed twice; descriptors move from one to the other, leak and run out. `ExactlyOnce`: a
message whose send
succeeded is in the queue or with one receiver, one whose send failed is nowhere,
however often the calls are interrupted. `TimeoutNotEarly`, while the clock source is
CLOCK_REALTIME (the run has no other). `TimedCallsEnd`: although signals keep coming.
`AccessAsAsked`: an open object is not refused for what its
flags asked for, whatever is done with the other one, except that a second close of an
object may rob the one its number has been given to (`Robbed`). Times are relative; a
timeout of 1 is enough to tell a deadline that is kept from one that starts again.

**`trace`**, buffers of 3, 10 samples: three full buffers and a rest, so that both
buffers are reused. `StoreInBounds`, `UndisturbedAnalysisIsOneBuffer`: an analysis
during which the buffers were not switched saw one full buffer of consecutive
samples, however late it runs and however many events were merged. `OwnLastTime`:
the writer reads back its last time. `RecentUnlessSwitched`: so does another task
if the buffers are not switched during its call. `LastBufferAnalysed`.

**`trace_analyze`**, all buffers of 4 stamps up to 4, also decreasing, or of 4 intervals
up to 3, on words of 4 bits, so that differences wrap around and sums of squares overflow;
the cyclic task overwrites up to 2 samples at any time. For an analysis that was not
overtaken: `AverageIsMeanDistance`: the wrapped differences still add up to the distance.
`FiguresAgree`: average, extremes and both jitters fit together, also when the buffer is
overwritten behind the analysis. `ExtremesOfBuffer`: of all values of the buffer at the call.

**`io_ring`**, two processes, a program that prints and the logger that reads; 3 slots, 4
messages and 3 reads, so that the ring overflows, 7 of each when calls never overlap,
so that it wraps more than twice; one process dies anywhere and is started again. A
process that finds the ring set up prints one line about it (the code prints three).
`AttachedIsInitialised`: whoever comes through the set-up with the memory mapped finds
every field initialised. `InOrderUnlessFull`: complete messages, in order, once, while
nothing was discarded, one process printed at a time and one set up at a time; a set-up
that begins later does not wipe the ring, and without deaths no message is missed.
`ReaderNotStranded`: a reader that waits with a message in the ring has a post coming,
although both processes print. `ImplementsLog`: calls that do not overlap behave as
`BoundedLog`.

Deadlock checking is off where the system may stop: waiters nobody posts for,
bounded numbers of samples or messages, tasks that have all ended.

## 4. Fairness

* A thread that can run runs (weak fairness of the steps of a call). Nobody is
  assumed to make a call.
* A thread waiting for a mutex gets it if it is free again and again (strong
  fairness of taking it, of `pthread_mutex_lock` as of the relock in a condition
  wait). For the priority-inheriting mutex inside a binary semaphore
  (`binary_semaphore.c:70`) the kernel hands it over in queue order. For other mutexes,
  and for spinlocks, it is an assumption: that callers do not take the lock back so
  closely that a waiter never gets it. `LockEnds` and `WaitEnds` rest on it.
* On STM32 strong fairness of each caller's steps: a handler that is entered runs to its
  end, and handlers do not follow each other so closely that the main program never
  runs. Nothing is assumed of a wait that spins with interrupts off. Time passes.
* A holder of a mutex unlocks it some day, as often as it has locked it (`Condvar`;
  callers' duty). In `BinarySemaphore` this is not assumed but follows from the code.
* Deadlines pass. Time also passes while a thread is asleep (`Sleep`): signals do
  not come so fast that `clock_nanosleep` never gets to wait.
* In `Trace` the cyclic task and the analysing task keep running, not the third one.
* `Semaphore` and `Mq` assume no fairness between threads that wait for the semaphore or
  the queue; nobody is assumed to post, send or receive, and signals may come for ever.

## 5. Proofs

`BinarySemaphore_proofs` (any set of threads, any subset of the operations):

* `TypeCorrect`, `MutexCorrect` : `Spec => []TypeOK`, `[]MutexHeldInside`.
* `NoWakeupIsLost`: `Spec => []NoLostWakeup`. Alone it is not inductive: that a
  waiter that passes its test finds the event depends on nobody else being between
  lock and unlock. The inductive invariant `IInv` adds `MutexHeldInside`, `PcOp`
  (which statements belong to which operation) and `TakeFindsEvent` (the flag is set
  when it is taken).
* `Linearizable`: `Spec => ImplementsSpec`. From `IInv` every step is a step of
  `BinarySemaphoreSpec` or changes nothing it sees, as those of a timedwait with a NULL
  timeout do.

`Sleep_proofs` (any threads, durations, clocks): `TypeCorrect` and `NeverEarly`,
`Spec => []NotEarly`. The invariant `SleepInv` says that the rest `osal_sleep` is
about to sleep and the time the kernel lets a sleeper wait cover what is still due;
`NotEarly` alone says nothing about threads that are still asleep.

`SemaphoreStm32_proofs`:

* The arithmetic (any `NsecPerSec` > 0): `AddCorrect`, `AddNsecCorrect`, `LessCorrect`,
  and from them `ExpiresOnTime`: a timer of `osal_timer_init` is expired exactly from its
  timeout on. Numbers are unbounded there: the code's 64 bits hold 584 years of
  nanoseconds, and the constant `1E9` of the macros is exact.
* Both ports (any callers, timeouts, clocks and clock settings): `DeadlineIsTimeout`,
  `StmSpec => []ConvertedDeadline`, and `NeverEarly`, `StmSpec => []DeadlineNotEarly`. The
  invariant `StmInv` says how `pc`, the operation and the port go together, and in
  `ClockOK` what the locals of the two conversions are worth: the reading that POSIX
  converts is at most the timeout and at most `MaxDelay` old, and the first of the two
  STM32 reads is not later than now; the carries use the lemmas of the arithmetic.
* `Linearizable`: `StmSpec => ImplementsSpec`, the refinement of `SemaphoreSpec` by both
  ports and both kinds, for any number of consumers, as far as section 3 says it goes. It
  needs `CountOK` of `StmInv`: while `raced` is empty, every thread between its test and its
  decrement still finds a post of its own.

`Condvar_proofs` (any threads, mutex types, recursion limits, deaths): `MutexResults`,
`[]ResultsAreTrue` of `Mutex` alone, and `WaitersReturnLocked`, of the composition,
`CSpec => [](WaitReturnsLocked /\ ResultsAreTrue)`. `DepthOK` has to be added: the unlock
of a spinlock, which does not count, is right because its depth is 1; `OwnsAround` says
who owns the mutex when a wait starts and ends.

`Task_proofs`, about the two models of `posix/task.c`:

* `Task` (any threads that create, join and cancel each other): `FramesOutliveWrappers`,
  `HandlersGetOwnArgument`, `CreateReturnsSetUp`, that is `[]StartArgsAlive`,
  `[]OwnArgument`, `[]CreatedIsSetUp`. The invariant is the handshake: a thread in its
  wrapper is the one its creator polls for, and the frame still says "not running" and
  holds its argument, unless the creator was cancelled there.
* `TaskSched` (any threads, processors, mask widths, policies, priorities):
  `PairsAreLegal`, `[]NeverInvalid`, `PolicyIsLast`, `[]PolicyReadsBack`, and the action
  properties `PriorityIsNearest` and `AffinityIsLast`. The invariant `SchedInv`: the pair
  about to be written is legal by itself (`Prepared`), so that it does not matter what
  changed since it was read; the kernel has what each task was given last, or the task is
  `Muddled` (`KernelAgrees`); and every wrapper has a
  creator that waits (`Awaited`), without which the end of a wrapper could release a
  thread inside another call.

`Mq_proofs` (any threads, objects, descriptors, messages, timeouts): `MessagesExactlyOnce`,
`TimeoutsNotEarly`, and the action property `OpenObjectsServe`. `ExactlyOnce` is about
finished calls; the invariant `MqInv` has to know where a message is during one: it has one
sender at most (`OneSender`), is at one place at most (`OnePlace`), and is somewhere exactly
from the kernel's success on (`Arrived`), so that the retry of an interrupted call never
sends again. `Descriptors`: open objects
have descriptors of their own, also when an open object is opened again; that the kernel
gives out the lowest free number uses the well-founded order of the naturals.

`Trace_proofs` (any buffer size, any number of samples): `StoresInBounds`,
`LastTimeIsOwn`, `AnalysisCorrect`, `LastTimeIsRecent`. The invariant locates every sample:
`Base`, the number of the first one in the active buffer, is a multiple of the size, the
active buffer holds the samples from it on, the other one the whole buffer before it; and
what the analyser or the monitor has read so far is a part of that while no switch came.

The loops of `TraceAnalyze` (any buffer, buffer size, word width): `AverageCorrect`,
`FiguresCorrect`, `ExtremesCorrect`. `StatInv` is a loop invariant, so that no induction over
the buffer is needed: the slots still to be read are those of the call (`Kept`), the sum is
the distance so far modulo the word (`Telescope`) and lies between n times the minimum and
n times the maximum (`AverageBetween`), the sum of squares between the largest one and n
times it (`Jitter`). The lemmas: remainders are compatible with sums (`WordSum`), a quotient
keeps the bounds of its sum (`QuotientBetween`), every number has an integer root
(`SqrtIs`, from the least number whose square is larger). The assumptions: stamps below
2^63 ns (292 years), intervals of a relative buffer that last less than 584 years together.

`IoSetup_proofs` (any processes, slots, messages, deaths):

* `AttachedInitialised` and `NoReaderStranded`. `SetupInv`: fields are stored in order and
  never unset, so that the magic vouches for all of them (`FieldsStored`); only who is set
  up prints or reads (`Attached`); set-ups that do not overlap find the magic (`OneSetsUp`).
* `MessagesInOrder`, `[]InOrderUnlessFull`. `RingInv` describes the window of slots between
  `act_printed` and `act_written` by the distance around the ring: the reader works at its
  first slot, the writer behind its last one, and the numbers in it grow, without gaps while
  nobody has died. The remainders of the code are replaced by lemmas about distances
  (`NextSlotIs`, `DistWritten`, `DistRead`).
* `RingIsLog`: `SetupSpec => ImplementsLog`, the refinement of `BoundedLog`. From
  `SerialInv` (one call at a time; reader and writer find `act_printed` as they left it)
  `Publish` is `Add`, `DropOldest` is `Discard`, `Advance` is `Remove`, and every other step
  leaves the unread and the delivered messages alone (`MessagesAdd`, `MessagesTake`,
  `MessagesSame`).

Assumptions are those of the modules (`ASSUME`), evaluated by TLC in the runs, and the
modules' reading of the operating system. Every inductive invariant was checked by TLC on
the instance of the run before it was proved.

What stays with TLC alone: liveness (`EventDelivered`, `TimedCallsReturn`, `SleepEnds`,
`CreateEnds`, `TimedCallsEnd`, `LockEnds`, `WaitEnds`, `LastBufferAnalysed`), because
fairness is out of the prover's reach. Every other property of the passing runs is a
theorem.

## 6. Disagreements between code and documentation

With a run that shows them:

| Run | Code | Header |
|---|---|---|
| `semaphore_carry` | `posix/semaphore.c:182` carries only when `tv_nsec` > 10^9: a sum of exactly 10^9 is refused by `sem_timedwait` | `semaphore.h:142` OSAL_ERR_INVALID_PARAM is for an invalid parameter |
| `condvar_loop` | `posix/condvar.c:182` repeats the wait on every error | `condvar.h:130`, 131 return the error |

Without a run of their own, but each with a trace that TLC finds in the model of the run
named when the formula is checked there as an invariant or an action property:

| Model | Code | Header | Formula |
|---|---|---|---|
| `binsem` | `posix/binary_semaphore.c:173` with a NULL timeout only looks, without the mutex, and the event is handed out again | `binary_semaphore.h:129` "updates the state" | a step of a wait that ends in OK changes `value` from 1 to 0 |
| `binsem` | `posix/binary_semaphore.c:131` trywait returns BUSY, as the tests expect | `binary_semaphore.h:121` promises TIMEOUT | `ret[t] # "BUSY"` |
| `semaphore` | `stm32/semaphore.c:87`, 103, 132: test and decrement are two steps, a handler and the main program take the same post, and every later wait succeeds | `semaphore.h:106` "will block until some other tasks call" post | `count >= 0` |
| `semaphore` | `stm32/semaphore.c:105` trywait returns UNAVAILABLE | `semaphore.h:120` promises BUSY | `ret[t] # "UNAVAILABLE"` |
| `semaphore` | `posix/semaphore.c:174` and `stm32/binary_semaphore.c:139` report a timeout in the past before they look at the semaphore | `semaphore.h:133` an available semaphore is taken | a step of a timed wait that ends in TIMEOUT starts with `count = 0` or `Waiting(t)` |
| `sched` | `posix/task.c:389` writes the policy of `pthread_self()` | `task.h:169` "Change the policy of the specified thread." | a set_policy that ends in OK leaves `GetPolicy(tid[c]) = arg[c]` |
| `sched` | `posix/task.c:72` prints a refusal, and creation succeeds | `task.h:106` promises PERMISSION_DENIED | a wrapper that ends leaves `GetPolicy(t)` as its attributes say |

The double take and the policy of the wrong thread are errors of the code; the others are
places where header and code say different things.

Seen while modelling; the model takes these steps, and where it matters the
properties are stated so that they exclude them:

* `io.c:145`, `osal_io_shm_setup` returns OSAL_OK whatever happened (`io.h:86` promises
  OSAL_ERR_*). `posix/shm.c:121`, the comment lists the system-wide limit, but
  ENFILE is not in the switch: OSAL_OK; so it is for descriptor 0 (92). `io.c:97` adds
  the size of the descriptor where that of the ring's header is meant. Two processes
  that both find no magic both initialise: what was printed in between is lost.
* `binary_semaphore.h:102`, waits "for some other task"; on STM32 the wait spins with
  interrupts off (`stm32/binary_semaphore.c:87`), so that nothing can post any more.
  `stm32/timer.c:104`, a relative timeout starts from a time that may be a second
  too early (76), so that `osal_sleep` may end early (`timer.h:99`).
* `spinlock.h:72` and the attributes after it are ignored (`posix/spinlock.c:56`).
* `task.h`, suspend "a thread": SIGSTOP (`task.c:615`) stops the whole process, and
  nobody is left to resume it.
* A CLOCK_REALTIME set forward during a timed wait on another clock (`semaphore.c:178`)
  makes the timeout early (`semaphore.h:143`).
* `trace.h:95`, the last time; another task may get an old one, or read before the
  buffer, when the buffers are switched (`trace.c:191`). `trace.h:117`, a standard
  deviation; the sum of cnt - 1 squares is divided by cnt (`trace.c:269`).
  `osal_trace_analyze_rel` reads the buffer once for the average and again for the
  deviations (326), so it is disturbed by the cyclic task twice as long as the other.
* `io.c` creates a mutex (57, 134) that `osal_printf` does not lock: two writers use
  the same slot and a message is lost (172). Posts for messages read without waiting
  stay in the semaphore (77), so that a later wait ends at once (`io.h:93`).
* `timer.h:113`, a time in the past is refused; it succeeds. `osal_sleep` on a clock
  `clock_nanosleep` rejects never returns (`timer.c:54`).
* `task.c:65` is wrong about a creator that is cancelled while it polls (167).
  `osal_task_set_priority` undoes a policy set between its read and its write
  (465-486); `osal_uint32_t` priorities of 2^31 and above become negative ints and end at the
  lowest priority (478), or are refused (250). `osal_task_get_task_attr` returns the kernel's
  policy number (305), `osal_task_set_task_attr` renames the caller (282), and 1u << j is
  undefined from processor 32 on (595).
* `mq.c:200` and 305 hand a timer of the global clock source to calls that use
  CLOCK_REALTIME: with any other source the call times out at once. `mq_desc` keeps its
  number after a close (355), so that a late use of a closed object may reach another
  one, and a second close may close it; opening an open object leaks its descriptor (87).
  OSAL_MQ_ATTR__OFLAG__CLOEXEC (`mq.h`) is ignored.
* `mutex.h:73`, robust; nothing calls `pthread_mutex_consistent`, so the first unlock
  after a death makes the mutex unusable (`mutex.c:140`). `osal_condvar_wait` then
  returns OSAL_OK without it (`condvar.c:148`).

## 7. Limits

* Loads and stores become visible in program order, and aligned words are not torn;
  `trace.c` and `io.c` have no barriers, so on weaker hardware more can happen.
* init and destroy of an object happen before and after it is shared. The clock source
  is not changed while somebody waits.
* `TraceAnalyze`: the square of a deviation above 3 s overflows a signed word, which is
  taken to wrap around; `sqrt` is exact, a double is so below 2^53. The absolute analysis
  needs two samples per buffer: with one it divides by zero (`trace.c:259`).
* `osal_trace_alloc` accepts buffers of size 0, into which the first stamp would be stored
  out of bounds; `CntAssumption` leaves them out.
* Threads of `TaskSched` do not end during a call; handles are valid, and not NULL where the
  code asserts it (`osal_task_get_policy`, the attribute records). Task names,
  suspend and resume, get_hdl and get_state are left out.
* Shared memory: one name, one size for all, the flags `osal_io_shm_setup` uses; memory
  of a new object is zero. The results of `osal_mutex_init` and `osal_semaphore_init`, which the
  set-up ignores (`io.c:134`, 137), are taken as success.
  A process has one thread and calls the set-up once.
* STM32: one handler at a time (handlers of one priority), which does not block without
  a timeout; absolute timers; TIM4 does not wrap within the bound of the run.
* Message queues: one name, WRONLY and RDWR are not combined. CLOCK_REALTIME is not set.
  O_NONBLOCK cannot be asked for, so EAGAIN does not occur.
* Mutex protocols (inheritance, ceiling) do not change results and are left out.

### Not modelled

* PikeOS, VxWorks, Windows ports: each function is one or two calls of the operating
  system, whose meaning is not in the repository. What can be read off without it:
  PikeOS `osal_mutex_trylock` has no result but OSAL_OK, VxWorks ignores the results of
  `semTake` and divides milliseconds by 60 to get ticks, Windows takes an absolute timer for a
  relative time. Nothing in them changes state of libosal's own.
* STM32 mutex, condition variable, spinlock, queue, task: stubs.
* Console output, start-up (`osal.c`, `io.c` of the ports): pure I/O. `queue.h`:
  third-party macros no translation unit uses.
* `src/googletest-1.14.0`, about 42000 of the repository's 55000 lines, is a vendored
  test framework and no part of the system.

## 8. Plan

1. Proofs: all safety and action properties and refinements of the passing runs are proved.
2. Task names in `TaskSched`, `osal_shm_close` and the other flags in `Shm`, relative
   timeouts and the width of TIM4 in `SemaphoreStm32`.
