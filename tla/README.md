# Verification of CTRSDK

TLA+ modules, TLC runs and TLAPS proofs for the libraries in `src/sources/libraries`
(headers in `src/include/nn`): a C and C++ reconstruction of the SDK of a handheld
console. The libraries are linked into one application process; they run on a few
threads of one core and talk to a kernel (system calls), to system processes (IPC and
shared memory) and to devices (GPU, DSP). None of the latter is in the repository: they
are modelled from how the code uses them and marked external.

The build that matters is the default one: `NN_VERSION` is `REDPEPPER`, SDK 2.4.1
(`include/nn/version.h`), with `NN_BUILD_RELEASE`, in which assertions compile to
nothing. Where a later SDK version has other code (critical section, light event) the
modules say which version they model. In gles2 the checks of arguments and state
(`BASE_GL_FAIL_IF`, `gles2/error.h:9-52`) are compiled out as well unless
`NN_BUILD_DEBUG` or `NN_BUILD_VERBOSE` is set: their conditions are the guards of the actions, since
what they refuse is what the unchecked build expects not to be called.

## 1. Inventory

| part | state | operations | what is hard |
|---|---|---|---|
| **os, locks** (`SimpleLock`, `CriticalSection`) | one word arbitrated by the kernel; owner and nesting count | lock, try, unlock; enter, leave | registration against unlock, lost wake-ups, unprotected reads of the owner |
| **os, LightSemaphore** | counter, number of waiters | acquire, try, release | signal decided after the update |
| **os, LightEvent** | a word with kind and state | wait, try, signal, clear, pulse | a signal between the look and the sleep; late signals |
| **os, BlockingQueue** | ring, two semaphores, two waiting counts | enqueue, jam, dequeue, get front, try forms | notifications lost or taken by the wrong thread |
| **os, memory** (`AddressSpaceManager`, memory blocks) | sorted list of blocks, kernel mappings | allocate, free, map, unmap | wrapping arithmetic, partial failure, order of unmap and free |
| **os, threads** | automatic stacks, local storage slots | start, join, detach | a thread freeing its own stack |
| **gxlow** | command ring to, interrupt ring from the GSP process; receiver thread | enqueue, receive, wait for a handler, initialize, finalize | lock-free rings, merged signals, finalization |
| **gles2, command lists** | lists, their requests and buffers, one running list | bind, store, record, split, save, run, stop, clear, delete, wait | application against interrupt handlers; what is cut and copied where |
| **gles2, objects** | names, bindings and collections of textures, vertex buffers, framebuffers, display buffers; their memory | generate, bind, load, attach, delete | what still points at the deleted, deletion put off, allocations that fail |
| **gles2, shaders** | shaders, binaries, programs; mode of the processors; images of registers and marks | load, attach, link, use, delete, draw, validate parts | reference counts, what is neither loaded nor marked, what is loaded in another mode |
| **gles2, other state** | register images | the rest of OpenGL ES | data, not control |
| **applet** | attributes, message buffers, client thread | send, receive, sleep, jump | joins under a mutex, retries |
| **snd, dsp** | voices, wave buffers, two threads | start, stop, sleep, wake | thread life cycle, time-outs |
| **hid, hidlow** | rings in shared memory | read | reading what another process writes |
| **srv** | connection count, handler list | connect, register, dispatch | list searched without lock |
| **ro** | module and registration lists | load, link, unload | another process does the work |
| **fs, cx, fnd** | archives, decoders, heaps | mount and read, decompress, allocate | resumption at chunk boundaries |
| **other** (cfg, ptm, ndm, mic, camera, err, ...) | at most a count and a session | IPC stubs | little |

Interaction. `CriticalSection` is a `SimpleLock` with an owner; `BlockingQueue` uses a
critical section and two `LightSemaphore`s; the address space is a list under a
critical section, which shared memory blocks take their ranges from. The
graphics part is a pipeline: an application thread records and runs command lists
(`gles2/systemmanager.c`), requests go through gxlow's command ring to the GSP process,
interrupts come back through the relay ring to gxlow's receiver thread, whose handlers
are again functions of the system manager. They share the manager's state under the
general lock (`nngxlowLock`) and, here and there, without it. What a list records comes from the
object managers and the shader manager, which run on the one thread that owns the
context; validation turns their marks into commands.

`PROJECT.json` lists every component and 40 hazards, each at its line, with the
properties that would catch it.

## 2. Modules

| module | models | implements |
|---|---|---|
| `WaitableCounter` | the kernel's address arbiter as `nn::os::WaitableCounter` uses it: a counter and the set of threads blocked on it | |
| `Mutex`, `Semaphore`, `BoundedDeque`, `MappedRanges` | what a lock, a semaphore, a queue and shared memory promise | (the abstract ones) |
| `SimpleLock` | `os_SimpleLock.cpp` | `Mutex` |
| `CriticalSection` | `os_CriticalSection.cpp` above 2.4.1; its lock is the detailed `SimpleLock` | `Mutex` |
| `CriticalSection241` | `os_CriticalSection.h/.cpp` of the default build | `Mutex` |
| `LightSemaphore` | `os_LightSemaphore.h/.cpp` | `Semaphore` |
| `LightEvent` | `os_LightEvent.cpp` in three builds | |
| `Synchronization` | the semaphore, the event and the 2.4.1 section side by side | |
| `BlockingQueue` | `os_BlockingQueue.cpp`, over the critical section and two semaphores | `BoundedDeque` |
| `CmdReqQueue` | `gxlow_CmdReqQueue.cpp` with two producers and the GSP process | |
| `LifoRing` | `hidlow_PadLifoRing.cpp`, and `Read`/`ReadLatest` of `hid` | |
| `NotificationHandlers` | `srv_Api.cpp`, `srv_Manager.cpp` and the intrusive list | |
| `StreamingLZ` | `cx_StreamingUncompression.cpp` | |
| `Rings` | these five side by side | |
| `AddressSpace`, `SharedMemory` | `os_AddressSpaceManager.cpp`; `os_SharedMemory.cpp` over it | `MappedRanges` |
| `InterruptReceiver` | `gxlow_InterruptReceiver.cpp`, with the GSP process, a waiter and the finalizing thread | |
| `CommandList` | execution of lists in `gles2/systemmanager.c`, extending `InterruptReceiver`: its handlers run in the receiver thread | |
| `CommandBuffer` | recording of lists: splits, flushes, transfers, saving and using saved commands | |
| `Shaders` | shaders, binaries, programs and their loading, `gles2/shadermanager.c` | |
| `RegisterImage` | the registers of programs: uniforms, marks and validation | |
| `GLCommands` | the last three side by side | |
| `Textures`, `VertexBuffers`, `Framebuffers`, `DisplayBuffers` | names, bindings and collections (`texmanager.c`, `vbmanager.c`, `fbmanager.c`, `systemmanager.c`) | |
| `SurfaceMemory` | the memory behind a texture or a buffer (`texmanager.c`, `vbmanager.c`, `surface.c`) | |
| `GLObjects` | the last five side by side | |
| `SoundThreads` | `snd_ThreadManager.cpp`, `snd_Api.cpp`, `snd_OperateMaster.cpp`: the threads, the frames of the DSP, sleep | |
| `*Proofs` | the theorems of section 5 | |

The `MC*` modules only add symmetry sets or records of constants.

**Side by side.** `Synchronization`, `Rings`, `GLObjects` and `GLCommands` compose parts that
share no variable and do not call one another: a variable (`used`, `inUse`, `manager`,
`part`) picks the one a behaviour uses, the others rest. As no part reads another's
state, an interleaving of two parts violates a property of one of them just when its
projection on that part does; all that is lost is the product of their state spaces.

**Grain.** One action is one atomic update of a shared word (an `ldrex`/`strex` loop that
succeeds is one step), one system call, or one section under a lock that no other code
looks into. Where the code reads outside a lock and acts inside it, the read is a step
of its own: `CallLock` after `Enter` has read the owner, `LookUpRequest` before
`CountRequest`, `LookIfDone` before the wait. In `CmdReqQueue`, `LifoRing` and `NotificationHandlers`, which
take no lock, each load and store is a step. The object managers run on one thread:
there a call is an action. A thread's place inside an operation is `pc`, `place` or
`at`; `Step(t)` collects the steps a thread takes by itself.

**State and code.**
- `SimpleLock`: `counter` is `m_Counter`: positive when free, negative when held, its
  magnitude one more than the registered waiters.
- `LightSemaphore`: `counter`, `numWaiting` are the members; `release[t]` is the local
  updater of a `Release` in progress.
- `LightEvent`: `counter` is the state word (-2/-1 not signalled, 0/1 signalled, for the two kinds);
  `manualReset` and `build` are chosen at the start: the source tests two different versions for the
  locks of the two functions, so that 2.5.0 would have one of them.
- `BlockingQueue`: `buffer`, `first`, `used` are the ring; tokens are those of the two semaphores,
  `waitingEnqueue` (`waitingDequeue`) the threads waiting for an enqueue (a dequeue).
- `CriticalSection*`: `owner` is `m_ThreadUniqueValue`, `lockCount` `m_LockCount`;
  `depth[t]`, the unmatched `Enter`s of a thread, is the caller's knowledge.
- `AddressSpace`: `list` is `m_BlockList`; pages instead of bytes; sums are taken modulo
  `Word`, as the code's are modulo 2^32. `SharedMemory`: `kernel[b]` is what the kernel
  maps, external; `forgotten` records that `ForgetRange` happened. `MappedRanges` has neither list nor
  order: a range is reserved anywhere inside the space and `Skip` pages from the others.
- `InterruptReceiver`: `relay` is the ring the GSP fills; `rxEvent` an auto-reset event;
  `receiver` the place in `ReceiverThreadFunc`; `doneSince[t]` is history: a handler finished
  since t began to wait.
- `CommandList`: `list[l]` holds the five counts that control a list; buffers and
  addresses are in `CommandBuffer`, where the list does not run; `gpu` and `outstanding` are
  what the GPU still works on and what the handlers have not yet counted.
- `NotificationHandlers`: `stores` is what `Register` or `Unregister` has yet to store, in
  program order; `search` the locals of the dispatching thread.
- `StreamingLZ`: `context` is `UncompContextLZ`; literals are numbered so that all bytes
  differ, offsets are those a compressor produces.
- `CommandBuffer`: sizes are in words of four bytes, the unit of the write pointer; `pos` is
  `used_bufsize`, `split` is `last_split_offset`. A register write takes two words and looks
  only if there is any room; `ragged` is history: the list, or what it got from another, may
  not be of whole pairs.
- `Shaders`: `dirty` has the marks of `upd_mask` and `known` is `s_vp_mode` and what
  `forceValidateMask` says of it; `hw` is external: the mode of the processors (`PA_RW_CI_VP_MODE`
  with `VP0_WRITE_DISABLE`), and the code and constants in VP0 and in the others. `slipped` is history:
  marks that were cleared without the load they ask for.
- The object managers: a pointer is the name of the node it points at, or the value that
  says it has none; what the application knows is history.
- `RegisterImage`: one register of the kind `Init` picks, its value in the program, in
  the manager's second image and in the hardware.

## 3. Runs

Safety properties and liveness are checked in the same run. Each property has a mutant
in `PROJECT.json`: a plausible bug, defined beside the definition it would replace, that
makes TLC report that property.

| run | instance | what it shows |
|---|---|---|
| `lock` | 4 threads, nesting 3 | the critical section over the detailed lock: exclusion, exact counter, no lost wake-up, owner and count right whenever used; both implement `Mutex`; registered waiters are served unless others barge for ever |
| `synchronization` | semaphore: 3 threads, 1 of at most 2 tokens, releases of 1 and 2; event: 3 threads, both kinds, three builds; 2.4.1 section: 4 threads, nesting 2, 4 contended waits | enough wake-ups for the tokens, `Semaphore` implemented; signals release and waits return on a signal (`EventIsExact` is `SignalReleases` and `WaitSawSignal`); the 2.4.1 counter counts waits, and `Mutex` is implemented nevertheless |
| `rings` | queue: 3 threads, ring of 2; requests: 2 producers, ring of 2; samples: ring of 4, 9 samples, reads of 1, 2 and 4; handlers: 3, two messages; data: 8 headers, pieces of 1, 2 and 40 bytes | `BoundedDeque` implemented and items reach waiters; accepted requests are taken in order and none sleeps; what is read was written together; a notification reaches its handler (`HandlersReached` is `ListIsExact` and `NoneMissed`); the decoder does not depend on the cuts |
| `sound` | both threads, the application, the DSP (no constants) | the callback ends before its parameters are sent, no wake-up is missed, frames go on, `Sleep` and the joins return |
| `sound_assertion` | the same | **violation** of `SyncAfterSend` |
| `shared_memory` | 4 blocks of 1 to 3 pages in 9, one page skipped, the kernel may refuse | `MappingsSound`: the manager's list sound and its search exact, mappings disjoint, what is mapped is allocated; all of it implements `MappedRanges` (`ImplementsRanges`), except for where ranges go after one was forgotten |
| `shared_memory_failure` | 3 blocks | **violation** of `MappableIsUnlisted` |
| `command_list` | lists with room for 3 and 1 requests, 2 speculative, 1 waiter, watermark 1 | what is outstanding is what the run list issued and the queues have room (`RequestsExact`); the flags agree with it (`RunningExact`: quiet when idle, busy while running, nothing left behind); no interrupt stranded, no finished handler missed; waits and `Finalize` return |
| `gl_objects` | 3 textures, 3 slots; 3 buffers, 1 attribute; 2 framebuffers, 3 renderbuffers; 2 display buffers; 3 blocks | what is bound is what is used, nothing freed is used, nothing lost or shared: `TexturesSound`, `BuffersSound`, `AttachmentsLive`, `DisplayMemoryOwned`, `BlocksOwned` |
| `surface_assertion` | 4 blocks | **violation** of `SurfaceIsClean` |
| `gl_commands` | 2 vertex and 1 geometry shader, 2 programs, 2 binaries, draws, and masks of `nngxValidateState` with and without the mode; a list of 20 or 9 words and 3 requests, copies of 3 words; 5 kinds of registers | reference counts exact; processors are in the mode of the program, and they and the registers hold what is not marked; the requests tile the buffer and the commands stay in it |
| `shader_relink` | the same | **violation** of `RelinkUpdatesEverything` |

**Bounds and why they are enough.** `Threads`: with three threads there is an owner, a
sleeper and one who barges or signals; in the locks a fourth makes two sleepers compete for
one signal. `MaxRelease = MaxCount = 2`: two tokens released to two sleepers and saturation.
Ring of 2: full, half and empty, `first` in both places. `MaxTokens = 2` is the code's
limit made small; it saturates where the code would at its own maximum. `MaxDepth`: nested and
outermost `Leave`. `MaxWaits = 4`, `Width = 5`: as many leaks as threads, with no
wrap. `MaxSamples = 9`: the writer goes twice around the ring of 4 while a reader copies. Three handlers:
one at the front, one at the back and one between. `MaxStream = 22`: header, extended
length, a copy command cut in the middle, and the end. `Word = 20`, `SpaceBegin = 4`, `SpaceSize = 9`: the space lies
neither at the start nor at the end of the words, so that a wrong subtraction
looks enormous as in the code; four blocks fill it. `QUEUE_HIGH_WATERMARK = 1`: display interrupts are dropped
above it, others are not. `Room = 3, 1` and `NumSpeculative = 2`: a
list longer than the speculation and one that is full at once. Three names of textures and
buffers: one for a collection, two that compete for a slot; `SlotChoices` lets the
application confine itself to some slots, since they do not depend on each other. `Applications` does
so for shaders: each uses some of the names and deletes one shader or none, and draws; three of them
validate, or record by saved lists, in parts: code and constants before the mode or after it, and constants alone
in whatever mode. The theorem has every application.
Three names of textures, of which
`CollectionNames` may also name collections. Three blocks of one layout: an area of the old size beside
two of the new; `surface_assertion` has four. A list of 20 words: two splits and a copy; of 9: an end that no
pair meets. Writes of 4 words and of a pair; copies of 3, so that one makes the list ragged and two
even it out again. Storage is a multiple of four bytes, which the code does not ask for. Where a bound
limits only the model, the theorems of section 5 take it away.

**Deadlock** is checked except in `synchronization` and `rings`, where all threads may
wait for something nobody provides any more and data end; in `shared_memory`, where after a
forgotten range nothing may fit; and in `sound`, where the join
of a thread that enabled itself again (`stoppedBeforeRun` below) never returns.

**Fairness.** `WF(Step(t))`: a thread inside an operation is scheduled as long as it can
run; the kernel's scheduler and the arbiter give that. Starting an operation is never
fair. `WF(Leave(t))`: whoever is in a lock leaves it, which a lock needs of its callers.
A thread that may be blocked is not strongly fair, so the locks promise progress of
some thread, not of each: `WaitersServed` says under which condition a registered one
is served. The receiver, the GPU (`Finish`), the DSP and the joining thread are weakly fair;
vertical blanks are not. Reading the waiter's status, under the interrupt table's lock, is strongly
fair, and so is an application thread inside a call that takes the general lock
(`Continue`): the receiver takes these locks again and again, for short whiles. `FinalizeReturns`
of the receiver supposes that it infinitely often gets to the end of its queue: its drain loop does not look at the
request to finalize.

**Named exceptions.** Where the code really misses what a property says, the property
names the case instead of leaving it out of the model, and holds in all others:
- `RingIsExact`, `overlapped`: a request written before its exclusive store fails is
  written again, perhaps over one of another producer.
- `ReadIsExact`: pointer and ticks read across the beginning of a round.
- `HandlersReached`, `strayed`: the handler at which the search stands is unregistered. A handler
  may also be called after its `Unregister` has returned, as the dispatching thread has it in hand.
- `NoMissedWakeUp`, `markedAfterWakeUp`; `CallsReturn`, `stoppedBeforeRun`; `FrameGoesOn`,
  `restartedInFrame`: three races of the sound threads (`snd_Api.cpp:196`,
  `snd_ThreadManager.cpp:48` and `:190`).
- `MappingsSound`, `forgotten`: finding 1 below. `ImplementsRanges` goes on after it, and leaves open
  only the place of the ranges reserved from then on.
- `CommandsTile`, `astray`: storage started over with a split offset left
  (`systemmanager.c:590`), storage freed and not replaced (`:578`), a copy past the end of its list. `ragged`:
  `nngxAdd3DCommand` copies any multiple of four bytes (`:2029`); after an odd number of words the
  padding by `used_bufsize & 8` makes no whole 16 bytes (`:706`), and a register write, which only looks if there is
  any room (`commandbuffer.h:11`), may pass the end by a word. That requests tile the buffer holds then too.
- `RegistersFollow`, `missed`: a force dropped by a program without the register or a draw
  that found nothing marked ("lost"), a register written before the mode of the processors changes
  ("early"), a register not of the groups validated last ("left"), light 0 put on unannounced
  ("light"), a ZBIAS not made by a `glDrawArrays` that was refused ("offset"; for the others
  such a draw is one of the ways above).
- `ProcessorsFollow`, `orphans`: finding 3 below. `slipped`: `NN_GX_STATE_SHADERBINARY` or
  `_SHADERFLOAT` validated without `_SHADERMODE` while the processors are in the mode of the program before
  (`shadermanager.c:5311`, `:5371`): with `VP0_WRITE_DISABLE` still set VP0 does not get what vertices
  need, without it the constants of a geometry shader are overwritten, and the marks are cleared all the
  same (`statevalidator.c:210-217`). So they are by a `glDrawArrays` that is refused because of the geometry shader
  (`shadermanager.c:4004`), and a draw without program drops the force that a saved list put on the
  mode (`arrayprocessor.c:257`).
- A `GetFront` that waits takes the token of an item it leaves there: `ItemsReachWaiters`
  holds until one did (`peeked`). `NoMissedHandler` is about one waiter, as the status and the event are
  shared. `WaitSawSignal` is about the build with both locks.

## 4. Findings

1. **`os_SharedMemory.cpp:90`** (`shared_memory_failure`). After a mapping the kernel refused, `Unmap` only forgets
   the range: the block stays in the list with address and size 0, while `Map` would
   accept it; the list asserts that an inserted node is unlinked
   (`fnd_LinkedList.h:177`).
2. **`texmanager.c:515`** (`surface_assertion`). Granted the copy of a texture and refused its data,
   `tx_allocTextureMemory` frees the copy and keeps its address: the next load reaches
   `__srf_initSurface` against its assertion (`surface.c:11`).
3. **`shadermanager.c:2624`** (`shader_relink`). Linking the program in use compares addresses of binaries to
   see whether the code has changed; a new binary may lie where the freed one did, and the code is
   not loaded, although the function is to "update everything" (`:2632`).
4. **`snd_Api.cpp:94`** (`sound_assertion`). `Sleep` sets its flag while the sound thread is between the wait
   for a frame and the sending of its parameters, which then returns early: the next
   `WaitForDspSync` begins in the wrong state, against its assertion (`:185`).

Three more that no run shows. In the default build every contended wait of a critical section
decrements its counter and nothing takes it back (`os_CriticalSection.cpp:74`): the lock is
correct, as `synchronization` shows, until the word wraps after 2^31 contended waits. And
`SendParameterToDsp` has a nested wait for a frame that it never reaches. The third is what `slipped`
names: a validation of constants without the mode, after a program with a geometry shader, leaves them
out of VP0 for good. No document says that the mode is to be validated first.

## 5. Proofs

Every theorem is proved by TLAPS from the specification without its fairness, for every
value of the constants that the named ASSUMEs of the modules allow. These are what the
code has: finitely many threads and objects, rings and lists of some length, disjoint
kinds of names, a value that stands for none and is no name. No theorem supposes a number of threads,
lists or names, except `HandlersAreNotMissed`: one waiter at most, as the property holds for no more.

| module | theorems | inductive invariant |
|---|---|---|
| `CriticalSectionProofs` | `SimpleLock`: `TypeCorrect`, `LockIsExclusive`, `CounterIsExact`, `WakeupsAreNotLost`, `Refinement` of `Mutex`; `CriticalSection`: `SectionKeepsTheLock`, `RecursionIsExact`, `SectionRefinement` of `Mutex` | `IInv`, `SectionInv` |
| `SynchronizationProofs` | `TypeCorrect`, `WakeupsAreEnough`, `Refinement` of `Semaphore`; `WaitsSawSignals`; `CountersAreWaits`, `SectionIsMutex`: `CriticalSection241` implements `Mutex`; `ObjectsAreExact` | `IInv`, `EventInv`, `SectionInv` |
| `RingsProofs` | `RequestsAreExact`, `NoRequestIsLeft`; `QueueIsDeque`: `BlockingQueue` implements `BoundedDeque`; `ReadsAreExact`; `HandlersAreReached` | `CrqInv`, `RingInv`, `LifoInv`, `HandlersInv` |
| `StreamingLZProofs` | `StreamsAreExact` | `LzInv` |
| `CommandListProofs` | the receiver: `InterruptsAreNotStranded`, `HandlersAreNotMissed`; the lists: `RequestsAreExact`, `RunningIsExact`, `ReceiverServesLists` | `ReceiverInv`, `WaiterInv`; `CommandInv` |
| `GLObjectsProofs` | `AttachmentsAreLive`, `DisplayMemoryIsOwned`, `BlocksAreOwned`, `BuffersAreSound`, `TexturesAreSound`, `ObjectsAreSound` | one for each manager |
| `SharedMemoryProofs` | `MappingsAreSound`; `MemoryImplementsRanges`: `SharedMemory` implements `MappedRanges` | `MemoryInv` |
| `GLCommandsProofs` | `CountsAreExact`, `ProcessorsAreRight`; `RegistersAreRight`; `CommandsDoTile`; `CommandsAreRight` | `ShaderInv`, `RegInv`, `CbInv` |

**The arguments.**
- *Lock.* `IInv` is the types, `SleepersAreWaiters`, `MutualExclusion`, `CounterExact` and
  `NoLostWakeup`. No conjunct is inductive alone: exclusion needs that a positive counter means no
  owner, which is `CounterExact`; the count of waiters is only kept by a wake-up if the woken thread was
  counted; and a sleeper must be a waiter for `Unlock`'s test of the magnitude to notice it.
- *Critical section.* Each call leaves the lock alone or makes one of its steps, so `IInv` holds under it.
  `PlaceSays` relates a thread's place in this class to its place in the lock, its depth and the
  owner: whoever reads `m_ThreadUniqueValue` without the lock finds its own identity
  there exactly if it entered.
- *Semaphore.* `m_NumWaiting` counts every sleeper (`WaitersCounted`), and a signal that is decided by it after the
  update is still due: tokens beside sleepers have signals under way or awake waiters.
- *Event.* With both locks a thread that sleeps, or has yet to, has not seen its signal, and one that is
  awake or has read the word signalled has: `EventInv` says this of each place of the wait, together with
  who may be inside which lock.
- *2.4.1 section.* The counter's magnitude is one more than the contended waits ever made, and its sign says
  whether somebody has the lock (`SectionInv`): each wait adds one to the magnitude for good, but nothing ever
  changes the sign that should not, which is why the lock excludes although the counter leaks. `WaitsFit` supposes that the waits fit its word; it is what bounds the theorem, and the
  code, which does not check it.
- *Address space.* `SpaceSorted` keeps `Skip` pages between all pairs of listed blocks, not only between
  neighbours, so no induction over the list is needed; inside the space, and with `Skip` more pages in a word
  after its end (`SpaceAssumption`; the code's two spaces end below 0x14000000 and skip one page),
  no sum or difference wraps. What `FindSpace` returns is the last room that is large enough, a maximum
  that exists by the order of the naturals, and `SearchExact` follows: if no room is large
  enough, what would fit would lie in one. `PhaseSays` ties what the kernel maps to a listed block, also after another's
  range was forgotten, when the order no longer holds. `MemoryImplementsRanges` follows: a place that
  `SearchExact` says fits is apart from all reserved ranges, what a block maps is what it has reserved, and a range is
  given back only when the kernel no longer maps it.
- *Command ring.* `LoadsHold`: what a producer has loaded is still so, or its exclusive store will fail; and
  one producer at a time is about to publish (`OneEnqueues`). With the arithmetic of places in a ring, stated in
  lemmas of their own, the ring holds what was accepted in order.
- *Blocking queue.* The mapping reads the ring from `first` for `used` places. `RingInv` says who holds
  the lock while it changes, and that tokens taken and items present agree.
- *Input ring.* The writer's words always agree with its place (`LifoInv`), so each slot is of this round or of
  the last one. What a reader noted at the round's end leaves the slots behind the writer as they were; else its copy is right
  until the pointer or the old tick moves, and neither comes back to what was noted within the round, so the second look notices.
- *Notification handlers.* What is yet to be stored makes the list that of the registered handlers
  (`HeadWillBeExact`, `ListWillBeExact`), so it is exact between the calls. Until then a link leads on, back to the front, or to the
  handler that is being unregistered, and from that the back is still found (`LinksMeanwhile`): a search that never stood at such
  a handler passes none that it must find (`SearchOnTheWay`), also when the front it compares with is registered no more (`FrontLoaded`).
- *Compressed data.* The property compares what was written with the format read at once (`Decoded`: part by part, a
  recursive function of the position). As that reads the whole of the data, and the code only what came so far, `LzInv` relates
  the context to what all continuations of the data have in common: up to the end of the last complete part they are
  read alike, giving `dest` and the flags that are left (`Reached`). A command cut in the middle is in `length` and
  `lengthFlg` as far as it came (`LengthSays`), the flags are those of the flag byte moved up (`FlagsSay`), and
  within the header the count is the sum of the digits read (`HeaderSays`). That bytes copied one by one repeat the last `offset`
  of them is `RepeatedTurns`. `StreamAssumption` says that the header is four bytes, or eight if the first size is 0, and that the
  size fits the code's signed word; literals are numbered in the proof as in the model.
- *Receiver.* `QuietWhenFinal`: nothing is relayed when `Initialize` resets the event, and nobody waits
  while `Finalize` is under way. `Announced`: the status says that a handler is done to a
  waiter that has yet to look, and remains, or the event is set, while it sleeps.
- *Command lists.* Two halves, neither inductive alone: what the counts, flags and stops of the lists say of
  the requests outstanding (`ListsInv`), and where the interrupt of each request is (`Accounted`): with the GPU, in
  the relay or in the receiver's hand. The handler counts a request because it has an interrupt, and that must be
  one of a request outstanding; a list is only changed when it rests, which must mean that none
  of its interrupts is on its way. `WaiterInv` of the receiver is a third part, so
  its two theorems hold with the real handlers and the real application.
- *Objects.* `BlocksAreOwned` counts faces: each block is owned by one face, or held by the load in
  progress, whichever allocation fails. `BuffersAreSound` and `TexturesAreSound` need
  that every collection, bound or not, records what it says (`RecordsHold`), because binding one skips the slots whose
  name does not change; and deletions put off are of what a collection still names.
  `ObjectsAreSound` puts the five together for the specification that the run checks.
- *Shaders.* A program that is linked keeps an uncounted pointer to a binary; `LinkedIsKept` says that
  the binary is still there unless the program is one of the named `orphans`. This is what makes
  comparing addresses in `glUseProgram` right, hence `ProcessorsFollow`. `ModeIsKnown` is the other half: where the mode is
  not marked, `s_vp_mode` is that of the program in use, and the processors are in it unless it is forced or has slipped; so a
  validation that sets no mode, because it believes it set, loads in the right one or adds to `slipped`. The first half rests on `CountsExact`, by which a binary is
  freed with the last shader that holds it.
- *Registers.* `RegInv` has three parts. The mode of the processors is the one known, or it is forced and marked
  (`ModeKnown`), and a program of the other mode is marked (`ModeFollows`). The cache is right where it
  is not to be invalidated by the mode, and an unmarked register holds the program's value even then
  (`CacheFollows`): the two must be said apart, since a validation of the mode alone invalidates
  the cache of a register nobody marks. And what remains marked when nothing is to be validated is a light put out
  (`NothingLeft`), or a ZBIAS a refused draw did not make (`OffsetFollows`). Of what was missed only "lost" and "early" concern the cache, "left" and "light" the marks: this is why a draw
  call may forget the latter, but the former only when it writes the register.
- *Command buffers.* The requests of the program's own that render tile their list up to the last split. A position is
  inside the buffer, or one word past the end of a ragged list, with a word left that no split can have taken (`Within`): so a later
  split, which needs room, never begins there. While a list is
  saved, the first of them saved covers what was pending from the saved offset on (`Saves`), so what is
  saved is whole and fits where it is used (`SavedFits`), evenly unless its list was ragged: the first request is trimmed by what was there before. Sizes are summed by
  a recursive function, `Total`, over positions; its facts are proved by the least position that fails them (`AllNaturals`),
  since the induction theorems cannot be used.

**What stays with TLC.** Liveness under fairness, and what is said with ENABLED: no
installed prover does them. `SoundThreads` has no constants: TLC's run visits
all its states, and a theorem would say no more.

## 6. Not modelled, and why

- `MemoryBlock` and `StackMemoryBlock`: both allocate through `AllocateFromMemoryBlockSpace`, which uses a manager that is never set
  and returns no address (`os_MemoryBlock.cpp:30-34`), and no code frees a stack block (`os_StackMemoryBlock.h:12-34`).
  `Switch` hands the range of one stack block to another (`os_Default.cpp:57`) in a manager that was never
  allocated from. What these do is not determined by the source.
- The OpenGL ES state (register images of `transformstate.c`, `fragopstate.c` and others), `gr`, `font`, `math`, `crypto`,
  `nstd`, the decoders and effects of `snd`: sequential computation on data.
- IPC clients (`cfg`, `ptm`, `ndm`, `mic`, `camera`, `ir`, `fslow`, ...): one system call per function.
- `applet`: the client thread is given one handle for both of its events (`applet_ClientThread.cpp:33` and `:37`), and
  `applet_API.cpp:127` uses a name that is declared nowhere.
- Voices of `snd`: two functions the others rest on have no body here.
- `fnd` heaps: `fnd_DetailHeap.cpp:55` takes the offset of the list head from the address of the heap; what such a heap does is
  not determined by the source.
- `dsp`: the first condition of `LoadComponentCore` (`dsp_Api.cpp:113`) makes every `WakeUp` fail; the DSP's
  side is a firmware image.
- `ro`: another process does the work. Start-up, compiler support, vendored headers: no behaviour of this program's own.

In the modelled parts: time (a time-out may come whenever the code waits with one), memory ordering beyond
the atomic updates, priorities of threads, contents of buffers, requests that raise two
interrupts, a second application thread in the command lists, lookup tables of programs. `snd::Initialize` and `snd::Finalize` are called
while no sound thread runs and are left out; what the driver's pipe does within a
timed wait is external. What a module leaves out, its first comment says.

## 7. Plan

Every safety property of the runs that depends on constants is a theorem. What would come next: `CallbackBeforeSend` and
`NoMissedWakeUp` of `SoundThreads` as theorems, once it has a constant to be proved for, such as the
number of user threads; `ForceEnqueue` of the blocking queue; subroutine calls between command lists.
