# MojitoGlass in TLA+

MojitoGlass is a C++ library over Vulkan, volk, vk-bootstrap, VMA and SDL. It
opens a window (`SdlSurface`), brings up a device for it (`Backend`), hands its
queues to threads (`QueuePool`), builds swapchains (`SwapchainBuilder`) and runs
one-shot command buffers (`ImediateCmd`); fences, semaphores, command pools and
buffers of mapped memory are classes around one driver object each. This directory holds TLA+ models of
those parts, TLC configurations that check them, and TLAPS proofs, for any
numbers of threads, objects, images, queues and requests, of every invariant the
passing runs check.

To run a check: `tlc -config <run>.cfg <MC module>`; to check the proofs:
`tlapm <module>.tla` for each of `QueuePoolProofs`, `InitQueuesProofs`,
`BackendProofs`, `ApplicationProofs`, `SwapchainBuilderProofs`,
`ImediateCmdProofs` and `HandoverProofs`. `PROJECT.json` lists runs, properties, mutants of
the code each property catches, and the source lines each definition models.
Paths below are relative to the repository.

## 1. The system

| Component | State it keeps | Operations |
|---|---|---|
| `QueuePool`, `QueuePool::Handle` (`src/backends/vulkan/queue.cpp`) | slots with an `in_use` flag, a mutex, a condition variable; a handle points to a slot's queue | `acquire`, `try_acquire`, `release`; moves and end of a handle; `dedicated_family`, `all_family_indices` |
| `Backend` (`src/backends/vulkan_backend.cpp`) | `nulled`, the handles of instance, messenger, surface and device, a pool on the heap; the static `volk_init` | `create`/`init`, moves, destructor; `create_*` that forward to the driver |
| queue set-up (`vulkan_backend.cpp` 148-183, 244-295) | locals of `init()` | how many queues of each family are asked for; the families of the pool |
| `SdlSurface` (`src/surface/sdl_surface.cpp`) | its window; the static `existing_instance` | `create`/`init`, moves, destructor, `get_vk_surface` |
| `SwapchainBuilder`, `Swapchain` | `infos`; a swapchain with views, semaphores and a fence | setters, `reset_to_default`, `build`, `build_fallback`; moves, destructor |
| `ImediateCmd`, `CommandBuffer`, `Fence`, `CmdPool` | none beyond handles: the state is the driver's | `submit` (reset fence, reset buffer, begin, functor, end, submit, wait); `CmdPool::reset`; creation, destruction |
| `Semaphore`, `TimelineSemaphore` | a handle; the driver keeps the value | `signal`, `wait`, `query_value`; creation, moves, destructor |
| `MemoryAllocator`, `Buffer` | VMA handles, mapped pointer, `count` | `create_buffer`, `write`, `read`, `flush`, `invalidate`; creation, moves, destructors |
| `Queue` | a queue and its family | `create_cmd_pool`, `present`, `wait_idle` |
| `Result`, `VULKAN_RESULT`, `EnumFlagsWrapper` | values | `replace_ok` and the like; flag operators |
| tables, math, logging | none | none that changes state |

How they meet: `Backend::init()` calls back into the `IVkSurface` it was given;
`init_queue_pool()` fixes the slots the pool then works with; a handle keeps a
pointer to the Backend's pool; an `ImediateCmd` needs a `CmdPool` made from a
handle's queue; a Swapchain belongs to the surface of a Backend. A
`CommandBuffer` keeps the raw handle of its pool and a `Buffer` that of its
allocator, whatever becomes of the wrappers of those; all of them need the
Backend's device. A mapped `Buffer` is plain memory that host threads share; a
`TimelineSemaphore` is what the library offers them to take turns with.

What is hard, and what makes each part correct:

* **Queue pool.** Threads interleave between the wait, the scan and the
  notification that follows the unlock. Correct: one owner for each queue, none
  lost, nobody waits for what no queue can give, nobody sleeps on beside a free
  queue, and to its clients it looks like an allocator with atomic grants.
* **Backend, surface.** A dozen calls in a row may fail and the destructor undoes
  what a half-made object has; objects are moved; the parts have to go in order
  (surface before window, all before the instance, handles before the pool).
  Correct: nothing is leaked, destroyed twice or destroyed too early, and one
  window at most.
* **Queue set-up.** Requests compete for a family's queues and match by any bit,
  while `acquire()` matches by all bits and presentation. Correct: what is asked
  of the device is legal and nothing the device could have served is missing.
* **Swapchain builder.** Up to 2n+3 driver calls, each of which may be refused.
  Correct: a failed build leaves nothing; what the client gets is whole.
* **ImediateCmd.** Seven driver calls and a client's functor that may nest or
  throw, against a GPU that finishes when it likes and a wait that may time out.
  Correct: no call in a state Vulkan forbids; "done" means done.
* **Wrappers.** One pattern, written out in each class: the handle goes into a
  wrapper before anybody looks at whether the driver wrote it, moves nullify
  their source, the destructor destroys. Correct: each object is destroyed once,
  by the last wrapper in a chain of moves, while its parent is still there; what
  the pattern cannot promise (a refused `create()`, an overwritten wrapper) is
  the only thing that goes wrong.
* **Timeline semaphores and buffers.** A wait with a timeout against signals of
  other threads, values that only grow, copies that take more than one step,
  offsets and sizes at their bounds and at the width of `size_t`. Correct: a
  thread that got its turn sees what the one before left, whole; no turn is
  lost; no copy leaves the memory.

`PROJECT.json` lists each hazard at its line, with the property that covers it or
the reason why none does yet.

## 2. Modules

**`QueueAllocator`** is the abstract specification of the pool: queues are free,
held or on their way back, and a request is granted in one step a free queue
that serves it.

**`QueuePool`** is the pool as coded. `in_use[q]` is `Slot::in_use`, `handle[h]`
is `Handle::queue`, `mutex` is who holds the lock between two steps, and `pc[t]`
is where a thread is. `CallAcquire` is the check that such a queue exists,
`FindFree`/`FallAsleep` the predicate of `cv->wait` evaluated under the lock,
`Take` the scan after it, `TryAcquire` its one critical section, `Release` and
`Notify` the two halves of `release()`. A step ends wherever another thread can
get in. `Matches` is the test the code repeats three times. Client behaviour
that the code leaves open is a parameter: `OverwritesHeld` says whether clients
move-assign onto a handle that has a queue. `MCQueuePool` has the small pools.

**`QueuePoolProofs`** proves the theorems about it, section 5.

**`SwapchainBuilder`** has `build()` one driver call per action, each with its
refusal, `build_fallback()` as the operator `Fallback` with the arguments each
call site passes, the moves and the destructor of `Swapchain`, and the builder's
`minImageCount`. The driver is the set `live` of its objects, and `image_total`
is how many images it gave each `VkSwapchainKHR`, which the loop of `build()`
never sees but through `image_count`. The destructor and the fallback are one
step each, though they destroy the objects one after the other: nothing else
runs in between, and no property depends on the order. `MCSwapchainBuilder`
gives it two builds and two Swapchains; **`SwapchainBuilderProofs`** has its
theorems.

**`ImediateCmd`** has `submit()` one vk call per action. `fence` and `cmd`
follow the states the Vulkan specification gives fences and command buffers; a
call in a forbidden state is recorded in `misuse` and the behaviour ends there,
because what follows is undefined. `stack` holds the submits in progress: a
functor may submit another object. A refused creation changes nothing here; what
it does to an unwritten `VkFence` is in `Wrappers`. `GpuFinishes` signals fences
in the order of submission. `MCImediateCmd` has the objects,
**`ImediateCmdProofs`** the theorems.

**`SdlSurface`** has the static flag and the windows. **`Backend`** has `init()`
stage by stage, the failure of each stage, the destructor call by call, moves
and handles. A Backend is its `nulled` flag and, of each kind of object, the
`init()` that made what the attribute refers to. The destructor and the move
assignment free a Backend's pool whatever handles point into it, and so do
`DestroyBackend` and `MoveBackend`. `KeptPools` are those whose handles the
client keeps then; of other pools it returns them first (`HandlesReturned` in
`Client`). A handle whose pool is gone is never given back in the model: that
writes to freed memory. **`Application`** puts both together: `create()` takes
the window its SdlSurface owns at that moment, and the program closes a window
only when no Backend has a `VkSurfaceKHR` for it. `MCApplication` declares the
symmetry of the four kinds of names. **`BackendProofs`** and, on top of it,
**`ApplicationProofs`** have the theorems.

**`InitQueues`** is the queue set-up: `CountRequest` is a turn of the inner loop,
over the requests (`Took` is what it adds to `total_count`), `CountFamily` what
follows that loop for a family, `AddFamily` one family turned into queues; the two
queries of families are operators. Its `families` are what `QueuePool` takes as
`Caps`. **`InitQueuesProofs`** has the theorems.

**`Wrappers`** is the pattern shared by `Fence`, `Semaphore` with its two
subclasses, `CmdPool`, `CommandBuffer`, `MemoryAllocator` and `Buffer`: `Create`,
`Refuse`, `Move` and `Destroy`, and below them one definition per function of
each class and per `create_*` function of Backend, Queue, CmdPool and
MemoryAllocator. `place[p]` holds the attributes of a wrapper object (the handle
and, as `parent`, the raw handle it keeps of its pool, allocator or device; the
classes' nullified state is `Nulled`), `object` is the driver's side. `Refuse` is
the error path of `replace_ok()`: the temporary is destroyed with a handle nobody
wrote, so `stale` ranges over whatever it may be. It matters only for the calls
that leave the handle alone when they fail (`LeaveUnwritten`), and for a buffer
of size 0, of no elements or of a product that wrapped to nothing, which VMA
refuses before it writes to any handle (`create_buffer_refused`); for its other
failures VMA, like `vkAllocateCommandBuffers`, writes a null handle. A call Vulkan or VMA forbids is
recorded in `misuse`, and ends the behaviour. `abandoned` and `stolen` keep count
of what a move assignment overwrote and of what was destroyed through an
unwritten handle.

**`Handover`** extends it with threads: `Copied` and `Accepts` are the
computations of `write()` and `read()`, `Signal`, `WaitSucceeds` and `Value` the
operations of `TimelineSemaphore`. Thread t waits for t - 1, reads the buffer,
writes it in two steps, signals t; this protocol is the client's, the plainest
use of the two classes together, and every call it makes is the library's.
`GiveUp` is a wait that timed out or failed. Meanwhile `Main` does anything
`Wrappers` allows, except to the two wrappers the threads refer to.
`MCHandover` has the names and sizes, **`HandoverProofs`** the theorems of
section 5.

Operators such as `Take_NotMarked` or `Create_FlagNotTested` are not used by the
specifications: each is the definition after it with a plausible mistake, and
`PROJECT.json` says which property notices.

## 3. Runs

| Run | Bounds | Shows |
|---|---|---|
| `queue_pool` | 3 threads, 3 handles, 3 queues of different capabilities; the default requests of `BackendBuilder` and one that shares a bit with every queue and is met by none (15,637 states) | exclusive ownership, accounting, the "Unreachable" line is, refinement of `QueueAllocator` |
| `queue_pool_one_request` | 3 threads, 2 handles, 2 queues, all threads ask for the same; fairness (933 states) | with one kind of request, one notification per release is enough: a thread does not sleep on beside a queue it could have |
| `queue_pool_lost_wakeup` | 3 threads, 2 queues, the two default requests | **violation** of `WakeupUnderWay` |
| `queue_pool_overwrite` | as before, clients overwrite handles | **violation** of `NoLostQueue` |
| `swapchain` | 2 builds, 2 Swapchains, up to 3 images (1,139 states) | failed builds leave nothing; nothing destroyed twice; what is returned is whole, with every image the driver has |
| `swapchain_reset` | the same | **violation** of `MinImageCountAllowed` |
| `imediate_cmd` | 3 objects (249,068 states) | Vulkan's rules are broken only for an object whose earlier submit gave up waiting; a submit that saw its fence waited for its own work |
| `imediate_cmd_pool_flag` | 2 objects, a pool without the flag | **violation** of `ResetOnlyIfAllowed` |
| `application` | 2 SdlSurfaces, 2 windows, 2 Backends, 3 names of inits, the handles of one of whose pools are kept when it goes (13,287 states up to symmetry) | one window; nothing leaked but what an assignment overwrites; nothing destroyed twice; order of destruction; handles returned in time stay valid, over moves and beside pools that go under theirs |
| `surface_flag` | the same | **violation** of `RefusalTellsTruth` |
| `init_queues` | every device of 1-2 families of 16 kinds, every list of 0-2 requests of 6 kinds (251,208 states) | what is asked of the device is legal; however the device could serve all requests at once, the pool can; `dedicated_family()` answers right |
| `handover` | 3 wrappers, 3 driver objects, 3 threads, counts 2, 4 and 5 of 2-byte elements with a `size_t` of 3 bits; fairness (484,976 states) | no torn or early data, no copy outside the memory, no turn lost; each object of each class destroyed once and in time, but for what a refused `create()` destroys and a move assignment overwrites |

Why the bounds are enough. The pool's anomalies need a notifier, the sleeper it
wakes and the sleeper it should have woken: three threads; three queues make a
wrong match possible in each direction. A build's states differ by the image it
is at and the call it makes: first, middle and last image are there with three,
and a second build meets what the first left. The longest entanglement of
submits is a submit in a submit in a submit. Of Backends, the one under
construction or destruction, the one assigned to and the one assigned from can
be there together, hence three names. Competition of requests for a family
shows with two requests; preferring one family to another with two families.
Of wrappers, a parent, a child and a third object or the other side of a move
can be there together, which is what a rule broken in the order of destruction
takes; allocator, buffer and semaphore are what the threads need, and moving the
allocator's wrapper, or overwriting it, frees a place while they run. The third
thread is the one that could overtake; the counts give a buffer whose size fits
`size_t`, one whose size wraps and one whose size wraps to nothing and is refused; `MaxSpan` exceeds the larger of the buffers
that fit.
None of the models has a counter that needs a further bound; `MaxImages`,
`MaxFamilies`, `MaxRequests`, `MaxSpan` and `LastTurn` are the bounds named in the modules.

**Fairness.** `FairSpec` of `QueuePool` has weak fairness of what a thread does
inside the library. The operating system runs threads that can run;
a thread inside the pool never needs the client to go on. Client calls,
the end of handles and spurious wake-ups get no fairness: a client may keep a
queue for ever, and no program may count on a spurious wake-up. The liveness
property asks accordingly only that a thread does not sleep for ever *while* a
queue it could have is free. `Spec` of `Handover` has weak fairness of each
thread's steps: the system runs the threads, and `vkWaitSemaphores` returns once
the value is reached. The main thread's calls and the end of a wait's patience
(`GiveUp`) have none: a program may wait with `UINT64_MAX`, the default.

**Deadlock** is checked in every run but `init_queues`, where the set-up ends. In `handover` a
behaviour may also end by a misuse or by the end of the Backend; `Over` says so.

## 4. What the code does otherwise than it says

* `queue_pool_lost_wakeup`. `release()` notifies one waiter, whichever
  (`queue.cpp:143`). If it is one that wants another queue it goes back to
  sleep, the notification is used up, and the thread that wanted the freed queue
  sleeps on, though acquire() "will waits if all of the corresponding queues are
  already taken" (`queue.hpp:148`). The default `BackendBuilder` makes exactly
  the two different requests this takes. `notify_all()` would mend it.
* `queue_pool_overwrite`. Move-assigning to a handle that has a queue forgets
  that queue without releasing it (`queue.cpp:98`): its slot is in use for ever,
  though no handle has it.
* `swapchain_reset`. `reset_to_default()` sets `minImageCount` to 0
  (`swapchain_builder.hpp:147`), below what `set_min_image_count()` asserts
  (`:159`).
* `imediate_cmd_pool_flag`. `submit()` resets its buffer
  (`command_buffer.hpp:191`) also when its pool was created without the flag the
  header says this needs (`command_pool.hpp:22-25`).
* `surface_flag`. Assigning a moved-from SdlSurface over the live one
  (`sdl_surface.cpp:54`) leaves `existing_instance` set with no instance:
  `create()` reports "There already is an active instance of SdlSurface."
  (`sdl_surface.hpp:101`) from then on.

Move assignments of `Swapchain`, `SdlSurface` and `Backend` overwrite what the
destination owned, and so do those of all the classes in `Wrappers`. The models
let clients do so and keep count in `abandoned` and `forgotten`; the ownership
properties hold up to these sets, so they do not speak against the overwriting
itself, which no documentation excludes. `MisuseExplained` says what it costs: with an
overwritten object neither its parent nor the device can be destroyed rightly.

A refused `create()` of a Fence, Semaphore or CmdPool, or of a Buffer of size 0,
gives an indeterminate handle to the driver's destroy function. No documentation speaks of it, so it is
no finding here; `Wrappers` models it as any handle. Nor is there any word on
these, which the models do as the code does and no property rules out: a Backend
that is destroyed or overwritten frees its pool under live queue handles
(`vulkan_backend.cpp:320`, `:342`); `submit()` returns Ok when its wait timed out
(`command_buffer.hpp:198`); the size of a buffer may wrap (`allocator.hpp:293`); a
family with flags beside those of `QueueFlagBit` is not dedicated to any
(`queue.cpp:212`).

## 5. Proofs

Every invariant of a passing run is a theorem; `PROJECT.json` lists which. The
theorems hold for every value of the constants that the named assumptions allow.
These say what the constants are (counts are natural numbers, special values such
as `Null` are none of the others), except for the four hypotheses named below,
each of which a run shows to be needed or its section argues for.

`QueuePoolProofs` proves, for any numbers of threads, handles and queues, any
capabilities and any requests:

* `TypeCorrect`, `UnreachableCorrect`, `ExclusiveHolderCorrect`,
  `OwnedIsInUseCorrect`: the invariants of the run `queue_pool`;
* `NoLostQueueCorrect`: no queue is lost, assuming `~OverwritesHeld`, which the
  run `queue_pool_overwrite` shows to be needed;
* `WakeupUnderWayCorrect`: no thread sleeps beside a free queue it could have
  without a wake-up under way, assuming `OneKindOfRequest`: the same queues serve
  all the requests. The run `queue_pool_lost_wakeup` shows that to be needed, the
  run `queue_pool_one_request` has one request;
* `ImplementsCorrect`: every behaviour of `QueuePool` is one of
  `QueueAllocator`, with `free` the slots not in use, `returning` those in
  `release()`.

Assumptions: `PoolAssumption` only, which says what the constants are (the
special values differ from slots, requests and threads).

Argument. The safety properties are not inductive one by one: that the scan of
`acquire()` finds a slot needs that nobody took one since the predicate was
tested, hence that the mutex was held, and that a queue is exclusively owned
needs that owned queues are marked and marked ones are not handed out. `IInv`
is their conjunction with `MutexOwner` (a thread holds the mutex across two
steps exactly between leaving the wait and taking its slot). `WaitStep` proves
that the waiting part is preserved, `OwnerStep` the accounting part, one step
per action; `IInvStep` joins them. Refinement needs `IInv` too: `Release` is
the allocator's `Return` only because the slot is in nobody else's hands.
`WakeupUnderWay` does not survive the step in which the last thread under way
finds no queue, unless there is a thread for every free queue. So
`EachHasItsWakeup` gives each its own: a release adds the releasing thread, a
notification becomes the thread it wakes, and a thread that takes a queue hands
its place on (`WakeupUsed`). No cardinalities are needed, and nothing that is finite.

`InitQueuesProofs` proves, for any device and any list of requests:

* `TypeCorrect`, in which `total_count` never exceeds `queueCount`, so that their
  unsigned difference does not wrap; `DeviceQueuesValidCorrect`;
  `DedicatedFamilyRightCorrect`;
* `NothingLostCorrect`, assuming `RequestsNameCapability`: a request without a
  flag would match every family in `acquire()` and none in the set-up. Both of
  the builder's default requests name one, and so do those of the run.

Assumption: `InitQueuesAssumption`, that counts are natural numbers and `Null` is
none.

Argument. The loop computes what no variable says, so the invariant `QInv`
has to say it of the requests: `Counted` is that `total_count` is the smaller of
`queueCount` and the number of acquisitions the requests so far may make of the
family. `TookRight` shows that a turn of the loop keeps this, by counting
(`OneMoreRequest`: disjoint finite sets) and by the arithmetic of two minima
(`LesserAdds`). `DescsTell` carries it to the families already counted. A plan that serves all the requests
takes from a family only what those may want of it (`PlanWithin`), so the cap at
that number loses no plan.

`BackendProofs` proves, for any numbers of Backends, windows and names:
`TypeCorrect`, `EveryObjectOwnedCorrect`, `SoleOwnerCorrect`,
`InstanceOutlivesCorrect` and `HandlesStayValidCorrect`, of which the last says
nothing of `KeptPools`: those may be freed under their handles, as section 4 says.
`ApplicationProofs` proves `AppTypeCorrect`, `OneInstanceCorrect`,
`WindowsOwnedCorrect`, `FlagReleasedCorrect` and `WindowOutlivesSurfaceCorrect`;
that the composition implements each of its parts (`CompositionCorrect`); and
from that, that what is proved of Backends alone holds in it
(`BackendsCorrect`).

Assumption: `BackendAssumption`, that `Null` is no name and no window and
`KeptPools` are names.

Argument. What the destructor of a half-made Backend destroys depends on how far
`init()` got, so `BInv` has to say it: `SelfShape` gives the attributes at each
stage (`Made`), `Left` those whose objects the destructor has not reached,
`Whole` that what `create()` returned has all of its parts from one `init()`,
`Apart` that no two Backends have parts of the same one, and `Accounted`
exactly which objects exist. The ownership properties are read off these. In the
application, `GivenShown` is what joins the two: the window `init()` works for is
shown for as long as it does.

`SwapchainBuilderProofs` proves, for any number of images, Swapchains and builds,
`TypeCorrect`, `EveryObjectOwnedCorrect`, `NoInvalidDestroyCorrect`,
`SwapchainsCompleteCorrect`, and `SwapchainsDisjointCorrect`, that no two
Swapchains share an object.

Assumption: `BuilderAssumption`, that the surface's minimum is in 1..`MaxImages` and
`Null` is neither an object nor a Swapchain.

Argument. That a fallback destroys all that was made, and nothing else, takes the
locals of `build()` before each call, `image_count` as the driver's number of
images included (`BuildSoFar`), and the parts of every Swapchain (`PlacesMade`). Two owners never have an object in common because each
object carries the name of its build and `BuildsApart` keeps the builds of the
running `build()`, of the Swapchains and of what was lost apart.

`ImediateCmdProofs` proves, for any number of objects submitted from each other's
functors to any depth, `TypeCorrect`, `DoneMeansDoneCorrect` and
`FenceAndCmdAgreeCorrect`; and, assuming `PoolCanReset`,
`MisuseOnlyAfterGivingUpCorrect` and `ResetOnlyIfAllowedCorrect`. The run
`imediate_cmd_pool_flag` shows what happens otherwise.

Assumption: `PoolCanResetAssumption`, that this is true or false.

Argument. A call is allowed or not by the states of fence and buffer, so `IInv`
has to give these before each call of `submit()` (`InSubmit`) and to tie
them to what the GPU has (`FenceAndCmdAgree`). Work of the GPU outside a
`submit()` is owed to one that gave up (`GaveUp`). Since functors nest, `pc` is
kept for each object, and the objects in `stack` and in the GPU's queue are
distinct; the lemmas on pushing to, popping from and dropping out of a sequence
without repetitions carry that part.

`HandoverProofs` proves, for any numbers of wrappers, objects and threads, any
counts, any size of elements and any width of `size_t`, every safety property of
the run `handover`: `TypeCorrect`, `SoleOwnerCorrect`, `EveryObjectOwnedCorrect`,
`HandlesExistCorrect`, `MisuseExplainedCorrect`, `InBoundsCorrect` and
`HandedOverCorrect`.

Assumptions: `WrappersAssumption` and `HandoverAssumption`, which say that the
special values are none of the others and the numbers are numbers. `InBounds`
itself excludes products that wrap.

Argument. Two inductive invariants. `WInv`: that wrappers' handles stay good
needs to know what the driver destroys along with an object, so `Family` says
that only command buffers and buffers have a parent other than the device and
that no object outlives its parent, and `Kept` that wrapper and object agree on
the parent unless the object was destroyed through an unwritten handle. The
classes' operations come down to five steps (`CreateCases`, `MoveCases`,
`DestroyCases`), and one lemma for each shows that it keeps `WInv`. `TInv`: that
no two threads are in the buffer at once, and what they find there, follows from
the semaphore's value, which is the number of the turn before that of the one
active thread and less than the number of every thread not yet done (`InTurn`,
`DataInTurn`). What joins the two is `MainKeepsShared`: the main thread can only
destroy what the threads share, by a refused `create()`, and never replace it,
because nobody is given a name that a wrapper still bears. `InBounds` follows
from the size an object of kind buffer was created with (`CopyFits`).

Only model-checked: the liveness properties `NoStrandedWaiter` and `HandoverEnds`,
for which no prover here has rules of fairness; and what is found violated.

## 6. Not modelled

* Several `create()` calls at once: `volk_init` is not guarded, and nothing in
  the code or tests suggests it may be.
* The pool's own move operations, which run before any handle exists.
* A functor that submits its own `ImediateCmd`, and loss of the device. Nothing
  in the code refuses the former.
* The builder's other setters, image formats, names, logging, version numbers.
  SDL's count of `SDL_Init()` calls.
* `Buffer::flush()` and `invalidate()`: they forward to VMA, and the memory of
  `Handover` is coherent. Elements are copied whole between threads, or in two
  parts: the order within `memcpy` is no property of the code.
* Semaphores the GPU waits for or signals. `CommandBuffer::submit()` passes the
  value 0 for all of them (`command_buffer.hpp:119`), so it is of use with
  binary semaphores only, and nothing in the library waits for those.
* `Queue::present()` and `wait_idle()`, which forward; tables, math, ANSI codes.
* `EnumFlagsWrapper`, pure operators on bits. Of them, `operator|=` of two sets of
  flags works on its parameter alone and `operator|` of two sets calls itself
  (`helpers.hpp:53-64`); neither is used anywhere in the library.

The driver, SDL, VMA, the condition variable and the GPU are external: they are
modelled by what the code relies on, with every failure they may report.
`WindowFree` in `SwapchainBuilder` is Vulkan's rule that a surface has one
swapchain at a time unless `oldSwapchain` names it, which the builder never does.

## 7. Plan

Done, in this order: queue pool with its abstract allocator and proofs; swapchain
builder; immediate commands; surface and Backend and their composition; queue
set-up; the wrappers, with buffers and timeline semaphores in use by threads;
their proofs; and the proofs of all the invariants of the other modules.

Next:

1. Proofs about what joins the modules: that what `InitQueues` ends with satisfies
   `PoolAssumption`, the assumption of the pool's theorems, and `DeviceQueuesValid`
   the driver's; what `QueueAllocator` promises by itself, so that it carries
   over by `ImplementsCorrect`.
2. Abstract specifications of what `Backend` and `SwapchainBuilder` promise
   (whole, or not at all), and that the modules implement them.
