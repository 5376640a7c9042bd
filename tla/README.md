# StarOS x86_64 in TLA+

A verification project for the StarOS x86_64 kernel: a UEFI loader, a small
capability kernel with ring-3 tasks and synchronous IPC, and the drivers it
needs to get there.  The kernel schedules on one core; the other cores are woken
and parked.

Paths below are relative to `src/crates/`.

## The system

| part | code | state | operations |
|---|---|---|---|
| scheduler | `kernel/src/sched.rs`, `arch-x86_64/src/context.rs` | task table (state, saved context, stack, address space, mailbox), `current`, `PREV`, `KERNEL_ROOT`; CR3 and the privilege stack of the core | spawn, spawn_user, start, yield, tick and IRQ epilogue, block, unblock, deliver, exit, post_switch |
| IPC endpoints | `kernel/src/ipc.rs` | per endpoint a ring of messages, a queue of blocked receivers, a queue of blocked senders with their messages | send, recv, forget_task |
| capabilities | `kernel/src/{obj,cap}.rs`, `kernel/src/usermode.rs` | object table (generation, object), a capability table per task | create, get, revoke, install, resolve; Send, Recv, Revoke |
| spin lock | `kernel/src/sync.rs`, `irq_save`/`irq_restore` of `arch-x86_64/src/cpu.rs` | `next`, `serving`, the interrupt flag | lock, drop |
| core bring-up | `kernel/src/smp.rs`, `arch-x86_64/src/trampoline.rs` | parameter block, identity mapping, ONLINE, ROLL_CALL | stage, prepare, INIT, SIPI, wait, unmap; the woken core's path |
| interrupts and time | `kernel/src/irq.rs`, `arch-x86_64/src/{pic,apic,pit,hpet}.rs` | 8259 and APIC in-service and request registers, I/O APIC redirection, the vector expected, `TICKS`, the calibrated count | init, init_apic, route, init_timer, dispatch, acknowledge, deadline_micros, start_ticking, stop_ticking, the self-tests |
| traps | `kernel/src/traps.rs`, `arch-x86_64/src/{trap,idt,gdt}.rs` | the armed page fault | dispatch, arm, resume, kill, the self-tests |
| system call entry | `arch-x86_64/src/syscall.rs`, `kernel/src/usermode.rs` | GS bases, the per-CPU kernel stack word, `TSS.rsp0`, the saved return address | entry stub, on_syscall, return by sysretq or iretq |
| kernel main | `kernel/src/main.rs` | the verdict so far | the order of everything above, completion or halt |
| boot information | `bootinfo/src/lib.rs` | the regions of memory | validate, summarise, highest_ram, largest_free_run, free_runs |
| frame pool construction | `kernel/src/{mem,heap}.rs` | the heap, the pool, the ledger of frames out | init, alloc, free |
| page tables | `paging/src/lib.rs` | trees of tables in frames | map, map_device, translate, unmap |
| address spaces | `kernel/src/{addrspace,vm}.rs` and their callers | the kernel's tree, the device window, a tree per ring-3 task, the shared clock page, frames in use | vm::init and its self-test, map_device, map_identity; new, load, map_stack, seed_id, map_clock, range_ok, destroy |
| loader | `boot-uefi/src/` | the firmware's map and its key, the loader's allocations and page tables, the kernel image | read the files, place and map segments, size and take the map, exit boot services with retries, hand off |
| program loading | `elf64/src/lib.rs` | none | parse, segments |
| ACPI tables | `acpi/src/lib.rs`, `kernel/src/acpi.rs` | none | RSDP, directory, MADT entries, HPET; discover |
| init program | `services/init/boot/image.rs` (under `src/`) | none of its own | two tasks that fault and print, a bad return address, server, client, storm senders and sink |
| console | `kernel/src/console.rs`, `boot-uefi/src/console.rs`, `arch-x86_64/src/serial.rs` | output only | |

How they interact.  Everything a ring-3 task does goes through `on_syscall`
with interrupts masked: it resolves a handle in the running task's table, the
capability's reference in the object table, and calls the endpoint, which calls
the scheduler to hand over mail, to wake a sender or to park the caller.  The
timer interrupt asks for a reschedule and the IRQ epilogue performs it.  A fault
in ring 3 and the Exit call end in `exit`, which takes the task out of the
endpoints' queues and leaves its stack and address space to whoever runs next.
The woken cores share one page with the boot processor and nothing else.  Page
tables, stacks, programs and the clock page come out of one frame pool that
does not clear what it recycles, and a space borrows the kernel's upper half by
copying root entries.

What is hard.  The scheduler's state is left half-changed across a context
switch and completed by somebody else (`PREV`, `post_switch`); IPC keeps a
blocked task's place in one table and its state in another; a capability outlives
what it names; the lock must be safe against the core's own handlers; the boot
processor and a woken core race over one parameter block; a tree built in a
recycled frame, or half built when the pool runs dry, must neither show what was
there nor lose more than its own.  Before all of that, firmware may change its
memory map between any two steps of the loader, and the map's numbers cross
three conversions on their way to the frame pool.  And while `kmain` tests one
device after the other, the devices of the test before may still have a request
pending, programs are interrupted at every instruction of the entry stub that
allows it, and each way in has its own rule for the stack it lands on, the GS
base it finds and the controller it must answer.  `PROJECT.json` lists
these at their lines under "hazards", with the properties that would notice.

## Modules

**Sched** - `sched.rs` on its one core.  The variables are the fields of `Task`
and `Scheduler` that decide anything, the `CR3` register and whose stack
`TSS.rsp0` points at.  A step is a stretch of kernel code between two context
switches or returns to the task; the window between `context_switch` and the
resumed context's `post_switch` is the phase "settle".  `ctx` says at which
`context_switch` a task is suspended, which decides what it does when resumed.
The scheduler's loop may be left and entered again, and tasks spawned in
between, as `kmain` does.  `Deliver`, `Unblock` and `Park` are constrained to
what the scheduler relies on its callers for.

**Channel** - what an endpoint promises: an unbounded FIFO channel whose
receivers are served in the order they asked.

**Ipc** - extends Sched with the endpoints: rings with head and length, the
bounded queues, one action per outcome of `send` and `recv` (deliver, buffer,
block, refuse; take, take and wake a sender, block, refuse), and the exit of a
task with `forget_task`.  It is shown to implement Channel (messages in the ring
and held by blocked senders are the channel, the mailbox is part of the
receiver) and to implement Sched, so that what Sched relies on is what Ipc does.

**Caps** - the object table, the capability tables and the three system calls
that use them, over channels as in Channel; a message is the capability it
carries.  Failing calls return an error and change nothing, so they are not
actions.  Waiting in `sys_recv` is a state, between the check of the handle and
the arrival of a message, because revocation may fall there.  Objects are
created at any time, which includes the boot-time creation the code does.

**SpinLock** - the ticket lock; each core has ordinary code and a handler that
both use the lock.  Tickets wrap.

**Smp** - one step per store or load of the parameter block, on the boot
processor and on each woken core.  `prompt` distinguishes machines on which
every message is accepted and answered in time.  APIC delivery is external.  A
fault on a woken core is a triple fault, since it has no IDT, and resets the machine
(`Reset`, `bsp` = "reset"): no core takes another step of this boot.

**Paging** - the `Mapper` as operators from memory to memory: the choice of page
size, the walk down with tables added and entries widened, `translate` with the
rights of the whole path, `unmap`.  A frame holds a table, or bytes of which only
the owner is kept.  An error stays in the memory until the caller takes it, as
`?` does.  Numbers are pages; a table has `Fan` entries instead of 512.

**AddressSpace** - extends Paging with `vm.rs`, `addrspace.rs` and the order in
which `kmain`, `irq`, `smp` and `usermode` call them.  `phase` is how far the
boot has come ("halt" when the kernel refuses its own tree, "stop" when it ends
short of ring 3); `space` holds up to `Spaces` spaces, each at a stage of
`build_space`, live, or none.  `Destroy` is the reaper's call.  `mem.asked` is
history: what each tree was asked to map, kept page by page and independent of
the tables, and it is what the tables are compared with; `leaked` is history
too.  A program is a list of segments.  What is assumed: the kernel half begins
below the last three root slots (`AddressSpaceAssumption`); RAM fits in the linear map's
slot and the screen ends within it (`MachinesAssumption`); the segments of the
embedded program are on pages of their own, away from those the kernel adds
(`ImagesAssumption`, which `services/init/boot/image.ld` sees to: `map` replaces a
mapping that is there already, so a program linked otherwise would lose frames); the page
the trampoline is copied to is memory below 1 MiB that the image does not take
(`TrampolineAssumption`).

That page may be in the pool, since nothing in the code keeps it out, and so may have been
handed out by the time `stage_trampoline` or `prepare_slot` stores into it.  On such
a machine the stores hit whatever the frame has become, and the model ends there
(`phase` = "overwritten"): a table or stack full of code has no behaviour to model.
`ResolvesAsAsked`, `Accounted` and `NothingLeftBehind` say nothing of that last
state, and hold in every state before it and on every run that does not reach it; the
stores are made on all of them.
What a core that comes late finds once the page is handed out after bring-up is not
modelled.  The machines of the runs have the page outside the pool, inside
and never reached, and inside and handed out at each point of the boot.

**AddressSpaceMC** - the machines of its run.

**MemoryMap** - the descriptors' conversion to regions (`memmap.rs`) and the
arithmetic over regions (`bootinfo`): `classify`, `convert`,
`highest_ram`, `free_runs` with its in-place splitting and its bounded output, and
the totals `summarise` keeps.  Addresses are numbers of units, eight to a page, that saturate or
overflow at `ADDR_MAX` where the code's do.

**Elf, Acpi** - the two parsers, as operators from what is read at each offset to
a result or the first error, in the order the code looks.  In Acpi that includes
the walk over the directory in `kernel/src/acpi.rs`.

**Boot** - extends them with the loader and the first half of `kmain`.  `stage` is
the next step; one action per allocation, file, segment, map reading, exit
attempt, the hand-off, `mem::init` and `discover`; every failing return is an
outcome with its reason in `why`.  `ram` is the firmware's own record of each
page and `FirmwareActs` is the other actor: it may allocate or free a page and
so make the key stale until boot services are gone.  `image` and `ktree` are what
the kernel's block holds and how it is mapped.  What is assumed of the
machines has a name each: what the firmware lists beyond its pages lies beyond them or
is empty (`ExtraAssumption`) and is not memory to give out
(`ExtraKindAssumption`); the kernel's segments are on pages of their own
(`LinkAssumption`: `arch-x86_64/linker.ld` begins and ends every section on a page);
memory ends below the top of the address space (`BootAssumption`, with the sizes of what
is loaded being numbers); the ACPI tables and their root are in memory typed
ACPI_RECLAIM or ACPI_NVS (`TablesAssumption`: what UEFI prescribes and `kernel/acpi.rs` line 79
counts on); and a screen, which the firmware reports outside its map, lies within one
gigabyte (`ScreenAssumption`: apertures are aligned to their size; `boot.rs` line 204 asks
only whether the screen begins beyond the map, and would leave the end of one that began
inside and ended outside unmapped).  `AllocatePages` never
gives page 0, which `BootInfo` reads as "none".  **BootMC** has its machines.

**Timers** - the arithmetic of the HPET, of the calibration and of the deadlines,
and the two halves of a redirection entry as the register holds them.

**Entry** - every way into the kernel on the boot core and back.  A context is the
boot context or a task, `pc` says where it stands (the header lists the places).
`hw` is the timer chips and both controllers, with edges, requests and in-service
bits; `cpu` is the interrupt flag, the GS base, the stack words and who is
current; `irq` is `irq.rs`'s statics; `armed` the expected page fault.  Interrupts
may arrive wherever the flag allows; `landed` records the stack an entry from
ring 3 used.  The programs are short lists of operations, one per system call,
wait or fault of `image.rs`; the endpoints are rings with parked tasks.

Of what firmware leaves, the following is assumed.  The 8259s are open on
the exception vectors and the 8254 runs or not.  The I/O APIC's entries are all masked with stale
destinations (`left` is 0), or all live, to this core, on a vector of the firmware's
(`FirmwareEntry`).  Such a vector is one of 32 to 254 (`FirmwareVectors`), delivered fixed and
by edge: an entry that names an exception's vector would call that handler, and the kernel has no
defence against it before `mask_all`; a line left on a level would raise its request again
until it is masked.  The local APIC is not software-enabled at the hand-off, so that nothing
is latched in it before `init_apic` enables it; between that and `mask_all` (an action
of its own) a live entry latches requests, and these are still pending when interrupts open.
What the kernel does with such a request depends on the vector: nothing but an acknowledgement,
or, for the vector it expects ticks on, a tick.  A self-test therefore must ask for more than
one tick (`EntryConstants`; the code asks for 8 and for 100).  One tick too many is one
percent of the timer's test, inside its two of tolerance; at the scale of the run, where
the test counts 4, it would not be, so no machine there combines vector 49 left live with
a redirection entry beyond the I/O APIC's.

**BringUp** - extends Entry with `kmain` on the boot context, from `traps::init` to
the last line: arming, touching and checking each expected fault, each device
and its self-test, then the four runs of tasks (`sched`, `user`, `nc`, `ipc`).
**BringUpMC** has its machines.

**IpcProofs, CapsProofs, SpinLockProofs, SmpProofs, AddressSpaceProofs,
BootProofs, BringUpProofs** - the theorems about the module each extends; IpcProofs has
the scheduler's too.  **TreeProofs** - what page tables are and what the operations of
Paging and AddressSpace do to them, the lemmas under AddressSpaceProofs.

## Runs

| run | what it shows | bounds |
|---|---|---|
| `sched` | The running task is the one called current, on its own stack and in its own live tree; the dead are buried by their successor, from outside; receivers wake with mail; no panic; round robin; no starvation | 4 tasks, 1 message |
| `sched_privilege_stack` (violation) | After the last exit the privilege stack points into a freed stack | 2 tasks |
| `ipc` | Queues agree with the scheduler, nobody waits for what is there, FIFO, and only what the scheduler allows; mail is read | 3 tasks, 1 endpoint, ring 2, queues 2, 2 messages |
| `caps` | References resolve to their own object until revoked; delegation only copies; handles are stable; no task sends or waits without a live right of its own | 2 tasks, 2 endpoints, 3 objects in 2 slots, 2 handles, 1 message in transit |
| `spinlock` | Mutual exclusion across cores and levels, no self-deadlock, interrupt state restored, FIFO service, everyone served | 3 cores, tickets modulo 4 |
| `smp` | The boot processor never waits for good: bring-up ends, or a triple fault resets the machine; no more cores reported than came up; own stacks | 3 cores |
| `addrspace` | Trees resolve every page to what was asked; frames are counted, never shared, and lost only by builds that fail; ring 3 reaches only its own, cleared pages; nothing writable and executable, or in the lower half, outlives bring-up; `range_ok` is exact | 4 levels of 4 entries, 44 frames, 2 spaces, pools of 1 to 38 frames |
| `addrspace_trampoline` (violation) | The trampoline's page may be in the pool and handed out when the trampoline is copied there | as above |
| `boot` | The hand-off tells the truth about every page; heap and pool are free memory, all of it, disjoint, and reachable; the kernel is entered as linked; the region array is never too small; a sound MADT is found and its entries are read as written; `free_runs` is exact; the boot ends | 36 pages of 8 units, 68 machines, 3 exit attempts, 12 regions, 2 free runs |
| `bringup` | A self-test fails only for a cause and passes only if true; interrupts are acknowledged before anything else runs; once the kernel has the I/O APIC no route is live as firmware left it or half-written; GS and stacks are right on every entry; the kernel never faults; ring 3's clock agrees; rates and deadlines are sound; bring-up ends | 15 machines, 2 kernel threads, casts of up to 3 programs, ring 2, 5 ticks |
| `smp_roll_call` (violation) | A prompt core may enter with the next core's id | 2 cores |
| `smp_unmap` (violation) | The page may be unmapped under a core | 2 cores |

Several properties are conjunctions of named parts, each with its own statement
in the module: `SchedInv` of the scheduler's invariants, the type invariant among
them; `InterruptDiscipline` (`NoSelfDeadlock`, `InterruptsAsFound`); `OnlyItsOwn`
(`ReachesItsOwn`, `NoForeignBytes`, `RangesExact`); in `boot`, `MapHandedOver`
(`HandsOverTheTruth`, `ConversionFits`), `FreeMemoryExact` (`OwnsOnlyFree`,
`NothingLost`, `FreeRunsExact`), `AllWithinReach` (`WithinReach`,
`ScreenWithinReach`), `TablesAsWritten` (`MadtFound`, `CpusAsListed`); in
`bringup`, `VerdictsTrue` (`FailsOnlyForCause`, `PassesOnlyIfTrue`),
`EntersAsItself` (`GsAtHome`, `LandsOnOwnStack`), `FaultsOnlyOnPurpose`
(`KernelNeverFaults`, `ArmedOnlyInItsTest`), `TimeIsTold` (`RateMeasured`,
`DeadlineSound`, `ClockInStep`).

Why the bounds suffice.  Four tasks let one run, one be dying, one be ready
nearer and one further; three tasks on an endpoint give two waiters and one that
serves them or finds the queue of two full; a ring of two wraps while full (several endpoints
are left to the theorems, which hold for any set of them); three
objects over two slots force a slot to be reused while references to its former
object are held; tickets modulo (cores + 1) is the tightest width the
assumption allows, so every wrap happens; with a pool of every size each allocation of the boot and of
two builds is somewhere the one that fails, and four-entry tables still have
large and giant pages, shared and separate intermediate tables and a kernel half.
In `boot`, memory has a hole and several stretches of free pages with the firmware's own
and the tables between them, so runs are split, truncated and excluded in the
middle; the machines
differ from an ordinary one in one thing each (allocation order, descriptors
split, listed downwards, empty or at the top of the address space; a map that
changes at each reading; an exit that always fails; a screen that is absent,
far up or too narrow; every kernel file the parser or the loader refuses; each
defect of a table), and the limits (3 CPUs, 2 runs, 12 regions, 3 attempts) are each
exceeded by one of them.  In `bringup` the scale is changed and not the shape:
a nanosecond is 10 fs, a second 10 000 ns, the calibration 200 ns, the timer
100 Hz, and a 32-bit counter wraps at 2048, so that on the machine `Narrow` it
wraps inside the calibration and inside the timer's test; `Busy` loses ticks and
has the other value of everything firmware may choose; thirteen machines lack or
break one thing each.  Counting ticks stops at 5, beyond the 2 a thread waits
for; the storm is two senders and three messages into a ring of two, so both
the ring and the sink's wait are exercised.
Deadlock is not checked where the
system really stops: a parked or refused system of capabilities, bring-up
when it is done, and a boot that halts, ends short of ring 3 or is complete.

Fairness.  `Sched`: kernel code between two switches runs to its end, `kmain`
calls `start`, and the timer ticks while a task runs, hence weak fairness of the
kernel's own steps and of `Preempt`.  Nothing is assumed of tasks.  `SpinLock`:
a core finishes what it has begun between taking a ticket and restoring
interrupts, which is kernel code with interrupts off; nobody is obliged to take
the lock.  `Smp`: the boot processor keeps executing, and, on a prompt machine,
so does a woken core.  `Boot`: weak fairness of a step of the loader or the
kernel that advances `stage` or `seg`; firmware may act any number of times in
between and is not obliged to.  `BringUp`: the code of the boot context and of
tasks runs although interrupts disable and re-enable those actions again and
again (strong fairness; the timer is far slower than the CPU); a request that
stands is delivered although others are withdrawn meanwhile (strong fairness of
`PicInterrupt` and `ApicInterrupt`); a running timer expires, and the code
between an interrupt and the next context runs to its end (weak fairness of
`PitEdge`, `LapicTick`, `SwitchStep`).  Spurious interrupts have no fairness.

## Findings

Four comments say something the code does not do; each has its run.
`exit`'s reason for installing no privilege stack does not hold (harmless: ring
0 does not use it and the next switch replaces it).  The acknowledgement of a
woken core is stored before the core has read its id, and from the page that is
about to be unmapped, so neither the roll call's nor the unmapping's argument
holds; nor is a core that did not answer in time known to be stopped.
The trampoline's page is called one "which the memory map marks reserved and the frame pool
therefore never hands out" (`smp.rs:128-130`; lines 44-49 count on it too), but
`mem::init` excludes only the kernel, the memory map, `BootInfo` and the
initramfs (`mem.rs:156-161`), and firmware commonly lists 0x8000 as conventional.  Whether
the page has been handed out by then depends on where the pool begins; if it has, the copy
lands on a table of the kernel's tree, a program's page or a stack.

Two more comments describe what cannot happen.  A property that passes
shows it, so neither has a run of its own:

- `sched.rs:357-362`, `844-846` and `933-939`, and `ipc.rs:199-204` and `475-478`,
  provide for a task that dies while parked on an endpoint, and for `DIED_BLOCKED` being
  more than zero.  A task is killed only by its own exit or its own fault, and on one
  core the task that does either is the one running, which stands in no queue
  (`QueuedIffParked`, and `WaitersAreParked` for any number of tasks): `forget_task` finds
  nothing and `DIED_BLOCKED` stays zero.  A second scheduling core or a way to
  kill another task would change that.
- `smp.rs:201-204` says that "a core that never answers leaves the boot processor waiting".
  `wait_for_ack` gives up after 200 ms (`smp.rs:317-335`) and each message after 10: with
  or without an answer `start_cores` returns, which is `BringUpEnds` in `smp`.  The same
  comment's triple fault, which "resets the machine", is the other way bring-up can end there.

Met while modelling, and left as they are (the models do the same):

- `deadline_micros` subtracts time stamps that restart from zero when a 32-bit
  HPET counter wraps (`irq.rs:190`): a deadline cut within its span of the wrap
  fires late.  `DeadlineSound` states what does hold.
- `init_timer`'s error "HPET counter is not advancing" is not reached: `spin_ns`
  waits for the same counter first (`irq.rs:786`).  And without a calibrated
  timer `selftest_noncanonical` ignores `start_ticking`'s error and runs the tasks
  earlier runs left behind, which wait for ticks (`usermode.rs:1132`).
  `BringUpEnds` excludes exactly these two waits (`WaitsForAClock`).
- The 8254 raises one more edge when it is stopped, and a tick may still be
  pending when the expected vector changes; both must be acknowledged though
  nobody asked for them, and are.
- `TICKS` is reset by the self-tests, before any program can have read it.
- `sys_recv` has consumed its message when the receiver's table turns out not to
  grow: message and capability are lost, and the sender was told it succeeded
  (`usermode.rs:557`; `RecvTake` does the same).  A task parked on an endpoint
  whose object is revoked is never woken (`usermode.rs:570`); `describe` reports
  such tasks at the end of a run.
- The RSDP parser refuses revision 2 with a length other than 36; the ELF parser
  does not ask that the entry point lie in a segment; the buffer of the first
  reading of the memory map has no slack for the descriptors its own allocation
  adds, and such a boot ends with a message.

## Proofs

Everything below holds for every value of the constants that satisfies the
ASSUMEs, which TLC evaluates on every run.

*Sched.*  `SchedAll`, the inductive invariant, is the conjunction of the checked invariants
(`SchedInv`, `OnItsOwnStackAndTree`, `BuriedBySuccessor`); in `SchedInv` are two that only help: `SlotBookkeeping` (what a slot of each state owns) and
`PhaseBookkeeping` (what each phase has yet to settle).  None of the checked
invariants is inductive alone: that a dead task is buried by its successor needs
that `PREV` is empty outside "settle"; that the core is in a live tree needs
that `tcr3` of a task with a space is its own tree and that the bootstrap
context is back in the kernel's.  `SchedInductive` takes the actions one by one;
`RunsOnItsOwnStackAndTree`, `DeadAreBuried`, `NeverPanics`, `SchedTypeOK` follow,
and the action properties `SwitchesAreRoundRobin` and `TreesTornDownFromOutside`
from the invariant in the first state of the step.

*Ipc.*  The invariant adds to `SchedAll` that the queues contain exactly the
parked tasks, once each, and `NoIdleWait`.  The work is in the queue lemmas:
appending a task that stands nowhere, and removing the head, keep "at most once"
and change who stands in a queue by exactly that task.  `remove_waiter` of a
running task is shown to change nothing.  `IpcImplementsSched` maps every step
to a step of the scheduler; the guards of `Deliver` and `Unblock` come from
`QueuedIffParked`.

`IpcImplementsChannel` maps every step to a step of Channel or to none.  The
channel is the ring's contents followed by what blocked senders hold; the lemmas
say what each operation on the ring, head and length modulo its capacity, does to
that concatenation: taking from the ring and moving the first sender's message
in behind leaves the tail, whether or not the ring wraps.

*Caps.*  The invariant relates the object table to the history of objects: for
each slot at most one living object, whose reference carries the slot's
generation, and every dead object's generation is below it.  It needs
`GenerationAssumption`: fewer objects than generations, since with a wrapping
counter an old reference does resolve again.  `CapsTypeOK`, `RevocationIsFinal`,
`DelegationOnlyCopies` and the action properties `HandlesAreStable` and
`TrafficNeedsAuthority` follow.  The last names the sender: a step that leaves a message is
a `sys_send` of some task, and that task, not another, holds the right.

*SpinLock*, for any finite set of cores and any ticket width above their number.
`LockInv` says that as many tickets are out as there are cores that want the
lock, no two alike and all between `serving` and `next`, that the holder has the one
that is served, that only one level of a core uses the lock, and that interrupts are
off from `irq_save` to `irq_restore`.
Mutual exclusion alone is not inductive: a core may enter when its ticket comes
up, and that nobody else is inside is known only because no ticket is out
twice, which is where the width matters.  `LockExcludes`, `LockMasks` and the
action property `LockIsFair` follow; the arithmetic is in a few lemmas on
distances modulo the width.

*Smp*, for any number of cores.  `SmpInv`: every answer counted, or still to be
counted (`Pending`), is of a different core that has stored it; ONLINE counts
the parked; and, if cores answer in time, those behind the one being woken have
answered, those ahead of it are off, and the block holds its stack.  `SmpCountsAnswers` needs no
promptness, `SmpOwnStacks` is about prompt machines as `OwnStack` is.

*AddressSpace*, for every machine, size of tables and number of spaces: `TreesResolveAsAsked`, `NothingIsLeftBehind`, `ReachesOnlyItsOwn` and
`FramesAreAccounted` are the four properties of its run.
None of them is inductive.  That a page resolves to what was asked says nothing
of two entries that lead to one table; that the pool and the trees are
disjoint says nothing of a frame that was taken and is in no tree yet.  `IInv` says who owns
what: there is an owner `o` that gives each frame the root of its tree, its level
and the block of addresses it serves, such that (`Shape`) no two tables of a tree
serve the same block at the same level, each hangs in a present entry of the table
above it, each entry of a table leads to the next level of the same tree or is a
leaf that maps the block as asked, and the upper half of a root is the kernel's.
From the shape alone: a walk resolves to what was asked (`Resolves`, level by
level), reaches the tables of its tree and no others (`TablesWithin`,
`TablesReached`), and `free_level` frees each frame of a tree but the root and the
clock, each once (`FreedEntry`, `FreedAll`).  `Account` adds that the pool, the owned
frames, and the stacks, clock and lost frames (`Nowhere`) make up the pool's frames,
and that IN_USE and the pool add up; `Fine` says of each space what bytes its pages
hold, that nothing of it is writable and executable, and that the pages it has yet to be
given are vacant; `Upper` what the kernel's tree was asked for.

The argument goes by operation, not by action: each lemma takes an owner of the memory
before and gives one of the memory after.  `map_as` is three of them: a table
added on the way is owned by the tree that wanted it (`PathComes`), a leaf put at its
level maps its whole block as asked, and the rounds of the loop add up to the range
(with the induction below).  `unmap` and `destroy` take frames away from their owner;
a build that fails makes the frames of its tree nobody's.  Then a lemma per action
(`VmStep` to `DestroyStep`), and `StepHolds` puts them together.  `range_ok` is exact
(`RangesAreExact`) by the arithmetic of quotients, for every pointer and length and not
only those TLC tries.  The trampoline's stores
keep the invariant while the page is in nobody's hands, since it is then in no tree, and
otherwise end the run; the proof goes through every state before.
Of the assumptions, `ImagesAssumption` is needed for `FramesAreAccounted`
alone: the other three theorems hold for a program whose segments overlap too.

*BringUp*, for every set of machines and programs.  `BringUpInv` has five layers, each
inductive with the ones before it: `Wired` (what the registers of controllers
and timers can hold, and what a redirection entry says while it is live),
`Control` (where the boot context and every task stand, who has the CPU, who
waits on which endpoint), `Home` (the GS base, and `TSS.rsp0` and the stack word
of whoever is current), `Served` (in-service bits, the armed fault
and the clock page against where control is) and `Judging` (what each self-test
has counted, and what is still to come).  None of the run's properties is
inductive alone: an entry lands on the right stack only if every switch before it
had put both words right, and a test's count is its own only if nothing of an
earlier test is pending that its vector would accept.  In the I/O APIC's
test that is one request that firmware's routing may have left; it is counted once at
most (`AtMostOnce`), and once is not enough.  `RoutingIsAsAsked`,
`EntryIsAsItself`, `InterruptsAreAcknowledged` and `FaultsAreOnPurpose` are four of the
run's properties; `ClockKeepsStep` is one of three parts of `TimeIsTold`, `PassesAreEarned` one
of two parts of `VerdictsTrue`, and `FailuresHaveCause` covers of the other part
the verdicts of the fault, SMAP, 8259 and APIC tests.

*Boot*, for every machine, size and number of pages.  `MapInv`: until boot
services are gone, the map taken last is true of `ram` or its key is stale; the region
array has a place for every descriptor that fits in the map's buffer.  "True"
(`MapIsTrue`) says that every page that is not a hole is in exactly one
descriptor, of its type, and no hole in any.  Two lemmas carry it:
`FirmwareIsTrue`, that a map listed by runs or page by page, upwards or
downwards, is true; and `ConvertTells`, that the conversion, which merges
neighbours of one kind and saturates, tells the same of every page and makes no
more regions than descriptors.  `KernelInv`: segments before `seg` are laid out as linked,
segments from `seg` on are still blank, and the block is as large as `load_span`
says.  That a segment placed later disturbs none placed before needs
`LinkAssumption`; that its bytes fit in the block needs that the span's end is
rounded up and its base is `KERNEL_VMA`.  `MapIsHandedOver` and
`KernelIsEnteredAsLinked` are the theorems.

`MemoryIsOwnedExactly` needs three layers more.  `PlacesInv`: what the loader allocated and
still uses is distinct, and LOADER_DATA in `ram`.  `HandedInv`: `BootInfo` says where the
things placed are, and the regions are whole pages.  `LayoutInv`: which usable regions
`mem::init` gave to the heap and to the pool.  The argument in `mem::init`'s order: what
it excludes (the kernel's block, the regions, the `BootInfo`, and the initramfs if there is
one) cuts no usable region, since all of it is LOADER_DATA (`ExclusionsSpared`);
so the runs `free_runs` writes are whole usable regions, each once, until its buffer is
full (`TakenRegions`); the heap gets one of them and the pool the rest, so the pages of
the two are apart and are the pages of the regions taken (`HeapAndPool`); the
totals `summarise` keeps count the pages of the usable regions (`UsableBytes`);
and the difference the kernel prints is the regions that found no room
(`OnlyReportedIsLost`), counted by bijections between intervals.  `FreeRunsHold` says
what `free_runs` gives for exclusions anywhere, not only those of `mem::init`.

`EverythingIsInReach` adds `ReachInv`: from the time the linear map is sized it holds every
page that is memory and, from the time the maps are built, the screen; and
the pages the firmware typed as ACPI's have that type still.  The address `highest_ram_address`
gives for a true map is above all memory, and rounded up to a gigabyte stays so or is the top
of the address space (`HighestReaches`, `MappedReaches`).  The pages change hands
between that probe and the kernel's entry, and the map read at the probe is stale by then:
but what steps take and give back is conventional, boot-services and loader memory only, and
all three are memory (`RamKept`, `KeptPages`), so the map built from the stale
reading still covers what the last one lists.  A screen that begins inside the map ends inside
it, since the map ends on a gigabyte (`ScreenReached`).  The kernel's own map is sized by
`summarise` of the regions it was handed, which `HandedInv` ties to the last reading
(`KernelReaches`).

`GetMemoryMap`, `convert`, `summarise` and `free_runs` are folds over sequences.  The library's
induction theorems cannot be used, since they take an operator; but that the order on Nat is
well founded can, and gives that a set of naturals has a least element, hence that a
set that contains 0 and the successor of each of its members up to n contains n
(`UpToBound`).  The sets are written down, so no operator is passed.  With it a fold is shown
to exist and is then unrolled a step at a time (`ReportSteps`, `ConversionSteps`).

With TLC only:

- liveness (`ReadyRuns`, `MailIsRead`, `Served`, `BringUpEnds`, `BootEnds` and the end of
  core bring-up): the proof system does not do fairness or ENABLED;
- `VerdictsTrue` and `TimeIsTold` as wholes: the causes of a failed clock or
  timer test, `RateMeasured` and `DeadlineSound` are products and quotients of
  constants, beyond the arithmetic of the provers, and depend on a period of the
  HPET of a nanosecond or more; that the message test fails only for a cause
  needs the protocol of the programs to make progress;
- of `Boot`: `TablesAsWritten`, which compares the parsers with what the tables of the machines
  were meant to say: the walk over the MADT
  is a recursive function that advances by lengths the table itself gives;
- of `AddressSpace`, the inductive invariant itself: it says that there is an
  owner, a function from frames that TLC would have to search for, so the run checks
  what follows from it.

## What is not modelled

In the modelled parts: TLB invalidation and memory ordering weaker than
sequential; the bytes of messages and segments; how the external `staros_mm`
chooses a frame (the lowest is taken, so that frames are recycled soonest);
misaligned mapping requests, which no caller makes.  A failed build or spawn
loses the frames of its space, because `AddressSpace` is a plain value without a
destructor: the model does the same, and `Accounted` shows the loss is exactly
those frames.  `start_cores` returns without removing the trampoline's mapping
if the second window onto the local APIC cannot be mapped; the window's tables
exist by then and the window is not full, so no run gets there.

In `Boot`: the contents of files beyond what the parsers read, the screen's
pixels, a screen that straddles the end of the linear map, and `mem::selftest`,
which allocates and frees what `AddressSpace` follows frame by frame.  The MCFG
parser has no caller.

In `BringUp`: `smp::start_cores`, which is Smp's; which ready task a switch picks,
which is Sched's; the copying of messages through user pointers and the window
in which supervisor access to them is open; a call number nothing answers; the
counters by which the self-tests' verdicts also go (preemptions, alternations,
messages sent and received, frames in use), which are the matter of Sched, Ipc
and AddressSpace; the double fault at the very end.

Not at all: the console and the panic screen, which are output only; the global
allocator, which wraps an external one; the build scripts.

## Plan

Done, in this order: Sched, Channel and Ipc, Caps, SpinLock, Smp, Paging and
AddressSpace, with the proofs of the first three components; then Boot with
MemoryMap, Elf and Acpi, and BringUp with Timers and Entry.

Theorems, in the order they were proved: Sched, Ipc implements Sched, Caps; SpinLock,
Smp, the rest of Caps, Ipc implements Channel, BringUp, and of Boot the map and the
kernel's block; AddressSpace; what the kernel of Boot owns, and what it reaches.

What remains:

1. *Timers*: lemmas of `ns_to_ticks` and the deadlines for the periods the code
   accepts.
2. *Acpi*: `TablesAsWritten`, with the walk over the MADT unrolled as the folds of `MemoryMap` are.
