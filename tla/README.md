# Secpoline: TLA+ models and proofs

Secpoline interposes the system calls of a program from inside its process and
keeps monitor and application apart with memory protection keys.  This
directory models its concurrent core, its transitions between application and
monitor, its page and descriptor tables and its loader's allocator in TLA+,
checks them with TLC on small instances, and proves two of the protocols with
TLAPS for any number of threads, pages and descriptors.

## The system

| Part | Source | State | Operations |
|---|---|---|---|
| SIGSEGV handler and breakpoint sessions | `segfault_handler/segfault_handler.cpp` | `thread_synchronizer`, two spin locks, the list of active threads, `unsafe_page` entries | faults, kill signals, controller and follower side of a session, registration and removal of threads |
| Breakpoint lists | `segfault_handler/hardware_breakpoints.cpp` | one page list per thread, a global copy, the kernel's breakpoint registers | place a page, evict the oldest page, close all |
| Page manager | `syscall_monitor/virt_page_manager.cpp` | a list of page groups with owner and permission, a free list | add, remove, mprotect, resize, look up |
| Virtualised mappings | `syscall_handlers/virtualize_maps.cpp`, `meta_monitor.cpp` | the page manager and the kernel's mappings | mmap, munmap, mprotect, mremap, scan of executable mappings |
| Unsafe instruction scan | `syscall_monitor/erim.cpp` | list of unsafe pages | scan a region, add and update an entry |
| Dispatch | `secpoline.cpp`, `syscall_grouping.h` | table of handlers per system call | build the table, run the handlers of a call |
| Files | `syscall_handlers/virtualize_files.cpp` | bitmap of the application's descriptors and its lock | prehandlers, open, close, pipe, marking |
| Signals | `syscall_monitor/vIrTuAlIzE_sIgNaLs.cpp` | table of application handlers, masks | sigaction, delivery, sigreturn |
| SUD and rewriting | `syscall_monitor/sud.cpp`, `zpoline.cpp` | per-thread selector, sigreturn stack, code pages | SIGSYS, rewrite of a syscall instruction |
| Threads | `syscall_monitor/setup_new_thread.cpp`, `virtualize_threads.cpp` | per-thread region, fake clone flag | set up, tear down, clone, vfork |
| Entry points | `*.asm` | registers, stacks, `GSRelativeData` | entry and return of calls and signals |
| Loader | `secpoline_loader/` | heap of `ld_malloc.c` | ELF loading, malloc, realloc, free |

The parts meet in these places.  A fault on a page with unsafe instructions
starts a *session* that needs every thread of the process.  A session may evict
another page and then uses the page manager, which system calls of other
threads use at the same time.  Threads join and leave the process at any
moment, and join and leave the sessions with it.  The entry points carry every
system call and signal from the application to the other parts and back.  The
monitor opens descriptors of its own (one per breakpoint) in the table whose
other numbers the application's calls open and close.

What is hard to get right there: signals that arrive anywhere, including inside
a lock; two counting phases that reuse one counter; a list that is copied while
it can change; spin locks taken with all signals masked; a mark that is read in
one handler and relied upon in the next.  `PROJECT.json` lists
each hazard at its line.

## Modules

* `BreakpointSync.tla` - the SIGSEGV handler and the breakpoint sessions.
* `MCBreakpointSync.tla` - its instances for TLC.
* `BreakpointSyncProofs.tla` - type correctness of every step.
* `BreakpointPhaseProofs.tla` - the two-phase protocol and its theorems.
* `BreakpointListProofs.tla` - the invariant of the page lists, and every step on
  the lists themselves.
* `BreakpointGuardProofs.tla` - the breakpoints in the kernel, the permissions of
  the pages, and the theorems about lists, breakpoints and executable pages.
* `VirtPages.tla` - the page manager's algorithms on its list of page groups.
* `ScanGroups.tla` - the loops that turn the scan of a mapping into groups.
* `VirtualMaps.tla` - the memory system calls on top of both and the kernel.
* `PageMap.tla` - the abstract map that the list implements.
* `MCVirtualMaps.tla` - instances of VirtualMaps for TLC.
* `ThreadState.tla` - one thread in the assembly between application and monitor.
* `MCThreadState.tla` - its instance for TLC.
* `SyscallTable.tla` - the table of handlers as the program builds it.
* `FdTable.tla` - the application's and the monitor's file descriptors.
* `MCFdTable.tla` - both for TLC, with the property of the table.
* `FdTableInvariant.tla` - the inductive invariant of FdTable and the lemmas on
  how a step moves a thread.
* `FdTableCalls.tla` - the steps of open and of the calls without a handler of
  their own.
* `FdTableMarks.tla` - the steps of marking and of close.
* `FdTableProofs.tla` - the prehandlers, and the theorems about FdTable.
* `LdMalloc.tla` - the loader's allocator.
* `MCLdMalloc.tla` - its instance for TLC.

### BreakpointSync

`pc[t]` says where a thread is.  Labels `segv`, `same_page`, `try_lock`, `lock`,
`kill` are places in `signal_handler_switch`, `handler` and `make_exec` in
`secpoline_segfault_handler`, `c_*` in `add_breakpoint_wrapper`, `f_*` in
`other_thread_add_breakpoint_wrapper`, `n_*` and `x_*` in the registration and
removal of a thread in `update_active_thread_list`, `pm` in a system call that
holds `page_manager.lock`.  `ctx`, `cont`, `pg` and `arg` are the thread's stack:
what a signal interrupted, where the follower function returns, the faulting
page and the page being placed.

Every load or store of a shared atomic is a step.  A critical section of
`waiting_thread_count_mutex` is one step, and a spin loop is a step that waits for
its exit condition.  `tgkill` to all threads is one step, since each delivery is
a later step of its receiver.  A failed `nolibc_assert` or a null dereference
stops the process: `Failure(t)` says which one fails at a thread's place and
`crash` records it.

Data is abstracted to what the properties need: a page is a model value with the
number of its unsafe instructions (`Need`), a permission is R, RW or X, and the
result of a scan is a nondeterministic choice.  `prot` is what the kernel
enforces, `current_perm` what the monitor has recorded.  `watched[t]` is a
thread's `hbreakpoint_controller`: its page list and `used_breakpoints`, the count by
which the code decides what fits.  `placed[t]` and `events[t]` are what is open in
the kernel, per page and in total; `perf_event_open` fails on the latter.
`Munmap` and `Mmap` change the mapping of a page under the lists.

The constants select the environment: which threads exist from the start, which
may exit, which call the page manager, which pages are mapped W+X and which are
unmapped and mapped again.

### VirtPages, ScanGroups, VirtualMaps

`VirtPages` has one operator per `*_locked` function of the page manager: the
linked list is a sequence of groups, the result is the new list and the return
value, or the place where the process stops.  `ScanGroups` folds the loop of
`scan_exec_mapping` over the pages of a mapping.  Both are used by the actions
of `VirtualMaps`, whose state is the list (`pages`), the length of its free list,
the entries of `unsafe_pages`, `mmap_lock`, the kernel's key and protection per
page (`kern`) and the call each thread is in.

A call is cut into steps where the code calls the page manager (under its lock)
or the kernel: `Mmap`, `MmapKernel`, `MmapAdd`, `MmapTag`; `Munmap`,
`MunmapKernel`; `Mprotect`, `MprotectKernel`, `ScanProtect`, `MprotectUpdate`;
`Mremap...`.  The handlers of `main_monitor.cpp` (compartment 1) and
`meta_monitor.cpp` (compartment 0) share these actions.  They differ in an
ignored result (`MprotectUpdate`) and in that the monitor makes its mremap, and
the mprotect to executable pages, with the selector at BLOCK: such a call comes
back to `meta_monitor`, which starts it again, and the model stops there
(`crash = "reentry"`).  The other values of `crash` are "assert", "ud2" and "null"
at the places where the code stops, "neighbour" (below), and "nomem" when the
kernel has no room left in the middle of a call, which the small address space
makes common and which no property counts as an error.

The kernel may refuse munmap and mprotect also where the range is mapped, and a
refused mprotect may have changed the first pages of the range.  The code takes
the pages off the list before munmap and does not look at the result, records a
protection whatever mprotect answered (unless executable pages were asked for),
and gives up an mremap after it has made the pages read only.  All of these are
steps (`MunmapKernel`, `MprotectRefused`, `MremapError`).  The history variable
`torn` holds the pages on which they leave list and kernel apart; `MaxTorn` bounds
how many there are at a time.  What refused calls that the code asserts against
would do is a failed assertion whatever the state, and left out.

What a scan finds is a choice of pages (`Scans`).  It also reads the last bytes of
the page before the range and the first ones of the page behind it, whoever owns
them, and protects such a page in the kernel when it finds something
(`ScanBefore`, `ScanAfter`).  The protection is the one recorded for the page
behind the scanned one, if that is on the list, without execution.  The call is
made as that page's compartment: as the application it goes to the kernel only,
as the monitor it comes to `meta_monitor`, which also records it, or fails its
assertion if the changed page is not the monitor's ("neighbour").  A page inside the
range that begins with an unsafe instruction gets an entry only; the protection
that it has for a moment is overwritten with that of its group.

The kernel picks any free address.  Start addresses are page aligned, other ones
fail an assertion at once.  The lowest and the highest mapping, the trampoline
page and the stack, stay in place.  Left out: PROT_NONE, huge pages,
`pkey_mprotect` by the monitor outside these calls, a kernel that fails a mmap
with MAP_FIXED after it has removed the old mapping, and what happens to a
pointer into the list after the list's lock is released.

`PageMap` says what the list is for: a map from bytes to owner and protection in
which a call changes one range, in one way, and only where the range is free or
its own.  The refinement mapping looks each byte up in the list.

### ThreadState

One thread.  `cpu` is its place, stack pointer, TLS base, PKRU and the registers
that carry such values; `gs` its `GSRelativeData` (selector, compartment, the parked
stack pointer and TLS base, the size of the alternate stack, the top of the
sigreturn stack); `mem` what lies on the two stacks and on the sigreturn stack;
`kern` the alternate stack and the dispositions the kernel knows; `hand` the table
of application handlers and its lock `mut`.  An action is an instruction that
changes one of these, or a run of instructions between two that do.  A label
names the routine and a number: `boot` `jump_back_to_loader`, `hook`
`syscall_hook_entry`, `ash` `exit` `clone` `child` the entry, exit and clone paths of
`asm_syscall_hook`, `unt` and `meta` the two routines of `asm_syscall.asm`, `hs`
`handle_sigsys` and its return, `sig` `asm_signal_entry`, `sw`
`signal_handler_switch`, `wrap` `inv` `sa` the three functions of
`vIrTuAlIzE_sIgNaLs.cpp`, `cah` and `back` `call_app_handler` before and after the
handler, `push` and `tr` the set-up and the body of `restore_selector_trampoline`.
A stack pointer is a stack and a depth; a write destroys what lies deeper, so a
frame that the kernel puts in the wrong place is seen by whoever pops next.
`snaps` is a history of what each signal interrupted, which `Resumes` reads.

After a handler that interrupted the application, `wrap_signal_handler` copies the
context back that the handler may have changed.  `WrapReturn` lets it name another
address and stack pointer of the application, and `snaps` follows: `Resumes` then
says that the thread goes on where the handler wanted.  Two kinds of changed
contexts are left out.  One sends the thread elsewhere while the selector is open,
between a SIGSYS and `syscall_hook_entry` (`Redirects`); the other gives it a stack
pointer into the monitor's memory, a case that the TODO at
`restore_selector_trampoline.asm:13` leaves open.

`HandleAppSigaction` has registrations with a new action: a handler, with or without
SA_RESETHAND, and SIG_DFL.  Left out: a call with a null action and the branch for
SIGSYS, which change neither table; SIG_IGN, which changes both like SIG_DFL; and
errors of the kernel's sigaction.

Left out: the other registers and xsave, masks of single signals, the vfork path that
`asm_syscall_hook.asm:423` calls unused, and the contents of the application's memory.

### SyscallTable, FdTable

`SyscallTable` registers the handlers in the order of `initialise_syscall_handlers`
with `add_handler`, and flattens the table like `generate_2d_handler_list`.  `FdTable` runs the lists of eight calls: a thread is at
step `pc` of handler `i` of its call, and threads interleave between the handlers
and inside them wherever the bitmap's lock is not held.  `owner` is the kernel's
table: a descriptor is free, the application's, the monitor's or /proc/self/mem;
the kernel gives the lowest free number.  `Faults` names four things that the
environment may do.  The run `files` and the theorems have none of them (see below),
`files_race` has "race": a call may name a descriptor that another thread's call is
closing, and close one that another thread's call names.  Without it the calls of
the application are `Considerate`, which the code does not enforce.

### LdMalloc

Memory is two functions from addresses to headers and footers; the domain of a
function stands for the valid canaries.  Every call holds `ld_malloc_lock`
throughout, so a call is one step.  The links of a free chunk, the flags of the
arena's ends and the sizes are kept; the users' bytes are not.

## Runs

Passing:

| Run | Instance | Shows |
|---|---|---|
| `sync_threads` | 3 threads (one cloned), 2 exit, 2 pages, fair | types, protocol assertions, two-phase accounting; every fault is resolved unless a thread is locked out |
| `sync_evict` | 2 threads (1 exits and uses the page manager), 4 pages: one needs both registers, one is W+X, one is unmapped and mapped again | no thread runs an executable unsafe page without breakpoints; lists agree and match the kernel; registers suffice |
| `maps_calls` | 1 thread, 5 pages of 2 bytes, both compartments, data only: mmap, munmap, mprotect of 1 or 2 pages, mremap in place or to a free range; 1 torn page | the list implements `PageMap`; it is sorted, and equal to the kernel's view outside torn pages; assertions; no call changes the other compartment |
| `maps_exec` | 1 thread, 4 pages, both compartments, executable and W+X requests, any scan result, also in the pages next to the range, every flag of mremap; 1 torn page | unsafe pages are never executable; a page of the other compartment changes only as a neighbour, and keeps its key; list and kernel, assertions |
| `maps_threads` | 2 threads in mmap and munmap, 7 pages of 2 bytes, 2 free nodes, refills of 2; 1 torn page | `mmap_lock` makes look-up, kernel call and update of MAP_FIXED one unit; refills keep the list sorted and right |
| `entry_signals` | 1 thread, started by the loader or by clone, 2 nested signals, 3 kinds of registration | application and monitor state are never mixed up; no frame lands on live stack; no check of the assembly fires; handler tables agree; what was interrupted goes on as it was, or where the handler sends it |
| `malloc` | 2 pages of 256 bytes, 4 blocks, 1 reset | chunks tile the arenas, the free list is exact, held blocks are intact, no canary check fires |
| `files` | 2 threads and the monitor, 4 descriptors, 8 calls | marks follow the application's descriptors; the table is well formed |

Three threads are enough for a controller, a follower and a thread that joins,
leaves or waits for the next session; two pages for two sessions that compete.
Evictions concern the list of one thread and its agreement with the others', so
two threads are enough there; three pages that can be placed give evictions of
one and of two pages, and the page that is mapped again a list that holds it
twice.  The same pages with three threads, of which all may exit or all may use
the page manager, were checked once (3.6 and 3.0 million states up to symmetry,
five minutes each).  Deadlock is not checked in
the two `sync` runs, where the program can really stop (see below).

Two nested signals let the second one arrive at every interruptible place in the
handling of the first; a third would repeat the second with deeper stacks.  Two pages of 256
bytes hold up to four chunks each, which is what a merge with both neighbours and
a block that is still in use needs, and make adjacent arenas and a kernel without
room happen.  Four descriptors leave two numbers free for two threads and the
monitor to compete for, and make the bitmap (two bits per byte, two bytes per
word) grow; five descriptors were checked once, with the same result.
Permutations of the threads of `files` are symmetric: no thread is named.

`maps_calls` and `maps_threads` have three or more pages between the fixed first and
last mapping: a range can then start before, inside or behind a group, end
likewise, cover a group of the other compartment in its middle, and split a group
in two.  Pages of two bytes give munmap lengths that are not whole pages.  Groups
never merge, so more pages only repeat these cases.  `maps_exec` has two pages
between, each of which has the other and a page of the monitor as its neighbours,
so a range of one page has a neighbour of either compartment.  One torn page is
enough for later calls to start from a list and a kernel that differ.
In the passing runs mprotect stays within one group (`SingleGroup`) and unsafe
instructions within one page (`Cross`), since the properties fail beyond that
(see below).  Deadlock is checked: every call that has begun can go on.

Violations, each a disagreement between the code and a comment or assertion in
it (quoted in `PROJECT.json`):

| Run | What happens |
|---|---|
| `sync_null_page` | a fault between the stores of `controller_thread` and `segfault_page` dereferences null |
| `sync_lock_wait` | a thread in the plain `lock()` of line 89 and a controller that waits for it |
| `maps_many_groups` | mprotect over several groups leaves the list unsorted; a later MAP_FIXED overlaps |
| `files_race` | a descriptor is closed between the prehandler and the main handler of another thread's call; its number goes to the monitor |

### What the passing runs leave out

The passing runs are not the whole of the code.  Each of the following was
checked with TLC on an instance of its own, fails, and is kept out of the run
that checks the property by the constants given here.  They are not runs of the
project; each is a hazard with a note in `PROJECT.json`.

| Case | What happens | Kept out by |
|---|---|---|
| a controller evicts while a thread was interrupted inside `page_manager.lock` | a faulting thread waits for ever (`FaultResolved`) | `Callers = {}` in `sync_threads` |
| a page is placed during the registration of a thread | its list loses the page (`SlotsMatch`, `ListsAgree`, `GuardedExec`); `perf_event_open` fails later (`SlotsSuffice`) | no new threads in `sync_evict`; `Undisturbed` in the theorems |
| a W+X page is scanned in the fault handler | `current_perm` is set before the test that skips executable pages; the page becomes executable with no breakpoint | `GuardedExec` excepts `WX`; `WX = {}` in `sync_threads`, where such a thread faults for ever |
| mremap with MREMAP_FIXED | refused for the caller's own pages and not for others; the group is recorded with the flags as compartment; an assertion fails later | `KernelScope`, `CallAssertsHold` except such calls, `RecordsMatch` such groups |
| mremap with MREMAP_DONTUNMAP | the kernel refuses a change of size, or keeps the mapping where the list has it resized; an assertion fails | `CallAssertsHold` excepts such calls |
| munmap or mprotect is refused and the result ignored, or an mremap of an executable mapping gives up (its error value passes the assertion of line 277) | list and kernel differ in the protection or in what is mapped; an mremap of such pages fails an assertion or is not scanned | `RecordsMatch`, `UnsafeNotExec` except `torn`, `CallAssertsHold` an mremap of `torn` |
| a scan finds an unsafe instruction in the page next to its range | the kernel's protection changes and the list's does not | `RecordsMatch` excepts `torn`; `KernelScope` allows it |
| the group that a refill adds | has the flags as compartment | `RecordsMatch` excepts such groups |
| an unsafe instruction crosses a page boundary inside a range | the page split off is added again as executable (`UnsafeNotExec`) | `Cross = FALSE` |
| munmap between mprotect's kernel call and its update | the update's assertion fails (`CallAssertsHold`) | `MprotectSizes = {}` in `maps_threads` |
| a signal at a label where the switch is half done | see "Where a signal may arrive" | `Interruptible` in `entry_signals` |
| a block grows into the last chunk of its arena | the end flag is not taken over (`EndsFlagged`); a later free looks behind the arena (`NoAbort`) | `GrowIntoLast = FALSE` in `malloc` |
| realloc shrinks by 64 or more to a size that is not aligned | the check of the split fails (`NoAbort`) | `ReallocSizes` in `malloc` |
| malloc of a size near 2^64 | the alignment wraps; the block is too small (`BlocksIntact`) | `MallocSizes` in `malloc` |
| a thread closes a descriptor that another thread's call names | the prehandler's answer is stale (`MarkedIsApp`, `AppIsMarked`; for `MonitorUntouched` see `files_race`) | "race" not in `Faults` |
| a handler sends a context with an open selector elsewhere | a check of the assembly or a property fails | `Redirects` in `entry_signals` |
| close reports an error although it closed | the mark stays (`MarkedIsApp`) | "close_error" not in `Faults` |
| no descriptor is left when open learns the numbers of /proc/self/mem | they are taken as known (`MarkedIsApp`) | "no_fd" not in `Faults` |
| the constructor's own descriptor, marked and then closed | its number counts as the application's (`MonitorUntouched`, `MarkedIsApp`) | "listing" not in `Faults`; `MarkedIsApp` excepts `Listing` |

Two more failures do happen inside passing runs and end the behaviour there,
without a property that forbids them: the eviction of a page that was unmapped
(`crash = "evict_unmapped"` in `sync_evict`) and a removal that begins in the gap
behind the first group, where `prev_page` is null (`crash = "null"` in the map
runs).  "ud2", "nomem", "reentry" and "neighbour" end behaviours in the same way.
The passing map runs therefore speak of the calls up to such a stop.

### Where a signal may arrive

`Interruptible` is the set of labels at which an asynchronous signal may be
delivered.  Each label was tried on its own with TLC.  At these all properties
of `entry_signals` hold, and the run has a representative of each kind:
`app`, `mon`, `ash0`, `back0`, `back6`, `back7`, `back12`, `boot2`, `cah0`, `cah1`, `cah6`,
`cah7`, `cah12`, `cah13`, `child5`, `clone0` to `clone2`, `clone8`, `exit0`, `exit4` to
`exit6`, `hook0`, `hs0`, `inv0`, `meta0` to `meta2`, `push` with an even number and
`push11`, `sw1` to `sw4`, `tr0`, `tr1`, `tr3`, `unt0` to `unt5`, `wrap0`, `wrap1`.  Of these
`sw1` to `sw3`, `wrap0` and `inv0` hold only as long as the nested handler does not
register SIG_DFL or a handler with SA_RESETHAND for the same signal, so the run
leaves them out.

At the other labels a property fails, so the run says nothing of a signal there:

| Labels | Why |
|---|---|
| `cah2` to `cah5`, `back8` to `back11` | `rsp` is zero, or not yet restored, around `sigaltstack` |
| `back1` to `back5`, `cah8` to `cah11`, `exit1` to `exit3`, `hook1` to `hook5`, `hs1` to `hs4`, `boot0`, `boot1` | stack, TLS and compartment are not switched together |
| `clone3` to `clone7`, `child0` to `child4`, `child6` to `child14` | the thread has the application's TLS, or not yet its own region |
| `sig0` to `sig5`, `sw0` | a second signal before the compartment is set to the monitor |
| `inv1`, `sa0`, `sa1` | the thread holds `mut`, and the handler takes it again |
| `push` with an odd number up to 9 | a slot of the sigreturn stack is written and `current` not yet advanced |
| `tr2`, `tr4` to `tr18` | the sigreturn stack is partly unwound |

Of masks the model has whether all signals are masked: they are on entry to the
SIGSYS handler, and to the SIGSEGV handler until the application registers a
handler of its own for that signal, which replaces the full mask.  Masks that the
application sets itself would only take behaviours away.

## Fairness

`FairSpec` is weak fairness of `Step(t)` for each thread: the kernel schedules
every runnable thread, and a thread inside the monitor runs on without the
application.  Locks are spin locks with no queue, and weak
fairness does not give the lock to a thread that only sometimes finds it free:
`FaultResolved` therefore excepts behaviours in which sessions are opened without
end.  It also excepts those in which a thread spins for ever in the plain `lock()`
of line 89, which `sync_lock_wait` shows to exist.  Nothing is assumed of the
application: it need not fault, clone, exit or return.

## Proofs

### Breakpoint sessions

`BreakpointPhaseProofs` proves, for every finite set of threads and every set of
pages, from `ThreadAssumption` and `PageAssumption` only:

* `TypeCorrect`: `Spec => []TypeOK`;
* `PhasesMatch`: `Spec => []PhaseAccounting`;
* `AssertionsHold`: `Spec => []AssertsHold`.

The inductive invariant is `IInv == TypeOK /\ FrameOK /\ PhaseAccounting /\
AssertsHold`.  `PhaseAccounting` is inductive with types and frames: it ties the
counter to the set `Owing` of active threads that still have to decrement it in
the controller's phase.  The argument follows that set: arming a phase makes it
all active threads but the controller, each decrement removes the thread that
makes it, and a zero count means it is empty, so in phase 1 everybody is held and
in phase 2 everybody has left.  Registration and removal happen only with
`hbreakpoint_sync_mutex` free, when the set is empty.  `FrameOK` says that a
faulting thread keeps its page while it follows.

### Page lists and executable pages

`BreakpointGuardProofs` proves, from the same two assumptions,

* `SlotsCounted`: `Spec /\ [][Undisturbed]_vars => []SlotsMatch`;
* `SlotsNeverShort`: the same for `[]SlotsSuffice`;
* `ListsEqual`: the same for `[]ListsAgree`;
* `ExecGuarded`: the same for `[]GuardedExec`.

`Undisturbed` says that no signal of a session is delivered to a new thread between
the copy of its page list to the heap and the swap of the pointer.  The code does
not prevent that, and the four properties fail without it (the second row of the
table above).  It excludes nothing else: threads may be cloned, register and exit at
any time, and a signal that is pending there is delivered after the swap.  With
`Initial = Threads`, as in `sync_evict`, no thread registers and the
hypothesis is always true.

No thread sees another thread's list, so the heart of the argument is that the loop
of `add_breakpoints` does the same to each.  The inductive invariant is `IInv /\ LInv`.
Its conjunct `ListsOK` says: while a session places page `p`, there is one list
`old`, the one before the session, such that a thread that has not begun has `old`,
a thread in the loop has `old` without its `k` oldest pages where `p` did not fit
before any of these evictions (`Evicting`), and a thread that is done has the
result of the loop (`Finished`).  Both are functions of `old` and `p` alone
(`k` is the least number of evictions that makes room), so all threads that are
done have the same list, which the controller publishes.  Since the provers
cannot reason about a recursive sum over a list, the sums over the prefixes of
`old` are a function `S` whose existence is part of the invariant (`Sums`), carried
through the eviction of the first and the addition of a last page by lemmas.

`ListsAgree` follows when phase 1 ends, with all followers held (`PhaseAccounting`).
`SlotsSuffice` needs `SlotsMatch`, that the sum of the list is `used_breakpoints`, and
that an empty list has sum 0, so that every page fits it.
`GuardedExec` needs more: `Guarded` (an executable page is on every list),
`HandlerHolds` and `ExecOK` (a page stays on the global list from its session to the
`mprotect` that makes it executable, since that thread holds
`segfault_handler_mutex` and nobody else can evict), and `PermOK` (the recorded
permission is right for an executable page, so a page that is executable is not
placed again, and one that is evicted is made read only first).
Each conjunct of `LInv` was checked with TLC on the instance of `sync_evict`
and on two instances with a cloned thread before it was proved.

### File descriptors

`FdTableProofs` proves, for every set of threads, every number of descriptors and
every shape of the bitmap, from `FdAssumption` and `CallsAssumption` and for
`Faults = {}`:

* `TypeCorrect`: `Spec => []TypeOK`, in which no bit lies outside the allocated bitmap;
* `MarksAreApps`: `Spec => []MarkedIsApp`;
* `AppsAreMarked`: `Spec => []AppIsMarked`.

`Faults = {}` is an assumption on the environment; its weightiest part is that the
calls are `Considerate`.  `MonitorUntouched` is not among the theorems: under that
assumption it would say little, and without it `files_race` refutes it.

The last two hold together or not at all, and none is inductive.  `IInv` adds what a
thread in the middle of a call relies on.  `PassedOK`: what the prehandler let
through stays marked and the application's until the call's end; this needs
`Discipline` (no other call closes it, the meaning of no "race") and that only
the holder of the lock unmarks.  `MadeOK` and `MadeApart`: a descriptor between the
kernel's answer and its mark belongs to one call and is unmarked, or marked only
because a close of the same number has not finished.  `Reopened` is the converse
for that close: when its number is the application's again, some call has yet to
mark it, and must wait for the lock; so unmarking takes nothing away.  `StatOK`
and `TemporaryOK` follow the two descriptors of /proc/self/mem: every thread past
the first step of open has valid numbers to compare with.  `Locks`, `Places` and
`Types` say where threads are and what registers hold there.  The steps are
grouped by what they do to a thread's record (`Move`, `Shift`, `Quiet`, `Ended` in
`FdTableInvariant`), since most of them leave all but one conjunct alone.  `IInv` is
also an invariant of the instance of `files` (checked with TLC).

### Only model-checked

The liveness property; the memory system calls and their refinement of
`PageMap`; the transitions of `ThreadState`; the allocator; and the table of
`SyscallTable`, which is one constant value.

## Not modelled

* ELF loading: one thread, once, with no state that is shared later.
* General registers and xsave in the assembly.  One visible consequence: the
  trampoline uses r9 for the TLS switch (`restore_selector_trampoline.asm:80`),
  although its comment asks for no clobbered register; `Resumes` does not see r9.
* Masks of single signals, and system calls that a signal interrupts and the
  kernel restarts.
* The SIGTRAP handler and the byte patterns of the scan: their results are choices.
* vfork and execve in the breakpoint sessions, which need a second saved frame
  per thread, and the handshake of `virtualize_threads.cpp` with `pthread_create`.
* Duplicates made with `fcntl(F_DUPFD)`, which is not in `FD_CREATORS`, the
  prehandlers for a second argument alone and for a third one, and `close_range`,
  which is an `assert(0)`.
* PROT_NONE, huge pages, `pkey_mprotect` by the monitor, lengths of mprotect that are
  not whole pages, pointers into the list after its lock is released, and that the
  scan allocates while `mmap_lock` is held (`main_monitor.cpp:69`): an mmap by the
  allocator would take the lock a second time.
* In the allocator, the two canary checks of realloc (`ld_malloc.c:361` and 396) on
  chunks whose canaries the model always has valid; in the sessions,
  `unsafe_page_mutex` and the return that keeps it (`segfault_handler.cpp:329`).
* Fixed limits that one thread can reach alone: 4096 active threads
  (`segfault_handler.cpp:492`), six levels of xsave areas (`gsreldata.h:106`).
* Printing, compile-time options, wrappers of system calls.

Liveness, and what the allocator's recursive search (`FindFrom`) and the folds of
the scan compute for every input, are out of the proof system's reach and stay
with TLC.
