--------------------------- MODULE BreakpointSync ---------------------------
(***************************************************************************)
(* The SIGSEGV handler of Secpoline and the protocol by which all threads  *)
(* of a process place hardware breakpoints on a page with unsafe           *)
(* instructions before that page becomes executable                        *)
(* (segfault_handler/segfault_handler.cpp and hardware_breakpoints.cpp).   *)
(*                                                                         *)
(* A thread that executes a non-executable unsafe page becomes the         *)
(* controller of a session: it publishes the page, sends SIGSEGV to every  *)
(* other active thread and waits until each of them, as a follower, has    *)
(* placed the breakpoints.  A second counting phase keeps the next session *)
(* from starting before every follower has left this one.                  *)
(*                                                                         *)
(* Every atomic load or store of a shared variable is a step of its own,   *)
(* except that a critical section of waiting_thread_count_mutex is one     *)
(* step and a spin loop is a step that waits for its exit condition.       *)
(* A failed assertion stops the process: it is recorded in crash.          *)
(***************************************************************************)
EXTENDS Integers, Sequences, FiniteSets

CONSTANTS
  Threads,      \* thread identities
  Initial,      \* the threads that are active initially
  Exiters,      \* the threads that may call exit
  Callers,      \* the threads that enter the page manager in a system call
  Pages,        \* the pages on unsafe_pages
  WX,           \* those of them that the application mapped W+X
  Unmappable,   \* those of them that the application unmaps and maps again
  Need,         \* unsafe_instructions_size of each page
  MaxHB,        \* MAX_HBREAKPOINTS less the static ones
  NoThread,     \* tid 0
  NoPage        \* nullptr

ASSUME ThreadAssumption ==
  /\ IsFiniteSet(Threads)
  /\ Initial \subseteq Threads
  /\ Exiters \subseteq Threads
  /\ Callers \subseteq Threads
  /\ NoThread \notin Threads

ASSUME PageAssumption ==
  /\ WX \subseteq Pages
  /\ Unmappable \subseteq Pages \ WX
  /\ NoPage \notin Pages
  /\ MaxHB \in Nat
  /\ Need \in [Pages -> 1..MaxHB]

VARIABLES
  pc,                       \* where each thread is, see the sets below
  ctx,                      \* what a delivered kill signal interrupted
  cont,                     \* where other_thread_add_breakpoint_wrapper returns
  pg,                       \* page of the thread's synchronous fault (si_addr)
  arg,                      \* page given to add_breakpoints
  pending,                  \* a SIGSEGV sent by tgkill waits for the thread
  controller_thread,        \* thread_synchronizer.controller_thread
  segfault_page,            \* thread_synchronizer.segfault_page
  waiting_thread_count,     \* thread_synchronizer.waiting_thread_count
  active_thread_list,       \* thread_synchronizer.active_thread_list, as a set
  segfault_handler_mutex,   \* the thread that holds it
  hbreakpoint_sync_mutex,   \* the thread that holds it
  pm_lock,                  \* page_manager.lock: the system call that holds it
  watched,                  \* hbreakpoint_controller of each thread, see Empty
  heap_copy,                \* the copy a new thread makes of it
  placed,                   \* breakpoints open in the kernel, per thread and page
  events,                   \* their number, per thread
  global_watched,           \* global_hbreakpoint_controller
  mapped,                   \* pages known to the page manager
  prot,                     \* the permission the kernel enforces
  current_perm,             \* unsafe_page::current_perm
  unsafe,                   \* pages whose last scan found unsafe instructions
  crash                     \* "none", or the failure that stopped the process

sync == <<controller_thread, segfault_page, waiting_thread_count>>
locks == <<segfault_handler_mutex, hbreakpoint_sync_mutex>>
frame == <<ctx, cont, pg, arg>>
lists == <<watched, heap_copy, placed, events, global_watched>>
memory == <<mapped, prot, current_perm, unsafe>>
vars == <<pc, frame, pending, sync, active_thread_list, locks, pm_lock,
          lists, memory, crash>>

-----------------------------------------------------------------------------
\* The kernel delivers a kill-SIGSEGV only where it is not masked: application
\* code, the page manager called from a system call, and the registration of a
\* new thread (nolibc_sigfill_set leaves SIGSEGV unblocked).
Interruptible == {"app", "pm", "n_copy", "n_swap"}

\* add_breakpoint_wrapper from its first store on, while controller_thread is set.
ControllerPC == {"c_page", "c_signal", "c_add", "c_publish", "c_wait1",
                 "c_arm2", "c_release"}

\* other_thread_add_breakpoint_wrapper.
FollowerPC == {"f_wait", "f_load", "f_add", "f_dec1", "f_hold", "f_dec2"}

PC == Interruptible \cup ControllerPC \cup FollowerPC
        \cup {"idle", "dead", "segv", "same_page", "kill", "try_lock", "lock",
              "handler", "c_lock", "c_start", "c_wait2", "make_exec",
              "n_register", "x_unregister", "x_free"}

Continuations == {"return", "lock", "try_lock", "x_unregister"}

Goto(t, label) == pc' = [pc EXCEPT ![t] = label]

\* A controller: dynamic_hbreakpoints.page_list (up to its size) and used_breakpoints.
Empty == [pages |-> << >>, used |-> 0]

\* The page goes to the end of the list; the page at its front is the oldest one.
add_watched_page(c, p) == [pages |-> Append(c.pages, p), used |-> c.used + Need[p]]
remove_last_page(c) == [pages |-> Tail(c.pages), used |-> c.used - Need[Head(c.pages)]]

CountIn(list) == [p \in Pages |-> Cardinality({i \in DOMAIN list : list[i] = p})]

\* Mutant: the free breakpoints are counted one too high.
FitsOffByOne(t) == watched[t].used + Need[arg[t]] <= MaxHB + 1

\* used_breakpoints + needed_breakpoints <= MAX_HBREAKPOINTS.
Fits(t) == watched[t].used + Need[arg[t]] <= MaxHB

\* set_hbreakpoint: the kernel has a debug register left for every instruction.
set_hbreakpoint(t) == events[t] + Need[arg[t]] <= MaxHB

\* The assertion that fails at the thread's current place, or a null dereference.
Failure(t) ==
  CASE pc[t] = "same_page" /\ segfault_page = NoPage -> "null_segfault_page"
    [] pc[t] = "c_start" /\ sync # <<NoThread, NoPage, 0>> -> "session_open"
    [] /\ pc[t] = "c_signal"
       /\ \E u \in active_thread_list \ {t} : pc[u] = "dead" -> "tgkill"
    [] pc[t] = "f_load" /\ segfault_page = NoPage -> "no_segfault_page"
    [] pc[t] = "f_dec1" /\ waiting_thread_count = 0 -> "count_phase1"
    [] pc[t] = "f_dec2" /\ waiting_thread_count = 0 -> "count_phase2"
    [] /\ pc[t] \in {"n_register", "x_unregister"}
       /\ hbreakpoint_sync_mutex = NoThread
       /\ controller_thread # NoThread -> "update_list_in_session"
    [] /\ pc[t] \in {"c_add", "f_add"}
       /\ Fits(t)
       /\ ~set_hbreakpoint(t) -> "perf_event_open"
    [] pc[t] \in {"c_add", "f_add"} /\ ~Fits(t) /\ watched[t].pages = << >>
         -> "nothing_to_evict"
    [] /\ pc[t] \in {"c_add", "f_add"} /\ ~Fits(t) /\ watched[t].pages # << >>
       /\ pm_lock = NoThread
       /\ Head(watched[t].pages) \notin mapped -> "evict_unmapped"
    [] OTHER -> "none"

\* A failed assertion stops the process.
Abort(t) ==
  /\ crash' = Failure(t)
  /\ UNCHANGED <<pc, frame, pending, sync, active_thread_list, locks, pm_lock,
                 lists, memory>>

\* The handler returns to what it interrupted.
Return(t, label) ==
  /\ Goto(t, label)
  /\ ctx' = [ctx EXCEPT ![t] = "app"]
  /\ cont' = [cont EXCEPT ![t] = "return"]
  /\ pg' = [pg EXCEPT ![t] = NoPage]
  /\ arg' = arg

Init ==
  /\ pc = [t \in Threads |-> IF t \in Initial THEN "app" ELSE "idle"]
  /\ ctx = [t \in Threads |-> "app"]
  /\ cont = [t \in Threads |-> "return"]
  /\ pg = [t \in Threads |-> NoPage]
  /\ arg = [t \in Threads |-> NoPage]
  /\ pending = [t \in Threads |-> FALSE]
  /\ controller_thread = NoThread
  /\ segfault_page = NoPage
  /\ waiting_thread_count = 0
  /\ active_thread_list = Initial
  /\ segfault_handler_mutex = NoThread
  /\ hbreakpoint_sync_mutex = NoThread
  /\ pm_lock = NoThread
  /\ watched = [t \in Threads |-> Empty]
  /\ heap_copy = [t \in Threads |-> Empty]
  /\ placed = [t \in Threads |-> [p \in Pages |-> 0]]
  /\ events = [t \in Threads |-> 0]
  /\ global_watched = Empty
  /\ mapped = Pages
  /\ prot = [p \in Pages |-> IF p \in WX THEN "RW" ELSE "R"]
  /\ current_perm = prot
  /\ unsafe = Pages \ WX
  /\ crash = "none"

-----------------------------------------------------------------------------
(* signal_handler_switch *)

\* Application code executes a page that is not executable, or writes a W+X
\* page that currently is: the kernel enters the handler with every signal masked.
Fault(t, p) ==
  /\ pc[t] = "app"
  /\ p \in mapped
  /\ prot[p] # "X" \/ p \in WX
  /\ Goto(t, "segv")
  /\ pg' = [pg EXCEPT ![t] = p]
  /\ UNCHANGED <<ctx, cont, arg, pending, sync, active_thread_list, locks,
                 pm_lock, lists, memory, crash>>

\* A signal sent by tgkill is delivered where it is not masked.
Deliver(t) ==
  /\ pending[t]
  /\ pc[t] \in Interruptible
  /\ pending' = [pending EXCEPT ![t] = FALSE]
  /\ ctx' = [ctx EXCEPT ![t] = pc[t]]
  /\ Goto(t, "kill")
  /\ UNCHANGED <<cont, pg, arg, sync, active_thread_list, locks, pm_lock,
                 lists, memory, crash>>

\* The kill signal: follow the running session,
KillFollow(t) ==
  /\ pc[t] = "kill"
  /\ controller_thread # NoThread
  /\ Goto(t, "f_wait")
  /\ UNCHANGED <<frame, pending, sync, active_thread_list, locks, pm_lock, lists,
                 memory, crash>>

\* or ignore the signal of a session that this thread has followed already.
KillIgnore(t) ==
  /\ pc[t] = "kill"
  /\ controller_thread = NoThread
  /\ Return(t, ctx[t])
  /\ UNCHANGED <<pending, sync, active_thread_list, locks, pm_lock, lists,
                 memory, crash>>

\* A synchronous fault: is another thread placing breakpoints?
OnSegv(t) ==
  /\ pc[t] = "segv"
  /\ Goto(t, IF controller_thread # NoThread THEN "same_page" ELSE "try_lock")
  /\ UNCHANGED <<frame, pending, sync, active_thread_list, locks, pm_lock,
                 lists, memory, crash>>

\* Follow the session, and if it is for another page handle this fault after it.
\* The page is dereferenced, whether or not the controller has stored it.
SamePage(t) ==
  /\ pc[t] = "same_page"
  /\ Goto(t, "f_wait")
  /\ cont' = [cont EXCEPT ![t] =
                IF segfault_page = pg[t] THEN "return" ELSE "lock"]
  /\ UNCHANGED <<ctx, pg, arg, pending, sync, active_thread_list, locks, pm_lock,
                 lists, memory, crash>>

\* The try_lock loop: take the mutex when it is free,
TryLock(t) ==
  /\ pc[t] = "try_lock"
  /\ segfault_handler_mutex = NoThread
  /\ segfault_handler_mutex' = t
  /\ Goto(t, "handler")
  /\ UNCHANGED <<frame, pending, sync, active_thread_list,
                 hbreakpoint_sync_mutex, pm_lock, lists, memory, crash>>

\* and follow a session meanwhile.
TryLockFollow(t) ==
  /\ pc[t] = "try_lock"
  /\ segfault_handler_mutex # NoThread
  /\ controller_thread # NoThread
  /\ Goto(t, "f_wait")
  /\ cont' = [cont EXCEPT ![t] = "try_lock"]
  /\ UNCHANGED <<ctx, pg, arg, pending, sync, active_thread_list, locks, pm_lock,
                 lists, memory, crash>>

\* The lock() after following a session for another page: a spin that follows nobody.
Lock(t) ==
  /\ pc[t] = "lock"
  /\ segfault_handler_mutex = NoThread
  /\ segfault_handler_mutex' = t
  /\ Goto(t, "handler")
  /\ UNCHANGED <<frame, pending, sync, active_thread_list,
                 hbreakpoint_sync_mutex, pm_lock, lists, memory, crash>>

-----------------------------------------------------------------------------
(* secpoline_segfault_handler, under segfault_handler_mutex *)

\* Leave the handler with nothing placed: the page is gone, or another thread
\* made it executable already.
HandlerDone(t) ==
  /\ pc[t] = "handler"
  /\ pm_lock = NoThread
  /\ pg[t] \notin mapped \/ (current_perm[pg[t]] = "X" /\ pg[t] \notin WX)
  /\ segfault_handler_mutex' = NoThread
  /\ Return(t, "app")
  /\ UNCHANGED <<pending, sync, active_thread_list, hbreakpoint_sync_mutex,
                 pm_lock, lists, memory, crash>>

\* A write to a W+X page that is executable now: make it writable.
HandlerWrite(t) ==
  /\ pc[t] = "handler"
  /\ pm_lock = NoThread
  /\ pg[t] \in mapped \cap WX
  /\ current_perm[pg[t]] = "X"
  /\ prot' = [prot EXCEPT ![pg[t]] = "RW"]
  /\ current_perm' = [current_perm EXCEPT ![pg[t]] = "RW"]
  /\ segfault_handler_mutex' = NoThread
  /\ Return(t, "app")
  /\ UNCHANGED <<pending, sync, active_thread_list, hbreakpoint_sync_mutex,
                 pm_lock, lists, mapped, unsafe, crash>>

\* Execution of a W+X page that is writable now: scan it.  The scan stores the
\* permission the page is going to have, RX, as its current_perm.
HandlerScan(t) ==
  /\ pc[t] = "handler"
  /\ pm_lock = NoThread
  /\ pg[t] \in mapped
  /\ current_perm[pg[t]] = "RW"
  /\ \E found \in BOOLEAN :
       /\ unsafe' = IF found THEN unsafe \cup {pg[t]} ELSE unsafe \ {pg[t]}
       /\ Goto(t, IF found THEN "c_lock" ELSE "make_exec")
  /\ current_perm' = [current_perm EXCEPT ![pg[t]] = "X"]
  /\ UNCHANGED <<frame, pending, sync, active_thread_list, locks, pm_lock,
                 lists, mapped, prot, crash>>

\* Execution of a read-only page with unsafe instructions.
HandlerPlace(t) ==
  /\ pc[t] = "handler"
  /\ pm_lock = NoThread
  /\ pg[t] \in mapped
  /\ current_perm[pg[t]] = "R"
  /\ Goto(t, "c_lock")
  /\ UNCHANGED <<frame, pending, sync, active_thread_list, locks, pm_lock,
                 lists, memory, crash>>

\* After add_breakpoint_wrapper: mprotect to RX, release the mutex and return.
\* mprotect of a page that is not mapped fails, which secpoline_mprotect hides.
MakeExec(t) ==
  /\ pc[t] = "make_exec"
  /\ pm_lock = NoThread
  /\ prot' = IF pg[t] \in mapped THEN [prot EXCEPT ![pg[t]] = "X"] ELSE prot
  /\ current_perm' = [current_perm EXCEPT ![pg[t]] = "X"]
  /\ segfault_handler_mutex' = NoThread
  /\ Return(t, "app")
  /\ UNCHANGED <<pending, sync, active_thread_list, hbreakpoint_sync_mutex,
                 pm_lock, lists, mapped, unsafe, crash>>

-----------------------------------------------------------------------------
(* add_breakpoint_wrapper *)

\* Take hbreakpoint_sync_mutex,
CtlLock(t) ==
  /\ pc[t] = "c_lock"
  /\ hbreakpoint_sync_mutex = NoThread
  /\ current_perm[pg[t]] # "X"
  /\ hbreakpoint_sync_mutex' = t
  /\ Goto(t, "c_start")
  /\ UNCHANGED <<frame, pending, sync, active_thread_list,
                 segfault_handler_mutex, pm_lock, lists, memory, crash>>

\* and give it back at once if the page is recorded as executable already.
CtlSkip(t) ==
  /\ pc[t] = "c_lock"
  /\ hbreakpoint_sync_mutex = NoThread
  /\ current_perm[pg[t]] = "X"
  /\ Goto(t, "make_exec")
  /\ UNCHANGED <<frame, pending, sync, active_thread_list, locks, pm_lock, lists,
                 memory, crash>>

\* After its three assertions: the store that opens the session.
CtlStart(t) ==
  /\ pc[t] = "c_start"
  /\ controller_thread' = t
  /\ Goto(t, "c_page")
  /\ UNCHANGED <<frame, pending, segfault_page, waiting_thread_count,
                 active_thread_list, locks, pm_lock, lists, memory, crash>>

CtlPage(t) ==
  /\ pc[t] = "c_page"
  /\ segfault_page' = pg[t]
  /\ Goto(t, "c_signal")
  /\ UNCHANGED <<frame, pending, controller_thread, waiting_thread_count,
                 active_thread_list, locks, pm_lock, lists, memory, crash>>

\* tgkill(SIGSEGV) to every other active thread.  The signals are one step
\* because their delivery (Deliver) is a later step of each receiver.
CtlSignal(t) ==
  /\ pc[t] = "c_signal"
  /\ pending' = [u \in Threads |-> pending[u] \/ u \in active_thread_list \ {t}]
  /\ arg' = [arg EXCEPT ![t] = pg[t]]
  /\ Goto(t, "c_add")
  /\ UNCHANGED <<ctx, cont, pg, sync, active_thread_list, locks, pm_lock, lists,
                 memory, crash>>

\* Mutant: the global copy is not updated.
CtlPublishNoCopy(t) ==
  /\ pc[t] = "c_publish"
  /\ waiting_thread_count' = Cardinality(active_thread_list) - 1
  /\ Goto(t, "c_wait1")
  /\ UNCHANGED <<frame, pending, controller_thread, segfault_page,
                 active_thread_list, locks, pm_lock, lists, memory, crash>>

\* Mutant: the controller leaves out one thread too many.
CtlPublishOffByOne(t) ==
  /\ pc[t] = "c_publish"
  /\ global_watched' = watched[t]
  /\ waiting_thread_count' = Cardinality(active_thread_list) - 2
  /\ Goto(t, "c_wait1")
  /\ UNCHANGED <<frame, pending, controller_thread, segfault_page,
                 active_thread_list, locks, pm_lock, watched, heap_copy, placed,
                 events, memory, crash>>

\* Keep the global copy and let the followers start.
CtlPublish(t) ==
  /\ pc[t] = "c_publish"
  /\ global_watched' = watched[t]
  /\ waiting_thread_count' = Cardinality(active_thread_list) - 1
  /\ Goto(t, "c_wait1")
  /\ UNCHANGED <<frame, pending, controller_thread, segfault_page,
                 active_thread_list, locks, pm_lock, watched, heap_copy, placed,
                 events, memory, crash>>

\* Every follower has placed its breakpoints.
CtlWait1(t) ==
  /\ pc[t] = "c_wait1"
  /\ waiting_thread_count = 0
  /\ segfault_page' = NoPage
  /\ Goto(t, "c_arm2")
  /\ UNCHANGED <<frame, pending, controller_thread, waiting_thread_count,
                 active_thread_list, locks, pm_lock, lists, memory, crash>>

\* Mutant: the count of the second phase is not stored.
CtlArm2Missing(t) ==
  /\ pc[t] = "c_arm2"
  /\ Goto(t, "c_release")
  /\ UNCHANGED <<frame, pending, sync, active_thread_list, locks, pm_lock, lists,
                 memory, crash>>

\* The second phase is armed before the followers are released.
CtlArm2(t) ==
  /\ pc[t] = "c_arm2"
  /\ waiting_thread_count' = Cardinality(active_thread_list) - 1
  /\ Goto(t, "c_release")
  /\ UNCHANGED <<frame, pending, controller_thread, segfault_page,
                 active_thread_list, locks, pm_lock, lists, memory, crash>>

CtlRelease(t) ==
  /\ pc[t] = "c_release"
  /\ controller_thread' = NoThread
  /\ Goto(t, "c_wait2")
  /\ UNCHANGED <<frame, pending, segfault_page, waiting_thread_count,
                 active_thread_list, locks, pm_lock, lists, memory, crash>>

\* Every follower has left: unlock hbreakpoint_sync_mutex.
CtlWait2(t) ==
  /\ pc[t] = "c_wait2"
  /\ waiting_thread_count = 0
  /\ hbreakpoint_sync_mutex' = NoThread
  /\ Goto(t, "make_exec")
  /\ UNCHANGED <<frame, pending, sync, active_thread_list,
                 segfault_handler_mutex, pm_lock, lists, memory, crash>>

-----------------------------------------------------------------------------
(* other_thread_add_breakpoint_wrapper *)

FolWait(t) ==
  /\ pc[t] = "f_wait"
  /\ waiting_thread_count # 0
  /\ Goto(t, "f_load")
  /\ UNCHANGED <<frame, pending, sync, active_thread_list, locks, pm_lock,
                 lists, memory, crash>>

FolLoad(t) ==
  /\ pc[t] = "f_load"
  /\ arg' = [arg EXCEPT ![t] = segfault_page]
  /\ Goto(t, "f_add")
  /\ UNCHANGED <<ctx, cont, pg, pending, sync, active_thread_list, locks, pm_lock,
                 lists, memory, crash>>

\* First decrement: this thread's breakpoints are placed.
FolDec1(t) ==
  /\ pc[t] = "f_dec1"
  /\ waiting_thread_count' = waiting_thread_count - 1
  /\ Goto(t, "f_hold")
  /\ UNCHANGED <<frame, pending, controller_thread, segfault_page,
                 active_thread_list, locks, pm_lock, lists, memory, crash>>

FolHold(t) ==
  /\ pc[t] = "f_hold"
  /\ controller_thread = NoThread
  /\ Goto(t, "f_dec2")
  /\ UNCHANGED <<frame, pending, sync, active_thread_list, locks, pm_lock,
                 lists, memory, crash>>

\* Second decrement, and back to the interrupted code
FolReturn(t) ==
  /\ pc[t] = "f_dec2"
  /\ cont[t] = "return"
  /\ waiting_thread_count' = waiting_thread_count - 1
  /\ Return(t, ctx[t])
  /\ UNCHANGED <<pending, controller_thread, segfault_page, active_thread_list,
                 locks, pm_lock, lists, memory, crash>>

\* or to the caller's loop.
FolResume(t) ==
  /\ pc[t] = "f_dec2"
  /\ cont[t] # "return"
  /\ waiting_thread_count' = waiting_thread_count - 1
  /\ Goto(t, cont[t])
  /\ cont' = [cont EXCEPT ![t] = "return"]
  /\ UNCHANGED <<ctx, pg, arg, pending, controller_thread, segfault_page,
                 active_thread_list, locks, pm_lock, lists, memory, crash>>

-----------------------------------------------------------------------------
(* hbreakpoint_controller::add_breakpoints, run by controller and followers *)

\* Enough free breakpoints by this thread's own count: place them and append the
\* page.
PlaceBreakpoints(t) ==
  /\ pc[t] \in {"c_add", "f_add"}
  /\ Fits(t)
  /\ watched' = [watched EXCEPT ![t] = add_watched_page(@, arg[t])]
  /\ placed' = [placed EXCEPT ![t][arg[t]] = @ + 1]
  /\ events' = [events EXCEPT ![t] = @ + Need[arg[t]]]
  /\ arg' = [arg EXCEPT ![t] = NoPage]
  /\ Goto(t, IF pc[t] = "c_add" THEN "c_publish" ELSE "f_dec1")
  /\ UNCHANGED <<ctx, cont, pg, pending, sync, active_thread_list, locks, pm_lock,
                 heap_copy, global_watched, memory, crash>>

\* Mutant: the evicted page stays executable.
EvictStillExecutable(t) ==
  /\ pc[t] \in {"c_add", "f_add"}
  /\ ~Fits(t)
  /\ pm_lock = NoThread
  /\ placed' = [placed EXCEPT ![t][Head(watched[t].pages)] = @ - 1]
  /\ watched' = [watched EXCEPT ![t] = remove_last_page(@)]
  /\ events' = [events EXCEPT ![t] = @ - Need[Head(watched[t].pages)]]
  /\ UNCHANGED <<pc, frame, pending, sync, active_thread_list, locks, pm_lock,
                 heap_copy, global_watched, memory, crash>>

\* Mutant: the remaining pages are not moved one back.
EvictWithoutMove(t) ==
  /\ pc[t] \in {"c_add", "f_add"}
  /\ ~Fits(t)
  /\ pm_lock = NoThread
  /\ prot' = [prot EXCEPT ![Head(watched[t].pages)] = "R"]
  /\ current_perm' = [current_perm EXCEPT ![Head(watched[t].pages)] = "R"]
  /\ placed' = [placed EXCEPT ![t][Head(watched[t].pages)] = @ - 1]
  /\ watched' = [watched EXCEPT ![t] = [remove_last_page(@) EXCEPT !.pages =
                    SubSeq(watched[t].pages, 1, Len(watched[t].pages) - 1)]]
  /\ events' = [events EXCEPT ![t] = @ - Need[Head(watched[t].pages)]]
  /\ UNCHANGED <<pc, frame, pending, sync, active_thread_list, locks, pm_lock,
                 heap_copy, global_watched, mapped, unsafe, crash>>

\* Not enough: one round of remove_last_page.  The oldest page is made
\* non-executable (set_page_non_executable) before its breakpoints are closed.
EvictOldest(t) ==
  /\ pc[t] \in {"c_add", "f_add"}
  /\ ~Fits(t)
  /\ pm_lock = NoThread
  /\ LET oldest == Head(watched[t].pages) IN
       /\ prot' = IF current_perm[oldest] = "X"
                    THEN [prot EXCEPT ![oldest] = "R"] ELSE prot
       /\ current_perm' = IF current_perm[oldest] = "X"
                    THEN [current_perm EXCEPT ![oldest] = "R"] ELSE current_perm
       /\ placed' = [placed EXCEPT ![t][oldest] = @ - 1]
  /\ watched' = [watched EXCEPT ![t] = remove_last_page(@)]
  /\ events' = [events EXCEPT ![t] = @ - Need[Head(watched[t].pages)]]
  /\ UNCHANGED <<pc, frame, pending, sync, active_thread_list, locks, pm_lock,
                 heap_copy, global_watched, mapped, unsafe, crash>>

-----------------------------------------------------------------------------
(* update_active_thread_list, at the start and at the end of a thread *)

\* A running thread clones; the new one runs setup_new_thread.
Clone(t, u) ==
  /\ pc[t] = "app"
  /\ pc[u] = "idle"
  /\ Goto(u, "n_register")
  /\ UNCHANGED <<frame, pending, sync, active_thread_list, locks, pm_lock,
                 lists, memory, crash>>

\* Mutant: a new thread does not wait for the end of a session.
RegisterUnlocked(t) ==
  /\ pc[t] = "n_register"
  /\ watched' = [watched EXCEPT ![t] = global_watched]
  /\ placed' = [placed EXCEPT ![t] = CountIn(global_watched.pages)]
  /\ events' = [events EXCEPT ![t] = global_watched.used]
  /\ active_thread_list' = active_thread_list \cup {t}
  /\ Goto(t, "n_copy")
  /\ UNCHANGED <<frame, pending, sync, locks, pm_lock, heap_copy, global_watched,
                 memory, crash>>

\* Under hbreakpoint_sync_mutex: place the breakpoints of the global copy and
\* enter the active list.  A new thread waits for the mutex without following.
Register(t) ==
  /\ pc[t] = "n_register"
  /\ hbreakpoint_sync_mutex = NoThread
  /\ watched' = [watched EXCEPT ![t] = global_watched]
  /\ placed' = [placed EXCEPT ![t] = CountIn(global_watched.pages)]
  /\ events' = [events EXCEPT ![t] = global_watched.used]
  /\ active_thread_list' = active_thread_list \cup {t}
  /\ Goto(t, "n_copy")
  /\ UNCHANGED <<frame, pending, sync, locks, pm_lock, heap_copy, global_watched,
                 memory, crash>>

\* After the unlock the list moves from the stack to the heap: it is copied,
CopyList(t) ==
  /\ pc[t] = "n_copy"
  /\ heap_copy' = [heap_copy EXCEPT ![t] = watched[t]]
  /\ Goto(t, "n_swap")
  /\ UNCHANGED <<frame, pending, sync, active_thread_list, locks, pm_lock,
                 watched, placed, events, global_watched, memory, crash>>

\* and then gsreldata->hardware_breakpoints is set to the copy.
SwapList(t) ==
  /\ pc[t] = "n_swap"
  /\ watched' = [watched EXCEPT ![t] = heap_copy[t]]
  /\ heap_copy' = [heap_copy EXCEPT ![t] = Empty]
  /\ Goto(t, "app")
  /\ UNCHANGED <<frame, pending, sync, active_thread_list, locks, pm_lock,
                 placed, events, global_watched, memory, crash>>

\* exit: teardown_thread_metadata masks every signal first.
Exit(t) ==
  /\ t \in Exiters
  /\ pc[t] = "app"
  /\ Goto(t, "x_unregister")
  /\ UNCHANGED <<frame, pending, sync, active_thread_list, locks, pm_lock,
                 lists, memory, crash>>

\* Mutant: a leaving thread waits for the mutex without following.
UnregisterNeverFollows(t) == FALSE

\* The try_lock loop of a leaving thread: follow a running session,
UnregisterFollow(t) ==
  /\ pc[t] = "x_unregister"
  /\ hbreakpoint_sync_mutex # NoThread
  /\ controller_thread # NoThread
  /\ Goto(t, "f_wait")
  /\ cont' = [cont EXCEPT ![t] = "x_unregister"]
  /\ UNCHANGED <<ctx, pg, arg, pending, sync, active_thread_list, locks, pm_lock,
                 lists, memory, crash>>

\* or take the mutex, leave the active list and close the thread's breakpoints.
Unregister(t) ==
  /\ pc[t] = "x_unregister"
  /\ hbreakpoint_sync_mutex = NoThread
  /\ active_thread_list' = active_thread_list \ {t}
  /\ watched' = [watched EXCEPT ![t] = Empty]
  /\ placed' = [placed EXCEPT ![t] = [p \in Pages |-> 0]]
  /\ events' = [events EXCEPT ![t] = 0]
  /\ Goto(t, "x_free")
  /\ UNCHANGED <<frame, pending, sync, locks, pm_lock, heap_copy, global_watched,
                 memory, crash>>

\* The rest of teardown_thread_metadata removes the thread's pages; the thread ends.
Free(t) ==
  /\ pc[t] = "x_free"
  /\ pm_lock = NoThread
  /\ Goto(t, "dead")
  /\ UNCHANGED <<frame, pending, sync, active_thread_list, locks, pm_lock,
                 lists, memory, crash>>

-----------------------------------------------------------------------------
(* System calls of the application that use the page manager *)

EnterPM(t) ==
  /\ t \in Callers
  /\ pc[t] = "app"
  /\ pm_lock = NoThread
  /\ pm_lock' = t
  /\ Goto(t, "pm")
  /\ UNCHANGED <<frame, pending, sync, active_thread_list, locks, lists,
                 memory, crash>>

LeavePM(t) ==
  /\ pc[t] = "pm"
  /\ pm_lock' = NoThread
  /\ Goto(t, "app")
  /\ UNCHANGED <<frame, pending, sync, active_thread_list, locks, lists,
                 memory, crash>>

\* munmap: the page manager forgets the page, the list of unsafe pages and the
\* breakpoints stay.
Munmap(t, p) ==
  /\ pc[t] = "app"
  /\ pm_lock = NoThread
  /\ p \in mapped \cap Unmappable
  /\ mapped' = mapped \ {p}
  /\ UNCHANGED <<pc, frame, pending, sync, active_thread_list, locks, pm_lock,
                 lists, prot, current_perm, unsafe, crash>>

\* An executable mapping at the same address: its scan updates the unsafe page.
Mmap(t, p) ==
  /\ pc[t] = "app"
  /\ pm_lock = NoThread
  /\ p \in Unmappable \ mapped
  /\ mapped' = mapped \cup {p}
  /\ prot' = [prot EXCEPT ![p] = "R"]
  /\ current_perm' = [current_perm EXCEPT ![p] = "R"]
  /\ UNCHANGED <<pc, frame, pending, sync, active_thread_list, locks, pm_lock,
                 lists, unsafe, crash>>

-----------------------------------------------------------------------------
\* The monitor's code, run by a thread to its end once it was entered.
Monitor(t) ==
  \/ Deliver(t) \/ KillFollow(t) \/ KillIgnore(t)
  \/ OnSegv(t) \/ SamePage(t) \/ TryLock(t) \/ TryLockFollow(t) \/ Lock(t)
  \/ HandlerDone(t) \/ HandlerWrite(t) \/ HandlerScan(t) \/ HandlerPlace(t)
  \/ MakeExec(t)
  \/ CtlLock(t) \/ CtlSkip(t) \/ CtlStart(t) \/ CtlPage(t) \/ CtlSignal(t)
  \/ CtlPublish(t) \/ CtlWait1(t) \/ CtlArm2(t) \/ CtlRelease(t) \/ CtlWait2(t)
  \/ FolWait(t) \/ FolLoad(t) \/ FolDec1(t) \/ FolHold(t)
  \/ FolReturn(t) \/ FolResume(t)
  \/ PlaceBreakpoints(t) \/ EvictOldest(t)
  \/ Register(t) \/ CopyList(t) \/ SwapList(t)
  \/ UnregisterFollow(t) \/ Unregister(t) \/ Free(t)
  \/ LeavePM(t)

\* What the application may do at any time.
Application(t) ==
  \/ \E p \in Pages : Fault(t, p) \/ Munmap(t, p) \/ Mmap(t, p)
  \/ \E u \in Threads : Clone(t, u)
  \/ Exit(t) \/ EnterPM(t)

\* The monitor has nothing to do: an assertion stopped the process, or every
\* thread has ended or computes.
Quiet ==
  /\ crash # "none" \/ \A t \in Threads : pc[t] \in {"idle", "dead", "app"}
  /\ UNCHANGED vars

Step(t) ==
  /\ crash = "none"
  /\ \/ Failure(t) = "none" /\ Monitor(t)
     \/ Failure(t) # "none" /\ Abort(t)

Next ==
  \/ \E t \in Threads : Step(t) \/ (crash = "none" /\ Application(t))
  \/ Quiet

Spec == Init /\ [][Next]_vars

\* The scheduler runs every thread: each makes progress in the monitor when it can.
FairSpec == Spec /\ \A t \in Threads : WF_vars(Step(t))

-----------------------------------------------------------------------------
(* Safety *)

Controllers == [pages : Seq(Pages), used : Int]

\* Types.  waiting_thread_count never becomes negative.
TypeOK ==
  /\ pc \in [Threads -> PC]
  /\ ctx \in [Threads -> Interruptible]
  /\ cont \in [Threads -> Continuations]
  /\ pg \in [Threads -> Pages \cup {NoPage}]
  /\ arg \in [Threads -> Pages \cup {NoPage}]
  /\ pending \in [Threads -> BOOLEAN]
  /\ controller_thread \in Threads \cup {NoThread}
  /\ segfault_page \in Pages \cup {NoPage}
  /\ waiting_thread_count \in Nat
  /\ active_thread_list \subseteq Threads
  /\ segfault_handler_mutex \in Threads \cup {NoThread}
  /\ hbreakpoint_sync_mutex \in Threads \cup {NoThread}
  /\ pm_lock \in Threads \cup {NoThread}
  /\ watched \in [Threads -> Controllers]
  /\ heap_copy \in [Threads -> Controllers]
  /\ placed \in [Threads -> [Pages -> Int]]
  /\ events \in [Threads -> Int]
  /\ global_watched \in Controllers
  /\ mapped \subseteq Pages
  /\ prot \in [Pages -> {"R", "RW", "X"}]
  /\ current_perm \in [Pages -> {"R", "RW", "X"}]
  /\ unsafe \subseteq Pages

\* None of the assertions of add_breakpoint_wrapper,
\* other_thread_add_breakpoint_wrapper and update_active_thread_list fails: the
\* synchronizer is reset when a session starts, a follower finds the page, the
\* count covers each of its two decrements, every thread signalled exists, and
\* the list changes only between sessions.
AssertsHold ==
  crash \notin {"session_open", "no_segfault_page", "count_phase1",
                "count_phase2", "tgkill", "update_list_in_session"}

\* How far the holder of hbreakpoint_sync_mutex is.
Stage == IF hbreakpoint_sync_mutex = NoThread THEN "none"
         ELSE pc[hbreakpoint_sync_mutex]

\* The followers that still owe the decrement of the current phase.
Owing ==
  {u \in active_thread_list :
     /\ u # hbreakpoint_sync_mutex
     /\ \/ Stage = "c_wait1" /\ pc[u] # "f_hold"
        \/ Stage = "c_release"
        \/ Stage = "c_wait2" /\ pc[u] \in {"f_hold", "f_dec2"}}

\* The count that controller and followers wait for is right at every moment.
CountMatches == waiting_thread_count = Cardinality(Owing)

\* The controller is the thread between lock and unlock of hbreakpoint_sync_mutex.
ControllerHolds ==
  \A t \in Threads :
    /\ pc[t] \in ControllerPC \cup {"c_start", "c_wait2"}
         <=> hbreakpoint_sync_mutex = t
    /\ pc[t] \in ControllerPC <=> controller_thread = t

\* No follower is ever in a phase other than the controller's.
FollowersInPhase ==
  \A t \in Threads :
    /\ pc[t] \in {"same_page", "f_wait"} =>
         Stage \in {"c_page", "c_signal", "c_add", "c_publish", "c_wait1"}
    /\ pc[t] \in {"f_load", "f_add", "f_dec1"} => Stage = "c_wait1"
    /\ pc[t] = "f_hold" =>
         Stage \in {"c_wait1", "c_arm2", "c_release", "c_wait2"}
    /\ pc[t] = "f_dec2" => Stage = "c_wait2"
    /\ t \in active_thread_list /\ t # hbreakpoint_sync_mutex
         /\ Stage \in {"c_arm2", "c_release"} => pc[t] = "f_hold"

\* A thread is signalled exactly while it may have to follow.
ActiveMatches ==
  \A t \in Threads :
    t \in active_thread_list
      <=> pc[t] \notin {"idle", "dead", "n_register", "x_free"}

\* The page is published from the controller's second store to the end of phase 1.
PageMatches ==
  segfault_page # NoPage
    <=> Stage \in {"c_signal", "c_add", "c_publish", "c_wait1"}

\* The two-phase protocol of add_breakpoint_wrapper and
\* other_thread_add_breakpoint_wrapper: waiting_thread_count is at every moment the
\* number of active threads that owe a decrement, at most one thread is between
\* the lock and the unlock of hbreakpoint_sync_mutex, and no follower is in a
\* phase other than the controller's, across clones and exits.
PhaseAccounting ==
  /\ CountMatches
  /\ ControllerHolds
  /\ FollowersInPhase
  /\ ActiveMatches
  /\ PageMatches

\* A thread runs application code only with a breakpoint on every executable page
\* that is known to hold unsafe instructions.  For pages that are mapped W+X the
\* code does not keep this up: their scan writes current_perm too early.
GuardedExec ==
  \A t \in Threads, p \in (unsafe \cap mapped) \ WX :
    pc[t] = "app" /\ prot[p] = "X" => placed[t][p] > 0

\* Between sessions the page lists of all threads agree with the global copy, so
\* all of them evict the same page next and no follower places a page twice.
ListsAgree ==
  hbreakpoint_sync_mutex = NoThread =>
    \A t \in active_thread_list : watched[t] = global_watched

\* The count of free breakpoints is right: perf_event_open never runs out of them
\* and a full list always has a page to evict.
SlotsSuffice == crash \notin {"perf_event_open", "nothing_to_evict"}

\* Every page of a thread's list has its breakpoints in the kernel, no breakpoint
\* is open that the list has lost, and used_breakpoints counts the open ones.
SlotsMatch ==
  \A t \in Threads : /\ placed[t] = CountIn(watched[t].pages)
                     /\ events[t] = watched[t].used

\* A fault that finds a session open is served by it: the published page is there.
PagePublished == crash # "null_segfault_page"

-----------------------------------------------------------------------------
(* Liveness *)

\* A session that is opened is closed.
SessionEnds ==
  controller_thread # NoThread
    ~> controller_thread = NoThread \/ crash # "none"

\* Some thread spins for ever in the plain lock() of signal_handler_switch, which
\* follows nobody.
LockedOut == <>[](\E t \in Threads : pc[t] = "lock")

\* Sessions are opened and closed without end.
SessionsForever ==
  []<>(controller_thread # NoThread) /\ []<>(controller_thread = NoThread)

\* A thread that faults gets back to the application, unless a thread is locked
\* out or the others keep opening sessions: the spin lock has no queue.
FaultResolved ==
  \/ \A t \in Threads : pc[t] = "segv" ~> pc[t] = "app" \/ crash # "none"
  \/ LockedOut
  \/ SessionsForever

=============================================================================
