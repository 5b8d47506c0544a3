------------------------------ MODULE FdTable -------------------------------
(***************************************************************************)
(* File descriptors of the application and of the monitor                  *)
(* (virtualize_files.cpp, virtualize_files.h).  The monitor keeps a bitmap *)
(* of the descriptors that belong to the application.  A system call runs  *)
(* its list of handlers: the prehandler replaces a descriptor that is not  *)
(* marked by -1, the main handler makes the call, the posthandler marks    *)
(* the new descriptor.  Threads interleave between the handlers and within *)
(* them wherever the lock of the bitmap is not held.                       *)
(***************************************************************************)
EXTENDS Integers, Sequences, FiniteSets

CONSTANTS Threads,
          NFds,        \* size of the kernel's table of descriptors
          Calls,       \* system calls that the threads make, from DOMAIN HandlerList
          AppFds,      \* descriptors open when the bitmap is made
          MonFds,      \* descriptors the monitor may hold when the application starts
          Listing,     \* the descriptor of /proc/self/fd while the bitmap is made
          ByteBits,    \* bits of a byte of the bitmap
          WordBytes,   \* the bitmap grows by whole words
          Faults       \* what the environment may do, see below

(***************************************************************************)
(* Faults is a subset of                                                   *)
(*   "race"         threads close a descriptor another thread is using,    *)
(*   "close_error"  close reports an error although it closed,             *)
(*   "no_fd"        /proc/self/mem is opened when the table is full,       *)
(*   "listing"      threads name Listing, which is marked from the start,  *)
(*                  when it is not a descriptor of the application.        *)
(***************************************************************************)
ASSUME FdAssumption ==
    /\ NFds \in Nat
    /\ AppFds \subseteq 0 .. (NFds - 1)
    /\ MonFds \subseteq (0 .. (NFds - 1)) \ AppFds
    /\ Listing \in (0 .. (NFds - 1)) \ (AppFds \cup MonFds)
    /\ ByteBits \in Nat \ {0}
    /\ WordBytes \in Nat \ {0}

VARIABLES owner,     \* descriptor -> "none", "app", "mem" (/proc/self/mem) or "mon"
          bitmap,    \* size in bytes and the bits that are set
          mtx,       \* the thread that holds the lock exclusively
          stat,      \* stat_mem_init and whether stat_mem holds the right numbers
          th         \* thread -> its call

vars == <<owner, bitmap, mtx, stat, th>>

Fds == 0 .. (NFds - 1)
NoThread == "no thread"
AtCwd == -100
Bad == -1

\* The lists of handlers of the calls that are modelled here.
HandlerList ==
    [read   |-> <<"fd_first_argument", "default">>,
     dup    |-> <<"fd_first_argument", "default", "save_untrusted_fd">>,
     dup2   |-> <<"fd_first_second_argument", "default", "save_untrusted_fd">>,
     socket |-> <<"default", "save_untrusted_fd">>,
     open   |-> <<"open", "save_untrusted_fd">>,
     openat |-> <<"fd_first_argument", "open", "save_untrusted_fd">>,
     pipe   |-> <<"pipe">>,
     close  |-> <<"fd_first_argument", "close">>]

ASSUME CallsAssumption ==
    /\ Calls \subseteq DOMAIN HandlerList
    /\ NoThread \notin Threads

\* i is the handler that runs and pc the step in it.
Idle == [no |-> "none", i |-> 0, pc |-> 0, a1 |-> Bad, a2 |-> Bad, rax |-> Bad, tmp |-> Bad]

(***************************************************************************)
(* The bitmap.                                                             *)
(***************************************************************************)
Bytes(fd) == fd \div ByteBits

\* Variant of SetBit: the bitmap does not grow.
SetBitNoGrowth(b, fd) == [b EXCEPT !.bits = @ \cup {fd}]

SetBit(b, fd) ==
    IF Bytes(fd) >= b.size
    THEN [size |-> ((Bytes(fd) \div WordBytes) + 1) * WordBytes, bits |-> b.bits \cup {fd}]
    ELSE [b EXCEPT !.bits = @ \cup {fd}]

UnsetBit(b, fd) == IF Bytes(fd) >= b.size THEN b ELSE [b EXCEPT !.bits = @ \ {fd}]

\* A negative number is a large size_t.
ReadBit(b, fd) == fd >= 0 /\ Bytes(fd) < b.size /\ fd \in b.bits

Unlocked == mtx = NoThread

(***************************************************************************)
(* The dispatcher and the steps of a handler.                              *)
(***************************************************************************)
At(t, handler, pc) ==
    /\ th[t].no # "none"
    /\ th[t].pc = pc
    /\ HandlerList[th[t].no][th[t].i] = handler

\* The next handler of the list, or back to the application at its end.
NextHandler(t, r) ==
    th' = [th EXCEPT ![t] = IF r.i < Len(HandlerList[r.no])
                            THEN [r EXCEPT !.i = @ + 1, !.pc = 0] ELSE Idle]

NextStep(t, r) == th' = [th EXCEPT ![t] = [r EXCEPT !.pc = @ + 1]]

\* The descriptors that a call names, and the one that it closes.
Named(r) == {r.a1, r.a2} \cap Fds
Closed(r) == IF r.no = "close" THEN {r.a1} \cap Fds
             ELSE IF r.no = "dup2" THEN {r.a2} \cap Fds ELSE {}

CallOf(no, a1, a2) ==
    [no |-> no, i |-> 1, pc |-> 0, a1 |-> a1, a2 |-> a2, rax |-> Bad, tmp |-> Bad]

secpoline_syscall_handler(t, no, a1, a2) ==
    /\ th[t] = Idle
    /\ th' = [th EXCEPT ![t] = CallOf(no, a1, a2)]
    /\ UNCHANGED <<owner, bitmap, mtx, stat>>

\* An assumption on the application, which the code does not enforce: without the
\* faults "race" and "listing" thread t does not make call r when another thread's
\* call closes a descriptor of r or names the one that r closes, or to use Listing.
Considerate(t, r) ==
    /\ "race" \in Faults \/ \A u \in Threads \ {t} :
          Closed(r) \cap Named(th[u]) = {} /\ Closed(th[u]) \cap Named(r) = {}
    /\ "listing" \in Faults \/ Listing \notin Named(r) \/ owner[Listing] = "app"

(***************************************************************************)
(* The prehandlers.  Both refuse a call by overwriting the first argument. *)
(***************************************************************************)
Checked(r, fd) == IF ReadBit(bitmap, fd) THEN r ELSE [r EXCEPT !.a1 = Bad]

fd_first_argument_prehandler(t) ==
    /\ At(t, "fd_first_argument", 0)
    /\ th[t].a1 >= 0 => Unlocked
    /\ NextHandler(t, IF th[t].a1 < 0 THEN th[t] ELSE Checked(th[t], th[t].a1))
    /\ UNCHANGED <<owner, bitmap, mtx, stat>>

\* Two look-ups, each of which takes the lock.
FirstOfTwo(t) ==
    /\ At(t, "fd_first_second_argument", 0)
    /\ Unlocked
    /\ NextStep(t, Checked(th[t], th[t].a1))
    /\ UNCHANGED <<owner, bitmap, mtx, stat>>

SecondOfTwo(t) ==
    /\ At(t, "fd_first_second_argument", 1)
    /\ Unlocked
    /\ NextHandler(t, Checked(th[t], th[t].a2))
    /\ UNCHANGED <<owner, bitmap, mtx, stat>>

(***************************************************************************)
(* The kernel.                                                             *)
(***************************************************************************)
Free == {fd \in Fds : owner[fd] = "none"}
IsOpen(fd) == fd \in Fds /\ owner[fd] # "none"

\* The lowest free descriptor.
IsLowest(fd) == fd \in Free /\ \A g \in Free : fd <= g

\* Before stat_mem is known, without "no_fd", a descriptor is left for each thread.
Spare(n) == "no_fd" \in Faults \/ stat.init \/ Cardinality(Free) >= Cardinality(Threads) + n

\* A call that makes a new descriptor: it may fail, and does when there is none.
Creates(t, kind) ==
    \/ \E fd \in Free : /\ IsLowest(fd) /\ Spare(1)
                        /\ owner' = [owner EXCEPT ![fd] = kind]
                        /\ NextHandler(t, [th[t] EXCEPT !.rax = fd])
    \/ owner' = owner /\ NextHandler(t, [th[t] EXCEPT !.rax = Bad])

Fails(t) == owner' = owner /\ NextHandler(t, [th[t] EXCEPT !.rax = Bad])

\* The default main handler makes the call as it is.
DefaultRead(t) ==
    /\ At(t, "default", 0) /\ th[t].no = "read"
    /\ NextHandler(t, th[t])
    /\ UNCHANGED <<owner, bitmap, mtx, stat>>

DefaultCreate(t) ==
    /\ At(t, "default", 0) /\ th[t].no \in {"dup", "socket"}
    /\ IF th[t].no = "dup" /\ ~IsOpen(th[t].a1) THEN Fails(t)
       ELSE Creates(t, IF th[t].no = "dup" THEN owner[th[t].a1] ELSE "app")
    /\ UNCHANGED <<bitmap, mtx, stat>>

\* dup2 closes its second argument on the way.
DefaultDup2(t) ==
    /\ At(t, "default", 0) /\ th[t].no = "dup2"
    /\ IF IsOpen(th[t].a1) /\ th[t].a2 \in Fds
       THEN /\ owner' = [owner EXCEPT ![th[t].a2] = owner[th[t].a1]]
            /\ NextHandler(t, [th[t] EXCEPT !.rax = th[t].a2])
       ELSE Fails(t)
    /\ UNCHANGED <<bitmap, mtx, stat>>

(***************************************************************************)
(* open: learn what /proc/self/mem is, open, refuse it.                    *)
(***************************************************************************)
\* Variant of OpenMemFile: stat_mem_init is set before the file is looked at.
OpenMemFileFirst(t) ==
    /\ At(t, "open", 0)
    /\ IF stat.init THEN UNCHANGED <<owner, stat>> /\ th' = [th EXCEPT ![t].pc = 3]
       ELSE /\ \E fd \in Free : /\ IsLowest(fd)
                                /\ owner' = [owner EXCEPT ![fd] = "mon"]
                                /\ NextStep(t, [th[t] EXCEPT !.tmp = fd])
            /\ stat' = [stat EXCEPT !.init = TRUE]
    /\ UNCHANGED <<bitmap, mtx>>

OpenMemFile(t) ==
    /\ At(t, "open", 0)
    /\ IF stat.init THEN owner' = owner /\ th' = [th EXCEPT ![t].pc = 3]
       ELSE \/ \E fd \in Free : /\ IsLowest(fd)
                                /\ owner' = [owner EXCEPT ![fd] = "mon"]
                                /\ NextStep(t, [th[t] EXCEPT !.tmp = fd])
            \/ "no_fd" \in Faults /\ Free = {} /\ owner' = owner /\ NextStep(t, th[t])
    /\ UNCHANGED <<bitmap, mtx, stat>>

StatMemFile(t) ==
    /\ At(t, "open", 1)
    /\ stat' = [init |-> TRUE, valid |-> stat.valid \/ th[t].tmp \in Fds]
    /\ NextStep(t, th[t])
    /\ UNCHANGED <<owner, bitmap, mtx>>

CloseMemFile(t) ==
    /\ At(t, "open", 2)
    /\ owner' = IF th[t].tmp \in Fds THEN [owner EXCEPT ![th[t].tmp] = "none"] ELSE owner
    /\ NextStep(t, [th[t] EXCEPT !.tmp = Bad])
    /\ UNCHANGED <<bitmap, mtx, stat>>

OpenFile(t) ==
    /\ At(t, "open", 3)
    /\ \/ \E fd \in Free, kind \in {"app", "mem"} :
             /\ th[t].no = "openat" => th[t].a1 = AtCwd \/ IsOpen(th[t].a1)
             /\ IsLowest(fd)
             /\ owner' = [owner EXCEPT ![fd] = kind]
             /\ NextStep(t, [th[t] EXCEPT !.rax = fd])
       \/ Fails(t)
    /\ UNCHANGED <<bitmap, mtx, stat>>

\* fstat of the new file, and close when that fails or it is the forbidden one.
CheckFile(t) ==
    /\ At(t, "open", 4)
    /\ IF owner[th[t].rax] = "none" \/ (owner[th[t].rax] = "mem" /\ stat.valid)
       THEN /\ owner' = [owner EXCEPT ![th[t].rax] = "none"]
            /\ NextHandler(t, [th[t] EXCEPT !.rax = Bad])
       ELSE owner' = owner /\ NextHandler(t, th[t])
    /\ UNCHANGED <<bitmap, mtx, stat>>

(***************************************************************************)
(* pipe, the posthandler and close.                                        *)
(***************************************************************************)
PipeKernel(t) ==
    /\ At(t, "pipe", 0)
    /\ \/ \E fd, gd \in Free :
             /\ Spare(2)
             /\ IsLowest(fd) /\ fd # gd /\ \A d \in Free \ {fd} : gd <= d
             /\ owner' = [owner EXCEPT ![fd] = "app", ![gd] = "app"]
             /\ NextStep(t, [th[t] EXCEPT !.rax = fd, !.tmp = gd])
       \/ Fails(t)
    /\ UNCHANGED <<bitmap, mtx, stat>>

PipeFirst(t) ==
    /\ At(t, "pipe", 1)
    /\ Unlocked
    /\ bitmap' = SetBit(bitmap, th[t].rax)
    /\ NextStep(t, [th[t] EXCEPT !.rax = Bad])
    /\ UNCHANGED <<owner, mtx, stat>>

PipeSecond(t) ==
    /\ At(t, "pipe", 2)
    /\ Unlocked
    /\ bitmap' = SetBit(bitmap, th[t].tmp)
    /\ NextHandler(t, [th[t] EXCEPT !.tmp = Bad])
    /\ UNCHANGED <<owner, mtx, stat>>

save_untrusted_fd(t) ==
    /\ At(t, "save_untrusted_fd", 0)
    /\ th[t].rax >= 0 => Unlocked
    /\ bitmap' = IF th[t].rax < 0 THEN bitmap ELSE SetBit(bitmap, th[t].rax)
    /\ NextHandler(t, th[t])
    /\ UNCHANGED <<owner, mtx, stat>>

\* Variant of CloseLock: the lock is not taken.
CloseWithoutLock(t) ==
    /\ At(t, "close", 0)
    /\ NextStep(t, th[t])
    /\ UNCHANGED <<owner, bitmap, mtx, stat>>

CloseLock(t) ==
    /\ At(t, "close", 0)
    /\ Unlocked
    /\ mtx' = t
    /\ NextStep(t, th[t])
    /\ UNCHANGED <<owner, bitmap, stat>>

\* An error leaves the bit; close reports one for a descriptor that is not open.
CloseKernel(t) ==
    /\ At(t, "close", 1)
    /\ IF IsOpen(th[t].a1)
       THEN /\ owner' = [owner EXCEPT ![th[t].a1] = "none"]
            /\ \/ NextStep(t, th[t]) /\ mtx' = mtx
               \/ "close_error" \in Faults /\ NextHandler(t, th[t]) /\ mtx' = NoThread
       ELSE Fails(t) /\ mtx' = NoThread
    /\ UNCHANGED <<bitmap, stat>>

CloseUnset(t) ==
    /\ At(t, "close", 2)
    /\ bitmap' = UnsetBit(bitmap, th[t].a1)
    /\ mtx' = NoThread
    /\ NextHandler(t, th[t])
    /\ UNCHANGED <<owner, stat>>

(***************************************************************************)
(* The monitor opens and closes descriptors for itself (perf events of the *)
(* breakpoints, /proc files) while the threads are in their calls.         *)
(***************************************************************************)
MonitorOpen ==
    /\ Spare(1)
    /\ \E fd \in Free : IsLowest(fd) /\ owner' = [owner EXCEPT ![fd] = "mon"]
    /\ UNCHANGED <<bitmap, mtx, stat, th>>

\* Not the temporary descriptor of a thread that is in open.
MonitorClose ==
    /\ \E fd \in Fds : /\ owner[fd] = "mon"
                       /\ \A t \in Threads : th[t].tmp # fd
                       /\ owner' = [owner EXCEPT ![fd] = "none"]
    /\ UNCHANGED <<bitmap, mtx, stat, th>>

\* The constructor marks what /proc/self/fd lists, the directory itself included.
InitialBits == AppFds \cup {Listing}

Init ==
    /\ owner \in {[fd \in Fds |-> IF fd \in AppFds THEN "app"
                                  ELSE IF fd \in M THEN "mon" ELSE "none"] : M \in SUBSET MonFds}
    /\ \E fd \in InitialBits :
          /\ \A gd \in InitialBits : gd <= fd
          /\ bitmap = [SetBit([size |-> 1, bits |-> {}], fd) EXCEPT !.bits = InitialBits]
    /\ mtx = NoThread
    /\ stat = [init |-> FALSE, valid |-> FALSE]
    /\ th = [t \in Threads |-> Idle]

Step(t) ==
    \/ fd_first_argument_prehandler(t) \/ FirstOfTwo(t) \/ SecondOfTwo(t)
    \/ DefaultRead(t) \/ DefaultCreate(t) \/ DefaultDup2(t)
    \/ OpenMemFile(t) \/ StatMemFile(t) \/ CloseMemFile(t) \/ OpenFile(t) \/ CheckFile(t)
    \/ PipeKernel(t) \/ PipeFirst(t) \/ PipeSecond(t)
    \/ save_untrusted_fd(t)
    \/ CloseLock(t) \/ CloseKernel(t) \/ CloseUnset(t)

\* The arguments that matter: one descriptor, two for dup2, a directory for openat.
Args(no) ==
    CASE no \in {"socket", "open", "pipe"} -> {<<Bad, Bad>>}
      [] no = "dup2" -> Fds \X Fds
      [] no = "openat" -> (Fds \cup {AtCwd}) \X {Bad}
      [] OTHER -> Fds \X {Bad}

Next ==
    \/ \E t \in Threads, no \in Calls : \E a \in Args(no) :
          /\ Considerate(t, CallOf(no, a[1], a[2]))
          /\ secpoline_syscall_handler(t, no, a[1], a[2])
    \/ \E t \in Threads : Step(t)
    \/ MonitorOpen
    \/ MonitorClose

Spec == Init /\ [][Next]_vars

(***************************************************************************)
(* Properties.                                                             *)
(***************************************************************************)
\* Types.  The bits that are set lie within the bitmap, which set_bit has to grow.
TypeOK ==
    /\ owner \in [Fds -> {"none", "app", "mem", "mon"}]
    /\ bitmap.size \in Nat \ {0}
    /\ bitmap.bits \subseteq {fd \in Fds : Bytes(fd) < bitmap.size}
    /\ mtx \in Threads \cup {NoThread}
    /\ stat \in [init : BOOLEAN, valid : BOOLEAN]
    /\ \A t \in Threads : /\ th[t].no \in DOMAIN HandlerList \cup {"none"}
                          /\ {th[t].a1, th[t].a2, th[t].rax, th[t].tmp} \subseteq Fds \cup {Bad, AtCwd}

\* Descriptors that a call has made and not yet marked, and the one that close
\* has closed and not yet unmarked.
IsFresh(t, fd) ==
    \/ fd = th[t].rax /\ (At(t, "open", 4) \/ At(t, "pipe", 1)
                          \/ (At(t, "save_untrusted_fd", 0) /\ th[t].no # "dup2"))
    \/ fd = th[t].tmp /\ (At(t, "pipe", 1) \/ At(t, "pipe", 2))
IsUnclosed(t, fd) == fd = th[t].a1 /\ At(t, "close", 2)

\* A descriptor that is marked is one of the application: not one of the monitor,
\* not /proc/self/mem, and not one that the next open could give to them; apart
\* from the descriptor with which the constructor read /proc/self/fd, and from
\* the one that close holds the lock for.
MarkedIsApp ==
    \A fd \in bitmap.bits \ {Listing} :
        owner[fd] = "app" \/ \E t \in Threads : mtx = t /\ IsUnclosed(t, fd)

\* Every descriptor of the application is marked, unless the call that makes it
\* has not returned: another thread's close of the same number takes no mark away.
AppIsMarked ==
    \A fd \in Fds : owner[fd] = "app" =>
        fd \in bitmap.bits \/ \E t \in Threads : IsFresh(t, fd)

\* A thread whose main handler is about to give the kernel its arguments; with
\* the first one refused, the kernel only looks at -1.
AtKernel(t) ==
    /\ At(t, "default", 0) \/ At(t, "close", 1) \/ At(t, "open", 3)
    /\ th[t].a1 # Bad

\* No main handler gives the kernel a descriptor of the monitor: what the prehandler
\* has read in the bitmap still holds when the call is made.
MonitorUntouched ==
    \A t \in Threads : AtKernel(t) => \A fd \in Named(th[t]) : owner[fd] # "mon"

=============================================================================
