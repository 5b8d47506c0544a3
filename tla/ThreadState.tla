---------------------------- MODULE ThreadState ----------------------------
(***************************************************************************)
(* One thread under the interposer: the assembly that moves it between the *)
(* application and the monitor, and the signals that can arrive anywhere   *)
(* in that assembly.  The sources are asm_entry_points.asm,                *)
(* asm_syscall_hook.asm, asm_syscall.asm, signal_handler_entry.asm,        *)
(* restore_selector_trampoline.asm and the C++ they call.                  *)
(*                                                                         *)
(* The thread's state is its registers (cpu), its GSRelativeData (gs), the *)
(* contents of its two stacks and of its sigreturn stack (mem), what the   *)
(* kernel knows of it (kern) and the table of application handlers (hand). *)
(* A stack pointer is a stack and a depth: T the secure stack, U the       *)
(* application's.  A depth counts items (a frame, a spilled register), so  *)
(* the deeper of two pointers is the one with the larger depth.            *)
(***************************************************************************)
EXTENDS Integers, Sequences, SequencesExt

CONSTANTS Interruptible,   \* labels at which an asynchronous signal may arrive
          MaxSignals,      \* bound on the signals being handled at once
          Requests,        \* the <<signal, handler>> pairs the application asks for
          Starts           \* "boot" (the main thread), "child" (a cloned thread)

VARIABLES cpu, gs, mem, kern, hand, snaps, crash

vars == <<cpu, gs, mem, kern, hand, snaps, crash>>

Sigs == {"usr", "segv"}
T(d) == [s |-> "T", d |-> d]
U(d) == [s |-> "U", d |-> d]
Zero == [s |-> "0", d |-> 0]
Dfl == [act |-> "dfl", reset |-> FALSE]
NoAlt == -1                \* the kernel has no alternate stack for the thread

At(l) == cpu.pc = l /\ crash = "none"
Goto(l) == cpu' = [cpu EXCEPT !.pc = l]
CpuOnly == UNCHANGED <<gs, mem, kern, hand, snaps, crash>>
CpuGs == UNCHANGED <<mem, kern, hand, snaps, crash>>
CpuMem == UNCHANGED <<gs, kern, hand, snaps, crash>>
CpuGsMem == UNCHANGED <<kern, hand, snaps, crash>>
Stop(why) == /\ crash' = why
             /\ UNCHANGED <<cpu, gs, mem, kern, hand, snaps>>

(***************************************************************************)
(* The instructions that recur in the assembly, from label l to label m.   *)
(***************************************************************************)
Wrpkru(l, m, v) ==
    /\ At(l)
    /\ cpu' = [cpu EXCEPT !.pc = m, !.pkru = v]
    /\ CpuOnly

\* wrpkru, then a ud2 unless compartment_id is TS_MONITOR
WrpkruMonitor(l, m, v) ==
    /\ At(l)
    /\ IF gs.comp = "MON" THEN Wrpkru(l, m, v) ELSE Stop("check")

SetSel(l, m, v) == At(l) /\ Goto(m) /\ gs' = [gs EXCEPT !.sel = v] /\ CpuGs

SetComp(l, m, v) == At(l) /\ Goto(m) /\ gs' = [gs EXCEPT !.comp = v] /\ CpuGs

\* xchg %rsp, %gs:SECURE_STACK_SP_OFFSET
SwapStacks(l, m) ==
    /\ At(l)
    /\ cpu' = [cpu EXCEPT !.pc = m, !.sp = gs.ssp]
    /\ gs' = [gs EXCEPT !.ssp = cpu.sp]
    /\ CpuGs

\* rdfsbase r; xchg r, %gs:FS_BASE_OFFSET at l; wrfsbase r at m
SwapTls(l, m, n, r) ==
    \/ /\ At(l)
       /\ cpu' = [cpu EXCEPT !.pc = m, !.reg[r] = gs.fs]
       /\ gs' = [gs EXCEPT !.fs = cpu.fs]
       /\ CpuGs
    \/ /\ At(m)
       /\ cpu' = [cpu EXCEPT !.pc = n, !.fs = cpu.reg[r]]
       /\ CpuOnly

\* A store at sigreturn_stack.current (at l), then current++ (at m).
PushSig(l, m, n, v) ==
    \/ /\ At(l)
       /\ Goto(m)
       /\ mem' = [mem EXCEPT !.sig = Append(SubSeq(@, 1, gs.sig), v)]
       /\ CpuMem
    \/ /\ At(m)
       /\ Goto(n)
       /\ gs' = [gs EXCEPT !.sig = @ + 1]
       /\ CpuGs

\* current-- at l; the load of the slot follows at m.
DecSig(l, m) ==
    /\ At(l)
    /\ Goto(m)
    /\ gs' = [gs EXCEPT !.sig = @ - 1]
    /\ CpuGs

SigSlot == mem.sig[gs.sig + 1]
\* No slot above the loaded one is read again before it is written.
DropSlot == [mem EXCEPT !.sig = SubSeq(@, 1, gs.sig)]

(***************************************************************************)
(* The two stacks.  A write at a pointer destroys what lies deeper.        *)
(***************************************************************************)
Down(sp) == [sp EXCEPT !.d = @ + 1]
Up(sp) == [sp EXCEPT !.d = @ - 1]
Contents(sp) == IF sp.s = "T" THEN mem.sec ELSE mem.app
OnStack(sp, items) ==
    IF sp.s = "T" THEN [mem EXCEPT !.sec = SubSeq(@, 1, sp.d) \o items]
                  ELSE [mem EXCEPT !.app = SubSeq(@, 1, sp.d) \o items]
Item(sp) == Contents(sp)[sp.d]
HasItem(sp, k) == /\ sp.s \in {"T", "U"}
                  /\ sp.d \in 1 .. Len(Contents(sp))
                  /\ Item(sp).k = k

Call(l, m) ==
    /\ At(l)
    /\ cpu' = [cpu EXCEPT !.pc = m, !.sp = Down(@)]
    /\ mem' = OnStack(cpu.sp, <<[k |-> "ret", pc |-> l]>>)
    /\ CpuMem

Ret(l) ==
    /\ At(l)
    /\ IF HasItem(cpu.sp, "ret")
       THEN /\ cpu' = [cpu EXCEPT !.pc = Item(cpu.sp).pc, !.sp = Up(@)]
            /\ mem' = OnStack(Up(cpu.sp), <<>>)
            /\ CpuMem
       ELSE Stop("stack")

(***************************************************************************)
(* The kernel: it saves the registers in a frame on the alternate stack    *)
(* (at its top, or where the thread is when it runs on it already), and    *)
(* starts a handler with its default PKRU.  fs is not saved.               *)
(***************************************************************************)
FrameDepth == IF cpu.sp.s = "T" /\ cpu.sp.d >= kern.top THEN cpu.sp.d ELSE kern.top

Deliver(entry, s, masked) ==
    /\ cpu' = [cpu EXCEPT !.pc = entry, !.sp = T(FrameDepth + 1), !.pkru = "SIG",
                          !.mask = masked, !.signo = s,
                          !.reg = [r9 |-> "k", rx |-> "k"]]
    /\ mem' = OnStack(T(FrameDepth), <<[k |-> "frame", c |-> cpu]>>)

\* sigaltstack fails with EPERM when the thread runs on the alternate stack.
Sigaltstack(l, m) ==
    /\ At(l)
    /\ IF cpu.sp.s = "T" /\ kern.top # NoAlt
       THEN Stop("check")
       ELSE /\ Goto(m)
            /\ kern' = [kern EXCEPT !.top = gs.alt]
            /\ UNCHANGED <<gs, mem, hand, snaps, crash>>

\* What an interrupted context finds again when it is resumed.  rsp is 0 only
\* around a sigaltstack call, where r9 holds its value.
Snap == [pc |-> cpu.pc, sp |-> IF cpu.sp = Zero THEN cpu.reg.r9 ELSE cpu.sp,
         fs |-> cpu.fs, reg |-> cpu.reg, gs |-> gs, top |-> kern.top]

\* An asynchronous signal: from another thread or process, or the SIGSEGV by
\* which a breakpoint session calls its followers.
Signal(s) ==
    /\ crash = "none"
    /\ cpu.pc \in Interruptible
    /\ ~cpu.mask
    /\ Len(snaps) < MaxSignals
    /\ kern.disp[s].act = "wrap"
    /\ IF kern.top = NoAlt /\ cpu.sp.s # "T" THEN Stop("frame") ELSE
       /\ Deliver("sig0", s, kern.disp[s].full)
       /\ kern' = [kern EXCEPT !.disp[s].act =
                                  IF kern.disp[s].reset THEN "dfl" ELSE @]
       /\ snaps' = Append(snaps, Snap)
       /\ UNCHANGED <<gs, hand, crash>>

\* A syscall instruction while the selector is BLOCK: SIGSYS, all signals masked.
Sigsys(l) ==
    /\ At(l)
    /\ gs.sel = "BLOCK"
    /\ Deliver("sud0", "sys", TRUE)
    /\ CpuMem

(***************************************************************************)
(* The system call path.                                                   *)
(***************************************************************************)
\* A rewritten syscall instruction: call *%rax into the sled at address 0.
AppCall == Call("app", "hook0")

SyscallHookEntry ==
    \/ gs.comp # "APP" /\ At("hook0") /\ Goto("meta0") /\ CpuOnly
    \/ gs.comp = "APP" /\ Wrpkru("hook0", "hook1", "TRUSTED")
    \/ SetSel("hook1", "hook2", "BLOCK")
    \/ SwapStacks("hook2", "hook3")
    \/ SwapTls("hook3", "hook4", "hook5", "rx")
    \/ SetComp("hook5", "ash0", "MON")

\* push_gp_regs, and the vector registers to the next xsave area
PushRegs ==
    /\ At("ash0")
    /\ cpu' = [cpu EXCEPT !.pc = "mon", !.sp = Down(@)]
    /\ mem' = OnStack(cpu.sp, <<[k |-> "gprs", r9 |-> cpu.reg.r9]>>)
    /\ gs' = [gs EXCEPT !.xsave = @ + 1]
    /\ CpuGsMem

\* secpoline_syscall_handler has returned: emulate tells whether it was a clone.
PopRegs ==
    /\ At("mon")
    /\ HasItem(cpu.sp, "gprs")
    /\ \E emulate \in BOOLEAN :
          cpu' = [cpu EXCEPT !.pc = IF emulate THEN "clone0" ELSE "exit0",
                             !.sp = Up(@), !.reg.r9 = Item(cpu.sp).r9]
    /\ mem' = OnStack(Up(cpu.sp), <<>>)
    /\ gs' = [gs EXCEPT !.xsave = @ - 1]
    /\ CpuGsMem

LowerPrivileges ==
    \/ SetComp("exit3", "exit4", "APP")
    \/ SetSel("exit4", "exit5", "BLOCK")
    \/ Wrpkru("exit5", "exit6", "REVOKE")

DoNothing ==
    \/ SwapTls("exit0", "exit1", "exit2", "rx")
    \/ SwapStacks("exit2", "exit3")
    \/ LowerPrivileges
    \/ Ret("exit6")

(***************************************************************************)
(* System calls that the monitor makes: on behalf of the application with  *)
(* do_syscall_untrusted, on its own through meta_syscall_hook.             *)
(***************************************************************************)
DoSyscallUntrusted ==
    \/ Call("mon", "unt0")
    \/ SetSel("unt0", "unt1", "ALLOW")
    \/ Wrpkru("unt1", "unt2", "REVOKE")
    \/ At("unt2") /\ Goto("unt3") /\ CpuOnly
    \/ WrpkruMonitor("unt3", "unt4", "TRUSTED")
    \/ SetSel("unt4", "unt5", "BLOCK")
    \/ Ret("unt5")

MetaSyscallHook ==
    \/ Call("mon", "hook0")
    \/ SetSel("meta0", "meta1", "ALLOW")
    \/ SetSel("meta1", "meta2", "BLOCK")
    \/ Ret("meta2")

(***************************************************************************)
(* clone: the application's return address goes to the child's stack with  *)
(* the application's permissions; the call itself is made with the         *)
(* application's TLS and full permissions.                                 *)
(***************************************************************************)
CloneParent ==
    \/ Wrpkru("clone0", "clone1", "REVOKE")
    \/ WrpkruMonitor("clone1", "clone2", "TRUSTED")
    \/ SwapTls("clone2", "clone3", "clone4", "rx")
    \/ SetSel("clone4", "clone5", "ALLOW")
    \/ WrpkruMonitor("clone5", "clone6", "FULL")
    \/ SwapTls("clone6", "clone7", "clone8", "rx")
    \/ SetSel("clone8", "exit0", "BLOCK")

(***************************************************************************)
(* SIGSYS.  All signals are masked until handle_sigsys unmasks them.  The  *)
(* handler leaves a frame that resumes at syscall_hook_entry, as if the    *)
(* rewritten instruction had called it.                                    *)
(***************************************************************************)
SudEntry ==
    /\ At("sud0")
    /\ cpu' = [cpu EXCEPT !.pc = "hs0", !.pkru = "TRUSTED", !.sp = Down(@), !.mask = FALSE,
                          !.fs = IF gs.comp = "MON" THEN @ ELSE gs.fs]
    /\ gs' = [gs EXCEPT !.comp = "MON", !.sel = "ALLOW",
                        !.fs = IF gs.comp = "MON" THEN @ ELSE cpu.fs,
                        !.ssp = IF gs.comp = "MON" THEN @ ELSE Item(cpu.sp).c.sp]
    /\ mem' = OnStack(cpu.sp, <<[k |-> "sys", coe |-> gs.comp, ssp |-> gs.ssp]>>)
    /\ CpuGsMem

\* The return address goes below the interrupted stack pointer: on the secure
\* stack that is the red zone above the frame, so the push shows on the return.
HandleSigsys ==
    /\ At("hs0")
    /\ LET me == Item(cpu.sp)
           f == mem.sec[cpu.sp.d - 1]
           g == [f EXCEPT !.c.pc = "hook0", !.c.sp = Down(@)]
           m == [mem EXCEPT !.sec[cpu.sp.d - 1] = g]
           ret == <<[k |-> "ret", pc |-> f.c.pc]>>
       IN /\ mem' = IF me.coe = "MON" THEN m
                    ELSE [m EXCEPT !.app = SubSeq(@, 1, f.c.sp.d) \o ret]
          /\ gs' = [gs EXCEPT !.comp = me.coe]
    /\ Goto("hs1")
    /\ CpuGsMem

SudReturn ==
    \/ /\ At("hs1")
       /\ Goto(IF gs.comp = "MON" THEN "hs4" ELSE "hs2")
       /\ gs' = [gs EXCEPT !.ssp = IF gs.comp = "MON" THEN @ ELSE Item(cpu.sp).ssp]
       /\ CpuGs
    \/ SwapTls("hs2", "hs3", "hs4", "r9")
    \/ /\ At("hs4")
       /\ LET d == cpu.sp.d - 1
              c == mem.sec[d].c
          IN /\ cpu' = [c EXCEPT !.fs = cpu.fs]
             /\ mem' = [mem EXCEPT !.sec = SubSeq(@, 1, d - 1) \o
                          IF c.sp.s = "T" THEN <<[k |-> "ret", pc |-> "mon"]>> ELSE <<>>]
       /\ CpuMem

(***************************************************************************)
(* Any other signal: asm_signal_entry and signal_handler_switch.           *)
(***************************************************************************)
\* Variant of AsmSignalEntry: the handler runs with the interrupted TLS.
AsmSignalEntryNoTls ==
    \/ /\ At("sig0")
       /\ cpu' = [cpu EXCEPT !.pc = IF gs.comp = "MON" THEN "sw0" ELSE "sig1",
                             !.pkru = "TRUSTED"]
       /\ CpuOnly
    \/ /\ At("sig1")
       /\ cpu' = [cpu EXCEPT !.pc = "sig2", !.reg.rx = gs.ssp]
       /\ gs' = [gs EXCEPT !.ssp = Item(cpu.sp).c.sp]
       /\ CpuGs
    \/ PushSig("sig2", "sig3", "sw0", cpu.reg.rx)

AsmSignalEntry ==
    \/ /\ At("sig0")
       /\ cpu' = [cpu EXCEPT !.pc = IF gs.comp = "MON" THEN "sw0" ELSE "sig1",
                             !.pkru = "TRUSTED"]
       /\ CpuOnly
    \/ /\ At("sig1")
       /\ cpu' = [cpu EXCEPT !.pc = "sig2", !.reg.rx = gs.ssp]
       /\ gs' = [gs EXCEPT !.ssp = Item(cpu.sp).c.sp]
       /\ CpuGs
    \/ PushSig("sig2", "sig3", "sig4", cpu.reg.rx)
    \/ SwapTls("sig4", "sig5", "sw0", "r9")

\* The locals of signal_handler_switch are one item on the secure stack.
Local == Item(cpu.sp)
\* The kernel's frame lies before them.
Frame == mem.sec[cpu.sp.d - 1]

SwitchEntry ==
    \/ /\ At("sw0")
       /\ cpu' = [cpu EXCEPT !.pc = "sw1", !.sp = Down(@), !.signo = "none"]
       /\ mem' = OnStack(cpu.sp, <<[k |-> "local", coe |-> gs.comp, soe |-> gs.sel,
                                    sig |-> cpu.signo, usp |-> Zero]>>)
       /\ gs' = [gs EXCEPT !.comp = "MON"]
       /\ CpuGsMem
    \/ SetSel("sw1", "sw2", "ALLOW")

\* SIGSEGV: from a breakpoint session (handled here), or a fault of the
\* application, which its own handler gets unless the page was an unsafe one.
\* Then all signals are unmasked.
SwitchInternal ==
    /\ At("sw2")
    /\ \E handled \in BOOLEAN :
          /\ handled => Local.sig = "segv"
          /\ ~handled => \/ Local.sig = "usr"
                         \/ /\ Frame.c.pc = "app"
                            /\ hand.table["segv"].act = "app"
          /\ cpu' = [cpu EXCEPT !.pc = IF handled THEN "sw4" ELSE "sw3", !.mask = FALSE]
    /\ CpuOnly

SwitchBlock ==
    \/ SetSel("sw3", "wrap0", "BLOCK")
    \/ SetSel("sw4", "push0", "BLOCK")

\* The untrusted stack pointer moves below the copies handed to the handler;
\* memcpy_trusted_to_untrusted faults when it does not point to untrusted memory.
WrapSignalHandler ==
    /\ At("wrap0")
    /\ IF gs.ssp.s # "U" THEN Stop("mpk_check") ELSE
       /\ Goto("inv0")
       /\ gs' = [gs EXCEPT !.ssp = Down(@)]
       /\ mem' = [mem EXCEPT !.sec[cpu.sp.d].usp = gs.ssp,
                             !.app = Append(SubSeq(@, 1, gs.ssp.d), [k |-> "info"])]
       /\ CpuGsMem

\* Where the application may go on: in its main program or in a handler that has
\* not returned.  The pointers of the monitor's memory are no points of its stack.
AppPoints == {0} \cup {d \in 1 .. Local.usp.d : mem.app[d].k = "hret"}

\* An assumption on the application: its handlers do not redirect a context in which
\* the selector is open (syscall_hook_entry after a SIGSYS).
Redirects == Local.soe = "BLOCK"

\* Variant of WrapReturn: the context is copied back whoever was interrupted.
WrapReturnAlways ==
    /\ At("wrap1")
    /\ Goto("push0")
    /\ gs' = [gs EXCEPT !.ssp = Local.usp]
    /\ \/ mem' = OnStack(Local.usp, <<>>)
       \/ \E d \in AppPoints :
             mem' = [OnStack(Local.usp, <<>>) EXCEPT !.sec[cpu.sp.d - 1].c =
                       [@ EXCEPT !.pc = "app", !.sp = U(d)]]
    /\ snaps' = IF Local.coe = "MON" THEN snaps
                ELSE [snaps EXCEPT ![Len(snaps)] = [@ EXCEPT !.pc = mem'.sec[cpu.sp.d - 1].c.pc,
                                                            !.sp = mem'.sec[cpu.sp.d - 1].c.sp]]
    /\ UNCHANGED <<kern, hand, crash>>

\* If the application was interrupted, the context that its handler leaves in its copy
\* goes back into the frame: as it was, or resuming the application elsewhere, with
\* its stack cut back.  snaps follows: that is what the signal now has to resume.
WrapReturn ==
    /\ At("wrap1")
    /\ Goto("push0")
    /\ gs' = [gs EXCEPT !.ssp = Local.usp]
    /\ \/ mem' = OnStack(Local.usp, <<>>) /\ snaps' = snaps
       \/ /\ Local.coe = "APP" /\ Redirects
          /\ \E d \in AppPoints :
                /\ mem' = [OnStack(Local.usp, <<>>) EXCEPT !.sec[cpu.sp.d - 1].c =
                            [@ EXCEPT !.pc = "app", !.sp = U(d)]]
                /\ snaps' = [snaps EXCEPT ![Len(snaps)] =
                              [@ EXCEPT !.pc = "app", !.sp = U(d)]]
    /\ UNCHANGED <<kern, hand, crash>>

(***************************************************************************)
(* The table of application handlers.  Its spin lock is held over the      *)
(* look-up and over a whole rt_sigaction; signals are not masked meanwhile.*)
(***************************************************************************)
\* Variant of InvokeAppSpecificHandler: SA_RESETHAND is left to the kernel.
InvokeWithoutReset ==
    \/ /\ At("inv0")
       /\ ~hand.mut
       /\ Goto("inv1")
       /\ hand' = [hand EXCEPT !.mut = TRUE]
       /\ UNCHANGED <<gs, mem, kern, snaps, crash>>
    \/ /\ At("inv1")
       /\ IF hand.table[Local.sig].act # "app" THEN Stop("no_handler") ELSE
          /\ Goto("cah0")
          /\ hand' = [hand EXCEPT !.mut = FALSE]
          /\ UNCHANGED <<gs, mem, kern, snaps, crash>>

InvokeAppSpecificHandler ==
    \/ /\ At("inv0")
       /\ ~hand.mut
       /\ Goto("inv1")
       /\ hand' = [hand EXCEPT !.mut = TRUE]
       /\ UNCHANGED <<gs, mem, kern, snaps, crash>>
    \/ /\ At("inv1")
       /\ LET h == hand.table[Local.sig]
          IN IF h.act # "app" THEN Stop("no_handler") ELSE
             /\ Goto("cah0")
             /\ hand' = [mut |-> FALSE, table |-> IF h.reset
                           THEN [hand.table EXCEPT ![Local.sig] = Dfl] ELSE hand.table]
             /\ UNCHANGED <<gs, mem, kern, snaps, crash>>

\* The three signals whose kernel handler must stay: meta_monitor drops a new
\* action for them unless it installs asm_signal_entry.
MetaSigaction(q) ==
    IF q.sig = "segv" /\ q.act # "app" THEN kern.disp[q.sig]
    ELSE [act |-> IF q.act = "app" THEN "wrap" ELSE q.act,
          reset |-> q.reset /\ q.sig # "segv", full |-> FALSE]

HandleAppSigaction ==
    \/ /\ At("mon")
       /\ ~hand.mut
       /\ \E q \in Requests :
            /\ cpu' = [cpu EXCEPT !.pc = "sa0", !.sp = Down(@)]
            /\ mem' = OnStack(cpu.sp, <<[k |-> "req", q |-> q]>>)
            /\ hand' = [hand EXCEPT !.mut = TRUE, !.table[q.sig] =
                          IF q.sig = "segv" THEN [act |-> q.act, reset |-> FALSE] ELSE @]
       /\ UNCHANGED <<gs, kern, snaps, crash>>
    \/ /\ At("sa0")
       /\ Goto("sa1")
       /\ kern' = [kern EXCEPT !.disp[Local.q.sig] = MetaSigaction(Local.q)]
       /\ UNCHANGED <<gs, mem, hand, snaps, crash>>
    \/ /\ At("sa1")
       /\ cpu' = [cpu EXCEPT !.pc = "mon", !.sp = Up(@)]
       /\ mem' = OnStack(Up(cpu.sp), <<>>)
       /\ hand' = [mut |-> FALSE, table |-> [hand.table EXCEPT ![Local.q.sig] =
                     [act |-> Local.q.act, reset |-> Local.q.reset /\ Local.q.sig # "segv"]]]
       /\ UNCHANGED <<gs, kern, snaps, crash>>

(***************************************************************************)
(* call_app_handler.  The alternate stack is cut below the live part of    *)
(* the secure stack while the handler runs.  rsp is 0 around sigaltstack,  *)
(* which refuses to move the stack the thread is running on.               *)
(***************************************************************************)
\* Variant of MoveAltStack: the call is made on the stack it moves.
MoveAltStackOnStack(l1, l2, l3, l4, l5, n) ==
    \/ /\ At(l1)
       /\ cpu' = [cpu EXCEPT !.pc = l2, !.reg.r9 = cpu.sp]
       /\ CpuOnly
    \/ SetSel(l2, l3, "ALLOW")
    \/ Sigaltstack(l3, l4)
    \/ SetSel(l4, l5, "BLOCK")
    \/ /\ At(l5)
       /\ cpu' = [cpu EXCEPT !.pc = n, !.sp = cpu.reg.r9]
       /\ CpuOnly

MoveAltStack(l1, l2, l3, l4, l5, n) ==
    \/ /\ At(l1)
       /\ cpu' = [cpu EXCEPT !.pc = l2, !.reg.r9 = cpu.sp, !.sp = Zero]
       /\ CpuOnly
    \/ SetSel(l2, l3, "ALLOW")
    \/ Sigaltstack(l3, l4)
    \/ SetSel(l4, l5, "BLOCK")
    \/ /\ At(l5)
       /\ cpu' = [cpu EXCEPT !.pc = n, !.sp = cpu.reg.r9]
       /\ CpuOnly

\* Variant of CutAltStack: the size is computed before the old one is pushed.
CutAltStackEarly(l, m, items) ==
    /\ At(l)
    /\ cpu' = [cpu EXCEPT !.pc = m, !.sp.d = @ + Len(items) + 1]
    /\ mem' = OnStack(cpu.sp, Append(items, [k |-> "spill"]))
    /\ gs' = [gs EXCEPT !.alt = cpu.sp.d]
    /\ CpuGsMem

\* Registers pushed after the new size was computed lie inside the new stack.
CutAltStack(l, m, items) ==
    /\ At(l)
    /\ cpu' = [cpu EXCEPT !.pc = m, !.sp.d = @ + Len(items) + 1]
    /\ mem' = OnStack(cpu.sp, Append(items, [k |-> "spill"]))
    /\ gs' = [gs EXCEPT !.alt = cpu.sp.d + Len(items)]
    /\ CpuGsMem

PopSpill(l, m) ==
    /\ At(l)
    /\ IF ~HasItem(cpu.sp, "spill") THEN Stop("stack") ELSE
       /\ cpu' = [cpu EXCEPT !.pc = m, !.sp = Up(@)]
       /\ mem' = OnStack(Up(cpu.sp), <<>>)
       /\ CpuMem

EnterAppHandler ==
    \/ CutAltStack("cah0", "cah1", <<[k |-> "alt", size |-> gs.alt]>>)
    \/ MoveAltStack("cah1", "cah2", "cah3", "cah4", "cah5", "cah6")
    \/ PopSpill("cah6", "cah7")
    \/ SwapStacks("cah7", "cah8")
    \/ SwapTls("cah8", "cah9", "cah10", "r9")
    \/ /\ At("cah10")
       /\ Goto("cah11")
       /\ gs' = [gs EXCEPT !.level = @ + 1]
       /\ CpuGs
    \/ SetComp("cah11", "cah12", "APP")
    \/ Wrpkru("cah12", "cah13", "REVOKE")
    \/ /\ At("cah13")
       /\ cpu' = [cpu EXCEPT !.pc = "app", !.sp = Down(@)]
       /\ mem' = OnStack(cpu.sp, <<[k |-> "hret"]>>)
       /\ CpuMem

\* Variant of LeaveAppHandler: the nesting level is checked and not lowered.
LeaveAppHandlerSameLevel ==
    \/ /\ At("app")
       /\ HasItem(cpu.sp, "hret")
       /\ cpu' = [cpu EXCEPT !.pc = "back0", !.sp = Up(@)]
       /\ mem' = OnStack(Up(cpu.sp), <<>>)
       /\ CpuMem
    \/ Wrpkru("back0", "back1", "TRUSTED")
    \/ SetComp("back1", "back2", "MON")
    \/ At("back2") /\ IF gs.level = 0 THEN Stop("check") ELSE Goto("back3") /\ CpuOnly
    \/ SwapTls("back3", "back4", "back5", "r9")
    \/ SwapStacks("back5", "back6")

LeaveAppHandler ==
    \/ /\ At("app")
       /\ HasItem(cpu.sp, "hret")
       /\ cpu' = [cpu EXCEPT !.pc = "back0", !.sp = Up(@)]
       /\ mem' = OnStack(Up(cpu.sp), <<>>)
       /\ CpuMem
    \/ Wrpkru("back0", "back1", "TRUSTED")
    \/ SetComp("back1", "back2", "MON")
    \/ /\ At("back2")
       /\ IF gs.level = 0 THEN Stop("check") ELSE
          Goto("back3") /\ gs' = [gs EXCEPT !.level = @ - 1] /\ CpuGs
    \/ SwapTls("back3", "back4", "back5", "r9")
    \/ SwapStacks("back5", "back6")

RestoreAltStack ==
    \/ /\ At("back6")
       /\ IF ~HasItem(cpu.sp, "alt") THEN Stop("stack") ELSE
          /\ Goto("back7")
          /\ mem' = OnStack(Up(cpu.sp), <<[k |-> "spill"]>>)
          /\ gs' = [gs EXCEPT !.alt = Item(cpu.sp).size]
          /\ CpuGsMem
    \/ MoveAltStack("back7", "back8", "back9", "back10", "back11", "back12")
    \/ PopSpill("back12", "wrap1")

(***************************************************************************)
(* The way back: what was interrupted goes to the sigreturn stack, and the *)
(* frame resumes at restore_selector_trampoline, on the secure stack.      *)
(***************************************************************************)
SetupRestoreTrampoline ==
    \/ PushSig("push0", "push1", "push2", Local.coe)
    \/ PushSig("push2", "push3", "push4", Local.soe)
    \/ PushSig("push4", "push5", "push6", Frame.c.pc)
    \/ PushSig("push6", "push7", "push8",
               IF Frame.c.sp = Zero THEN Frame.c.reg.r9 ELSE Frame.c.sp)
    \/ PushSig("push8", "push9", "push10", Frame.c.reg.rx)

\* rt_sigreturn with the changed frame, made by asm_signal_entry itself.
SignalReturn ==
    \/ SetSel("push10", "push11", "ALLOW")
    \/ /\ At("push11")
       /\ cpu' = [Frame.c EXCEPT !.pc = "tr0", !.fs = cpu.fs, !.sp = T(cpu.sp.d - 2)]
       /\ mem' = OnStack(T(cpu.sp.d - 2), <<>>)
       /\ CpuMem

\* Loads one after another, each after its decrement: the clobbered registers,
\* rsp (on which they are saved), rip, the selector and the compartment.
TrampolinePops ==
    \/ WrpkruMonitor("tr0", "tr1", "FULL")
    \/ DecSig("tr1", "tr2")
    \/ /\ At("tr2")
       /\ cpu' = [cpu EXCEPT !.pc = "tr3", !.reg.rx = SigSlot]
       /\ mem' = DropSlot
       /\ CpuMem
    \/ DecSig("tr3", "tr4")
    \/ /\ At("tr4")
       /\ cpu' = [cpu EXCEPT !.pc = "tr5", !.sp = Down(SigSlot)]
       /\ mem' = [OnStack(SigSlot, <<[k |-> "regs", rx |-> cpu.reg.rx]>>)
                    EXCEPT !.sig = DropSlot.sig]
       /\ CpuMem
    \/ DecSig("tr5", "tr6")
    \/ /\ At("tr6")
       /\ Goto("tr7")
       /\ gs' = [gs EXCEPT !.holder = SigSlot]
       /\ mem' = DropSlot
       /\ CpuGsMem
    \/ DecSig("tr7", "tr8")
    \/ /\ At("tr8")
       /\ Goto("tr9")
       /\ gs' = [gs EXCEPT !.sel = SigSlot]
       /\ mem' = DropSlot
       /\ CpuGsMem
    \/ DecSig("tr9", "tr10")
    \/ /\ At("tr10")
       /\ Goto(IF SigSlot = "MON" THEN "tr16" ELSE "tr11")
       /\ mem' = DropSlot
       /\ CpuMem

\* Variant of TrampolineToApp: the secure stack pointer is popped and not stored.
TrampolineToAppDropsStack ==
    \/ SetComp("tr11", "tr12", "APP")
    \/ SwapTls("tr12", "tr13", "tr14", "r9")
    \/ DecSig("tr14", "tr15")
    \/ At("tr15") /\ Goto("tr17") /\ mem' = DropSlot /\ CpuMem
    \/ Wrpkru("tr17", "tr18", "REVOKE")

TrampolineToApp ==
    \/ SetComp("tr11", "tr12", "APP")
    \/ SwapTls("tr12", "tr13", "tr14", "r9")
    \/ DecSig("tr14", "tr15")
    \/ /\ At("tr15")
       /\ Goto("tr17")
       /\ gs' = [gs EXCEPT !.ssp = SigSlot]
       /\ mem' = DropSlot
       /\ CpuGsMem
    \/ Wrpkru("tr17", "tr18", "REVOKE")

TrampolineToMonitor == WrpkruMonitor("tr16", "tr18", "TRUSTED")

TrampolineJump ==
    /\ At("tr18")
    /\ IF ~HasItem(cpu.sp, "regs") THEN Stop("stack") ELSE
       /\ cpu' = [cpu EXCEPT !.pc = gs.holder, !.sp = Up(@), !.reg.rx = Item(cpu.sp).rx]
       /\ mem' = OnStack(Up(cpu.sp), <<>>)
       /\ gs' = [gs EXCEPT !.holder = "none"]     \* never read before it is written
       /\ snaps' = Front(snaps)
       /\ UNCHANGED <<kern, hand, crash>>

(***************************************************************************)
(* How a thread starts.                                                    *)
(***************************************************************************)
FreshGs(sel) == [comp |-> "MON", sel |-> sel, fs |-> "none", ssp |-> T(0), alt |-> 0,
                 sig |-> 0, level |-> 0, holder |-> "none", xsave |-> 0]

JumpBackToLoader ==
    \/ SetSel("boot0", "boot1", "BLOCK")
    \/ SetComp("boot1", "boot2", "APP")
    \/ Wrpkru("boot2", "app", "REVOKE")

NewThread ==
    \/ /\ At("child0")
       /\ cpu' = [cpu EXCEPT !.pc = "child1", !.fs = Item(cpu.sp).fs]
       /\ mem' = OnStack(Up(cpu.sp), <<[k |-> "tls", fs |-> cpu.fs]>>)
       /\ CpuMem
    \/ /\ At("child1")
       /\ Goto("child2")
       /\ gs' = FreshGs("ALLOW")
       /\ CpuGs
    \/ SetSel("child2", "child3", "BLOCK")
    \/ /\ At("child3")
       /\ Goto("child4")
       /\ gs' = [gs EXCEPT !.fs = Item(cpu.sp).fs]
       /\ CpuGs
    \/ /\ At("child4")
       /\ Goto("child5")
       /\ gs' = [gs EXCEPT !.ssp = U(Len(mem.app))]
       /\ CpuGs

FakeThreadMainRoutine ==
    \/ SwapTls("child5", "child6", "child7", "rx")
    \/ CutAltStack("child7", "child8", <<[k |-> "start"]>>)
    \/ MoveAltStack("child8", "child9", "child10", "child11", "child12", "child13")
    \/ PopSpill("child13", "child14")
    \/ SwapStacks("child14", "exit3")

InitCpu(start) ==
    IF start = "boot"
    THEN [pc |-> "boot0", sp |-> U(0), fs |-> "U", pkru |-> "SIG", mask |-> FALSE,
          signo |-> "none", reg |-> [r9 |-> "a", rx |-> "a"]]
    ELSE [pc |-> "child0", sp |-> T(1), fs |-> "U", pkru |-> "FULL", mask |-> FALSE,
          signo |-> "none", reg |-> [r9 |-> "a", rx |-> "a"]]

Init ==
    /\ \E start \in Starts :
          /\ cpu = InitCpu(start)
          /\ gs = IF start = "boot" THEN [FreshGs("BLOCK") EXCEPT !.fs = "T"] ELSE FreshGs("ALLOW")
          /\ mem = IF start = "boot" THEN [sec |-> <<>>, app |-> <<>>, sig |-> <<>>]
                   ELSE [sec |-> <<[k |-> "tls", fs |-> "T"]>>,
                         app |-> <<[k |-> "ret", pc |-> "app"]>>, sig |-> <<>>]
          /\ kern = [top |-> IF start = "boot" THEN 0 ELSE NoAlt,
                     disp |-> [s \in Sigs |-> [act |-> IF s = "segv" THEN "wrap" ELSE "dfl",
                                               reset |-> FALSE, full |-> s = "segv"]]]
    /\ hand = [table |-> [s \in Sigs |-> Dfl], mut |-> FALSE]
    /\ snaps = <<>>
    /\ crash = "none"

Next ==
    \/ JumpBackToLoader \/ NewThread \/ FakeThreadMainRoutine
    \/ AppCall \/ Sigsys("app") \/ Sigsys("mon")
    \/ SyscallHookEntry \/ PushRegs \/ PopRegs \/ DoNothing
    \/ DoSyscallUntrusted \/ MetaSyscallHook \/ CloneParent \/ HandleAppSigaction
    \/ SudEntry \/ HandleSigsys \/ SudReturn
    \/ \E s \in Sigs : Signal(s)
    \/ AsmSignalEntry \/ SwitchEntry \/ SwitchInternal \/ SwitchBlock
    \/ WrapSignalHandler \/ WrapReturn \/ InvokeAppSpecificHandler
    \/ EnterAppHandler \/ LeaveAppHandler \/ RestoreAltStack
    \/ SetupRestoreTrampoline \/ SignalReturn \/ TrampolinePops \/ TrampolineToApp
    \/ TrampolineToMonitor \/ TrampolineJump

Spec == Init /\ [][Next]_vars

(***************************************************************************)
(* Properties.                                                             *)
(***************************************************************************)
StackPointers == {Zero} \cup {T(d) : d \in 0 .. Len(mem.sec)} \cup {U(d) : d \in 0 .. Len(mem.app)}

\* restore_selector_trampoline on the resumed stack, before it has put back ssp.
Unwinding == {"tr5", "tr6", "tr7", "tr8", "tr9", "tr10", "tr11", "tr12", "tr13", "tr14", "tr15"}

\* Types.  A stack pointer in use points into the live part of its stack; so does the
\* parked one, but for the one that restore_selector_trampoline is about to replace.
TypeOK ==
    /\ cpu.sp \in StackPointers
    /\ gs.ssp \in StackPointers \/ (cpu.pc \in Unwinding /\ gs.ssp.s = "U" /\ gs.ssp.d \in Nat)
    /\ cpu.fs \in {"T", "U"} /\ gs.fs \in {"T", "U", "none"}
    /\ cpu.pkru \in {"SIG", "TRUSTED", "FULL", "REVOKE"}
    /\ gs.comp \in {"MON", "APP"} /\ gs.sel \in {"ALLOW", "BLOCK"}
    /\ gs.sig \in 0 .. Len(mem.sig)
    /\ Len(mem.sig) <= gs.sig + 1
    /\ gs.level \in 0 .. MaxSignals
    /\ kern.top \in Nat \cup {NoAlt}
    /\ Len(snaps) <= MaxSignals

\* Application code (main program and handlers) runs with its own permissions,
\* TLS and stack, with every system call intercepted, and with the secure stack
\* parked where the kernel will put the next frame.
AppConfined ==
    At("app") => /\ cpu.pkru = "REVOKE"
                 /\ gs.comp = "APP" /\ gs.sel = "BLOCK"
                 /\ cpu.fs = "U" /\ gs.fs = "T"
                 /\ cpu.sp.s = "U" /\ gs.ssp = T(kern.top)
                 /\ gs.alt = kern.top

MonitorCode == {"mon", "hs0", "sw2", "wrap0", "inv0", "inv1", "wrap1", "meta1", "sa0", "sa1"}

\* Monitor C++ code runs with the monitor's permissions, compartment, TLS and
\* stack, and the application's pointers are parked in GSRelativeData.
MonitorReady ==
    cpu.pc \in MonitorCode => /\ cpu.pkru = "TRUSTED"
                              /\ gs.comp = "MON"
                              /\ cpu.fs = "T" /\ gs.fs = "U"
                              /\ cpu.sp.s = "T" /\ gs.ssp.s = "U"

\* How much of the secure stack is live.
LiveDepth == CASE cpu.sp.s = "T" -> cpu.sp.d
               [] gs.ssp.s = "T" -> gs.ssp.d
               [] cpu.sp = Zero -> cpu.reg.r9.d
               [] OTHER -> 0

\* A signal frame never lands on a live part of the secure stack: the size that
\* call_app_handler gives to sigaltstack is never too large.
FrameIsFree ==
    cpu.pc \in Interruptible /\ ~cpu.mask => FrameDepth >= LiveDepth

\* No ud2, int3 or mpk_check of the transition code fires, and every delivered
\* signal finds its application handler.
NoCheckFails == crash = "none"

\* After restore_selector_trampoline the code that was interrupted goes on with its
\* TLS, compartment, selector, nesting and parked pointers as they were: monitor code
\* where it was, with its stack and registers, whatever the application's handler
\* has done; application code where the context says that its handler has left.
\* The kernel's alternate stack is the old one or the one that the interrupted
\* code is about to install.  Permissions are those of the compartment.
Resumes ==
    [][cpu.pc = "tr18" => LET s == Last(snaps)
                          IN /\ cpu'.pc = s.pc
                             /\ cpu'.sp = s.sp
                             /\ cpu'.fs = s.fs
                             /\ cpu'.reg.rx = s.reg.rx
                             /\ [gs' EXCEPT !.holder = s.gs.holder] = s.gs
                             /\ kern'.top \in {s.top, s.gs.alt}]_vars

\* Outside rt_sigaction and signal handlers the kernel delivers a signal to
\* asm_signal_entry exactly when the table has an application handler for it.
TablesAgree ==
    snaps = <<>> /\ ~hand.mut =>
        /\ kern.disp["usr"].act = "wrap" <=> hand.table["usr"].act = "app"
        /\ kern.disp["usr"].act = "wrap" => kern.disp["usr"].reset = hand.table["usr"].reset

=============================================================================
