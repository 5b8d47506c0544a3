----------------------- MODULE BreakpointGuardProofs ------------------------
(***************************************************************************)
(* An executable page is guarded in every thread: the rest of the          *)
(* invariant of the page lists of BreakpointSync, and what follows from    *)
(* it.                                                                     *)
(***************************************************************************)
EXTENDS BreakpointListProofs


-----------------------------------------------------------------------------
(* The other parts of the invariant *)

\* A new thread has moved its list before it follows a session.
LEMMA NewStep ==
  ASSUME TypeOK, NewOK, Undisturbed, NEW t \in Threads, Monitor(t) \/ Application(t)
  PROVE  NewOK'
  <1>0. /\ pc \in [Threads -> PC] /\ ctx \in [Threads -> Interruptible]
        /\ cont \in [Threads -> Continuations]
        /\ watched \in [Threads -> Controllers] /\ heap_copy \in [Threads -> Controllers]
    BY DEF TypeOK
  <1> USE <1>0 DEF NewOK, Goto, Return, frame, lists
  <1>1. CASE Deliver(t)
    <2>1. pc'[t] = "kill"
      BY <1>1 DEF Deliver
    <2>2. pc[t] \notin {"n_copy", "n_swap"}
      BY <2>1 DEF Undisturbed
    <2> QED
      BY <1>1, <2>2 DEF Deliver
  <1>2. CASE KillFollow(t) \/ OnSegv(t) \/ SamePage(t)
    BY <1>2 DEF KillFollow, OnSegv, SamePage
  <1>3. CASE KillIgnore(t)
    BY <1>3 DEF KillIgnore
  <1>4. CASE TryLock(t) \/ TryLockFollow(t) \/ Lock(t)
    BY <1>4 DEF TryLock, TryLockFollow, Lock
  <1>5. CASE HandlerDone(t) \/ HandlerWrite(t) \/ MakeExec(t)
    BY <1>5 DEF HandlerDone, HandlerWrite, MakeExec
  <1>6. CASE HandlerScan(t) \/ HandlerPlace(t) \/ CtlLock(t) \/ CtlSkip(t)
    BY <1>6 DEF HandlerScan, HandlerPlace, CtlLock, CtlSkip
  <1>7. CASE CtlStart(t) \/ CtlPage(t) \/ CtlSignal(t)
    BY <1>7 DEF CtlStart, CtlPage, CtlSignal
  <1>8. CASE CtlPublish(t) \/ CtlWait1(t) \/ CtlArm2(t)
    BY <1>8 DEF CtlPublish, CtlWait1, CtlArm2
  <1>9. CASE CtlRelease(t) \/ CtlWait2(t) \/ FolWait(t) \/ FolLoad(t)
    BY <1>9 DEF CtlRelease, CtlWait2, FolWait, FolLoad
  <1>10. CASE FolDec1(t) \/ FolHold(t)
    BY <1>10 DEF FolDec1, FolHold
  <1>11. CASE FolReturn(t)
    BY <1>11 DEF FolReturn
  <1>12. CASE FolResume(t)
    BY <1>12 DEF FolResume, Continuations
  <1>13. CASE PlaceBreakpoints(t) \/ EvictOldest(t)
    BY <1>13 DEF PlaceBreakpoints, EvictOldest
  <1>14. CASE Register(t) \/ Unregister(t)
    BY <1>14 DEF Register, Unregister
  <1>15. CASE CopyList(t)
    BY <1>15 DEF CopyList
  <1>16. CASE SwapList(t)
    BY <1>16 DEF SwapList
  <1>17. CASE UnregisterFollow(t) \/ Free(t) \/ LeavePM(t) \/ Exit(t) \/ EnterPM(t)
    BY <1>17 DEF UnregisterFollow, Free, LeavePM, Exit, EnterPM
  <1>18. ASSUME NEW p \in Pages, Fault(t, p) \/ Munmap(t, p) \/ Mmap(t, p)
         PROVE  NewOK'
    BY <1>18 DEF Fault, Munmap, Mmap
  <1>19. ASSUME NEW u \in Threads, Clone(t, u)
         PROVE  NewOK'
    BY <1>19 DEF Clone
  <1> QED
    BY <1>1, <1>2, <1>3, <1>4, <1>5, <1>6, <1>7, <1>8, <1>9, <1>10, <1>11, <1>12,
       <1>13, <1>14, <1>15, <1>16, <1>17, <1>18, <1>19 DEF Monitor, Application

\* The steps that leave all lists alone.
LEMMA SameLists ==
  ASSUME NEW t \in Threads, Monitor(t) \/ Application(t),
         ~PlaceBreakpoints(t), ~EvictOldest(t), ~Register(t), ~Unregister(t),
         ~SwapList(t), ~CtlPublish(t)
  PROVE  UNCHANGED <<watched, placed, events, global_watched, active_thread_list>>
  BY DEF Monitor, Application, Deliver, KillFollow, KillIgnore, OnSegv, SamePage,
     TryLock, TryLockFollow, Lock, HandlerDone, HandlerWrite, HandlerScan,
     HandlerPlace, MakeExec, CtlLock, CtlSkip, CtlStart, CtlPage, CtlSignal,
     CtlWait1, CtlArm2, CtlRelease, CtlWait2, FolWait, FolLoad, FolDec1, FolHold,
     FolReturn, FolResume, CopyList, UnregisterFollow, Free, LeavePM, Fault, Munmap,
     Mmap, Clone, Exit, EnterPM, lists

\* The steps that leave the pages alone.
LEMMA SameMemory ==
  ASSUME NEW t \in Threads, Monitor(t) \/ Application(t),
         ~HandlerWrite(t), ~HandlerScan(t), ~MakeExec(t), ~EvictOldest(t),
         \A p \in Pages : ~Munmap(t, p) /\ ~Mmap(t, p)
  PROVE  UNCHANGED <<mapped, prot, current_perm>>
  BY DEF Monitor, Application, Deliver, KillFollow, KillIgnore, OnSegv, SamePage,
     TryLock, TryLockFollow, Lock, HandlerDone, HandlerPlace, CtlLock, CtlSkip,
     CtlStart, CtlPage, CtlSignal, CtlPublish, CtlWait1, CtlArm2, CtlRelease,
     CtlWait2, FolWait, FolLoad, FolDec1, FolHold, FolReturn, FolResume,
     PlaceBreakpoints, Register, Unregister, CopyList, SwapList, UnregisterFollow,
     Free, LeavePM, Fault, Clone, Exit, EnterPM, memory

\* Every step keeps a thread's list equal to what it has open in the kernel.
LEMMA SlotsStep ==
  ASSUME TypeOK, FrameOK, NewOK, SlotsMatch, NEW t \in Threads,
         (Failure(t) = "none" /\ Monitor(t)) \/ Application(t)
  PROVE  SlotsMatch'
  <1>0. /\ watched \in [Threads -> Controllers] /\ heap_copy \in [Threads -> Controllers]
        /\ placed \in [Threads -> [Pages -> Int]] /\ events \in [Threads -> Int]
        /\ arg \in [Threads -> Pages \cup {NoPage}]
        /\ global_watched \in Controllers
    BY DEF TypeOK
  <1>1. CASE UNCHANGED <<watched, placed, events>>
    BY <1>1 DEF SlotsMatch
  <1>2. CASE PlaceBreakpoints(t)
    <2>1. arg[t] \in Pages
      BY <1>0, <1>2 DEF PlaceBreakpoints, FrameOK
    <2>2. /\ \A u \in Threads \ {t} : /\ watched'[u] = watched[u] /\ placed'[u] = placed[u]
                                      /\ events'[u] = events[u]
          /\ watched'[t] = add_watched_page(watched[t], arg[t])
          /\ placed'[t] = [placed[t] EXCEPT ![arg[t]] = @ + 1]
          /\ events'[t] = events[t] + Need[arg[t]]
      BY <1>0, <1>2 DEF PlaceBreakpoints
    <2>3. watched[t].pages \in Seq(Pages)
      BY <1>0, Fields
    <2>4. /\ watched'[t].pages = Append(watched[t].pages, arg[t])
          /\ watched'[t].used = watched[t].used + Need[arg[t]]
      BY <2>2 DEF add_watched_page
    <2>5. placed'[t] = CountIn(watched'[t].pages)
      BY <2>1, <2>2, <2>3, <2>4, CountAppend DEF SlotsMatch
    <2> QED
      BY <2>2, <2>4, <2>5 DEF SlotsMatch
  <1>3. CASE Failure(t) = "none" /\ EvictOldest(t)
    <2>1. watched[t].pages \in Seq(Pages) /\ watched[t].pages # << >>
      BY <1>0, <1>3, NoFailure, Fields DEF EvictOldest
    <2>2. /\ \A u \in Threads \ {t} : /\ watched'[u] = watched[u] /\ placed'[u] = placed[u]
                                      /\ events'[u] = events[u]
          /\ watched'[t] = remove_last_page(watched[t])
          /\ placed'[t] = [placed[t] EXCEPT ![Head(watched[t].pages)] = @ - 1]
          /\ events'[t] = events[t] - Need[Head(watched[t].pages)]
      BY <1>0, <1>3 DEF EvictOldest
    <2>3. /\ watched'[t].pages = Tail(watched[t].pages)
          /\ watched'[t].used = watched[t].used - Need[Head(watched[t].pages)]
      BY <2>2 DEF remove_last_page
    <2>4. placed'[t] = CountIn(watched'[t].pages)
      BY <2>1, <2>2, <2>3, CountTail DEF SlotsMatch
    <2> QED
      BY <2>2, <2>3, <2>4 DEF SlotsMatch
  <1>4. CASE Register(t)
    BY <1>0, <1>4 DEF Register, SlotsMatch
  <1>5. CASE Unregister(t)
    BY <1>0, <1>5, CountEmpty DEF Unregister, SlotsMatch, Empty
  <1>6. CASE SwapList(t)
    <2>1. watched' = watched
      BY <1>0, <1>6 DEF SwapList, NewOK
    <2> QED
      BY <1>1, <1>6, <2>1 DEF SwapList
  <1>7. CASE CtlPublish(t)
    BY <1>1, <1>7 DEF CtlPublish
  <1>8. EvictOldest(t) => Failure(t) = "none"
    <2>1. EvictOldest(t) => pc[t] \in Adding /\ watched'[t] = remove_last_page(watched[t])
      BY <1>0 DEF EvictOldest, Adding
    <2>2. Application(t) /\ pc[t] \in Adding => FALSE
      BY DEF Application, Fault, Munmap, Mmap, Clone, Exit, EnterPM, Adding
    <2> QED
      BY <2>1, <2>2
  <1> QED
    BY <1>1, <1>2, <1>3, <1>4, <1>5, <1>6, <1>7, <1>8, SameLists

\* segfault_handler_mutex is held from the try_lock or lock of signal_handler_switch
\* to the end of secpoline_segfault_handler.
LEMMA HandlerStep ==
  ASSUME TypeOK, HandlerHolds, NEW t \in Threads, Monitor(t) \/ Application(t)
  PROVE  HandlerHolds'
  <1>0. /\ pc \in [Threads -> PC] /\ ctx[t] \in Interruptible /\ cont[t] \in Continuations
    BY DEF TypeOK
  <1> USE <1>0, ThreadAssumption
      DEF HandlerHolds, HandlerPC, ControllerPC, Goto, Return, frame, locks
  <1>1. CASE TryLock(t) \/ Lock(t)
    BY <1>1 DEF TryLock, Lock
  <1>2. CASE HandlerDone(t) \/ HandlerWrite(t)
    BY <1>2 DEF HandlerDone, HandlerWrite
  <1>3. CASE MakeExec(t)
    BY <1>3 DEF MakeExec
  <1>4. CASE Deliver(t) \/ KillFollow(t) \/ OnSegv(t) \/ SamePage(t) \/ TryLockFollow(t)
    BY <1>4 DEF Deliver, KillFollow, OnSegv, SamePage, TryLockFollow, Interruptible
  <1>5. CASE KillIgnore(t)
    BY <1>5 DEF KillIgnore, Interruptible
  <1>6. CASE HandlerScan(t) \/ HandlerPlace(t) \/ CtlLock(t) \/ CtlSkip(t)
    BY <1>6 DEF HandlerScan, HandlerPlace, CtlLock, CtlSkip
  <1>7. CASE CtlStart(t) \/ CtlPage(t) \/ CtlSignal(t) \/ CtlPublish(t)
    BY <1>7 DEF CtlStart, CtlPage, CtlSignal, CtlPublish
  <1>8. CASE CtlWait1(t) \/ CtlArm2(t) \/ CtlRelease(t) \/ CtlWait2(t)
    BY <1>8 DEF CtlWait1, CtlArm2, CtlRelease, CtlWait2
  <1>9. CASE FolWait(t) \/ FolLoad(t) \/ FolDec1(t) \/ FolHold(t)
    BY <1>9 DEF FolWait, FolLoad, FolDec1, FolHold
  <1>10. CASE FolReturn(t)
    BY <1>10 DEF FolReturn, Interruptible
  <1>11. CASE FolResume(t)
    BY <1>11 DEF FolResume, Continuations
  <1>12. CASE PlaceBreakpoints(t) \/ EvictOldest(t)
    BY <1>12 DEF PlaceBreakpoints, EvictOldest
  <1>13. CASE Register(t) \/ CopyList(t) \/ SwapList(t) \/ Unregister(t)
    BY <1>13 DEF Register, CopyList, SwapList, Unregister
  <1>14. CASE UnregisterFollow(t) \/ Free(t) \/ LeavePM(t) \/ Exit(t) \/ EnterPM(t)
    BY <1>14 DEF UnregisterFollow, Free, LeavePM, Exit, EnterPM
  <1>15. ASSUME NEW p \in Pages, Fault(t, p) \/ Munmap(t, p) \/ Mmap(t, p)
         PROVE  HandlerHolds'
    BY <1>15 DEF Fault, Munmap, Mmap
  <1>16. ASSUME NEW u \in Threads, Clone(t, u)
         PROVE  HandlerHolds'
    BY <1>16 DEF Clone
  <1> QED
    BY <1>1, <1>2, <1>3, <1>4, <1>5, <1>6, <1>7, <1>8, <1>9, <1>10, <1>11, <1>12,
       <1>13, <1>14, <1>15, <1>16 DEF Monitor, Application

\* The permissions of a page that was not mapped W+X, before and after a step.
LEMMA PermStep ==
  ASSUME TypeOK, FrameOK, PermOK, NEW t \in Threads,
         (Failure(t) = "none" /\ Monitor(t)) \/ Application(t)
  PROVE  PermOK'
  <1>0. /\ prot \in [Pages -> {"R", "RW", "X"}] /\ current_perm \in [Pages -> {"R", "RW", "X"}]
        /\ pg \in [Threads -> Pages \cup {NoPage}] /\ mapped \subseteq Pages
    BY DEF TypeOK
  <1> USE <1>0, PageAssumption DEF PermOK
  <1>1. CASE HandlerWrite(t)
    BY <1>1 DEF HandlerWrite
  <1>2. CASE HandlerScan(t)
    <2>1. pg[t] \in WX
      BY <1>2 DEF HandlerScan
    <2> QED
      BY <1>2, <2>1 DEF HandlerScan
  <1>3. CASE MakeExec(t)
    <2>1. pg[t] \in Pages
      BY <1>3 DEF MakeExec, FrameOK, FaultPC
    <2> QED
      BY <1>3, <2>1 DEF MakeExec
  <1>4. CASE EvictOldest(t)
    <2> DEFINE q == Head(watched[t].pages)
    <2>1. /\ prot' = IF current_perm[q] = "X" THEN [prot EXCEPT ![q] = "R"] ELSE prot
          /\ current_perm' = IF current_perm[q] = "X" THEN [current_perm EXCEPT ![q] = "R"]
                                                      ELSE current_perm
          /\ mapped' = mapped
      BY <1>4 DEF EvictOldest
    <2> HIDE DEF q
    <2> QED
      BY <2>1
  <1>5. ASSUME NEW p \in Pages, Munmap(t, p) \/ Mmap(t, p)
        PROVE  PermOK'
    BY <1>5 DEF Munmap, Mmap
  <1>6. CASE UNCHANGED <<mapped, prot, current_perm>>
    BY <1>6
  <1> QED
    BY <1>1, <1>2, <1>3, <1>4, <1>5, <1>6, SameMemory

\* Where the handler is about to make a page executable.
ExecPC == {"c_lock", "c_arm2", "c_release", "c_wait2", "make_exec"}

\* Outside the handler a step brings no thread to such a place, and makes no page
\* executable in the page manager's record.
LEMMA OutsideHandler ==
  ASSUME TypeOK, FrameOK, PermOK, NEW t \in Threads, pc[t] \notin HandlerPC,
         Monitor(t) \/ Application(t)
  PROVE  /\ \A u \in Threads : pc'[u] \in ExecPC => pc'[u] = pc[u] /\ pg'[u] = pg[u]
         /\ global_watched' = global_watched
         /\ \A p \in Pages : current_perm'[p] \in {current_perm[p], "R"}
  <1>0. /\ pc \in [Threads -> PC] /\ ctx[t] \in Interruptible /\ cont[t] \in Continuations
        /\ pg \in [Threads -> Pages \cup {NoPage}]
        /\ current_perm \in [Pages -> {"R", "RW", "X"}]
    BY DEF TypeOK
  <1> USE <1>0 DEF HandlerPC, ControllerPC, ExecPC, Goto, Return, frame, lists, memory
  <1>1. CASE TryLock(t) \/ Lock(t)
    BY <1>1 DEF TryLock, Lock
  <1>2. CASE Deliver(t) \/ KillFollow(t) \/ OnSegv(t) \/ SamePage(t) \/ TryLockFollow(t)
    BY <1>2 DEF Deliver, KillFollow, OnSegv, SamePage, TryLockFollow
  <1>3. CASE KillIgnore(t)
    BY <1>3 DEF KillIgnore, Interruptible
  <1>4. CASE FolWait(t) \/ FolLoad(t) \/ FolDec1(t) \/ FolHold(t)
    BY <1>4 DEF FolWait, FolLoad, FolDec1, FolHold
  <1>5. CASE FolReturn(t)
    BY <1>5 DEF FolReturn, Interruptible
  <1>6. CASE FolResume(t)
    BY <1>6 DEF FolResume, Continuations
  <1>7. CASE PlaceBreakpoints(t)
    BY <1>7 DEF PlaceBreakpoints
  <1>8. CASE EvictOldest(t)
    <2>1. /\ pc' = pc /\ pg' = pg /\ global_watched' = global_watched
          /\ current_perm' = IF current_perm[Head(watched[t].pages)] = "X"
                    THEN [current_perm EXCEPT ![Head(watched[t].pages)] = "R"] ELSE current_perm
      BY <1>8 DEF EvictOldest
    <2> QED
      BY <2>1
  <1>9. CASE Register(t) \/ CopyList(t) \/ SwapList(t) \/ Unregister(t)
    BY <1>9 DEF Register, CopyList, SwapList, Unregister
  <1>10. CASE UnregisterFollow(t) \/ Free(t) \/ LeavePM(t) \/ Exit(t) \/ EnterPM(t)
    BY <1>10 DEF UnregisterFollow, Free, LeavePM, Exit, EnterPM
  <1>11. ASSUME NEW p \in Pages, Fault(t, p) \/ Munmap(t, p) \/ Mmap(t, p)
         PROVE  /\ \A u \in Threads : pc'[u] \in ExecPC => pc'[u] = pc[u] /\ pg'[u] = pg[u]
                /\ global_watched' = global_watched
                /\ \A q \in Pages : current_perm'[q] \in {current_perm[q], "R"}
    BY <1>11 DEF Fault, Munmap, Mmap
  <1>12. ASSUME NEW u \in Threads, Clone(t, u)
         PROVE  /\ \A v \in Threads : pc'[v] \in ExecPC => pc'[v] = pc[v] /\ pg'[v] = pg[v]
                /\ global_watched' = global_watched
                /\ \A q \in Pages : current_perm'[q] \in {current_perm[q], "R"}
    BY <1>12 DEF Clone
  <1>13. /\ ~HandlerDone(t) /\ ~HandlerWrite(t) /\ ~HandlerScan(t) /\ ~HandlerPlace(t)
         /\ ~MakeExec(t) /\ ~CtlLock(t) /\ ~CtlSkip(t) /\ ~CtlStart(t) /\ ~CtlPage(t)
         /\ ~CtlSignal(t) /\ ~CtlPublish(t) /\ ~CtlWait1(t) /\ ~CtlArm2(t)
         /\ ~CtlRelease(t) /\ ~CtlWait2(t)
    BY DEF HandlerDone, HandlerWrite, HandlerScan, HandlerPlace, MakeExec, CtlLock,
           CtlSkip, CtlStart, CtlPage, CtlSignal, CtlPublish, CtlWait1, CtlArm2,
           CtlRelease, CtlWait2
  <1> QED
    BY <1>1, <1>2, <1>3, <1>4, <1>5, <1>6, <1>7, <1>8, <1>9, <1>10, <1>11, <1>12, <1>13
    DEF Monitor, Application

\* The page that the handler makes executable is on the global list.
LEMMA ExecStep ==
  ASSUME TypeOK, FrameOK, PhaseAccounting, ListsOK, PageOK, HandlerHolds, PermOK, ExecOK,
         NEW t \in Threads, (Failure(t) = "none" /\ Monitor(t)) \/ Application(t)
  PROVE  ExecOK'
  <1>0. /\ pc \in [Threads -> PC] /\ pg \in [Threads -> Pages \cup {NoPage}]
        /\ current_perm \in [Pages -> {"R", "RW", "X"}]
        /\ \A u \in Threads : pc[u] \in ExecPC => pg[u] \in Pages
    BY DEF TypeOK, FrameOK, FaultPC, ControllerPC, ExecPC
  <1>1. CASE pc[t] \notin HandlerPC
    <2>1. /\ \A u \in Threads : pc'[u] \in ExecPC => pc'[u] = pc[u] /\ pg'[u] = pg[u]
          /\ global_watched' = global_watched
          /\ \A p \in Pages : current_perm'[p] \in {current_perm[p], "R"}
      BY <1>1, OutsideHandler
    <2>2. ASSUME NEW u \in Threads, pc'[u] \in ExecPC
          PROVE  /\ pc'[u] = "c_lock" /\ pg'[u] \notin WX => current_perm'[pg'[u]] = "R"
                 /\ pc'[u] \in {"c_arm2", "c_release", "c_wait2"} =>
                      Listed(global_watched', pg'[u])
                 /\ pc'[u] = "make_exec" /\ pg'[u] \notin WX =>
                      Listed(global_watched', pg'[u])
      <3>1. pc'[u] = pc[u] /\ pg'[u] = pg[u] /\ pg[u] \in Pages
        BY <1>0, <2>1, <2>2
      <3>2. current_perm'[pg[u]] \in {current_perm[pg[u]], "R"}
        BY <2>1, <3>1
      <3> QED
        BY <2>1, <3>1, <3>2 DEF ExecOK
    <2> QED
      BY <2>2 DEF ExecOK, ExecPC, Listed
  <1>2. CASE pc[t] \in HandlerPC
    <2>1. \A u \in Threads \ {t} : pc[u] \notin ExecPC
      BY <1>2 DEF HandlerHolds, HandlerPC, ExecPC, ControllerPC
    <2>2. Monitor(t) /\ \A u \in Threads \ {t} : pc'[u] = pc[u]
      <3>1. ~Application(t)
        BY <1>2 DEF Application, Fault, Munmap, Mmap, Clone, Exit, EnterPM, HandlerPC,
                    ControllerPC
      <3>2. Monitor(t)
        BY <3>1
      <3>3. \A u \in Threads \ {t} : pc'[u] = pc[u]
        BY <1>0, <3>2 DEF Monitor, Deliver, KillFollow, KillIgnore, OnSegv, SamePage,
           TryLock, TryLockFollow, Lock, HandlerDone, HandlerWrite, HandlerScan,
           HandlerPlace, MakeExec, CtlLock, CtlSkip, CtlStart, CtlPage, CtlSignal,
           CtlPublish, CtlWait1, CtlArm2, CtlRelease, CtlWait2, FolWait, FolLoad,
           FolDec1, FolHold, FolReturn, FolResume, PlaceBreakpoints, EvictOldest,
           Register, CopyList, SwapList, UnregisterFollow, Unregister, Free, LeavePM,
           Goto, Return
      <3> QED
        BY <3>2, <3>3
    <2> SUFFICES /\ pc'[t] = "c_lock" /\ pg'[t] \notin WX => current_perm'[pg'[t]] = "R"
                 /\ pc'[t] \in {"c_arm2", "c_release", "c_wait2"} =>
                      Listed(global_watched', pg'[t])
                 /\ pc'[t] = "make_exec" /\ pg'[t] \notin WX =>
                      Listed(global_watched', pg'[t])
      BY <2>1, <2>2 DEF ExecOK, ExecPC, Listed
    <2> USE <1>0 DEF Goto, Return, frame, lists, memory
    <2>3. CASE HandlerScan(t)
      <3>1. pg[t] \in Pages /\ pg'[t] = pg[t]
        BY <2>3 DEF HandlerScan, FrameOK, FaultPC
      <3>2. pg[t] \in WX
        BY <2>3, <3>1 DEF HandlerScan, PermOK
      <3> QED
        BY <2>3, <3>1, <3>2 DEF HandlerScan
    <2>4. CASE HandlerPlace(t)
      BY <2>4 DEF HandlerPlace
    <2>5. CASE CtlSkip(t)
      BY <2>5 DEF CtlSkip, ExecOK
    <2>6. CASE CtlWait1(t)
      <3>1. Listed(global_watched', pg[t])
        BY <2>6, Wait1Lists
      <3> QED
        BY <2>6, <3>1 DEF CtlWait1
    <2>7. CASE CtlArm2(t) \/ CtlRelease(t) \/ CtlWait2(t)
      <3>1. /\ pc[t] \in {"c_arm2", "c_release", "c_wait2"} /\ pc'[t] # "c_lock"
            /\ UNCHANGED <<pg, global_watched>>
        BY <2>7 DEF CtlArm2, CtlRelease, CtlWait2
      <3>2. Listed(global_watched, pg[t])
        BY <3>1 DEF ExecOK
      <3> QED
        BY <3>1, <3>2
    <2>8. CASE HandlerDone(t) \/ HandlerWrite(t) \/ MakeExec(t)
      BY <2>8 DEF HandlerDone, HandlerWrite, MakeExec
    <2>9. CASE CtlLock(t) \/ CtlStart(t) \/ CtlPage(t) \/ CtlSignal(t) \/ CtlPublish(t)
      BY <2>9 DEF CtlLock, CtlStart, CtlPage, CtlSignal, CtlPublish
    <2>10. CASE PlaceBreakpoints(t) \/ EvictOldest(t)
      BY <2>10 DEF PlaceBreakpoints, EvictOldest
    <2>11. /\ ~Deliver(t) /\ ~KillFollow(t) /\ ~KillIgnore(t) /\ ~OnSegv(t)
           /\ ~SamePage(t) /\ ~TryLock(t) /\ ~TryLockFollow(t) /\ ~Lock(t)
           /\ ~FolWait(t) /\ ~FolLoad(t) /\ ~FolDec1(t) /\ ~FolHold(t)
           /\ ~FolReturn(t) /\ ~FolResume(t) /\ ~Register(t) /\ ~CopyList(t)
           /\ ~SwapList(t) /\ ~UnregisterFollow(t) /\ ~Unregister(t) /\ ~Free(t)
           /\ ~LeavePM(t)
      BY <1>2 DEF Deliver, KillFollow, KillIgnore, OnSegv, SamePage, TryLock,
         TryLockFollow, Lock, FolWait, FolLoad, FolDec1, FolHold, FolReturn,
         FolResume, Register, CopyList, SwapList, UnregisterFollow, Unregister, Free,
         LeavePM, HandlerPC, ControllerPC, Interruptible
    <2> QED
      BY <2>2, <2>3, <2>4, <2>5, <2>6, <2>7, <2>8, <2>9, <2>10, <2>11 DEF Monitor
  <1> QED
    BY <1>1, <1>2

\* A page is executable only while it is on every list.
LEMMA GuardStep ==
  ASSUME TypeOK, FrameOK, PhaseAccounting, ListsOK, NewOK, HandlerHolds, PermOK, ExecOK,
         Guarded, NEW t \in Threads,
         (Failure(t) = "none" /\ Monitor(t)) \/ Application(t)
  PROVE  Guarded'
  <1> SUFFICES ASSUME NEW p, p \in mapped', p \notin WX, prot'[p] = "X"
               PROVE  /\ Listed(global_watched', p)
                      /\ \A u \in active_thread_list' : Listed(watched'[u], p)
    BY DEF Guarded, Listed
  <1>0. /\ watched \in [Threads -> Controllers] /\ global_watched \in Controllers
        /\ arg \in [Threads -> Pages \cup {NoPage}] /\ pg \in [Threads -> Pages \cup {NoPage}]
        /\ prot \in [Pages -> {"R", "RW", "X"}] /\ current_perm \in [Pages -> {"R", "RW", "X"}]
        /\ mapped \subseteq Pages /\ active_thread_list \subseteq Threads
    BY DEF TypeOK
  <1>1. p \in mapped /\ prot[p] = "X" =>
          /\ Listed(global_watched, p)
          /\ \A u \in active_thread_list : Listed(watched[u], p)
    BY DEF Guarded
  <1>2. CASE PlaceBreakpoints(t)
    <2>1. arg[t] \in Pages
      BY <1>0, <1>2 DEF PlaceBreakpoints, FrameOK
    <2>2. /\ watched'[t] = add_watched_page(watched[t], arg[t])
          /\ \A u \in Threads \ {t} : watched'[u] = watched[u]
          /\ UNCHANGED <<global_watched, active_thread_list, mapped, prot>>
      BY <1>0, <1>2 DEF PlaceBreakpoints, memory
    <2>3. watched[t] \in Controllers
      BY <1>0
    <2>4. Listed(watched[t], p) => Listed(watched'[t], p)
      BY <2>1, <2>2, <2>3, ListedAdd
    <2> QED
      BY <1>0, <1>1, <2>2, <2>4
  <1>3. CASE Failure(t) = "none" /\ EvictOldest(t)
    <2>1. watched[t].pages # << >> /\ watched[t] \in Controllers
      BY <1>0, <1>3, NoFailure DEF EvictOldest
    <2>2. PICK q \in Pages : q = Head(watched[t].pages)
      <3>1. watched[t].pages \in Seq(Pages)
        BY <2>1, Fields
      <3>2. \A list \in Seq(Pages) : list # << >> => Head(list) \in Pages
        OBVIOUS
      <3> QED
        BY <2>1, <3>1, <3>2
    <2>3. /\ watched'[t] = remove_last_page(watched[t])
          /\ \A u \in Threads \ {t} : watched'[u] = watched[u]
          /\ UNCHANGED <<global_watched, active_thread_list, mapped>>
          /\ prot' = IF current_perm[q] = "X" THEN [prot EXCEPT ![q] = "R"] ELSE prot
      BY <1>0, <1>3, <2>2 DEF EvictOldest
    <2>4. p \in mapped /\ p \in Pages /\ prot[p] = "X"
      BY <1>0, <2>3
    <2>5. current_perm[p] = "X"
      BY <2>4 DEF PermOK
    <2>6. p # q
      BY <1>0, <2>3, <2>4, <2>5
    <2>7. Listed(watched[t], p) => Listed(watched'[t], p)
      BY <2>1, <2>2, <2>3, <2>6, ListedRemove
    <2> QED
      BY <1>0, <1>1, <2>3, <2>4, <2>7
  <1>4. CASE Register(t)
    <2>1. /\ watched'[t] = global_watched
          /\ \A u \in Threads \ {t} : watched'[u] = watched[u]
          /\ active_thread_list' = active_thread_list \cup {t}
          /\ UNCHANGED <<global_watched, mapped, prot>>
      BY <1>0, <1>4 DEF Register, memory
    <2> QED
      BY <1>0, <1>1, <2>1
  <1>5. CASE Unregister(t)
    <2>1. /\ \A u \in Threads \ {t} : watched'[u] = watched[u]
          /\ active_thread_list' = active_thread_list \ {t}
          /\ UNCHANGED <<global_watched, mapped, prot>>
      BY <1>0, <1>5 DEF Unregister, memory
    <2> QED
      BY <1>0, <1>1, <2>1
  <1>6. CASE SwapList(t)
    <2>1. watched' = watched /\ UNCHANGED <<global_watched, active_thread_list, mapped, prot>>
      BY <1>0, <1>6 DEF SwapList, NewOK, memory
    <2> QED
      BY <1>1, <2>1
  <1>7. CASE CtlPublish(t)
    <2>1. global_watched' = watched[t] /\ UNCHANGED <<watched, active_thread_list, mapped, prot>>
      BY <1>7 DEF CtlPublish, memory
    <2>2. t \in active_thread_list
      BY <1>7 DEF CtlPublish, PhaseAccounting, ActiveMatches
    <2> QED
      BY <1>1, <2>1, <2>2
  <1>8. CASE MakeExec(t)
    <2>1. /\ pc[t] = "make_exec"
          /\ UNCHANGED <<watched, global_watched, active_thread_list, mapped>>
          /\ prot' = IF pg[t] \in mapped THEN [prot EXCEPT ![pg[t]] = "X"] ELSE prot
      BY <1>8 DEF MakeExec, lists
    <2>2. ~Placing
      <3>1. segfault_handler_mutex = t
        BY <2>1 DEF HandlerHolds, HandlerPC
      <3>2. Placing => hbreakpoint_sync_mutex \in Threads /\ pc[hbreakpoint_sync_mutex] \in ControllerPC
        BY DEF Placing, Stage, TypeOK, ControllerPC
      <3>3. Placing => hbreakpoint_sync_mutex = t
        BY <3>1, <3>2 DEF HandlerHolds, HandlerPC
      <3> QED
        BY <2>1, <3>2, <3>3 DEF ControllerPC
    <2>3. \A u \in active_thread_list : watched[u] = global_watched
      BY <2>2 DEF ListsOK
    <2>4. CASE p = pg[t]
      <3>1. Listed(global_watched, p)
        BY <2>1, <2>4 DEF ExecOK
      <3> QED
        BY <2>1, <2>3, <3>1
    <2>5. CASE p # pg[t]
      <3>1. p \in mapped /\ prot[p] = "X"
        BY <1>0, <2>1, <2>5
      <3> QED
        BY <1>1, <2>1, <3>1
    <2> QED
      BY <2>4, <2>5
  <1>9. CASE HandlerWrite(t)
    <2>1. p \in mapped /\ prot[p] = "X" /\ UNCHANGED lists /\ UNCHANGED active_thread_list
      BY <1>0, <1>9 DEF HandlerWrite
    <2> QED
      BY <1>1, <2>1 DEF lists
  <1>10. CASE HandlerScan(t)
    BY <1>1, <1>10 DEF HandlerScan, lists
  <1>11. ASSUME NEW q \in Pages, Munmap(t, q) \/ Mmap(t, q)
         PROVE  /\ Listed(global_watched', p)
                /\ \A u \in active_thread_list' : Listed(watched'[u], p)
    <2>1. p \in mapped /\ prot[p] = "X" /\ UNCHANGED lists /\ UNCHANGED active_thread_list
      BY <1>0, <1>11 DEF Munmap, Mmap
    <2> QED
      BY <1>1, <2>1 DEF lists
  <1>12. EvictOldest(t) => Failure(t) = "none"
    <2>1. EvictOldest(t) => pc[t] \in Adding
      BY DEF EvictOldest, Adding
    <2>2. Application(t) /\ pc[t] \in Adding => FALSE
      BY DEF Application, Fault, Munmap, Mmap, Clone, Exit, EnterPM, Adding
    <2> QED
      BY <2>1, <2>2
  <1>13. CASE UNCHANGED <<watched, global_watched, active_thread_list, mapped, prot>>
    BY <1>1, <1>13
  <1> QED
    BY <1>2, <1>3, <1>4, <1>5, <1>6, <1>7, <1>8, <1>9, <1>10, <1>11, <1>12, <1>13,
       SameLists, SameMemory

\* The loop of add_breakpoints always finds a page to evict while the new page does
\* not fit, and perf_event_open a debug register for each breakpoint once it does.
LEMMA NoSlotFailure ==
  ASSUME TypeOK, FrameOK, PhaseAccounting, ListsOK, PageOK, SlotsMatch, NEW t \in Threads
  PROVE  Failure(t) \notin {"perf_event_open", "nothing_to_evict"}
  <1>1. pc[t] \in Adding /\ Fits(t) => set_hbreakpoint(t)
    BY DEF Fits, set_hbreakpoint, SlotsMatch
  <1>2. ASSUME pc[t] \in Adding, ~Fits(t), watched[t].pages = << >>
        PROVE  FALSE
    <2>1. Placing /\ t \in active_thread_list
      <3>1. pc[t] = "c_add" => Stage = "c_add"
        BY ThreadAssumption DEF PhaseAccounting, ControllerHolds, ControllerPC, Stage
      <3>2. pc[t] = "f_add" => Stage = "c_wait1"
        BY DEF PhaseAccounting, FollowersInPhase
      <3>3. t \in active_thread_list
        BY <1>2 DEF PhaseAccounting, ActiveMatches, Adding
      <3> QED
        BY <1>2, <3>1, <3>2, <3>3 DEF Placing, Adding
    <2>2. PICK old \in Controllers : \E S \in SumFns(old) : Session(old, S)
      BY <2>1 DEF ListsOK
    <2>3. PICK S \in SumFns(old) : Session(old, S)
      BY <2>2
    <2>4. arg[t] \in Pages /\ arg[t] = pg[hbreakpoint_sync_mutex]
      <3>1. arg[t] \in Pages
        BY <1>2 DEF FrameOK, TypeOK, Adding
      <3>2. arg[t] = pg[hbreakpoint_sync_mutex]
        BY <1>2 DEF PageOK
      <3> QED
        BY <3>1, <3>2
    <2>5. Evicting(watched[t], old, S, arg[t])
      BY <1>2, <2>1, <2>3, <2>4 DEF Session, ListOf
    <2>6. watched[t].used = 0
      BY <1>2, <2>4, <2>5, EvictingEmpty
    <2> QED
      BY <1>2, <2>4, <2>6, NeedFits DEF Fits
  <1> QED
    BY <1>1, <1>2 DEF Failure, Adding

\* A step that changes none of the variables of LInv but crash.
LEMMA SameLInv ==
  ASSUME LInv, UNCHANGED <<pc, frame, sync, active_thread_list, locks, lists, memory>>,
         SlotsSuffice'
  PROVE  LInv'
  <1> USE DEF LInv, frame, sync, locks, lists, memory
  <1>1. Stage' = Stage
    BY DEF Stage
  <1>2. ListsOK'
    <2>1. \A old, S : Session(old, S)' <=> Session(old, S)
      BY <1>1 DEF Session, ListOf
    <2>2. Placing' <=> Placing
      BY <1>1 DEF Placing
    <2> QED
      BY <2>1, <2>2 DEF ListsOK
  <1>3. PageOK'
    BY <1>1 DEF PageOK
  <1>4. NewOK' /\ SlotsMatch' /\ HandlerHolds'
    BY DEF NewOK, SlotsMatch, HandlerHolds
  <1>5. PermOK'
    BY DEF PermOK
  <1>6. ExecOK'
    BY DEF ExecOK, Listed
  <1>7. Guarded'
    BY DEF Guarded, Listed
  <1> QED
    BY <1>2, <1>3, <1>4, <1>5, <1>6, <1>7

\* The invariant of the lists holds initially,
LEMMA InitLInv == Init => LInv
  <1> SUFFICES ASSUME Init PROVE LInv
    OBVIOUS
  <1>1. Stage = "none"
    BY DEF Init, Stage
  <1>2. Counted(Empty)
    <2> DEFINE S == [i \in 0..0 |-> 0]
    <2>1. Len(Empty.pages) = 0 /\ Empty.used = 0
      BY DEF Empty
    <2>2. S \in SumFns(Empty) /\ Sums(Empty, S)
      BY <2>1 DEF SumFns, Sums
    <2> QED
      BY <2>2 DEF Counted
  <1>3. ListsOK
    <2>1. ~Placing
      BY <1>1 DEF Placing
    <2>2. \A u \in active_thread_list : watched[u] = global_watched
      BY ThreadAssumption DEF Init
    <2>3. Counted(global_watched)
      BY <1>2 DEF Init
    <2> QED
      BY <2>1, <2>2, <2>3 DEF ListsOK
  <1>4. PageOK /\ NewOK /\ SlotsSuffice
    BY <1>1 DEF Init, PageOK, NewOK, SlotsSuffice, Adding
  <1>5. SlotsMatch
    <2>1. Empty.pages = << >> /\ Empty.used = 0
      BY DEF Empty
    <2> QED
      BY <2>1, CountEmpty DEF Init, SlotsMatch
  <1>6. HandlerHolds
    BY ThreadAssumption DEF Init, HandlerHolds, HandlerPC, ControllerPC
  <1>7. PermOK /\ ExecOK /\ Guarded
    BY DEF Init, PermOK, ExecOK, Guarded
  <1> QED
    BY <1>3, <1>4, <1>5, <1>6, <1>7 DEF LInv

\* and every step keeps it that does not interrupt the move of a list.
LEMMA NextLInv == IInv /\ LInv /\ [Next]_vars /\ [Undisturbed]_vars => LInv'
  <1> SUFFICES ASSUME IInv, LInv, [Next]_vars, [Undisturbed]_vars PROVE LInv'
    OBVIOUS
  <1>0. TypeOK /\ FrameOK /\ PhaseAccounting
    BY DEF IInv
  <1>1. CASE UNCHANGED vars
    <2>1. SlotsSuffice'
      BY <1>1 DEF LInv, SlotsSuffice, vars
    <2> QED
      BY <1>1, <2>1, SameLInv DEF vars
  <1>2. ASSUME NEW t \in Threads, Undisturbed,
               (Failure(t) = "none" /\ Monitor(t)) \/ Application(t)
        PROVE  LInv'
    <2>1. ListsOK' /\ PageOK'
      BY <1>0, <1>2, ListsStep DEF LInv
    <2>2. NewOK'
      BY <1>0, <1>2, NewStep DEF LInv
    <2>3. SlotsMatch'
      BY <1>0, <1>2, SlotsStep DEF LInv
    <2>4. HandlerHolds'
      BY <1>0, <1>2, HandlerStep DEF LInv
    <2>5. PermOK'
      BY <1>0, <1>2, PermStep DEF LInv
    <2>6. ExecOK'
      BY <1>0, <1>2, ExecStep DEF LInv
    <2>7. Guarded'
      BY <1>0, <1>2, GuardStep DEF LInv
    <2>8. crash' = crash
      BY <1>2, SameCrash
    <2> QED
      BY <2>1, <2>2, <2>3, <2>4, <2>5, <2>6, <2>7, <2>8 DEF LInv, SlotsSuffice
  <1>3. ASSUME NEW t \in Threads, Abort(t)
        PROVE  LInv'
    <2>1. SlotsSuffice'
      BY <1>0, <1>3, NoSlotFailure DEF LInv, Abort, SlotsSuffice
    <2> QED
      BY <1>3, <2>1, SameLInv DEF Abort
  <1> QED
    BY <1>1, <1>2, <1>3 DEF Next, Step, Quiet

\* For any number of threads, pages and breakpoints, the invariant of the lists
\* holds in every execution that does not interrupt the move of a list.
THEOREM ListsInductive == Spec /\ [][Undisturbed]_vars => [](IInv /\ LInv)
  <1>1. Init => LInv
    BY InitLInv
  <1>2. IInv /\ LInv /\ [Next]_vars /\ [Undisturbed]_vars => LInv'
    BY NextLInv
  <1> QED
    BY <1>1, <1>2, Inductive, PTL DEF Spec

\* Every page of a thread's list has its breakpoints open in the kernel, and
\* used_breakpoints counts them, through every add_breakpoints and eviction.
THEOREM SlotsCounted == Spec /\ [][Undisturbed]_vars => []SlotsMatch
  <1>1. IInv /\ LInv => SlotsMatch
    BY DEF LInv
  <1> QED
    BY <1>1, ListsInductive, PTL

\* perf_event_open never runs out of debug registers, and the loop of
\* add_breakpoints that makes room never empties the list without having it.
THEOREM SlotsNeverShort == Spec /\ [][Undisturbed]_vars => []SlotsSuffice
  <1>1. IInv /\ LInv => SlotsSuffice
    BY DEF LInv
  <1> QED
    BY <1>1, ListsInductive, PTL

\* While nobody holds hbreakpoint_sync_mutex the lists of all active threads are
\* equal to the global copy that a new thread starts from.
THEOREM ListsEqual == Spec /\ [][Undisturbed]_vars => []ListsAgree
  <1>1. ASSUME LInv PROVE ListsAgree
    <2>1. hbreakpoint_sync_mutex = NoThread => ~Placing
      BY DEF Placing, Stage
    <2> QED
      BY <1>1, <2>1 DEF LInv, ListsOK, ListsAgree
  <1> QED
    BY <1>1, ListsInductive, PTL

\* No thread runs application code while a page with known unsafe instructions is
\* executable and the thread has no breakpoint on it: the two phases of a session
\* and the eviction of the oldest page never open a window for another thread.
THEOREM ExecGuarded == Spec /\ [][Undisturbed]_vars => []GuardedExec
  <1>1. ASSUME IInv, LInv PROVE GuardedExec
    <2> SUFFICES ASSUME NEW t \in Threads, NEW p \in (unsafe \cap mapped) \ WX,
                        pc[t] = "app", prot[p] = "X"
                 PROVE  placed[t][p] > 0
      BY DEF GuardedExec
    <2>1. p \in Pages /\ watched[t] \in Controllers
      BY <1>1 DEF IInv, TypeOK
    <2>2. t \in active_thread_list
      BY <1>1 DEF IInv, PhaseAccounting, ActiveMatches
    <2>3. Listed(watched[t], p)
      BY <1>1, <2>2 DEF LInv, Guarded
    <2>4. placed[t] = CountIn(watched[t].pages)
      BY <1>1 DEF LInv, SlotsMatch
    <2> QED
      BY <2>1, <2>3, <2>4, CountListed
  <1> QED
    BY <1>1, ListsInductive, PTL

=============================================================================
