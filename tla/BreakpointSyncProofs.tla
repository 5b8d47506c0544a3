------------------------ MODULE BreakpointSyncProofs ------------------------
(***************************************************************************)
(* Type correctness of the steps of BreakpointSync, for any number of      *)
(* threads and pages.                                                      *)
(***************************************************************************)
EXTENDS BreakpointSync, FiniteSetTheorems, TLAPS

\* Where a thread stands in the handler with the page of its own fault.
FaultPC == ControllerPC \cup {"segv", "same_page", "try_lock", "lock", "handler",
                              "c_lock", "c_start", "c_wait2", "make_exec"}

\* The part of a handler's frame the steps rely on: a faulting thread keeps its
\* page while it follows, and add_breakpoints has a page to add.
FrameOK ==
  \A t \in Threads :
    /\ pc[t] \in FaultPC => pg[t] # NoPage
    /\ pc[t] \in FollowerPC /\ cont[t] \in {"lock", "try_lock"} => pg[t] # NoPage
    /\ pc[t] \notin FollowerPC => cont[t] = "return"
    /\ pc[t] \in {"c_add", "f_add"} => arg[t] # NoPage

\* The initial state has its types and frames.
LEMMA TypeInit == Init => TypeOK /\ FrameOK
  <1> SUFFICES ASSUME Init PROVE TypeOK /\ FrameOK
    OBVIOUS
  <1> USE ThreadAssumption, PageAssumption
  <1>1. TypeOK
    BY DEF Init, TypeOK, PC, Interruptible, ControllerPC, FollowerPC, Continuations,
           Controllers, Empty
  <1>2. FrameOK
    BY DEF Init, FrameOK, FaultPC, FollowerPC, ControllerPC
  <1> QED
    BY <1>1, <1>2

\* The labels and continuations, one by one.
LEMMA Labels ==
  /\ "app" \in PC /\ "pm" \in PC /\ "n_copy" \in PC /\ "n_swap" \in PC
  /\ "c_page" \in PC /\ "c_signal" \in PC /\ "c_add" \in PC
  /\ "c_publish" \in PC /\ "c_wait1" \in PC /\ "c_arm2" \in PC
  /\ "c_release" \in PC /\ "f_wait" \in PC /\ "f_load" \in PC
  /\ "f_add" \in PC /\ "f_dec1" \in PC /\ "f_hold" \in PC /\ "f_dec2" \in PC
  /\ "idle" \in PC /\ "dead" \in PC /\ "segv" \in PC /\ "same_page" \in PC
  /\ "kill" \in PC /\ "try_lock" \in PC /\ "lock" \in PC /\ "handler" \in PC
  /\ "c_lock" \in PC /\ "c_start" \in PC /\ "c_wait2" \in PC
  /\ "make_exec" \in PC /\ "n_register" \in PC /\ "x_unregister" \in PC
  /\ "x_free" \in PC
  /\ Interruptible \subseteq PC
  /\ "app" \in Interruptible
  /\ Continuations \subseteq PC \cup {"return"}
  /\ "return" \in Continuations /\ "lock" \in Continuations
  /\ "try_lock" \in Continuations /\ "x_unregister" \in Continuations
  BY DEF PC, Interruptible, ControllerPC, FollowerPC, Continuations

\* What a step of the monitor knows from the assertions that did not fail.
LEMMA NoFailure ==
  ASSUME NEW t \in Threads, Failure(t) = "none"
  PROVE  /\ pc[t] = "c_start" => sync = <<NoThread, NoPage, 0>>
         /\ pc[t] = "f_load" => segfault_page # NoPage
         /\ pc[t] \in {"f_dec1", "f_dec2"} => waiting_thread_count # 0
         /\ pc[t] \in {"c_add", "f_add"} /\ ~Fits(t) => watched[t].pages # << >>
  BY DEF Failure

\* A page list holds a whole number of entries of each page.
LEMMA CountInType ==
  ASSUME NEW list \in Seq(Pages)
  PROVE  CountIn(list) \in [Pages -> Int]
  <1>1. ASSUME NEW p \in Pages
        PROVE  Cardinality({i \in DOMAIN list : list[i] = p}) \in Int
    <2>1. IsFiniteSet(1..Len(list))
      BY FS_Interval
    <2>2. {i \in DOMAIN list : list[i] = p} \subseteq 1..Len(list)
      OBVIOUS
    <2>3. IsFiniteSet({i \in DOMAIN list : list[i] = p})
      BY <2>1, <2>2, FS_Subset
    <2> QED
      BY <2>3, FS_CardinalityType
  <1> QED
    BY <1>1 DEF CountIn

\* add_watched_page keeps the type of a controller and of the
\* number of events.
LEMMA AddType ==
  ASSUME NEW c \in Controllers, NEW p \in Pages, NEW n \in Int
  PROVE  add_watched_page(c, p) \in Controllers /\ n + Need[p] \in Int
  <1>1. Need[p] \in Int
    BY PageAssumption
  <1>2. c.pages \in Seq(Pages) /\ c.used \in Int
    BY DEF Controllers
  <1>3. Append(c.pages, p) \in Seq(Pages)
    BY <1>2
  <1> QED
    BY <1>1, <1>2, <1>3 DEF add_watched_page, Controllers

\* The oldest page of a list that has one is a page, and removing it keeps the types.
LEMMA RemoveType ==
  ASSUME NEW c \in Controllers, c.pages # << >>, NEW n \in Int
  PROVE  /\ Head(c.pages) \in Pages
         /\ remove_last_page(c) \in Controllers
         /\ n - Need[Head(c.pages)] \in Int
  <1>1. c.pages \in Seq(Pages) /\ c.used \in Int
    BY DEF Controllers
  <1>2. Head(c.pages) \in Pages /\ Tail(c.pages) \in Seq(Pages)
    BY <1>1
  <1>3. Need[Head(c.pages)] \in Int
    BY <1>2, PageAssumption
  <1> QED
    BY <1>1, <1>2, <1>3 DEF remove_last_page, Controllers

\* The store active_thread_list_size - 1 of a thread on the list.
LEMMA ActiveCount ==
  ASSUME TypeOK, PhaseAccounting, NEW t \in Threads,
         pc[t] \in {"c_publish", "c_arm2"}
  PROVE  /\ IsFiniteSet(active_thread_list)
         /\ t \in active_thread_list
         /\ Cardinality(active_thread_list) - 1 \in Nat
         /\ Cardinality(active_thread_list) - 1
              = Cardinality(active_thread_list \ {t})
  <1>1. IsFiniteSet(active_thread_list)
    BY ThreadAssumption, FS_Subset DEF TypeOK
  <1>2. t \in active_thread_list
    BY DEF PhaseAccounting, ActiveMatches
  <1>3. /\ IsFiniteSet(active_thread_list \ {t})
        /\ Cardinality(active_thread_list \ {t})
             = Cardinality(active_thread_list) - 1
    BY <1>1, <1>2, FS_RemoveElement
  <1>4. Cardinality(active_thread_list \ {t}) \in Nat
    BY <1>3, FS_CardinalityType
  <1> QED
    BY <1>1, <1>2, <1>3, <1>4

\* Every step of the monitor or of the application keeps the types.
LEMMA TypeStep ==
  ASSUME TypeOK, FrameOK, PhaseAccounting, NEW t \in Threads,
         (Failure(t) = "none" /\ Monitor(t)) \/ Application(t)
  PROVE  TypeOK'
  <1>0. /\ watched \in [Threads -> Controllers] /\ heap_copy \in [Threads -> Controllers]
        /\ placed \in [Threads -> [Pages -> Int]] /\ events \in [Threads -> Int]
        /\ global_watched \in Controllers
        /\ arg \in [Threads -> Pages \cup {NoPage}]
        /\ prot \in [Pages -> {"R", "RW", "X"}]
        /\ current_perm \in [Pages -> {"R", "RW", "X"}]
        /\ waiting_thread_count \in Nat
    BY DEF TypeOK
  <1>c. Failure(t) = "none" /\ (FolDec1(t) \/ FolReturn(t) \/ FolResume(t))
          => waiting_thread_count - 1 \in Nat
    <2>1. FolDec1(t) \/ FolReturn(t) \/ FolResume(t) => pc[t] \in {"f_dec1", "f_dec2"}
      BY DEF FolDec1, FolReturn, FolResume
    <2>2. Failure(t) = "none" /\ pc[t] \in {"f_dec1", "f_dec2"} => waiting_thread_count # 0
      BY NoFailure
    <2> QED
      BY <1>0, <2>1, <2>2
  <1>p. ASSUME PlaceBreakpoints(t)
        PROVE  /\ watched' \in [Threads -> Controllers]
               /\ events' \in [Threads -> Int]
               /\ placed' \in [Threads -> [Pages -> Int]]
    <2>1. arg[t] \in Pages
      BY <1>0, <1>p DEF PlaceBreakpoints, FrameOK
    <2>2. /\ add_watched_page(watched[t], arg[t]) \in Controllers
          /\ events[t] + Need[arg[t]] \in Int
      BY <1>0, <2>1, AddType
    <2>3. /\ watched' \in [Threads -> Controllers]
          /\ events' \in [Threads -> Int]
      BY <1>0, <1>p, <2>2 DEF PlaceBreakpoints
    <2>4. placed[t][arg[t]] + 1 \in Int
      BY <1>0, <2>1
    <2>5. placed' \in [Threads -> [Pages -> Int]]
      BY <1>0, <1>p, <2>1, <2>4 DEF PlaceBreakpoints
    <2> QED
      BY <2>3, <2>5
  <1>e. ASSUME Failure(t) = "none", EvictOldest(t)
        PROVE  /\ watched' \in [Threads -> Controllers]
               /\ events' \in [Threads -> Int]
               /\ placed' \in [Threads -> [Pages -> Int]]
               /\ prot' \in [Pages -> {"R", "RW", "X"}]
               /\ current_perm' \in [Pages -> {"R", "RW", "X"}]
    <2>1. watched[t].pages # << >>
      BY <1>e, NoFailure DEF EvictOldest
    <2>2. /\ Head(watched[t].pages) \in Pages
          /\ remove_last_page(watched[t]) \in Controllers
          /\ events[t] - Need[Head(watched[t].pages)] \in Int
      BY <1>0, <2>1, RemoveType
    <2>3. /\ watched' \in [Threads -> Controllers]
          /\ events' \in [Threads -> Int]
      BY <1>0, <1>e, <2>2 DEF EvictOldest
    <2>4. placed[t][Head(watched[t].pages)] - 1 \in Int
      BY <1>0, <2>2
    <2>5. placed' \in [Threads -> [Pages -> Int]]
      BY <1>0, <1>e, <2>2, <2>4 DEF EvictOldest
    <2>6. /\ prot' \in [Pages -> {"R", "RW", "X"}]
          /\ current_perm' \in [Pages -> {"R", "RW", "X"}]
      BY <1>0, <1>e, <2>2 DEF EvictOldest
    <2> QED
      BY <2>3, <2>5, <2>6
  <1>z. Empty \in Controllers /\ [p \in Pages |-> 0] \in [Pages -> Int]
    BY DEF Empty, Controllers
  <1>r. ASSUME Register(t)
        PROVE  /\ watched' \in [Threads -> Controllers]
               /\ events' \in [Threads -> Int]
               /\ placed' \in [Threads -> [Pages -> Int]]
    <2>1. CountIn(global_watched.pages) \in [Pages -> Int] /\ global_watched.used \in Int
      BY <1>0, CountInType DEF Controllers
    <2> QED
      BY <1>0, <1>r, <2>1 DEF Register
  <1>s. SwapList(t) => /\ watched' \in [Threads -> Controllers]
                       /\ heap_copy' \in [Threads -> Controllers]
    BY <1>0, <1>z DEF SwapList
  <1>u. Unregister(t) => /\ watched' \in [Threads -> Controllers]
                         /\ placed' \in [Threads -> [Pages -> Int]]
                         /\ events' \in [Threads -> Int]
    BY <1>0, <1>z DEF Unregister
  <1> USE ThreadAssumption, PageAssumption, Labels
      DEF TypeOK, Goto, Return, sync, locks, frame, lists, memory
  <1>1. CASE Deliver(t)
    BY <1>1 DEF Deliver
  <1>2. CASE KillFollow(t)
    BY <1>2 DEF KillFollow
  <1>3. CASE KillIgnore(t)
    BY <1>3 DEF KillIgnore
  <1>4. CASE OnSegv(t)
    BY <1>4 DEF OnSegv
  <1>5. CASE SamePage(t)
    BY <1>5 DEF SamePage
  <1>6. CASE TryLock(t)
    BY <1>6 DEF TryLock
  <1>7. CASE TryLockFollow(t)
    BY <1>7 DEF TryLockFollow
  <1>8. CASE Lock(t)
    BY <1>8 DEF Lock
  <1>9. CASE HandlerDone(t)
    BY <1>9 DEF HandlerDone
  <1>10. CASE HandlerWrite(t)
    BY <1>10 DEF HandlerWrite
  <1>11. CASE HandlerScan(t)
    BY <1>11 DEF HandlerScan
  <1>12. CASE HandlerPlace(t)
    BY <1>12 DEF HandlerPlace
  <1>13. CASE MakeExec(t)
    BY <1>13 DEF MakeExec
  <1>14. CASE CtlLock(t)
    BY <1>14 DEF CtlLock
  <1>15. CASE CtlSkip(t)
    BY <1>15 DEF CtlSkip
  <1>16. CASE CtlStart(t)
    BY <1>16 DEF CtlStart
  <1>17. CASE CtlPage(t)
    BY <1>17 DEF CtlPage
  <1>18. CASE CtlSignal(t)
    BY <1>18 DEF CtlSignal
  <1>19. CASE CtlPublish(t)
    <2>1. Cardinality(active_thread_list) - 1 \in Nat
      BY <1>19, ActiveCount DEF CtlPublish, CtlArm2
    <2> QED
      BY <1>19, <2>1 DEF CtlPublish, CtlArm2
  <1>20. CASE CtlWait1(t)
    BY <1>20 DEF CtlWait1
  <1>21. CASE CtlArm2(t)
    <2>1. Cardinality(active_thread_list) - 1 \in Nat
      BY <1>21, ActiveCount DEF CtlPublish, CtlArm2
    <2> QED
      BY <1>21, <2>1 DEF CtlPublish, CtlArm2
  <1>22. CASE CtlRelease(t)
    BY <1>22 DEF CtlRelease
  <1>23. CASE CtlWait2(t)
    BY <1>23 DEF CtlWait2
  <1>24. CASE FolWait(t)
    BY <1>24 DEF FolWait
  <1>25. CASE Failure(t) = "none" /\ FolLoad(t)
    BY <1>25 DEF FolLoad
  <1>26. CASE Failure(t) = "none" /\ FolDec1(t)
    BY <1>26, <1>c DEF FolDec1
  <1>27. CASE FolHold(t)
    BY <1>27 DEF FolHold
  <1>28. CASE Failure(t) = "none" /\ FolReturn(t)
    BY <1>28, <1>c DEF FolReturn
  <1>29. CASE Failure(t) = "none" /\ FolResume(t)
    <2>1. pc' \in [Threads -> PC] /\ cont' \in [Threads -> Continuations]
      BY <1>29 DEF FolResume
    <2> QED
      BY <1>29, <1>c, <2>1 DEF FolResume
  <1>30. CASE PlaceBreakpoints(t)
    BY <1>30, <1>p DEF PlaceBreakpoints
  <1>31. CASE Failure(t) = "none" /\ EvictOldest(t)
    BY <1>31, <1>e DEF EvictOldest
  <1>32. CASE Register(t)
    BY <1>32, <1>r DEF Register
  <1>33. CASE CopyList(t)
    BY <1>33 DEF CopyList
  <1>34. CASE SwapList(t)
    BY <1>34, <1>s DEF SwapList
  <1>35. CASE UnregisterFollow(t)
    BY <1>35 DEF UnregisterFollow
  <1>36. CASE Unregister(t)
    BY <1>36, <1>u DEF Unregister
  <1>37. CASE Free(t)
    BY <1>37 DEF Free
  <1>38. CASE LeavePM(t)
    BY <1>38 DEF LeavePM
  <1>39. CASE Exit(t)
    BY <1>39 DEF Exit
  <1>40. CASE EnterPM(t)
    BY <1>40 DEF EnterPM
  <1>41. ASSUME NEW p \in Pages, Fault(t, p) PROVE TypeOK'
    BY <1>41 DEF Fault
  <1>42. ASSUME NEW p \in Pages, Munmap(t, p) PROVE TypeOK'
    BY <1>42 DEF Munmap
  <1>43. ASSUME NEW p \in Pages, Mmap(t, p) PROVE TypeOK'
    BY <1>43 DEF Mmap
  <1>44. ASSUME NEW u \in Threads, Clone(t, u) PROVE TypeOK'
    BY <1>44 DEF Clone
  <1>45. QED
    BY <1>1, <1>2, <1>3, <1>4, <1>5, <1>6, <1>7, <1>8, <1>9, <1>10, <1>11,
       <1>12, <1>13, <1>14, <1>15, <1>16, <1>17, <1>18, <1>19, <1>20, <1>21,
       <1>22, <1>23, <1>24, <1>25, <1>26, <1>27, <1>28, <1>29, <1>30, <1>31,
       <1>32, <1>33, <1>34, <1>35, <1>36, <1>37, <1>38, <1>39, <1>40, <1>41,
       <1>42, <1>43, <1>44 DEF Monitor, Application

\* Every step keeps the frames of the handlers.
LEMMA FrameStep ==
  ASSUME TypeOK, FrameOK, NEW t \in Threads,
         (Failure(t) = "none" /\ Monitor(t)) \/ Application(t)
  PROVE  FrameOK'
  <1>0. /\ pc \in [Threads -> PC]
        /\ ctx \in [Threads -> Interruptible]
        /\ cont \in [Threads -> Continuations]
        /\ pg \in [Threads -> Pages \cup {NoPage}]
        /\ arg \in [Threads -> Pages \cup {NoPage}]
        /\ NoPage \notin Pages
    BY PageAssumption DEF TypeOK
  <1> USE <1>0 DEF FrameOK, ControllerPC, FollowerPC, FaultPC, Interruptible, Continuations,
                   Goto, Return, frame
  <1>1. CASE Deliver(t)
    BY <1>1 DEF Deliver
  <1>2. CASE KillFollow(t)
    BY <1>2 DEF KillFollow
  <1>3. CASE KillIgnore(t)
    BY <1>3 DEF KillIgnore
  <1>4. CASE OnSegv(t)
    BY <1>4 DEF OnSegv
  <1>5. CASE SamePage(t)
    BY <1>5 DEF SamePage
  <1>6. CASE TryLock(t)
    BY <1>6 DEF TryLock
  <1>7. CASE TryLockFollow(t)
    BY <1>7 DEF TryLockFollow
  <1>8. CASE Lock(t)
    BY <1>8 DEF Lock
  <1>9. CASE HandlerDone(t)
    BY <1>9 DEF HandlerDone
  <1>10. CASE HandlerWrite(t)
    BY <1>10 DEF HandlerWrite
  <1>11. CASE HandlerScan(t)
    BY <1>11 DEF HandlerScan
  <1>12. CASE HandlerPlace(t)
    BY <1>12 DEF HandlerPlace
  <1>13. CASE MakeExec(t)
    BY <1>13 DEF MakeExec
  <1>14. CASE CtlLock(t)
    BY <1>14 DEF CtlLock
  <1>15. CASE CtlSkip(t)
    BY <1>15 DEF CtlSkip
  <1>16. CASE CtlStart(t)
    BY <1>16 DEF CtlStart
  <1>17. CASE CtlPage(t)
    BY <1>17 DEF CtlPage
  <1>18. CASE CtlSignal(t)
    BY <1>18 DEF CtlSignal
  <1>19. CASE CtlPublish(t)
    BY <1>19 DEF CtlPublish
  <1>20. CASE CtlWait1(t)
    BY <1>20 DEF CtlWait1
  <1>21. CASE CtlArm2(t)
    BY <1>21 DEF CtlArm2
  <1>22. CASE CtlRelease(t)
    BY <1>22 DEF CtlRelease
  <1>23. CASE CtlWait2(t)
    BY <1>23 DEF CtlWait2
  <1>24. CASE FolWait(t)
    BY <1>24 DEF FolWait
  <1>25. CASE Failure(t) = "none" /\ FolLoad(t)
    BY <1>25, NoFailure DEF FolLoad
  <1>26. CASE Failure(t) = "none" /\ FolDec1(t)
    BY <1>26 DEF FolDec1
  <1>27. CASE FolHold(t)
    BY <1>27 DEF FolHold
  <1>28. CASE Failure(t) = "none" /\ FolReturn(t)
    BY <1>28 DEF FolReturn
  <1>29. CASE Failure(t) = "none" /\ FolResume(t)
    BY <1>29 DEF FolResume
  <1>30. CASE PlaceBreakpoints(t)
    BY <1>30 DEF PlaceBreakpoints
  <1>31. CASE Failure(t) = "none" /\ EvictOldest(t)
    BY <1>31 DEF EvictOldest
  <1>32. CASE Register(t)
    BY <1>32 DEF Register
  <1>33. CASE CopyList(t)
    BY <1>33 DEF CopyList
  <1>34. CASE SwapList(t)
    BY <1>34 DEF SwapList
  <1>35. CASE UnregisterFollow(t)
    BY <1>35 DEF UnregisterFollow
  <1>36. CASE Unregister(t)
    BY <1>36 DEF Unregister
  <1>37. CASE Free(t)
    BY <1>37 DEF Free
  <1>38. CASE LeavePM(t)
    BY <1>38 DEF LeavePM
  <1>39. CASE Exit(t)
    BY <1>39 DEF Exit
  <1>40. CASE EnterPM(t)
    BY <1>40 DEF EnterPM
  <1>41. ASSUME NEW p \in Pages, Fault(t, p) PROVE FrameOK'
    BY <1>41 DEF Fault
  <1>42. ASSUME NEW p \in Pages, Munmap(t, p) PROVE FrameOK'
    BY <1>42 DEF Munmap
  <1>43. ASSUME NEW p \in Pages, Mmap(t, p) PROVE FrameOK'
    BY <1>43 DEF Mmap
  <1>44. ASSUME NEW u \in Threads, Clone(t, u) PROVE FrameOK'
    BY <1>44 DEF Clone
  <1>45. QED
    BY <1>1, <1>2, <1>3, <1>4, <1>5, <1>6, <1>7, <1>8, <1>9, <1>10, <1>11,
       <1>12, <1>13, <1>14, <1>15, <1>16, <1>17, <1>18, <1>19, <1>20, <1>21,
       <1>22, <1>23, <1>24, <1>25, <1>26, <1>27, <1>28, <1>29, <1>30, <1>31,
       <1>32, <1>33, <1>34, <1>35, <1>36, <1>37, <1>38, <1>39, <1>40, <1>41,
       <1>42, <1>43, <1>44 DEF Monitor, Application

=============================================================================
