----------------------- MODULE BreakpointPhaseProofs -----------------------
(***************************************************************************)
(* The two-phase protocol of BreakpointSync: PhaseAccounting is inductive  *)
(* together with the types and frames of BreakpointSyncProofs, and the     *)
(* assertions of the protocol follow from it.                              *)
(***************************************************************************)
EXTENDS BreakpointSyncProofs

\* Where a thread takes no part in a session: on the active list,
Neutral == Interruptible \cup {"segv", "kill", "try_lock", "lock", "handler",
                               "c_lock", "make_exec", "x_unregister"}
\* or off it.
Outside == {"idle", "dead", "n_register", "x_free"}

\* A zero count means that nobody owes a decrement.
LEMMA OwingFinite ==
  ASSUME TypeOK
  PROVE  /\ IsFiniteSet(Owing)
         /\ Cardinality(Owing) = 0 <=> Owing = {}
  <1>1. Owing \subseteq Threads
    BY DEF TypeOK, Owing
  <1>2. IsFiniteSet(Owing)
    BY <1>1, ThreadAssumption, FS_Subset
  <1> QED
    BY <1>2, FS_EmptySet

\* A step of a thread that takes no part in a session, before and after it.
LEMMA PlainStep ==
  ASSUME TypeOK, PhaseAccounting, NEW t \in Threads, NEW l,
         \/ pc[t] \in Neutral /\ l \in Neutral
         \/ pc[t] \in Outside /\ l \in Outside,
         pc' = [pc EXCEPT ![t] = l],
         UNCHANGED <<sync, active_thread_list, hbreakpoint_sync_mutex>>
  PROVE  PhaseAccounting'
  <1> USE DEF PhaseAccounting, Neutral, Outside, Interruptible, sync
  <1>0. /\ pc[t] \notin ControllerPC \cup FollowerPC \cup {"c_start", "c_wait2", "same_page"}
        /\ l \notin ControllerPC \cup FollowerPC \cup {"c_start", "c_wait2", "same_page"}
        /\ pc'[t] = l
        /\ \A u \in Threads \ {t} : pc'[u] = pc[u]
    BY DEF TypeOK, ControllerPC, FollowerPC
  <1>1. hbreakpoint_sync_mutex # t
    BY <1>0 DEF ControllerHolds
  <1>2. Stage' = Stage
    BY <1>0, <1>1 DEF Stage, TypeOK
  <1>3. Owing' = Owing
    BY <1>0, <1>2 DEF Owing, TypeOK, FollowerPC
  <1>4. CountMatches'
    BY <1>3 DEF CountMatches
  <1>5. ControllerHolds'
    BY <1>0 DEF ControllerHolds
  <1>6. FollowersInPhase'
    BY <1>0, <1>1, <1>2 DEF FollowersInPhase, FollowerPC, ActiveMatches
  <1>7. ActiveMatches'
    BY <1>0 DEF ActiveMatches
  <1>8. PageMatches'
    BY <1>2 DEF PageMatches
  <1> QED
    BY <1>4, <1>5, <1>6, <1>7, <1>8

\* A thread joins the session that is open.
LEMMA EnterFollow ==
  ASSUME TypeOK, PhaseAccounting, NEW t \in Threads, NEW l \in {"same_page", "f_wait"},
         \/ pc[t] \in Neutral /\ controller_thread # NoThread
         \/ pc[t] = "same_page",
         pc' = [pc EXCEPT ![t] = l],
         UNCHANGED <<sync, active_thread_list, hbreakpoint_sync_mutex>>
  PROVE  PhaseAccounting'
  <1> USE DEF PhaseAccounting, sync
  <1>0. /\ pc[t] \notin ControllerPC \cup FollowerPC \cup Outside
                          \cup {"c_start", "c_wait2"}
        /\ pc'[t] = l
        /\ \A u \in Threads \ {t} : pc'[u] = pc[u]
    BY DEF TypeOK, ControllerPC, FollowerPC, Outside, Neutral, Interruptible
  <1>1. hbreakpoint_sync_mutex # t
    BY <1>0 DEF ControllerHolds
  <1>2. Stage' = Stage
    BY <1>0, <1>1 DEF Stage, TypeOK
  <1>3. t \in active_thread_list
    BY <1>0 DEF ActiveMatches, Outside
  <1>4. Stage \in {"c_page", "c_signal", "c_add", "c_publish", "c_wait1"}
    <2>1. CASE pc[t] = "same_page"
      BY <2>1 DEF FollowersInPhase
    <2>2. CASE controller_thread # NoThread /\ pc[t] \in Neutral
      <3>1. controller_thread \in Threads /\ pc[controller_thread] \in ControllerPC
        BY <2>2 DEF TypeOK, ControllerHolds
      <3>2. hbreakpoint_sync_mutex = controller_thread
        BY <3>1 DEF ControllerHolds
      <3>3. Stage \in ControllerPC
        BY <3>1, <3>2, ThreadAssumption DEF Stage
      <3>4. Stage \notin {"c_arm2", "c_release"}
        BY <1>0, <1>1, <1>3 DEF FollowersInPhase, FollowerPC
      <3> QED
        BY <3>3, <3>4 DEF ControllerPC
    <2> QED
      BY <2>1, <2>2
  <1>5. Owing' = Owing
    BY <1>0, <1>2, <1>4 DEF Owing, TypeOK, FollowerPC
  <1>6. CountMatches'
    BY <1>5 DEF CountMatches
  <1>7. ControllerHolds'
    BY <1>0 DEF ControllerHolds, ControllerPC
  <1>8. FollowersInPhase'
    BY <1>0, <1>1, <1>2, <1>4 DEF FollowersInPhase
  <1>9. ActiveMatches'
    BY <1>0, <1>3 DEF ActiveMatches
  <1>10. PageMatches'
    BY <1>2 DEF PageMatches
  <1> QED
    BY <1>6, <1>7, <1>8, <1>9, <1>10

\* hbreakpoint_sync_mutex is free: no thread is in a session.
LEMMA FreeMutex ==
  ASSUME TypeOK, PhaseAccounting, hbreakpoint_sync_mutex = NoThread
  PROVE  /\ Stage = "none"
         /\ Owing = {}
         /\ waiting_thread_count = 0
         /\ \A u \in Threads : pc[u] \notin ControllerPC \cup FollowerPC
                                  \cup {"c_start", "c_wait2", "same_page"}
         /\ controller_thread = NoThread
  <1>1. Stage = "none"
    BY DEF Stage
  <1>2. Owing = {}
    BY <1>1 DEF Owing
  <1>3. waiting_thread_count = 0
    BY <1>2, FS_EmptySet DEF PhaseAccounting, CountMatches
  <1>4. \A u \in Threads : pc[u] \notin ControllerPC \cup {"c_start", "c_wait2"}
    BY ThreadAssumption DEF PhaseAccounting, ControllerHolds
  <1>5. \A u \in Threads : pc[u] \notin FollowerPC \cup {"same_page"}
    BY <1>1 DEF PhaseAccounting, FollowersInPhase, FollowerPC
  <1>6. controller_thread = NoThread
    BY <1>4 DEF PhaseAccounting, ControllerHolds, TypeOK
  <1> QED
    BY <1>1, <1>2, <1>3, <1>4, <1>5, <1>6

\* add_breakpoint_wrapper takes hbreakpoint_sync_mutex between sessions.
LEMMA CtlLockPhase ==
  ASSUME TypeOK, PhaseAccounting, NEW t \in Threads, CtlLock(t)
  PROVE  PhaseAccounting'
  <1>1. /\ pc[t] = "c_lock" /\ pc'[t] = "c_start"
        /\ \A u \in Threads \ {t} : pc'[u] = pc[u]
        /\ hbreakpoint_sync_mutex = NoThread /\ hbreakpoint_sync_mutex' = t
        /\ UNCHANGED <<controller_thread, segfault_page, waiting_thread_count,
                       active_thread_list>>
    BY DEF CtlLock, Goto, TypeOK, sync
  <1>2. Stage' = "c_start"
    BY <1>1, ThreadAssumption DEF Stage
  <1>3. Owing' = Owing
    BY <1>1, <1>2, FreeMutex DEF Owing
  <1>4. CountMatches'
    BY <1>1, <1>3 DEF CountMatches, PhaseAccounting
  <1>5. ControllerHolds'
    BY <1>1, FreeMutex, ThreadAssumption DEF ControllerHolds, PhaseAccounting, ControllerPC
  <1>6. FollowersInPhase'
    BY <1>1, <1>2, FreeMutex DEF FollowersInPhase, FollowerPC
  <1>7. ActiveMatches'
    BY <1>1 DEF ActiveMatches, PhaseAccounting
  <1>8. PageMatches'
    BY <1>1, <1>2, FreeMutex DEF PageMatches, PhaseAccounting
  <1> QED
    BY <1>4, <1>5, <1>6, <1>7, <1>8 DEF PhaseAccounting

\* A step of the thread that holds hbreakpoint_sync_mutex and keeps it: its label
\* is the stage of the session.
LEMMA HolderStep ==
  ASSUME TypeOK, PhaseAccounting, NEW t \in Threads, NEW l,
         pc[t] \in ControllerPC \cup {"c_start", "c_wait2"},
         l \in ControllerPC \cup {"c_start", "c_wait2"},
         pc' = [pc EXCEPT ![t] = l],
         UNCHANGED <<active_thread_list, hbreakpoint_sync_mutex>>
  PROVE  /\ hbreakpoint_sync_mutex = t
         /\ Stage = pc[t] /\ Stage' = l
         /\ pc'[t] = l
         /\ \A u \in Threads \ {t} : /\ pc'[u] = pc[u]
                                     /\ pc[u] \notin ControllerPC \cup {"c_start", "c_wait2"}
         /\ t \in active_thread_list
         /\ ActiveMatches'
         /\ \A u \in Threads :
              pc'[u] \in ControllerPC \cup {"c_start", "c_wait2"}
                <=> hbreakpoint_sync_mutex' = u
  <1> USE DEF PhaseAccounting
  <1>1. hbreakpoint_sync_mutex = t
    BY DEF ControllerHolds
  <1>2. pc'[t] = l /\ \A u \in Threads \ {t} : pc'[u] = pc[u]
    BY DEF TypeOK
  <1>3. Stage = pc[t] /\ Stage' = l
    BY <1>1, <1>2, ThreadAssumption DEF Stage
  <1>4. \A u \in Threads \ {t} : pc[u] \notin ControllerPC \cup {"c_start", "c_wait2"}
    BY <1>1 DEF ControllerHolds
  <1>5. t \in active_thread_list
    BY DEF ActiveMatches, ControllerPC
  <1>6. ActiveMatches'
    BY <1>2, <1>5 DEF ActiveMatches, ControllerPC
  <1> QED
    BY <1>1, <1>2, <1>3, <1>4, <1>5, <1>6

\* The steps of the controller before the count is armed.
LEMMA EarlyPhase ==
  ASSUME TypeOK, FrameOK, PhaseAccounting, NEW t \in Threads,
         \/ CtlStart(t)
         \/ CtlPage(t)
         \/ CtlSignal(t)
         \/ PlaceBreakpoints(t) /\ pc[t] = "c_add"
  PROVE  PhaseAccounting'
  <1> DEFINE l == CASE pc[t] = "c_start" -> "c_page"
                    [] pc[t] = "c_page" -> "c_signal"
                    [] pc[t] = "c_signal" -> "c_add"
                    [] pc[t] = "c_add" -> "c_publish"
  <1>1. /\ pc[t] \in {"c_start", "c_page", "c_signal", "c_add"}
        /\ pc' = [pc EXCEPT ![t] = l]
        /\ UNCHANGED <<waiting_thread_count, active_thread_list, hbreakpoint_sync_mutex>>
    BY DEF CtlStart, CtlPage, CtlSignal, PlaceBreakpoints, Goto, sync, locks
  <1>2. /\ pc[t] = "c_start" => controller_thread' = t
        /\ pc[t] # "c_start" => controller_thread' = controller_thread
    BY DEF CtlStart, CtlPage, CtlSignal, PlaceBreakpoints, sync
  <1>3. /\ pc[t] = "c_page" => segfault_page' = pg[t] /\ pg[t] # NoPage
        /\ pc[t] # "c_page" => segfault_page' = segfault_page
    BY DEF CtlStart, CtlPage, CtlSignal, PlaceBreakpoints, sync, FrameOK, FaultPC, ControllerPC
  <1>4. l \in {"c_page", "c_signal", "c_add", "c_publish"}
    BY <1>1
  <1>5. /\ pc[t] = "c_start" => l = "c_page"
        /\ pc[t] = "c_page" => l = "c_signal"
        /\ pc[t] = "c_signal" => l = "c_add"
        /\ pc[t] = "c_add" => l = "c_publish"
    OBVIOUS
  <1> HIDE DEF l
  <1>6. /\ pc[t] \in ControllerPC \cup {"c_start", "c_wait2"}
        /\ l \in ControllerPC
    BY <1>1, <1>4 DEF ControllerPC
  <1>7. /\ hbreakpoint_sync_mutex = t
        /\ Stage = pc[t] /\ Stage' = l
        /\ pc'[t] = l
        /\ \A u \in Threads \ {t} : /\ pc'[u] = pc[u]
                                    /\ pc[u] \notin ControllerPC \cup {"c_start", "c_wait2"}
        /\ ActiveMatches'
        /\ \A u \in Threads :
             pc'[u] \in ControllerPC \cup {"c_start", "c_wait2"}
               <=> hbreakpoint_sync_mutex' = u
    BY <1>1, <1>6, HolderStep
  <1>8. Owing = {} /\ Owing' = {}
    BY <1>1, <1>4, <1>7 DEF Owing
  <1>9. CountMatches'
    BY <1>1, <1>8 DEF CountMatches, PhaseAccounting
  <1>10. controller_thread' = t
    BY <1>1, <1>2 DEF PhaseAccounting, ControllerHolds, ControllerPC
  <1>11. ControllerHolds'
    BY <1>6, <1>7, <1>10 DEF ControllerHolds
  <1>12. FollowersInPhase'
    BY <1>1, <1>4, <1>7 DEF FollowersInPhase, PhaseAccounting
  <1>13. PageMatches'
    BY <1>1, <1>3, <1>5, <1>7 DEF PageMatches, PhaseAccounting
  <1> QED
    BY <1>7, <1>9, <1>11, <1>12, <1>13 DEF PhaseAccounting

\* Arming phase 1: every other active thread owes a decrement.
LEMMA CtlPublishPhase ==
  ASSUME TypeOK, PhaseAccounting, NEW t \in Threads, CtlPublish(t)
  PROVE  PhaseAccounting'
  <1>1. /\ pc[t] = "c_publish" /\ pc' = [pc EXCEPT ![t] = "c_wait1"]
        /\ waiting_thread_count' = Cardinality(active_thread_list) - 1
        /\ UNCHANGED <<controller_thread, segfault_page, active_thread_list,
                       hbreakpoint_sync_mutex>>
    BY DEF CtlPublish, Goto, locks
  <1>2. /\ hbreakpoint_sync_mutex = t
        /\ Stage = "c_publish" /\ Stage' = "c_wait1"
        /\ pc'[t] = "c_wait1"
        /\ \A u \in Threads \ {t} : /\ pc'[u] = pc[u]
                                    /\ pc[u] \notin ControllerPC \cup {"c_start", "c_wait2"}
        /\ ActiveMatches'
        /\ \A u \in Threads :
             pc'[u] \in ControllerPC \cup {"c_start", "c_wait2"}
               <=> hbreakpoint_sync_mutex' = u
    BY <1>1, HolderStep DEF ControllerPC
  <1>3. \A u \in Threads : pc[u] # "f_hold"
    BY <1>2 DEF PhaseAccounting, FollowersInPhase
  <1>4. Owing' = active_thread_list \ {t}
    BY <1>1, <1>2, <1>3 DEF Owing, TypeOK
  <1>5. CountMatches'
    BY <1>1, <1>4, ActiveCount DEF CountMatches
  <1>6. ControllerHolds'
    BY <1>1, <1>2 DEF ControllerHolds, PhaseAccounting, ControllerPC
  <1>7. FollowersInPhase'
    BY <1>2 DEF FollowersInPhase, PhaseAccounting
  <1>8. PageMatches'
    BY <1>1, <1>2 DEF PageMatches, PhaseAccounting
  <1> QED
    BY <1>2, <1>5, <1>6, <1>7, <1>8 DEF PhaseAccounting

\* The count is zero in phase 1: every other active thread is at f_hold.
LEMMA CtlWait1Phase ==
  ASSUME TypeOK, PhaseAccounting, NEW t \in Threads, CtlWait1(t)
  PROVE  PhaseAccounting'
  <1>1. /\ pc[t] = "c_wait1" /\ pc' = [pc EXCEPT ![t] = "c_arm2"]
        /\ waiting_thread_count = 0 /\ segfault_page' = NoPage
        /\ UNCHANGED <<controller_thread, waiting_thread_count, active_thread_list,
                       hbreakpoint_sync_mutex>>
    BY DEF CtlWait1, Goto, locks
  <1>2. /\ hbreakpoint_sync_mutex = t
        /\ Stage = "c_wait1" /\ Stage' = "c_arm2"
        /\ pc'[t] = "c_arm2"
        /\ \A u \in Threads \ {t} : /\ pc'[u] = pc[u]
                                    /\ pc[u] \notin ControllerPC \cup {"c_start", "c_wait2"}
        /\ ActiveMatches'
        /\ \A u \in Threads :
             pc'[u] \in ControllerPC \cup {"c_start", "c_wait2"}
               <=> hbreakpoint_sync_mutex' = u
    BY <1>1, HolderStep DEF ControllerPC
  <1>3. Owing = {}
    BY <1>1, OwingFinite DEF PhaseAccounting, CountMatches
  <1>4. \A u \in active_thread_list \ {t} : pc[u] = "f_hold"
    BY <1>2, <1>3 DEF Owing
  <1>5. \A u \in Threads \ {t} :
          pc[u] \notin {"same_page", "f_wait", "f_load", "f_add", "f_dec1", "f_dec2"}
    BY <1>4 DEF PhaseAccounting, ActiveMatches
  <1>6. Owing' = {}
    BY <1>2 DEF Owing
  <1>7. CountMatches'
    BY <1>1, <1>6, FS_EmptySet DEF CountMatches
  <1>8. ControllerHolds'
    BY <1>1, <1>2 DEF ControllerHolds, PhaseAccounting, ControllerPC
  <1>9. FollowersInPhase'
    BY <1>1, <1>2, <1>4, <1>5 DEF FollowersInPhase
  <1>10. PageMatches'
    BY <1>1, <1>2 DEF PageMatches
  <1> QED
    BY <1>2, <1>7, <1>8, <1>9, <1>10 DEF PhaseAccounting

\* Arming phase 2: every other active thread is held and owes a decrement.
LEMMA CtlArm2Phase ==
  ASSUME TypeOK, PhaseAccounting, NEW t \in Threads, CtlArm2(t)
  PROVE  PhaseAccounting'
  <1>1. /\ pc[t] = "c_arm2" /\ pc' = [pc EXCEPT ![t] = "c_release"]
        /\ waiting_thread_count' = Cardinality(active_thread_list) - 1
        /\ UNCHANGED <<controller_thread, segfault_page, active_thread_list,
                       hbreakpoint_sync_mutex>>
    BY DEF CtlArm2, Goto, locks
  <1>2. /\ hbreakpoint_sync_mutex = t
        /\ Stage = "c_arm2" /\ Stage' = "c_release"
        /\ pc'[t] = "c_release"
        /\ \A u \in Threads \ {t} : /\ pc'[u] = pc[u]
                                    /\ pc[u] \notin ControllerPC \cup {"c_start", "c_wait2"}
        /\ ActiveMatches'
        /\ \A u \in Threads :
             pc'[u] \in ControllerPC \cup {"c_start", "c_wait2"}
               <=> hbreakpoint_sync_mutex' = u
    BY <1>1, HolderStep DEF ControllerPC
  <1>3. Owing' = active_thread_list \ {t}
    BY <1>1, <1>2 DEF Owing, TypeOK
  <1>4. CountMatches'
    BY <1>1, <1>3, ActiveCount DEF CountMatches
  <1>5. ControllerHolds'
    BY <1>1, <1>2 DEF ControllerHolds, PhaseAccounting, ControllerPC
  <1>6. FollowersInPhase'
    BY <1>1, <1>2 DEF FollowersInPhase, PhaseAccounting
  <1>7. PageMatches'
    BY <1>1, <1>2 DEF PageMatches, PhaseAccounting
  <1> QED
    BY <1>2, <1>4, <1>5, <1>6, <1>7 DEF PhaseAccounting

\* The release changes nothing for the count: every follower is still held.
LEMMA CtlReleasePhase ==
  ASSUME TypeOK, PhaseAccounting, NEW t \in Threads, CtlRelease(t)
  PROVE  PhaseAccounting'
  <1>1. /\ pc[t] = "c_release" /\ pc' = [pc EXCEPT ![t] = "c_wait2"]
        /\ controller_thread' = NoThread
        /\ UNCHANGED <<segfault_page, waiting_thread_count, active_thread_list,
                       hbreakpoint_sync_mutex>>
    BY DEF CtlRelease, Goto, locks
  <1>2. /\ hbreakpoint_sync_mutex = t
        /\ Stage = "c_release" /\ Stage' = "c_wait2"
        /\ pc'[t] = "c_wait2"
        /\ \A u \in Threads \ {t} : /\ pc'[u] = pc[u]
                                    /\ pc[u] \notin ControllerPC \cup {"c_start", "c_wait2"}
        /\ ActiveMatches'
        /\ \A u \in Threads :
             pc'[u] \in ControllerPC \cup {"c_start", "c_wait2"}
               <=> hbreakpoint_sync_mutex' = u
    BY <1>1, HolderStep DEF ControllerPC
  <1>3. \A u \in active_thread_list \ {t} : pc[u] = "f_hold"
    BY <1>2 DEF PhaseAccounting, FollowersInPhase, TypeOK
  <1>4. Owing' = Owing
    BY <1>1, <1>2, <1>3 DEF Owing, TypeOK
  <1>5. CountMatches'
    BY <1>1, <1>4 DEF CountMatches, PhaseAccounting
  <1>6. ControllerHolds'
    BY <1>1, <1>2, ThreadAssumption DEF ControllerHolds, ControllerPC
  <1>7. FollowersInPhase'
    BY <1>1, <1>2 DEF FollowersInPhase, PhaseAccounting
  <1>8. PageMatches'
    BY <1>1, <1>2 DEF PageMatches, PhaseAccounting
  <1> QED
    BY <1>2, <1>5, <1>6, <1>7, <1>8 DEF PhaseAccounting

\* The count is zero in phase 2: every follower has left, the mutex may be released.
LEMMA CtlWait2Phase ==
  ASSUME TypeOK, PhaseAccounting, NEW t \in Threads, CtlWait2(t)
  PROVE  PhaseAccounting'
  <1>1. /\ pc[t] = "c_wait2" /\ pc'[t] = "make_exec"
        /\ \A u \in Threads \ {t} : pc'[u] = pc[u]
        /\ waiting_thread_count = 0 /\ hbreakpoint_sync_mutex' = NoThread
        /\ UNCHANGED <<controller_thread, segfault_page, waiting_thread_count,
                       active_thread_list>>
    BY DEF CtlWait2, Goto, sync, TypeOK
  <1>2. hbreakpoint_sync_mutex = t
    BY <1>1 DEF PhaseAccounting, ControllerHolds
  <1>3. Stage = "c_wait2" /\ Stage' = "none"
    BY <1>1, <1>2, ThreadAssumption DEF Stage
  <1>4. Owing = {} /\ Owing' = {}
    BY <1>1, <1>3, OwingFinite DEF PhaseAccounting, CountMatches, Owing
  <1>5. \A u \in Threads : pc[u] \notin FollowerPC \cup {"same_page"}
    BY <1>1, <1>2, <1>3, <1>4
    DEF PhaseAccounting, FollowersInPhase, FollowerPC, ActiveMatches, Owing
  <1>6. CountMatches'
    BY <1>1, <1>4 DEF CountMatches, PhaseAccounting
  <1>7. ControllerHolds'
    BY <1>1, <1>2, ThreadAssumption DEF ControllerHolds, PhaseAccounting, ControllerPC
  <1>8. FollowersInPhase'
    BY <1>1, <1>3, <1>5 DEF FollowersInPhase, FollowerPC
  <1>9. ActiveMatches'
    BY <1>1 DEF ActiveMatches, PhaseAccounting
  <1>10. PageMatches'
    BY <1>1, <1>3 DEF PageMatches, PhaseAccounting
  <1> QED
    BY <1>6, <1>7, <1>8, <1>9, <1>10 DEF PhaseAccounting

\* A follower's step within phase 1 that does not touch the count.
LEMMA FollowPhase ==
  ASSUME TypeOK, PhaseAccounting, NEW t \in Threads,
         \/ FolWait(t)
         \/ FolLoad(t)
         \/ PlaceBreakpoints(t) /\ pc[t] = "f_add"
  PROVE  PhaseAccounting'
  <1>1. /\ pc[t] \in {"f_wait", "f_load", "f_add"}
        /\ pc'[t] \in {"f_load", "f_add", "f_dec1"}
        /\ \A u \in Threads \ {t} : pc'[u] = pc[u]
        /\ pc[t] = "f_wait" => waiting_thread_count # 0
        /\ UNCHANGED <<controller_thread, segfault_page, waiting_thread_count,
                       active_thread_list, hbreakpoint_sync_mutex>>
    BY DEF FolWait, FolLoad, PlaceBreakpoints, Goto, TypeOK, sync, locks
  <1>2. Stage = "c_wait1"
    <2>1. CASE pc[t] = "f_wait"
      <3>1. Owing # {}
        BY <1>1, <2>1, OwingFinite DEF PhaseAccounting, CountMatches
      <3>2. Stage \in {"c_wait1", "c_release", "c_wait2"}
        BY <3>1 DEF Owing
      <3> QED
        BY <2>1, <3>2 DEF PhaseAccounting, FollowersInPhase
    <2>2. CASE pc[t] # "f_wait"
      BY <1>1, <2>2 DEF PhaseAccounting, FollowersInPhase
    <2> QED
      BY <2>1, <2>2
  <1>3. hbreakpoint_sync_mutex # t
    BY <1>1 DEF PhaseAccounting, ControllerHolds, ControllerPC
  <1>4. Stage' = "c_wait1"
    BY <1>1, <1>2, <1>3 DEF Stage, TypeOK
  <1>5. Owing' = Owing
    BY <1>1, <1>2, <1>4 DEF Owing, TypeOK
  <1>6. CountMatches'
    BY <1>1, <1>5 DEF CountMatches, PhaseAccounting
  <1>7. ControllerHolds'
    BY <1>1 DEF ControllerHolds, PhaseAccounting, ControllerPC
  <1>8. FollowersInPhase'
    BY <1>1, <1>2, <1>4 DEF FollowersInPhase, PhaseAccounting
  <1>9. ActiveMatches'
    BY <1>1 DEF ActiveMatches, PhaseAccounting
  <1>10. PageMatches'
    BY <1>1, <1>2, <1>4 DEF PageMatches, PhaseAccounting
  <1> QED
    BY <1>6, <1>7, <1>8, <1>9, <1>10 DEF PhaseAccounting

\* Each decrement removes exactly the thread that makes it from those that owe one.
LEMMA DecrementPhase ==
  ASSUME TypeOK, FrameOK, PhaseAccounting, NEW t \in Threads,
         FolDec1(t) \/ FolReturn(t) \/ FolResume(t)
  PROVE  PhaseAccounting'
  <1>1. /\ \/ pc[t] = "f_dec1" /\ pc'[t] = "f_hold"
           \/ pc[t] = "f_dec2" /\ pc'[t] \in Neutral
        /\ \A u \in Threads \ {t} : pc'[u] = pc[u]
        /\ waiting_thread_count' = waiting_thread_count - 1
        /\ UNCHANGED <<controller_thread, segfault_page, active_thread_list,
                       hbreakpoint_sync_mutex>>
    <2> USE DEF TypeOK, Goto, Return, locks, Neutral, Interruptible, Continuations
    <2>1. CASE FolDec1(t)
      BY <2>1 DEF FolDec1
    <2>2. CASE FolReturn(t)
      BY <2>2 DEF FolReturn
    <2>3. CASE FolResume(t)
      BY <2>3 DEF FolResume
    <2> QED
      BY <2>1, <2>2, <2>3
  <1>2. /\ pc[t] = "f_dec1" => Stage = "c_wait1"
        /\ pc[t] = "f_dec2" => Stage = "c_wait2"
    BY DEF PhaseAccounting, FollowersInPhase
  <1>3. hbreakpoint_sync_mutex # t /\ t \in active_thread_list
    BY <1>1 DEF PhaseAccounting, ControllerHolds, ControllerPC, ActiveMatches
  <1>4. Stage' = Stage
    BY <1>1, <1>3 DEF Stage, TypeOK
  <1>5. t \in Owing
    BY <1>1, <1>2, <1>3 DEF Owing
  <1>6. pc'[t] \in Neutral => pc'[t] \notin ControllerPC \cup FollowerPC \cup Outside
                                 \cup {"c_start", "c_wait2", "same_page"}
    BY DEF Neutral, Interruptible, ControllerPC, FollowerPC, Outside
  <1>7. Owing' = Owing \ {t}
    BY <1>1, <1>2, <1>4, <1>6 DEF Owing, TypeOK, FollowerPC
  <1>8. CountMatches'
    <2>1. Cardinality(Owing \ {t}) = Cardinality(Owing) - 1
      BY <1>5, OwingFinite, FS_RemoveElement
    <2> QED
      BY <1>1, <1>7, <2>1 DEF CountMatches, PhaseAccounting
  <1>9. ControllerHolds'
    BY <1>1, <1>6 DEF ControllerHolds, PhaseAccounting, ControllerPC
  <1>10. FollowersInPhase'
    BY <1>1, <1>2, <1>4, <1>6 DEF FollowersInPhase, PhaseAccounting, FollowerPC
  <1>11. ActiveMatches'
    BY <1>1, <1>3, <1>6 DEF ActiveMatches, PhaseAccounting, Outside
  <1>12. PageMatches'
    BY <1>1, <1>4 DEF PageMatches, PhaseAccounting
  <1> QED
    BY <1>8, <1>9, <1>10, <1>11, <1>12 DEF PhaseAccounting

\* A held follower goes on only in phase 2.
LEMMA FolHoldPhase ==
  ASSUME TypeOK, PhaseAccounting, NEW t \in Threads, FolHold(t)
  PROVE  PhaseAccounting'
  <1>1. /\ pc[t] = "f_hold" /\ pc'[t] = "f_dec2"
        /\ \A u \in Threads \ {t} : pc'[u] = pc[u]
        /\ controller_thread = NoThread
        /\ UNCHANGED <<controller_thread, segfault_page, waiting_thread_count,
                       active_thread_list, hbreakpoint_sync_mutex>>
    BY DEF FolHold, Goto, TypeOK, sync, locks
  <1>2. Stage \notin ControllerPC
    <2>1. \A u \in Threads : pc[u] \notin ControllerPC
      BY <1>1, ThreadAssumption DEF PhaseAccounting, ControllerHolds
    <2> QED
      BY <2>1 DEF Stage, TypeOK, ControllerPC
  <1>3. Stage = "c_wait2"
    BY <1>1, <1>2 DEF PhaseAccounting, FollowersInPhase, ControllerPC
  <1>4. hbreakpoint_sync_mutex # t
    BY <1>1 DEF PhaseAccounting, ControllerHolds, ControllerPC
  <1>5. Stage' = "c_wait2"
    BY <1>1, <1>3, <1>4 DEF Stage, TypeOK
  <1>6. Owing' = Owing
    BY <1>1, <1>3, <1>5 DEF Owing, TypeOK
  <1>7. CountMatches'
    BY <1>1, <1>6 DEF CountMatches, PhaseAccounting
  <1>8. ControllerHolds'
    BY <1>1 DEF ControllerHolds, PhaseAccounting, ControllerPC
  <1>9. FollowersInPhase'
    BY <1>1, <1>3, <1>5 DEF FollowersInPhase, PhaseAccounting
  <1>10. ActiveMatches'
    BY <1>1 DEF ActiveMatches, PhaseAccounting
  <1>11. PageMatches'
    BY <1>1, <1>3, <1>5 DEF PageMatches, PhaseAccounting
  <1> QED
    BY <1>7, <1>8, <1>9, <1>10, <1>11 DEF PhaseAccounting

\* The active list changes only while no session is open.
LEMMA ListPhase ==
  ASSUME TypeOK, PhaseAccounting, NEW t \in Threads, Register(t) \/ Unregister(t)
  PROVE  PhaseAccounting'
  <1>1. /\ \/ pc'[t] = "n_copy" /\ active_thread_list' = active_thread_list \cup {t}
           \/ pc'[t] = "x_free" /\ active_thread_list' = active_thread_list \ {t}
        /\ \A u \in Threads \ {t} : pc'[u] = pc[u]
        /\ hbreakpoint_sync_mutex = NoThread
        /\ UNCHANGED <<controller_thread, segfault_page, waiting_thread_count,
                       hbreakpoint_sync_mutex>>
    BY DEF Register, Unregister, Goto, TypeOK, sync, locks
  <1>2. Stage = "none" /\ Stage' = "none"
    BY <1>1 DEF Stage
  <1>3. Owing = {} /\ Owing' = {}
    BY <1>2 DEF Owing
  <1>4. CountMatches'
    BY <1>1, <1>3 DEF CountMatches, PhaseAccounting
  <1>5. ControllerHolds'
    BY <1>1, FreeMutex, ThreadAssumption DEF ControllerHolds, ControllerPC
  <1>6. FollowersInPhase'
    BY <1>1, <1>2, FreeMutex DEF FollowersInPhase, FollowerPC
  <1>7. ActiveMatches'
    BY <1>1 DEF ActiveMatches, PhaseAccounting
  <1>8. PageMatches'
    BY <1>1, <1>2 DEF PageMatches, PhaseAccounting
  <1> QED
    BY <1>4, <1>5, <1>6, <1>7, <1>8 DEF PhaseAccounting

\* A step that leaves the synchronizer and every label alone.
LEMMA IdlePhase ==
  ASSUME PhaseAccounting,
         UNCHANGED <<pc, controller_thread, segfault_page, waiting_thread_count,
                     active_thread_list, hbreakpoint_sync_mutex>>
  PROVE  PhaseAccounting'
  <1>1. Stage' = Stage
    BY DEF Stage
  <1>2. Owing' = Owing
    BY <1>1 DEF Owing
  <1> QED
    BY <1>1, <1>2 DEF PhaseAccounting, CountMatches, ControllerHolds, FollowersInPhase,
                      ActiveMatches, PageMatches

\* Every step of the monitor or of the application keeps the accounting.
LEMMA PhaseStep ==
  ASSUME TypeOK, FrameOK, PhaseAccounting, NEW t \in Threads,
         (Failure(t) = "none" /\ Monitor(t)) \/ Application(t)
  PROVE  PhaseAccounting'
  <1>1. ASSUME \/ KillIgnore(t) \/ TryLock(t) \/ Lock(t) \/ Deliver(t)
               \/ HandlerDone(t) \/ HandlerWrite(t) \/ HandlerScan(t)
               \/ HandlerPlace(t) \/ MakeExec(t) \/ CtlSkip(t)
               \/ CopyList(t) \/ SwapList(t) \/ LeavePM(t) \/ Exit(t) \/ EnterPM(t)
               \/ Free(t)
               \/ \E p \in Pages : Fault(t, p)
               \/ OnSegv(t) /\ controller_thread = NoThread
        PROVE  PhaseAccounting'
    <2> DEFINE l == pc'[t]
    <2>1. /\ \/ pc[t] \in Neutral /\ l \in Neutral
             \/ pc[t] \in Outside /\ l \in Outside
          /\ pc' = [pc EXCEPT ![t] = l]
          /\ UNCHANGED <<sync, active_thread_list, hbreakpoint_sync_mutex>>
      <3> USE DEF TypeOK, Goto, Return, locks, frame, Neutral, Outside, Interruptible
      <3>1. CASE KillIgnore(t)
        BY <3>1 DEF KillIgnore
      <3>2. CASE TryLock(t) \/ Lock(t) \/ Deliver(t)
        BY <3>2 DEF TryLock, Lock, Deliver
      <3>3. CASE HandlerDone(t) \/ HandlerWrite(t)
        BY <3>3 DEF HandlerDone, HandlerWrite
      <3>4. CASE HandlerScan(t) \/ HandlerPlace(t) \/ MakeExec(t) \/ CtlSkip(t)
        BY <3>4 DEF HandlerScan, HandlerPlace, MakeExec, CtlSkip
      <3>5. CASE CopyList(t) \/ SwapList(t) \/ LeavePM(t) \/ Exit(t) \/ EnterPM(t)
        BY <3>5 DEF CopyList, SwapList, LeavePM, Exit, EnterPM
      <3>6. CASE Free(t)
        BY <3>6 DEF Free
      <3>7. CASE \E p \in Pages : Fault(t, p)
        BY <3>7 DEF Fault
      <3>8. CASE OnSegv(t) /\ controller_thread = NoThread
        BY <3>8 DEF OnSegv
      <3> QED
        BY <1>1, <3>1, <3>2, <3>3, <3>4, <3>5, <3>6, <3>7, <3>8
    <2> QED
      BY <2>1, PlainStep
  <1>2. ASSUME NEW u \in Threads, Clone(t, u)
        PROVE  PhaseAccounting'
    <2>1. /\ pc[u] \in Outside /\ "n_register" \in Outside
          /\ pc' = [pc EXCEPT ![u] = "n_register"]
          /\ UNCHANGED <<sync, active_thread_list, hbreakpoint_sync_mutex>>
      BY <1>2 DEF Clone, Goto, Outside, locks
    <2> QED
      BY <2>1, PlainStep
  <1>3. ASSUME \/ KillFollow(t) \/ SamePage(t) \/ TryLockFollow(t)
               \/ UnregisterFollow(t)
               \/ OnSegv(t) /\ controller_thread # NoThread
        PROVE  PhaseAccounting'
    <2> DEFINE l == pc'[t]
    <2>1. /\ l \in {"same_page", "f_wait"}
          /\ \/ pc[t] \in Neutral /\ controller_thread # NoThread
             \/ pc[t] = "same_page"
          /\ pc' = [pc EXCEPT ![t] = l]
          /\ UNCHANGED <<sync, active_thread_list, hbreakpoint_sync_mutex>>
      BY <1>3 DEF KillFollow, SamePage, TryLockFollow, UnregisterFollow, OnSegv,
                  TypeOK, Goto, locks, Neutral
    <2> QED
      BY <2>1, EnterFollow
  <1>4. ASSUME EvictOldest(t) \/ \E p \in Pages : Munmap(t, p) \/ Mmap(t, p)
        PROVE  PhaseAccounting'
    BY <1>4, IdlePhase DEF EvictOldest, Munmap, Mmap, sync, locks
  <1>5. PlaceBreakpoints(t) => PhaseAccounting'
    BY EarlyPhase, FollowPhase DEF PlaceBreakpoints
  <1> QED
    BY <1>1, <1>2, <1>3, <1>4, <1>5, CtlLockPhase, EarlyPhase, CtlPublishPhase,
       CtlWait1Phase, CtlArm2Phase, CtlReleasePhase, CtlWait2Phase, FollowPhase,
       DecrementPhase, FolHoldPhase, ListPhase
    DEF Monitor, Application

-----------------------------------------------------------------------------
\* The assertions of the protocol follow from the accounting.
LEMMA NoAssertionFails ==
  ASSUME TypeOK, PhaseAccounting, NEW t \in Threads
  PROVE  Failure(t) \notin {"session_open", "no_segfault_page", "count_phase1",
                            "count_phase2", "tgkill", "update_list_in_session"}
  <1> USE DEF PhaseAccounting
  <1>1. pc[t] = "c_start" => sync = <<NoThread, NoPage, 0>>
    <2> SUFFICES ASSUME pc[t] = "c_start"
                 PROVE  sync = <<NoThread, NoPage, 0>>
      OBVIOUS
    <2>1. hbreakpoint_sync_mutex = t
      BY DEF ControllerHolds
    <2>2. Stage = "c_start"
      BY <2>1, ThreadAssumption DEF Stage
    <2>3. waiting_thread_count = 0
      <3>1. Owing = {}
        BY <2>2 DEF Owing
      <3> QED
        BY <3>1, FS_EmptySet DEF CountMatches
    <2>4. segfault_page = NoPage
      BY <2>2 DEF PageMatches
    <2>5. controller_thread = NoThread
      BY <2>1 DEF ControllerHolds, ControllerPC, TypeOK
    <2> QED
      BY <2>3, <2>4, <2>5 DEF sync
  <1>2. \A u \in active_thread_list : pc[u] # "dead"
    BY DEF ActiveMatches, TypeOK
  <1>3. pc[t] = "f_load" => segfault_page # NoPage
    BY DEF FollowersInPhase, PageMatches
  <1>4. pc[t] \in {"f_dec1", "f_dec2"} => waiting_thread_count # 0
    <2> SUFFICES ASSUME pc[t] \in {"f_dec1", "f_dec2"}
                 PROVE  waiting_thread_count # 0
      OBVIOUS
    <2>1. t \in active_thread_list /\ t # hbreakpoint_sync_mutex
      BY DEF ActiveMatches, ControllerHolds, ControllerPC
    <2>2. t \in Owing
      BY <2>1 DEF FollowersInPhase, Owing
    <2> QED
      BY <2>2, OwingFinite DEF CountMatches
  <1>5. hbreakpoint_sync_mutex = NoThread => controller_thread = NoThread
    BY FreeMutex
  <1> QED
    BY <1>1, <1>2, <1>3, <1>4, <1>5 DEF Failure

\* The inductive invariant.
IInv == TypeOK /\ FrameOK /\ PhaseAccounting /\ AssertsHold

\* The inductive invariant holds initially,
LEMMA InitIInv == Init => IInv
  <1> SUFFICES ASSUME Init PROVE IInv
    OBVIOUS
  <1>1. TypeOK /\ FrameOK
    BY TypeInit
  <1>2. Stage = "none"
    BY DEF Init, Stage
  <1>3. Owing = {}
    BY <1>2 DEF Owing
  <1>4. PhaseAccounting
    <2>1. CountMatches
      BY <1>3, FS_EmptySet DEF Init, CountMatches
    <2>2. ControllerHolds /\ ActiveMatches
      BY ThreadAssumption DEF Init, ControllerHolds, ActiveMatches, ControllerPC
    <2>3. FollowersInPhase /\ PageMatches
      BY <1>2 DEF Init, FollowersInPhase, PageMatches
    <2> QED
      BY <2>1, <2>2, <2>3 DEF PhaseAccounting
  <1>5. AssertsHold
    BY DEF Init, AssertsHold
  <1> QED
    BY <1>1, <1>4, <1>5 DEF IInv

\* is kept by steps that change nothing,
LEMMA StutterIInv ==
  ASSUME IInv, UNCHANGED vars
  PROVE  IInv'
  <1>1. TypeOK'
    BY DEF IInv, TypeOK, vars, frame, sync, locks, lists, memory
  <1>2. FrameOK'
    BY DEF IInv, FrameOK, vars, frame
  <1>3. PhaseAccounting'
    BY IdlePhase DEF IInv, vars, sync, locks
  <1>4. AssertsHold'
    BY DEF IInv, AssertsHold, vars
  <1> QED
    BY <1>1, <1>2, <1>3, <1>4 DEF IInv

\* Only a failed assertion stops the process.
LEMMA SameCrash ==
  ASSUME NEW t \in Threads, Monitor(t) \/ Application(t)
  PROVE  crash' = crash
  BY DEF Monitor, Application, Deliver, KillFollow, KillIgnore, OnSegv,
     SamePage, TryLock, TryLockFollow, Lock, HandlerDone, HandlerWrite,
     HandlerScan, HandlerPlace, MakeExec, CtlLock, CtlSkip, CtlStart, CtlPage,
     CtlSignal, CtlPublish, CtlWait1, CtlArm2, CtlRelease, CtlWait2, FolWait,
     FolLoad, FolDec1, FolHold, FolReturn, FolResume, PlaceBreakpoints,
     EvictOldest, Register, CopyList, SwapList, UnregisterFollow, Unregister,
     Free, LeavePM, Fault, Munmap, Mmap, Clone, Exit, EnterPM

\* and by every step.
LEMMA NextIInv == IInv /\ [Next]_vars => IInv'
  <1> SUFFICES ASSUME IInv, [Next]_vars PROVE IInv'
    OBVIOUS
  <1>1. ASSUME NEW t \in Threads,
               (Failure(t) = "none" /\ Monitor(t)) \/ Application(t)
        PROVE  IInv'
    <2>1. TypeOK' /\ FrameOK' /\ PhaseAccounting'
      BY <1>1, TypeStep, FrameStep, PhaseStep DEF IInv
    <2>2. crash' = crash
      BY <1>1, SameCrash
    <2> QED
      BY <2>1, <2>2 DEF IInv, AssertsHold
  <1>2. ASSUME NEW t \in Threads, Abort(t)
        PROVE  IInv'
    <2>1. TypeOK'
      BY <1>2 DEF Abort, IInv, TypeOK, frame, sync, locks, lists, memory
    <2>2. FrameOK'
      BY <1>2 DEF Abort, IInv, FrameOK, frame
    <2>3. PhaseAccounting'
      BY <1>2, IdlePhase DEF Abort, IInv, sync, locks
    <2>4. AssertsHold'
      BY <1>2, NoAssertionFails DEF Abort, IInv, AssertsHold
    <2> QED
      BY <2>1, <2>2, <2>3, <2>4 DEF IInv
  <1>3. CASE UNCHANGED vars
    BY <1>3, StutterIInv
  <1> QED
    BY <1>1, <1>2, <1>3 DEF Next, Step, Quiet

\* IInv holds in every reachable state.
THEOREM Inductive == Spec => []IInv
  <1>1. Init => IInv
    BY InitIInv
  <1>2. IInv /\ [Next]_vars => IInv'
    BY NextIInv
  <1> QED
    BY <1>1, <1>2, PTL DEF Spec

\* Every variable of the synchronizer keeps its type; in particular
\* waiting_thread_count, an unsigned count in the code, never drops below zero.
THEOREM TypeCorrect == Spec => []TypeOK
  <1>1. IInv => TypeOK
    BY DEF IInv
  <1> QED
    BY <1>1, Inductive, PTL

\* For any number of threads that fault, clone and exit, waiting_thread_count of
\* add_breakpoint_wrapper is the number of active threads that owe a decrement,
\* and no follower is in a phase other than the controller's.
THEOREM PhasesMatch == Spec => []PhaseAccounting
  <1>1. IInv => PhaseAccounting
    BY DEF IInv
  <1> QED
    BY <1>1, Inductive, PTL

\* For any number of threads and pages, no assertion of add_breakpoint_wrapper,
\* other_thread_add_breakpoint_wrapper or update_active_thread_list fails.
THEOREM AssertionsHold == Spec => []AssertsHold
  <1>1. IInv => AssertsHold
    BY DEF IInv
  <1> QED
    BY <1>1, Inductive, PTL

=============================================================================
