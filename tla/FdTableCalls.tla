---------------------------- MODULE FdTableCalls ----------------------------
(***************************************************************************)
(* Steps of the open handler and of the default main handler keep the      *)
(* invariant of FdTable.                                                   *)
(***************************************************************************)
EXTENDS FdTableInvariant

(***************************************************************************)
(* open.                                                                   *)
(***************************************************************************)
\* A step inside the open handler: the call, its place in the list and its arguments
\* stay the same.
InOpen(r, s) ==
    /\ Placed(r) /\ AtOpen(r, r.pc)
    /\ s.no = r.no /\ s.i = r.i /\ s.a1 = r.a1 /\ s.a2 = r.a2 /\ s.pc \in 0 .. 4
    /\ s.pc \in {1, 2} => s.tmp \in Fds
    /\ s.pc = 4 => s.rax \in Fds

\* What such a step does to the record.
OpenChange(r, s) ==
    /\ Placed(s) /\ ~Closing(r) /\ ~Closing(s)
    /\ Kept(r, s) /\ ~Locking(r) /\ ~Locking(s)
    /\ \A g \in Fds : /\ Passed(s, g) => Passed(r, g)
                      /\ Made(r, g) => r.pc = 4
                      /\ Made(s, g) <=> s.pc = 4 /\ g = s.rax
                      /\ Temporary(s, g) => s.pc \in {1, 2} /\ g = s.tmp

\* A step inside the open handler lets nothing new through and leaves the lock alone.
LEMMA StepInOpen ==
  ASSUME NEW r, NEW s, InOpen(r, s)
  PROVE  OpenChange(r, s)
  <1>1. /\ \/ r.no = "open" /\ r.i = 1
           \/ r.no = "openat" /\ r.i = 2
        /\ s.no = r.no /\ s.i = r.i /\ s.a1 = r.a1 /\ s.a2 = r.a2 /\ s.pc \in 0 .. 4
    BY DEF InOpen, AtOpen
  <1>2. r.a2 = Bad /\ (r.no = "open" => r.a1 = Bad)
    BY <1>1 DEF InOpen, Placed
  <1>3. ~Closing(r) /\ ~Closing(s) /\ ~Locking(r) /\ ~Locking(s) /\ Kept(r, s)
    BY <1>1 DEF Closing, Locking, Kept, Names, Closes
  <1>4. /\ AtOpen(s, 1) \/ AtOpen(s, 2) => s.tmp \in Fds
        /\ AtOpen(s, 4) => s.rax \in Fds
    BY DEF InOpen, AtOpen
  <1>5. Placed(s)
    BY <1>1, <1>2, <1>3, <1>4 DEF Placed
  <1>6. \A g \in Fds : Passed(s, g) => Passed(r, g)
    BY <1>1 DEF Passed
  <1>7. \A g \in Fds : (Made(r, g) => r.pc = 4) /\ (Made(s, g) <=> s.pc = 4 /\ g = s.rax)
    BY <1>1 DEF Made, AtOpen
  <1>8. \A g \in Fds : Temporary(s, g) => s.pc \in {1, 2} /\ g = s.tmp
    BY DEF Temporary, AtOpen
  <1> QED
    BY <1>3, <1>5, <1>6, <1>7, <1>8 DEF OpenChange

\* The step that opens /proc/self/mem, or finds that its numbers are known.
LEMMA MemFileOpened ==
  ASSUME IInv, Faults = {}, NEW t \in Threads, OpenMemFile(t)
  PROVE  IInv'
  <1>1. AtOpen(th[t], 0)
    BY Where DEF Position, IInv, OpenMemFile
  <1>2. th[t] \in Records /\ Placed(th[t]) /\ th \in [Threads -> Records]
    BY DEF IInv, Types, Places
  <1>3. owner \in [Fds -> {"none", "app", "mem", "mon"}] /\ UNCHANGED <<bitmap, mtx, stat>>
    BY DEF IInv, Types, OpenMemFile
  <1>4. CASE stat.init
    <2> DEFINE s == [th[t] EXCEPT !.pc = 3]
    <2>1. th' = [th EXCEPT ![t] = s] /\ owner' = owner
      BY <1>4 DEF OpenMemFile
    <2>2. s \in Records /\ SameCall(s, th[t]) /\ s.i = th[t].i /\ s.pc = 3
      BY <1>2 DEF Records, SameCall
    <2> HIDE DEF s
    <2>3. th' \in [Threads -> Records] /\ th'[t] = s /\ th' = [th EXCEPT ![t] = th'[t]]
      BY <1>2, <2>1, <2>2, Replaced
    <2>4. InOpen(th[t], s)
      BY <1>1, <1>2, <2>2 DEF InOpen, SameCall, AtOpen
    <2>5. OpenChange(th[t], s)
      BY <2>4, StepInOpen
    <2>6. Change(th[t], s)
      BY <1>1, <2>2, <2>5 DEF Change, OpenChange, AtOpen
    <2>7. Kept(th[t], s) /\ (Locking(s) <=> Locking(th[t]))
      BY <2>5 DEF OpenChange
    <2>8. StatOK'
      BY <1>2, <1>3, <1>4, <2>3 DEF IInv, StatOK
    <2> QED
      BY Zenon, <1>3, <2>1, <2>3, <2>6, <2>7, <2>8, Quiet DEF IInv, Types
  <1>5. CASE ~stat.init
    <2>1. PICK fd \in Free : /\ owner' = [owner EXCEPT ![fd] = "mon"]
                             /\ NextStep(t, [th[t] EXCEPT !.tmp = fd])
      BY <1>5 DEF OpenMemFile
    <2> DEFINE s == [th[t] EXCEPT !.tmp = fd]
    <2>2. /\ s \in Records /\ s.no = th[t].no /\ s.i = th[t].i /\ s.pc = 0
          /\ s.a1 = th[t].a1 /\ s.a2 = th[t].a2 /\ s.tmp = fd
      BY <1>1, <1>2 DEF Records, Free, AtOpen
    <2>12. NextStep(t, s)
      BY <2>1
    <2> HIDE DEF s
    <2>3. /\ th' \in [Threads -> Records]
          /\ th' = [th EXCEPT ![t] = th'[t]]
          /\ SameCall(th'[t], s) /\ th'[t].i = s.i /\ th'[t].pc = 1
      BY <1>2, <2>2, <2>12, Further
    <2>4. /\ fd \in Fds /\ owner[fd] = "none" /\ owner'[fd] = "mon"
          /\ owner' \in [Fds -> {"none", "app", "mem", "mon"}]
          /\ \A g \in Fds : g # fd => owner'[g] = owner[g]
      BY <1>3, <2>1 DEF Free
    <2>5. Moves(t)
      BY <2>4 DEF Moves, Taken
    <2>6. /\ th'[t].no = th[t].no /\ th'[t].i = th[t].i /\ th'[t].pc = 1
          /\ th'[t].a1 = th[t].a1 /\ th'[t].a2 = th[t].a2 /\ th'[t].tmp = fd
      BY <2>2, <2>3 DEF SameCall
    <2>7. InOpen(th[t], th'[t])
      BY <1>1, <1>2, <2>4, <2>6 DEF InOpen, AtOpen
    <2>8. OpenChange(th[t], th'[t])
      BY <2>7, StepInOpen
    <2>9. Change(th[t], th'[t])
      BY <1>1, <2>4, <2>6, <2>8 DEF Change, OpenChange, AtOpen
    <2>10. Kept(th[t], th'[t]) /\ (Locking(th'[t]) <=> Locking(th[t]))
      BY <2>8 DEF OpenChange
    <2>11. StatOK'
      BY <1>2, <1>3, <2>3 DEF IInv, StatOK, AtOpen
    <2> QED
      BY <1>3, <2>3, <2>4, <2>5, <2>9, <2>10, <2>11, Shift DEF IInv, Types
  <1> QED
    BY <1>4, <1>5

\* The step that reads its numbers.
LEMMA MemFileRead ==
  ASSUME IInv, NEW t \in Threads, StatMemFile(t)
  PROVE  IInv'
  <1>1. AtOpen(th[t], 1)
    BY Where DEF Position, IInv, StatMemFile
  <1>2. th[t] \in Records /\ Placed(th[t]) /\ th \in [Threads -> Records]
    BY DEF IInv, Types, Places
  <1>3. /\ th' \in [Threads -> Records]
        /\ th' = [th EXCEPT ![t] = th'[t]]
        /\ SameCall(th'[t], th[t]) /\ th'[t].i = th[t].i /\ th'[t].pc = 2
    BY <1>1, <1>2, Further DEF StatMemFile, AtOpen
  <1>4. stat' = [init |-> TRUE, valid |-> TRUE] /\ UNCHANGED <<owner, bitmap, mtx>>
    <2>1. th[t].tmp \in Fds
      BY <1>1, <1>2 DEF Placed
    <2> QED
      BY Zenon, <2>1 DEF StatMemFile
  <1>5. /\ th'[t].no = th[t].no /\ th'[t].i = th[t].i /\ th'[t].pc = 2
        /\ th'[t].a1 = th[t].a1 /\ th'[t].a2 = th[t].a2 /\ th'[t].tmp = th[t].tmp
    BY <1>3 DEF SameCall
  <1>6. th[t].tmp \in Fds /\ Temporary(th[t], th[t].tmp)
    BY <1>1, <1>2 DEF Placed, Temporary
  <1>7. owner[th[t].tmp] = "mon"
    BY <1>6 DEF IInv, TemporaryOK
  <1>8. InOpen(th[t], th'[t])
    BY <1>1, <1>2, <1>5, <1>6 DEF InOpen, AtOpen
  <1>12. OpenChange(th[t], th'[t])
    BY <1>8, StepInOpen
  <1>13. th[t].pc = 1
    BY <1>1 DEF AtOpen
  <1>14. \A g \in Fds : Temporary(th'[t], g) => Temporary(th[t], g) /\ owner'[g] = "mon"
    BY <1>4, <1>5, <1>6, <1>7, <1>12 DEF OpenChange
  <1>9. Change(th[t], th'[t])
    BY <1>5, <1>12, <1>13, <1>14 DEF Change, OpenChange
  <1>10. Kept(th[t], th'[t]) /\ (Locking(th'[t]) <=> Locking(th[t]))
    BY <1>12 DEF OpenChange
  <1>11. StatOK'
    BY <1>4 DEF StatOK
  <1> QED
    BY <1>3, <1>4, <1>9, <1>10, <1>11, Quiet DEF IInv, Types

\* The step that closes it again.
LEMMA MemFileClosed ==
  ASSUME IInv, NEW t \in Threads, CloseMemFile(t)
  PROVE  IInv'
  <1>1. AtOpen(th[t], 2)
    BY Where DEF Position, IInv, CloseMemFile
  <1>2. th[t] \in Records /\ Placed(th[t]) /\ th \in [Threads -> Records] /\ th[t].tmp \in Fds
    BY <1>1 DEF IInv, Types, Places, Placed
  <1> DEFINE s == [th[t] EXCEPT !.tmp = Bad]
  <1>3. /\ s \in Records /\ s.no = th[t].no /\ s.i = th[t].i /\ s.pc = 2
        /\ s.a1 = th[t].a1 /\ s.a2 = th[t].a2
    BY <1>1, <1>2 DEF Records, AtOpen
  <1>4. NextStep(t, s) /\ owner' = [owner EXCEPT ![th[t].tmp] = "none"]
        /\ UNCHANGED <<bitmap, mtx, stat>>
    BY <1>2 DEF CloseMemFile
  <1> HIDE DEF s
  <1>5. /\ th' \in [Threads -> Records]
        /\ th' = [th EXCEPT ![t] = th'[t]]
        /\ SameCall(th'[t], s) /\ th'[t].i = s.i /\ th'[t].pc = 3
    BY <1>2, <1>3, <1>4, Further
  <1>6. /\ owner[th[t].tmp] = "mon" /\ owner'[th[t].tmp] = "none"
        /\ owner' \in [Fds -> {"none", "app", "mem", "mon"}]
        /\ \A g \in Fds : g # th[t].tmp => owner'[g] = owner[g]
    BY <1>1, <1>2, <1>4 DEF IInv, Types, TemporaryOK, Temporary
  <1>9. /\ th'[t].no = th[t].no /\ th'[t].i = th[t].i /\ th'[t].pc = 3
        /\ th'[t].a1 = th[t].a1 /\ th'[t].a2 = th[t].a2
    BY <1>3, <1>5 DEF SameCall
  <1>10. InOpen(th[t], th'[t])
    BY <1>1, <1>2, <1>9 DEF InOpen, AtOpen
  <1>14. OpenChange(th[t], th'[t])
    BY <1>10, StepInOpen
  <1>15. th[t].pc = 2
    BY <1>1 DEF AtOpen
  <1>7. \A g \in Fds : ~Made(th[t], g) /\ ~Made(th'[t], g) /\ ~Temporary(th'[t], g)
    BY <1>9, <1>14, <1>15 DEF OpenChange
  <1>8. Moves(t)
    <2>1. \A u \in Threads : u # t => th'[u] = th[u]
      BY <1>2, <1>5
    <2>2. Temporary(th[t], th[t].tmp)
      BY <1>1 DEF Temporary
    <2>3. \A u \in Threads : u # t => ~Temporary(th[u], th[t].tmp)
      BY <1>2, <2>2 DEF IInv, TemporaryOK
    <2>4. \A u \in Threads : Made(th[u], th[t].tmp) => th[t].tmp = Listing
      BY <1>2, <1>6 DEF IInv, MadeOK
    <2>5. GivenBack(th[t].tmp)
      BY <1>2, <1>6, <1>7, <2>1, <2>3, <2>4 DEF GivenBack
    <2> QED
      BY <1>6, <2>5 DEF Moves
  <1>11. Change(th[t], th'[t])
    BY <1>7, <1>14 DEF Change, OpenChange
  <1>12. Kept(th[t], th'[t]) /\ (Locking(th'[t]) <=> Locking(th[t]))
    BY <1>14 DEF OpenChange
  <1>13. StatOK'
    BY <1>1, <1>2, <1>4, <1>5 DEF IInv, StatOK
  <1> QED
    BY <1>4, <1>5, <1>6, <1>8, <1>11, <1>12, <1>13, Shift DEF IInv, Types

\* The step that opens the file.
LEMMA FileOpened ==
  ASSUME IInv, NEW t \in Threads, OpenFile(t)
  PROVE  IInv'
  <1>1. AtOpen(th[t], 3)
    BY Where DEF Position, IInv, OpenFile
  <1>2. th[t] \in Records /\ Placed(th[t]) /\ th \in [Threads -> Records]
    BY DEF IInv, Types, Places
  <1>3. owner \in [Fds -> {"none", "app", "mem", "mon"}] /\ UNCHANGED <<bitmap, mtx, stat>>
    BY DEF IInv, Types, OpenFile
  <1>4. CASE Fails(t)
    <2> DEFINE s == [th[t] EXCEPT !.rax = Bad]
    <2>1. /\ s \in Records /\ s.no = th[t].no /\ s.i = th[t].i /\ s.pc = 3
          /\ s.a1 = th[t].a1 /\ s.a2 = th[t].a2 /\ s.rax = Bad
      BY <1>1, <1>2 DEF Records, AtOpen
    <2>2. NextHandler(t, s) /\ owner' = owner
      BY <1>4 DEF Fails
    <2> HIDE DEF s
    <2>3. /\ th' \in [Threads -> Records]
          /\ th' = [th EXCEPT ![t] = th'[t]]
          /\ SameCall(th'[t], s) /\ th'[t].i = s.i + 1 /\ th'[t].pc = 0
      BY <1>1, <1>2, <2>1, <2>2, Onward, Domain DEF AtOpen, Last
    <2>4. Placed(th'[t])
      <3>1. th[t].a2 = Bad /\ (th[t].no = "open" => th[t].a1 = Bad)
        BY <1>1, <1>2 DEF Placed, AtOpen
      <3> QED
        BY <1>1, <2>1, <2>3, <3>1, AtSave DEF AtOpen, SameCall
    <2>5. \A g \in Fds : /\ Passed(th'[t], g) => Passed(th[t], g)
                         /\ ~Made(th'[t], g) /\ ~Made(th[t], g)
                         /\ ~Temporary(th'[t], g)
      BY <1>1, <2>1, <2>3, Numbers DEF Passed, Made, Temporary, AtOpen, SameCall
    <2>6. ~Closing(th[t]) /\ ~Closing(th'[t])
      BY <1>1, <2>1, <2>3 DEF Closing, AtOpen, SameCall
    <2>7. Change(th[t], th'[t])
      BY <2>2, <2>4, <2>5, <2>6 DEF Change
    <2>8. Kept(th[t], th'[t]) /\ (Locking(th'[t]) <=> Locking(th[t]))
      BY <1>1, <2>1, <2>3 DEF Kept, Names, Closes, Locking, AtOpen, SameCall
    <2>9. StatOK'
      BY <1>1, <1>2, <1>3, <2>3 DEF IInv, StatOK
    <2> QED
      BY <1>3, <2>2, <2>3, <2>7, <2>8, <2>9, Quiet DEF IInv, Types
  <1>5. CASE ~Fails(t)
    <2>1. PICK fd \in Free, kind \in {"app", "mem"} :
             owner' = [owner EXCEPT ![fd] = kind] /\ NextStep(t, [th[t] EXCEPT !.rax = fd])
      BY <1>5 DEF OpenFile
    <2> DEFINE s == [th[t] EXCEPT !.rax = fd]
    <2>2. /\ s \in Records /\ s.no = th[t].no /\ s.i = th[t].i /\ s.pc = 3
          /\ s.a1 = th[t].a1 /\ s.a2 = th[t].a2 /\ s.rax = fd
      BY <1>1, <1>2 DEF Records, Free, AtOpen
    <2>3. NextStep(t, s)
      BY <2>1
    <2> HIDE DEF s
    <2>4. /\ th' \in [Threads -> Records]
          /\ th' = [th EXCEPT ![t] = th'[t]]
          /\ SameCall(th'[t], s) /\ th'[t].i = s.i /\ th'[t].pc = 4
      BY <1>2, <2>2, <2>3, Further
    <2>5. /\ fd \in Fds /\ owner[fd] = "none" /\ owner'[fd] = kind
          /\ owner' \in [Fds -> {"none", "app", "mem", "mon"}]
          /\ \A g \in Fds : g # fd => owner'[g] = owner[g]
      BY <1>3, <2>1 DEF Free
    <2>0. /\ th'[t].no = th[t].no /\ th'[t].i = th[t].i /\ th'[t].pc = 4
          /\ th'[t].a1 = th[t].a1 /\ th'[t].a2 = th[t].a2 /\ th'[t].rax = fd
      BY <2>2, <2>4 DEF SameCall
    <2>13. InOpen(th[t], th'[t])
      BY <1>1, <1>2, <2>0, <2>5 DEF InOpen, AtOpen
    <2>14. OpenChange(th[t], th'[t])
      BY <2>13, StepInOpen
    <2>8. AtOpen(th'[t], 4) /\ th[t].pc = 3
      BY <1>1, <2>0 DEF AtOpen
    <2>6. \A g \in Fds : /\ ~Made(th[t], g) /\ (Made(th'[t], g) <=> g = fd)
                         /\ ~Temporary(th'[t], g)
      BY <2>0, <2>8, <2>14 DEF OpenChange
    <2>9. Change(th[t], th'[t])
      BY <2>1, <2>5, <2>6, <2>8, <2>14 DEF Change, OpenChange
    <2>10. Moves(t)
      BY <2>5, <2>6 DEF Moves, Taken
    <2>11. Kept(th[t], th'[t]) /\ (Locking(th'[t]) <=> Locking(th[t]))
      BY <2>14 DEF OpenChange
    <2>12. StatOK'
      BY <1>1, <1>2, <1>3, <2>4 DEF IInv, StatOK
    <2> QED
      BY <1>3, <2>4, <2>5, <2>9, <2>10, <2>11, <2>12, Shift DEF IInv, Types
  <1> QED
    BY <1>4, <1>5

\* The step that looks at the file and closes it when it is the forbidden one.
LEMMA FileChecked ==
  ASSUME IInv, NEW t \in Threads, CheckFile(t)
  PROVE  IInv'
  <1>1. AtOpen(th[t], 4)
    BY Where DEF Position, IInv, CheckFile
  <1>2. /\ th[t] \in Records /\ Placed(th[t]) /\ th \in [Threads -> Records]
        /\ th[t].rax \in Fds /\ Made(th[t], th[t].rax)
    BY <1>1 DEF IInv, Types, Places, Placed, Made
  <1>3. owner \in [Fds -> {"none", "app", "mem", "mon"}] /\ UNCHANGED <<bitmap, mtx, stat>>
    BY DEF IInv, Types, CheckFile
  <1>4. stat.valid
    BY <1>1 DEF IInv, StatOK
  <1>5. PICK s \in Records :
           /\ NextHandler(t, s) /\ s.no = th[t].no /\ s.i = th[t].i
           /\ s.a1 = th[t].a1 /\ s.a2 = th[t].a2
           /\ \/ /\ s.rax = Bad
                 /\ owner[th[t].rax] \in {"none", "mem"}
                 /\ owner' = [owner EXCEPT ![th[t].rax] = "none"]
              \/ /\ s.rax = th[t].rax
                 /\ owner[th[t].rax] \notin {"none", "mem"}
                 /\ owner' = owner
    <2>1. CASE owner[th[t].rax] \in {"none", "mem"}
      <3>1. [th[t] EXCEPT !.rax = Bad] \in Records
        BY <1>2 DEF Records
      <3> QED
        BY <1>2, <1>4, <2>1, <3>1 DEF CheckFile, Records
    <2>2. CASE owner[th[t].rax] \notin {"none", "mem"}
      BY <1>2, <2>2 DEF CheckFile
    <2> QED
      BY <2>1, <2>2
  <1>6. /\ th' \in [Threads -> Records]
        /\ th' = [th EXCEPT ![t] = th'[t]]
        /\ SameCall(th'[t], s) /\ th'[t].i = s.i + 1 /\ th'[t].pc = 0
    BY <1>1, <1>2, <1>5, Onward, Domain DEF AtOpen, Last
  <1>7. /\ owner' \in [Fds -> {"none", "app", "mem", "mon"}]
        /\ \A g \in Fds : g # th[t].rax => owner'[g] = owner[g]
        /\ s.rax = Bad => owner'[th[t].rax] = "none" /\ owner[th[t].rax] \in {"none", "mem"}
        /\ s.rax # Bad => owner' = owner /\ owner[th[t].rax] \notin {"none", "mem"}
    BY <1>2, <1>3, <1>5, Numbers
  <1>0. /\ th'[t].no = th[t].no /\ th'[t].a1 = th[t].a1 /\ th'[t].a2 = th[t].a2
        /\ th'[t].i = th[t].i + 1 /\ th'[t].pc = 0 /\ th'[t].rax = s.rax
        /\ \/ th[t].no = "open" /\ th[t].i = 1 /\ th'[t].i = 2
           \/ th[t].no = "openat" /\ th[t].i = 2 /\ th'[t].i = 3
    BY <1>1, <1>5, <1>6 DEF SameCall, AtOpen
  <1>8. Placed(th'[t])
    <2>1. th[t].a2 = Bad /\ (th[t].no = "open" => th[t].a1 = Bad)
      BY <1>0, <1>2 DEF Placed
    <2> QED
      BY <1>0, <2>1, AtSave
  <1>9. \A g \in Fds : /\ Passed(th'[t], g) => Passed(th[t], g)
                       /\ Made(th'[t], g) => g = s.rax
                       /\ Made(th[t], g) => g = th[t].rax
                       /\ ~Temporary(th'[t], g) /\ ~Temporary(th[t], g)
    <2>1. \A g \in Fds : Passed(th'[t], g) => Passed(th[t], g)
      BY <1>0 DEF Passed
    <2>2. \A g \in Fds : (Made(th'[t], g) => g = s.rax) /\ (Made(th[t], g) => g = th[t].rax)
      BY <1>0 DEF Made, AtOpen
    <2>3. \A g \in Fds : ~Temporary(th'[t], g) /\ ~Temporary(th[t], g)
      BY <1>0, <1>1 DEF Temporary, AtOpen
    <2> QED
      BY <2>1, <2>2, <2>3
  <1>10. s.rax # Bad => Made(th'[t], th[t].rax)
    BY <1>0, <1>2, <1>5 DEF Made
  <1>11. ~Closing(th[t]) /\ ~Closing(th'[t])
    BY <1>1, <1>5, <1>6 DEF Closing, AtOpen, SameCall
  <1>12. th[t].rax # Listing => owner[th[t].rax] \in {"app", "mem"}
    BY <1>2 DEF IInv, MadeOK
  <1>13. Change(th[t], th'[t])
    <2>1. th[t].rax \in Fds /\ (s.rax = Bad \/ s.rax = th[t].rax)
      BY <1>2, <1>5
    <2>2. \A g \in Fds : Made(th'[t], g) =>
             /\ Made(th[t], g) \/ owner[g] = "none"
             /\ g # Listing => owner'[g] = "app" \/ (owner'[g] = "mem" /\ AtOpen(th'[t], 4))
      BY <1>2, <1>7, <1>9, <1>12, <2>1, Numbers
    <2>3. \A g \in Fds : Made(th[t], g) /\ owner[g] = "app" => Made(th'[t], g)
      BY <1>7, <1>9, <1>10, <2>1
    <2> QED
      BY <1>8, <1>9, <1>11, <2>2, <2>3 DEF Change
  <1>14. Moves(t)
    <2>1. \A u \in Threads : u # t => th'[u] = th[u]
      BY <1>2, <1>6
    <2>2. \A u \in Threads : u # t /\ Made(th[u], th[t].rax) => th[t].rax = Listing
      BY <1>2 DEF IInv, MadeApart
    <2>3. \A u \in Threads : owner[th[t].rax] = "mem" => ~Temporary(th[u], th[t].rax)
      BY <1>2 DEF IInv, TemporaryOK
    <2>4. s.rax = Bad /\ owner[th[t].rax] = "mem" => GivenBack(th[t].rax)
      <3> SUFFICES ASSUME s.rax = Bad, owner[th[t].rax] = "mem"
                   PROVE  GivenBack(th[t].rax)
        OBVIOUS
      <3>1. owner'[th[t].rax] = "none"
        BY <1>2, <1>7
      <3>2. ~Temporary(th'[t], th[t].rax) /\ ~Made(th'[t], th[t].rax)
        BY <1>2, <1>9, Numbers
      <3>3. \A u \in Threads : /\ ~Temporary(th'[u], th[t].rax)
                               /\ Made(th'[u], th[t].rax) => th[t].rax = Listing
        BY <2>1, <2>2, <2>3, <3>2
      <3> QED
        BY <3>1, <3>3 DEF GivenBack
    <2> QED
      BY <1>7, <2>4 DEF Moves
  <1>15. Kept(th[t], th'[t]) /\ (Locking(th'[t]) <=> Locking(th[t]))
    BY <1>1, <1>5, <1>6 DEF Kept, Names, Closes, Locking, AtOpen, SameCall
  <1>16. StatOK'
    BY <1>1, <1>2, <1>3, <1>6 DEF IInv, StatOK
  <1> QED
    BY <1>3, <1>6, <1>7, <1>13, <1>14, <1>15, <1>16, Shift DEF IInv, Types

(***************************************************************************)
(* The default main handler.                                               *)
(***************************************************************************)
\* read makes no descriptor.
LEMMA Read ==
  ASSUME IInv, NEW t \in Threads, DefaultRead(t)
  PROVE  IInv'
  <1>1. th[t].no = "read" /\ th[t].i = 2 /\ th[t].pc = 0 /\ th[t] \in Records
    BY Where DEF Position, IInv, Types, DefaultRead
  <1>2. th' \in [Threads -> Records] /\ th' = [th EXCEPT ![t] = th'[t]] /\ th'[t] = Idle
    BY <1>1, Onward, Domain DEF IInv, Types, Last, DefaultRead
  <1>3. ~Locking(th[t]) /\ \A fd \in Fds : ~Made(th[t], fd)
    BY <1>1 DEF Locking, Made, AtOpen
  <1> QED
    BY <1>2, <1>3, Ended DEF DefaultRead

\* dup and socket make one or fail; what dup copies is the application's.
LEMMA Create ==
  ASSUME IInv, NEW t \in Threads, DefaultCreate(t)
  PROVE  IInv'
  <1>1. /\ th[t].no \in {"dup", "socket"}
        /\ th[t].i = Last(th[t].no) - 1
        /\ th[t].pc = 0
    BY Where DEF Position, IInv, DefaultCreate, Last
  <1>2. th[t] \in Records /\ Placed(th[t])
    BY DEF IInv, Types, Places
  <1>3. th[t].no = "dup" /\ IsOpen(th[t].a1) => owner[th[t].a1] = "app"
    BY <1>1 DEF IsOpen, IInv, PassedOK, Passed, Closing, Last
  <1>4. PICK s \in Records :
           /\ NextHandler(t, s)
           /\ s.no = th[t].no /\ s.i = th[t].i /\ s.a1 = th[t].a1 /\ s.a2 = th[t].a2
           /\ \/ s.rax = Bad /\ owner' = owner
              \/ s.rax \in Fds /\ owner[s.rax] = "none" /\ owner' = [owner EXCEPT ![s.rax] = "app"]
    <2>1. CASE owner' = owner /\ NextHandler(t, [th[t] EXCEPT !.rax = Bad])
      <3>1. [th[t] EXCEPT !.rax = Bad] \in Records
        BY <1>2 DEF Records
      <3> QED
        BY <1>2, <2>1, <3>1 DEF Records
    <2>2. CASE \E fd \in Free : /\ owner' = [owner EXCEPT ![fd] = "app"]
                                /\ NextHandler(t, [th[t] EXCEPT !.rax = fd])
      <3>1. PICK fd \in Free : /\ owner' = [owner EXCEPT ![fd] = "app"]
                               /\ NextHandler(t, [th[t] EXCEPT !.rax = fd])
        BY Zenon, <2>2
      <3>2. [th[t] EXCEPT !.rax = fd] \in Records /\ fd \in Fds /\ owner[fd] = "none"
        BY <1>2 DEF Records, Free
      <3> QED
        BY Zenon, <1>2, <3>1, <3>2 DEF Records
    <2> QED
      BY <1>1, <1>3, <2>1, <2>2 DEF DefaultCreate, Creates, Fails
  <1>5. /\ th' \in [Threads -> Records]
        /\ th' = [th EXCEPT ![t] = th'[t]]
        /\ SameCall(th'[t], s) /\ th'[t].i = s.i + 1 /\ th'[t].pc = 0
    BY <1>1, <1>4, Onward, Domain DEF IInv, Types, Last
  <1>6. owner \in [Fds -> {"none", "app", "mem", "mon"}] /\ UNCHANGED <<bitmap, mtx, stat>>
    BY DEF IInv, Types, DefaultCreate
  <1>7. /\ owner' \in [Fds -> {"none", "app", "mem", "mon"}]
        /\ s.rax \in Fds => owner[s.rax] = "none" /\ owner'[s.rax] = "app"
        /\ \A fd \in Fds : fd # s.rax => owner'[fd] = owner[fd]
    BY <1>4, <1>6, Numbers
  <1>8. Moves(t)
    BY <1>1, <1>4, <1>5, <1>7, Numbers DEF Moves, Taken, Made, SameCall, Last
  <1>9. Change(th[t], th'[t])
    <2>0. /\ th'[t].no = th[t].no /\ th'[t].a1 = th[t].a1 /\ th'[t].a2 = th[t].a2
          /\ th'[t].rax = s.rax /\ th'[t].pc = 0
          /\ th[t].no = "dup" => th[t].i = 2 /\ th'[t].i = 3
          /\ th[t].no = "socket" => th[t].i = 1 /\ th'[t].i = 2
      BY <1>1, <1>4, <1>5 DEF SameCall, Last
    <2>1. Placed(th'[t])
      <3>1. th[t].a2 = Bad /\ (th[t].no = "socket" => th[t].a1 = Bad)
            /\ (th[t].no = "dup" => th[t].a1 \in Fds \cup {Bad})
        BY <1>1, <1>2 DEF Placed
      <3> QED
        BY <1>1, <2>0, <3>1, AtSave
    <2>2. \A fd \in Fds : /\ Passed(th'[t], fd) => Passed(th[t], fd)
                          /\ Made(th'[t], fd) <=> fd = s.rax
                          /\ ~Made(th[t], fd)
                          /\ ~Temporary(th'[t], fd)
      <3>1. \A fd \in Fds : Passed(th'[t], fd) => Passed(th[t], fd)
        BY <1>1, <2>0 DEF Passed
      <3>2. \A fd \in Fds : (Made(th'[t], fd) <=> fd = s.rax) /\ ~Made(th[t], fd)
        BY <1>1, <2>0 DEF Made, AtOpen
      <3>3. \A fd \in Fds : ~Temporary(th'[t], fd)
        BY <1>1, <2>0 DEF Temporary, AtOpen
      <3> QED
        BY <3>1, <3>2, <3>3
    <2>3. ~Closing(th[t]) /\ ~Closing(th'[t])
      BY <1>1, <1>4, <1>5 DEF Closing, SameCall
    <2> QED
      BY <1>7, <2>1, <2>2, <2>3 DEF Change
  <1>10. Kept(th[t], th'[t]) /\ (Locking(th'[t]) <=> Locking(th[t]))
    BY <1>1, <1>4, <1>5 DEF Kept, Names, Closes, Locking, SameCall
  <1>11. StatOK'
    BY <1>1, <1>4, <1>5, <1>6 DEF IInv, StatOK, Types, AtOpen, SameCall
  <1> QED
    BY <1>5, <1>6, <1>7, <1>8, <1>9, <1>10, <1>11, Shift DEF IInv, Types

\* dup2 replaces one descriptor of the application by another.
LEMMA Duplicate ==
  ASSUME IInv, NEW t \in Threads, DefaultDup2(t)
  PROVE  IInv'
  <1>1. th[t].no = "dup2" /\ th[t].i = 2 /\ th[t].pc = 0
    BY Where DEF Position, IInv, DefaultDup2
  <1>2. th[t] \in Records /\ Placed(th[t])
    BY DEF IInv, Types, Places
  <1>3. th[t].a1 \in Fds => owner[th[t].a1] = "app" /\ owner[th[t].a2] = "app"
    <2>1. th[t].a2 \in Fds /\ ~Closing(th[t])
      BY <1>1, <1>2 DEF Placed, Closing
    <2>2. th[t].a1 \in Fds => Passed(th[t], th[t].a1) /\ Passed(th[t], th[t].a2)
      BY <1>1, <2>1, Numbers DEF Passed
    <2> QED
      BY <2>1, <2>2 DEF IInv, PassedOK
  <1>4. PICK s \in Records :
           /\ NextHandler(t, s)
           /\ s.no = "dup2" /\ s.i = 2 /\ s.a1 = th[t].a1 /\ s.a2 = th[t].a2
           /\ s.rax = Bad \/ (s.rax = th[t].a2 /\ s.a1 \in Fds)
    BY <1>1, <1>2 DEF DefaultDup2, Fails, Records, IsOpen
  <1>5. /\ th' \in [Threads -> Records]
        /\ th' = [th EXCEPT ![t] = th'[t]]
        /\ SameCall(th'[t], s) /\ th'[t].i = 3 /\ th'[t].pc = 0
    BY <1>4, Onward, Domain DEF IInv, Types, Last
  <1>6. owner' = owner
    <2>1. owner' = owner \/ /\ th[t].a1 \in Fds /\ th[t].a2 \in Fds
                            /\ owner' = [owner EXCEPT ![th[t].a2] = owner[th[t].a1]]
      BY DEF DefaultDup2, Fails, IsOpen
    <2>2. owner \in [Fds -> {"none", "app", "mem", "mon"}]
      BY DEF IInv, Types
    <2> QED
      BY <1>3, <2>1, <2>2
  <1>7. Change(th[t], th'[t])
    <2>1. Placed(th'[t])
      <3>1. th[t].a1 \in Fds \cup {Bad} /\ th[t].a2 \in Fds
        BY <1>1, <1>2 DEF Placed
      <3>2. /\ th'[t].no = "dup2" /\ th'[t].i = 3 /\ th'[t].pc = 0
            /\ th'[t].a1 = th[t].a1 /\ th'[t].a2 = th[t].a2 /\ th'[t].rax = s.rax
        BY <1>4, <1>5 DEF SameCall
      <3> QED
        BY <1>4, <3>1, <3>2, Numbers, AtSave
    <2>2. \A fd \in Fds : /\ Passed(th'[t], fd) => Passed(th[t], fd)
                          /\ ~Made(th'[t], fd) /\ ~Made(th[t], fd)
                          /\ ~Temporary(th'[t], fd)
      <3>1. th'[t].no = "dup2" /\ th'[t].a1 = th[t].a1 /\ th'[t].a2 = th[t].a2
        BY <1>4, <1>5 DEF SameCall
      <3>2. \A fd \in Fds : Passed(th'[t], fd) => Passed(th[t], fd)
        BY <1>1, <1>5, <3>1 DEF Passed
      <3> QED
        BY <1>1, <3>1, <3>2, Dup2Record
    <2>3. ~Closing(th[t]) /\ ~Closing(th'[t])
      BY <1>1, <1>4, <1>5 DEF Closing, SameCall
    <2> QED
      BY <1>6, <2>1, <2>2, <2>3 DEF Change
  <1>8. Kept(th[t], th'[t]) /\ (Locking(th'[t]) <=> Locking(th[t]))
    BY <1>1, <1>4, <1>5 DEF Kept, Names, Closes, Locking, SameCall
  <1>9. UNCHANGED <<bitmap, mtx, stat>>
    BY DEF DefaultDup2
  <1>10. StatOK'
    <2>1. \A k \in 2 .. 4 : ~AtOpen(th'[t], k)
      BY <1>4, <1>5 DEF AtOpen, SameCall
    <2>2. \A u \in Threads : u # t => th'[u] = th[u]
      BY <1>5 DEF IInv, Types
    <2> QED
      BY <1>9, <2>1, <2>2 DEF IInv, StatOK
  <1> QED
    BY <1>5, <1>6, <1>7, <1>8, <1>9, <1>10, Quiet DEF IInv, Types

=============================================================================
