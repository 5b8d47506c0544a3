---------------------------- MODULE FdTableMarks ----------------------------
(***************************************************************************)
(* Steps that mark and unmark descriptors, those of pipe, of the           *)
(* posthandler and of the close handler, keep the invariant of FdTable.    *)
(***************************************************************************)
EXTENDS FdTableInvariant

(***************************************************************************)
(* Steps that mark a new descriptor.                                       *)
(***************************************************************************)
\* The bitmap grows far enough.
LEMMA Grown ==
  ASSUME NEW b \in Nat, NEW w \in Nat \ {0}
  PROVE  ((b \div w) + 1) * w \in Nat \ {0} /\ b < ((b \div w) + 1) * w
  <1> DEFINE q == b \div w
  <1>1. q \in Nat /\ b = q * w + (b % w) /\ b % w \in 0 .. (w - 1)
    OBVIOUS
  <1> HIDE DEF q
  <1>2. q * w \in Nat
    BY <1>1
  <1>3. (q + 1) * w = q * w + w
    BY <1>1
  <1>4. (q + 1) * w \in Nat \ {0} /\ b < (q + 1) * w
    BY <1>1, <1>2, <1>3
  <1> QED
    BY <1>4 DEF q

\* What set_bit does to the bitmap.
LEMMA BitSet ==
  ASSUME Types, NEW fd \in Fds
  PROVE  /\ SetBit(bitmap, fd) \in [size : Nat \ {0}, bits : SUBSET Fds]
         /\ SetBit(bitmap, fd).bits = bitmap.bits \cup {fd}
         /\ \A g \in SetBit(bitmap, fd).bits : Bytes(g) < SetBit(bitmap, fd).size
  <1>1. bitmap \in [size : Nat \ {0}, bits : SUBSET Fds] /\ \A g \in bitmap.bits : Bytes(g) < bitmap.size
    BY DEF Types
  <1>2. \A g \in Fds : Bytes(g) \in Nat
    BY Numbers, FdAssumption DEF Bytes
  <1> HIDE DEF Bytes
  <1>3. CASE Bytes(fd) >= bitmap.size
    <2> DEFINE n == ((Bytes(fd) \div WordBytes) + 1) * WordBytes
    <2>1. n \in Nat \ {0} /\ Bytes(fd) < n
      BY <1>2, Grown, FdAssumption
    <2>2. SetBit(bitmap, fd) = [size |-> n, bits |-> bitmap.bits \cup {fd}]
      BY <1>3 DEF SetBit
    <2> HIDE DEF n
    <2>3. \A g \in bitmap.bits \cup {fd} : Bytes(g) < n
      BY <1>1, <1>2, <1>3, <2>1
    <2> QED
      BY <1>1, <2>1, <2>2, <2>3
  <1>4. CASE ~(Bytes(fd) >= bitmap.size)
    <2>1. SetBit(bitmap, fd) = [bitmap EXCEPT !.bits = bitmap.bits \cup {fd}]
      BY <1>4 DEF SetBit
    <2> QED
      BY <1>1, <1>2, <1>4, <2>1
  <1> QED
    BY <1>3, <1>4

\* A thread marks fd, one that it has made, or that the application has already.
LEMMA Mark ==
  ASSUME IInv, NEW t \in Threads, NEW fd \in Fds, Unlocked, bitmap' = SetBit(bitmap, fd),
         UNCHANGED <<owner, mtx, stat>>,
         th' \in [Threads -> Records], th' = [th EXCEPT ![t] = th'[t]],
         owner[fd] = "app" \/ fd = Listing, Made(th[t], fd) \/ fd \in bitmap.bits,
         Placed(th'[t]), ~Locking(th'[t]), Kept(th[t], th'[t]),
         \A g \in Fds : /\ Passed(th'[t], g) => Passed(th[t], g)
                        /\ Made(th'[t], g) => Made(th[t], g) /\ g # fd
                        /\ Made(th[t], g) => Made(th'[t], g) \/ g = fd
                        /\ ~Temporary(th'[t], g),
         \A k \in 2 .. 4 : ~AtOpen(th[t], k) /\ ~AtOpen(th'[t], k)
  PROVE  IInv'
  <1>1. \A u \in Threads : u = t \/ th'[u] = th[u]
    BY DEF IInv, Types
  <1>2. /\ bitmap' \in [size : Nat \ {0}, bits : SUBSET Fds]
        /\ bitmap'.bits = bitmap.bits \cup {fd}
        /\ \A g \in bitmap'.bits : Bytes(g) < bitmap'.size
    BY BitSet DEF IInv
  <1>3. \A u \in Threads : ~Locking(th[u]) /\ ~Closing(th[u]) /\ ~Locking(th'[u]) /\ ~Closing(th'[u])
    BY <1>1, CallsAssumption DEF IInv, Locks, Unlocked, Locking, Closing
  <1>4. Types'
    BY <1>2 DEF IInv, Types, Bytes
  <1>5. Places'
    BY <1>1 DEF IInv, Places
  <1>6. Locks'
    BY <1>3, CallsAssumption DEF Locks, Unlocked
  <1>7. PassedOK'
    BY <1>1, <1>2, <1>3 DEF IInv, PassedOK
  <1>8. ListingOK'
    BY <1>1, <1>3, Numbers DEF IInv, ListingOK, Kept
  <1>9. \A u \in Threads, g \in Fds : Made(th'[u], g) => Made(th[u], g)
    BY <1>1
  <1>10. \A u \in Threads : Made(th'[u], fd) => fd = Listing
    <2>1. CASE Made(th[t], fd)
      BY <1>1, <2>1 DEF IInv, MadeApart
    <2>2. CASE fd \in bitmap.bits
      BY <1>1, <1>3, <2>2 DEF IInv, MadeOK
    <2> QED
      BY <2>1, <2>2
  <1>11. MadeOK'
    <2>1. \A u \in Threads, g \in Fds : Made(th'[u], g) /\ g # Listing =>
             /\ g \notin bitmap.bits /\ g # fd
             /\ owner[g] = "app" \/ (owner[g] = "mem" /\ AtOpen(th[u], 4))
      BY <1>3, <1>9, <1>10 DEF IInv, MadeOK
    <2>2. \A u \in Threads : AtOpen(th[u], 4) => AtOpen(th'[u], 4)
      BY <1>1
    <2> QED
      BY <1>2, <2>1, <2>2 DEF MadeOK
  <1>12. MadeApart'
    BY <1>9 DEF IInv, MadeApart
  <1>13. TemporaryOK'
    BY <1>1 DEF IInv, TemporaryOK
  <1>14. StatOK'
    BY <1>1 DEF IInv, StatOK
  <1>15. Marked'
    BY <1>2, <1>3 DEF IInv, Marked
  <1>16. Apps'
    BY <1>1, <1>2 DEF IInv, Apps
  <1>17. Reopened'
    BY <1>3 DEF Reopened
  <1>18. Discipline'
    BY <1>1 DEF IInv, Discipline, Kept
  <1> QED
    BY <1>4, <1>5, <1>6, <1>7, <1>8, <1>11, <1>12, <1>13, <1>14, <1>15, <1>16, <1>17, <1>18
       DEF IInv

(***************************************************************************)
(* pipe and the posthandler.                                               *)
(***************************************************************************)
\* The kernel makes both ends of the pipe, or the call ends.
LEMMA PipeMade ==
  ASSUME IInv, NEW t \in Threads, PipeKernel(t)
  PROVE  IInv'
  <1>1. th[t].no = "pipe" /\ th[t].i = 1 /\ th[t].pc = 0
    BY Zenon, Where DEF Position, IInv, PipeKernel
  <1>2. th[t] \in Records /\ Placed(th[t]) /\ th \in [Threads -> Records]
    BY DEF IInv, Types, Places
  <1>3. owner \in [Fds -> {"none", "app", "mem", "mon"}] /\ UNCHANGED <<bitmap, mtx, stat>>
    BY Zenon DEF IInv, Types, PipeKernel
  <1>4. CASE Fails(t)
    <2> DEFINE s == [th[t] EXCEPT !.rax = Bad]
    <2>1. s \in Records /\ s.no = "pipe" /\ s.i = 1
      BY <1>1, <1>2 DEF Records
    <2>2. NextHandler(t, s) /\ owner' = owner
      BY <1>4 DEF Fails
    <2> HIDE DEF s
    <2>3. th' \in [Threads -> Records] /\ th' = [th EXCEPT ![t] = th'[t]] /\ th'[t] = Idle
      BY <1>2, <2>1, <2>2, Onward, Domain DEF Last
    <2>4. ~Locking(th[t]) /\ \A fd \in Fds : ~Made(th[t], fd)
      BY <1>1 DEF Locking, Made, AtOpen
    <2> QED
      BY <1>3, <2>2, <2>3, <2>4, Ended
  <1>5. CASE ~Fails(t)
    <2>1. PICK fd \in Free, gd \in Free :
             /\ fd # gd
             /\ owner' = [owner EXCEPT ![fd] = "app", ![gd] = "app"]
             /\ NextStep(t, [th[t] EXCEPT !.rax = fd, !.tmp = gd])
      BY <1>5, Zenon DEF PipeKernel
    <2> DEFINE q == [th[t] EXCEPT !.rax = fd]
    <2> DEFINE s == [q EXCEPT !.tmp = gd]
    <2>2. NextStep(t, s)
      BY <2>1, Zenon
    <2> HIDE DEF s
    <2>3. q \in Records /\ q.rax = fd /\ q.no = "pipe" /\ q.i = 1 /\ q.pc = 0
          /\ q.a1 = th[t].a1 /\ q.a2 = th[t].a2
      BY <1>1, <1>2 DEF Records, Free
    <2> HIDE DEF q
    <2>4. s \in Records /\ s.rax = fd /\ s.tmp = gd /\ s.no = "pipe" /\ s.i = 1 /\ s.pc = 0
          /\ s.a1 = th[t].a1 /\ s.a2 = th[t].a2
      BY <2>3 DEF Records, Free, s
    <2>5. /\ th' \in [Threads -> Records]
          /\ th' = [th EXCEPT ![t] = th'[t]]
          /\ SameCall(th'[t], s) /\ th'[t].i = 1 /\ th'[t].pc = 1
      BY <1>2, <2>2, <2>4, Further
    <2>6. /\ fd \in Fds /\ gd \in Fds /\ owner[fd] = "none" /\ owner[gd] = "none"
          /\ owner' \in [Fds -> {"none", "app", "mem", "mon"}]
          /\ owner'[fd] = "app" /\ owner'[gd] = "app"
          /\ \A g \in Fds : g \notin {fd, gd} => owner'[g] = owner[g]
      <3> DEFINE o == [owner EXCEPT ![fd] = "app"]
      <3>1. fd \in Fds /\ gd \in Fds /\ owner[fd] = "none" /\ owner[gd] = "none"
        BY DEF Free
      <3>2. owner' = [o EXCEPT ![gd] = "app"]
        BY <2>1, Zenon
      <3>3. /\ o \in [Fds -> {"none", "app", "mem", "mon"}] /\ o[fd] = "app"
            /\ \A g \in Fds : g # fd => o[g] = owner[g]
        BY <1>3, <3>1
      <3> HIDE DEF o
      <3> QED
        BY <2>1, <3>1, <3>2, <3>3
    <2>7. Placed(th'[t])
      BY <1>1, <1>2, <2>1, <2>4, <2>5, <2>6 DEF Placed, Closing, AtOpen, SameCall
    <2>8. \A g \in Fds : /\ ~Passed(th'[t], g)
                         /\ Made(th'[t], g) <=> g \in {fd, gd}
                         /\ ~Made(th[t], g)
                         /\ ~Temporary(th'[t], g)
      BY <1>1, <2>4, <2>5 DEF Passed, Made, Temporary, AtOpen, SameCall
    <2>9. ~Closing(th[t]) /\ ~Closing(th'[t])
      BY <1>1, <2>4, <2>5 DEF Closing, SameCall
    <2>10. Change(th[t], th'[t])
      BY <2>6, <2>7, <2>8, <2>9 DEF Change
    <2>11. Moves(t)
      BY <2>6, <2>8 DEF Moves, Taken
    <2>12. Kept(th[t], th'[t]) /\ (Locking(th'[t]) <=> Locking(th[t]))
      BY <1>1, <2>4, <2>5 DEF Kept, Names, Closes, Locking, SameCall
    <2>13. StatOK'
      BY <1>2, <1>3, <2>4, <2>5 DEF IInv, StatOK, AtOpen, SameCall
    <2> QED
      BY <1>3, <2>5, <2>6, <2>10, <2>11, <2>12, <2>13, Shift DEF IInv, Types
  <1> QED
    BY <1>4, <1>5

\* The first end is marked.
LEMMA FirstEnd ==
  ASSUME IInv, NEW t \in Threads, PipeFirst(t)
  PROVE  IInv'
  <1>1. th[t].no = "pipe" /\ th[t].i = 1 /\ th[t].pc = 1
    BY Where DEF Position, IInv, PipeFirst
  <1>2. /\ th[t] \in Records /\ Placed(th[t]) /\ th \in [Threads -> Records]
        /\ th[t].rax \in Fds /\ th[t].tmp \in Fds /\ th[t].rax # th[t].tmp
    BY <1>1 DEF IInv, Types, Places, Placed
  <1> DEFINE s == [th[t] EXCEPT !.rax = Bad]
  <1>3. s \in Records /\ s.rax = Bad /\ s.tmp = th[t].tmp /\ s.no = "pipe" /\ s.i = 1 /\ s.pc = 1
        /\ s.a1 = th[t].a1 /\ s.a2 = th[t].a2
    BY <1>1, <1>2 DEF Records
  <1>4. NextStep(t, s) /\ Unlocked /\ bitmap' = SetBit(bitmap, th[t].rax)
        /\ UNCHANGED <<owner, mtx, stat>>
    BY DEF PipeFirst
  <1> HIDE DEF s
  <1>5. /\ th' \in [Threads -> Records]
        /\ th' = [th EXCEPT ![t] = th'[t]]
        /\ SameCall(th'[t], s) /\ th'[t].i = 1 /\ th'[t].pc = 2
    BY <1>2, <1>3, <1>4, Further
  <1>6. Made(th[t], th[t].rax)
    BY <1>1, <1>2 DEF Made
  <1>7. owner[th[t].rax] = "app" \/ th[t].rax = Listing
    BY <1>1, <1>2, <1>6 DEF IInv, MadeOK, AtOpen
  <1>a. /\ th'[t].no = "pipe" /\ th'[t].a1 = Bad /\ th'[t].a2 = Bad
        /\ th'[t].tmp = th[t].tmp
    <2>1. th[t].a1 = Bad /\ th[t].a2 = Bad
      BY <1>1, <1>2 DEF Placed
    <2> QED
      BY <1>3, <1>5, <2>1 DEF SameCall
  <1>8. Placed(th'[t])
    BY <1>2, <1>5, <1>a, OneEndLeft
  <1>9. Kept(th[t], th'[t]) /\ ~Locking(th'[t])
    BY <1>1, <1>3, <1>5 DEF Kept, Names, Closes, Locking, SameCall
  <1>10. \A g \in Fds : /\ Passed(th'[t], g) => Passed(th[t], g)
                        /\ Made(th'[t], g) => Made(th[t], g) /\ g # th[t].rax
                        /\ Made(th[t], g) => Made(th'[t], g) \/ g = th[t].rax
                        /\ ~Temporary(th'[t], g)
    <2>1. \A g \in Fds : Made(th[t], g) <=> g \in {th[t].rax, th[t].tmp}
      BY <1>1 DEF Made, AtOpen
    <2>2. \A g \in Fds : /\ ~Passed(th'[t], g) /\ ~Temporary(th'[t], g)
                         /\ Made(th'[t], g) <=> g = th[t].tmp
      BY <1>2, <1>5, <1>a, OneEndLeft
    <2> QED
      BY <1>2, <2>1, <2>2
  <1>11. \A k \in 2 .. 4 : ~AtOpen(th[t], k) /\ ~AtOpen(th'[t], k)
    BY <1>1, <1>3, <1>5 DEF AtOpen, SameCall
  <1> QED
    BY <1>2, <1>4, <1>5, <1>6, <1>7, <1>8, <1>9, <1>10, <1>11, Mark

\* The second end is marked.
LEMMA SecondEnd ==
  ASSUME IInv, NEW t \in Threads, PipeSecond(t)
  PROVE  IInv'
  <1>1. th[t].no = "pipe" /\ th[t].i = 1 /\ th[t].pc = 2
    BY Where DEF Position, IInv, PipeSecond
  <1>2. /\ th[t] \in Records /\ Placed(th[t]) /\ th \in [Threads -> Records]
        /\ th[t].tmp \in Fds
    BY <1>1 DEF IInv, Types, Places, Placed
  <1> DEFINE s == [th[t] EXCEPT !.tmp = Bad]
  <1>3. s \in Records /\ s.no = "pipe" /\ s.i = 1
    BY <1>1, <1>2 DEF Records
  <1>4. NextHandler(t, s) /\ Unlocked /\ bitmap' = SetBit(bitmap, th[t].tmp)
        /\ UNCHANGED <<owner, mtx, stat>>
    BY DEF PipeSecond
  <1> HIDE DEF s
  <1>5. th' \in [Threads -> Records] /\ th' = [th EXCEPT ![t] = th'[t]] /\ th'[t] = Idle
    BY <1>2, <1>3, <1>4, Onward, Domain DEF Last
  <1>6. Made(th[t], th[t].tmp)
    BY <1>1, <1>2 DEF Made
  <1>7. owner[th[t].tmp] = "app" \/ th[t].tmp = Listing
    BY <1>1, <1>2, <1>6 DEF IInv, MadeOK, AtOpen
  <1>8. Placed(Idle)
    BY IdleRecord
  <1>9. Kept(th[t], Idle) /\ ~Locking(Idle)
    BY Numbers DEF Kept, Names, Closes, Locking, Idle
  <1>10. \A g \in Fds : /\ ~Passed(Idle, g) /\ ~Made(Idle, g) /\ ~Temporary(Idle, g)
                        /\ Made(th[t], g) => g = th[t].tmp
    <2>1. \A g \in Fds : Made(th[t], g) => g = th[t].tmp
      BY <1>1 DEF Made, AtOpen
    <2> QED
      BY <2>1, IdleRecord
  <1>11. \A k \in 2 .. 4 : ~AtOpen(th[t], k) /\ ~AtOpen(Idle, k)
    BY <1>1 DEF AtOpen, Idle
  <1> QED
    BY <1>2, <1>4, <1>5, <1>6, <1>7, <1>8, <1>9, <1>10, <1>11, Mark

\* The posthandler marks what the call returned.
LEMMA Saved ==
  ASSUME IInv, NEW t \in Threads, save_untrusted_fd(t)
  PROVE  IInv'
  <1>1. /\ th[t].pc = 0
        /\ \/ th[t].no \in {"dup", "dup2", "openat"} /\ th[t].i = 3
           \/ th[t].no \in {"socket", "open"} /\ th[t].i = 2
    BY Where DEF Position, IInv, save_untrusted_fd
  <1>2. th[t] \in Records /\ Placed(th[t]) /\ th \in [Threads -> Records]
    BY DEF IInv, Types, Places
  <1>3. th' \in [Threads -> Records] /\ th' = [th EXCEPT ![t] = th'[t]] /\ th'[t] = Idle
    BY <1>1, <1>2, Onward, Domain DEF Last, save_untrusted_fd
  <1>4. UNCHANGED <<owner, mtx, stat>>
    BY DEF save_untrusted_fd
  <1>5. ~Locking(th[t]) /\ ~Closing(th[t])
    BY <1>1 DEF Locking, Closing
  <1>6. CASE th[t].rax \notin Fds
    <2>1. bitmap' = bitmap
      BY <1>2, <1>6, Numbers DEF Records, save_untrusted_fd
    <2>2. \A fd \in Fds : ~Made(th[t], fd)
      BY <1>1, <1>6 DEF Made, AtOpen
    <2> QED
      BY <1>3, <1>4, <1>5, <2>1, <2>2, Ended
  <1>7. CASE th[t].rax \in Fds
    <2>1. Unlocked /\ bitmap' = SetBit(bitmap, th[t].rax)
      BY <1>7, Numbers DEF save_untrusted_fd
    <2>2. th[t].no # "dup2" => Made(th[t], th[t].rax)
      BY <1>1, <1>7 DEF Made
    <2>3. th[t].no = "dup2" => Passed(th[t], th[t].rax)
      BY <1>1, <1>2, <1>7, PlacedParts DEF Passed
    <2>4. th[t].no # "dup2" => owner[th[t].rax] = "app" \/ th[t].rax = Listing
      BY <1>1, <1>7, <2>2 DEF IInv, MadeOK, AtOpen
    <2>5. th[t].no = "dup2" => owner[th[t].rax] = "app" /\ th[t].rax \in bitmap.bits
      BY <1>5, <1>7, <2>3 DEF IInv, PassedOK
    <2>6. Placed(Idle)
      BY DEF Placed, Closing, AtOpen, Idle
    <2>7. Kept(th[t], Idle) /\ ~Locking(Idle)
      BY Numbers DEF Kept, Names, Closes, Locking, Idle
    <2>8. \A g \in Fds : /\ ~Passed(Idle, g) /\ ~Made(Idle, g) /\ ~Temporary(Idle, g)
                         /\ Made(th[t], g) => g = th[t].rax
      BY <1>1 DEF Passed, Made, Temporary, AtOpen, Idle
    <2>9. \A k \in 2 .. 4 : ~AtOpen(th[t], k) /\ ~AtOpen(Idle, k)
      BY <1>1 DEF AtOpen, Idle
    <2> QED
      BY <1>3, <1>4, <1>7, <2>1, <2>2, <2>4, <2>5, <2>6, <2>7, <2>8, <2>9, Mark
  <1> QED
    BY <1>6, <1>7

(***************************************************************************)
(* close.                                                                  *)
(***************************************************************************)
\* The lock is held by at most one thread.
LEMMA OneLock ==
  ASSUME IInv, NEW t \in Threads, Locking(th[t])
  PROVE  mtx = t /\ \A u \in Threads : u # t => ~Locking(th[u]) /\ ~Closing(th[u])
  BY DEF IInv, Locks, Locking, Closing

\* close takes the lock.
LEMMA CloseLocked ==
  ASSUME IInv, NEW t \in Threads, CloseLock(t)
  PROVE  IInv'
  <1>1. th[t].no = "close" /\ th[t].i = 2 /\ th[t].pc = 0
    BY Where DEF Position, IInv, CloseLock
  <1>2. th[t] \in Records /\ Placed(th[t]) /\ th \in [Threads -> Records]
    BY DEF IInv, Types, Places
  <1>3. /\ th' \in [Threads -> Records]
        /\ th' = [th EXCEPT ![t] = th'[t]]
        /\ SameCall(th'[t], th[t]) /\ th'[t].i = 2 /\ th'[t].pc = 1
    BY <1>1, <1>2, Further DEF CloseLock
  <1>4. \A u \in Threads : u = t \/ th'[u] = th[u]
    BY <1>2, <1>3
  <1>5. mtx' = t /\ mtx = NoThread /\ UNCHANGED <<owner, bitmap, stat>>
    BY DEF CloseLock, Unlocked
  <1>6. Locks'
    <2>1. Locking(th'[t])
      BY <1>1, <1>3 DEF Locking, SameCall
    <2>2. \A u \in Threads : ~Locking(th[u])
      BY <1>5, CallsAssumption DEF IInv, Locks
    <2> QED
      BY <1>4, <1>5, <2>1, <2>2 DEF Locks
  <1>15. th'[t].no = "close" /\ th'[t].a1 = th[t].a1 /\ th'[t].a2 = th[t].a2
    BY <1>1, <1>3 DEF SameCall
  <1>7. Placed(th'[t])
    <2>1. th[t].a1 \in Fds \cup {Bad} /\ th[t].a2 = Bad
      BY <1>1, <1>2 DEF Placed
    <2> QED
      BY <1>3, <1>15, <2>1, ClosedRecord
  <1>8. \A g \in Fds : /\ Passed(th'[t], g) => Passed(th[t], g)
                       /\ ~Made(th'[t], g) /\ ~Made(th[t], g)
                       /\ ~Temporary(th'[t], g)
    BY <1>1, <1>3, <1>15 DEF Passed, Made, Temporary, AtOpen
  <1>9. ~Closing(th[t]) /\ ~Closing(th'[t])
    BY <1>1, <1>3 DEF Closing
  <1>10. Change(th[t], th'[t])
    BY <1>7, <1>8, <1>9 DEF Change
  <1>11. Moves(t)
    BY <1>5 DEF Moves
  <1>12. Kept(th[t], th'[t])
    BY <1>3 DEF Kept, Names, Closes, SameCall
  <1>13. StatOK'
    BY <1>1, <1>3, <1>4, <1>5 DEF IInv, StatOK, AtOpen, SameCall
  <1>14. ListingOK' /\ Discipline'
    BY <1>4, <1>10, <1>11, <1>12, ArgumentsKept
  <1> QED
    BY <1>3, <1>4, <1>5, <1>6, <1>10, <1>11, <1>13, <1>14, Move DEF IInv, Types

\* What close has let through is named by no other thread.
LEMMA OwnArgument ==
  ASSUME IInv, NEW t \in Threads, th[t].no = "close", NEW fd \in Fds, fd = th[t].a1
  PROVE  \A u \in Threads : u # t => ~Names(th[u], fd) /\ ~Passed(th[u], fd)
  <1>1. Closes(th[t], fd)
    BY DEF Closes
  <1>2. \A u \in Threads : u # t => ~Names(th[u], fd)
    BY <1>1 DEF IInv, Discipline
  <1>3. \A u \in Threads : Passed(th[u], fd) => Names(th[u], fd)
    BY DEF Passed, Names
  <1> QED
    BY <1>2, <1>3

\* The kernel closes the descriptor.
LEMMA CloseDone ==
  ASSUME IInv, Faults = {}, NEW t \in Threads, CloseKernel(t)
  PROVE  IInv'
  <1>1. th[t].no = "close" /\ th[t].i = 2 /\ th[t].pc = 1
    BY Where DEF Position, IInv, CloseKernel
  <1>2. th[t] \in Records /\ Placed(th[t]) /\ th \in [Threads -> Records]
    BY DEF IInv, Types, Places
  <1>3. /\ ~Closing(th[t])
        /\ mtx = t /\ \A u \in Threads : u # t => ~Locking(th[u]) /\ ~Closing(th[u])
    BY <1>1, OneLock DEF Locking, Closing
  <1>4. UNCHANGED <<bitmap, stat>>
    BY DEF CloseKernel
  <1>5. CASE th[t].a1 \notin Fds
    <2> DEFINE s == [th[t] EXCEPT !.rax = Bad]
    <2>1. s \in Records /\ s.no = "close" /\ s.i = 2
      BY <1>1, <1>2 DEF Records
    <2>2. NextHandler(t, s) /\ owner' = owner /\ mtx' = NoThread
      BY <1>5 DEF CloseKernel, IsOpen, Fails
    <2> HIDE DEF s
    <2>3. th' \in [Threads -> Records] /\ th' = [th EXCEPT ![t] = th'[t]] /\ th'[t] = Idle
      BY <1>2, <2>1, <2>2, Onward, Domain DEF Last
    <2>4. \A u \in Threads : u = t \/ th'[u] = th[u]
      BY <1>2, <2>3
    <2>5. ~Locking(Idle) /\ Kept(th[t], Idle)
      BY Numbers DEF Locking, Kept, Names, Closes, Idle
    <2>6. Locks'
      BY <1>3, <2>2, <2>3, <2>4, <2>5, CallsAssumption DEF Locks
    <2>7. Change(th[t], Idle)
      <3>1. \A fd \in Fds : ~Made(th[t], fd)
        BY <1>1 DEF Made, AtOpen
      <3> QED
        BY <1>3, <3>1, IdleRecord DEF Change
    <2>8. Moves(t)
      BY <2>2 DEF Moves
    <2>9. StatOK'
      BY <1>4, <2>3, <2>4 DEF IInv, StatOK, AtOpen, Idle
    <2>10. ListingOK' /\ Discipline'
      BY <2>3, <2>4, <2>5, <2>7, <2>8, ArgumentsKept
    <2> QED
      BY <1>4, <2>2, <2>3, <2>4, <2>6, <2>7, <2>8, <2>9, <2>10, Move DEF IInv, Types
  <1>6. CASE th[t].a1 \in Fds
    <2> DEFINE fd == th[t].a1
    <2>1. fd \in bitmap.bits /\ owner[fd] = "app"
      BY <1>1, <1>3, <1>6 DEF IInv, PassedOK, Passed
    <2>2. NextStep(t, th[t]) /\ mtx' = mtx /\ owner' = [owner EXCEPT ![fd] = "none"]
      BY <1>6, <2>1 DEF CloseKernel, IsOpen
    <2>3. /\ th' \in [Threads -> Records]
          /\ th' = [th EXCEPT ![t] = th'[t]]
          /\ SameCall(th'[t], th[t]) /\ th'[t].i = 2 /\ th'[t].pc = 2
      BY <1>1, <1>2, <2>2, Further
    <2>4. \A u \in Threads : u = t \/ th'[u] = th[u]
      BY <1>2, <2>3
    <2>5. /\ owner' \in [Fds -> {"none", "app", "mem", "mon"}]
          /\ owner'[fd] = "none"
          /\ \A g \in Fds : g # fd => owner'[g] = owner[g]
      BY <1>6, <2>2 DEF IInv, Types
    <2>6. Closing(th'[t]) /\ th'[t].a1 = fd /\ Locking(th'[t]) /\ Locking(th[t])
      BY <1>1, <2>3 DEF Closing, Locking, SameCall
    <2>7. \A g \in Fds : /\ Passed(th'[t], g) => g = fd
                         /\ ~Made(th'[t], g) /\ ~Made(th[t], g)
                         /\ ~Temporary(th'[t], g)
      BY <1>1, <2>3 DEF Passed, Made, Temporary, AtOpen, SameCall
    <2>8. \A u \in Threads : u # t => ~Names(th[u], fd) /\ ~Passed(th[u], fd)
      BY <1>1, <1>6, OwnArgument
    <2>9. \A u \in Threads : Made(th[u], fd) => fd = Listing
      BY <1>3, <1>6, <2>1 DEF IInv, MadeOK
    <2> HIDE DEF fd
    <2>10. fd \in Fds
      BY <1>6 DEF fd
    <2>11. Types'
      BY <1>4, <2>2, <2>3, <2>5 DEF IInv, Types
    <2>12. Places'
      <3>1. Placed(th'[t])
        <4>1. th[t].a2 = Bad
          BY <1>1, <1>2 DEF Placed
        <4>2. /\ th'[t].no = "close" /\ th'[t].i = 2 /\ th'[t].pc = 2
              /\ th'[t].a1 \in Fds /\ th'[t].a2 = Bad
          BY <1>1, <2>3, <2>6, <2>10, <4>1 DEF SameCall
        <4> QED
          BY <4>2, ClosedRecord
      <3> QED
        BY <2>4, <3>1 DEF IInv, Places
    <2>13. Locks'
      BY <1>3, <2>2, <2>4, <2>6 DEF Locks
    <2>14. PassedOK'
      BY <1>4, <2>1, <2>4, <2>5, <2>6, <2>7, <2>8 DEF IInv, PassedOK
    <2>15. \A u \in Threads, g \in Fds :
              (Names(th'[u], g) <=> Names(th[u], g)) /\ (Closes(th'[u], g) <=> Closes(th[u], g))
      BY <2>3, <2>4 DEF Names, Closes, SameCall
    <2>16. ListingOK'
      BY <1>3, <2>4, <2>5, <2>6, <2>8, <2>15, Numbers DEF IInv, ListingOK
    <2>17. \A u \in Threads, g \in Fds : Made(th'[u], g) <=> Made(th[u], g)
      BY <2>4, <2>7
    <2>18. MadeOK'
      <3>1. \A u \in Threads, g \in Fds : Made(th'[u], g) /\ g # Listing =>
               /\ u # t /\ Made(th[u], g) /\ th'[u] = th[u]
               /\ owner'[g] = owner[g]
        BY <2>4, <2>5, <2>7, <2>9
      <3>2. \A u \in Threads, g \in Fds : Made(th[u], g) /\ g # Listing => g \notin bitmap.bits
        BY <1>3 DEF IInv, MadeOK
      <3> QED
        BY <1>4, <3>1, <3>2 DEF IInv, MadeOK
    <2>19. MadeApart'
      BY <2>17 DEF IInv, MadeApart
    <2>20. TemporaryOK'
      BY <2>1, <2>4, <2>5, <2>7, <2>10 DEF IInv, TemporaryOK
    <2>21. StatOK'
      BY <1>1, <1>4, <2>3, <2>4 DEF IInv, StatOK, AtOpen, SameCall
    <2>22. Marked'
      BY <1>3, <1>4, <2>5, <2>6 DEF IInv, Types, Marked
    <2>23. Apps'
      BY <1>4, <2>5, <2>17 DEF IInv, Apps
    <2>24. Reopened'
      BY <1>3, <2>4, <2>5, <2>6 DEF Reopened
    <2>25. Discipline'
      BY <2>15 DEF IInv, Discipline
    <2> QED
      BY <2>11, <2>12, <2>13, <2>14, <2>16, <2>18, <2>19, <2>20, <2>21, <2>22, <2>23, <2>24, <2>25
         DEF IInv
  <1> QED
    BY <1>5, <1>6

\* close takes the mark away and releases the lock.
LEMMA CloseUnmarked ==
  ASSUME IInv, NEW t \in Threads, CloseUnset(t)
  PROVE  IInv'
  <1>1. th[t].no = "close" /\ th[t].i = 2 /\ th[t].pc = 2
    BY Where DEF Position, IInv, CloseUnset
  <1>2. /\ th[t] \in Records /\ Placed(th[t]) /\ th \in [Threads -> Records]
        /\ Closing(th[t]) /\ Locking(th[t])
    BY <1>1 DEF IInv, Types, Places, Closing, Locking
  <1> DEFINE fd == th[t].a1
  <1>3. fd \in Fds
    BY <1>2 DEF Placed
  <1>4. \A u \in Threads : u # t => ~Locking(th[u]) /\ ~Closing(th[u])
    BY <1>2, OneLock
  <1>5. \A u \in Threads : u # t => ~Names(th[u], fd) /\ ~Passed(th[u], fd)
    BY <1>1, <1>3, OwnArgument
  <1>6. th' \in [Threads -> Records] /\ th' = [th EXCEPT ![t] = th'[t]] /\ th'[t] = Idle
    BY <1>1, <1>2, Onward, Domain DEF CloseUnset, Last
  <1>7. mtx' = NoThread /\ UNCHANGED <<owner, stat>> /\ bitmap' = UnsetBit(bitmap, fd)
    BY DEF CloseUnset
  <1>8. owner[fd] = "app" => \E u \in Threads : Made(th[u], fd)
    BY <1>2 DEF IInv, Reopened
  <1> HIDE DEF fd
  <1>9. /\ bitmap' \in [size : Nat \ {0}, bits : SUBSET Fds]
        /\ bitmap'.bits = bitmap.bits \ {fd} /\ bitmap'.size = bitmap.size
    <2>1. /\ bitmap \in [size : Nat \ {0}, bits : SUBSET Fds]
          /\ \A g \in bitmap.bits : Bytes(g) < bitmap.size
          /\ Bytes(fd) \in Nat
      BY <1>3, Numbers, FdAssumption DEF IInv, Types, Bytes
    <2>2. CASE Bytes(fd) >= bitmap.size
      <3>1. fd \notin bitmap.bits
        BY <2>1, <2>2
      <3> QED
        BY <1>7, <2>1, <2>2, <3>1 DEF UnsetBit
    <2>3. CASE ~(Bytes(fd) >= bitmap.size)
      BY <1>7, <2>1, <2>3 DEF UnsetBit
    <2> QED
      BY <2>2, <2>3
  <1>10. \A u \in Threads : u = t \/ th'[u] = th[u]
    BY <1>2, <1>6
  <1>11. \A g \in Fds : /\ ~Passed(Idle, g) /\ ~Made(Idle, g) /\ ~Temporary(Idle, g)
                        /\ ~Names(Idle, g) /\ ~Closes(Idle, g) /\ ~Made(th[t], g)
    BY <1>1, Numbers DEF Passed, Made, Temporary, Names, Closes, AtOpen, Idle
  <1>12. Placed(Idle) /\ ~Locking(Idle) /\ ~Closing(Idle) /\ \A k \in Nat : ~AtOpen(Idle, k)
    BY DEF Placed, Locking, Closing, AtOpen, Idle
  <1>13. Types'
    BY <1>6, <1>7, <1>9 DEF IInv, Types, Bytes
  <1>14. Places'
    BY <1>6, <1>10, <1>12 DEF IInv, Places
  <1>15. Locks'
    BY <1>4, <1>6, <1>7, <1>10, <1>12, CallsAssumption DEF Locks
  <1>16. PassedOK'
    <2>1. PassedOK
      BY DEF IInv
    <2>2. \A u \in Threads, g \in Fds : Passed(th'[u], g) => u # t /\ g # fd /\ Passed(th[u], g)
      BY <1>5, <1>6, <1>10, <1>11
    <2>3. \A u \in Threads : u # t => ~Closing(th[u]) /\ ~Closing(th'[u])
      BY <1>4, <1>10
    <2> QED
      BY <1>7, <1>9, <2>1, <2>2, <2>3 DEF PassedOK
  <1>17. ListingOK'
    BY <1>6, <1>7, <1>10, <1>11, Numbers DEF IInv, ListingOK
  <1>18. \A u \in Threads, g \in Fds : Made(th'[u], g) <=> Made(th[u], g)
    BY <1>6, <1>10, <1>11
  <1>19. MadeOK'
    BY <1>4, <1>6, <1>7, <1>9, <1>10, <1>11 DEF IInv, MadeOK, fd
  <1>20. MadeApart'
    BY <1>18 DEF IInv, MadeApart
  <1>21. TemporaryOK'
    BY <1>6, <1>7, <1>10, <1>11 DEF IInv, TemporaryOK
  <1>22. StatOK'
    BY <1>6, <1>7, <1>10, <1>12 DEF IInv, StatOK
  <1>23. Marked'
    BY <1>4, <1>7, <1>9 DEF IInv, Marked, fd
  <1>24. Apps'
    BY <1>7, <1>8, <1>9, <1>18 DEF IInv, Apps
  <1>25. Reopened'
    BY <1>4, <1>6, <1>10, <1>12 DEF Reopened
  <1>26. Discipline'
    BY <1>6, <1>10, <1>11 DEF IInv, Discipline
  <1> QED
    BY <1>13, <1>14, <1>15, <1>16, <1>17, <1>19, <1>20, <1>21, <1>22, <1>23, <1>24, <1>25, <1>26
       DEF IInv

=============================================================================
