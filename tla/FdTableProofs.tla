--------------------------- MODULE FdTableProofs ----------------------------
(***************************************************************************)
(* The properties of FdTable for any number of threads and descriptors, as *)
(* long as the environment does nothing that Faults names.                 *)
(***************************************************************************)
EXTENDS FdTableCalls, FdTableMarks

(***************************************************************************)
(* The prehandlers.                                                        *)
(***************************************************************************)
\* A look-up while the lock is free finds a descriptor of the application.
LEMMA LookUp ==
  ASSUME IInv, NEW t \in Threads, NEW fd \in Fds, Unlocked, ReadBit(bitmap, fd),
         Names(th[t], fd)
  PROVE  fd \in bitmap.bits /\ owner[fd] = "app"
  <1>1. \A u \in Threads : ~Closing(th[u])
    BY CallsAssumption DEF IInv, Locks, Unlocked, Locking, Closing
  <1>2. fd \in bitmap.bits
    BY DEF ReadBit
  <1>3. CASE fd = Listing
    BY <1>1, <1>2, <1>3 DEF IInv, ListingOK
  <1>4. CASE fd # Listing
    BY <1>1, <1>2, <1>4 DEF IInv, Marked
  <1> QED
    BY <1>2, <1>3, <1>4
\* The prehandler of calls that use their first argument.
LEMMA FirstArgument ==
  ASSUME IInv, NEW t \in Threads, fd_first_argument_prehandler(t)
  PROVE  IInv'
  <1>1. /\ th[t].no \in {"read", "dup", "openat", "close"}
        /\ th[t].i = 1
        /\ th[t].pc = 0
    BY Where DEF Position, IInv, fd_first_argument_prehandler
  <1>2. th[t] \in Records /\ Placed(th[t])
    BY DEF IInv, Types, Places
  <1>3. PICK s \in Records :
           /\ NextHandler(t, s)
           /\ s.no = th[t].no /\ s.i = 1 /\ s.a2 = th[t].a2 /\ s.rax = th[t].rax
           /\ s.tmp = th[t].tmp
           /\ \/ s.a1 = Bad
              \/ s.a1 = th[t].a1 /\ (s.a1 \in Fds => Unlocked /\ ReadBit(bitmap, s.a1))
    BY <1>1, <1>2, Numbers DEF fd_first_argument_prehandler, Checked, Records, Bad
  <1>4. /\ th' \in [Threads -> Records]
        /\ th' = [th EXCEPT ![t] = th'[t]]
        /\ SameCall(th'[t], s) /\ th'[t].i = 2 /\ th'[t].pc = 0
    BY <1>1, <1>3, Onward, Domain DEF IInv, Types, Last
  <1>5. s.a1 \in Fds => s.a1 \in bitmap.bits /\ owner[s.a1] = "app"
    BY <1>3, Numbers, LookUp DEF Names
  <1>6. UNCHANGED <<owner, bitmap, mtx, stat>>
    BY DEF fd_first_argument_prehandler
  <1>7. Change(th[t], th'[t])
    <2>1. Placed(th'[t])
      BY <1>1, <1>2, <1>3, <1>4 DEF Placed, Closing, AtOpen, SameCall
    <2>2. \A fd \in Fds : /\ Passed(th'[t], fd) => fd = s.a1
                          /\ ~Made(th'[t], fd) /\ ~Made(th[t], fd)
                          /\ ~Temporary(th'[t], fd)
      BY <1>1, <1>3, <1>4 DEF Passed, Made, Temporary, AtOpen, SameCall
    <2>3. ~Closing(th[t]) /\ ~Closing(th'[t])
      BY <1>1, <1>4 DEF Closing
    <2> QED
      BY <1>5, <2>1, <2>2, <2>3 DEF Change
  <1>8. Kept(th[t], th'[t]) /\ (Locking(th'[t]) <=> Locking(th[t]))
    BY <1>1, <1>3, <1>4, Numbers DEF Kept, Names, Closes, Locking, SameCall
  <1>9. StatOK'
    BY <1>4, <1>6 DEF IInv, StatOK, Types, AtOpen
  <1> QED
    BY <1>4, <1>6, <1>7, <1>8, <1>9, Quiet DEF IInv, Types

\* dup2 has its first argument looked up.
LEMMA FirstLookUp ==
  ASSUME IInv, NEW t \in Threads, FirstOfTwo(t)
  PROVE  IInv'
  <1>1. th[t].no = "dup2" /\ th[t].i = 1 /\ th[t].pc = 0
    BY Where DEF Position, IInv, FirstOfTwo
  <1>2. th[t] \in Records /\ Placed(th[t])
    BY DEF IInv, Types, Places
  <1>3. PICK s \in Records :
           /\ NextStep(t, s)
           /\ s.no = "dup2" /\ s.i = 1 /\ s.pc = 0 /\ s.a2 = th[t].a2
           /\ \/ s.a1 = Bad
              \/ s.a1 = th[t].a1 /\ Unlocked /\ ReadBit(bitmap, s.a1)
    BY <1>1, <1>2 DEF FirstOfTwo, Checked, Records, Bad
  <1>4. /\ th' \in [Threads -> Records]
        /\ th' = [th EXCEPT ![t] = th'[t]]
        /\ SameCall(th'[t], s) /\ th'[t].i = 1 /\ th'[t].pc = 1
    BY <1>3, Further DEF IInv, Types
  <1>5. s.a1 \in Fds => s.a1 \in bitmap.bits /\ owner[s.a1] = "app"
    BY <1>3, Numbers, LookUp DEF Names
  <1>6. UNCHANGED <<owner, bitmap, mtx, stat>>
    BY DEF FirstOfTwo
  <1>7. Change(th[t], th'[t])
    <2>1. Placed(th'[t])
      BY <1>1, <1>2, <1>3, <1>4 DEF Placed, Closing, AtOpen, SameCall
    <2>2. \A fd \in Fds : /\ Passed(th'[t], fd) => fd = s.a1
                          /\ ~Made(th'[t], fd) /\ ~Made(th[t], fd)
                          /\ ~Temporary(th'[t], fd)
      BY <1>1, <1>3, <1>4 DEF Passed, Made, Temporary, AtOpen, SameCall
    <2>3. ~Closing(th[t]) /\ ~Closing(th'[t])
      BY <1>1, <1>4 DEF Closing
    <2> QED
      BY <1>5, <2>1, <2>2, <2>3 DEF Change
  <1>8. Kept(th[t], th'[t]) /\ (Locking(th'[t]) <=> Locking(th[t]))
    BY <1>1, <1>3, <1>4, Numbers DEF Kept, Names, Closes, Locking, SameCall
  <1>9. StatOK'
    BY <1>3, <1>4, <1>6 DEF IInv, StatOK, Types, AtOpen, SameCall
  <1> QED
    BY <1>4, <1>6, <1>7, <1>8, <1>9, Quiet DEF IInv, Types

\* dup2 has its second argument looked up.
LEMMA SecondLookUp ==
  ASSUME IInv, NEW t \in Threads, SecondOfTwo(t)
  PROVE  IInv'
  <1>1. th[t].no = "dup2" /\ th[t].i = 1 /\ th[t].pc = 1
    BY Where DEF Position, IInv, SecondOfTwo
  <1>2. th[t] \in Records /\ Placed(th[t])
    BY DEF IInv, Types, Places
  <1>3. PICK s \in Records :
           /\ NextHandler(t, s)
           /\ s.no = "dup2" /\ s.i = 1 /\ s.a2 = th[t].a2
           /\ \/ s.a1 = Bad
              \/ s.a1 = th[t].a1 /\ Unlocked /\ ReadBit(bitmap, s.a2)
    BY <1>1, <1>2 DEF SecondOfTwo, Checked, Records, Bad
  <1>4. /\ th' \in [Threads -> Records]
        /\ th' = [th EXCEPT ![t] = th'[t]]
        /\ SameCall(th'[t], s) /\ th'[t].i = 2 /\ th'[t].pc = 0
    BY <1>3, Onward, Domain DEF IInv, Types, Last
  <1>5. s.a1 # Bad => s.a2 \in bitmap.bits /\ owner[s.a2] = "app"
    BY <1>1, <1>2, <1>3, LookUp DEF Names, Placed
  <1>6. UNCHANGED <<owner, bitmap, mtx, stat>>
    BY DEF SecondOfTwo
  <1>7. Change(th[t], th'[t])
    <2>1. Placed(th'[t])
      BY <1>1, <1>2, <1>3, <1>4 DEF Placed, Closing, AtOpen, SameCall
    <2>2. \A fd \in Fds : /\ Passed(th'[t], fd) => fd \in {s.a1, s.a2} /\ s.a1 # Bad
                          /\ ~Made(th'[t], fd) /\ ~Made(th[t], fd)
                          /\ ~Temporary(th'[t], fd)
      BY <1>1, <1>3, <1>4 DEF Passed, Made, Temporary, AtOpen, SameCall
    <2>3. \A fd \in Fds : fd = th[t].a1 => Passed(th[t], fd)
      BY <1>1 DEF Passed
    <2>4. ~Closing(th[t]) /\ ~Closing(th'[t])
      BY <1>1, <1>4 DEF Closing
    <2> QED
      BY <1>3, <1>5, <2>1, <2>2, <2>3, <2>4 DEF Change
  <1>8. Kept(th[t], th'[t]) /\ (Locking(th'[t]) <=> Locking(th[t]))
    BY <1>1, <1>3, <1>4, Numbers DEF Kept, Names, Closes, Locking, SameCall
  <1>9. StatOK'
    BY <1>3, <1>4, <1>6 DEF IInv, StatOK, Types, AtOpen, SameCall
  <1> QED
    BY <1>4, <1>6, <1>7, <1>8, <1>9, Quiet DEF IInv, Types

(***************************************************************************)
(* The start of a call, and the monitor's own descriptors.                 *)
(***************************************************************************)
\* A thread makes a call with descriptors that no other thread is closing (Considerate).
LEMMA Started ==
  ASSUME IInv, Faults = {}, NEW t \in Threads, NEW no \in Calls, NEW a \in Args(no),
         Considerate(t, CallOf(no, a[1], a[2])), secpoline_syscall_handler(t, no, a[1], a[2])
  PROVE  IInv'
  <1> DEFINE r == CallOf(no, a[1], a[2])
  <1>1. /\ th[t] = Idle /\ th' = [th EXCEPT ![t] = r]
        /\ \A u \in Threads \ {t} :
              Closed(r) \cap Named(th[u]) = {} /\ Closed(th[u]) \cap Named(r) = {}
        /\ Listing \notin Named(r) \/ owner[Listing] = "app"
        /\ UNCHANGED <<owner, bitmap, mtx, stat>>
    BY Zenon DEF secpoline_syscall_handler, Considerate
  <1>2. no \in {"read", "dup", "dup2", "socket", "open", "openat", "pipe", "close"}
    BY CallsAssumption, Domain
  <1>3. /\ no \in {"socket", "open", "pipe"} => a[1] = Bad /\ a[2] = Bad
        /\ no = "dup2" => a[1] \in Fds /\ a[2] \in Fds
        /\ no = "openat" => a[1] \in Fds \cup {AtCwd} /\ a[2] = Bad
        /\ no \in {"read", "dup", "close"} => a[1] \in Fds /\ a[2] = Bad
    BY <1>2 DEF Args
  <1>5. /\ r \in Records /\ r.no = no /\ r.i = 1 /\ r.pc = 0 /\ r.a1 = a[1] /\ r.a2 = a[2]
        /\ r.rax = Bad /\ r.tmp = Bad
    BY <1>2, <1>3, Domain DEF Records, CallOf
  <1> HIDE DEF r
  <1>6. th' \in [Threads -> Records] /\ th'[t] = r /\ \A u \in Threads : u = t \/ th'[u] = th[u]
    BY <1>1, <1>5, Replaced DEF IInv, Types
  <1>7. Placed(r)
    BY <1>2, <1>3, <1>5, Numbers DEF Placed, Closing, AtOpen
  <1>8. \A g \in Fds : ~Passed(r, g) /\ ~Made(r, g) /\ ~Temporary(r, g)
    BY <1>2, <1>5, Numbers DEF Passed, Made, Temporary, AtOpen
  <1>9. ~Closing(r) /\ ~Locking(r) /\ \A k \in 2 .. 4 : ~AtOpen(r, k)
    BY <1>5 DEF Closing, Locking, AtOpen
  <1>10. /\ \A g \in Fds : ~Made(Idle, g) /\ ~Names(Idle, g) /\ ~Closes(Idle, g)
         /\ ~Closing(Idle) /\ ~Locking(Idle)
    BY Numbers DEF Made, Names, Closes, Closing, Locking, AtOpen, Idle
  <1>11. Change(th[t], th'[t])
    BY <1>1, <1>6, <1>7, <1>8, <1>9, <1>10 DEF Change
  <1>12. Moves(t)
    BY <1>1 DEF Moves
  <1>13. Locks'
    BY <1>1, <1>6, <1>9, <1>10 DEF IInv, Locks
  <1>14. StatOK'
    BY <1>1, <1>6, <1>9 DEF IInv, StatOK
  <1>15. /\ \A u \in Threads, g \in Fds : Names(th[u], g) => g \in Named(th[u])
         /\ \A u \in Threads, g \in Fds : Closes(th[u], g) => g \in Closed(th[u])
         /\ \A g \in Fds : Names(r, g) => g \in Named(r)
         /\ \A g \in Fds : Closes(r, g) => g \in Closed(r)
    BY DEF Names, Named, Closes, Closed
  <1>16. ListingOK'
    BY <1>1, <1>6, <1>15, Numbers DEF IInv, ListingOK
  <1>17. Discipline'
    <2>1. \A u \in Threads, g \in Fds : u # t =>
             /\ ~(Closes(r, g) /\ Names(th[u], g))
             /\ ~(Closes(th[u], g) /\ Names(r, g))
      BY <1>1, <1>15
    <2> QED
      BY <1>6, <2>1 DEF IInv, Discipline
  <1> QED
    BY <1>1, <1>6, <1>11, <1>12, <1>13, <1>14, <1>16, <1>17, Move DEF IInv, Types

\* The monitor takes a free descriptor.
LEMMA MonitorTakes ==
  ASSUME IInv, MonitorOpen
  PROVE  IInv'
  <1>1. PICK fd \in Free : owner' = [owner EXCEPT ![fd] = "mon"]
    BY Zenon DEF MonitorOpen
  <1>2. UNCHANGED <<bitmap, mtx, stat, th>>
    BY DEF MonitorOpen
  <1>3. /\ fd \in Fds /\ owner[fd] = "none" /\ owner'[fd] = "mon"
        /\ owner' \in [Fds -> {"none", "app", "mem", "mon"}]
        /\ \A g \in Fds : g # fd => owner'[g] = owner[g]
    BY <1>1 DEF IInv, Types, Free
  <1>4. Moves(NoThread)
    BY <1>3 DEF Moves, Taken
  <1>5. ListingOK' /\ Discipline'
    BY <1>2, <1>4, CallsAssumption, ArgumentsKept
  <1>6. Locks' /\ StatOK'
    BY <1>2 DEF IInv, Locks, StatOK
  <1> QED
    BY <1>2, <1>3, <1>4, <1>5, <1>6, CallsAssumption, Move DEF IInv, Types

\* The monitor closes one of its own.
LEMMA MonitorGives ==
  ASSUME IInv, MonitorClose
  PROVE  IInv'
  <1>1. PICK fd \in Fds : /\ owner[fd] = "mon"
                          /\ \A t \in Threads : th[t].tmp # fd
                          /\ owner' = [owner EXCEPT ![fd] = "none"]
    BY Zenon DEF MonitorClose
  <1>2. UNCHANGED <<bitmap, mtx, stat, th>>
    BY DEF MonitorClose
  <1>3. /\ owner'[fd] = "none"
        /\ owner' \in [Fds -> {"none", "app", "mem", "mon"}]
        /\ \A g \in Fds : g # fd => owner'[g] = owner[g]
    BY <1>1 DEF IInv, Types
  <1>4. Moves(NoThread)
    <2>1. \A u \in Threads : ~Temporary(th[u], fd)
      BY <1>1 DEF Temporary
    <2>2. \A u \in Threads : Made(th[u], fd) => fd = Listing
      BY <1>1 DEF IInv, MadeOK
    <2> QED
      BY <1>1, <1>2, <1>3, <2>1, <2>2 DEF Moves, GivenBack
  <1>5. ListingOK' /\ Discipline'
    BY <1>2, <1>4, CallsAssumption, ArgumentsKept
  <1>6. Locks' /\ StatOK'
    BY <1>2 DEF IInv, Locks, StatOK
  <1> QED
    BY <1>2, <1>3, <1>4, <1>5, <1>6, CallsAssumption, Move DEF IInv, Types

(***************************************************************************)
(* The invariant holds, and the properties follow.                         *)
(***************************************************************************)
\* A larger number lies in no earlier byte.
LEMMA BytesGrow ==
  ASSUME NEW a \in Nat, NEW b \in Nat, a <= b, NEW d \in Nat \ {0}
  PROVE  a \div d <= b \div d
  <1> DEFINE p == a \div d
  <1> DEFINE q == b \div d
  <1>1. p \in Nat /\ a = p * d + (a % d) /\ a % d \in 0 .. (d - 1)
    OBVIOUS
  <1>2. q \in Nat /\ b = q * d + (b % d) /\ b % d \in 0 .. (d - 1)
    OBVIOUS
  <1> HIDE DEF p, q
  <1>3. ASSUME p >= q + 1 PROVE FALSE
    <2>1. PICK k \in Nat : p = q + 1 + k
      <3>1. p - (q + 1) \in Nat /\ p = q + 1 + (p - (q + 1))
        BY <1>1, <1>2, <1>3
      <3> QED
        BY <3>1
    <2>2. p * d = q * d + d + k * d
      BY <1>2, <2>1
    <2>3. k * d \in Nat /\ q * d \in Nat
      BY <1>2, <2>1
    <2> QED
      BY <1>1, <1>2, <2>2, <2>3
  <1>4. p <= q
    BY <1>1, <1>2, <1>3
  <1> QED
    BY <1>4 DEF p, q

\* The bitmap that the constructor makes.
LEMMA FirstBits ==
  ASSUME Init
  PROVE  /\ bitmap \in [size : Nat \ {0}, bits : SUBSET Fds]
         /\ bitmap.bits = InitialBits
         /\ \A g \in bitmap.bits : Bytes(g) < bitmap.size
  <1>1. PICK fd \in InitialBits :
           /\ \A gd \in InitialBits : gd <= fd
           /\ bitmap = [SetBit([size |-> 1, bits |-> {}], fd) EXCEPT !.bits = InitialBits]
    BY DEF Init
  <1>2. InitialBits \subseteq Fds
    BY FdAssumption DEF InitialBits, Fds
  <1>3. \A g \in Fds : g \in Nat /\ Bytes(g) \in Nat
    BY Numbers, FdAssumption DEF Bytes
  <1>4. \A g \in InitialBits : Bytes(g) <= Bytes(fd)
    BY <1>1, <1>2, <1>3, BytesGrow, FdAssumption DEF Bytes
  <1> DEFINE n == ((Bytes(fd) \div WordBytes) + 1) * WordBytes
  <1>5. n \in Nat \ {0} /\ Bytes(fd) < n
    BY <1>2, <1>3, Grown, FdAssumption
  <1> DEFINE b == SetBit([size |-> 1, bits |-> {}], fd)
  <1>6. /\ b \in [size : Nat \ {0}, bits : SUBSET Fds]
        /\ Bytes(fd) < b.size
    <2>1. Bytes(fd) \in Nat
      BY <1>2, <1>3
    <2>2. CASE Bytes(fd) >= 1
      <3>1. b = [size |-> n, bits |-> {} \cup {fd}]
        BY <2>2 DEF SetBit
      <3> HIDE DEF n, b
      <3> QED
        BY <1>2, <1>5, <3>1
    <2>3. CASE Bytes(fd) = 0
      <3>1. b = [[size |-> 1, bits |-> {}] EXCEPT !.bits = {} \cup {fd}]
        BY <2>3 DEF SetBit
      <3> HIDE DEF b
      <3> QED
        BY <1>2, <2>3, <3>1
    <2> QED
      BY <2>1, <2>2, <2>3
  <1> HIDE DEF n, b
  <1>7. bitmap = [b EXCEPT !.bits = InitialBits]
    BY <1>1 DEF b
  <1> QED
    BY <1>2, <1>3, <1>4, <1>6, <1>7

\* It holds when the application starts.
LEMMA InitIInv ==
  ASSUME Init
  PROVE  IInv
  <1>1. /\ owner \in [Fds -> {"none", "app", "mem", "mon"}]
        /\ \A fd \in Fds : owner[fd] = "app" <=> fd \in AppFds
    BY FdAssumption DEF Init, Fds
  <1>2. /\ th = [t \in Threads |-> Idle] /\ mtx = NoThread
        /\ stat = [init |-> FALSE, valid |-> FALSE]
    BY DEF Init
  <1>3. Idle \in Records
    BY DEF Idle, Records
  <1>4. \A g \in Fds : /\ ~Passed(Idle, g) /\ ~Made(Idle, g) /\ ~Temporary(Idle, g)
                       /\ ~Names(Idle, g) /\ ~Closes(Idle, g)
    BY Numbers DEF Passed, Made, Temporary, Names, Closes, AtOpen, Idle
  <1>5. Placed(Idle) /\ ~Locking(Idle) /\ ~Closing(Idle) /\ \A k \in 2 .. 4 : ~AtOpen(Idle, k)
    BY DEF Placed, Locking, Closing, AtOpen, Idle
  <1>6. Types
    BY <1>1, <1>2, <1>3, FirstBits DEF Types
  <1>7. Places /\ PassedOK /\ ListingOK /\ MadeOK /\ MadeApart /\ TemporaryOK /\ Reopened
        /\ Discipline
    BY <1>2, <1>4, <1>5, Numbers
       DEF Places, PassedOK, ListingOK, MadeOK, MadeApart, TemporaryOK, Reopened, Discipline
  <1>8. Locks
    BY <1>2, <1>5, CallsAssumption DEF Locks
  <1>9. StatOK
    BY <1>2, <1>5 DEF StatOK
  <1>10. Marked /\ Apps
    BY <1>1, FirstBits, FdAssumption DEF Marked, Apps, InitialBits, Fds
  <1> QED
    BY <1>6, <1>7, <1>8, <1>9, <1>10 DEF IInv

\* Every step keeps it.
LEMMA NextIInv ==
  ASSUME Faults = {}, IInv, [Next]_vars
  PROVE  IInv'
  <1>1. CASE UNCHANGED vars
    BY <1>1 DEF vars, IInv, Types, Places, Locks, PassedOK, ListingOK, MadeOK, MadeApart,
                TemporaryOK, StatOK, Marked, Apps, Reopened, Discipline
  <1>2. ASSUME NEW t \in Threads, NEW no \in Calls, NEW a \in Args(no),
               Considerate(t, CallOf(no, a[1], a[2])), secpoline_syscall_handler(t, no, a[1], a[2])
        PROVE  IInv'
    BY <1>2, Started
  <1>3. ASSUME NEW t \in Threads, Step(t) PROVE IInv'
    BY <1>3, FirstArgument, FirstLookUp, SecondLookUp, Read, Create, Duplicate, MemFileOpened,
       MemFileRead, MemFileClosed, FileOpened, FileChecked, PipeMade, FirstEnd, SecondEnd,
       Saved, CloseLocked, CloseDone, CloseUnmarked DEF Step
  <1>4. CASE MonitorOpen
    BY <1>4, MonitorTakes
  <1>5. CASE MonitorClose
    BY <1>5, MonitorGives
  <1> QED
    BY <1>1, <1>2, <1>3, <1>4, <1>5 DEF Next

\* The properties follow from it.
LEMMA IInvImplies ==
  ASSUME IInv
  PROVE  MarkedIsApp /\ AppIsMarked
  <1>1. th \in [Threads -> Records] /\ \A t \in Threads : Placed(th[t])
    BY DEF IInv, Types, Places
  <1>2. MarkedIsApp
    <2>1. \A t \in Threads, fd \in Fds :
             Closing(th[t]) /\ th[t].a1 = fd => IsUnclosed(t, fd) /\ mtx = t
      BY Where DEF Position, IInv, Locks, Locking, Closing, IsUnclosed
    <2> QED
      BY <2>1 DEF IInv, Marked, Types, MarkedIsApp
  <1>3. AppIsMarked
    <2>1. ASSUME NEW t \in Threads, NEW fd \in Fds, Made(th[t], fd) PROVE IsFresh(t, fd)
      <3>0. /\ th[t].no = "pipe" => th[t].i = 1
            /\ th[t].no \in {"socket", "open"} /\ th[t].i = 2 => th[t].pc = 0
            /\ th[t].no \in {"dup", "openat"} /\ th[t].i = 3 => th[t].pc = 0
        BY <1>1, PlacedParts
      <3>1. AtOpen(th[t], 4) => At(t, "open", 4)
        BY Where DEF Position, IInv
      <3>2. /\ th[t].no = "pipe" /\ th[t].pc = 1 => At(t, "pipe", 1)
            /\ th[t].no = "pipe" /\ th[t].pc = 2 => At(t, "pipe", 2)
        BY <3>0, Where DEF Position, IInv
      <3>3. th[t].no \in {"socket", "open"} /\ th[t].i = 2 => At(t, "save_untrusted_fd", 0)
        BY <3>0, Where DEF Position, IInv
      <3>4. th[t].no \in {"dup", "openat"} /\ th[t].i = 3 => At(t, "save_untrusted_fd", 0)
        BY <3>0, Where DEF Position, IInv
      <3> QED
        BY <2>1, <3>1, <3>2, <3>3, <3>4 DEF Made, IsFresh
    <2> QED
      BY <2>1 DEF IInv, Apps, AppIsMarked
  <1> QED
    BY <1>2, <1>3

\* The invariant holds throughout, when the environment does nothing of Faults.
LEMMA Invariance ==
  ASSUME Faults = {}
  PROVE  Spec => []IInv
  <1>1. Init => IInv
    BY InitIInv
  <1>2. IInv /\ [Next]_vars => IInv'
    BY NextIInv
  <1> QED
    BY <1>1, <1>2, PTL DEF Spec

\* No bit lies outside the bitmap that grow_bitmap has allocated, and every register
\* of a call holds a descriptor or one of the values that stand for none.
THEOREM TypeCorrect ==
  ASSUME Faults = {}
  PROVE  Spec => []TypeOK
  <1>1. ASSUME IInv PROVE TypeOK
    <2>1. \A t \in Threads : th[t] \in Records
      BY <1>1 DEF IInv, Types
    <2>2. ASSUME NEW t \in Threads
          PROVE  /\ th[t].no \in DOMAIN HandlerList \cup {"none"}
                 /\ {th[t].a1, th[t].a2, th[t].rax, th[t].tmp} \subseteq Fds \cup {Bad, AtCwd}
      BY <2>1 DEF Records
    <2> QED
      BY <1>1, <2>2 DEF IInv, Types, TypeOK
  <1> QED
    BY <1>1, Invariance, PTL

\* A descriptor whose bit is set (virtualize_files.h, set_bit) is the application's,
\* for any number of threads, descriptors and sizes of the bitmap.
THEOREM MarksAreApps ==
  ASSUME Faults = {}
  PROVE  Spec => []MarkedIsApp
  BY Invariance, IInvImplies, PTL

\* A descriptor of the application has its bit set once its call has returned: no
\* close of another thread takes away a mark that open, dup, socket or pipe has set.
THEOREM AppsAreMarked ==
  ASSUME Faults = {}
  PROVE  Spec => []AppIsMarked
  BY Invariance, IInvImplies, PTL

=============================================================================
