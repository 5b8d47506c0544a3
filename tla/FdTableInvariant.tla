-------------------------- MODULE FdTableInvariant --------------------------
(***************************************************************************)
(* The inductive invariant of FdTable, and what every step may do to it.   *)
(***************************************************************************)
EXTENDS FdTable, TLAPS

(***************************************************************************)
(* What a thread's record says about a descriptor.                         *)
(***************************************************************************)
\* The thread is at step k of the open handler.
AtOpen(r, k) == r.pc = k /\ ((r.no = "open" /\ r.i = 1) \/ (r.no = "openat" /\ r.i = 2))

\* The thread is in close with the lock; it has closed and not yet unmarked.
Locking(r) == r.no = "close" /\ r.i = 2 /\ r.pc \in {1, 2}
Closing(r) == r.no = "close" /\ r.i = 2 /\ r.pc = 2

\* The prehandler of the call has let fd through.
Passed(r, fd) ==
    /\ fd \in Fds
    /\ \/ r.no \in {"read", "dup", "openat", "close"} /\ r.i >= 2 /\ fd = r.a1
       \/ r.no = "dup2" /\ r.i = 1 /\ r.pc = 1 /\ fd = r.a1
       \/ r.no = "dup2" /\ r.i >= 2 /\ r.a1 # Bad /\ fd \in {r.a1, r.a2}

\* The call has made fd and not yet marked it.
Made(r, fd) ==
    /\ fd \in Fds
    /\ \/ AtOpen(r, 4) /\ fd = r.rax
       \/ r.no \in {"socket", "open"} /\ r.i = 2 /\ fd = r.rax
       \/ r.no \in {"dup", "openat"} /\ r.i = 3 /\ fd = r.rax
       \/ r.no = "pipe" /\ r.pc = 1 /\ fd \in {r.rax, r.tmp}
       \/ r.no = "pipe" /\ r.pc = 2 /\ fd = r.tmp

\* fd is /proc/self/mem, open while the open handler learns its numbers.
Temporary(r, fd) == (AtOpen(r, 1) \/ AtOpen(r, 2)) /\ fd = r.tmp

Names(r, fd) == fd \in Fds /\ fd \in {r.a1, r.a2}
Closes(r, fd) == fd \in Fds /\ ((r.no = "close" /\ fd = r.a1) \/ (r.no = "dup2" /\ fd = r.a2))

\* The places a thread can be at, and what its registers hold there.
Placed(r) ==
    /\ r.no = "none" => r = Idle
    /\ r.no \in {"read", "dup", "dup2", "close"} => r.a1 \in Fds \cup {Bad}
    /\ r.no = "read" => r.i \in 1 .. 2 /\ r.pc = 0
    /\ r.no = "dup" => r.i \in 1 .. 3 /\ r.pc = 0
    /\ r.no = "dup2" => /\ r.a2 \in Fds
                        /\ (r.i = 1 /\ r.pc \in {0, 1}) \/ (r.i \in 2 .. 3 /\ r.pc = 0)
                        /\ r.i = 3 /\ r.rax \in Fds => r.rax = r.a2 /\ r.a1 # Bad
    /\ r.no # "dup2" => r.a2 = Bad
    /\ r.no \in {"socket", "open", "pipe"} => r.a1 = Bad
    /\ r.no = "socket" => r.i \in 1 .. 2 /\ r.pc = 0
    /\ r.no = "open" => (r.i = 1 /\ r.pc \in 0 .. 4) \/ (r.i = 2 /\ r.pc = 0)
    /\ r.no = "openat" => (r.i = 2 /\ r.pc \in 0 .. 4) \/ (r.i \in {1, 3} /\ r.pc = 0)
    /\ r.no = "pipe" => /\ r.i = 1 /\ r.pc \in 0 .. 2
                        /\ r.pc = 1 => r.rax \in Fds /\ r.tmp \in Fds /\ r.rax # r.tmp
                        /\ r.pc = 2 => r.tmp \in Fds
    /\ r.no = "close" => (r.i = 1 /\ r.pc = 0) \/ (r.i = 2 /\ r.pc \in 0 .. 2)
    /\ AtOpen(r, 1) \/ AtOpen(r, 2) => r.tmp \in Fds
    /\ AtOpen(r, 4) => r.rax \in Fds
    /\ Closing(r) => r.a1 \in Fds

Records ==
    [no : DOMAIN HandlerList \cup {"none"}, i : Nat, pc : Nat, a1 : Fds \cup {Bad, AtCwd},
     a2 : Fds \cup {Bad}, rax : Fds \cup {Bad}, tmp : Fds \cup {Bad}]

(***************************************************************************)
(* The inductive invariant.                                                *)
(***************************************************************************)
Types ==
    /\ owner \in [Fds -> {"none", "app", "mem", "mon"}]
    /\ bitmap \in [size : Nat \ {0}, bits : SUBSET Fds]
    /\ \A fd \in bitmap.bits : Bytes(fd) < bitmap.size
    /\ mtx \in Threads \cup {NoThread}
    /\ stat \in [init : BOOLEAN, valid : BOOLEAN]
    /\ th \in [Threads -> Records]

Places == \A t \in Threads : Placed(th[t])

\* The lock is held exactly in close.
Locks == \A t \in Threads : mtx = t <=> Locking(th[t])

\* What a prehandler let through stays marked and the application's.
PassedOK ==
    \A t \in Threads, fd \in Fds : Passed(th[t], fd) =>
        fd \in bitmap.bits /\ (owner[fd] = "app" \/ Closing(th[t]))

ListingOK ==
    \A t \in Threads : Names(th[t], Listing) => owner[Listing] = "app" \/ Closing(th[t])

\* A new descriptor is not marked, unless a close of its number is not finished.
MadeOK ==
    \A t \in Threads, fd \in Fds : Made(th[t], fd) /\ fd # Listing =>
        /\ owner[fd] = "app" \/ (owner[fd] = "mem" /\ AtOpen(th[t], 4))
        /\ fd \in bitmap.bits => \E u \in Threads : Closing(th[u]) /\ th[u].a1 = fd

MadeApart ==
    \A t, u \in Threads, fd \in Fds :
        Made(th[t], fd) /\ Made(th[u], fd) /\ t # u => fd = Listing

TemporaryOK ==
    /\ \A t \in Threads, fd \in Fds : Temporary(th[t], fd) => owner[fd] = "mon"
    /\ \A t, u \in Threads, fd \in Fds :
          Temporary(th[t], fd) /\ Temporary(th[u], fd) => t = u

StatOK ==
    /\ stat.init => stat.valid
    /\ \A t \in Threads : AtOpen(th[t], 2) \/ AtOpen(th[t], 3) \/ AtOpen(th[t], 4) => stat.init

Marked ==
    \A fd \in bitmap.bits \ {Listing} :
        owner[fd] = "app" \/ \E t \in Threads : Closing(th[t]) /\ th[t].a1 = fd

Apps ==
    \A fd \in Fds : owner[fd] = "app" =>
        fd \in bitmap.bits \/ \E t \in Threads : Made(th[t], fd)

\* A number that close has closed and that is the application's again is one that
\* another call has made and not yet marked.
Reopened ==
    \A t \in Threads : Closing(th[t]) /\ owner[th[t].a1] = "app" =>
        \E u \in Threads : Made(th[u], th[t].a1)

Discipline ==
    \A t, u \in Threads, fd \in Fds : Closes(th[t], fd) /\ Names(th[u], fd) => t = u

IInv ==
    /\ Types /\ Places /\ Locks /\ PassedOK /\ ListingOK /\ MadeOK /\ MadeApart
    /\ TemporaryOK /\ StatOK /\ Marked /\ Apps /\ Reopened /\ Discipline

(***************************************************************************)
(* The lists of handlers.                                                  *)
(***************************************************************************)
\* The lengths of the lists.
LEMMA Lengths ==
  /\ Len(HandlerList["read"]) = 2
  /\ Len(HandlerList["dup"]) = 3
  /\ Len(HandlerList["dup2"]) = 3
  /\ Len(HandlerList["socket"]) = 2
  /\ Len(HandlerList["open"]) = 2
  /\ Len(HandlerList["openat"]) = 3
  /\ Len(HandlerList["pipe"]) = 1
  /\ Len(HandlerList["close"]) = 2
  BY DEF HandlerList

\* The calls that have a list.
LEMMA Domain ==
  DOMAIN HandlerList = {"read", "dup", "dup2", "socket", "open", "openat", "pipe", "close"}
  BY DEF HandlerList

\* Where a thread is when it runs step k of a handler.
Position(t, k) ==
    /\ At(t, "fd_first_argument", k) =>
          th[t].no \in {"read", "dup", "openat", "close"} /\ th[t].i = 1 /\ th[t].pc = k
    /\ At(t, "fd_first_second_argument", k) =>
          th[t].no = "dup2" /\ th[t].i = 1 /\ th[t].pc = k
    /\ At(t, "default", k) =>
          /\ th[t].pc = k
          /\ \/ th[t].no \in {"read", "dup", "dup2"} /\ th[t].i = 2
             \/ th[t].no = "socket" /\ th[t].i = 1
    /\ At(t, "open", k) <=> AtOpen(th[t], k)
    /\ At(t, "pipe", k) <=> th[t].no = "pipe" /\ th[t].i = 1 /\ th[t].pc = k
    /\ At(t, "close", k) <=> th[t].no = "close" /\ th[t].i = 2 /\ th[t].pc = k
    /\ At(t, "save_untrusted_fd", k) <=>
          /\ th[t].pc = k
          /\ \/ th[t].no \in {"dup", "dup2", "openat"} /\ th[t].i = 3
             \/ th[t].no \in {"socket", "open"} /\ th[t].i = 2

\* The handler that runs tells the call and the place in its list.
LEMMA Where ==
  ASSUME Types, Places, NEW t \in Threads, NEW k \in Nat
  PROVE  Position(t, k)
  <1> DEFINE r == th[t]
  <1>1. r \in Records /\ Placed(r)
    BY DEF Types, Places
  <1>2. r.no \in {"read", "dup", "dup2", "socket", "open", "openat", "pipe", "close", "none"}
    BY <1>1, Domain DEF Records
  <1>3. CASE r.no = "none"
    BY <1>3 DEF Position, At, AtOpen
  <1>4. CASE r.no = "read"
    BY <1>1, <1>4 DEF Position, At, AtOpen, HandlerList, Placed
  <1>5. CASE r.no = "dup"
    BY <1>1, <1>5 DEF Position, At, AtOpen, HandlerList, Placed
  <1>6. CASE r.no = "dup2"
    BY <1>1, <1>6 DEF Position, At, AtOpen, HandlerList, Placed
  <1>7. CASE r.no = "socket"
    BY <1>1, <1>7 DEF Position, At, AtOpen, HandlerList, Placed
  <1>8. CASE r.no = "open"
    BY <1>1, <1>8 DEF Position, At, AtOpen, HandlerList, Placed
  <1>9. CASE r.no = "openat"
    BY <1>1, <1>9 DEF Position, At, AtOpen, HandlerList, Placed
  <1>10. CASE r.no = "pipe"
    BY <1>1, <1>10 DEF Position, At, AtOpen, HandlerList, Placed
  <1>11. CASE r.no = "close"
    BY <1>1, <1>11 DEF Position, At, AtOpen, HandlerList, Placed
  <1> QED
    BY <1>2, <1>3, <1>4, <1>5, <1>6, <1>7, <1>8, <1>9, <1>10, <1>11

\* The number of handlers of a call, from Lengths.
Last(no) ==
    IF no = "pipe" THEN 1 ELSE IF no \in {"read", "socket", "open", "close"} THEN 2 ELSE 3

\* The registers and the call are the same.
SameCall(s, r) == s.no = r.no /\ s.a1 = r.a1 /\ s.a2 = r.a2 /\ s.rax = r.rax /\ s.tmp = r.tmp

\* The record of one thread is replaced.
LEMMA Replaced ==
  ASSUME th \in [Threads -> Records], NEW t \in Threads, NEW s \in Records,
         th' = [th EXCEPT ![t] = s]
  PROVE  /\ th' \in [Threads -> Records]
         /\ th'[t] = s
         /\ th' = [th EXCEPT ![t] = th'[t]]
  <1>1. th'[t] = s
    OBVIOUS
  <1>2. th' \in [Threads -> Records]
    OBVIOUS
  <1>3. th' = [th EXCEPT ![t] = th'[t]]
    BY ONLY <1>1, th' = [th EXCEPT ![t] = s]
  <1> QED
    BY <1>1, <1>2, <1>3

\* A thread that goes on has the next handler of its list, or its call is over.
LEMMA Onward ==
  ASSUME th \in [Threads -> Records], NEW t \in Threads, NEW r \in Records,
         r.no \in DOMAIN HandlerList, NextHandler(t, r)
  PROVE  /\ th' \in [Threads -> Records]
         /\ th' = [th EXCEPT ![t] = th'[t]]
         /\ r.i < Last(r.no) => /\ SameCall(th'[t], r)
                                /\ th'[t].i = r.i + 1
                                /\ th'[t].pc = 0
         /\ r.i >= Last(r.no) => th'[t] = Idle
  <1> DEFINE q == [r EXCEPT !.i = r.i + 1]
  <1> DEFINE s == [q EXCEPT !.pc = 0]
  <1>0. th' = [th EXCEPT ![t] = IF r.i < Len(HandlerList[r.no]) THEN s ELSE Idle]
    BY Zenon DEF NextHandler
  <1>1. Len(HandlerList[r.no]) = Last(r.no)
    BY Zenon, Lengths, Domain DEF Last
  <1>2. r.i \in Nat /\ Last(r.no) \in Nat
    BY DEF Records, Last
  <1>3. Idle \in Records
    BY DEF Idle, Records
  <1> HIDE DEF s
  <1>4. q \in Records /\ SameCall(q, r) /\ q.i = r.i + 1
    BY <1>2 DEF Records, SameCall
  <1> HIDE DEF q
  <1>5. s \in Records /\ SameCall(s, q) /\ s.i = q.i /\ s.pc = 0
    BY <1>4 DEF Records, SameCall, s
  <1>6. CASE r.i < Last(r.no)
    <2>1. th' = [th EXCEPT ![t] = s]
      BY <1>0, <1>1, <1>6
    <2>2. th' \in [Threads -> Records] /\ th'[t] = s /\ th' = [th EXCEPT ![t] = th'[t]]
      BY <1>5, <2>1, Replaced
    <2> QED
      BY <1>2, <1>4, <1>5, <1>6, <2>2 DEF SameCall
  <1>7. CASE r.i >= Last(r.no)
    <2>1. ~(r.i < Len(HandlerList[r.no]))
      BY <1>1, <1>2, <1>7
    <2>2. th' = [th EXCEPT ![t] = Idle]
      BY <1>0, <2>1
    <2>3. th' \in [Threads -> Records] /\ th'[t] = Idle /\ th' = [th EXCEPT ![t] = th'[t]]
      BY <1>3, <2>2, Replaced
    <2> QED
      BY <1>2, <1>7, <2>3
  <1> QED
    BY <1>2, <1>6, <1>7

\* A thread that takes the next step of its handler.
LEMMA Further ==
  ASSUME th \in [Threads -> Records], NEW t \in Threads, NEW r \in Records, NextStep(t, r)
  PROVE  /\ th' \in [Threads -> Records]
         /\ th' = [th EXCEPT ![t] = th'[t]]
         /\ SameCall(th'[t], r)
         /\ th'[t].i = r.i
         /\ th'[t].pc = r.pc + 1
  <1> DEFINE s == [r EXCEPT !.pc = r.pc + 1]
  <1>1. th' = [th EXCEPT ![t] = s]
    BY DEF NextStep
  <1>2. s \in Records /\ SameCall(s, r) /\ s.i = r.i /\ s.pc = r.pc + 1
    BY DEF Records, SameCall
  <1> HIDE DEF s
  <1>3. th' \in [Threads -> Records] /\ th'[t] = s /\ th' = [th EXCEPT ![t] = th'[t]]
    BY <1>1, <1>2, Replaced
  <1> QED
    BY <1>2, <1>3

\* The numbers that stand for no descriptor.
LEMMA Numbers ==
  /\ Bad \notin Fds /\ AtCwd \notin Fds /\ Bad # AtCwd /\ Listing \in Fds
  /\ Bad < 0 /\ AtCwd < 0 /\ \A fd \in Fds : fd \in Nat
  BY FdAssumption DEF Fds, Bad, AtCwd

\* What the place of a thread says of a call that has made a descriptor.
LEMMA PlacedParts ==
  ASSUME NEW r, Placed(r)
  PROVE  /\ r.no = "pipe" => r.i = 1
         /\ r.no \in {"socket", "open"} /\ r.i = 2 => r.pc = 0
         /\ r.no \in {"dup", "openat"} /\ r.i = 3 => r.pc = 0
         /\ r.no = "dup2" /\ r.i = 3 /\ r.rax \in Fds => r.rax = r.a2 /\ r.a1 # Bad
  BY DEF Placed

\* A pipe call with one end left to mark.
LEMMA OneEndLeft ==
  ASSUME NEW r, r.no = "pipe", r.i = 1, r.pc = 2, r.a1 = Bad, r.a2 = Bad, r.tmp \in Fds
  PROVE  /\ Placed(r)
         /\ \A g \in Fds : /\ ~Passed(r, g) /\ ~Temporary(r, g)
                           /\ Made(r, g) <=> g = r.tmp
  <1>1. Placed(r)
    BY DEF Placed, Closing, AtOpen
  <1>2. \A g \in Fds : ~Passed(r, g) /\ ~Temporary(r, g)
    BY DEF Passed, Temporary, AtOpen
  <1>3. \A g \in Fds : Made(r, g) <=> g = r.tmp
    BY DEF Made, AtOpen
  <1> QED
    BY <1>1, <1>2, <1>3

\* A thread that is in no call.
LEMMA IdleRecord ==
  /\ Placed(Idle) /\ ~Closing(Idle) /\ ~Locking(Idle)
  /\ \A g \in Fds : ~Passed(Idle, g) /\ ~Made(Idle, g) /\ ~Temporary(Idle, g)
  <1>1. Placed(Idle)
    BY DEF Placed, Closing, AtOpen, Idle
  <1>2. ~Closing(Idle) /\ ~Locking(Idle)
    BY DEF Closing, Locking, Idle
  <1>3. \A g \in Fds : ~Passed(Idle, g) /\ ~Made(Idle, g) /\ ~Temporary(Idle, g)
    BY DEF Passed, Made, Temporary, AtOpen, Idle
  <1> QED
    BY <1>1, <1>2, <1>3

\* A close that has the lock.
LEMMA ClosedRecord ==
  ASSUME NEW r, r.no = "close", r.i = 2, r.pc \in {1, 2}, r.a1 \in Fds \cup {Bad}, r.a2 = Bad,
         r.pc = 2 => r.a1 \in Fds
  PROVE  Placed(r)
  <1>1. \A k \in 1 .. 4 : ~AtOpen(r, k)
    BY DEF AtOpen
  <1> QED
    BY <1>1 DEF Placed, Closing

\* dup2 makes no number that was not in use, and opens nothing temporarily.
LEMMA Dup2Record ==
  ASSUME NEW r, r.no = "dup2", NEW fd
  PROVE  ~Made(r, fd) /\ ~Temporary(r, fd)
  BY DEF Made, Temporary, AtOpen

\* A call that has done its open, socket, dup or dup2 is at the handler that marks
\* the new descriptor.
LEMMA AtSave ==
  ASSUME NEW s,
         \/ /\ s.no \in {"open", "socket"} /\ s.i = 2 /\ s.a1 = Bad
         \/ /\ s.no = "openat" /\ s.i = 3
         \/ /\ s.no = "dup" /\ s.i = 3 /\ s.a1 \in Fds \cup {Bad}
         \/ /\ s.no = "dup2" /\ s.i = 3 /\ s.a1 \in Fds \cup {Bad} /\ s.a2 \in Fds
            /\ s.rax \in Fds => s.rax = s.a2 /\ s.a1 # Bad,
         s.no # "dup2" => s.a2 = Bad,
         s.pc = 0
  PROVE  Placed(s)
  <1>1. ~Closing(s) /\ \A k \in 1 .. 4 : ~AtOpen(s, k)
    BY DEF Closing, AtOpen
  <1> QED
    BY <1>1 DEF Placed

(***************************************************************************)
(* Steps that leave the bitmap alone: descriptors are taken from the free  *)
(* ones or given back, and one thread's record changes.                    *)
(***************************************************************************)
\* What the step may do to the record.
Change(r, s) ==
    /\ Placed(s)
    /\ Closing(s) => Closing(r)
    /\ Closing(r) => Closing(s) /\ s.a1 = r.a1
    /\ \A fd \in Fds :
          /\ Passed(s, fd) => Passed(r, fd) \/ (fd \in bitmap.bits /\ owner[fd] = "app")
          /\ Made(s, fd) => Made(r, fd) \/ owner[fd] = "none"
          /\ Made(s, fd) /\ fd # Listing =>
                owner'[fd] = "app" \/ (owner'[fd] = "mem" /\ AtOpen(s, 4))
          /\ Made(r, fd) /\ owner[fd] = "app" => Made(s, fd)
          /\ Temporary(s, fd) => Temporary(r, fd) \/ owner[fd] = "none"
          /\ Temporary(s, fd) => owner'[fd] = "mon"

\* What it may do to a descriptor: keep it, take it, give it back.
Taken(t, fd) == owner[fd] = "none" /\ (owner'[fd] = "app" => t \in Threads /\ Made(th'[t], fd))
GivenBack(fd) ==
    /\ owner[fd] \in {"mon", "mem"}
    /\ owner'[fd] = "none"
    /\ \A u \in Threads : ~Temporary(th'[u], fd) /\ (Made(th'[u], fd) => fd = Listing)
Moves(t) == \A fd \in Fds : owner'[fd] = owner[fd] \/ Taken(t, fd) \/ GivenBack(fd)

\* The arguments stay the same, or the first one is overwritten, or the call ends.
Kept(r, s) ==
    \A fd \in Fds : (Names(s, fd) => Names(r, fd)) /\ (Closes(s, fd) => Closes(r, fd))

\* Such a step keeps what the arguments of the calls are about.
LEMMA ArgumentsKept ==
  ASSUME IInv, NEW t, \A u \in Threads : u = t \/ th'[u] = th[u], Moves(t),
         t \in Threads => Change(th[t], th'[t]) /\ Kept(th[t], th'[t])
  PROVE  ListingOK' /\ Discipline'
  <1>1. \A u \in Threads : Kept(th[u], th'[u]) /\ (Closing(th[u]) => Closing(th'[u]))
    BY DEF Kept, Change
  <1>2. owner[Listing] = "app" => owner'[Listing] = "app"
    BY Numbers DEF Moves, Taken, GivenBack
  <1>3. ListingOK'
    BY <1>1, <1>2, Numbers DEF IInv, ListingOK, Kept
  <1>4. Discipline'
    BY <1>1 DEF IInv, Discipline, Kept
  <1> QED
    BY <1>3, <1>4

\* Such a step keeps the invariant.
LEMMA Move ==
  ASSUME IInv, NEW t, th' \in [Threads -> Records],
         \A u \in Threads : u = t \/ th'[u] = th[u],
         t \in Threads => Change(th[t], th'[t]),
         owner' \in [Fds -> {"none", "app", "mem", "mon"}], Moves(t), bitmap' = bitmap,
         mtx' \in Threads \cup {NoThread}, Locks',
         stat' \in [init : BOOLEAN, valid : BOOLEAN], StatOK',
         ListingOK', Discipline'
  PROVE  IInv'
  <1>1. Types'
    BY DEF IInv, Types
  <1>2. Places'
    BY DEF IInv, Places, Change
  <1>3. \A fd \in Fds : owner[fd] = "app" => owner'[fd] = "app"
    BY DEF Moves, Taken, GivenBack
  <1>4. \A u \in Threads :
           /\ Closing(th'[u]) => Closing(th[u])
           /\ Closing(th[u]) => Closing(th'[u]) /\ th'[u].a1 = th[u].a1
    BY DEF Change
  <1>5. PassedOK'
    BY <1>3, <1>4 DEF IInv, PassedOK, Change
  <1>6. MadeOK'
    <2> SUFFICES ASSUME NEW u \in Threads, NEW fd \in Fds, Made(th'[u], fd), fd # Listing
                 PROVE  /\ owner'[fd] = "app" \/ (owner'[fd] = "mem" /\ AtOpen(th'[u], 4))
                        /\ fd \in bitmap.bits =>
                              \E w \in Threads : Closing(th'[w]) /\ th'[w].a1 = fd
      BY DEF MadeOK
    <2>1. owner'[fd] = "app" \/ (owner'[fd] = "mem" /\ AtOpen(th'[u], 4))
      BY DEF IInv, MadeOK, Change, Moves, Taken, GivenBack
    <2>2. Made(th[u], fd) \/ owner[fd] = "none"
      BY DEF Change
    <2>3. fd \in bitmap.bits => \E w \in Threads : Closing(th[w]) /\ th[w].a1 = fd
      BY <2>2 DEF IInv, MadeOK, Marked
    <2> QED
      BY <1>4, <2>1, <2>3
  <1>7. MadeApart'
    <2>1. \A u \in Threads, fd \in Fds : Made(th[u], fd) /\ fd # Listing => owner[fd] # "none"
      BY DEF IInv, MadeOK
    <2> QED
      BY <2>1 DEF IInv, MadeApart, Change
  <1>8. TemporaryOK'
    <2>1. \A u \in Threads, fd \in Fds : Temporary(th[u], fd) => owner[fd] = "mon"
      BY DEF IInv, TemporaryOK
    <2>2. \A u \in Threads, fd \in Fds : Temporary(th'[u], fd) =>
             Temporary(th[u], fd) \/ (u = t /\ owner[fd] = "none")
      BY DEF Change
    <2>3. \A u \in Threads, fd \in Fds : Temporary(th'[u], fd) => owner'[fd] = "mon"
      BY <2>1 DEF Change, Moves, Taken, GivenBack
    <2>4. \A u, w \in Threads, fd \in Fds :
             Temporary(th'[u], fd) /\ Temporary(th'[w], fd) => u = w
      BY <2>1, <2>2 DEF IInv, TemporaryOK
    <2> QED
      BY <2>3, <2>4 DEF TemporaryOK
  <1>9. Marked'
    BY <1>3, <1>4 DEF IInv, Types, Marked
  <1>10. \A u \in Threads, fd \in Fds : Made(th[u], fd) /\ owner[fd] = "app" => Made(th'[u], fd)
    BY DEF Change
  <1>11. Apps'
    BY <1>10 DEF IInv, Apps, Moves, Taken, GivenBack
  <1>12. Reopened'
    <2>1. \A u \in Threads : Closing(th[u]) => th[u].a1 \in Fds
      BY DEF IInv, Places, Placed
    <2> QED
      BY <1>4, <1>10, <2>1 DEF IInv, Reopened, Moves, Taken, GivenBack
  <1> QED
    BY <1>1, <1>2, <1>5, <1>6, <1>7, <1>8, <1>9, <1>11, <1>12 DEF IInv

\* A step of a thread that keeps its hold on the lock.
LEMMA Shift ==
  ASSUME IInv, NEW t \in Threads, th' \in [Threads -> Records],
         th' = [th EXCEPT ![t] = th'[t]], UNCHANGED <<bitmap, mtx>>,
         owner' \in [Fds -> {"none", "app", "mem", "mon"}], Moves(t),
         Change(th[t], th'[t]), Kept(th[t], th'[t]), Locking(th'[t]) <=> Locking(th[t]),
         stat' \in [init : BOOLEAN, valid : BOOLEAN], StatOK'
  PROVE  IInv'
  <1>1. \A u \in Threads : u = t \/ th'[u] = th[u]
    BY DEF IInv, Types
  <1>2. Locks'
    BY <1>1 DEF IInv, Locks
  <1>3. ListingOK' /\ Discipline'
    BY <1>1, ArgumentsKept
  <1> QED
    BY <1>1, <1>2, <1>3, Move DEF IInv, Types

\* The same, when it changes only its record.
LEMMA Quiet ==
  ASSUME IInv, NEW t \in Threads, th' \in [Threads -> Records],
         th' = [th EXCEPT ![t] = th'[t]], UNCHANGED <<owner, bitmap, mtx>>,
         Change(th[t], th'[t]), Kept(th[t], th'[t]), Locking(th'[t]) <=> Locking(th[t]),
         stat' \in [init : BOOLEAN, valid : BOOLEAN], StatOK'
  PROVE  IInv'
  <1>1. Moves(t)
    BY DEF Moves
  <1> QED
    BY <1>1, Shift DEF IInv, Types

\* The same, when its call is over and it has no new descriptor to mark.
LEMMA Ended ==
  ASSUME IInv, NEW t \in Threads, th' \in [Threads -> Records],
         th' = [th EXCEPT ![t] = th'[t]], th'[t] = Idle,
         UNCHANGED <<owner, bitmap, mtx, stat>>, ~Locking(th[t]),
         \A fd \in Fds : Made(th[t], fd) => owner[fd] # "app"
  PROVE  IInv'
  <1>1. Change(th[t], Idle)
    <2>1. ~Closing(th[t])
      BY DEF Closing, Locking
    <2> QED
      BY <2>1, IdleRecord DEF Change
  <1>2. Kept(th[t], Idle) /\ (Locking(Idle) <=> Locking(th[t]))
    BY Numbers DEF Kept, Names, Closes, Locking, Idle
  <1>3. StatOK'
    BY DEF IInv, StatOK, Types, AtOpen, Idle
  <1> QED
    BY <1>1, <1>2, <1>3, Quiet DEF IInv, Types

=============================================================================
