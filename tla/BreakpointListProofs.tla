------------------------ MODULE BreakpointListProofs ------------------------
(***************************************************************************)
(* The page lists of BreakpointSync: every thread evicts the same pages in *)
(* a session, so that between sessions all lists agree, the breakpoints    *)
(* suffice, and an executable page is guarded in every thread.             *)
(*                                                                         *)
(* setup_new_thread moves the list of a new thread from the stack to the   *)
(* heap after it has entered the active list.  A session's signal between  *)
(* the copy and the swap lets the thread place breakpoints in a list that  *)
(* it then throws away.  The results hold for the executions in which no   *)
(* signal is delivered there (Undisturbed).                                *)
(***************************************************************************)
EXTENDS BreakpointPhaseProofs

\* The move of a new thread's list is not interrupted.
Undisturbed ==
  \A t \in Threads : pc[t] \in {"n_copy", "n_swap"} => pc'[t] # "kill"

-----------------------------------------------------------------------------
(* The arithmetic of a page list *)

\* S[i] is the number of breakpoints that the oldest i pages of c need.
SumFns(c) == [0..Len(c.pages) -> Int]
Sums(c, S) ==
  /\ S[0] = 0
  /\ \A i \in 1..Len(c.pages) : S[i] = S[i - 1] + Need[c.pages[i]]
  /\ c.used = S[Len(c.pages)]

\* used_breakpoints is what the pages of the list need.
Counted(c) == \E S \in SumFns(c) : Sums(c, S)

\* The controller c without its k oldest pages.
Cut(c, S, k) ==
  [pages |-> SubSeq(c.pages, k + 1, Len(c.pages)), used |-> S[Len(c.pages)] - S[k]]

\* Page p does not fit into c before its k oldest pages are evicted.
Tight(c, S, k, p) == \A j \in 0..(k - 1) : S[Len(c.pages)] - S[j] + Need[p] > MaxHB

\* c is at the k-th round of the loop of add_breakpoints that adds p to old.
Evicting(c, old, S, p) ==
  \E k \in 0..Len(old.pages) : Tight(old, S, k, p) /\ c = Cut(old, S, k)

\* c is the result of add_breakpoints for page p on the list old.
Finished(c, old, S, p) ==
  \E k \in 0..Len(old.pages) :
    /\ Tight(old, S, k, p)
    /\ S[Len(old.pages)] - S[k] + Need[p] <= MaxHB
    /\ c = add_watched_page(Cut(old, S, k), p)

-----------------------------------------------------------------------------
(* The inductive invariant *)

Adding == {"c_add", "f_add"}
Added == {"c_publish", "c_wait1", "f_dec1", "f_hold"}

\* Between the controller's signals and the end of phase 1 the lists differ.
Placing == Stage \in {"c_add", "c_publish", "c_wait1"}

\* The list of thread u in a session that adds page p to the list old.
ListOf(u, old, S, p) ==
  /\ pc[u] \in Adding => Evicting(watched[u], old, S, p)
  /\ pc[u] \in Added => Finished(watched[u], old, S, p)
  /\ pc[u] \notin Adding \cup Added => watched[u] = old

\* In a session every list is on its way from the list before it to the same
\* list after it; at other times they are equal.
Session(old, S) ==
  LET p == pg[hbreakpoint_sync_mutex] IN
    /\ Sums(old, S)
    /\ \A u \in active_thread_list : ListOf(u, old, S, p)
    /\ Stage # "c_wait1" => global_watched = old
    /\ Stage = "c_wait1" => Finished(global_watched, old, S, p)

ListsOK ==
  /\ Placing => \E old \in Controllers : \E S \in SumFns(old) : Session(old, S)
  /\ ~Placing => /\ Counted(global_watched)
                 /\ \A u \in active_thread_list : watched[u] = global_watched

\* The page that controller and followers add is that of the controller's fault.
PageOK ==
  /\ Stage \in {"c_signal", "c_add", "c_publish", "c_wait1"} =>
       segfault_page = pg[hbreakpoint_sync_mutex]
  /\ \A t \in Threads : pc[t] \in Adding => arg[t] = pg[hbreakpoint_sync_mutex]

\* A new thread moves its list without an interruption.
NewOK ==
  \A t \in Threads :
    /\ ctx[t] \notin {"n_copy", "n_swap"}
    /\ pc[t] = "n_swap" => heap_copy[t] = watched[t]

\* Where a thread holds segfault_handler_mutex.
HandlerPC == ControllerPC \cup {"handler", "c_lock", "c_start", "c_wait2", "make_exec"}
HandlerHolds ==
  \A t \in Threads : pc[t] \in HandlerPC <=> segfault_handler_mutex = t

\* A page that was not mapped W+X is never writable, and the page manager's record
\* of its permission is right when the kernel lets it execute.
PermOK ==
  \A p \in Pages \ WX :
    /\ current_perm[p] # "RW"
    /\ p \in mapped /\ prot[p] = "X" => current_perm[p] = "X"

Listed(c, p) == \E i \in DOMAIN c.pages : c.pages[i] = p

\* The handler makes a page executable that is on the global list.
ExecOK ==
  \A t \in Threads :
    /\ pc[t] = "c_lock" /\ pg[t] \notin WX => current_perm[pg[t]] = "R"
    /\ pc[t] \in {"c_arm2", "c_release", "c_wait2"} => Listed(global_watched, pg[t])
    /\ pc[t] = "make_exec" /\ pg[t] \notin WX => Listed(global_watched, pg[t])

\* An executable page is on every list.
Guarded ==
  \A p \in mapped \ WX :
    prot[p] = "X" =>
      /\ Listed(global_watched, p)
      /\ \A t \in active_thread_list : Listed(watched[t], p)

LInv ==
  /\ ListsOK /\ PageOK /\ NewOK /\ SlotsMatch /\ SlotsSuffice
  /\ HandlerHolds /\ PermOK /\ ExecOK /\ Guarded

-----------------------------------------------------------------------------
(* Facts about page lists *)

\* What every page needs is a number of breakpoints that an empty list has.
LEMMA NeedFits ==
  ASSUME NEW p \in Pages
  PROVE  Need[p] \in Int /\ MaxHB \in Int /\ 0 + Need[p] <= MaxHB
  BY PageAssumption

\* The fields of a controller.
LEMMA Fields ==
  ASSUME NEW c \in Controllers
  PROVE  /\ c.pages \in Seq(Pages) /\ Len(c.pages) \in Nat /\ c.used \in Int
         /\ \A i \in 1..Len(c.pages) : c.pages[i] \in Pages
         /\ c = [pages |-> c.pages, used |-> c.used]
  BY DEF Controllers

\* add_breakpoints starts on the list as it is.
LEMMA EvictingStart ==
  ASSUME NEW c \in Controllers, NEW S \in SumFns(c), Sums(c, S), NEW p \in Pages
  PROVE  Evicting(c, c, S, p)
  <1>1. /\ c.pages \in Seq(Pages) /\ Len(c.pages) \in Nat
        /\ S[Len(c.pages)] \in Int /\ S[0] = 0 /\ c.used = S[Len(c.pages)]
        /\ c = [pages |-> c.pages, used |-> c.used]
    BY Fields DEF Sums, SumFns
  <1>2. SubSeq(c.pages, 0 + 1, Len(c.pages)) = c.pages
    BY <1>1
  <1>3. c.used = S[Len(c.pages)] - S[0]
    BY <1>1
  <1>4. c = Cut(c, S, 0)
    BY <1>1, <1>2, <1>3 DEF Cut
  <1>5. Tight(c, S, 0, p)
    BY DEF Tight
  <1> QED
    BY <1>1, <1>4, <1>5 DEF Evicting

\* A round of remove_last_page, taken while p does not fit, is a round of the same loop.
LEMMA EvictingNext ==
  ASSUME NEW old \in Controllers, NEW S \in SumFns(old), Sums(old, S), NEW p \in Pages,
         NEW c, Evicting(c, old, S, p), c.used + Need[p] > MaxHB, c.pages # << >>
  PROVE  Evicting(remove_last_page(c), old, S, p)
  <1> DEFINE n == Len(old.pages)
  <1>1. PICK k \in 0..n : Tight(old, S, k, p) /\ c = Cut(old, S, k)
    BY DEF Evicting
  <1>2. /\ c.pages = SubSeq(old.pages, k + 1, n) /\ c.used = S[n] - S[k]
    BY <1>1 DEF Cut
  <1>3. /\ old.pages \in Seq(Pages) /\ n \in Nat
        /\ \A i \in 0..n : S[i] \in Int
    BY Fields DEF SumFns
  <1>4. k < n
    BY <1>2, <1>3
  <1>5. /\ Head(c.pages) = old.pages[k + 1]
        /\ Tail(c.pages) = SubSeq(old.pages, (k + 1) + 1, n)
    BY <1>2, <1>3, <1>4
  <1>6. S[k + 1] = S[k] + Need[old.pages[k + 1]] /\ Need[old.pages[k + 1]] \in Int
    <2>1. k + 1 \in 1..n /\ (k + 1) - 1 = k
      BY <1>3, <1>4
    <2>2. old.pages[k + 1] \in Pages
      BY <2>1, Fields
    <2>3. S[k + 1] = S[(k + 1) - 1] + Need[old.pages[k + 1]]
      BY <2>1 DEF Sums
    <2> QED
      BY <2>1, <2>2, <2>3, NeedFits
  <1>7. c.used - Need[Head(c.pages)] = S[n] - S[k + 1]
    <2>1. S[n] \in Int /\ S[k] \in Int
      BY <1>3
    <2>2. \A x, y, z \in Int : (x - y) - z = x - (y + z)
      OBVIOUS
    <2>3. c.used - Need[Head(c.pages)] = (S[n] - S[k]) - Need[old.pages[k + 1]]
      BY <1>2, <1>5
    <2> HIDE DEF n
    <2> QED
      BY <1>6, <2>1, <2>2, <2>3
  <1>8. remove_last_page(c) = Cut(old, S, k + 1)
    BY <1>5, <1>7 DEF remove_last_page, Cut
  <1>9. Tight(old, S, k + 1, p)
    BY <1>1, <1>2, <1>3 DEF Tight
  <1> QED
    BY <1>3, <1>4, <1>8, <1>9 DEF Evicting

\* The loop ends with the page appended.
LEMMA EvictingEnd ==
  ASSUME NEW old \in Controllers, NEW S \in SumFns(old), NEW p \in Pages,
         NEW c, Evicting(c, old, S, p), c.used + Need[p] <= MaxHB
  PROVE  Finished(add_watched_page(c, p), old, S, p)
  <1>1. PICK k \in 0..Len(old.pages) : Tight(old, S, k, p) /\ c = Cut(old, S, k)
    BY DEF Evicting
  <1>2. c.used = S[Len(old.pages)] - S[k]
    BY <1>1 DEF Cut
  <1> QED
    BY <1>1, <1>2 DEF Finished

\* An empty list has every breakpoint free.
LEMMA EvictingEmpty ==
  ASSUME NEW old \in Controllers, NEW S \in SumFns(old), NEW p \in Pages,
         NEW c, Evicting(c, old, S, p), c.pages = << >>
  PROVE  c.used = 0
  <1> DEFINE n == Len(old.pages)
  <1>1. PICK k \in 0..n : c = Cut(old, S, k)
    BY DEF Evicting
  <1>2. /\ c.pages = SubSeq(old.pages, k + 1, n) /\ c.used = S[n] - S[k]
    BY <1>1 DEF Cut
  <1>3. /\ old.pages \in Seq(Pages) /\ n \in Nat
        /\ \A i \in 0..n : S[i] \in Int
    BY Fields DEF SumFns
  <1>4. k = n
    BY <1>2, <1>3
  <1> QED
    BY <1>2, <1>3, <1>4

\* Two threads that add the same page to the same list end with the same list.
LEMMA FinishedUnique ==
  ASSUME NEW old \in Controllers, NEW S \in SumFns(old), NEW p \in Pages,
         NEW c, NEW d, Finished(c, old, S, p), Finished(d, old, S, p)
  PROVE  c = d
  <1> DEFINE n == Len(old.pages)
  <1>1. PICK k \in 0..n : /\ Tight(old, S, k, p)
                          /\ S[n] - S[k] + Need[p] <= MaxHB
                          /\ c = add_watched_page(Cut(old, S, k), p)
    BY DEF Finished
  <1>2. PICK j \in 0..n : /\ Tight(old, S, j, p)
                          /\ S[n] - S[j] + Need[p] <= MaxHB
                          /\ d = add_watched_page(Cut(old, S, j), p)
    BY DEF Finished
  <1>3. /\ n \in Nat /\ \A i \in 0..n : S[i] \in Int
        /\ Need[p] \in Int /\ MaxHB \in Int
    BY Fields, NeedFits DEF SumFns
  <1>4. ~(j < k) /\ ~(k < j)
    BY <1>1, <1>2, <1>3 DEF Tight
  <1>5. j = k
    BY <1>3, <1>4
  <1> QED
    BY <1>1, <1>2, <1>5

\* The list at the end of the loop holds the page,
LEMMA FinishedListed ==
  ASSUME NEW old \in Controllers, NEW S \in SumFns(old), NEW p \in Pages,
         NEW c, Finished(c, old, S, p)
  PROVE  Listed(c, p)
  <1>1. PICK k \in 0..Len(old.pages) : c = add_watched_page(Cut(old, S, k), p)
    BY DEF Finished
  <1> DEFINE s == SubSeq(old.pages, k + 1, Len(old.pages))
  <1>2. c.pages = Append(s, p)
    BY <1>1 DEF add_watched_page, Cut
  <1>3. s \in Seq(Pages)
    BY Fields
  <1> QED
    BY <1>2, <1>3 DEF Listed

\* and its used_breakpoints is right.
LEMMA FinishedCounted ==
  ASSUME NEW old \in Controllers, NEW S \in SumFns(old), Sums(old, S), NEW p \in Pages,
         NEW c, Finished(c, old, S, p)
  PROVE  Counted(c)
  <1> DEFINE n == Len(old.pages)
  <1>1. PICK k \in 0..n : c = add_watched_page(Cut(old, S, k), p)
    BY DEF Finished
  <1> DEFINE s == SubSeq(old.pages, k + 1, n)
             u == (S[n] - S[k]) + Need[p]
  <1>2. c.pages = Append(s, p) /\ c.used = u
    BY <1>1 DEF add_watched_page, Cut
  <1>3. /\ old.pages \in Seq(Pages) /\ n \in Nat
        /\ \A i \in 0..n : S[i] \in Int
        /\ Need[p] \in Int
        /\ \A i \in 1..n : S[i] = S[i - 1] + Need[old.pages[i]]
        /\ \A i \in 1..n : Need[old.pages[i]] \in Int
    BY Fields, NeedFits DEF SumFns, Sums
  <1> HIDE DEF n
  <1>4. PICK m \in Nat : m = n - k
    BY <1>3
  <1>5. /\ s \in Seq(Pages) /\ Len(s) = m
        /\ \A i \in 1..m : s[i] = old.pages[k + i]
    BY <1>3, <1>4 DEF n
  <1> HIDE DEF s
  <1>6. /\ Len(c.pages) = m + 1
        /\ \A i \in 1..m : c.pages[i] = old.pages[k + i]
        /\ c.pages[m + 1] = p
    BY <1>2, <1>4, <1>5
  <1> DEFINE D == [i \in 0..m |-> S[k + i] - S[k]]
  <1>7. /\ D[0] = 0 /\ D[m] + Need[p] = u /\ u \in Int
        /\ \A i \in 0..m : D[i] \in Int
        /\ \A i \in 1..m : D[i] = D[i - 1] + Need[old.pages[k + i]]
    <2>1. \A i \in 0..m : k + i \in 0..n /\ S[k + i] \in Int
      BY <1>3, <1>4
    <2>2. k + 0 = k /\ k + m = n /\ 0 \in 0..m /\ m \in 0..m /\ S[k] \in Int
      BY <1>3, <1>4
    <2>3. ASSUME NEW i \in 1..m
          PROVE  D[i] = D[i - 1] + Need[old.pages[k + i]]
      <3>1. i \in 0..m /\ i - 1 \in 0..m /\ k + i \in 1..n /\ k + (i - 1) = (k + i) - 1
        BY <1>3, <1>4
      <3>2. D[i] = S[k + i] - S[k] /\ D[i - 1] = S[(k + i) - 1] - S[k]
        BY <3>1
      <3>3. S[k + i] = S[(k + i) - 1] + Need[old.pages[k + i]]
        BY <1>3, <3>1
      <3>4. Need[old.pages[k + i]] \in Int /\ S[(k + i) - 1] \in Int
        BY <1>3, <2>1, <3>1
      <3>5. \A x, y, z \in Int : (x + z) - y = (x - y) + z
        OBVIOUS
      <3>6. S[k + i] - S[k] = (S[(k + i) - 1] - S[k]) + Need[old.pages[k + i]]
        BY <2>2, <3>3, <3>4, <3>5
      <3> HIDE DEF D
      <3> QED
        BY <3>2, <3>6
    <2>4. D[0] = 0 /\ D[m] = S[n] - S[k] /\ S[n] \in Int
      BY <2>1, <2>2
    <2>5. \A i \in 0..m : D[i] \in Int
      BY <2>1, <2>2
    <2>6. D[m] + Need[p] = u /\ u \in Int
      BY <1>3, <2>2, <2>4
    <2> HIDE DEF D, u
    <2> QED
      BY <1>3, <2>2, <2>3, <2>6, <2>5, <2>4
  <1> HIDE DEF D, u
  <1> DEFINE R == [i \in 0..(m + 1) |-> IF i = m + 1 THEN u ELSE D[i]]
  <1>8. /\ \A i \in 0..m : R[i] = D[i]
        /\ R[m + 1] = u
        /\ R \in [0..(m + 1) -> Int]
    <2>1. \A i \in 0..(m + 1) : i = m + 1 \/ i \in 0..m
      BY <1>4
    <2>2. \A i \in 0..m : i # m + 1 /\ i \in 0..(m + 1)
      BY <1>4
    <2>3. m + 1 \in 0..(m + 1)
      BY <1>4
    <2> QED
      BY <1>7, <2>1, <2>2, <2>3
  <1> HIDE DEF R
  <1>9. ASSUME NEW i \in 1..(m + 1)
        PROVE  R[i] = R[i - 1] + Need[c.pages[i]]
    <2>1. CASE i \in 1..m
      <3>1. i \in 0..m /\ i - 1 \in 0..m
        BY <1>4, <2>1
      <3> QED
        BY <1>6, <1>7, <1>8, <2>1, <3>1
    <2>2. CASE i = m + 1
      <3>1. m \in 0..m /\ i - 1 = m
        BY <1>4, <2>2
      <3> QED
        BY <1>6, <1>7, <1>8, <2>2, <3>1
    <2> QED
      BY <1>4, <2>1, <2>2
  <1>10. R[0] = 0
    BY <1>4, <1>7, <1>8
  <1> QED
    BY <1>2, <1>6, <1>8, <1>9, <1>10 DEF Counted, SumFns, Sums

\* An entry of a list stays when a page is appended,
LEMMA ListedAdd ==
  ASSUME NEW c \in Controllers, NEW p \in Pages, NEW q, Listed(c, q)
  PROVE  Listed(add_watched_page(c, p), q)
  <1>1. PICK i \in DOMAIN c.pages : c.pages[i] = q
    BY DEF Listed
  <1>2. c.pages \in Seq(Pages)
    BY Fields
  <1>3. i \in DOMAIN Append(c.pages, p) /\ Append(c.pages, p)[i] = q
    BY <1>1, <1>2
  <1> QED
    BY <1>3 DEF Listed, add_watched_page

\* and when another page is evicted.
LEMMA ListedRemove ==
  ASSUME NEW c \in Controllers, c.pages # << >>, NEW q, q # Head(c.pages), Listed(c, q)
  PROVE  Listed(remove_last_page(c), q)
  <1>1. PICK i \in DOMAIN c.pages : c.pages[i] = q
    BY DEF Listed
  <1>2. c.pages \in Seq(Pages)
    BY Fields
  <1>3. i # 1
    BY <1>1, <1>2
  <1>4. i - 1 \in DOMAIN Tail(c.pages) /\ Tail(c.pages)[i - 1] = q
    <2>1. /\ i \in 1..Len(c.pages) /\ Len(Tail(c.pages)) = Len(c.pages) - 1
          /\ Tail(c.pages) \in Seq(Pages) /\ Len(c.pages) \in Nat
      BY <1>1, <1>2
    <2>2. i - 1 \in 1..Len(Tail(c.pages)) /\ (i - 1) + 1 = i
      BY <1>3, <2>1
    <2> QED
      BY <1>1, <1>2, <2>1, <2>2
  <1> QED
    BY <1>4 DEF Listed, remove_last_page

\* An empty list has no breakpoints.
LEMMA CountEmpty == CountIn(<< >>) = [p \in Pages |-> 0]
  <1>1. ASSUME NEW p \in Pages
        PROVE  Cardinality({i \in DOMAIN << >> : << >>[i] = p}) = 0
    <2>1. {i \in DOMAIN << >> : << >>[i] = p} = {}
      OBVIOUS
    <2> QED
      BY <2>1, FS_EmptySet
  <1> QED
    BY <1>1 DEF CountIn

\* The places of a page in a list are finitely many.
LEMMA PlacesFinite ==
  ASSUME NEW s \in Seq(Pages), NEW p
  PROVE  IsFiniteSet({i \in DOMAIN s : s[i] = p})
  <1>1. IsFiniteSet(1..Len(s))
    BY FS_Interval
  <1>2. {i \in DOMAIN s : s[i] = p} \subseteq 1..Len(s)
    OBVIOUS
  <1> QED
    BY <1>1, <1>2, FS_Subset

\* Appending a page adds one to its count.
LEMMA CountAppend ==
  ASSUME NEW s \in Seq(Pages), NEW p \in Pages
  PROVE  CountIn(Append(s, p)) = [CountIn(s) EXCEPT ![p] = @ + 1]
  <1> DEFINE At(l, q) == {i \in DOMAIN l : l[i] = q}
             m == Len(s) + 1
  <1>1. /\ DOMAIN Append(s, p) = 1..m /\ DOMAIN s = 1..Len(s)
        /\ Append(s, p)[m] = p
        /\ \A i \in 1..Len(s) : Append(s, p)[i] = s[i]
        /\ m \notin DOMAIN s /\ Len(s) \in Nat
    OBVIOUS
  <1>2. ASSUME NEW q \in Pages, q # p
        PROVE  At(Append(s, p), q) = At(s, q)
    BY <1>1, <1>2
  <1>3. At(Append(s, p), p) = At(s, p) \cup {m}
    BY <1>1
  <1>4. Cardinality(At(Append(s, p), p)) = Cardinality(At(s, p)) + 1
    <2>1. IsFiniteSet(At(s, p)) /\ m \notin At(s, p)
      BY <1>1, PlacesFinite
    <2> QED
      BY <1>3, <2>1, FS_AddElement
  <1> HIDE DEF At, m
  <1>5. /\ CountIn(Append(s, p)) = [q \in Pages |-> Cardinality(At(Append(s, p), q))]
        /\ CountIn(s) = [q \in Pages |-> Cardinality(At(s, q))]
    BY DEF CountIn, At
  <1> QED
    BY <1>2, <1>4, <1>5

\* Removing the oldest page takes one from its count.
LEMMA CountTail ==
  ASSUME NEW s \in Seq(Pages), s # << >>
  PROVE  CountIn(Tail(s)) = [CountIn(s) EXCEPT ![Head(s)] = @ - 1]
  <1> DEFINE At(l, q) == {i \in DOMAIN l : l[i] = q}
  <1>1. /\ DOMAIN s = 1..Len(s) /\ DOMAIN Tail(s) = 1..(Len(s) - 1)
        /\ Len(s) \in Nat /\ Len(s) >= 1 /\ Tail(s) \in Seq(Pages)
        /\ \A i \in 1..(Len(s) - 1) : Tail(s)[i] = s[i + 1]
        /\ Head(s) = s[1] /\ s[1] \in Pages
    OBVIOUS
  <1>2. ASSUME NEW q \in Pages
        PROVE  Cardinality(At(Tail(s), q)) = Cardinality(At(s, q) \ {1})
    <2> DEFINE f == [i \in At(Tail(s), q) |-> i + 1]
    <2>1. f \in Bijection(At(Tail(s), q), At(s, q) \ {1})
      <3>1. f \in [At(Tail(s), q) -> At(s, q) \ {1}]
        BY <1>1
      <3>2. \A i, j \in At(Tail(s), q) : f[i] = f[j] => i = j
        BY <1>1
      <3>3. \A j \in At(s, q) \ {1} : \E i \in At(Tail(s), q) : f[i] = j
        <4> TAKE j \in At(s, q) \ {1}
        <4>1. j - 1 \in At(Tail(s), q) /\ f[j - 1] = j
          BY <1>1
        <4> QED
          BY <4>1
      <3> HIDE DEF f, At
      <3> QED
        BY <3>1, <3>2, <3>3 DEF Bijection, Injection, Surjection, IsInjective
    <2>2. IsFiniteSet(At(Tail(s), q))
      BY <1>1, PlacesFinite
    <2> HIDE DEF f, At
    <2>3. ExistsBijection(At(Tail(s), q), At(s, q) \ {1})
      BY <2>1 DEF ExistsBijection
    <2> QED
      BY <2>2, <2>3, FS_Bijection
  <1>3. ASSUME NEW q \in Pages, q # Head(s)
        PROVE  At(s, q) \ {1} = At(s, q)
    BY <1>1, <1>3
  <1>4. Cardinality(At(s, Head(s)) \ {1}) = Cardinality(At(s, Head(s))) - 1
    <2> DEFINE A == At(s, Head(s))
    <2>1. 1 \in DOMAIN s /\ s[1] = Head(s)
      BY <1>1
    <2>2. IsFiniteSet(A) /\ 1 \in A
      BY <2>1, PlacesFinite
    <2> HIDE DEF A
    <2> QED
      BY <2>2, FS_RemoveElement DEF A
  <1> HIDE DEF At
  <1>5. /\ CountIn(Tail(s)) = [q \in Pages |-> Cardinality(At(Tail(s), q))]
        /\ CountIn(s) = [q \in Pages |-> Cardinality(At(s, q))]
    BY DEF CountIn, At
  <1> QED
    BY <1>1, <1>2, <1>3, <1>4, <1>5

\* A page on the list has a breakpoint.
LEMMA CountListed ==
  ASSUME NEW c \in Controllers, NEW p \in Pages, Listed(c, p)
  PROVE  CountIn(c.pages)[p] > 0
  <1> DEFINE A == {i \in DOMAIN c.pages : c.pages[i] = p}
  <1>1. IsFiniteSet(A)
    BY Fields, PlacesFinite
  <1>2. A # {}
    BY DEF Listed
  <1> HIDE DEF A
  <1>3. Cardinality(A) \in Nat /\ Cardinality(A) # 0
    BY <1>1, <1>2, FS_CardinalityType, FS_EmptySet
  <1>4. CountIn(c.pages)[p] = Cardinality(A)
    BY DEF CountIn, A
  <1> QED
    BY <1>3, <1>4

-----------------------------------------------------------------------------
(* The lists in a session *)

\* Where a thread takes an active part in a session.
Busy == ControllerPC \cup {"c_start", "c_wait2", "f_add", "f_dec1", "f_hold"}

\* A step that moves no list and no thread from one part of add_breakpoints to
\* another.
LEMMA KeepLists ==
  ASSUME ListsOK,
         UNCHANGED <<watched, global_watched, active_thread_list>>,
         Placing' <=> Placing,
         Placing => /\ Stage' = Stage
                    /\ pg'[hbreakpoint_sync_mutex'] = pg[hbreakpoint_sync_mutex]
                    /\ \A u \in active_thread_list :
                         /\ pc'[u] \in Adding <=> pc[u] \in Adding
                         /\ pc'[u] \in Added <=> pc[u] \in Added
  PROVE  ListsOK'
  <1>1. CASE ~Placing
    BY <1>1 DEF ListsOK, Counted, SumFns, Sums
  <1>2. CASE Placing
    <2>1. PICK old \in Controllers : \E S \in SumFns(old) : Session(old, S)
      BY <1>2 DEF ListsOK
    <2>2. PICK S \in SumFns(old) : Session(old, S)
      BY <2>1
    <2>3. ASSUME NEW u \in active_thread_list
          PROVE  ListOf(u, old, S, pg[hbreakpoint_sync_mutex])'
      BY <1>2, <2>2 DEF Session, ListOf
    <2>4. Session(old, S)'
      BY <1>2, <2>2, <2>3 DEF Session, Sums
    <2> QED
      BY <1>2, <2>4 DEF ListsOK
  <1> QED
    BY <1>1, <1>2

\* A thread is in add_breakpoints only where the session has it there.
LEMMA NoAdding ==
  ASSUME TypeOK, PhaseAccounting
  PROVE  /\ Stage \notin {"c_add", "c_wait1"} =>
              \A u \in Threads : pc[u] \notin Adding
         /\ \A u \in Threads : pc[u] \in Adding \cup {"f_load", "f_dec1"} =>
              u \in active_thread_list /\ hbreakpoint_sync_mutex \in Threads
  <1> USE DEF PhaseAccounting, Adding
  <1>1. ASSUME NEW u \in Threads, pc[u] = "c_add"
        PROVE  Stage = "c_add" /\ hbreakpoint_sync_mutex = u
    BY <1>1, ThreadAssumption DEF ControllerHolds, ControllerPC, Stage
  <1>2. ASSUME NEW u \in Threads, pc[u] \in {"f_add", "f_load", "f_dec1"}
        PROVE  Stage = "c_wait1" /\ hbreakpoint_sync_mutex \in Threads
    BY <1>2 DEF FollowersInPhase, Stage, TypeOK
  <1>3. \A u \in Threads : pc[u] \in Adding \cup {"f_load", "f_dec1"} => u \in active_thread_list
    BY DEF ActiveMatches
  <1> QED
    BY <1>1, <1>2, <1>3

\* A step of a thread that takes no active part in a session.
LEMMA PlainLists ==
  ASSUME TypeOK, PhaseAccounting, ListsOK, PageOK, NEW u \in Threads, NEW l,
         pc[u] \notin Busy, l \notin Busy, pc' = [pc EXCEPT ![u] = l],
         \A v \in Threads \ {u} : pg'[v] = pg[v],
         UNCHANGED <<watched, global_watched, active_thread_list,
                     hbreakpoint_sync_mutex, segfault_page, arg>>
  PROVE  ListsOK' /\ PageOK'
  <1>1. pc'[u] = l /\ \A v \in Threads \ {u} : pc'[v] = pc[v]
    BY DEF TypeOK
  <1>2. hbreakpoint_sync_mutex # u
    BY DEF PhaseAccounting, ControllerHolds, Busy
  <1>3. Stage' = Stage
    BY <1>1, <1>2 DEF Stage, TypeOK
  <1>4. hbreakpoint_sync_mutex \in Threads => pg'[hbreakpoint_sync_mutex] = pg[hbreakpoint_sync_mutex]
    BY <1>2
  <1>5. Stage # "none" => hbreakpoint_sync_mutex \in Threads
    BY DEF Stage, TypeOK
  <1>6. \A v \in Threads : /\ pc'[v] \in Adding <=> pc[v] \in Adding
                           /\ pc'[v] \in Added <=> pc[v] \in Added
    BY <1>1 DEF Busy, Adding, Added, ControllerPC
  <1>7. ListsOK'
    <2>1. active_thread_list \subseteq Threads
      BY DEF TypeOK
    <2> QED
      BY <1>3, <1>4, <1>5, <1>6, <2>1, KeepLists DEF Placing
  <1>8. PageOK'
    <2>1. \A v \in Threads : pc[v] \in Adding => hbreakpoint_sync_mutex \in Threads
      BY NoAdding
    <2> QED
      BY <1>3, <1>4, <1>5, <1>6, <2>1 DEF PageOK
  <1> QED
    BY <1>7, <1>8

\* The actions that are such steps.
LEMMA PlainAction ==
  ASSUME TypeOK, NEW t \in Threads,
         \/ Deliver(t) \/ KillFollow(t) \/ KillIgnore(t) \/ OnSegv(t) \/ SamePage(t)
         \/ TryLock(t) \/ TryLockFollow(t) \/ Lock(t) \/ HandlerDone(t)
         \/ HandlerWrite(t) \/ HandlerScan(t) \/ HandlerPlace(t) \/ MakeExec(t)
         \/ CtlSkip(t) \/ FolWait(t) \/ FolReturn(t) \/ FolResume(t) \/ CopyList(t)
         \/ UnregisterFollow(t) \/ Free(t) \/ LeavePM(t) \/ Exit(t) \/ EnterPM(t)
         \/ \E p \in Pages : Fault(t, p)
  PROVE  /\ pc[t] \notin Busy /\ pc'[t] \notin Busy /\ pc' = [pc EXCEPT ![t] = pc'[t]]
         /\ \A v \in Threads \ {t} : pg'[v] = pg[v]
         /\ UNCHANGED <<watched, global_watched, active_thread_list,
                        hbreakpoint_sync_mutex, segfault_page, arg>>
  <1>0. /\ pc \in [Threads -> PC] /\ pg \in [Threads -> Pages \cup {NoPage}]
        /\ ctx[t] \in Interruptible /\ cont[t] \in Continuations
    BY DEF TypeOK
  <1> USE <1>0 DEF Goto, Return, sync, locks, lists, frame, Busy, ControllerPC
  <1>1. CASE Deliver(t) \/ KillFollow(t)
    BY <1>1 DEF Deliver, KillFollow, Interruptible
  <1>2. CASE KillIgnore(t)
    BY <1>2 DEF KillIgnore, Interruptible
  <1>3. CASE OnSegv(t) \/ SamePage(t)
    BY <1>3 DEF OnSegv, SamePage
  <1>4. CASE TryLock(t) \/ TryLockFollow(t) \/ Lock(t)
    BY <1>4 DEF TryLock, TryLockFollow, Lock
  <1>5. CASE HandlerDone(t) \/ HandlerWrite(t)
    BY <1>5 DEF HandlerDone, HandlerWrite
  <1>6. CASE HandlerScan(t) \/ HandlerPlace(t)
    BY <1>6 DEF HandlerScan, HandlerPlace
  <1>7. CASE MakeExec(t) \/ CtlSkip(t)
    BY <1>7 DEF MakeExec, CtlSkip
  <1>8. CASE FolWait(t)
    BY <1>8 DEF FolWait
  <1>9. CASE FolReturn(t)
    BY <1>9 DEF FolReturn, Interruptible
  <1>10. CASE FolResume(t)
    BY <1>10 DEF FolResume, Continuations
  <1>11. CASE CopyList(t) \/ UnregisterFollow(t)
    BY <1>11 DEF CopyList, UnregisterFollow
  <1>12. CASE Free(t) \/ LeavePM(t) \/ Exit(t) \/ EnterPM(t)
    BY <1>12 DEF Free, LeavePM, Exit, EnterPM
  <1>13. CASE \E p \in Pages : Fault(t, p)
    BY <1>13 DEF Fault
  <1> QED
    BY <1>1, <1>2, <1>3, <1>4, <1>5, <1>6, <1>7, <1>8, <1>9, <1>10, <1>11, <1>12, <1>13

\* The steps of the controller outside the part of the session where the lists
\* differ.
LEMMA OuterLists ==
  ASSUME TypeOK, PhaseAccounting, ListsOK, PageOK, NEW t \in Threads,
         \/ CtlLock(t) \/ CtlStart(t) \/ CtlPage(t) \/ CtlArm2(t) \/ CtlRelease(t)
         \/ CtlWait2(t)
  PROVE  ListsOK' /\ PageOK'
  <1>1. /\ pc' = [pc EXCEPT ![t] = pc'[t]] /\ pc'[t] \notin Adding
        /\ UNCHANGED <<watched, global_watched, active_thread_list, pg, arg>>
    BY DEF CtlLock, CtlStart, CtlPage, CtlArm2, CtlRelease, CtlWait2, Goto, TypeOK,
           lists, frame, Adding
  <1>2. /\ Stage \in {"none", "c_start", "c_page", "c_arm2", "c_release", "c_wait2"}
        /\ Stage' \in {"none", "c_start", "c_page", "c_signal", "c_release", "c_wait2"}
        /\ Stage' = "c_signal" => segfault_page' = pg[t] /\ hbreakpoint_sync_mutex' = t
    <2>1. CASE CtlLock(t)
      BY <2>1, <1>1, ThreadAssumption DEF CtlLock, Stage, Goto, TypeOK
    <2>2. CASE CtlStart(t) \/ CtlPage(t) \/ CtlArm2(t) \/ CtlRelease(t)
      <3>1. /\ pc[t] \in {"c_start", "c_page", "c_arm2", "c_release"}
            /\ pc'[t] \in {"c_page", "c_signal", "c_release", "c_wait2"}
            /\ UNCHANGED hbreakpoint_sync_mutex
            /\ pc'[t] = "c_signal" => segfault_page' = pg[t]
        BY <2>2 DEF CtlStart, CtlPage, CtlArm2, CtlRelease, Goto, TypeOK, locks
      <3>2. Stage = pc[t] /\ Stage' = pc'[t] /\ hbreakpoint_sync_mutex = t
        BY <1>1, <3>1, HolderStep DEF ControllerPC
      <3> QED
        BY <3>1, <3>2
    <2>3. CASE CtlWait2(t)
      <3>1. hbreakpoint_sync_mutex = t /\ pc[t] = "c_wait2" /\ hbreakpoint_sync_mutex' = NoThread
        BY <2>3 DEF CtlWait2, PhaseAccounting, ControllerHolds
      <3> QED
        BY <3>1, ThreadAssumption DEF Stage
    <2> QED
      BY <2>1, <2>2, <2>3
  <1>3. ListsOK'
    BY <1>1, <1>2, KeepLists DEF Placing
  <1>4. \A u \in Threads : pc'[u] \notin Adding
    BY <1>1, <1>2, NoAdding DEF TypeOK
  <1> QED
    BY <1>1, <1>2, <1>3, <1>4 DEF PageOK

\* The page of a session is a page.
LEMMA SessionPage ==
  ASSUME TypeOK, FrameOK, PhaseAccounting,
         Stage \in {"c_page", "c_signal", "c_add", "c_publish", "c_wait1"}
  PROVE  hbreakpoint_sync_mutex \in Threads /\ pg[hbreakpoint_sync_mutex] \in Pages
  <1>1. hbreakpoint_sync_mutex \in Threads
    BY DEF TypeOK, Stage
  <1>2. pc[hbreakpoint_sync_mutex] \in FaultPC
    BY <1>1, ThreadAssumption DEF Stage, FaultPC, ControllerPC
  <1> QED
    BY <1>1, <1>2 DEF FrameOK, TypeOK

\* After the signals the controller is the first to add the page to its list.
LEMMA SignalLists ==
  ASSUME TypeOK, FrameOK, PhaseAccounting, ListsOK, PageOK, NEW t \in Threads, CtlSignal(t)
  PROVE  ListsOK' /\ PageOK'
  <1>1. /\ pc[t] = "c_signal" /\ pc' = [pc EXCEPT ![t] = "c_add"]
        /\ arg' = [arg EXCEPT ![t] = pg[t]]
        /\ UNCHANGED <<watched, global_watched, active_thread_list, pg,
                       hbreakpoint_sync_mutex, segfault_page>>
    BY DEF CtlSignal, Goto, lists, locks, sync
  <1>2. /\ hbreakpoint_sync_mutex = t /\ Stage = "c_signal" /\ Stage' = "c_add"
        /\ pc'[t] = "c_add" /\ \A u \in Threads \ {t} : pc'[u] = pc[u]
    BY <1>1, HolderStep DEF ControllerPC
  <1>3. pg[t] \in Pages /\ arg'[t] = pg[t] /\ \A u \in Threads \ {t} : arg'[u] = arg[u]
    BY <1>1, <1>2, SessionPage DEF TypeOK
  <1>4. \A u \in Threads \ {t} : pc'[u] \notin Adding \cup Added
    <2>1. \A u \in Threads \ {t} :
            pc[u] \notin ControllerPC \cup {"f_add", "f_dec1", "f_hold"}
      BY <1>2 DEF PhaseAccounting, ControllerHolds, FollowersInPhase
    <2> QED
      BY <1>2, <2>1 DEF Adding, Added, ControllerPC
  <1>5. PageOK'
    BY <1>1, <1>2, <1>3, <1>4 DEF PageOK, Adding
  <1>6. ListsOK'
    <2>0. PICK old \in Controllers : old = global_watched
      BY DEF TypeOK
    <2>1. active_thread_list \subseteq Threads
      BY DEF TypeOK
    <2>2. PICK S \in SumFns(old) : Sums(old, S)
      BY <1>2, <2>0 DEF ListsOK, Placing, Counted
    <2>3. \A u \in active_thread_list : watched[u] = old
      BY <1>2, <2>0 DEF ListsOK, Placing
    <2>4. Evicting(old, old, S, pg[t])
      BY <1>3, <2>2, EvictingStart
    <2>5. ASSUME NEW u \in active_thread_list
          PROVE  /\ pc'[u] \in Adding => Evicting(watched'[u], old, S, pg'[t])
                 /\ pc'[u] \notin Added
                 /\ pc'[u] \notin Adding \cup Added => watched'[u] = old
      <3>1. watched'[u] = old /\ pg'[t] = pg[t]
        BY <1>1, <2>3
      <3>2. pc'[u] \notin Added
        BY <1>2, <1>4, <2>1 DEF Added
      <3> QED
        BY <2>4, <3>1, <3>2
    <2>6. \A u \in active_thread_list' : ListOf(u, old, S, pg[hbreakpoint_sync_mutex])'
      BY <1>1, <1>2, <2>5 DEF ListOf
    <2>7. Session(old, S)'
      BY <1>1, <1>2, <2>0, <2>2, <2>6 DEF Session, Sums
    <2> QED
      BY <1>2, <2>7 DEF ListsOK, Placing, SumFns
  <1> QED
    BY <1>5, <1>6

\* In a session, one thread changes its list and its place in add_breakpoints.
LEMMA MoveList ==
  ASSUME TypeOK, NEW t \in Threads, t \in active_thread_list,
         NEW old \in Controllers, NEW S \in SumFns(old), Session(old, S),
         Stage \in {"c_add", "c_publish", "c_wait1"},
         Stage' \in {"c_add", "c_publish", "c_wait1"},
         Stage' = "c_wait1" <=> Stage = "c_wait1",
         ListOf(t, old, S, pg[hbreakpoint_sync_mutex])',
         \A u \in Threads \ {t} : pc'[u] = pc[u] /\ watched'[u] = watched[u],
         UNCHANGED <<global_watched, active_thread_list, pg, hbreakpoint_sync_mutex>>
  PROVE  ListsOK'
  <1>1. active_thread_list \subseteq Threads
    BY DEF TypeOK
  <1>2. ASSUME NEW u \in active_thread_list, u # t
        PROVE  ListOf(u, old, S, pg[hbreakpoint_sync_mutex])'
    BY <1>1, <1>2 DEF Session, ListOf
  <1>3. Session(old, S)'
    BY <1>2 DEF Session, Sums
  <1> QED
    BY <1>3 DEF ListsOK, Placing, SumFns

\* A follower that loads the page begins with the list before the session.
LEMMA LoadLists ==
  ASSUME TypeOK, FrameOK, PhaseAccounting, ListsOK, PageOK, NEW t \in Threads, FolLoad(t)
  PROVE  ListsOK' /\ PageOK'
  <1>1. /\ pc[t] = "f_load" /\ pc'[t] = "f_add"
        /\ \A u \in Threads \ {t} : pc'[u] = pc[u] /\ arg'[u] = arg[u]
        /\ arg'[t] = segfault_page
        /\ UNCHANGED <<watched, global_watched, active_thread_list, pg,
                       hbreakpoint_sync_mutex, segfault_page>>
    BY DEF FolLoad, Goto, lists, locks, sync, TypeOK
  <1>2. Stage = "c_wait1" /\ hbreakpoint_sync_mutex # t /\ t \in active_thread_list
    BY <1>1, NoAdding DEF PhaseAccounting, FollowersInPhase, ControllerHolds, ControllerPC
  <1>3. Stage' = "c_wait1"
    BY <1>1, <1>2 DEF Stage, TypeOK
  <1>4. segfault_page = pg[hbreakpoint_sync_mutex]
    BY <1>2 DEF PageOK
  <1>5. PageOK'
    BY <1>1, <1>4 DEF PageOK
  <1>6. pg[hbreakpoint_sync_mutex] \in Pages
    BY <1>2, SessionPage
  <1>7. PICK old \in Controllers : \E S \in SumFns(old) : Session(old, S)
    BY <1>2 DEF ListsOK, Placing
  <1>8. PICK S \in SumFns(old) : Session(old, S)
    BY <1>7
  <1>9. watched[t] = old /\ Sums(old, S)
    BY <1>1, <1>2, <1>8 DEF Session, ListOf, Adding, Added
  <1>10. Evicting(old, old, S, pg[hbreakpoint_sync_mutex])
    BY <1>6, <1>9, EvictingStart
  <1>11. ListOf(t, old, S, pg[hbreakpoint_sync_mutex])'
    BY <1>1, <1>9, <1>10 DEF ListOf, Adding, Added
  <1>12. ListsOK'
    BY <1>1, <1>2, <1>3, <1>8, <1>11, MoveList
  <1> QED
    BY <1>5, <1>12

\* A follower reports that its list is done, and is held until phase 2.
LEMMA HoldLists ==
  ASSUME TypeOK, PhaseAccounting, ListsOK, PageOK, NEW t \in Threads,
         FolDec1(t) \/ FolHold(t)
  PROVE  ListsOK' /\ PageOK'
  <1>1. /\ \/ pc[t] = "f_dec1" /\ pc'[t] = "f_hold"
           \/ pc[t] = "f_hold" /\ pc'[t] = "f_dec2" /\ controller_thread = NoThread
        /\ \A u \in Threads \ {t} : pc'[u] = pc[u]
        /\ UNCHANGED <<watched, global_watched, active_thread_list, pg, arg,
                       hbreakpoint_sync_mutex, segfault_page>>
    BY DEF FolDec1, FolHold, Goto, lists, locks, sync, frame, TypeOK
  <1>2. hbreakpoint_sync_mutex # t
    BY <1>1 DEF PhaseAccounting, ControllerHolds, ControllerPC
  <1>3. Stage' = Stage
    BY <1>1, <1>2 DEF Stage, TypeOK
  <1>4. pc[t] = "f_hold" => ~Placing
    <2> SUFFICES ASSUME pc[t] = "f_hold", Placing PROVE FALSE
      OBVIOUS
    <2>1. controller_thread = NoThread
      BY <1>1
    <2>2. hbreakpoint_sync_mutex \in Threads /\ pc[hbreakpoint_sync_mutex] \in ControllerPC
      BY DEF Placing, Stage, TypeOK, ControllerPC
    <2> QED
      BY <2>1, <2>2, ThreadAssumption DEF PhaseAccounting, ControllerHolds
  <1>5. ListsOK'
    <2>1. Placing => \A u \in active_thread_list :
                         /\ pc'[u] \in Adding <=> pc[u] \in Adding
                         /\ pc'[u] \in Added <=> pc[u] \in Added
      BY <1>1, <1>4 DEF Adding, Added, TypeOK
    <2> QED
      BY <1>1, <1>3, <2>1, KeepLists DEF Placing
  <1>6. \A u \in Threads : pc'[u] \in Adding <=> pc[u] \in Adding
    BY <1>1 DEF Adding
  <1> QED
    BY <1>1, <1>3, <1>5, <1>6 DEF PageOK

\* The two steps of add_breakpoints.
LEMMA AddLists ==
  ASSUME TypeOK, FrameOK, PhaseAccounting, ListsOK, PageOK, NEW t \in Threads,
         Failure(t) = "none", PlaceBreakpoints(t) \/ EvictOldest(t)
  PROVE  ListsOK' /\ PageOK'
  <1>1. /\ pc[t] \in Adding
        /\ \A u \in Threads \ {t} : /\ pc'[u] = pc[u] /\ watched'[u] = watched[u]
                                    /\ arg'[u] = arg[u]
        /\ UNCHANGED <<global_watched, active_thread_list, pg,
                       hbreakpoint_sync_mutex, segfault_page>>
    BY DEF PlaceBreakpoints, EvictOldest, Goto, locks, sync, frame, TypeOK, Adding
  <1>2. /\ PlaceBreakpoints(t) =>
             /\ pc'[t] = IF pc[t] = "c_add" THEN "c_publish" ELSE "f_dec1"
             /\ watched'[t] = add_watched_page(watched[t], arg[t])
             /\ watched[t].used + Need[arg[t]] <= MaxHB
        /\ EvictOldest(t) =>
             /\ pc'[t] = pc[t] /\ arg'[t] = arg[t]
             /\ watched'[t] = remove_last_page(watched[t])
             /\ ~(watched[t].used + Need[arg[t]] <= MaxHB)
             /\ watched[t].pages # << >>
    BY NoFailure DEF PlaceBreakpoints, EvictOldest, Goto, frame, TypeOK, Fits
  <1>3. t \in active_thread_list /\ hbreakpoint_sync_mutex \in Threads
    BY <1>1, NoAdding
  <1>4. /\ pc[t] = "c_add" => Stage = "c_add" /\ hbreakpoint_sync_mutex = t
        /\ pc[t] = "f_add" => Stage = "c_wait1" /\ hbreakpoint_sync_mutex # t
    BY <1>3, ThreadAssumption
       DEF PhaseAccounting, ControllerHolds, FollowersInPhase, ControllerPC, Stage
  <1>5. /\ Stage \in {"c_add", "c_wait1"} /\ Stage' \in {"c_add", "c_publish", "c_wait1"}
        /\ Stage' = "c_wait1" <=> Stage = "c_wait1"
    BY <1>1, <1>2, <1>3, <1>4, ThreadAssumption DEF Stage, Adding
  <1> DEFINE p == pg[hbreakpoint_sync_mutex]
  <1>6. p \in Pages /\ arg[t] = p /\ p' = p
    BY <1>1, <1>5, SessionPage DEF PageOK
  <1>7. PageOK'
    BY <1>1, <1>2, <1>5 DEF PageOK, Adding
  <1>8. PICK old \in Controllers : \E S \in SumFns(old) : Session(old, S)
    BY <1>5 DEF ListsOK, Placing
  <1>9. PICK S \in SumFns(old) : Session(old, S)
    BY <1>8
  <1>10. Evicting(watched[t], old, S, p) /\ Sums(old, S)
    BY <1>1, <1>3, <1>9 DEF Session, ListOf
  <1>11. watched[t].used \in Int /\ Need[p] \in Int /\ MaxHB \in Int
    BY <1>6, NeedFits, Fields DEF TypeOK
  <1> HIDE DEF p
  <1>12. ListOf(t, old, S, pg[hbreakpoint_sync_mutex])'
    <2>1. CASE PlaceBreakpoints(t)
      <3>1. Finished(watched'[t], old, S, p)
        BY <1>2, <1>6, <1>10, <2>1, EvictingEnd
      <3>2. pc'[t] \in Added /\ pc'[t] \notin Adding
        BY <1>2, <2>1 DEF Adding, Added
      <3> QED
        BY <1>6, <3>1, <3>2 DEF ListOf, p
    <2>2. CASE EvictOldest(t)
      <3>1. watched[t].used + Need[p] > MaxHB
        BY <1>2, <1>6, <1>11, <2>2
      <3>2. Evicting(watched'[t], old, S, p)
        BY <1>2, <1>6, <1>10, <2>2, <3>1, EvictingNext
      <3>3. pc'[t] \in Adding /\ pc'[t] \notin Added
        BY <1>1, <1>2, <2>2 DEF Adding, Added
      <3> QED
        BY <1>6, <3>2, <3>3 DEF ListOf, p
    <2> QED
      BY <2>1, <2>2
  <1>13. ListsOK'
    BY <1>1, <1>3, <1>5, <1>9, <1>12, MoveList
  <1> QED
    BY <1>7, <1>13

\* The controller's list becomes the global copy.
LEMMA PublishLists ==
  ASSUME TypeOK, FrameOK, PhaseAccounting, ListsOK, PageOK, NEW t \in Threads, CtlPublish(t)
  PROVE  ListsOK' /\ PageOK'
  <1>1. /\ pc[t] = "c_publish" /\ pc' = [pc EXCEPT ![t] = "c_wait1"]
        /\ global_watched' = watched[t]
        /\ UNCHANGED <<watched, active_thread_list, pg, arg,
                       hbreakpoint_sync_mutex, segfault_page>>
    BY DEF CtlPublish, Goto, frame, locks
  <1>2. /\ hbreakpoint_sync_mutex = t /\ Stage = "c_publish" /\ Stage' = "c_wait1"
        /\ pc'[t] = "c_wait1" /\ \A u \in Threads \ {t} : pc'[u] = pc[u]
        /\ t \in active_thread_list
    BY <1>1, HolderStep DEF ControllerPC
  <1>3. PageOK'
    BY <1>1, <1>2 DEF PageOK, Adding
  <1>4. PICK old \in Controllers : \E S \in SumFns(old) : Session(old, S)
    BY <1>2 DEF ListsOK, Placing
  <1>5. PICK S \in SumFns(old) : Session(old, S)
    BY <1>4
  <1>6. Finished(watched[t], old, S, pg[t])
    BY <1>1, <1>2, <1>5 DEF Session, ListOf, Added
  <1>7. active_thread_list \subseteq Threads
    BY DEF TypeOK
  <1>8. ASSUME NEW u \in active_thread_list
        PROVE  ListOf(u, old, S, pg[hbreakpoint_sync_mutex])'
    <2>1. /\ pc'[u] \in Adding <=> pc[u] \in Adding
          /\ pc'[u] \in Added <=> pc[u] \in Added
      BY <1>1, <1>2, <1>7 DEF Adding, Added
    <2> QED
      BY <1>1, <1>5, <2>1 DEF Session, ListOf
  <1>9. Session(old, S)'
    BY <1>1, <1>2, <1>5, <1>6, <1>8 DEF Session, Sums
  <1> QED
    BY <1>2, <1>3, <1>9 DEF ListsOK, Placing, SumFns

\* At the end of phase 1 every thread has the list that was published.
LEMMA Wait1Lists ==
  ASSUME TypeOK, FrameOK, PhaseAccounting, ListsOK, PageOK, NEW t \in Threads, CtlWait1(t)
  PROVE  ListsOK' /\ PageOK' /\ Listed(global_watched', pg[t])
  <1>1. /\ pc[t] = "c_wait1" /\ pc' = [pc EXCEPT ![t] = "c_arm2"]
        /\ waiting_thread_count = 0
        /\ UNCHANGED <<watched, global_watched, active_thread_list, pg, arg,
                       hbreakpoint_sync_mutex>>
    BY DEF CtlWait1, Goto, lists, frame, locks
  <1>2. /\ hbreakpoint_sync_mutex = t /\ Stage = "c_wait1" /\ Stage' = "c_arm2"
        /\ pc'[t] = "c_arm2" /\ \A u \in Threads \ {t} : pc'[u] = pc[u]
    BY <1>1, HolderStep DEF ControllerPC
  <1>3. \A u \in active_thread_list : pc[u] \in {"c_wait1", "f_hold"}
    <2>1. Owing = {}
      BY <1>1, OwingFinite DEF PhaseAccounting, CountMatches
    <2> QED
      BY <1>1, <1>2, <2>1 DEF Owing
  <1>4. \A u \in Threads : pc'[u] \notin Adding
    <2>1. \A u \in Threads : pc[u] \in Adding => u \in active_thread_list
      BY NoAdding
    <2> QED
      BY <1>2, <1>3, <2>1 DEF Adding
  <1>5. PICK old \in Controllers : \E S \in SumFns(old) : Session(old, S)
    BY <1>2 DEF ListsOK, Placing
  <1>6. PICK S \in SumFns(old) : Session(old, S)
    BY <1>5
  <1>7. pg[t] \in Pages
    BY <1>2, SessionPage
  <1>8. Finished(global_watched, old, S, pg[t]) /\ Sums(old, S)
    BY <1>2, <1>6 DEF Session
  <1>9. ASSUME NEW u \in active_thread_list
        PROVE  watched[u] = global_watched
    <2>1. Finished(watched[u], old, S, pg[t])
      BY <1>2, <1>3, <1>6 DEF Session, ListOf, Added
    <2> QED
      BY <1>7, <1>8, <2>1, FinishedUnique
  <1>10. Counted(global_watched) /\ Listed(global_watched, pg[t])
    BY <1>7, <1>8, FinishedCounted, FinishedListed
  <1>11. Counted(global_watched)'
    BY <1>1, <1>10 DEF Counted, Sums, SumFns
  <1> QED
    BY <1>1, <1>2, <1>4, <1>9, <1>10, <1>11 DEF ListsOK, Placing, PageOK

\* The active list changes between sessions.
LEMMA ActiveLists ==
  ASSUME TypeOK, PhaseAccounting, ListsOK, PageOK, NEW t \in Threads,
         Register(t) \/ Unregister(t)
  PROVE  ListsOK' /\ PageOK'
  <1>1. /\ \/ /\ watched'[t] = global_watched
              /\ active_thread_list' = active_thread_list \cup {t}
           \/ active_thread_list' = active_thread_list \ {t}
        /\ \A u \in Threads \ {t} : pc'[u] = pc[u] /\ watched'[u] = watched[u]
        /\ pc'[t] \notin Adding
        /\ hbreakpoint_sync_mutex = NoThread
        /\ UNCHANGED <<global_watched, pg, arg, hbreakpoint_sync_mutex>>
    BY DEF Register, Unregister, Goto, TypeOK, frame, locks, Adding
  <1>2. Stage = "none" /\ Stage' = "none"
    BY <1>1 DEF Stage
  <1>3. \A u \in Threads : pc'[u] \notin Adding
    BY <1>1, <1>2, NoAdding
  <1>4. \A u \in active_thread_list' : watched'[u] = global_watched
    BY <1>1, <1>2 DEF ListsOK, Placing, TypeOK
  <1>5. Counted(global_watched)'
    BY <1>1, <1>2 DEF ListsOK, Placing, Counted, Sums, SumFns
  <1> QED
    BY <1>1, <1>2, <1>3, <1>4, <1>5 DEF ListsOK, Placing, PageOK

\* Every step keeps the lists in order.
LEMMA ListsStep ==
  ASSUME TypeOK, FrameOK, PhaseAccounting, ListsOK, PageOK, NewOK, NEW t \in Threads,
         (Failure(t) = "none" /\ Monitor(t)) \/ Application(t)
  PROVE  ListsOK' /\ PageOK'
  <1>1. ASSUME NEW u \in Threads, Clone(t, u)
        PROVE  ListsOK' /\ PageOK'
    <2>1. /\ pc[u] \notin Busy /\ "n_register" \notin Busy
          /\ pc' = [pc EXCEPT ![u] = "n_register"]
          /\ UNCHANGED <<pg, watched, global_watched, active_thread_list,
                         hbreakpoint_sync_mutex, segfault_page, arg>>
      BY <1>1 DEF Clone, Goto, Busy, ControllerPC, frame, lists, locks, sync
    <2> QED
      BY <2>1, PlainLists
  <1>2. SwapList(t) => ListsOK' /\ PageOK'
    <2> SUFFICES ASSUME SwapList(t) PROVE ListsOK' /\ PageOK'
      OBVIOUS
    <2>1. watched' = watched
      BY DEF SwapList, NewOK, TypeOK
    <2>2. /\ pc[t] \notin Busy /\ "app" \notin Busy
          /\ pc' = [pc EXCEPT ![t] = "app"]
          /\ UNCHANGED <<pg, global_watched, active_thread_list,
                         hbreakpoint_sync_mutex, segfault_page, arg>>
      BY DEF SwapList, Goto, Busy, ControllerPC, frame, locks, sync
    <2> QED
      BY <2>1, <2>2, PlainLists
  <1>3. ASSUME NEW p \in Pages, Munmap(t, p) \/ Mmap(t, p)
        PROVE  ListsOK' /\ PageOK'
    <2>1. UNCHANGED <<pc, pg, watched, global_watched, active_thread_list,
                      hbreakpoint_sync_mutex, segfault_page, arg>>
      BY <1>3 DEF Munmap, Mmap, frame, lists, locks, sync
    <2>2. Stage' = Stage
      BY <2>1 DEF Stage
    <2> QED
      BY <2>1, <2>2, KeepLists DEF PageOK, Placing
  <1>4. ASSUME \/ Deliver(t) \/ KillFollow(t) \/ KillIgnore(t) \/ OnSegv(t) \/ SamePage(t)
               \/ TryLock(t) \/ TryLockFollow(t) \/ Lock(t) \/ HandlerDone(t)
               \/ HandlerWrite(t) \/ HandlerScan(t) \/ HandlerPlace(t) \/ MakeExec(t)
               \/ CtlSkip(t) \/ FolWait(t) \/ FolReturn(t) \/ FolResume(t) \/ CopyList(t)
               \/ UnregisterFollow(t) \/ Free(t) \/ LeavePM(t) \/ Exit(t) \/ EnterPM(t)
               \/ \E p \in Pages : Fault(t, p)
        PROVE  ListsOK' /\ PageOK'
    BY <1>4, PlainAction, PlainLists
  <1> QED
    BY <1>1, <1>2, <1>3, <1>4, OuterLists, SignalLists, LoadLists, HoldLists, AddLists,
       PublishLists, Wait1Lists, ActiveLists
    DEF Monitor, Application

=============================================================================
