----------------------------- MODULE VirtualMaps -----------------------------
(***************************************************************************)
(* The memory system calls of Secpoline (syscall_handlers/main_monitor.cpp *)
(* for the application, meta_monitor.cpp for the monitor itself, both on   *)
(* top of virtualize_maps.cpp): they keep the page manager's list in step  *)
(* with the mappings of the kernel.                                        *)
(*                                                                         *)
(* A call of the page manager is one step, since it runs under the         *)
(* manager's lock, and so is a system call of the kernel; mremap's calls   *)
(* of the page manager up to the kernel's mremap are one step.  Between    *)
(* two steps other threads run; mmap and munmap exclude each other by      *)
(* mmap_lock, mprotect and mremap take no lock.  A call that is refused by *)
(* a check before its first effect changes nothing and is left out.        *)
(*                                                                         *)
(* The kernel may refuse munmap and mprotect also for a range that is      *)
(* mapped.  A refused mprotect may have changed the first pages of its     *)
(* range; any other call that is refused has changed nothing.              *)
(*                                                                         *)
(* A protection is one of r, rw, x (read and execute) and wx.  Pages that  *)
(* are asked for as wx are mapped rw.  Start addresses are page aligned.   *)
(***************************************************************************)
EXTENDS VirtPages, ScanGroups

CONSTANTS
  Threads,
  NoThread,
  Sides,          \* the compartments that make calls
  NPages,         \* pages 0..NPages-1 of the address space
  MaxPages,       \* the longest range of a call, in pages
  MprotectSizes,  \* the lengths that mprotect is called with, in bytes
  SingleGroup,    \* whether mprotect stays within one page group
  Prots,          \* the protections that calls ask for
  MremapFlags,    \* the flag sets that mremap is called with
  Cross,          \* whether unsafe instructions cross pages of one range
  MaxTorn,        \* a bound on the pages that are torn at a time
  FreeNodes,      \* nodes on the free list initially
  RefillNodes     \* nodes that a refill adds to the free list (127)

ASSUME MapsAssumption ==
  /\ NPages \in Nat /\ NPages >= 3
  /\ Sides \subseteq {0, 1}
  /\ MaxPages \in 1..NPages
  /\ MprotectSizes \subseteq 1..(MaxPages * PageSize)
  /\ Prots \subseteq {"r", "rw", "x", "wx"}
  /\ \A f \in MremapFlags : f \subseteq {"MAYMOVE", "FIXED", "DONTUNMAP"}
  /\ SingleGroup \in BOOLEAN /\ Cross \in BOOLEAN
  /\ MaxTorn \in Nat
  /\ FreeNodes \in Nat /\ RefillNodes \in Nat \ {0, 1}
  /\ NoThread \notin Threads

VARIABLES
  pages,      \* virt_page_manager::pages
  free,       \* the length of virt_page_manager::free_pages
  unsafe_pages, \* the entry of a page on unsafe_pages: none, one without a
                \* vector of instructions ("null"), one whose vector is
                \* empty ("empty"), or one with instructions ("unsafe")
  mmap_lock,
  kern,       \* the kernel's mappings: key and protection per page
  call,       \* the system call that a thread is in, with its local variables
  torn,       \* history: the pages that a call left with different
              \* protections in the list and in the kernel
  crash       \* "none", or how the process stopped

vars == <<pages, free, unsafe_pages, mmap_lock, kern, call, torn, crash>>

TS_MONITOR == 0
TS_APPLICATION == 1
Compartments == {TS_MONITOR, TS_APPLICATION}

is_multithreaded == \E t, u \in Threads : t # u

Idle == [pc |-> "idle"]
Page == 0..(NPages - 1)
Unmapped == [key |-> -1, prot |-> "none"]

\* Mutant: the application gets the key of the null page.
GetPkeyNullPage(cid) == IF cid = TS_MONITOR THEN 0 ELSE 3

(* get_pkey: the key of the monitor is also the kernel's default key. *)
get_pkey(cid) ==
  CASE cid = TS_MONITOR -> 0 [] cid = TS_APPLICATION -> 2 [] OTHER -> -1

PagesOf(start, size) ==
  {p \in Page : p * PageSize < start + size /\ start < (p + 1) * PageSize}

(* The protection that the kernel maps for a request. *)
Mapped(prot) == CASE prot = "x" -> "r" [] prot = "wx" -> "rw" [] OTHER -> prot

At(t, pc) == call[t].pc = pc
Goto(t, c) == call' = [call EXCEPT ![t] = c]

(* The process stops: at an assertion if ret is an error that the caller
   asserts against. *)
Stops == {"ud2", "null", "nomem", "neighbour", "reentry"}
Stop(ret) ==
  /\ crash' = IF ret \in Stops THEN ret ELSE "assert"
  /\ UNCHANGED <<pages, free, unsafe_pages, mmap_lock, kern, call, torn>>

(* The kernel refuses a call, or a scan finds an instruction in a neighbouring
   page, and that leaves list and kernel apart on the pages S. *)
Tear(S) ==
  /\ Cardinality(torn \cup S) <= MaxTorn
  /\ torn' = torn \cup S

-----------------------------------------------------------------------------
(* The kernel (external). *)

(* Mappings with pages S mapped to m. *)
KernelSet(S, m) == [p \in Page |-> IF p \in S THEN m ELSE kern[p]]

(* mprotect changes all the pages of S, or it fails at one of them, which it
   does if that page is not mapped. *)
KernelProtect(S, prot) ==
  [p \in Page |-> IF p \in S THEN [kern[p] EXCEPT !.prot = prot] ELSE kern[p]]
AllMapped(S) == \A p \in S : kern[p] # Unmapped
FirstPages(S) ==
  {F \in {{p \in S : p < q} : q \in S} : AllMapped(F)}

(* A range that mremap moves or lets grow has one protection. *)
Uniform(S) == AllMapped(S) /\ \A p, q \in S : kern[p] = kern[q]

(* Addresses where the kernel may place a new mapping of that size. *)
FreeRanges(size) ==
  {a \in {p * PageSize : p \in Page} :
     /\ a + size <= NPages * PageSize
     /\ \A p \in PagesOf(a, size) : kern[p] = Unmapped}

-----------------------------------------------------------------------------
(* The list with its free nodes. *)

Grow(old, new) == IF Len(new) > Len(old) THEN Len(new) - Len(old) ELSE 0

\* Mutant: one page more is recorded than mapped.
RefillThree(a) == add_page_locked(pages, a, 3 * PageSize, "rw", 3, FALSE, FALSE)

(* refill_free_list maps two pages for nodes and adds them to the list, with
   the flags in place of the compartment: MAP_PRIVATE|MAP_SHARED is 3. *)
Refill(a) == add_page_locked(pages, a, 2 * PageSize, "rw", 3, FALSE, FALSE)

(* The manager before an operation that takes need nodes off the free list:
   virt_page_alloc refills the list when it is empty.  The assertions of
   refill_free_list fail if the kernel has no memory left. *)
Prepared(need) ==
  LET same == [pages |-> pages, free |-> free, kern |-> kern, crash |-> "none"]
      refilled(a) ==
        [pages |-> Refill(a).pages, free |-> free + RefillNodes,
         kern |-> KernelSet(PagesOf(a, 2 * PageSize), [key |-> 0, prot |-> "rw"]),
         crash |-> IF Refill(a).ret = "ok" THEN "none" ELSE "assert"]
  IN  IF free >= need THEN {same}
      ELSE IF FreeRanges(2 * PageSize) = {} THEN {[same EXCEPT !.crash = "nomem"]}
      ELSE {refilled(a) : a \in FreeRanges(2 * PageSize)}

(* The operation on manager m returned r. *)
Store(m, r) ==
  /\ pages' = r.pages
  /\ free' = m.free + Len(m.pages) - Len(r.pages)
  /\ kern' = m.kern
  /\ crash' = m.crash

(* add_page takes a node before it removes what MAP_FIXED replaces. *)
AddNeed(start, size, cid, fixed) ==
  IF ~fixed THEN 1
  ELSE 1 + Grow(pages, remove_page_map_fixed_locked(pages, start, size, cid).pages)

-----------------------------------------------------------------------------
(* unsafe_pages. *)

(* The possible results of scanning the pages S: the pages with an unsafe
   instruction, those where one that began in the page before ends, and those
   found to begin with one when the page before was scanned, for which they
   have to be on the list.  The bytes are not modelled. *)
Listed(p) == lookup_addr_locked(pages, p * PageSize, -1) # 0
Scans(S) ==
  LET inner == {p \in S : p - 1 \in S} IN
  {[own |-> own, cross |-> cross, heads |-> heads] :
     own \in SUBSET S, cross \in IF Cross THEN SUBSET inner ELSE {{}},
     heads \in SUBSET {p \in inner : Listed(p)}}

(* The entries after a scan: a page without an entry gets one only when it is
   unsafe, or was a page that begins with an unsafe instruction which its own
   scan takes for a safe one.  The protection that the kernel is given for
   such a page of S lasts until the page's own group is protected. *)
Scanned(S, s) ==
  [p \in Page |->
     IF p \in s.own \/ p + 1 \in s.cross THEN "unsafe"
     ELSE IF p \in S /\ (unsafe_pages[p] # "none" \/ p \in s.heads) THEN "empty"
     ELSE unsafe_pages[p]]

(* add_unsafe_page without a vector for the pages S of a wx range; an existing
   entry makes update_unsafe_page dereference the null vector. *)
Writable(S) == [p \in Page |-> IF p \in S THEN "null" ELSE unsafe_pages[p]]
HasEntry(S) == \E p \in S : unsafe_pages[p] # "none"

(* update_unsafe_instruction looks into the vector of an existing entry. *)
NullEntry(S) == \E p \in S : unsafe_pages[p] = "null"

(* Chunks of a scan as byte ranges. *)
Ranges(chunks) ==
  [i \in DOMAIN chunks |-> [start |-> chunks[i].page * PageSize,
                           size  |-> chunks[i].n * PageSize,
                           prot  |-> chunks[i].prot]]

-----------------------------------------------------------------------------
(* The scan of the range of a call, one erim_memScanRegion per page.  It looks
   at the pages next to the range too, whatever compartment they belong to. *)

\* Mutant: the neighbour stays executable.
NoExecKept(prot) == prot

(* temp_prot&~PROT_EXEC. *)
NoExec(prot) == IF prot = "x" THEN "r" ELSE prot

(* Page q next to the range has an unsafe instruction across the boundary: it
   gets an entry, and the kernel's protection becomes the one recorded for
   page r without PROT_EXEC.  The system call is made as that page's
   compartment.  One that is made as the monitor comes to meta_monitor, which
   also records the protection, and asserts that page q is the monitor's. *)
Neighbour(t, q, r, pc) ==
  LET g      == pages[lookup_addr_locked(pages, r * PageSize, -1)]
      prot   == NoExec(g.prot)
      old    == pages[lookup_addr_locked(pages, q * PageSize, -1)].prot
      res(L) == update_mprotect_locked(L, q * PageSize, PageSize, prot, TS_MONITOR)
      found  == /\ unsafe_pages' = [unsafe_pages EXCEPT ![q] = "unsafe"]
                /\ Goto(t, [call[t] EXCEPT !.pc = pc])
                /\ UNCHANGED mmap_lock
  IN
  \/ NullEntry({q}) /\ Stop("null")
  \/ /\ ~NullEntry({q})
     /\ g.Cid = TS_MONITOR /\ res(pages).ret # "ok"
     /\ Stop("neighbour")
  \/ /\ ~NullEntry({q})
     /\ g.Cid = TS_MONITOR /\ res(pages).ret = "ok"
     /\ \E m \in Prepared(Grow(pages, res(pages).pages)) :
          Store([m EXCEPT !.kern[q].prot = prot], res(m.pages))
     /\ torn' = torn \ {q}
     /\ found
  \/ /\ ~NullEntry({q})
     /\ g.Cid # TS_MONITOR
     /\ kern' = [kern EXCEPT ![q].prot = prot]
     /\ IF prot = old THEN torn' = torn \ {q} ELSE Tear({q})
     /\ found
     /\ UNCHANGED <<pages, free, crash>>

(* The page before the range: it is protected like the second page of the
   range or the page behind it, if that is on the list.  The trampoline page
   ends in bytes that begin no unsafe instruction. *)
ScanBefore(t) ==
  LET first == call[t].start \div PageSize IN
  /\ At(t, "scan")
  /\ first > 1 /\ Listed(first - 1)
  /\ Neighbour(t, first - 1, IF Listed(first + 1) THEN first + 1 ELSE first - 1,
               "scan_after")

(* The page behind the range. *)
ScanAfter(t) ==
  LET next == (call[t].start + RoundUp(call[t].size)) \div PageSize IN
  /\ At(t, "scan") \/ At(t, "scan_after")
  /\ Listed(next)
  /\ Neighbour(t, next, next, "scan_own")

(* The pages of the range, which gives the groups to add or to protect. *)
ScanPages(t) ==
  LET c     == call[t]
      S     == PagesOf(c.start, c.size)
      first == c.start \div PageSize
      n     == RoundUp(c.size) \div PageSize
      groups(s) == IF c.then = "mmap_add"
                   THEN scan_exec_mapping(first, n, s.own, s.cross)
                   ELSE scan_exec_mapping_mprotect(first, n, s.own, s.cross)
  IN
  /\ c.pc \in {"scan", "scan_after", "scan_own"}
  /\ \E s \in Scans(S) :
       \/ NullEntry(s.heads) /\ Stop("null")
       \/ /\ ~NullEntry(s.heads)
          /\ unsafe_pages' = Scanned(S, s)
          /\ Goto(t, [c EXCEPT !.pc = c.then, !.todo = Ranges(groups(s))])
          /\ UNCHANGED <<pages, free, mmap_lock, kern, torn, crash>>

-----------------------------------------------------------------------------
(* mmap: secpoline_mmap under mmap_lock. *)

\* Mutant: without mmap_lock.
MmapUnlocked(t, c, start, size, prot, fixed) ==
  /\ call[t] = Idle
  /\ fixed => IF is_multithreaded
              THEN lookup_range_locked(pages, start, size, c)
              ELSE lookup_range_allow_gaps_locked(pages, start, size, c)
  /\ mmap_lock' = t
  /\ Goto(t, [pc |-> "mmap", cid |-> c, start |-> start, size |-> size,
              prot |-> prot, fixed |-> fixed, then |-> "mmap_add", todo |-> <<>>])
  /\ UNCHANGED <<pages, free, unsafe_pages, kern, torn, crash>>

Mmap(t, c, start, size, prot, fixed) ==
  /\ call[t] = Idle
  /\ mmap_lock = NoThread
  /\ fixed => IF is_multithreaded
              THEN lookup_range_locked(pages, start, size, c)
              ELSE lookup_range_allow_gaps_locked(pages, start, size, c)
  /\ mmap_lock' = t
  /\ Goto(t, [pc |-> "mmap", cid |-> c, start |-> start, size |-> size,
              prot |-> prot, fixed |-> fixed, then |-> "mmap_add", todo |-> <<>>])
  /\ UNCHANGED <<pages, free, unsafe_pages, kern, torn, crash>>

(* The kernel's mmap.  A mapping of a file is writable at first
   (map_file_baked). *)
MmapKernel(t) ==
  LET c == call[t] IN
  /\ At(t, "mmap")
  /\ \E a \in IF c.fixed THEN {c.start} ELSE FreeRanges(c.size),
        k \in {Mapped(c.prot), "rw"} :
       /\ kern' = KernelSet(PagesOf(a, c.size), [key |-> 0, prot |-> k])
       /\ \/ /\ c.prot = "x"
             /\ Goto(t, [c EXCEPT !.pc = "scan", !.start = a])
          \/ /\ c.prot # "x"
             /\ Goto(t, [c EXCEPT !.pc = "mmap_add", !.start = a,
                  !.todo = <<[start |-> a, size |-> c.size,
                              prot |-> Mapped(c.prot)]>>])
  /\ UNCHANGED <<pages, free, unsafe_pages, mmap_lock, torn, crash>>

MmapFails(t) ==
  /\ At(t, "mmap")
  /\ mmap_lock' = NoThread
  /\ Goto(t, Idle)
  /\ UNCHANGED <<pages, free, unsafe_pages, kern, torn, crash>>

MmapAdd(t) ==
  LET c == call[t]
      r == Head(c.todo)
  IN
  /\ At(t, "mmap_add")
  /\ \E m \in Prepared(AddNeed(r.start, r.size, c.cid, c.fixed)) :
       LET res == add_page_locked(m.pages, r.start, r.size, r.prot, c.cid,
                                  c.fixed, is_multithreaded)
       IN  \/ /\ res.ret = "ok"
              /\ Store(m, res)
              /\ Goto(t, [c EXCEPT !.pc = "mmap_tag"])
              /\ UNCHANGED <<unsafe_pages, mmap_lock, torn>>
           \/ res.ret # "ok" /\ Stop(res.ret)

(* pkey_mprotect of a group, then the next group or the end of the call.  The
   call for a group of a scan comes to meta_monitor, which compares it with
   the group that has just been added. *)
MmapTag(t) ==
  LET c == call[t]
      r == Head(c.todo)
      S == PagesOf(r.start, r.size)
  IN
  /\ At(t, "mmap_tag")
  /\ IF ~AllMapped(S) THEN Stop("assert")
     ELSE IF Len(c.todo) = 1 /\ c.prot = "wx" /\ HasEntry(S) THEN Stop("null")
     ELSE
       /\ kern' = KernelSet(S, [key |-> get_pkey(c.cid), prot |-> r.prot])
       /\ unsafe_pages' = IF c.prot = "wx" THEN Writable(S) ELSE unsafe_pages
       /\ torn' = torn \ S
       /\ \/ /\ Len(c.todo) > 1
             /\ Goto(t, [c EXCEPT !.pc = "mmap_add", !.todo = Tail(@)])
             /\ UNCHANGED mmap_lock
          \/ /\ Len(c.todo) = 1
             /\ Goto(t, Idle)
             /\ mmap_lock' = NoThread
       /\ UNCHANGED <<pages, free, crash>>

-----------------------------------------------------------------------------
(* munmap, under mmap_lock: the list first. *)

Munmap(t, c, start, size) ==
  LET res(L) == remove_page_locked(L, start, size, c) IN
  /\ call[t] = Idle
  /\ mmap_lock = NoThread
  /\ \/ /\ res(pages).ret = "ok"
        /\ \E m \in Prepared(Grow(pages, res(pages).pages)) :
             Store(m, res(m.pages))
        /\ mmap_lock' = t
        /\ Goto(t, [pc |-> "munmap", cid |-> c, start |-> start, size |-> size])
        /\ UNCHANGED <<unsafe_pages, torn>>
     \/ /\ res(pages).ret \notin {"ok", "fail"}
        /\ Stop(res(pages).ret)

(* The kernel's munmap.  Nobody looks at its result: if it is refused, the
   pages stay mapped and are no longer on the list. *)
MunmapKernel(t) ==
  LET S == PagesOf(call[t].start, call[t].size) IN
  /\ At(t, "munmap")
  /\ \/ kern' = KernelSet(S, Unmapped) /\ torn' = torn \ S
     \/ Tear(S) /\ UNCHANGED kern
  /\ mmap_lock' = NoThread
  /\ Goto(t, Idle)
  /\ UNCHANGED <<pages, free, unsafe_pages, crash>>

-----------------------------------------------------------------------------
(* mprotect, without a lock.  The monitor's own calls are not checked, but
   are made for its own pages. *)

Mprotect(t, c, start, size, prot) ==
  /\ call[t] = Idle
  /\ lookup_range_locked(pages, start, size, c)
  /\ SingleGroup => LET i == lookup_addr_locked(pages, start, c)
                    IN  start + size <= End(pages[i])
  /\ Goto(t, [pc |-> "mprotect", cid |-> c, start |-> start, size |-> size,
              prot |-> prot, then |-> "scan_protect", more |-> <<>>,
              todo |-> <<>>])
  /\ UNCHANGED <<pages, free, unsafe_pages, mmap_lock, kern, torn, crash>>

(* A call that is to scan the ranges rs, each a start and a size, one after the
   other, and to protect what the scan allows. *)
Scanning(cid, rs) ==
  [pc |-> "scan", cid |-> cid, start |-> Head(rs).start, size |-> Head(rs).size,
   prot |-> "x", then |-> "scan_protect", more |-> Tail(rs), todo |-> <<>>]

(* The first mprotect of the kernel succeeds: a range that is to be
   executable is read only while it is scanned. *)
MprotectKernel(t) ==
  LET c == call[t]
      S == PagesOf(c.start, c.size)
  IN
  /\ At(t, "mprotect")
  /\ AllMapped(S)
  /\ kern' = KernelProtect(S, Mapped(c.prot))
  /\ torn' = torn \ S
  /\ \/ c.prot = "x" /\ Goto(t, [c EXCEPT !.pc = "scan"])
     \/ c.prot # "x" /\ Goto(t, [c EXCEPT !.pc = "mprotect_update",
                          !.todo = <<[start |-> c.start, size |-> c.size,
                                      prot |-> Mapped(c.prot)]>>])
  /\ UNCHANGED <<pages, free, unsafe_pages, mmap_lock, crash>>

(* It is refused: that ends a call for an executable range, but other calls
   do not look at the result and record the protection. *)
MprotectRefused(t) ==
  LET c == call[t]
      S == PagesOf(c.start, c.size)
  IN
  /\ At(t, "mprotect")
  /\ \E F \in FirstPages(S) :
       /\ kern' = KernelProtect(F, Mapped(c.prot))
       /\ \/ /\ c.prot \in {"x", "wx"}
             /\ Tear(F)
             /\ Goto(t, Idle)
          \/ /\ c.prot \notin {"x", "wx"}
             /\ Tear(S \ F)
             /\ Goto(t, [c EXCEPT !.pc = "mprotect_update",
                  !.todo = <<[start |-> c.start, size |-> c.size,
                              prot |-> c.prot]>>])
  /\ UNCHANGED <<pages, free, unsafe_pages, mmap_lock, crash>>

(* scan_exec_mapping_mprotect: the kernel's mprotect of one group.  The
   monitor makes it with its selector at BLOCK: for an executable group
   meta_monitor starts the same call again, until the stack is used up. *)
ScanProtect(t) ==
  LET c == call[t]
      S == PagesOf(Head(c.todo).start, Head(c.todo).size)
      again == c.cid = TS_MONITOR /\ Head(c.todo).prot = "x"
  IN
  /\ At(t, "scan_protect")
  /\ \/ again /\ Stop("reentry")
     \/ /\ ~again /\ AllMapped(S)
        /\ kern' = KernelProtect(S, Head(c.todo).prot)
        /\ torn' = torn \ S
        /\ Goto(t, [c EXCEPT !.pc = "mprotect_update"])
        /\ UNCHANGED <<pages, free, unsafe_pages, mmap_lock, crash>>
     \/ ~again /\ ~AllMapped(S) /\ Stop("assert")

(* update_mprotect of one group, then the next group, the next range to scan or
   the end of the call.  The monitor ignores an error for a wx range. *)
MprotectUpdate(t) ==
  LET c == call[t]
      r == Head(c.todo)
      S == PagesOf(r.start, r.size)
      res(L) == update_mprotect_locked(L, r.start, r.size, r.prot, c.cid)
      ignored == res(pages).ret = "fail" /\ c.cid = TS_MONITOR /\ c.prot = "wx"
  IN
  /\ At(t, "mprotect_update")
  /\ IF res(pages).ret # "ok" /\ ~ignored THEN Stop(res(pages).ret)
     ELSE IF c.prot = "wx" /\ HasEntry(S) THEN Stop("null")
     ELSE
       /\ \E m \in Prepared(Grow(pages, res(pages).pages)) :
            Store(m, res(m.pages))
       /\ unsafe_pages' = IF c.prot = "wx" THEN Writable(S) ELSE unsafe_pages
       /\ \/ /\ Len(c.todo) > 1
             /\ Goto(t, [c EXCEPT !.pc = "scan_protect", !.todo = Tail(@)])
          \/ /\ Len(c.todo) = 1 /\ c.more # <<>>
             /\ Goto(t, Scanning(c.cid, c.more))
          \/ Len(c.todo) = 1 /\ c.more = <<>> /\ Goto(t, Idle)
       /\ UNCHANGED <<mmap_lock, torn>>

-----------------------------------------------------------------------------
(* mremap, without a lock: sizes are multiples of the page size. *)

(* Calls that handle_mremap does not refuse. *)
Remappable(start, old, new, flags, new_start, c) ==
  IF "FIXED" \in flags
  THEN "MAYMOVE" \in flags /\ ~lookup_range_locked(pages, new_start, new, c)
  ELSE \/ "MAYMOVE" \in flags
       \/ flags = {} /\ update_size_locked(pages, start, old, new, c).ret = "ok"

(* An executable mapping is made read only before the flags are looked at.
   The monitor's own call is made with its selector at BLOCK, so the kernel's
   mremap in it comes to meta_monitor as a second call, which finds the list
   changed already: it fails an assertion or calls itself for ever. *)
Mremap(t, c, start, old, new, flags, new_start) ==
  LET i == lookup_addr_locked(pages, start, c) IN
  /\ call[t] = Idle
  /\ i # 0
  /\ start + old <= End(pages[i])
  /\ "MAYMOVE" \in flags \/ flags = {} \/ pages[i].prot = "x"
  /\ \/ /\ c = TS_MONITOR
        /\ Remappable(start, old, new, flags, new_start, c)
        /\ Stop("reentry")
     \/ /\ c # TS_MONITOR
        /\ Goto(t, [pc |-> IF pages[i].prot = "x" THEN "mremap_exec" ELSE "mremap",
                    cid |-> c, start |-> start, size |-> old, new |-> new,
                    flags |-> flags, new_start |-> new_start,
                    prot |-> pages[i].prot, group_prot |-> pages[i].prot])
        /\ UNCHANGED <<pages, free, unsafe_pages, mmap_lock, kern, torn, crash>>

(* handle_mremap_exec: the old range is read only from here on, unless the
   kernel refuses. *)
MremapExec(t) ==
  LET S == PagesOf(call[t].start, call[t].size) IN
  /\ At(t, "mremap_exec")
  /\ \/ /\ AllMapped(S)
        /\ kern' = KernelProtect(S, "r")
        /\ torn' = torn \ S
        /\ Goto(t, [call[t] EXCEPT !.pc = "mremap"])
     \/ \E F \in FirstPages(S) : /\ kern' = KernelProtect(F, "r")
                                 /\ Tear(F)
                                 /\ Goto(t, Idle)
  /\ UNCHANGED <<pages, free, unsafe_pages, mmap_lock, crash>>

(* handle_mremap returns an error.  handle_mremap_exec takes the error for an
   address: its scan loop may see a wrapped end address and do nothing, or
   read the address and fault. *)
MremapError(t) ==
  LET c == call[t] IN
  \/ /\ Goto(t, Idle)
     /\ torn' = torn \cup {p \in PagesOf(c.start, c.size) : c.prot = "x"}
     /\ UNCHANGED <<pages, free, unsafe_pages, mmap_lock, kern, crash>>
  \/ c.prot = "x" /\ Stop("null")

(* The other flags need MREMAP_MAYMOVE. *)
MremapRefused(t) ==
  /\ At(t, "mremap")
  /\ call[t].flags # {} /\ "MAYMOVE" \notin call[t].flags
  /\ MremapError(t)

(* Take the old range off the list, unless MREMAP_DONTUNMAP keeps it. *)
MremapMove(t) ==
  LET c == call[t]
      res(L) == remove_page_locked(L, c.start, c.size, c.cid)
      kept == "DONTUNMAP" \in c.flags
      next == [c EXCEPT !.pc = "mremap_kernel", !.group_prot =
                 pages[lookup_addr_locked(pages, c.start, c.cid)].prot]
  IN
  \/ /\ ~kept /\ res(pages).ret = "ok"
     /\ \E m \in Prepared(Grow(pages, res(pages).pages)) :
          Store(m, res(m.pages))
     /\ Goto(t, next)
     /\ UNCHANGED <<unsafe_pages, mmap_lock, torn>>
  \/ ~kept /\ res(pages).ret = "fail" /\ MremapError(t)
  \/ ~kept /\ res(pages).ret \notin {"ok", "fail"} /\ Stop(res(pages).ret)
  \/ /\ kept /\ lookup_range_locked(pages, c.start, c.size, c.cid)
     /\ Goto(t, next)
     /\ UNCHANGED <<pages, free, unsafe_pages, mmap_lock, kern, torn, crash>>
  \/ /\ kept /\ ~lookup_range_locked(pages, c.start, c.size, c.cid)
     /\ MremapError(t)

(* Without MREMAP_FIXED: change the size in place if possible. *)
MremapSize(t) ==
  LET c == call[t]
      res(L) == update_size_locked(L, c.start, c.size, c.new, c.cid)
  IN
  /\ At(t, "mremap")
  /\ "FIXED" \notin c.flags /\ (c.flags = {} \/ "MAYMOVE" \in c.flags)
  /\ \/ /\ res(pages).ret = "ok"
        /\ \E m \in Prepared(Grow(pages, res(pages).pages)) :
             Store(m, res(m.pages))
        /\ Goto(t, [c EXCEPT !.pc = "mremap_resize"])
        /\ UNCHANGED <<unsafe_pages, mmap_lock, torn>>
     \/ res(pages).ret = "move" /\ "MAYMOVE" \in c.flags /\ MremapMove(t)
     \/ /\ res(pages).ret = "fail" \/ (res(pages).ret = "move" /\ c.flags = {})
        /\ MremapError(t)

(* With MREMAP_FIXED: refused if the target lies in the caller's pages. *)
MremapFixed(t) ==
  LET c == call[t] IN
  /\ At(t, "mremap")
  /\ {"MAYMOVE", "FIXED"} \subseteq c.flags
  /\ IF \/ lookup_addr_locked(pages, c.start, c.cid) = 0
        \/ lookup_range_locked(pages, c.new_start, c.new, c.cid)
     THEN MremapError(t)
     ELSE MremapMove(t)

(* The end of handle_mremap: an executable mapping is scanned again. *)
MremapDone(t, c, rs) == Goto(t, IF c.prot = "x" THEN Scanning(c.cid, rs) ELSE Idle)

(* The kernel's mremap after the group has changed its size: it has to return
   the old address. *)
MremapResize(t) ==
  LET c == call[t]
      S == PagesOf(c.start, c.size)
      N == PagesOf(c.start, c.new)
      grows == N \ S # {}
  IN
  /\ At(t, "mremap_resize")
  /\ IF \/ "DONTUNMAP" \in c.flags
        \/ ~AllMapped(S)
        \/ grows /\ (~Uniform(S) \/ \E p \in N \ S : kern[p] # Unmapped)
     THEN Stop("assert")
     ELSE /\ kern' = [p \in Page |-> IF p \in N \ S THEN kern[c.start \div PageSize]
                                     ELSE IF p \in S \ N THEN Unmapped ELSE kern[p]]
          /\ torn' = (torn \ (S \ N)) \cup {p \in N \ S : S \cap torn # {}}
          /\ MremapDone(t, c, <<[start |-> c.start, size |-> c.new]>>)
          /\ UNCHANGED <<pages, free, unsafe_pages, mmap_lock, crash>>

(* The kernel's mremap to another address.  An error value fails the
   alignment assertion of add_page_locked. *)
MremapKernel(t) ==
  LET c == call[t]
      S == PagesOf(c.start, c.size)
      left == IF "DONTUNMAP" \in c.flags THEN {} ELSE S
      targets == IF "FIXED" \in c.flags
                 THEN {a \in {c.new_start} : PagesOf(a, c.new) \cap S = {}}
                 ELSE FreeRanges(c.new)
      refused == \/ ~Uniform(S)
                 \/ "FIXED" \in c.flags /\ targets = {}
                 \/ "DONTUNMAP" \in c.flags /\ c.size # c.new
  IN
  /\ At(t, "mremap_kernel")
  /\ \/ refused /\ Stop("assert")
     \/ ~refused /\ targets = {} /\ Stop("nomem")
     \/ /\ ~refused
        /\ \E a \in targets :
             LET T == PagesOf(a, c.new) IN
             /\ kern' = [p \in Page |->
                  IF p \in T THEN kern[c.start \div PageSize]
                  ELSE IF p \in left THEN Unmapped
                  ELSE kern[p]]
             /\ torn' = (torn \ (left \cup T)) \cup {p \in T : S \cap torn # {}}
             /\ Goto(t, [c EXCEPT !.pc = "mremap_add", !.new_start = a])
        /\ UNCHANGED <<pages, free, unsafe_pages, mmap_lock, crash>>

(* The flag bits, which the call for MREMAP_FIXED passes as compartment. *)
FlagBits(flags) ==
  (IF "MAYMOVE" \in flags THEN 1 ELSE 0) + (IF "FIXED" \in flags THEN 2 ELSE 0)
    + (IF "DONTUNMAP" \in flags THEN 4 ELSE 0)

MremapAdd(t) ==
  LET c   == call[t]
      cid == IF "FIXED" \in c.flags THEN FlagBits(c.flags) ELSE c.cid
      moved == [start |-> c.new_start, size |-> c.new]
  IN
  /\ At(t, "mremap_add")
  /\ \E m \in Prepared(1) :
       LET res == add_page_locked(m.pages, c.new_start, c.new, c.group_prot,
                                  cid, FALSE, is_multithreaded)
       IN  \/ /\ res.ret = "ok"
              /\ Store(m, res)
              /\ MremapDone(t, c,
                   IF "DONTUNMAP" \in c.flags
                   THEN <<[start |-> c.start, size |-> c.size], moved>>
                   ELSE <<moved>>)
              /\ UNCHANGED <<unsafe_pages, mmap_lock, torn>>
           \/ res.ret # "ok" /\ Stop(res.ret)

-----------------------------------------------------------------------------

(* The first group is the trampoline page at address 0, the last one belongs
   to the monitor. *)
Init ==
  /\ pages = <<Group(0, PageSize, "x", TS_MONITOR),
               Group((NPages - 1) * PageSize, PageSize, "rw", TS_MONITOR)>>
  /\ free = FreeNodes
  /\ unsafe_pages = [p \in Page |-> "none"]
  /\ mmap_lock = NoThread
  /\ kern = [p \in Page |-> IF p = 0 THEN [key |-> 0, prot |-> "x"]
                            ELSE IF p = NPages - 1 THEN [key |-> 0, prot |-> "rw"]
                            ELSE Unmapped]
  /\ call = [t \in Threads |-> Idle]
  /\ torn = {}
  /\ crash = "none"

Starts == {p * PageSize : p \in Page}
Sizes == {n * PageSize : n \in 1..MaxPages}
Fits(start, size) == start + size <= NPages * PageSize

(* The lowest mapping is the trampoline, the highest one holds the stack: calls
   leave both alone. *)
Between(start, size) == start > 0 /\ Fits(start + PageSize, size)

(* A thread enters a memory system call, for the application or the monitor. *)
Call(t) ==
  \E c \in Sides, start \in Starts :
    \/ \E size \in Sizes, prot \in Prots, fixed \in BOOLEAN :
         /\ fixed => Between(start, size)
         /\ ~fixed => start = 0
         /\ Mmap(t, c, start, size, prot, fixed)
    \/ \E size \in 1..(MaxPages * PageSize) :
         Between(start, size) /\ Munmap(t, c, start, size)
    \/ \E size \in MprotectSizes, prot \in Prots :
         Between(start, size) /\ Mprotect(t, c, start, size, prot)
    \/ \E old, new \in Sizes, flags \in MremapFlags :
         /\ Between(start, old)
         /\ \E new_start \in IF {"MAYMOVE", "FIXED"} \subseteq flags THEN Starts ELSE {0} :
              /\ Fits(new_start, new)
              /\ Mremap(t, c, start, old, new, flags, new_start)

(* A thread goes on in its call. *)
Step(t) ==
  \/ MmapKernel(t) \/ MmapFails(t) \/ MmapAdd(t) \/ MmapTag(t)
  \/ MunmapKernel(t)
  \/ MprotectKernel(t) \/ MprotectRefused(t) \/ ScanProtect(t)
  \/ MprotectUpdate(t)
  \/ ScanBefore(t) \/ ScanAfter(t) \/ ScanPages(t)
  \/ MremapExec(t) \/ MremapRefused(t) \/ MremapSize(t) \/ MremapFixed(t)
  \/ MremapResize(t) \/ MremapKernel(t) \/ MremapAdd(t)

(* The process has stopped. *)
Halted == crash # "none" /\ UNCHANGED vars

Next ==
  \/ crash = "none" /\ \E t \in Threads : Call(t) \/ Step(t)
  \/ Halted

Spec == Init /\ [][Next]_vars

-----------------------------------------------------------------------------
(* Properties. *)

(* Every variable has its type; a call is for one of the two compartments, and
   what it has still to add or to protect lies in the address space. *)
TypeOK ==
  /\ pages \in Seq([start : Nat, size : Nat, Cid : Nat,
                    prot : {"r", "rw", "x"}])
  /\ free \in Int
  /\ unsafe_pages \in [Page -> {"none", "null", "empty", "unsafe"}]
  /\ mmap_lock \in Threads \cup {NoThread}
  /\ kern \in [Page -> [key : {0, 2}, prot : {"r", "rw", "x"}] \cup {Unmapped}]
  /\ \A t \in Threads : call[t] # Idle =>
       /\ call[t].cid \in Compartments
       /\ "todo" \in DOMAIN call[t] =>
            \A i \in DOMAIN call[t].todo : End(call[t].todo[i]) <= NPages * PageSize
  /\ torn \subseteq Page
  /\ crash \in {"none", "assert"} \cup Stops

(* The list is sorted by address and no two groups overlap, as add_page_locked
   and remove_page_locked rely on when they stop at the first group that
   lies beyond a range (virt_page_manager.cpp:93 and 158). *)
Ordered ==
  \A i, j \in DOMAIN pages : i < j => End(pages[i]) <= pages[j].start

(* No byte belongs to two groups: add_page returns -1 if a new group overlaps
   with an existing one (virt_page_manager.cpp:34). *)
NoOverlap ==
  \A i, j \in DOMAIN pages :
    i # j => ~virt_page_overlap(pages[i], pages[j].start, pages[j].size)

(* What the list records for a byte. *)
Recorded(byte) ==
  LET i == lookup_addr_locked(pages, byte, -1)
  IN  IF i = 0 THEN Unmapped
      ELSE [key |-> get_pkey(pages[i].Cid), prot |-> pages[i].prot]

(* A call of mremap with one of the flags flags. *)
Remapping(t, flags) == "flags" \in DOMAIN call[t] /\ call[t].flags \cap flags # {}

(* The byte is in a group that was recorded with flag bits in the place of its
   compartment (virtualize_maps.cpp:363, virt_page_manager.cpp:843). *)
Mislabelled(byte) ==
  LET i == lookup_addr_locked(pages, byte, -1)
  IN  i # 0 /\ pages[i].Cid \notin Compartments

(* When no call is in progress, the list and the kernel agree on which pages
   have which key, and on the protection of every page: every path through
   the handlers of main_monitor.cpp and meta_monitor.cpp changes both.  The
   exceptions are mislabelled pages, and the pages of torn.  For these the
   code is known to leave the two apart: it does not look at the result of
   munmap (meta_monitor.cpp:60) and of mprotect (main_monitor.cpp:160), gives
   up an mremap after it has changed a protection (virtualize_maps.cpp:274),
   and protects a page next to a scanned range in the kernel only
   (erim.cpp:287 and 305).  Such a page, if it is on the list, has the key of
   its compartment all the same. *)
RecordsMatch ==
  (crash = "none" /\ \A t \in Threads : call[t] = Idle)
    => \A b \in 0..(NPages * PageSize - 1) :
         LET k == kern[b \div PageSize] IN
         \/ Mislabelled(b)
         \/ Recorded(b) = k
         \/ /\ b \div PageSize \in torn
            /\ Recorded(b) = Unmapped \/ Recorded(b).key = k.key

(* None of the assertions that a call of the page manager or the kernel has
   succeeded ever fails (virtualize_maps.cpp and main_monitor.cpp), except in
   an mremap of pages on which list and kernel differed before, or with
   MREMAP_FIXED or MREMAP_DONTUNMAP. *)
CallAssertsHold ==
  crash = "assert" =>
    \E t \in Threads :
      \/ Remapping(t, {"FIXED", "DONTUNMAP"})
      \/ At(t, "mprotect_update") /\ Mislabelled(call[t].start)
      \/ /\ call[t].pc \in {"mremap_resize", "mremap_kernel"}
         /\ torn \cap (PagesOf(call[t].start, call[t].size)
                        \cup PagesOf(call[t].start, call[t].new)) # {}

(* A page in which the scan found an unsafe instruction is not executable, at
   any moment of any call: the scan loops of virtualize_maps.cpp put such
   pages into groups of their own.  The exception are pages of torn: after an
   mprotect that the kernel has refused, mremap moves a page that the list
   does not record as executable without a scan. *)
UnsafeNotExec ==
  \A p \in Page \ torn : unsafe_pages[p] = "unsafe" => kern[p].prot # "x"

(* A step changes the kernel's mapping of a page that the list records for a
   compartment only if it is a step of a call for that compartment, or the
   step in which a scan finds an unsafe instruction that begins or ends in
   the page next to its range.  That page, whoever owns it, keeps its key and
   is not executable afterwards.  Calls with MREMAP_FIXED, and the scan that
   follows one, are excepted: the test at virtualize_maps.cpp:350 refuses the
   caller's own pages only, and line 363 records no compartment. *)
Adjacent(c, p) ==
  /\ c.pc \in {"scan", "scan_after"}
  /\ (p + 1) * PageSize = c.start \/ p * PageSize = c.start + RoundUp(c.size)

KernelScope ==
  [][\A i \in DOMAIN pages : \A p \in PagesOf(pages[i].start, pages[i].size) :
       kern'[p] # kern[p] =>
         \E t \in Threads :
           /\ call'[t] # call[t]
           /\ call[t] # Idle
           /\ \/ call[t].cid = pages[i].Cid
              \/ Adjacent(call[t], p)
              \/ Remapping(t, {"FIXED"})
              \/ At(t, "scan_protect") /\ Mislabelled(call[t].start)
           /\ Adjacent(call[t], p) => /\ kern'[p].key = kern[p].key
                                      /\ kern'[p].prot # "x"]_vars

(* The list implements the map from bytes to owners and protections. *)
Map == INSTANCE PageMap WITH
  Bytes <- 0..(NPages * PageSize - 1),
  Cids <- Compartments,
  Protections <- {"r", "rw", "x"},
  None <- Unmapped,
  map <- [b \in 0..(NPages * PageSize - 1) |->
            LET i == lookup_addr_locked(pages, b, -1)
            IN  IF i = 0 THEN Unmapped
                ELSE [cid |-> pages[i].Cid, prot |-> pages[i].prot]]

(* Every step of every handler changes the list as one call of the abstract
   page map, or not at all. *)
ImplementsPageMap == Map!Spec
=============================================================================
