------------------------------ MODULE VirtPages ------------------------------
(***************************************************************************)
(* The algorithms of virt_page_manager (syscall_monitor/                   *)
(* virt_page_manager.cpp) on its list of page groups.                      *)
(*                                                                         *)
(* The linked list is a sequence of records, a node pointer is an index.   *)
(* Every operation runs under virt_page_manager::lock, so it is a function *)
(* of the list: it returns the new list and ret, which is "ok" (0),        *)
(* "fail" (-1), "move" (-2), or one of "assert", "ud2" and "null" when the *)
(* process stops at an assertion, a ud2 or a null dereference.  The field  *)
(* flags is left out, since no code reads it.                              *)
(* Addresses and sizes are bytes, with PageSize bytes per page; address    *)
(* arithmetic does not wrap around.                                        *)
(***************************************************************************)
EXTENDS Integers, Sequences, FiniteSetsExt, SequencesExt

CONSTANT PageSize

ASSUME PageSizeAssumption == PageSize \in Nat \ {0}

RoundUp(size) == ((size + PageSize - 1) \div PageSize) * PageSize

End(g) == g.start + g.size

(* The least index in I, or otherwise when there is none: where a loop over
   the list stops. *)
First(I, otherwise) == IF I = {} THEN otherwise ELSE Min(I)

Group(start, size, prot, cid) ==
  [start |-> start, size |-> size, prot |-> prot, Cid |-> cid]

Return(ret, pages) == [ret |-> ret, pages |-> pages]

-----------------------------------------------------------------------------
(* Look-up. *)

virt_page_overlap_byte(g, byte) == g.start <= byte /\ byte < End(g)

virt_page_overlap(g, start, size) == g.start < start + size /\ start < End(g)

(* cid = -1 accepts a group of any compartment; 0 stands for NULL. *)
lookup_addr_locked(L, addr, cid) ==
  First({i \in DOMAIN L : /\ virt_page_overlap_byte(L[i], addr)
                          /\ cid = -1 \/ L[i].Cid = cid}, 0)

(* The whole range lies in consecutive groups of compartment cid. *)
lookup_range_locked(L, start, size, cid) ==
  LET i == First({k \in DOMAIN L : virt_page_overlap_byte(L[k], start)}, 0)
  IN  /\ i # 0
      /\ \E j \in i..Len(L) :
           /\ End(L[j]) >= start + size
           /\ \A k \in i..j : L[k].Cid = cid
           /\ \A k \in i..(j - 1) : End(L[k]) = L[k + 1].start

\* Mutant: only the first group that overlaps the range is looked at.
LookupFirstOverlap(L, start, size, cid) ==
  LET i == First({k \in DOMAIN L : virt_page_overlap(L[k], start, size)}, 0)
  IN  i # 0 => L[i].Cid = cid

lookup_range_allow_gaps_locked(L, start, size, cid) ==
  \A i \in DOMAIN L : virt_page_overlap(L[i], start, size) => L[i].Cid = cid

-----------------------------------------------------------------------------
(* Removal. *)

(* What is left of a group when [start, end) is taken out of it. *)
Below(g, start) ==
  IF g.start < start
  THEN <<[g EXCEPT !.size = (IF End(g) < start THEN End(g) ELSE start) - g.start]>>
  ELSE <<>>

Above(g, end) ==
  IF End(g) > end
  THEN LET s == IF g.start > end THEN g.start ELSE end
       IN  <<[g EXCEPT !.start = s, !.size = End(g) - s]>>
  ELSE <<>>

(* Element i of the list replaced by the groups of sequence s. *)
Splice(L, i, s) == SubSeq(L, 1, i - 1) \o s \o SubSeq(L, i + 1, Len(L))

CutGroups(L, from, to, start, end) ==
  FlattenSeq([i \in DOMAIN L |->
    IF i \in from..to THEN Below(L[i], start) \o Above(L[i], end) ELSE <<L[i]>>])

(* The node where the scan of remove_page_locked finds start.  The first
   node qualifies when start lies before the second one, the last node
   never does. *)
StartPage(L, start) ==
  IF L[2].start > start THEN 1
  ELSE First({i \in 2..(Len(L) - 1) : End(L[i]) > start}, 0)

\* Mutant: the compartment is checked for the last group only.
StopPageAnyCid(L, from, end, cid) ==
  First({i \in from..Len(L) : \/ End(L[i]) >= end
                              \/ i = Len(L)
                              \/ End(L[i]) # L[i + 1].start}, Len(L))

(* The node where the scan ends: the last one of the range, or the first one
   that makes the removal fail. *)
StopPage(L, from, end, cid) ==
  First({i \in from..Len(L) : \/ L[i].Cid # cid
                              \/ End(L[i]) >= end
                              \/ i = Len(L)
                              \/ End(L[i]) # L[i + 1].start}, Len(L))

remove_page_locked(L, start, length, cid) ==
  LET size == RoundUp(length)
      end  == start + size
      s    == StartPage(L, start)
      e    == StopPage(L, IF s = 1 THEN 2 ELSE s, end, cid)
  IN  IF Len(L) < 2 \/ size = 0 \/ End(L[1]) > start \/ s = 0
      THEN Return("fail", L)
      ELSE IF s > 1 /\ start < L[s].start
      THEN Return("ud2", L)
      ELSE IF L[e].Cid # cid \/ End(L[e]) < end
      THEN Return("fail", L)
      ELSE IF end <= L[e].start
      THEN Return("ud2", L)
      ELSE IF s = 1                  \* prev_page is NULL at line 274
      THEN Return("null", L)
      ELSE Return("ok", CutGroups(L, s, e, start, end))

(* MAP_FIXED with one thread: gaps are allowed.  The scan stops at the first
   group that reaches beyond the range. *)
remove_page_map_fixed_locked(L, start, length, cid) ==
  LET size == RoundUp(length)
      end  == start + size
      last == First({i \in DOMAIN L : End(L[i]) > end}, Len(L))
  IN  IF size = 0 THEN Return("fail", L)
      ELSE IF \E i \in 1..last : /\ virt_page_overlap(L[i], start, size)
                                 /\ L[i].Cid # cid
      THEN Return("assert", L)
      ELSE Return("ok", CutGroups(L, 1, last, start, end))

-----------------------------------------------------------------------------
(* Addition. *)

\* Mutant: the new group goes in front of the group that lies below it.
InsertGroupBefore(L, g, fixed) ==
  LET i == First({k \in 1..(Len(L) - 1) : g.start < L[k + 1].start}, Len(L))
  IN  Return("ok", InsertAt(L, i, g))

(* Insertion of group g in the order of the list; fixed is MAP_FIXED, under
   which overlap with the next or the last group is an assertion failure. *)
InsertGroup(L, g, fixed) ==
  LET i == First({k \in 1..(Len(L) - 1) :
                    \/ virt_page_overlap(L[k], g.start, g.size)
                    \/ g.start < L[k + 1].start}, Len(L))
      overlap == Return(IF fixed THEN "assert" ELSE "fail", L)
  IN  IF L = <<>> \/ L[1].start >= End(g)
      THEN Return("ok", <<g>> \o L)
      ELSE IF virt_page_overlap(L[i], g.start, g.size)
      THEN IF i < Len(L) THEN Return("ud2", L) ELSE overlap
      ELSE IF i < Len(L) /\ End(g) > L[i + 1].start
      THEN overlap
      ELSE Return("ok", InsertAt(L, i + 1, g))

(* multi is is_multithreaded, which forbids gaps under MAP_FIXED. *)
add_page_locked(L, start, length, prot, cid, fixed, multi) ==
  LET g == Group(start, RoundUp(length), prot, cid)
      r == IF ~fixed THEN Return("ok", L)
           ELSE IF multi THEN remove_page_locked(L, start, length, cid)
           ELSE remove_page_map_fixed_locked(L, start, length, cid)
  IN  IF r.ret = "ok" THEN InsertGroup(r.pages, g, fixed) ELSE r

-----------------------------------------------------------------------------
(* Change of protection and size. *)

(* After a change that covers several groups the new group goes behind the
   first group that lies below it. *)
InsertBehind(L, g) ==
  LET i == First({k \in DOMAIN L : g.start >= End(L[k])}, 0)
  IN  IF \/ i = 0
         \/ i < Len(L) /\ virt_page_overlap(L[i + 1], g.start, g.size)
      THEN Return("assert", L)
      ELSE Return("ok", InsertAt(L, i + 1, g))

\* Mutant: what lies behind the range is dropped.
UpdateMprotectTwo(L, start, size, prot, cid) ==
  LET i   == lookup_addr_locked(L, start, cid)
      new == Group(start, size, prot, cid)
  IN  IF i = 0 \/ End(new) > End(L[i]) THEN Return("fail", L)
      ELSE Return("ok", Splice(L, i, Below(L[i], start) \o <<new>>))

update_mprotect_locked(L, start, size, prot, cid) ==
  LET i   == lookup_addr_locked(L, start, cid)
      new == Group(start, size, prot, cid)
      r   == remove_page_locked(L, start, size, cid)
  IN  IF i = 0 \/ size = 0 THEN Return("fail", L)
      ELSE IF End(new) <= End(L[i])
      THEN Return("ok", Splice(L, i,
                          Below(L[i], start) \o <<new>> \o Above(L[i], End(new))))
      ELSE IF r.ret = "ok" THEN InsertBehind(r.pages, new) ELSE r

\* Mutant: a group grows over the next one.
UpdateSizeOverlap(L, start, old_size, new_size, cid) ==
  LET i == lookup_addr_locked(L, start, cid)
  IN  IF i = 0 \/ start + old_size > End(L[i]) THEN Return("fail", L)
      ELSE Return("ok", [L EXCEPT ![i].size = @ + new_size - old_size])

\* Mutant: a range that ends inside the group makes the group grow.
UpdateSizeInside(L, start, old_size, new_size, cid) ==
  LET i == lookup_addr_locked(L, start, cid)
      new == [L EXCEPT ![i].size = @ + new_size - old_size]
  IN  IF i = 0 \/ start + old_size > End(L[i]) THEN Return("fail", L)
      ELSE IF old_size = new_size THEN Return("ok", L)
      ELSE IF old_size > new_size \/ (i < Len(L) /\ End(new[i]) > L[i + 1].start)
      THEN Return("move", L)
      ELSE Return("ok", new)

\* Mutant: a group that shrinks in the middle is not split in two.
UpdateSizeNoSplit(L, start, old_size, new_size, cid) ==
  LET i == lookup_addr_locked(L, start, cid)
  IN  IF i = 0 \/ start + old_size > End(L[i]) THEN Return("fail", L)
      ELSE IF old_size < new_size THEN Return("move", L)
      ELSE IF old_size = new_size THEN Return("ok", L)
      ELSE Return("ok", [L EXCEPT ![i].size = start + new_size - L[i].start])

(* "move" is -2: the group cannot grow in place. *)
update_size_locked(L, start, old_size, new_size, cid) ==
  LET i       == lookup_addr_locked(L, start, cid)
      old_end == start + old_size
      new_end == start + new_size
      resized == [L[i] EXCEPT !.size = new_end - L[i].start]
  IN  IF i = 0 THEN Return("fail", L)
      ELSE IF old_size = new_size THEN Return("ok", L)
      ELSE IF old_end > End(L[i]) THEN Return("fail", L)
      ELSE IF /\ old_size < new_size
              /\ \/ End(L[i]) # old_end
                 \/ i < Len(L) /\ new_end > L[i + 1].start
      THEN Return("move", L)
      ELSE Return("ok", Splice(L, i, <<resized>> \o
                          (IF old_size > new_size THEN Above(L[i], old_end)
                           ELSE <<>>)))

=============================================================================
