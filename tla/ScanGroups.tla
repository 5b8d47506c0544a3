----------------------------- MODULE ScanGroups -----------------------------
(***************************************************************************)
(* The loops of scan_exec_mapping and scan_exec_mapping_mprotect           *)
(* (syscall_handlers/virtualize_maps.cpp): they walk over the pages of an  *)
(* executable mapping and collect runs of safe pages into groups, while a  *)
(* page with unsafe instructions becomes a group of its own without        *)
(* execute permission.                                                     *)
(*                                                                         *)
(* A scan is given by the pages in which erim_memScanRegion finds an       *)
(* unsafe instruction (own) and those where it finds one that begins in    *)
(* the page before (cross: it sets *prev_page_ptr to -1).  The result is   *)
(* the sequence of groups that are added or updated, in order.             *)
(***************************************************************************)
EXTENDS Integers, Sequences, SequencesExt

NoGroup == -1

Chunk(page, n, prot) == [page |-> page, n |-> n, prot |-> prot]

\* Mutant: an unsafe page gets prot, not unsafe_prot.
ScanPageProt(s, page, own, cross, reset) ==
  LET first == IF s.start_group = NoGroup THEN page ELSE s.start_group
      flush == page \in own /\ s.group_size > 0
      out   == s.out \o (IF flush THEN <<Chunk(first, s.group_size, "x")>>
                         ELSE <<>>)
  IN  IF page \in own
      THEN [start_group |-> NoGroup, group_size |-> 0,
            out |-> Append(out, Chunk(page, 1, "x"))]
      ELSE [start_group |-> first, group_size |-> s.group_size + 1, out |-> out]

(* One iteration.  Only scan_exec_mapping (reset) starts a new group after it
   has emitted one in front of the page. *)
ScanPage(s, page, own, cross, reset) ==
  LET first == IF s.start_group = NoGroup THEN page ELSE s.start_group
      cut   == page \in cross /\ s.group_size > 0
      n     == IF cut THEN s.group_size - 1 ELSE s.group_size
      flush == page \in own \cup cross /\ n > 0
      out   == s.out \o (IF cut THEN <<Chunk(page - 1, 1, "r")>> ELSE <<>>)
                     \o (IF flush THEN <<Chunk(first, n, "x")>> ELSE <<>>)
  IN  IF page \in own
      THEN [start_group |-> NoGroup, group_size |-> 0,
            out |-> Append(out, Chunk(page, 1, "r"))]
      ELSE IF flush /\ reset
      THEN [start_group |-> page, group_size |-> 1, out |-> out]
      ELSE [start_group |-> first, group_size |-> n + 1, out |-> out]

\* Mutant: the last group is one page too long.
ScanOneMore(first, n, own, cross, reset) ==
  LET s == FoldLeft(LAMBDA acc, page : ScanPage(acc, page, own, cross, reset),
                    [start_group |-> NoGroup, group_size |-> 0, out |-> <<>>],
                    [i \in 1..n |-> first + i - 1])
  IN  IF s.group_size = 0 THEN s.out
      ELSE Append(s.out, Chunk(s.start_group, s.group_size + 1, "x"))

Scan(first, n, own, cross, reset) ==
  LET s == FoldLeft(LAMBDA acc, page : ScanPage(acc, page, own, cross, reset),
                    [start_group |-> NoGroup, group_size |-> 0, out |-> <<>>],
                    [i \in 1..n |-> first + i - 1])
  IN  IF s.group_size = 0 THEN s.out
      ELSE Append(s.out, Chunk(s.start_group, s.group_size, "x"))

scan_exec_mapping(first, n, own, cross) == Scan(first, n, own, cross, TRUE)

scan_exec_mapping_mprotect(first, n, own, cross) ==
  Scan(first, n, own, cross, FALSE)
=============================================================================
