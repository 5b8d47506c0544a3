----------------------------- MODULE MCFdTable ------------------------------
(***************************************************************************)
(* FdTable for TLC, with the table that the program builds.                *)
(***************************************************************************)
EXTENDS FdTable, SyscallTable

\* No assertion has failed for the entry of a call, the null is left at the end of
\* its list, and the list runs its main handler exactly once.
WellFormed(no) ==
    LET list == generate_2d_handler_list[no]
    IN /\ Table[no].ok
       /\ Len(list) < Slots
       /\ \E i \in DOMAIN list : \A j \in DOMAIN list : list[j] = Table[no].main <=> j = i

TableWellFormed == \A no \in Numbers : WellFormed(no)

\* When a thread has entered the dispatcher, the table is well formed for every
\* call, and the handlers that it runs are the ones of the table.
TableSound ==
    \A t \in Threads : th[t].no # "none" =>
        /\ TableWellFormed
        /\ HandlerList[th[t].no] = generate_2d_handler_list[th[t].no]

Symmetry == Permutations(Threads)

=============================================================================
