-------------------------- MODULE MCBreakpointSync --------------------------
(* Small instances of BreakpointSync for TLC. *)
EXTENDS BreakpointSync, TLC

\* Every page holds one unsafe instruction.
OneEach == [p \in Pages |-> 1]

\* One page holds two: making room for it may evict two others.
OneNeedsTwo ==
  LET wide == CHOOSE p \in Pages \ (WX \cup Unmappable) : TRUE
  IN  [p \in Pages |-> IF p = wide THEN 2 ELSE 1]

=============================================================================
