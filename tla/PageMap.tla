------------------------------- MODULE PageMap -------------------------------
(***************************************************************************)
(* What the page manager promises: a map from every byte of the address    *)
(* space to its compartment and protection.  A call for a compartment      *)
(* changes one range, all of it in the same way, and only where the range  *)
(* is unmapped or belongs to that compartment: no byte ever passes from    *)
(* one compartment to another without having been removed in between.      *)
(***************************************************************************)
EXTENDS Integers, FiniteSetsExt

CONSTANTS Bytes, Cids, Protections, None

VARIABLE map

Owned == [cid : Cids, prot : Protections]

Init == map \in [Bytes -> Owned \cup {None}]

(* The bytes that a call changes span its range. *)
Changed == {b \in Bytes : map'[b] # map[b]}

(* A call for compartment cid adds a range or changes its protection, or
   removes one. *)
Next ==
  \E D \in {Changed} :
    D # {} =>
      \E cid \in Cids, new \in Owned \cup {None} :
        /\ new # None => new.cid = cid
        /\ \A b \in Min(D)..Max(D) :
             map'[b] = new /\ (map[b] = None \/ map[b].cid = cid)

Spec == Init /\ [][Next]_map
=============================================================================
