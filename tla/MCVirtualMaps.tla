---------------------------- MODULE MCVirtualMaps ----------------------------
(* Instances of VirtualMaps for TLC. *)
EXTENDS VirtualMaps

NoFlags == {}
InPlaceOrMove == {{}, {"MAYMOVE"}}
EachFlag == InPlaceOrMove \cup
            {{"FIXED"}, {"MAYMOVE", "FIXED"}, {"MAYMOVE", "DONTUNMAP"}}
=============================================================================
