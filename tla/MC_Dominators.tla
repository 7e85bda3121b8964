--------------------------- MODULE MC_Dominators ---------------------------
(***************************************************************************)
(* Model values for Dominators: four blocks, each ending in a fall-      *)
(* through, a return, or a jump or conditional jump to any block, and a  *)
(* 32-bit HOST_WIDE_INT word as on the i386 and MIPS hosts.              *)
(***************************************************************************)
EXTENDS Dominators

MCEnds == {[kind |-> "fall", to |-> 0], [kind |-> "return", to |-> 0]}
          \cup [kind : {"jump", "cjump"}, to : 0 .. 3]

=============================================================================
