--------------------------- MODULE MC_Reachability ---------------------------
(***************************************************************************)
(* Four blocks.  A block ends by falling through, with a throwing call,  *)
(* a return, or a jump or conditional jump to any block, and is headed by *)
(* no label or a plain label; one shape carries a forced label and one a *)
(* handler label.  A block may also end in a computed jump, be headed by *)
(* a nonlocal label, or (ending in a fall-through after a plain label, or *)
(* in a jump after none) hold an insn with a REG_LABEL note naming any    *)
(* block's label.                                                         *)
(***************************************************************************)
EXTENDS Reachability

Shape(k, t, l) == [kind |-> k, to |-> t, label |-> l, note |-> NoBlock]

MCShapes ==
    {Shape(k, 0, l) : k \in {"fall", "call", "return"}, l \in {"none", "plain"}}
    \cup {Shape(k, t, l) : k \in {"jump", "cjump"}, t \in 0 .. 3, l \in {"none", "plain"}}
    \cup {Shape("fall", 0, "forced"), Shape("return", 0, "handler")}
    \cup {Shape("computed", 0, l) : l \in {"none", "plain"}}
    \cup {Shape(k, 0, "nonlocal") : k \in {"fall", "return"}}
    \cup {[Shape("fall", 0, "plain") EXCEPT !.note = n] : n \in 0 .. 3}
    \cup {[Shape("jump", t, "none") EXCEPT !.note = n] : t, n \in 0 .. 3}

=============================================================================
