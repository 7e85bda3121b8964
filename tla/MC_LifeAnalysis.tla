-------------------------- MODULE MC_LifeAnalysis --------------------------
(***************************************************************************)
(* Model values for LifeAnalysis: three blocks, four registers, and block *)
(* bodies of one or two insns drawn from a small vocabulary.               *)
(*   x   a pseudo carried round loops (x := x + 1)                         *)
(*   d   a pseudo that may be dead (d := x, later stored to memory)        *)
(*   rv  the hard return-value register, clobbered by every call           *)
(*   sp  the stack pointer, live at the exit and used by every call        *)
(***************************************************************************)
EXTENDS LifeAnalysis

MCReg == {"x", "d", "rv", "sp"}

Ins(d, u) == [kind |-> "insn", def |-> d, uses |-> u, vol |-> FALSE, lib |-> 0]

IncX    == Ins("x", {"x"})            \* x := x + 1
CopyXD  == Ins("d", {"x"})            \* d := x   (dead unless d is stored)
StoreD  == Ins(NoReg, {"d"})          \* mem := d
UseRv   == Ins("d", {"rv"})           \* d := rv  (return value copied out)
CallV   == [kind |-> "call", def |-> NoReg, uses |-> {"x"}, vol |-> FALSE, lib |-> 0]
CallRv  == [kind |-> "call", def |-> "rv", uses |-> {"x"}, vol |-> FALSE, lib |-> 0]

\* A two-insn library call: the CALL_INSN carries REG_LIBCALL and the copy
\* of its value carries REG_RETVAL pointing back at it.
LibCall == << [CallRv EXCEPT !.lib = 0], [UseRv EXCEPT !.lib = 1] >>

\* Bodies with ordinary insns and calls, without library calls.
MCBodies == { <<IncX>>, <<CopyXD>>, <<StoreD>>, <<CopyXD, StoreD>>,
              <<UseRv, StoreD>>, <<CopyXD, CallV>>, <<CallRv>> }

\* Ordinary insns and a library call whose value may be unused.
MCBodiesLib == { <<IncX>>, <<CopyXD>>, <<StoreD>>, <<UseRv, StoreD>>, LibCall }

MCEnds == {[kind |-> "fall", to |-> 0]}
          \cup [kind : {"jump", "cjump"}, to : 0 .. 2]

=============================================================================
