---------------------------- MODULE MC_Partition ----------------------------
(***************************************************************************)
(* Insn streams of up to five insns for Partition: labels, plain insns,   *)
(* jumps, calls, barriers, loop and exception-region notes, and library   *)
(* calls bracketed by a REG_LIBCALL insn and a REG_RETVAL insn or call.   *)
(***************************************************************************)
EXTENDS Partition

Rtx(c, n, l, r) == [code |-> c, nl |-> n, lib |-> l, ret |-> r]

Lab  == Rtx("CODE_LABEL", "none", FALSE, FALSE)
Ins  == Rtx("INSN", "none", FALSE, FALSE)
Jmp  == Rtx("JUMP_INSN", "none", FALSE, FALSE)
Cal  == Rtx("CALL_INSN", "none", FALSE, FALSE)
Bar  == Rtx("BARRIER", "none", FALSE, FALSE)
EhB  == Rtx("NOTE", "EH_BEG", FALSE, FALSE)
EhE  == Rtx("NOTE", "EH_END", FALSE, FALSE)
Nte  == Rtx("NOTE", "LOOP_BEG", FALSE, FALSE)
LibI == Rtx("INSN", "none", TRUE, FALSE)       \* first insn of a libcall
RetI == Rtx("INSN", "none", FALSE, TRUE)       \* copies the libcall's value
RetC == Rtx("CALL_INSN", "none", FALSE, TRUE)  \* a libcall ending in its call

\* Library calls whose REG_RETVAL insn is a move.
MCSyms == {Lab, Ins, Jmp, Cal, Bar, EhB, EhE, Nte, LibI, RetI}

\* Library calls whose REG_RETVAL insn is the call itself.
MCSymsRetCall == {Ins, Cal, EhB, EhE, LibI, RetC}

=============================================================================
