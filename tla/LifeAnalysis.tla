--------------------------- MODULE LifeAnalysis ---------------------------
(***************************************************************************)
(* Register life analysis of flow.c: the backward relaxation of           *)
(* life_analysis_1 over the basic blocks of one function, the per-block   *)
(* scan propagate_block (non-final and final), and the final pass that    *)
(* deletes dead stores.                                                    *)
(*                                                                         *)
(* A program is chosen by Init: the insns of every block (code) and how   *)
(* every block ends (ends), from which the drop-in flags and the label    *)
(* reference chains of find_basic_blocks are derived.  An insn is a       *)
(* record: kind "insn", "call" or "note" (a deleted insn), the register   *)
(* it sets (def, NoReg for a store to memory or a use), the registers it  *)
(* reads (uses), whether it touches volatile storage (vol), and for the   *)
(* insn carrying a REG_RETVAL note the position of the REG_LIBCALL insn   *)
(* that opens its library-call sequence (lib, 0 for no note).             *)
(***************************************************************************)
EXTENDS Integers, Sequences, FiniteSets

CONSTANTS
    Reg,            \* register numbers, hard and pseudo
    NoReg,          \* "sets no register"
    Fixed,          \* frame pointer and global regs: mark_set_1 ignores them
    CallClobbered,  \* call_used_regs that are neither global nor fixed
    CallUsed,       \* stack pointer and global regs, made live by a call
    ExitLive,       \* live at the end of the last block (sp, fp, globals)
    NBlocks,        \* n_basic_blocks
    Bodies,         \* the insn sequences a block may hold
    Ends            \* the ways a block may end

ASSUME /\ NBlocks \in Nat \ {0}
       /\ Fixed \cup CallClobbered \cup CallUsed \cup ExitLive \subseteq Reg
       /\ NoReg \notin Reg

Blocks == 0 .. NBlocks - 1

Note == [kind |-> "note", def |-> NoReg, uses |-> {}, vol |-> FALSE, lib |-> 0]

VARIABLES
    prog,          \* the insns of each block as find_basic_blocks left them
    code,          \* the insn stream, rewritten by the final pass
    ends,          \* how each block ends: fall through, jump or cjump
    liveAtStart,   \* basic_block_live_at_start
    liveAtEnd,     \* basic_block_live_at_end
    newLiveAtEnd,  \* basic_block_new_live_at_end
    significant,   \* basic_block_significant
    i,             \* the block the loop of life_analysis_1 is at
    firstPass,     \* first_pass
    changed,       \* changed
    pc             \* "propagate", "final" (the final loop), "done"

vars == <<prog, code, ends, liveAtStart, liveAtEnd, newLiveAtEnd,
          significant, i, firstPass, changed, pc>>

-----------------------------------------------------------------------------
(* The control-flow graph as find_basic_blocks records it.                 *)

\* basic_block_drops_in: the insn before the head is not a BARRIER, that
\* is, the previous block does not end in an unconditional jump.
DropsIn(b) == b > 0 /\ ends[b - 1].kind # "jump"

\* The blocks whose end insn is on the LABEL_REFS chain of block t's label.
LabelRefs(t) == {b \in Blocks : ends[b].kind \in {"jump", "cjump"} /\ ends[b].to = t}

\* The blocks whose new_live_at_end the loop body updates after block t.
PredsOf(t) == {b \in Blocks : (DropsIn(t) /\ b = t - 1) \/ b \in LabelRefs(t)}

Succs(b) == {t \in Blocks : b \in PredsOf(t)}

-----------------------------------------------------------------------------
(* propagate_block and the predicates it calls.                            *)

\* The registers mark_set_1 marks dead and significant for an insn.
SetRegs(ins) == IF ins.def \in Reg \ Fixed THEN {ins.def} ELSE {}

\* insn_dead_p (x, needed, 0) && ! INSN_VOLATILE (insn): a single SET of a
\* register that is not needed.  CALL_INSNs are always INSN_VOLATILE.
InsnDead(ins, needed) ==
    /\ ins.kind = "insn"
    /\ ~ins.vol
    /\ ins.def \in Reg \ Fixed
    /\ ins.def \notin needed

\* libcall_dead_p: the first CALL_INSN of the sequence sets a register that
\* is not needed; with no call, or a call that sets nothing, it is not dead.
LibcallDead(body, k, needed) ==
    LET calls == {j \in body[k].lib .. k - 1 : body[j].kind = "call"}
        c == CHOOSE j \in calls : \A j2 \in calls : j <= j2
    IN  /\ calls # {}
        /\ body[c].def \in Reg \ Fixed
        /\ body[c].def \notin needed

\* The effect of one live insn on the running live set: turn off what it
\* sets (and, for a call, the call-clobbered regs), then turn on what it
\* reads (and, for a call, the stack pointer and the global regs).
Kill(ins) == SetRegs(ins) \cup (IF ins.kind = "call" THEN CallClobbered ELSE {})
Gen(ins)  == ins.uses \cup (IF ins.kind = "call" THEN CallUsed ELSE {})

\* The non-final scan of propagate_block from insn k back to the head of
\* the block: the live set and the significant regs found so far.  A dead
\* insn makes nothing live; a dead library call is skipped back to its
\* REG_LIBCALL insn with only the REG_RETVAL insn's destination marked.
RECURSIVE Scan(_, _, _, _)
Scan(body, k, old, sig) ==
    IF k = 0 THEN <<old, sig>>
    ELSE LET ins  == body[k]
             dead == InsnDead(ins, old)
         IN  IF ins.kind = "note" THEN Scan(body, k - 1, old, sig)
             ELSE IF dead /\ ins.lib > 0 /\ LibcallDead(body, k, old)
             THEN Scan(body, ins.lib - 1, old, sig \cup SetRegs(ins))
             ELSE IF dead
             THEN Scan(body, k - 1, old \ SetRegs(ins), sig \cup SetRegs(ins))
             ELSE Scan(body, k - 1, (old \ Kill(ins)) \cup Gen(ins),
                       sig \cup SetRegs(ins))

Propagate(body, live) == Scan(body, Len(body), live, {})

\* Mutant: really unlink the dead insns (delete_insn) instead of turning
\* them into notes, which the final pass's comment rules out.
DeleteRange_Unlink(body, lo, hi) ==
    SubSeq(body, 1, lo - 1) \o SubSeq(body, hi + 1, Len(body))

\* Turn the insns lo..hi into NOTE_INSN_DELETED notes.
DeleteRange(body, lo, hi) ==
    [j \in DOMAIN body |-> IF lo <= j /\ j <= hi THEN Note ELSE body[j]]

\* Mutant: a deleted insn still has mark_used_regs make its operands live.
RECURSIVE FinalScan_DeadUses(_, _, _)
FinalScan_DeadUses(body, k, old) ==
    IF k = 0 THEN <<old, body>>
    ELSE LET ins == body[k] IN
         IF ins.kind = "note" THEN FinalScan_DeadUses(body, k - 1, old)
         ELSE IF InsnDead(ins, old)
         THEN FinalScan_DeadUses(DeleteRange(body, k, k), k - 1,
                                 (old \ Kill(ins)) \cup Gen(ins))
         ELSE FinalScan_DeadUses(body, k - 1, (old \ Kill(ins)) \cup Gen(ins))

\* The final scan of propagate_block: a dead insn becomes a deleted note,
\* and a dead REG_RETVAL insn takes its whole library call with it.
RECURSIVE FinalScan(_, _, _)
FinalScan(body, k, old) ==
    IF k = 0 THEN <<old, body>>
    ELSE LET ins == body[k] IN
         IF ins.kind = "note" THEN FinalScan(body, k - 1, old)
         ELSE IF InsnDead(ins, old)
         THEN FinalScan(IF ins.lib > 0 /\ LibcallDead(body, k, old)
                          THEN DeleteRange(body, ins.lib, k)
                          ELSE DeleteRange(body, k, k),
                        k - 1, old)
         ELSE FinalScan(body, k - 1, (old \ Kill(ins)) \cup Gen(ins))

-----------------------------------------------------------------------------
(* life_analysis_1.                                                        *)

Init ==
    /\ prog \in [Blocks -> Bodies]
    /\ code = prog
    /\ ends \in {e \in [Blocks -> Ends] : e[NBlocks - 1].kind # "jump"}
    \* Only the last block starts with regs live at its end.
    /\ liveAtEnd = [b \in Blocks |-> IF b = NBlocks - 1 THEN ExitLive ELSE {}]
    /\ newLiveAtEnd = liveAtEnd
    /\ liveAtStart = [b \in Blocks |-> {}]
    /\ significant = [b \in Blocks |-> {}]
    /\ i = NBlocks - 1
    /\ firstPass = TRUE
    /\ changed = FALSE
    /\ pc = "propagate"

\* Record block i's new live_at_start and OR it into the new_live_at_end
\* of the block that drops into it and of every block jumping to it.
Publish(start) ==
    /\ liveAtStart' = [liveAtStart EXCEPT ![i] = start]
    /\ newLiveAtEnd' = [b \in Blocks |->
                          IF b \in PredsOf(i) THEN newLiveAtEnd[b] \cup start
                          ELSE newLiveAtEnd[b]]
    /\ changed' = TRUE
    /\ i' = i - 1

\* Regs live at the end now that were not when the block was last seen.
NewlyLive(b) == newLiveAtEnd[b] \ liveAtEnd[b]

\* Not first pass, nothing new at the end: `continue'.
SkipBlock ==
    /\ pc = "propagate" /\ i >= 0 /\ ~firstPass
    /\ NewlyLive(i) = {}
    /\ i' = i - 1
    /\ UNCHANGED <<prog, code, ends, liveAtStart, liveAtEnd, newLiveAtEnd,
                   significant, firstPass, changed, pc>>

\* Mutant: pass newly live regs through without the significant test.
PassThroughBlock_NoTest ==
    /\ pc = "propagate" /\ i >= 0 /\ ~firstPass
    /\ NewlyLive(i) # {}
    /\ liveAtEnd' = [liveAtEnd EXCEPT ![i] = @ \cup NewlyLive(i)]
    /\ Publish(liveAtStart[i] \cup NewlyLive(i))
    /\ UNCHANGED <<prog, code, ends, significant, firstPass, pc>>

\* No newly live reg is significant: pass them straight through the block.
PassThroughBlock ==
    /\ pc = "propagate" /\ i >= 0 /\ ~firstPass
    /\ NewlyLive(i) # {}
    /\ NewlyLive(i) \cap significant[i] = {}
    /\ liveAtEnd' = [liveAtEnd EXCEPT ![i] = @ \cup NewlyLive(i)]
    /\ Publish(liveAtStart[i] \cup NewlyLive(i))
    /\ UNCHANGED <<prog, code, ends, significant, firstPass, pc>>

\* First pass, or a significant reg is newly live: rescan insn by insn;
\* on the first pass the scan also records the block's significant regs.
RescanBlock ==
    /\ pc = "propagate" /\ i >= 0
    /\ firstPass \/ NewlyLive(i) \cap significant[i] # {}
    /\ LET r == Propagate(code[i], newLiveAtEnd[i]) IN
       /\ liveAtEnd' = [liveAtEnd EXCEPT ![i] = newLiveAtEnd[i]]
       /\ significant' = IF firstPass THEN [significant EXCEPT ![i] = r[2]]
                         ELSE significant
       /\ Publish(r[1])
    /\ UNCHANGED <<prog, code, ends, firstPass, pc>>

\* Mutant: first_pass is never cleared, so every pass rescans every block.
NextPass_KeepFirstPass ==
    /\ pc = "propagate" /\ i = -1 /\ changed
    /\ i' = NBlocks - 1
    /\ changed' = FALSE
    /\ UNCHANGED <<prog, code, ends, liveAtStart, liveAtEnd, newLiveAtEnd,
                   significant, firstPass, pc>>

\* End of a pass of `while (changed)' that changed something.
NextPass ==
    /\ pc = "propagate" /\ i = -1 /\ changed
    /\ i' = NBlocks - 1
    /\ changed' = FALSE
    /\ firstPass' = FALSE
    /\ UNCHANGED <<prog, code, ends, liveAtStart, liveAtEnd, newLiveAtEnd,
                   significant, pc>>

\* End of a pass that changed nothing: the fixed point is reached.
Converged ==
    /\ pc = "propagate" /\ i = -1 /\ ~changed
    /\ pc' = "final"
    /\ i' = 0
    /\ firstPass' = FALSE
    /\ UNCHANGED <<prog, code, ends, liveAtStart, liveAtEnd, newLiveAtEnd,
                   significant, changed>>

\* The final loop: propagate_block (live_at_end[i], ..., 1, 0, i) turns
\* live_at_end into live_at_start and deletes dead insns.
FinalBlock ==
    /\ pc = "final"
    /\ LET r == FinalScan(code[i], Len(code[i]), liveAtEnd[i]) IN
       /\ liveAtEnd' = [liveAtEnd EXCEPT ![i] = r[1]]
       /\ code' = [code EXCEPT ![i] = r[2]]
    /\ i' = i + 1
    /\ pc' = IF i + 1 = NBlocks THEN "done" ELSE "final"
    /\ UNCHANGED <<prog, ends, liveAtStart, newLiveAtEnd, significant,
                   firstPass, changed>>

\* life_analysis has returned.
Finished ==
    /\ pc = "done"
    /\ UNCHANGED vars

Next ==
    \/ SkipBlock
    \/ PassThroughBlock
    \/ RescanBlock
    \/ NextPass
    \/ Converged
    \/ FinalBlock
    \/ Finished

\* The analysis is one sequential loop nest: it keeps taking steps.
Spec == Init /\ [][Next]_vars /\ WF_vars(Next)

-----------------------------------------------------------------------------
(* Reference: the least solution of the liveness equations over the       *)
(* program find_basic_blocks produced, with propagate_block's non-final   *)
(* scan as the transfer function of a block.                               *)

LiveOut(L, b) ==
    (IF b = NBlocks - 1 THEN ExitLive ELSE {}) \cup UNION {L[s] : s \in Succs(b)}

Transfer(L) == [b \in Blocks |-> Propagate(prog[b], LiveOut(L, b))[1]]

RECURSIVE LeastFix(_)
LeastFix(L) == IF Transfer(L) = L THEN L ELSE LeastFix(Transfer(L))

LiveIn == LeastFix([b \in Blocks |-> {}])

-----------------------------------------------------------------------------
(* Properties.                                                             *)

InsnRec == [kind : {"insn", "call", "note"}, def : Reg \cup {NoReg},
            uses : SUBSET Reg, vol : BOOLEAN, lib : Nat]

TypeOK ==
    /\ code \in [Blocks -> Seq(InsnRec)]
    /\ \A b \in Blocks : Len(code[b]) = Len(prog[b])
    /\ liveAtStart \in [Blocks -> SUBSET Reg]
    /\ liveAtEnd \in [Blocks -> SUBSET Reg]
    /\ newLiveAtEnd \in [Blocks -> SUBSET Reg]
    /\ significant \in [Blocks -> SUBSET Reg]
    /\ i \in -1 .. NBlocks
    /\ firstPass \in BOOLEAN /\ changed \in BOOLEAN
    /\ pc \in {"propagate", "final", "done"}

\* The state right after the `while (changed)' loop exits; live_at_start is
\* not written again after it.
Converging == pc = "final" /\ i = 0


\* When the loop exits, no register that is live at the start of a block
\* on some path is missing from live_at_start: the shortcuts may only
\* over-approximate, which later passes tolerate.
FixpointSound == Converging => \A b \in Blocks : LiveIn[b] \subseteq liveAtStart[b]

\* The final loop relies on its comment that scanning live_at_end[i]
\* converts it into a copy of live_at_start[i]: once the final pass is
\* over, every register its scan finds live at the start of a block (and
\* so gives no REG_DEAD note before its first use) is in live_at_start.
FinalPassCovered == pc = "done" => \A b \in Blocks : liveAtEnd[b] \subseteq liveAtStart[b]

\* The `while (changed)' loop and the final loop always finish.
Termination == <>(pc = "done")

=============================================================================
