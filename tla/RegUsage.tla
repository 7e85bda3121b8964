----------------------------- MODULE RegUsage ------------------------------
(***************************************************************************)
(* recompute_reg_usage of flow.c over an insn stream whose pseudos come   *)
(* from gen_reg_rtx (the RegTables component): the clearing of            *)
(* REG_N_SETS and REG_N_REFS up to max_reg_num (), the loop-depth         *)
(* bookkeeping of the loop notes, and per insn count_reg_sets, the        *)
(* REG_INC notes, count_reg_references and the CALL_INSN_FUNCTION_USAGE   *)
(* uses.  An rtx is a record: its code c, its operands o ('e' and 'E'     *)
(* alike), the number n of a REG, and for a SUBREG whether the inner      *)
(* register is wider than the SUBREG (REG_SIZE (SUBREG_REG) > REG_SIZE).  *)
(***************************************************************************)
EXTENDS Integers, Sequences, SequencesExt

CONSTANTS FirstPseudo, Headroom, InitPointers, StackAlign, Aligns, MaxRegNo,
          MaxInsns,    \* bound on the length of the insn stream
          ShapePairs,  \* the pairs of pseudos <<r, s>> emitted insns mention
          PointerRegs  \* the pseudos mark_reg_pointer is called on

VARIABLES regRtxNo, length, flag, align, regRtx, ptrs,
          insns,      \* the insn chain from get_insns ()
          nSets,      \* REG_N_SETS
          nRefs,      \* REG_N_REFS
          counted,    \* the counts are recompute_reg_usage's of the current
                      \* chain (a history variable)
          lifeDone    \* life_analysis has run (flow runs once per function)

RT == INSTANCE RegTables

tvars == <<regRtxNo, length, flag, align, regRtx, ptrs>>
uvars == <<insns, nSets, nRefs, counted, lifeDone>>
vars == <<tvars, uvars>>

RegNos == 0 .. MaxRegNo - 1

-----------------------------------------------------------------------------
(* Rtx constructors and the insns the stream is built from.                *)

Rtx(code, ops) == [c |-> code, o |-> ops, n |-> 0, wide |-> FALSE]
Reg(r) == [c |-> "REG", o |-> <<>>, n |-> r, wide |-> FALSE]
Subreg(x, w) == [c |-> "SUBREG", o |-> <<x>>, n |-> 0, wide |-> w]
Const == Rtx("CONST_INT", <<>>)

\* One insn of each shape count_reg_sets and count_reg_references tell
\* apart, over the registers r and s; inc is the register of a REG_INC
\* note, use the register a CALL_INSN_FUNCTION_USAGE USE names.
InsnShapes(r, s) ==
  LET I(k, p, i, u) == [kind |-> k, pat |-> p, inc |-> i, use |-> u]
  IN {I("insn", Rtx("SET", <<Reg(r), Reg(s)>>), {}, {}),
      I("insn", Rtx("SET", <<Rtx("MEM", <<Reg(r)>>), Subreg(Reg(s), FALSE)>>), {}, {}),
      I("insn", Rtx("SET", <<Rtx("STRICT_LOW_PART", <<Subreg(Reg(r), TRUE)>>), Reg(s)>>), {}, {}),
      I("insn", Rtx("SET", <<Subreg(Reg(r), TRUE), Const>>), {}, {}),
      I("insn", Rtx("SET", <<Subreg(Reg(r), FALSE), Reg(s)>>), {}, {}),
      I("insn", Rtx("SET", <<Rtx("ZERO_EXTRACT", <<Reg(r), Reg(s)>>), Const>>), {}, {}),
      I("insn", Rtx("SET", <<Reg(r), Rtx("MEM", <<Reg(s)>>)>>), {}, {}),
      I("insn", Rtx("SET", <<Reg(r), Rtx("MEM", <<Rtx("POST_INC", <<Reg(s)>>)>>)>>), {s}, {}),
      I("insn", Rtx("PARALLEL", <<Rtx("SET", <<Reg(r), Reg(s)>>), Rtx("CLOBBER", <<Reg(s)>>)>>), {}, {}),
      I("insn", Rtx("CLOBBER", <<Rtx("MEM", <<Reg(r)>>)>>), {}, {}),
      I("jump", Rtx("SET", <<Rtx("PC", <<>>), Reg(r)>>), {}, {}),
      I("call", Rtx("SET", <<Reg(r), Rtx("CALL", <<Rtx("MEM", <<Rtx("SYMBOL_REF", <<>>)>>)>>)>>), {}, {s})}

Notes == {[kind |-> k, pat |-> Const, inc |-> {}, use |-> {}] : k \in {"loop_beg", "loop_end"}}

\* The registers an insn mentions.
RECURSIVE RegsIn(_)
RegsIn(x) == (IF x.c = "REG" THEN {x.n} ELSE {}) \cup UNION {RegsIn(x.o[i]) : i \in DOMAIN x.o}
InsnRegs(i) == RegsIn(i.pat) \cup i.inc \cup i.use

\* INSN_P: an INSN, JUMP_INSN or CALL_INSN rather than a note.
IsInsn(i) == i.kind \in {"insn", "jump", "call"}

-----------------------------------------------------------------------------
(* Counts are vectors over the register numbers.                           *)

Zero == [m \in RegNos |-> 0]
One(r) == [m \in RegNos |-> IF m = r THEN 1 ELSE 0]
Plus(v, w) == [m \in RegNos |-> v[m] + w[m]]
Times(k, v) == [m \in RegNos |-> k * v[m]]
PseudoOne(r) == IF r >= FirstPseudo THEN One(r) ELSE Zero

\* The register a SET or CLOBBER stores into: the loop of count_reg_sets_1
\* and count_reg_references through SUBREG, ZERO_EXTRACT, SIGN_EXTRACT
\* and STRICT_LOW_PART.
RECURSIVE StoreBase(_)
StoreBase(d) ==
    IF d.c \in {"SUBREG", "ZERO_EXTRACT", "SIGN_EXTRACT", "STRICT_LOW_PART"}
    THEN StoreBase(d.o[1]) ELSE d

\* mark_dest of count_reg_references: some wrapper on the way to the
\* register uses its old value, i.e. is not a SUBREG at least as wide as
\* its inner register.
RECURSIVE MarkDest(_)
MarkDest(d) ==
    /\ d.c \in {"SUBREG", "ZERO_EXTRACT", "SIGN_EXTRACT", "STRICT_LOW_PART"}
    /\ \/ ~(d.c = "SUBREG" /\ ~d.wide)
       \/ MarkDest(d.o[1])

\* count_reg_sets_1: the pseudo a SET or CLOBBER stores into.
CountRegSets1(x) ==
    LET reg == StoreBase(x.o[1])
    IN  IF reg.c = "REG" THEN PseudoOne(reg.n) ELSE Zero

\* count_reg_sets: a SET or CLOBBER, or those of a PARALLEL.
CountRegSets(x) ==
    CASE x.c \in {"SET", "CLOBBER"} -> CountRegSets1(x)
      [] x.c = "PARALLEL" ->
           FoldLeft(LAMBDA v, e : IF e.c \in {"SET", "CLOBBER"}
                                  THEN Plus(v, CountRegSets1(e)) ELSE v, Zero, x.o)
      [] OTHER -> Zero

\* count_reg_references: one for each reference it finds.
RECURSIVE CountRegReferences(_)
CountRegScanOps(x) ==
    FoldLeft(LAMBDA v, e : Plus(v, CountRegReferences(e)), Zero, x.o)
CountRegReferences(x) ==
    CASE x.c \in {"LABEL_REF", "SYMBOL_REF", "CONST_INT", "CONST", "CONST_DOUBLE",
                  "PC", "ADDR_VEC", "ADDR_DIFF_VEC", "ASM_INPUT"} -> Zero
      [] x.c = "CLOBBER" ->
           IF x.o[1].c = "MEM" THEN CountRegReferences(x.o[1].o[1]) ELSE Zero
      [] x.c = "SUBREG" ->
           IF x.o[1].c # "REG" THEN CountRegReferences(x.o[1]) ELSE PseudoOne(x.o[1].n)
      [] x.c = "REG" -> PseudoOne(x.n)
      [] x.c = "SET" /\ x.o[1].c = "MEM" ->
           Plus(CountRegReferences(x.o[1].o[1]), CountRegReferences(x.o[2]))
      [] x.c = "SET" /\ StoreBase(x.o[1]).c = "REG" ->
           Plus(CountRegReferences(x.o[2]),
                IF MarkDest(x.o[1]) THEN CountRegReferences(x.o[1]) ELSE Zero)
      [] OTHER -> CountRegScanOps(x)

-----------------------------------------------------------------------------

Init ==
    /\ RT!Init
    /\ insns = <<>>
    /\ nSets = Zero /\ nRefs = Zero
    /\ counted = FALSE /\ lifeDone = FALSE

\* gen_reg_rtx and mark_reg_pointer, between passes; "registers can't be
\* created after flow".
Tables ==
    /\ \/ ~lifeDone /\ \E c \in BOOLEAN : RT!GenRegRtx(c)
       \/ \E r \in PointerRegs, a \in Aligns : RT!MarkRegPointer(r, a)
    /\ UNCHANGED uvars

\* The loops begun and not yet ended in a stream of insns.
OpenLoops(s) ==
    Len(SelectSeq(s, LAMBDA i : i.kind = "loop_beg")) - Len(SelectSeq(s, LAMBDA i : i.kind = "loop_end"))

\* An insn over registers that exist is added to the chain, before flow.
EmitInsn(i) ==
    /\ ~lifeDone /\ Len(insns) < MaxInsns
    /\ InsnRegs(i) \subseteq 0 .. regRtxNo - 1
    /\ i.kind = "loop_end" => OpenLoops(insns) > 0
    /\ insns' = Append(insns, i)
    /\ counted' = FALSE
    /\ UNCHANGED <<tvars, nSets, nRefs, lifeDone>>

\* Mutant: the clearing loop stops one register short of max_reg_num ().
RecomputeClear_Short(v) == [m \in RegNos |-> IF m \in FirstPseudo .. regRtxNo - 2 THEN 0 ELSE v[m]]

\* The clearing loop of recompute_reg_usage: the count of every pseudo
\* below max_reg_num ().
RecomputeClear(v) == [m \in RegNos |-> IF m \in FirstPseudo .. regRtxNo - 1 THEN 0 ELSE v[m]]

\* One element of the chain in the forward scan: a loop note moves
\* loop_depth (a depth of 0 aborts); an INSN, JUMP_INSN or CALL_INSN gets
\* count_reg_sets, its REG_INC notes, count_reg_references and, for a
\* call, the USEs of its usage list; any other note nothing.
RecomputeInsn(st, i) ==
    CASE i.kind \in {"loop_beg", "loop_end"} ->
           LET d == IF i.kind = "loop_end" THEN st.depth - 1 ELSE st.depth + 1
           IN  [st EXCEPT !.depth = d, !.ok = @ /\ d # 0]
      [] IsInsn(i) ->
           LET sets == CountRegSets(i.pat)
               incs == FoldSet(LAMBDA r, v : Plus(v, One(r)), Zero, i.inc)
               uses == IF i.kind = "call"
                       THEN FoldSet(LAMBDA r, v : Plus(v, CountRegReferences(Reg(r))), Zero, i.use)
                       ELSE Zero
           IN  [st EXCEPT !.sets = Plus(Plus(@, sets), incs),
                          !.refs = Plus(@, Times(st.depth, Plus(Plus(sets, CountRegReferences(i.pat)), uses)))]
      [] OTHER -> st

\* recompute_reg_usage: clear the counts of the pseudos, then scan the
\* chain from its first insn at loop depth 1.
RecomputeRegUsage ==
    /\ LET st == FoldLeft(RecomputeInsn,
                          [sets |-> RecomputeClear(nSets), refs |-> RecomputeClear(nRefs),
                           depth |-> 1, ok |-> TRUE], insns)
       IN  st.ok /\ nSets' = st.sets /\ nRefs' = st.refs
    /\ counted' = TRUE
    /\ UNCHANGED <<tvars, insns, lifeDone>>

-----------------------------------------------------------------------------
(* life_analysis of a function whose chain is one basic block: the no-op  *)
(* moves life_analysis_1 deletes first, allocate_for_life_analysis        *)
(* clearing REG_N_SETS, and the final pass of propagate_block, which      *)
(* scans the block backward with no pseudo live at its end, deletes the   *)
(* insns that only store values nobody needs, and counts REG_N_SETS and   *)
(* REG_N_REFS in mark_set_1 and mark_used_regs.  REG_N_DEATHS,            *)
(* REG_LIVE_LENGTH, REG_BASIC_BLOCK, the REG_DEAD/REG_UNUSED notes and    *)
(* LOG_LINKS are not modelled.  Every register of the shapes is a pseudo, *)
(* so the cases for hard, frame, argument and global registers never      *)
(* apply.                                                                  *)

NoMem == [c |-> "NONE", o |-> <<>>, n |-> 0, wide |-> FALSE]   \* last_mem_set = 0

\* PUT_CODE (insn, NOTE) with NOTE_INSN_DELETED; the pattern stays.
Deleted(i) == [i EXCEPT !.kind = "deleted"]

\* The obvious no-op moves: a SET of a register to itself, or a PARALLEL
\* of such SETs, CLOBBERs and USEs.  (The SUBREG-to-SUBREG form needs
\* SUBREG_WORD, which no shape has.)
SelfSet(x) == x.c = "SET" /\ x.o[1].c = "REG" /\ x.o[2].c = "REG" /\ x.o[1].n = x.o[2].n
NoopMove(i) ==
    /\ i.kind \in {"insn", "jump"}
    /\ \/ SelfSet(i.pat)
       \/ /\ i.pat.c = "PARALLEL"
          /\ \A k \in DOMAIN i.pat.o : i.pat.o[k].c \in {"USE", "CLOBBER"} \/ SelfSet(i.pat.o[k])

\* mark_used_regs: the registers it makes live, the REG_N_REFS it adds
\* (before the loop-depth weight), and whether it meets a MEM, which
\* clears last_mem_set (no MEM here has a constant-pool address).
NoUse == [live |-> {}, refs |-> Zero, mem |-> FALSE]
UseReg(r) == [live |-> {r}, refs |-> PseudoOne(r), mem |-> FALSE]
Join(u, w) == [live |-> u.live \cup w.live, refs |-> Plus(u.refs, w.refs), mem |-> u.mem \/ w.mem]

RECURSIVE MarkUsedRegs(_)
MarkUsedOps(x) == FoldLeft(LAMBDA u, e : Join(u, MarkUsedRegs(e)), NoUse, x.o)
MarkUsedRegs(x) ==
    CASE x.c \in {"LABEL_REF", "SYMBOL_REF", "CONST_INT", "CONST", "CONST_DOUBLE",
                  "PC", "ADDR_VEC", "ADDR_DIFF_VEC", "ASM_INPUT"} -> NoUse
      [] x.c = "CLOBBER" ->
           IF x.o[1].c = "MEM" THEN MarkUsedRegs(x.o[1].o[1]) ELSE NoUse
      [] x.c = "MEM" -> [MarkUsedOps(x) EXCEPT !.mem = TRUE]
      [] x.c = "SUBREG" ->
           IF x.o[1].c # "REG" THEN MarkUsedRegs(x.o[1]) ELSE UseReg(x.o[1].n)
      [] x.c = "REG" -> UseReg(x.n)
      [] x.c = "SET" /\ x.o[1].c = "MEM" ->
           Join(MarkUsedRegs(x.o[1].o[1]), MarkUsedRegs(x.o[2]))
      [] x.c = "SET" /\ StoreBase(x.o[1]).c = "REG" ->
           Join(MarkUsedRegs(x.o[2]),
                IF MarkDest(x.o[1]) THEN MarkUsedRegs(x.o[1]) ELSE NoUse)
      [] OTHER -> MarkUsedOps(x)

\* Mutant: mark_set_1 counts the set but adds nothing to REG_N_REFS.
MarkSet1_NoRefs(st, e, d) ==
    LET reg  == StoreBase(e.o[1])
        kept == IF reg.c = "MEM" \/ (reg.c = "REG" /\ reg.n \in RegsIn(st.mem)) THEN NoMem ELSE st.mem
    IN  IF reg.c = "REG"
        THEN [st EXCEPT !.mem = kept, !.dead = @ \cup {reg.n}, !.sets = Plus(@, One(reg.n))]
        ELSE [st EXCEPT !.mem = IF reg.c = "MEM" THEN reg ELSE kept]

\* mark_set_1 on a SET or CLOBBER e at loop depth d: a store into a MEM,
\* or into a register its address mentions, forgets last_mem_set, and a
\* MEM store becomes it (none here has side effects or mentions the
\* stack pointer); a register stored into, whole or in part, is killed
\* and counted in REG_N_SETS and, if a pseudo, in REG_N_REFS.
MarkSet1(st, e, d) ==
    LET reg  == StoreBase(e.o[1])
        kept == IF reg.c = "MEM" \/ (reg.c = "REG" /\ reg.n \in RegsIn(st.mem)) THEN NoMem ELSE st.mem
    IN  IF reg.c = "REG"
        THEN [st EXCEPT !.mem = kept, !.dead = @ \cup {reg.n},
                        !.sets = Plus(@, One(reg.n)), !.refs = Plus(@, Times(d, PseudoOne(reg.n)))]
        ELSE [st EXCEPT !.mem = IF reg.c = "MEM" THEN reg ELSE kept]

\* mark_set_regs: a SET or CLOBBER, or those of a PARALLEL, last first.
MarkSetRegs(st, x, d) ==
    LET stores == CASE x.c = "PARALLEL" -> Reverse(SelectSeq(x.o, LAMBDA e : e.c \in {"SET", "CLOBBER"}))
                    [] x.c \in {"SET", "CLOBBER"} -> <<x>>
                    [] OTHER -> <<>>
    IN  FoldLeft(LAMBDA s, e : MarkSet1(s, e, d), st, stores)

\* The wrappers insn_dead_p looks through: not SIGN_EXTRACT.
RECURSIVE DeadStrip(_)
DeadStrip(r) == IF r.c \in {"SUBREG", "STRICT_LOW_PART", "ZERO_EXTRACT"} THEN DeadStrip(r.o[1]) ELSE r

\* insn_dead_p with CALL_OK = 0: a SET whose source is no CALL and whose
\* destination is the MEM last_mem_set or a register not needed; a
\* PARALLEL all of whose SETs are dead; a CLOBBER of an unneeded pseudo.
RECURSIVE InsnDeadP(_, _, _)
InsnDeadP(x, needed, mem) ==
    CASE x.c = "SET" ->
           /\ x.o[2].c # "CALL"
           /\ \/ x.o[1].c = "MEM" /\ x.o[1] = mem
              \/ DeadStrip(x.o[1]).c = "REG" /\ DeadStrip(x.o[1]).n \notin needed
      [] x.c = "PARALLEL" ->
           \A k \in DOMAIN x.o : x.o[k].c \in {"CLOBBER", "USE"} \/ InsnDeadP(x.o[k], needed, mem)
      [] x.c = "CLOBBER" ->
           x.o[1].c = "REG" /\ x.o[1].n >= FirstPseudo /\ x.o[1].n \notin needed
      [] OTHER -> FALSE

\* Mutant: a dead insn is deleted but its uses are still marked live.
PropagateInsn_NoFlush(st, k) ==
    LET i == st.ins[k]
        dead == IsInsn(i) /\ i.kind # "call" /\ InsnDeadP(i.pat, st.old, st.mem)
        s == MarkSetRegs([st EXCEPT !.dead = {}], i.pat, st.depth)
        u == Join(MarkUsedRegs(i.pat),
                  IF i.kind = "call" THEN FoldSet(LAMBDA r, v : Join(v, UseReg(r)), NoUse, i.use) ELSE NoUse)
    IN
    CASE i.kind \in {"loop_beg", "loop_end"} ->
           LET d == IF i.kind = "loop_end" THEN st.depth + 1 ELSE st.depth - 1
           IN  [st EXCEPT !.depth = d, !.ok = @ /\ d # 0]
      [] IsInsn(i) ->
           [s EXCEPT !.old = (st.old \ s.dead) \cup u.live,
                     !.mem = IF u.mem \/ i.kind = "call" THEN NoMem ELSE s.mem,
                     !.refs = Plus(@, Times(st.depth, u.refs)),
                     !.ins[k] = IF dead THEN Deleted(i) ELSE i]
      [] OTHER -> st

\* One step of propagate_block's final pass, going backward: a loop note
\* moves loop_depth back (a depth of 0 aborts); a dead insn that is not
\* a CALL_INSN (INSN_VOLATILE) becomes a deleted note and nothing else
\* happens to it; any other insn kills what it stores, makes live what
\* it uses, and is counted.
PropagateInsn(st, k) ==
    LET i == st.ins[k] IN
    CASE i.kind \in {"loop_beg", "loop_end"} ->
           LET d == IF i.kind = "loop_end" THEN st.depth + 1 ELSE st.depth - 1
           IN  [st EXCEPT !.depth = d, !.ok = @ /\ d # 0]
      [] IsInsn(i) /\ i.kind # "call" /\ InsnDeadP(i.pat, st.old, st.mem) ->
           [st EXCEPT !.ins[k] = Deleted(i)]
      [] IsInsn(i) ->
           LET s == MarkSetRegs([st EXCEPT !.dead = {}], i.pat, st.depth)
               u == Join(MarkUsedRegs(i.pat),
                         IF i.kind = "call"
                         THEN FoldSet(LAMBDA r, v : Join(v, UseReg(r)), NoUse, i.use)
                         ELSE NoUse)
           IN  [s EXCEPT !.old = (st.old \ s.dead) \cup u.live,
                         !.mem = IF u.mem \/ i.kind = "call" THEN NoMem ELSE s.mem,
                         !.refs = Plus(@, Times(st.depth, u.refs))]
      [] OTHER -> st

\* allocate_for_life_analysis: REG_N_SETS of every register below
\* max_regno is reset; REG_N_REFS is left as it is.
AllocateForLife(v) == [m \in RegNos |-> IF m < regRtxNo THEN 0 ELSE v[m]]

\* The chain is one basic block: a jump only as its last insn.
OneBlock(s) == \A k \in DOMAIN s : s[k].kind = "jump" => \A m \in k + 1 .. Len(s) : ~IsInsn(s[m])

\* life_analysis, once per function: the no-op moves become deleted
\* notes; REG_N_SETS of every register below max_regno is cleared and
\* REG_N_REFS is not; then propagate_block scans from the last note back
\* to the block's first insn, starting with no pseudo live and with the
\* loop depth of the block's last insn moved forward over the notes after
\* it.  Flow sees no REG_INC notes: without AUTO_INC_DEC nothing makes
\* them.
LifeAnalysisPass ==
    /\ ~lifeDone
    /\ OneBlock(insns) /\ \A k \in DOMAIN insns : insns[k].inc = {}
    /\ LET heads == {k \in DOMAIN insns : IsInsn(insns[k])}
           first == IF heads = {} THEN Len(insns) + 1 ELSE Min(heads)
           st0   == [old |-> {}, dead |-> {}, mem |-> NoMem,
                     sets |-> AllocateForLife(nSets),
                     refs |-> nRefs, depth |-> 1 + OpenLoops(insns), ok |-> TRUE,
                     ins |-> [k \in DOMAIN insns |-> IF NoopMove(insns[k]) THEN Deleted(insns[k]) ELSE insns[k]]]
           st    == FoldRight(LAMBDA k, s : PropagateInsn(s, k),
                              [j \in 1 .. Len(insns) - first + 1 |-> first + j - 1], st0)
       IN  /\ st.ok
           /\ insns' = st.ins /\ nSets' = st.sets /\ nRefs' = st.refs
    /\ lifeDone' = TRUE /\ counted' = FALSE
    /\ UNCHANGED tvars

Next ==
    \/ Tables
    \/ \E i \in Notes \cup UNION {InsnShapes(p[1], p[2]) : p \in ShapePairs} : EmitInsn(i)
    \/ RecomputeRegUsage
    \/ LifeAnalysisPass

Spec == Init /\ [][Next]_vars

-----------------------------------------------------------------------------
(* Reference counts, from the comments of count_reg_sets and               *)
(* count_reg_references: every mention of a pseudo is a reference,        *)
(* weighted by the depth of loops around the insn; a SET or CLOBBER of a   *)
(* pseudo, or a REG_INC note for it, is a set; a store that keeps part of  *)
(* the old value also counts as a use ("counts a register twice if it is  *)
(* modified").                                                              *)

RECURSIVE Mentions(_)
Mentions(x) ==
    FoldLeft(LAMBDA v, e : Plus(v, Mentions(e)),
             IF x.c = "REG" THEN PseudoOne(x.n) ELSE Zero, x.o)

\* The SETs and CLOBBERs of a pattern.
Stores(x) == IF x.c = "PARALLEL" THEN ToSet(x.o) ELSE {x}

\* The wrappers on the way from a destination to what it stores into.
RECURSIVE Wrappers(_)
Wrappers(d) ==
    IF d.c \in {"SUBREG", "ZERO_EXTRACT", "SIGN_EXTRACT", "STRICT_LOW_PART"}
    THEN <<d>> \o Wrappers(d.o[1]) ELSE <<>>

Stored(d) == IF Wrappers(d) = <<>> THEN d ELSE Last(Wrappers(d)).o[1]

\* Only a SUBREG at least as wide as its register replaces all of it.
KeepsOldValue(d) == \E k \in DOMAIN Wrappers(d) : Wrappers(d)[k].c # "SUBREG" \/ Wrappers(d)[k].wide

StoreSum(x, F(_)) ==
    FoldSet(LAMBDA e, v : IF e.c \in {"SET", "CLOBBER"} /\ Stored(e.o[1]).c = "REG"
                          THEN Plus(v, F(e)) ELSE v, Zero, Stores(x))

SetsOf(i) ==
    Plus(StoreSum(i.pat, LAMBDA e : PseudoOne(Stored(e.o[1]).n)),
         FoldSet(LAMBDA r, v : Plus(v, One(r)), Zero, i.inc))

RefsOf(i) ==
    Plus(Plus(Mentions(i.pat),
              StoreSum(i.pat, LAMBDA e : IF e.c = "SET" /\ KeepsOldValue(e.o[1])
                                         THEN PseudoOne(Stored(e.o[1]).n) ELSE Zero)),
         FoldSet(LAMBDA r, v : Plus(v, PseudoOne(r)), Zero, i.use))

LoopDepthAt(k) == 1 + OpenLoops(SubSeq(insns, 1, k - 1))

\* The reference counts of the whole chain, one vector per kind.
RefSets == FoldLeft(LAMBDA t, k : IF IsInsn(insns[k]) THEN Plus(t, SetsOf(insns[k])) ELSE t,
                    Zero, [k \in 1 .. Len(insns) |-> k])
RefRefs == FoldLeft(LAMBDA t, k : IF IsInsn(insns[k]) THEN Plus(t, Times(LoopDepthAt(k), RefsOf(insns[k]))) ELSE t,
                    Zero, [k \in 1 .. Len(insns) |-> k])

-----------------------------------------------------------------------------
(* What life_analysis should leave, stated over the insns that survive:  *)
(* a pseudo is live after an insn if a later insn reads it with no insn   *)
(* in between storing into it; a MEM store is redundant if a later insn   *)
(* stores the same MEM and nothing in between reads memory, calls, stores *)
(* another MEM or changes the address.                                     *)

\* i reads r: r is mentioned other than as a whole store destination, or
\* partly stored into, or named by a USE of a call's usage list.
ReadsReg(i, r) ==
    /\ IsInsn(i)
    /\ \/ Mentions(i.pat)[r] > StoreSum(i.pat, LAMBDA e : PseudoOne(Stored(e.o[1]).n))[r]
       \/ \E e \in Stores(i.pat) : e.c = "SET" /\ Stored(e.o[1]) = Reg(r) /\ KeepsOldValue(e.o[1])
       \/ i.kind = "call" /\ r \in i.use

StoresReg(i, r) == IsInsn(i) /\ \E e \in Stores(i.pat) : e.c \in {"SET", "CLOBBER"} /\ Stored(e.o[1]) = Reg(r)

LiveAfter(s, k, r) ==
    \E j \in k + 1 .. Len(s) : ReadsReg(s[j], r) /\ \A m \in k + 1 .. j - 1 : ~StoresReg(s[m], r)

RECURSIVE MemCount(_)
MemCount(x) == FoldLeft(LAMBDA t, e : t + MemCount(e), IF x.c = "MEM" THEN 1 ELSE 0, x.o)

MemStores(i) == {Stored(e.o[1]) : e \in {e \in Stores(i.pat) : e.c \in {"SET", "CLOBBER"} /\ Stored(e.o[1]).c = "MEM"}}

\* i reads memory: it is a call, or has a MEM that is not a store destination.
ReadsMem(i) == i.kind = "call" \/ MemCount(i.pat) > Cardinality(MemStores(i))

KeepsMem(i, a) == ~ReadsMem(i) /\ \A r \in RegsIn(a) : ~StoresReg(i, r)

MemRedundant(s, k, a) ==
    \E j \in k + 1 .. Len(s) :
        /\ IsInsn(s[j]) /\ MemStores(s[j]) = {a} /\ KeepsMem(s[j], a)
        /\ \A m \in k + 1 .. j - 1 : IsInsn(s[m]) => MemStores(s[m]) = {} /\ KeepsMem(s[m], a)

\* The insn at k of s only stores what nobody needs after it.
StoreUnneeded(s, k, e) ==
    CASE e.c = "SET" ->
           /\ e.o[2].c # "CALL"
           /\ \/ e.o[1].c = "MEM" /\ MemRedundant(s, k, e.o[1])
              \/ Stored(e.o[1]).c = "REG" /\ ~LiveAfter(s, k, Stored(e.o[1]).n)
      [] e.c = "CLOBBER" -> e.o[1].c = "REG" /\ ~LiveAfter(s, k, e.o[1].n)
      [] OTHER -> FALSE
InsnUnneeded(s, k) ==
    LET x == s[k].pat IN
    IF x.c = "PARALLEL" THEN \A e \in ToSet(x.o) : e.c \in {"CLOBBER", "USE"} \/ StoreUnneeded(s, k, e)
    ELSE StoreUnneeded(s, k, x)

-----------------------------------------------------------------------------
(* Properties.                                                             *)

TypeOK ==
    /\ RT!TypeOK
    /\ Len(insns) <= MaxInsns
    /\ nSets \in [RegNos -> Nat] /\ nRefs \in [RegNos -> Nat]
    /\ counted \in BOOLEAN /\ lifeDone \in BOOLEAN

\* The pseudo tables stay sound while insns are emitted and scanned.
PseudoTablesSound == RT!PseudoTablesSound

\* After recompute_reg_usage, and until the chain changes, REG_N_SETS and
\* REG_N_REFS of every pseudo are the reference counts of the whole
\* chain, each reference weighted by the loop depth the loop notes give
\* its insn: nothing left over from life analysis or an earlier
\* recompute_reg_usage, no mention missed by the special cases of
\* count_reg_references, no partial store counted once.
UsageCountsExact ==
    counted =>
        LET sets == RefSets
            refs == RefRefs
        IN  \A n \in FirstPseudo .. regRtxNo - 1 : nSets[n] = sets[n] /\ nRefs[n] = refs[n]


\* The final pass of life_analysis deletes exactly the insns that are
\* no-op moves or, judged on what the pass leaves behind, store only
\* values nobody reads (calls are never deleted).  propagate_block
\* decides each insn in one backward scan from the liveness and
\* last_mem_set it has built so far, and a deleted insn must make
\* nothing live, so that what it alone fed is deleted in the same scan.
LifeDeletesUnneededInsns ==
    [][~lifeDone /\ lifeDone' =>
         \A k \in DOMAIN insns : IsInsn(insns[k]) =>
             (insns'[k].kind = "deleted" <=>
                 NoopMove(insns[k]) \/ (insns[k].kind # "call" /\ InsnUnneeded(insns', k)))]_vars

\* After life_analysis, REG_N_SETS of every pseudo is the number of stores
\* into it in the insns that survive, and REG_N_REFS has grown by the
\* loop-weighted references of those insns: the counts mark_set_1 and
\* mark_used_regs keep during the final pass agree with what
\* recompute_reg_usage counts on the same chain.
LifeCountsExact ==
    [][~lifeDone /\ lifeDone' =>
         LET sets == RefSets'
             refs == RefRefs'
         IN  \A n \in FirstPseudo .. regRtxNo - 1 :
                 nSets'[n] = sets[n] /\ nRefs'[n] = nRefs[n] + refs[n]]_vars

=============================================================================
