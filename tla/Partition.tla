----------------------------- MODULE Partition -----------------------------
(***************************************************************************)
(* The two walks find_basic_blocks makes over the insn stream of a        *)
(* function: the counting loop of find_basic_blocks, which sizes the      *)
(* block tables, and the tagging loop of find_basic_blocks_1, which fills *)
(* basic_block_head/end and BLOCK_NUM.  An insn is a record of its rtx    *)
(* code, its NOTE_LINE_NUMBER for a note (only the exception-region       *)
(* notes matter here), and whether it carries a REG_LIBCALL or a          *)
(* REG_RETVAL note.                                                        *)
(***************************************************************************)
EXTENDS Integers, Sequences

CONSTANTS
    Syms,      \* the insns a stream is made of
    MaxLen     \* the longest stream

VARIABLES
    stream,    \* the insn chain starting at F
    nonlocal,  \* nonlocal_label_rtx_list () # 0
    pos,       \* the insn the running loop is at
    count,     \* i of the counting loop, then n_basic_blocks
    cPrev,     \* prev_code of the counting loop
    cLib,      \* in_libcall_block of the counting loop
    cEh,       \* eh_region of the counting loop
    tag,       \* i of the tagging loop (the last block started)
    tPrev,     \* prev_code of the tagging loop
    tLib,      \* in_libcall_block of the tagging loop
    tEh,       \* depth of eh_note, the list of open exception regions
    blockNum,  \* BLOCK_NUM of each insn
    pc         \* "count", "tag", "tagged", "abort"

vars == <<stream, nonlocal, pos, count, cPrev, cLib, cEh, tag, tPrev, tLib,
          tEh, blockNum, pc>>

-----------------------------------------------------------------------------

\* GET_RTX_CLASS (code) == 'i'.
IsInsn(x) == x.code \in {"INSN", "JUMP_INSN", "CALL_INSN"}

\* in_libcall_block once a REG_LIBCALL insn has been seen.
LibOn(x, inLib) == inLib \/ (IsInsn(x) /\ x.lib)

\* in_libcall_block after the insn, cleared by its REG_RETVAL note.
LibAfter(x, inLib) == LibOn(x, inLib) /\ ~(IsInsn(x) /\ x.ret)

\* The block-start test both loops make: a label, or an insn after a
\* jump, a barrier, or a call that may throw or reach a nonlocal label
\* outside a library call.
StartsBlock(x, prev, inLib, inRegion) ==
    \/ x.code = "CODE_LABEL"
    \/ /\ IsInsn(x)
       /\ \/ prev \in {"JUMP_INSN", "BARRIER"}
          \/ prev = "CALL_INSN" /\ (nonlocal \/ inRegion) /\ ~LibOn(x, inLib)

\* The exception-region depth after a note.
EhAfter(x, depth) ==
    IF x.code # "NOTE" THEN depth
    ELSE IF x.nl = "EH_BEG" THEN depth + 1
    ELSE IF x.nl = "EH_END" THEN depth - 1
    ELSE depth

\* The streams jump, cse and the expanders hand over: exception regions
\* nest, and a library call is a straight-line run from its REG_LIBCALL
\* insn to its REG_RETVAL insn.
RECURSIVE WellFormed(_, _, _)
WellFormed(s, depth, inLib) ==
    IF s = <<>> THEN depth = 0 /\ ~inLib
    ELSE LET x == Head(s) IN
         /\ EhAfter(x, depth) >= 0
         /\ inLib => x.code \in {"INSN", "CALL_INSN", "NOTE"}
         /\ IsInsn(x) /\ x.lib => ~inLib
         /\ IsInsn(x) /\ x.ret => LibOn(x, inLib)
         /\ WellFormed(Tail(s), EhAfter(x, depth), LibAfter(x, inLib))

Streams == {s \in UNION {[1 .. n -> Syms] : n \in 1 .. MaxLen} : WellFormed(s, 0, FALSE)}

Init ==
    /\ stream \in Streams
    /\ nonlocal \in BOOLEAN
    /\ pos = 1
    /\ count = 0 /\ cPrev = "JUMP_INSN" /\ cLib = FALSE /\ cEh = 0
    /\ tag = -1 /\ tPrev = "JUMP_INSN" /\ tLib = FALSE /\ tEh = 0
    /\ blockNum = [k \in DOMAIN stream |-> -1]
    /\ pc = "count"

\* Mutant: the counting loop ignores in_libcall_block after a call.
CountStep_IgnoreLibcall ==
    /\ pc = "count" /\ pos <= Len(stream)
    /\ LET x == stream[pos]
           code == IF x.code = "CALL_INSN" /\ x.ret THEN "INSN" ELSE x.code
       IN  /\ count' = count + (IF StartsBlock(x, cPrev, FALSE, cEh # 0) THEN 1 ELSE 0)
           /\ cPrev' = IF code # "NOTE" THEN code ELSE cPrev
           /\ cEh' = EhAfter(x, cEh)
           /\ cLib' = LibAfter(x, cLib)
    /\ pos' = pos + 1
    /\ UNCHANGED <<stream, nonlocal, tag, tPrev, tLib, tEh, blockNum, pc>>

\* One insn of the counting loop; a CALL_INSN carrying REG_RETVAL counts
\* as an INSN for prev_code.
CountStep ==
    /\ pc = "count" /\ pos <= Len(stream)
    /\ LET x == stream[pos]
           code == IF x.code = "CALL_INSN" /\ x.ret THEN "INSN" ELSE x.code
       IN  /\ count' = count + (IF StartsBlock(x, cPrev, cLib, cEh # 0) THEN 1 ELSE 0)
           /\ cPrev' = IF code # "NOTE" THEN code ELSE cPrev
           /\ cEh' = EhAfter(x, cEh)
           /\ cLib' = LibAfter(x, cLib)
    /\ pos' = pos + 1
    /\ UNCHANGED <<stream, nonlocal, tag, tPrev, tLib, tEh, blockNum, pc>>

\* n_basic_blocks = i; the tables are allocated; find_basic_blocks_1.
CountDone ==
    /\ pc = "count" /\ pos > Len(stream)
    /\ pos' = 1
    /\ pc' = "tag"
    /\ UNCHANGED <<stream, nonlocal, count, cPrev, cLib, cEh, tag, tPrev,
                   tLib, tEh, blockNum>>

\* Mutant: the tagging loop ignores in_libcall_block after a call.
TagStep_IgnoreLibcall ==
    /\ pc = "tag" /\ pos <= Len(stream)
    /\ LET x == stream[pos]
           i == IF x.code # "NOTE" /\ StartsBlock(x, tPrev, FALSE, tEh # 0)
                THEN tag + 1 ELSE tag
       IN  /\ tag' = i
           /\ blockNum' = [blockNum EXCEPT ![pos] = i]
           /\ tPrev' = IF x.code # "NOTE" THEN x.code ELSE tPrev
           /\ tEh' = EhAfter(x, tEh)
           /\ tLib' = LibAfter(x, tLib)
    /\ pos' = pos + 1
    /\ UNCHANGED <<stream, nonlocal, count, cPrev, cLib, cEh, pc>>

\* Mutant: every note other than a region start pops the eh_note list.
TagStep_PopAnyNote ==
    /\ pc = "tag" /\ pos <= Len(stream)
    /\ LET x == stream[pos]
           i == IF x.code # "NOTE" /\ StartsBlock(x, tPrev, tLib, tEh # 0)
                THEN tag + 1 ELSE tag
       IN  /\ tag' = i
           /\ blockNum' = [blockNum EXCEPT ![pos] = i]
           /\ tPrev' = IF x.code # "NOTE" THEN x.code ELSE tPrev
           /\ tEh' = IF x.code = "NOTE" /\ x.nl # "EH_BEG" THEN tEh - 1
                     ELSE EhAfter(x, tEh)
           /\ tLib' = LibAfter(x, tLib)
    /\ pos' = pos + 1
    /\ UNCHANGED <<stream, nonlocal, count, cPrev, cLib, cEh, pc>>

\* One insn of the tagging loop: a new block gets basic_block_head[++i].
TagStep ==
    /\ pc = "tag" /\ pos <= Len(stream)
    /\ LET x == stream[pos]
           i == IF x.code # "NOTE" /\ StartsBlock(x, tPrev, tLib, tEh # 0)
                THEN tag + 1 ELSE tag
       IN  /\ tag' = i
           /\ blockNum' = [blockNum EXCEPT ![pos] = i]
           /\ tPrev' = IF x.code # "NOTE" THEN x.code ELSE tPrev
           /\ tEh' = EhAfter(x, tEh)
           /\ tLib' = LibAfter(x, tLib)
    /\ pos' = pos + 1
    /\ UNCHANGED <<stream, nonlocal, count, cPrev, cLib, cEh, pc>>

\* The first-pass check `i + 1 != n_basic_blocks'.
TagDone ==
    /\ pc = "tag" /\ pos > Len(stream)
    /\ pc' = IF tag + 1 # count THEN "abort" ELSE "tagged"
    /\ UNCHANGED <<stream, nonlocal, pos, count, cPrev, cLib, cEh, tag,
                   tPrev, tLib, tEh, blockNum>>

Finished ==
    /\ pc \in {"tagged", "abort"}
    /\ UNCHANGED vars

Next == CountStep \/ CountDone \/ TagStep \/ TagDone \/ Finished

Spec == Init /\ [][Next]_vars

-----------------------------------------------------------------------------
(* Properties.                                                             *)

TypeOK ==
    /\ pos \in 1 .. MaxLen + 1
    /\ count \in 0 .. MaxLen /\ tag \in -1 .. MaxLen - 1
    /\ cLib \in BOOLEAN /\ tLib \in BOOLEAN
    /\ cEh \in 0 .. MaxLen /\ tEh \in 0 .. MaxLen
    /\ blockNum \in [DOMAIN stream -> -1 .. MaxLen - 1]
    /\ pc \in {"count", "tag", "tagged", "abort"}

\* Every basic_block_head[++i] the tagging loop writes lies inside the
\* n_basic_blocks entries the counting loop allocated.
TagsWithinCount == pc = "tag" => tag < count

\* The tagging loop finds as many blocks as the counting loop counted, so
\* the first pass of find_basic_blocks_1 does not abort.
PartitionAgrees == pc # "abort"

=============================================================================
