----------------------------- MODULE RegTables -----------------------------
(***************************************************************************)
(* The per-function pseudo register tables of emit-rtl.c:                 *)
(* regno_pointer_flag, regno_pointer_align and regno_reg_rtx, allocated   *)
(* with regno_pointer_flag_length entries by init_emit and doubled by     *)
(* gen_reg_rtx when reg_rtx_no reaches that length.  A table is a         *)
(* function from the allocated indices; the REG rtx of register n is n    *)
(* itself, and Null is an entry bzero left empty.                         *)
(***************************************************************************)
EXTENDS Integers, FiniteSets

CONSTANTS
    FirstPseudo,    \* LAST_VIRTUAL_REGISTER + 1, the first pseudo number
    Headroom,       \* the 101 spare entries init_emit allocates
    InitPointers,   \* the frame, stack, arg and virtual registers init_emit flags
    StackAlign,     \* STACK_BOUNDARY / BITS_PER_UNIT
    Aligns,         \* the alignments mark_reg_pointer may be given, 0 for none
    MaxRegNo        \* bound on reg_rtx_no

Null == -1

VARIABLES
    regRtxNo,   \* reg_rtx_no
    length,     \* regno_pointer_flag_length
    flag,       \* regno_pointer_flag
    align,      \* regno_pointer_align
    regRtx,     \* regno_reg_rtx
    ptrs        \* ghost: the registers mark_reg_pointer was called on

vars == <<regRtxNo, length, flag, align, regRtx, ptrs>>

-----------------------------------------------------------------------------

\* init_emit: reg_rtx_no and the tables, the virtual registers' rtx, and
\* the pointer registers flagged with the stack alignment.
Init ==
    /\ regRtxNo = FirstPseudo
    /\ length = FirstPseudo + Headroom
    /\ flag = [n \in 0 .. length - 1 |-> n \in InitPointers]
    /\ align = [n \in 0 .. length - 1 |-> IF n \in InitPointers THEN StackAlign ELSE 0]
    /\ regRtx = [n \in 0 .. length - 1 |-> IF n \in InitPointers THEN n ELSE Null]
    /\ ptrs = {}

\* Mutant: regno_pointer_align is not copied into a bigger table.
Grown_AlignKept(t) ==
    IF t.no # t.len THEN t
    ELSE [t EXCEPT
            !.len   = 2 * t.len,
            !.flag  = [n \in 0 .. 2 * t.len - 1 |-> n < t.len /\ t.flag[n]],
            !.rtx   = [n \in 0 .. 2 * t.len - 1 |-> IF n < t.len THEN t.rtx[n] ELSE Null]]

\* One pseudo of gen_reg_rtx on the tables t: when reg_rtx_no has reached
\* the allocated length each table is copied into one twice as long whose
\* upper half is cleared, then regno_reg_rtx[reg_rtx_no++] = the new REG.
Grown(t) ==
    IF t.no # t.len THEN t
    ELSE [t EXCEPT
            !.len   = 2 * t.len,
            !.flag  = [n \in 0 .. 2 * t.len - 1 |-> n < t.len /\ t.flag[n]],
            !.align = [n \in 0 .. 2 * t.len - 1 |-> IF n < t.len THEN t.align[n] ELSE 0],
            !.rtx   = [n \in 0 .. 2 * t.len - 1 |-> IF n < t.len THEN t.rtx[n] ELSE Null]]

\* Mutant: the tables grow only once reg_rtx_no has passed the length.
NewPseudo_LateGrowth(t) ==
    LET g == IF t.no <= t.len THEN t
             ELSE [t EXCEPT !.len = 2 * t.len,
                     !.flag  = [n \in 0 .. 2 * t.len - 1 |-> n < t.len /\ t.flag[n]],
                     !.align = [n \in 0 .. 2 * t.len - 1 |-> IF n < t.len THEN t.align[n] ELSE 0],
                     !.rtx   = [n \in 0 .. 2 * t.len - 1 |-> IF n < t.len THEN t.rtx[n] ELSE Null]]
    IN  [g EXCEPT !.no = g.no + 1,
                  !.rtx = [n \in DOMAIN g.rtx |-> IF n = g.no THEN n ELSE g.rtx[n]]]

NewPseudo(t) ==
    LET g == Grown(t)
    IN  [g EXCEPT !.no = g.no + 1,
                  !.rtx = [n \in DOMAIN g.rtx |-> IF n = g.no THEN n ELSE g.rtx[n]]]

Tables == [no |-> regRtxNo, len |-> length, flag |-> flag, align |-> align, rtx |-> regRtx]

SetTables(t) ==
    /\ regRtxNo' = t.no /\ length' = t.len
    /\ flag' = t.flag /\ align' = t.align /\ regRtx' = t.rtx

\* gen_reg_rtx: one pseudo, or for a complex mode a CONCAT of two made by
\* the recursive calls for the real and the imaginary part.
GenRegRtx(complex) ==
    /\ regRtxNo + (IF complex THEN 2 ELSE 1) <= MaxRegNo
    /\ SetTables(IF complex THEN NewPseudo(NewPseudo(Tables)) ELSE NewPseudo(Tables))
    /\ UNCHANGED ptrs

\* mark_reg_pointer of a register that exists: the flag, and the
\* alignment if one is given.
MarkRegPointer(r, a) ==
    /\ r < regRtxNo
    /\ flag' = [flag EXCEPT ![r] = TRUE]
    /\ align' = IF a # 0 THEN [align EXCEPT ![r] = a] ELSE align
    /\ ptrs' = ptrs \cup {r}
    /\ UNCHANGED <<regRtxNo, length, regRtx>>

Next ==
    \/ \E c \in BOOLEAN : GenRegRtx(c)
    \/ \E r \in FirstPseudo .. MaxRegNo - 1, a \in Aligns : MarkRegPointer(r, a)

Spec == Init /\ [][Next]_vars

-----------------------------------------------------------------------------
(* Properties.                                                             *)

TypeOK ==
    /\ regRtxNo \in FirstPseudo .. MaxRegNo
    /\ DOMAIN flag = 0 .. length - 1 /\ DOMAIN align = 0 .. length - 1
    /\ DOMAIN regRtx = 0 .. length - 1

\* Across every doubling by gen_reg_rtx, each table covers every register
\* number handed out, every pseudo's regno_reg_rtx entry is its REG and
\* nothing past reg_rtx_no has one, and a pseudo is flagged as a pointer
\* exactly when mark_reg_pointer was called on it.
PseudoTablesSound ==
    /\ regRtxNo <= length
    /\ \A n \in FirstPseudo .. length - 1 :
          /\ regRtx[n] = (IF n < regRtxNo THEN n ELSE Null)
          /\ flag[n] = (n \in ptrs)
    /\ \A n \in InitPointers : flag[n] /\ regRtx[n] = n

=============================================================================
