------------------------------ MODULE Subword ------------------------------
(***************************************************************************)
(* The subword functions of emit-rtl.c: gen_lowpart_common, gen_lowpart,  *)
(* gen_highpart, gen_realpart, gen_imagpart, subreg_lowpart_p and         *)
(* operand_subword, as operators over rtx records, and a reference        *)
(* semantics (BitOf) saying which bit of which register, which memory     *)
(* byte or which constant bit every bit of an rtx's value is.             *)
(*                                                                         *)
(* The target is a set of constants.  BITS_PER_UNIT is scaled down (the   *)
(* code never depends on it being 8, only on the ratios of unit, word and *)
(* host-wide-int sizes), so that the constants of a double-word mode stay *)
(* inside TLC's integers.  Registers are pseudos: the hard-register       *)
(* branches need HARD_REGNO_NREGS and HARD_REGNO_MODE_OK from mips.h.     *)
(* Floating-point constants, whose conversion is REAL_VALUE arithmetic,   *)
(* are not modelled, nor is BLKmode.                                      *)
(***************************************************************************)
EXTENDS Integers

CONSTANTS
    BITS_PER_UNIT,
    UNITS_PER_WORD,
    WORDS_BIG_ENDIAN,
    BYTES_BIG_ENDIAN,
    HOST_BITS_PER_WIDE_INT

\* MIPS takes both endiannesses from TARGET_BIG_ENDIAN.
ASSUME WORDS_BIG_ENDIAN = BYTES_BIG_ENDIAN
ASSUME UNITS_PER_WORD \in {4, 8} /\ HOST_BITS_PER_WIDE_INT % (UNITS_PER_WORD * BITS_PER_UNIT) = 0

H == HOST_BITS_PER_WIDE_INT
BITS_PER_WORD == UNITS_PER_WORD * BITS_PER_UNIT

\* The machine modes: size in units and class (machmode.def).
Mode == [QI |-> [size |-> 1, class |-> "INT"],   HI |-> [size |-> 2, class |-> "INT"],
         SI |-> [size |-> 4, class |-> "INT"],   DI |-> [size |-> 8, class |-> "INT"],
         TI |-> [size |-> 16, class |-> "INT"],
         SF |-> [size |-> 4, class |-> "FLOAT"], DF |-> [size |-> 8, class |-> "FLOAT"],
         CQI |-> [size |-> 2, class |-> "CINT"], CHI |-> [size |-> 4, class |-> "CINT"],
         CSI |-> [size |-> 8, class |-> "CINT"], CDI |-> [size |-> 16, class |-> "CINT"],
         VOID |-> [size |-> 0, class |-> "VOID"]]
IntModes == {"QI", "HI", "SI", "DI", "TI"}
FloatModes == {"SF", "DF"}
ComplexModes == {"CQI", "CHI", "CSI", "CDI"}

Size(m) == Mode[m].size
Bits(m) == Size(m) * BITS_PER_UNIT
IsInt(m) == Mode[m].class = "INT"
UnitSize(m) == IF Mode[m].class = "CINT" THEN Size(m) \div 2 ELSE Size(m)
Words(s) == (s + UNITS_PER_WORD - 1) \div UNITS_PER_WORD
word_mode == CHOOSE m \in IntModes : Size(m) = UNITS_PER_WORD
\* mode_for_size of a complex mode's unit
PartMode(cm) == CHOOSE m \in IntModes : Size(m) = UnitSize(cm)

MAX(a, b) == IF a > b THEN a ELSE b
MIN(a, b) == IF a < b THEN a ELSE b
\* C's division, which truncates toward zero.
CDiv(a, b) == IF a >= 0 THEN a \div b ELSE -((-a) \div b)

\* The rtx forms.  Every record has a code and a mode.
Reg(m, n) == [code |-> "REG", mode |-> m, regno |-> n]
Subreg(m, r, w) == [code |-> "SUBREG", mode |-> m, reg |-> r, word |-> w]
Mem(m, a) == [code |-> "MEM", mode |-> m, addr |-> a]
GEN_INT(v) == [code |-> "CONST_INT", mode |-> "VOID", val |-> v]
ConstDouble(lo, hi) == [code |-> "CONST_DOUBLE", mode |-> "VOID", low |-> lo, high |-> hi]
Null == [code |-> "NULL", mode |-> "VOID"]
Abort == [code |-> "ABORT", mode |-> "VOID"]
IsConst(x) == x.code \in {"CONST_INT", "CONST_DOUBLE"}

\* copy_to_reg: a new pseudo holding the value.
CopyToReg(x) == Reg(x.mode, "copy")

\* val << (H - w) >> (H - w) in H-bit host arithmetic: the low w bits of
\* val, sign-extended.
SignExtend(val, w) ==
    LET u == val % 2^w IN IF u >= 2^(w - 1) THEN u - 2^w ELSE u

-----------------------------------------------------------------------------
(* gen_lowpart_common *)

\* Mutant: the shifts use HOST_BITS_PER_WIDE_INT - width + 1, one bit
\* short of the mode.
ConstLowpart_ShortShift(mode, x) ==
    LET width == Bits(mode)
        val == IF x.code = "CONST_INT" THEN x.val ELSE x.low
    IN  IF width >= 2 * H THEN x
        ELSE IF width > H THEN Null
        ELSE IF width = H THEN IF x.code = "CONST_INT" THEN x ELSE GEN_INT(x.low)
        ELSE LET v == SignExtend(val, width - 1)
             IN  IF x.code = "CONST_INT" /\ x.val = v THEN x ELSE GEN_INT(v)

\* The CONST_INT / CONST_DOUBLE case: the low-order bits of the constant.
ConstLowpart(mode, x) ==
    LET width == Bits(mode)
        val == IF x.code = "CONST_INT" THEN x.val ELSE x.low
    IN  IF width >= 2 * H THEN x
        ELSE IF width > H THEN Null
        ELSE IF width = H THEN IF x.code = "CONST_INT" THEN x ELSE GEN_INT(x.low)
        ELSE LET v == SignExtend(val, width)
             IN  IF x.code = "CONST_INT" /\ x.val = v THEN x ELSE GEN_INT(v)

\* Null is the code's 0: the low part cannot be had this way.
RECURSIVE GenLowpartCommon(_, _)
GenLowpartCommon(mode, x) ==
    LET word == IF WORDS_BIG_ENDIAN /\ Size(x.mode) > UNITS_PER_WORD
                THEN (Size(x.mode) - MAX(Size(mode), UNITS_PER_WORD)) \div UNITS_PER_WORD
                ELSE 0
    IN  IF x.mode = mode THEN x
        ELSE IF x.mode # "VOID" /\ Words(Size(mode)) > Words(Size(x.mode)) THEN Null
        ELSE IF x.code \in {"ZERO_EXTEND", "SIGN_EXTEND"} /\ IsInt(mode)
        THEN IF x.op.mode = mode THEN x.op
             ELSE IF Size(mode) < Size(x.op.mode) THEN GenLowpartCommon(mode, x.op)
             ELSE IF Size(mode) < Size(x.mode) THEN [x EXCEPT !.mode = mode]
             ELSE Null
        ELSE IF x.code = "SUBREG"
                /\ (Size(mode) <= UNITS_PER_WORD \/ Size(mode) = UnitSize(x.mode))
        THEN IF x.reg.mode = mode /\ x.word = 0 THEN x.reg
             ELSE Subreg(mode, x.reg, x.word + word)
        ELSE IF x.code = "REG" THEN Subreg(mode, x, word)
        ELSE IF IsInt(mode) /\ IsConst(x) THEN ConstLowpart(mode, x)
        ELSE Null

-----------------------------------------------------------------------------
(* gen_lowpart, gen_highpart and the parts of a complex value *)

\* The offset of the low part of a MEM, under word and byte order.
LowpartOffset(mode, x) ==
    LET offset == IF WORDS_BIG_ENDIAN
                  THEN MAX(Size(x.mode), UNITS_PER_WORD) - MAX(Size(mode), UNITS_PER_WORD)
                  ELSE 0
    IN  IF BYTES_BIG_ENDIAN
        THEN offset - (MIN(UNITS_PER_WORD, Size(mode)) - MIN(UNITS_PER_WORD, Size(x.mode)))
        ELSE offset

\* Mutant: the MEM case keeps the word offset but not the byte adjustment.
GenLowpart_NoByteAdjust(mode, x) ==
    LET result == GenLowpartCommon(mode, x)
    IN  IF result.code # "NULL" THEN result
        ELSE IF x.code = "REG"
        THEN LET again == GenLowpartCommon(mode, CopyToReg(x))
             IN  IF again.code = "NULL" THEN Abort ELSE again
        ELSE IF x.code = "MEM"
        THEN Mem(mode, x.addr + IF WORDS_BIG_ENDIAN
                                THEN MAX(Size(x.mode), UNITS_PER_WORD)
                                     - MAX(Size(mode), UNITS_PER_WORD)
                                ELSE 0)
        ELSE Abort

\* gen_lowpart: gen_lowpart_common, else the register copied, else the
\* MEM at the address of the low part.  ADDRESSOF is not modelled.
GenLowpart(mode, x) ==
    LET result == GenLowpartCommon(mode, x)
    IN  IF result.code # "NULL" THEN result
        ELSE IF x.code = "REG"
        THEN LET again == GenLowpartCommon(mode, CopyToReg(x))
             IN  IF again.code = "NULL" THEN Abort ELSE again
        ELSE IF x.code = "MEM" THEN Mem(mode, x.addr + LowpartOffset(mode, x))
        ELSE Abort

\* Mutant: the MEM case tests WORDS_BIG_ENDIAN where the code tests its
\* negation.
RECURSIVE GenHighpart_SwappedOrder(_, _)
GenHighpart_SwappedOrder(mode, x) ==
    IF Size(mode) > UNITS_PER_WORD /\ Size(mode) # UnitSize(x.mode) THEN Abort
    ELSE IF x.code = "CONST_DOUBLE"
    THEN GEN_INT(IF Bits(mode) >= H THEN x.high ELSE x.high % 2^Bits(mode))
    ELSE IF x.code = "CONST_INT"
    THEN IF H <= BITS_PER_WORD THEN GEN_INT(0)
         ELSE GEN_INT(x.val \div 2^(H - BITS_PER_WORD))
    ELSE IF x.code = "MEM"
    THEN LET offset == IF WORDS_BIG_ENDIAN
                       THEN MAX(Size(x.mode), UNITS_PER_WORD) - MAX(Size(mode), UNITS_PER_WORD)
                       ELSE 0
         IN  Mem(mode, x.addr + IF ~BYTES_BIG_ENDIAN /\ Size(mode) < UNITS_PER_WORD
                                THEN offset - (Size(mode) - MIN(UNITS_PER_WORD, Size(x.mode)))
                                ELSE offset)
    ELSE IF x.code = "SUBREG"
    THEN IF x.word # 0 THEN Abort ELSE GenHighpart_SwappedOrder(mode, x.reg)
    ELSE IF x.code = "REG"
    THEN Subreg(mode, x, IF WORDS_BIG_ENDIAN THEN 0
                         ELSE CDiv(Size(x.mode) - MAX(Size(mode), UNITS_PER_WORD), UNITS_PER_WORD))
    ELSE Abort

\* gen_highpart.  A SUBREG is only taken at word 0, as the whole of its
\* register.  The host-float condition on CONST_DOUBLE holds for an
\* integer CONST_DOUBLE, whose mode is VOIDmode.
RECURSIVE GenHighpart(_, _)
GenHighpart(mode, x) ==
    IF Size(mode) > UNITS_PER_WORD /\ Size(mode) # UnitSize(x.mode) THEN Abort
    ELSE IF x.code = "CONST_DOUBLE"
    THEN GEN_INT(IF Bits(mode) >= H THEN x.high ELSE x.high % 2^Bits(mode))
    ELSE IF x.code = "CONST_INT"
    THEN IF H <= BITS_PER_WORD THEN GEN_INT(0)
         ELSE GEN_INT(x.val \div 2^(H - BITS_PER_WORD))
    ELSE IF x.code = "MEM"
    THEN LET offset == IF ~WORDS_BIG_ENDIAN
                       THEN MAX(Size(x.mode), UNITS_PER_WORD) - MAX(Size(mode), UNITS_PER_WORD)
                       ELSE 0
         IN  Mem(mode, x.addr + IF ~BYTES_BIG_ENDIAN /\ Size(mode) < UNITS_PER_WORD
                                THEN offset - (Size(mode) - MIN(UNITS_PER_WORD, Size(x.mode)))
                                ELSE offset)
    ELSE IF x.code = "SUBREG"
    THEN IF x.word # 0 THEN Abort ELSE GenHighpart(mode, x.reg)
    ELSE IF x.code = "REG"
    THEN Subreg(mode, x, IF WORDS_BIG_ENDIAN THEN 0
                         ELSE CDiv(Size(x.mode) - MAX(Size(mode), UNITS_PER_WORD), UNITS_PER_WORD))
    ELSE Abort

GenRealpart(mode, x) ==
    IF x.code = "CONCAT" /\ x.op0.mode = mode THEN x.op0
    ELSE IF WORDS_BIG_ENDIAN THEN GenHighpart(mode, x) ELSE GenLowpart(mode, x)

GenImagpart(mode, x) ==
    IF x.code = "CONCAT" /\ x.op0.mode = mode THEN x.op1
    ELSE IF WORDS_BIG_ENDIAN THEN GenLowpart(mode, x) ELSE GenHighpart(mode, x)

\* Mutant: the size test reads GET_MODE (x) where the code reads
\* GET_MODE (SUBREG_REG (x)).
SubregLowpartP_OwnSize(x) ==
    IF x.code # "SUBREG" THEN TRUE
    ELSE IF x.reg.mode = "VOID" THEN FALSE
    ELSE IF WORDS_BIG_ENDIAN /\ Size(x.mode) > UNITS_PER_WORD
    THEN x.word = CDiv(Size(x.reg.mode) - MAX(Size(x.mode), UNITS_PER_WORD), UNITS_PER_WORD)
    ELSE x.word = 0

SubregLowpartP(x) ==
    IF x.code # "SUBREG" THEN TRUE
    ELSE IF x.reg.mode = "VOID" THEN FALSE
    ELSE IF WORDS_BIG_ENDIAN /\ Size(x.reg.mode) > UNITS_PER_WORD
    THEN x.word = CDiv(Size(x.reg.mode) - MAX(Size(x.mode), UNITS_PER_WORD), UNITS_PER_WORD)
    ELSE x.word = 0

-----------------------------------------------------------------------------
(* operand_subword *)

\* (val & (-1 << k)) == (-1 << k): every bit of the H-bit val from k up is 1.
OnesFrom(val, k) == val \div 2^k = -1

\* Mutant: the word is masked but not sign-extended again on a host wider
\* than the word.
ConstSubword_NoSignExtend(op, i, mode) ==
    IF op.code = "CONST_INT" /\ op.val = 0 THEN op
    ELSE IF ~IsInt(mode) \/ ~IsConst(op) \/ BITS_PER_WORD > H THEN Null
    ELSE LET ratio == H \div BITS_PER_WORD
             n == IF WORDS_BIG_ENDIAN THEN Size(mode) \div UNITS_PER_WORD - 1 - i ELSE i
             val == IF n \div ratio = 0
                    THEN IF op.code = "CONST_INT" THEN op.val ELSE op.low
                    ELSE IF op.code = "CONST_INT" THEN IF op.val < 0 THEN -1 ELSE 0
                         ELSE op.high
             shifted == IF BITS_PER_WORD < H
                        THEN val \div 2^((n % ratio) * BITS_PER_WORD) ELSE val
             masked == IF BITS_PER_WORD < H /\ ~OnesFrom(shifted, BITS_PER_WORD - 1)
                       THEN shifted % 2^BITS_PER_WORD ELSE shifted
         IN  GEN_INT(masked)

\* The integer-constant tail of operand_subword: word i (from the low
\* address) of the constant, in host-word pieces.
ConstSubword(op, i, mode) ==
    IF op.code = "CONST_INT" /\ op.val = 0 THEN op
    ELSE IF ~IsInt(mode) \/ ~IsConst(op) \/ BITS_PER_WORD > H THEN Null
    ELSE LET ratio == H \div BITS_PER_WORD
             n == IF WORDS_BIG_ENDIAN THEN Size(mode) \div UNITS_PER_WORD - 1 - i ELSE i
             val == IF n \div ratio = 0
                    THEN IF op.code = "CONST_INT" THEN op.val ELSE op.low
                    ELSE IF op.code = "CONST_INT" THEN IF op.val < 0 THEN -1 ELSE 0
                         ELSE op.high
             shifted == IF BITS_PER_WORD < H
                        THEN val \div 2^((n % ratio) * BITS_PER_WORD) ELSE val
             masked == IF BITS_PER_WORD < H /\ ~OnesFrom(shifted, BITS_PER_WORD - 1)
                       THEN shifted % 2^BITS_PER_WORD ELSE shifted
             extended == IF BITS_PER_WORD < H /\ (masked \div 2^(BITS_PER_WORD - 1)) % 2 = 1
                                              /\ masked >= 0
                         THEN masked - 2^BITS_PER_WORD ELSE masked
         IN  GEN_INT(extended)

\* operand_subword of a REG, SUBREG, CONCAT or MEM; the address is not
\* validated (memory_address and strict_memory_address_p are not in this
\* file).
RECURSIVE OperandSubword(_, _, _)
OperandSubword(op, i, m) ==
    LET mode == IF m = "VOID" THEN op.mode ELSE m
    IN  IF mode = "VOID" THEN Abort
        ELSE IF Size(mode) < UNITS_PER_WORD \/ (i + 1) * UNITS_PER_WORD > Size(mode) THEN Null
        ELSE IF IsInt(mode) /\ Size(mode) = UNITS_PER_WORD THEN op
        ELSE IF op.code = "REG" THEN Subreg(word_mode, op, i)
        ELSE IF op.code = "SUBREG" THEN Subreg(word_mode, op.reg, i + op.word)
        ELSE IF op.code = "CONCAT"
        THEN LET partwords == UnitSize(op.mode) \div UNITS_PER_WORD
             IN  IF i < partwords THEN OperandSubword(op.op0, i, mode)
                 ELSE OperandSubword(op.op1, i - partwords, mode)
        ELSE IF op.code = "MEM" THEN Mem(word_mode, op.addr + i * UNITS_PER_WORD)
        ELSE ConstSubword(op, i, mode)

-----------------------------------------------------------------------------
(***************************************************************************)
(* Reference semantics.  Bit j of an rtx's value (bit 0 the least         *)
(* significant) is bit pos of a pseudo register, the bit of memory at     *)
(* unit address pos \div BITS_PER_UNIT, or a constant bit.  A SUBREG       *)
(* counts its word from the register's low address: with                  *)
(* WORDS_BIG_ENDIAN word 0 is the most significant one, and a SUBREG      *)
(* narrower than a word is the low part of its word.  Of a complex value  *)
(* the real part is at the low address.                                    *)
(***************************************************************************)
ConstBit(b) == [obj |-> "const", pos |-> b]
IntBit(v, j) == (v \div 2^j) % 2

\* The significance, in words, of the lowest word of a SUBREG.
LowWord(s) ==
    LET nw == Words(Size(s.reg.mode))
        k == Words(Size(s.mode))
    IN  IF WORDS_BIG_ENDIAN THEN nw - s.word - k ELSE s.word

RECURSIVE BitOf(_, _)
BitOf(x, j) ==
    CASE x.code = "REG" -> [obj |-> x.regno, pos |-> j]
      [] x.code = "SUBREG" -> BitOf(x.reg, LowWord(x) * BITS_PER_WORD + j)
      [] x.code = "MEM" ->
            LET k == j \div BITS_PER_UNIT
                a == IF BYTES_BIG_ENDIAN THEN x.addr + Size(x.mode) - 1 - k ELSE x.addr + k
            IN  [obj |-> "mem", pos |-> a * BITS_PER_UNIT + (j % BITS_PER_UNIT)]
      [] x.code = "ZERO_EXTEND" ->
            IF j < Bits(x.op.mode) THEN BitOf(x.op, j) ELSE ConstBit(0)
      [] x.code = "SIGN_EXTEND" -> BitOf(x.op, MIN(j, Bits(x.op.mode) - 1))
      [] x.code = "CONCAT" ->
            LET u == Bits(x.mode) \div 2
                k == j \div u
            IN  BitOf(IF (k = 0) # WORDS_BIG_ENDIAN THEN x.op0 ELSE x.op1, j - k * u)
      [] x.code = "CONST_INT" -> ConstBit(IntBit(x.val, MIN(j, H - 1)))
      [] x.code = "CONST_DOUBLE" ->
            IF j < H THEN ConstBit(IntBit(x.low, j))
            ELSE ConstBit(IntBit(x.high, MIN(j - H, H - 1)))

\* A CONST_INT as GCC keeps it for a mode of w bits: sign-extended.
CanonicalIn(v, w) == -2^(w - 1) <= v /\ v < 2^(w - 1)

-----------------------------------------------------------------------------
(***************************************************************************)
(* The rtxs the functions are applied to: pseudos of every integer and    *)
(* float mode, their SUBREGs (not paradoxical), MEMs, extensions, complex *)
(* CONCATs as gen_reg_rtx makes them, and integer constants in the form   *)
(* immed_double_const leaves them (a CONST_DOUBLE only when the high word *)
(* is not the sign of the low one).                                       *)
(***************************************************************************)
Addr == 8
RegModes == IntModes \cup FloatModes
Regs == {Reg(m, "p") : m \in RegModes}
Subregs ==
    {s \in {Subreg(m, Reg(M, "p"), w) : m, M \in RegModes, w \in 0 .. 3} :
        /\ s.mode # s.reg.mode /\ Size(s.mode) <= Size(s.reg.mode)
        /\ s.word + Words(Size(s.mode)) <= Words(Size(s.reg.mode))}
Mems == {Mem(m, Addr) : m \in IntModes}
Extends ==
    {e \in {[code |-> c, mode |-> M, op |-> Reg(m, "p")] :
               c \in {"ZERO_EXTEND", "SIGN_EXTEND"}, m, M \in IntModes} :
        Size(e.op.mode) < Size(e.mode)}
Concats ==
    {[code |-> "CONCAT", mode |-> cm, op0 |-> Reg(PartMode(cm), "p"),
      op1 |-> Reg(PartMode(cm), "q")] : cm \in ComplexModes}
HostInts ==
    {v \in {0, 1, -1, 5, -6, 2^(BITS_PER_WORD - 1), -2^(BITS_PER_WORD - 1) - 1,
            2^(H - 1) - 1, -2^(H - 1)} : CanonicalIn(v, H)}
Consts ==
    {GEN_INT(v) : v \in HostInts}
    \cup {ConstDouble(lo, hi) : lo \in {0, -1, 5, -2^(H - 1)}, hi \in {1, -2, 2^(H - 1) - 1, -2^(H - 1)}}
\* A constant together with a mode it is valid in.
ConstsIn(M) ==
    {c \in Consts : IF c.code = "CONST_INT" THEN Bits(M) >= H \/ CanonicalIn(c.val, Bits(M))
                    ELSE H < Bits(M) /\ Bits(M) <= 2 * H}

-----------------------------------------------------------------------------
(* Properties *)

\* gen_lowpart (emit-rtl.c 954) of a register, SUBREG, MEM, extension or
\* integer constant at least as wide as MODE never fails, and gives the
\* rtx whose value is the low-order bits of X's, under either word order:
\* the word gen_lowpart_common picks for a REG or SUBREG, the recursion
\* through an extension, the MEM offset with its byte adjustment, and the
\* narrowing of a constant.  Only the bits of MODE are compared: the
\* comment at 732-738 and the code (754-755) disagree on the bits above
\* them (see README).
LowpartIsLowBits ==
    \A m \in IntModes, x \in Regs \cup Subregs \cup Mems \cup Extends \cup Consts :
        IsConst(x) \/ Size(m) <= Size(x.mode) =>
            LET r == GenLowpart(m, x)
            IN  /\ r.code \notin {"NULL", "ABORT"}
                /\ r.mode = IF IsConst(x) THEN "VOID" ELSE m
                /\ \A j \in 0 .. Bits(m) - 1 : BitOf(r, j) = BitOf(x, j)

\* gen_highpart (996) in word_mode of a multiword register, MEM, or
\* SUBREG of a register of the same size, refers to the most significant
\* word of X: the REG word and the MEM offset agree with the word order.
HighpartIsHighWord ==
    \A x \in Regs \cup Mems \cup {s \in Subregs : Size(s.mode) = Size(s.reg.mode)} :
        Size(x.mode) > UNITS_PER_WORD =>
            LET r == GenHighpart(word_mode, x)
            IN  /\ r.mode = word_mode
                /\ \A j \in 0 .. BITS_PER_WORD - 1 :
                      BitOf(r, j) = BitOf(x, Bits(x.mode) - BITS_PER_WORD + j)

\* gen_realpart and gen_imagpart (903, 919) of a complex value in memory
\* give the part at the low and at the high address, as their comments
\* say, for parts narrower than, as wide as and wider than a word; of a
\* CONCAT, its two operands.  Each reaches gen_lowpart or gen_highpart by
\* the word order, so the MEM offsets of both are exercised.
ComplexPartsByAddress ==
    \A cm \in ComplexModes :
        LET pm == PartMode(cm)
            x == Mem(cm, Addr)
            c == CHOOSE y \in Concats : y.mode = cm
        IN  /\ GenRealpart(pm, x) = Mem(pm, Addr)
            /\ GenImagpart(pm, x) = Mem(pm, Addr + UnitSize(cm))
            /\ GenRealpart(pm, c) = c.op0 /\ GenImagpart(pm, c) = c.op1

\* operand_subword (1121) of an operand of one word or more returns, for
\* each word I counted from the low address, the rtx holding exactly that
\* word, and 0 past the last word; a word of an integer constant is
\* sign-extended from the word on a host wider than it.
SubwordsTileOperand ==
    \A in \in {<<x, "VOID">> : x \in {y \in Regs \cup Subregs \cup Mems \cup Concats :
                                          UnitSize(y.mode) >= UNITS_PER_WORD}}
              \cup UNION {{<<c, M>> : c \in ConstsIn(M)} :
                             M \in {N \in IntModes : Size(N) >= UNITS_PER_WORD}},
       i \in 0 .. 4 :
        LET x == in[1]
            n == Size(IF in[2] = "VOID" THEN x.mode ELSE in[2]) \div UNITS_PER_WORD
            r == OperandSubword(x, i, in[2])
        IN  IF i < n
            THEN /\ r.code \notin {"NULL", "ABORT"}
                 /\ \A j \in 0 .. BITS_PER_WORD - 1 :
                       BitOf(r, j) = BitOf(x, (IF WORDS_BIG_ENDIAN THEN n - 1 - i ELSE i)
                                              * BITS_PER_WORD + j)
                 /\ r.code = "CONST_INT" => CanonicalIn(r.val, BITS_PER_WORD)
            ELSE r.code = "NULL"

\* subreg_lowpart_p (1085) holds of a SUBREG exactly when it refers to the
\* least significant part of its register, as gen_lowpart_common computes
\* that part with its own formula.
LowpartRecognised ==
    \A s \in Subregs :
        SubregLowpartP(s) <=> \A j \in 0 .. Bits(s.mode) - 1 : BitOf(s, j) = BitOf(s.reg, j)

====
