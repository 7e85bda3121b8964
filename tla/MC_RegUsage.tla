---------------------------- MODULE MC_RegUsage -----------------------------
(***************************************************************************)
(* RegUsage with two pseudos: the shapes are built over <<2, 2>> (the     *)
(* no-op moves and self-addressed stores), <<2, 3>> and <<3, 2>> (a value *)
(* flowing from one pseudo to the other, both ways).  <<3, 3>> would only *)
(* repeat <<2, 2>> for the other register.                                *)
(*                                                                         *)
(* The same run checks the subword functions that take these pseudos     *)
(* apart (Subword), on the MIPS GNU/Linux targets of config/mips: big-    *)
(* endian (linux.h) and little-endian (llinux.h) with 32-bit words, on a  *)
(* 32-bit and a 64-bit host (xm-linux.h takes HOST_BITS_PER_LONG from    *)
(* _MIPS_SZLONG), and little-endian with 64-bit words (llinux64.h).  Unit *)
(* sizes are scaled by BITS_PER_UNIT = 2: a word of 4 units is 8 bits, a  *)
(* 32-bit host wide int 8 bits, a 64-bit one 16.  The subword functions   *)
(* are pure functions of their operand and the target, so each property  *)
(* is checked once, in the state init_emit leaves, over every operand.   *)
(***************************************************************************)
EXTENDS RegUsage

MCShapePairs == {<<2, 2>>, <<2, 3>>, <<3, 2>>}

MipsEB == INSTANCE Subword WITH BITS_PER_UNIT <- 2, UNITS_PER_WORD <- 4,
    WORDS_BIG_ENDIAN <- TRUE, BYTES_BIG_ENDIAN <- TRUE, HOST_BITS_PER_WIDE_INT <- 8
MipsEL == INSTANCE Subword WITH BITS_PER_UNIT <- 2, UNITS_PER_WORD <- 4,
    WORDS_BIG_ENDIAN <- FALSE, BYTES_BIG_ENDIAN <- FALSE, HOST_BITS_PER_WIDE_INT <- 8
MipsEBOn64 == INSTANCE Subword WITH BITS_PER_UNIT <- 2, UNITS_PER_WORD <- 4,
    WORDS_BIG_ENDIAN <- TRUE, BYTES_BIG_ENDIAN <- TRUE, HOST_BITS_PER_WIDE_INT <- 16
Mips64EL == INSTANCE Subword WITH BITS_PER_UNIT <- 2, UNITS_PER_WORD <- 8,
    WORDS_BIG_ENDIAN <- FALSE, BYTES_BIG_ENDIAN <- FALSE, HOST_BITS_PER_WIDE_INT <- 16

\* On every target, gen_lowpart gives the low-order bits of its operand
\* (Subword!LowpartIsLowBits).
LowpartIsLowBits ==
    Init =>
        /\ MipsEB!LowpartIsLowBits /\ MipsEL!LowpartIsLowBits
        /\ MipsEBOn64!LowpartIsLowBits /\ Mips64EL!LowpartIsLowBits

\* On every target, gen_highpart in word_mode gives the most significant
\* word (Subword!HighpartIsHighWord).
HighpartIsHighWord ==
    Init =>
        /\ MipsEB!HighpartIsHighWord /\ MipsEL!HighpartIsHighWord
        /\ MipsEBOn64!HighpartIsHighWord /\ Mips64EL!HighpartIsHighWord

\* On every target, gen_realpart and gen_imagpart of a complex value in
\* memory give the parts at the low and high address
\* (Subword!ComplexPartsByAddress).
ComplexPartsByAddress ==
    Init =>
        /\ MipsEB!ComplexPartsByAddress /\ MipsEL!ComplexPartsByAddress
        /\ MipsEBOn64!ComplexPartsByAddress /\ Mips64EL!ComplexPartsByAddress

\* On every target, operand_subword gives each word of its operand, in
\* address order, and constants' words sign-extended
\* (Subword!SubwordsTileOperand).
SubwordsTileOperand ==
    Init =>
        /\ MipsEB!SubwordsTileOperand /\ MipsEL!SubwordsTileOperand
        /\ MipsEBOn64!SubwordsTileOperand /\ Mips64EL!SubwordsTileOperand

\* On every target, subreg_lowpart_p recognises exactly the SUBREGs that
\* refer to the low part of their register (Subword!LowpartRecognised).
LowpartRecognised ==
    Init =>
        /\ MipsEB!LowpartRecognised /\ MipsEL!LowpartRecognised
        /\ MipsEBOn64!LowpartRecognised /\ Mips64EL!LowpartRecognised

=============================================================================
