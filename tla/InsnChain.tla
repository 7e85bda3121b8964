----------------------------- MODULE InsnChain -----------------------------
(***************************************************************************)
(* The doubly linked insn chain of emit-rtl.c and its sequence stack, at  *)
(* the level of the pointers: NEXT_INSN and PREV_INSN of every insn,      *)
(* first_insn and last_insn, and the sequence_stack entries saving the    *)
(* first and last insn of each pending sequence.  Insns are numbers, 0    *)
(* is the null rtx.  SEQUENCE patterns (filled delay slots) do not occur  *)
(* before flow analysis and are not modelled; neither is the              *)
(* sequence_element_free_list, which only recycles stack entries, nor     *)
(* sequence_rtl_expr, which is data.  free_insn, the list gen_sequence    *)
(* threads a one-insn sequence onto and make_insn_raw takes insns from,  *)
(* is modelled, and so is the part of save_emit_status, init_emit and     *)
(* restore_emit_status that switches the chain to a nested function and  *)
(* back.                                                                  *)
(***************************************************************************)
EXTENDS Integers, Sequences, FiniteSets, SequencesExt

CONSTANTS
    Insn,           \* the insns make_insn_raw may return
    MaxDepth,       \* the deepest nesting of sequences
    AfterAnywhere,  \* emit_insns_after and reorder_insns may be given an
                    \* insn of a pending sequence as AFTER
    ReuseFreeInsn,  \* rtx_equal_function_value_matters: make_insn_raw
                    \* takes insns from free_insn
    MaxNesting,     \* the deepest nesting of functions
    NonInsn         \* the CODE_LABEL, BARRIER and NOTE rtxs: emitted by
                    \* emit_label, emit_barrier and emit_note, never made
                    \* by make_insn_raw nor freed by gen_sequence

ASSUME MaxDepth \in Nat /\ MaxNesting \in Nat /\ Insn \subseteq Nat \ {0}
ASSUME NonInsn \subseteq Insn

Nil == 0

VARIABLES
    next, prev,   \* NEXT_INSN and PREV_INSN
    first, last,  \* first_insn and last_insn
    stack,        \* sequence_stack: [first, last, via], the innermost first
    held,         \* first insns of the chains finished sequences returned
    made,         \* the insns made_insn_raw has returned
    freeInsn,     \* free_insn, linked through NEXT_INSN
    gen,          \* what gen_sequence made of the current sequence:
                  \* "none", "pattern" (one insn) or "chain"
    outer,        \* the struct function of each enclosing function,
                  \* the innermost first
    retired       \* the insns of the nested functions already finished

\* `via' is not in the code: it records which call pushed the entry, so
\* that end_sequence and pop_topmost_sequence are only called in pairs
\* with the calls that pushed, as their callers do.  Likewise `gen': the
\* comment on end_sequence asks callers to call gen_sequence just before
\* it, and nothing else in between.  `held' and `made' in a saved struct function
\* and `retired' are not in the code either: the chains the enclosing
\* function's callers hold, the insns made before the nested function
\* started, and the insns whose function is over, whose storage (the
\* function's obstack) the compiler frees.

vars == <<next, prev, first, last, stack, held, made, freeInsn, gen, outer, retired>>

-----------------------------------------------------------------------------

\* The chain from x along NEXT_INSN.
RECURSIVE Walk(_, _)
Walk(x, n) == IF x = Nil \/ n = 0 THEN <<>> ELSE <<x>> \o Walk(next[x], n - 1)
ChainOf(x) == Walk(x, Cardinality(Insn))

\* The outermost entry, while push_topmost_sequence has lent its chain.
Lent(s) == IF \E k \in 1 .. Len(s) : s[k].via = "topmost" THEN Len(s) ELSE 0

\* The insns of the current chain and of the pending chains.
CurInsns == ToSet(ChainOf(first))
OpenInsns ==
    CurInsns \cup UNION {ToSet(ChainOf(stack[k].first)) :
                         k \in {j \in 1 .. Len(stack) : j # Lent(stack)}}

\* The tail of a held chain, as push_to_sequence and emit_insns_after find it.
TailOf(h) == Last(ChainOf(h))

Init ==
    /\ next = [i \in Insn |-> Nil] /\ prev = [i \in Insn |-> Nil]
    /\ first = Nil /\ last = Nil
    /\ stack = <<>> /\ held = {} /\ made = {}
    /\ freeInsn = Nil /\ gen = "none"
    /\ outer = <<>> /\ retired = {}

-----------------------------------------------------------------------------

\* Mutant: make_insn_raw takes free_insn without advancing it.
MakeInsnRaw_NoAdvance(x) ==
    /\ IF freeInsn # Nil /\ ReuseFreeInsn
       THEN x = freeInsn /\ UNCHANGED freeInsn
       ELSE x \notin made \cup NonInsn /\ UNCHANGED freeInsn
    /\ made' = made \cup {x}

\* make_insn_raw: the head of free_insn while RTL is being generated,
\* otherwise a fresh insn.
MakeInsnRaw(x) ==
    /\ IF freeInsn # Nil /\ ReuseFreeInsn
       THEN x = freeInsn /\ freeInsn' = next[freeInsn]
       ELSE x \notin made \cup NonInsn /\ UNCHANGED freeInsn
    /\ made' = made \cup {x}

\* add_insn: link x after last_insn and make it the last insn.
AddInsn(x) ==
    /\ prev' = [prev EXCEPT ![x] = last]
    /\ next' = [i \in Insn |-> IF i = x THEN Nil ELSE IF i = last THEN x ELSE next[i]]
    /\ first' = IF first = Nil THEN x ELSE first
    /\ last' = x

\* emit_insn of a non-SEQUENCE pattern.  A SEQUENCE pattern adds each of
\* its insns with add_insn, which is EmitInsns below.
EmitInsn(x) == MakeInsnRaw(x) /\ AddInsn(x) /\ UNCHANGED <<stack, held, gen>>

\* The innermost pending entry whose last (first) insn is a.
InnermostLast(a) == CHOOSE k \in 1 .. Len(stack) :
    stack[k].last = a /\ \A j \in 1 .. k - 1 : stack[j].last # a
InnermostFirst(b) == CHOOSE k \in 1 .. Len(stack) :
    stack[k].first = b /\ \A j \in 1 .. k - 1 : stack[j].first # b

\* Mutant: add_insn_after without the scan of the pending sequences.
AddInsnAfter_NoStackScan(x, a) ==
    LET nx == next[a] IN
    /\ next' = [i \in Insn |-> IF i = x THEN nx ELSE IF i = a THEN x ELSE next[i]]
    /\ prev' = [i \in Insn |-> IF i = x THEN a ELSE IF i = nx THEN x ELSE prev[i]]
    /\ last' = IF nx = Nil /\ last = a THEN x ELSE last
    /\ UNCHANGED stack

\* add_insn_after: at the end of a chain that is not the current one,
\* the pending sequences are scanned for the one ending at AFTER (the code
\* aborts if none does).
AddInsnAfter(x, a) ==
    LET nx == next[a] IN
    /\ next' = [i \in Insn |-> IF i = x THEN nx ELSE IF i = a THEN x ELSE next[i]]
    /\ prev' = [i \in Insn |-> IF i = x THEN a ELSE IF i = nx THEN x ELSE prev[i]]
    /\ last' = IF nx = Nil /\ last = a THEN x ELSE last
    /\ IF nx = Nil /\ last # a
       THEN /\ \E k \in 1 .. Len(stack) : stack[k].last = a
            /\ stack' = [stack EXCEPT ![InnermostLast(a)].last = x]
       ELSE UNCHANGED stack

\* add_insn_before, the mirror image.
AddInsnBefore(x, b) ==
    LET pv == prev[b] IN
    /\ prev' = [i \in Insn |-> IF i = x THEN pv ELSE IF i = b THEN x ELSE prev[i]]
    /\ next' = [i \in Insn |-> IF i = x THEN b ELSE IF i = pv THEN x ELSE next[i]]
    /\ first' = IF pv = Nil /\ first = b THEN x ELSE first
    /\ IF pv = Nil /\ first # b
       THEN /\ \E k \in 1 .. Len(stack) : stack[k].first = b
            /\ stack' = [stack EXCEPT ![InnermostFirst(b)].first = x]
       ELSE UNCHANGED stack

\* emit_insn_after of a non-SEQUENCE pattern.
EmitInsnAfter(x, a) ==
    /\ a \in OpenInsns
    /\ MakeInsnRaw(x) /\ AddInsnAfter(x, a)
    /\ UNCHANGED <<first, held, gen>>

\* emit_insn_after of the SEQUENCE gen_sequence made of a held chain:
\* add_insn_after of each insn after the one before it, so the pending
\* sequence ending at AFTER follows its new last insn.
EmitSequenceAfter(h, a) ==
    /\ h \in held /\ a \in OpenInsns
    /\ LET t == TailOf(h)
           nx == next[a]
       IN  /\ next' = [i \in Insn |-> IF i = a THEN h ELSE IF i = t THEN nx ELSE next[i]]
           /\ prev' = [i \in Insn |-> IF i = h THEN a ELSE IF i = nx THEN t ELSE prev[i]]
           /\ last' = IF nx = Nil /\ last = a THEN t ELSE last
           /\ IF nx = Nil /\ last # a
              THEN /\ \E k \in 1 .. Len(stack) : stack[k].last = a
                   /\ stack' = [stack EXCEPT ![InnermostLast(a)].last = t]
              ELSE UNCHANGED stack
    /\ held' = held \ {h}
    /\ UNCHANGED <<first, made, freeInsn, gen>>

\* emit_insn_before of a non-SEQUENCE pattern; a SEQUENCE pattern is
\* EmitInsnsBefore below.
EmitInsnBefore(x, b) ==
    /\ b \in OpenInsns
    /\ MakeInsnRaw(x) /\ AddInsnBefore(x, b)
    /\ UNCHANGED <<last, held, gen>>

\* emit_insns: add_insn of each insn of a held chain in turn, which links
\* the chain after last_insn as it is.
EmitInsns(h) ==
    /\ h \in held
    /\ next' = IF last = Nil THEN next ELSE [next EXCEPT ![last] = h]
    /\ prev' = [prev EXCEPT ![h] = last]
    /\ first' = IF first = Nil THEN h ELSE first
    /\ last' = TailOf(h)
    /\ held' = held \ {h}
    /\ UNCHANGED <<stack, made, freeInsn, gen>>

\* emit_insns_before: add_insn_before of each insn of a held chain in
\* turn, so the chain lands before BEFORE in order and the first insn
\* takes over BEFORE's place as a chain's first insn.
EmitInsnsBefore(h, b) ==
    /\ h \in held /\ b \in OpenInsns
    /\ LET t == TailOf(h)
           pv == prev[b]
       IN  /\ next' = [i \in Insn |-> IF i = t THEN b ELSE IF i = pv THEN h ELSE next[i]]
           /\ prev' = [i \in Insn |-> IF i = h THEN pv ELSE IF i = b THEN t ELSE prev[i]]
           /\ first' = IF pv = Nil /\ first = b THEN h ELSE first
           /\ IF pv = Nil /\ first # b
              THEN /\ \E k \in 1 .. Len(stack) : stack[k].first = b
                   /\ stack' = [stack EXCEPT ![InnermostFirst(b)].first = h]
              ELSE UNCHANGED stack
    /\ held' = held \ {h}
    /\ UNCHANGED <<last, made, freeInsn, gen>>

\* emit_insns_after: splice a held chain in after AFTER; last_insn moves
\* if AFTER was the last insn, and no pending sequence is looked at.
EmitInsnsAfter(h, a) ==
    /\ h \in held /\ a \in (IF AfterAnywhere THEN OpenInsns ELSE CurInsns)
    /\ LET t == TailOf(h)
           aa == next[a]
       IN  /\ next' = [i \in Insn |-> IF i = a THEN h ELSE IF i = t THEN aa ELSE next[i]]
           /\ prev' = [i \in Insn |-> IF i = h THEN a ELSE IF i = aa THEN t ELSE prev[i]]
           /\ last' = IF a = last THEN t ELSE last
    /\ held' = held \ {h}
    /\ UNCHANGED <<first, stack, made, freeInsn, gen>>

\* A new rtx of x's kind from rtx_alloc: make_jump_insn_raw and
\* make_call_insn_raw (never free_insn), or a BARRIER or NOTE.
AllocInsn(x, kinds) == x \in kinds /\ x \notin made /\ made' = made \cup {x}

\* emit_jump_insn and emit_call_insn of a non-SEQUENCE pattern: a fresh
\* JUMP_INSN or CALL_INSN, then add_insn; free_insn is left alone.  A
\* SEQUENCE pattern goes to emit_insn.
EmitJumpInsn(x) ==
    /\ AllocInsn(x, Insn \ NonInsn) /\ AddInsn(x)
    /\ UNCHANGED <<stack, held, freeInsn, gen>>

\* emit_jump_insn_before and emit_call_insn_before, with add_insn_before.
EmitJumpInsnBefore(x, b) ==
    /\ b \in OpenInsns
    /\ AllocInsn(x, Insn \ NonInsn) /\ AddInsnBefore(x, b)
    /\ UNCHANGED <<last, held, freeInsn, gen>>

\* emit_jump_insn_after, with add_insn_after.
EmitJumpInsnAfter(x, a) ==
    /\ a \in OpenInsns
    /\ AllocInsn(x, Insn \ NonInsn) /\ AddInsnAfter(x, a)
    /\ UNCHANGED <<first, held, freeInsn, gen>>

\* emit_barrier and emit_note (of a note the line check lets through): a
\* fresh BARRIER or NOTE, then add_insn.
EmitBarrier(x) ==
    /\ AllocInsn(x, NonInsn) /\ AddInsn(x)
    /\ UNCHANGED <<stack, held, freeInsn, gen>>

\* emit_barrier_before and emit_note_before.
EmitBarrierBefore(x, b) ==
    /\ b \in OpenInsns
    /\ AllocInsn(x, NonInsn) /\ AddInsnBefore(x, b)
    /\ UNCHANGED <<last, held, freeInsn, gen>>

\* emit_barrier_after and emit_note_after.
EmitBarrierAfter(x, a) ==
    /\ a \in OpenInsns
    /\ AllocInsn(x, NonInsn) /\ AddInsnAfter(x, a)
    /\ UNCHANGED <<first, held, freeInsn, gen>>

\* emit_label: a label gen_label_rtx made has INSN_UID 0 until it is
\* emitted; emitting it again does nothing.
EmitLabel(l) ==
    /\ l \in NonInsn
    /\ IF l \in made
       THEN UNCHANGED <<next, prev, first, last, made>>
       ELSE made' = made \cup {l} /\ AddInsn(l)
    /\ UNCHANGED <<stack, held, freeInsn, gen>>

\* emit_label_after, likewise.
EmitLabelAfter(l, a) ==
    /\ l \in NonInsn /\ a \in OpenInsns
    /\ IF l \in made
       THEN UNCHANGED <<next, prev, last, stack, made>>
       ELSE made' = made \cup {l} /\ AddInsnAfter(l, a)
    /\ UNCHANGED <<first, held, freeInsn, gen>>

\* delete_insns_since: FROM becomes the last insn.
DeleteInsnsSince(f) ==
    /\ f \in CurInsns \cup {Nil}
    /\ IF f = Nil THEN first' = Nil /\ UNCHANGED next
                  ELSE next' = [next EXCEPT ![f] = Nil] /\ UNCHANGED first
    /\ last' = f
    /\ UNCHANGED <<prev, stack, held, made, freeInsn, gen>>

\* The range FROM .. TO of a chain, in chain order.
IsRange(c, f, t) ==
    \E i, j \in 1 .. Len(c) : i <= j /\ c[i] = f /\ c[j] = t

\* Mutant: reorder_insns without `if (after == last_insn) last_insn = to'.
ReorderInsns_NoLastFix(f, t, a) ==
    /\ IsRange(ChainOf(first), f, t)
    /\ a \in (IF AfterAnywhere THEN OpenInsns ELSE CurInsns)
    /\ LET c == ChainOf(first)
           i == CHOOSE k \in 1 .. Len(c) : c[k] = f
           j == CHOOSE k \in 1 .. Len(c) : c[k] = t
       IN  a \notin ToSet(SubSeq(c, i, j))
    /\ LET n1 == IF prev[f] # Nil THEN [next EXCEPT ![prev[f]] = next[t]] ELSE next
           p1 == IF next[t] # Nil THEN [prev EXCEPT ![next[t]] = prev[f]] ELSE prev
           l1 == IF last = t THEN prev[f] ELSE last
           p2 == IF n1[a] # Nil THEN [p1 EXCEPT ![n1[a]] = t] ELSE p1
           n2 == [n1 EXCEPT ![t] = n1[a]]
       IN  /\ prev' = [p2 EXCEPT ![f] = a]
           /\ next' = [n2 EXCEPT ![a] = f]
           /\ last' = l1
           /\ first' = IF first = f THEN next[t] ELSE first
    /\ UNCHANGED <<stack, held, made, freeInsn, gen>>

\* reorder_insns: splice FROM .. TO out, then in after AFTER, the
\* assignments in the code's order.
ReorderInsns(f, t, a) ==
    /\ IsRange(ChainOf(first), f, t)
    /\ a \in (IF AfterAnywhere THEN OpenInsns ELSE CurInsns)
    /\ LET c == ChainOf(first)
           i == CHOOSE k \in 1 .. Len(c) : c[k] = f
           j == CHOOSE k \in 1 .. Len(c) : c[k] = t
       IN  a \notin ToSet(SubSeq(c, i, j))
    /\ LET n1 == IF prev[f] # Nil THEN [next EXCEPT ![prev[f]] = next[t]] ELSE next
           p1 == IF next[t] # Nil THEN [prev EXCEPT ![next[t]] = prev[f]] ELSE prev
           l1 == IF last = t THEN prev[f] ELSE last
           p2 == IF n1[a] # Nil THEN [p1 EXCEPT ![n1[a]] = t] ELSE p1
           n2 == [n1 EXCEPT ![t] = n1[a]]
       IN  /\ prev' = [p2 EXCEPT ![f] = a]
           /\ next' = [n2 EXCEPT ![a] = f]
           /\ last' = IF a = l1 THEN t ELSE l1
           /\ first' = IF first = f THEN next[t] ELSE first
    /\ UNCHANGED <<stack, held, made, freeInsn, gen>>

-----------------------------------------------------------------------------
(* The sequence stack.                                                     *)

\* start_sequence: save first_insn and last_insn, start an empty chain.
StartSequence ==
    /\ Len(stack) < MaxDepth
    /\ stack' = <<[first |-> first, last |-> last, via |-> "seq"]>> \o stack
    /\ first' = Nil /\ last' = Nil
    /\ UNCHANGED <<next, prev, held, made, freeInsn, gen>>

\* push_to_sequence: start_sequence, then continue the held chain.
PushToSequence(h) ==
    /\ h \in held /\ Len(stack) < MaxDepth
    /\ stack' = <<[first |-> first, last |-> last, via |-> "seq"]>> \o stack
    /\ first' = h /\ last' = TailOf(h)
    /\ held' = held \ {h}
    /\ UNCHANGED <<next, prev, made, freeInsn, gen>>

\* gen_sequence: a chain of one insn whose code allows it is handed back
\* as its pattern, and the insn is pushed on free_insn although it is
\* still first_insn and last_insn; any other chain is handed back as a
\* SEQUENCE of its insns, and nothing changes.  Whether the one insn is a
\* plain INSN, JUMP_INSN or usage-free CALL_INSN is left open; a lone
\* CODE_LABEL, BARRIER or NOTE is never freed.
GenSequence ==
    /\ gen = "none" /\ stack # <<>> /\ Head(stack).via = "seq"
    /\ \/ /\ first # Nil /\ next[first] = Nil /\ first \notin NonInsn
          /\ next' = [next EXCEPT ![first] = freeInsn]
          /\ freeInsn' = first
          /\ gen' = "pattern"
       \/ /\ gen' = "chain"
          /\ UNCHANGED <<next, freeInsn>>
    /\ UNCHANGED <<prev, first, last, stack, held, made>>

\* end_sequence: restore the saved chain.  The caller took the finished
\* one with get_insns or gen_sequence: as a chain it holds, unless
\* gen_sequence gave it a pattern.
EndSequence ==
    /\ stack # <<>> /\ Head(stack).via = "seq"
    /\ first' = Head(stack).first /\ last' = Head(stack).last
    /\ stack' = Tail(stack)
    /\ held' = IF first = Nil \/ gen = "pattern" THEN held ELSE held \cup {first}
    /\ gen' = "none"
    /\ UNCHANGED <<next, prev, made, freeInsn>>

\* push_topmost_sequence: start_sequence, then the outermost saved entry
\* becomes the current chain.  Callers do not nest it.
PushTopmostSequence ==
    /\ Len(stack) < MaxDepth /\ Lent(stack) = 0
    /\ LET s == <<[first |-> first, last |-> last, via |-> "topmost"]>> \o stack
       IN  /\ stack' = s
           /\ first' = s[Len(s)].first /\ last' = s[Len(s)].last
    /\ UNCHANGED <<next, prev, held, made, freeInsn, gen>>

\* pop_topmost_sequence: store the current chain into the outermost
\* entry, then end_sequence.
PopTopmostSequence ==
    /\ stack # <<>> /\ Head(stack).via = "topmost"
    /\ LET s == [stack EXCEPT ![Len(stack)].first = first, ![Len(stack)].last = last]
       IN  /\ first' = Head(s).first /\ last' = Head(s).last
           /\ stack' = Tail(s)
    /\ UNCHANGED <<next, prev, held, made, freeInsn, gen>>

Operations ==
    \/ \E x \in Insn : EmitInsn(x)
    \/ \E x, a \in Insn : EmitInsnAfter(x, a) \/ EmitInsnBefore(x, a)
    \/ \E x \in Insn : EmitJumpInsn(x) \/ EmitBarrier(x) \/ EmitLabel(x)
    \/ \E x, a \in Insn :
          \/ EmitJumpInsnBefore(x, a) \/ EmitJumpInsnAfter(x, a)
          \/ EmitBarrierBefore(x, a) \/ EmitBarrierAfter(x, a)
          \/ EmitLabelAfter(x, a)
    \/ \E h \in held : EmitInsns(h)
    \/ \E h \in held, a \in Insn :
          EmitInsnsBefore(h, a) \/ EmitInsnsAfter(h, a) \/ EmitSequenceAfter(h, a)
    \/ \E f \in CurInsns \cup {Nil} : DeleteInsnsSince(f)
    \/ \E f, t, a \in Insn : ReorderInsns(f, t, a)
    \/ StartSequence \/ \E h \in held : PushToSequence(h)
    \/ PushTopmostSequence \/ PopTopmostSequence

-----------------------------------------------------------------------------
(* Nested functions.                                                       *)

\* The emit status save_emit_status stores in the struct function: the
\* chain and the sequence stack (reg_rtx_no and the pointer tables are
\* RegTables' part; label numbers, uids and line numbers are data).
Status == [first |-> first, last |-> last, stack |-> stack, held |-> held, made |-> made]

\* init_emit's reset of the chain: no insns, no pending sequences, and
\* free_insn cleared.
InitEmit ==
    /\ first' = Nil /\ last' = Nil
    /\ stack' = <<>> /\ freeInsn' = Nil

\* A nested function starts: save_emit_status, then init_emit for the
\* nested function's RTL; its callers hold no chains yet.
SaveEmitStatus ==
    /\ Len(outer) < MaxNesting
    /\ outer' = <<Status>> \o outer
    /\ InitEmit
    /\ held' = {}
    /\ UNCHANGED <<next, prev, made, gen, retired>>

\* Mutant: restore_emit_status without `free_insn = 0'.
RestoreEmitStatus_KeepFree ==
    /\ outer # <<>> /\ stack = <<>>
    /\ LET p == Head(outer) IN
       /\ first' = p.first /\ last' = p.last
       /\ stack' = p.stack /\ held' = p.held
       /\ retired' = retired \cup (made \ p.made)
    /\ outer' = Tail(outer)
    /\ UNCHANGED <<next, prev, made, gen, freeInsn>>

\* The nested function is done: restore_emit_status puts back the
\* enclosing function's chain and sequence stack and clears free_insn.
\* Callers restore once the nested function's body is finished, outside
\* any sequence of its own.
RestoreEmitStatus ==
    /\ outer # <<>> /\ stack = <<>>
    /\ LET p == Head(outer) IN
       /\ first' = p.first /\ last' = p.last
       /\ stack' = p.stack /\ held' = p.held
       /\ retired' = retired \cup (made \ p.made)
    /\ outer' = Tail(outer)
    /\ freeInsn' = Nil
    /\ UNCHANGED <<next, prev, made, gen>>

\* Between gen_sequence and end_sequence nothing else is called, and a
\* function starts or ends only between emissions.
Next ==
    \/ (GenSequence \/ EndSequence) /\ UNCHANGED <<outer, retired>>
    \/ gen = "none" /\ Operations /\ UNCHANGED <<outer, retired>>
    \/ gen = "none" /\ (SaveEmitStatus \/ RestoreEmitStatus)

Spec == Init /\ [][Next]_vars

-----------------------------------------------------------------------------
(* Refinement: the chains the pointers spell out.                         *)

\* The pending chains of a sequence stack.
AbsStack(s) ==
    [k \in 1 .. Len(s) |->
        [chain |-> IF k = Lent(s) THEN <<>> ELSE ChainOf(s[k].first),
         via   |-> s[k].via]]

Abs == INSTANCE SequenceStack WITH
    cur   <- IF gen = "pattern" THEN <<first>> ELSE ChainOf(first),
    stk   <- AbsStack(stack),
    held  <- {ChainOf(h) : h \in held},
    made  <- made \ ToSet(ChainOf(freeInsn)),
    saved <- [k \in 1 .. Len(outer) |->
                 [cur  |-> ChainOf(outer[k].first),
                  stk  |-> AbsStack(outer[k].stack),
                  held |-> {ChainOf(h) : h \in outer[k].held}]]

-----------------------------------------------------------------------------
(* Properties.                                                             *)

\* The first and last insn of every chain the code keeps a handle on, in
\* the current function and in every enclosing one: the current one, the pending ones (the outermost excepted while lent to a
\* topmost sequence, whose entry pop_topmost_sequence rewrites) and the
\* held ones, which push_to_sequence and emit_insns walk to their end.
\* The current chain is left out between a gen_sequence that freed its
\* insn and end_sequence, which drops it.
Handles ==
    (IF gen = "pattern" THEN {} ELSE {[first |-> first, last |-> last]})
    \cup {[first |-> stack[k].first, last |-> stack[k].last] :
          k \in {j \in 1 .. Len(stack) : j # Lent(stack)}}
    \cup {[first |-> h, last |-> TailOf(h)] : h \in held}
    \cup UNION {{[first |-> p.first, last |-> p.last]}
                \cup {[first |-> p.stack[k].first, last |-> p.stack[k].last] :
                      k \in {j \in 1 .. Len(p.stack) : j # Lent(p.stack)}}
                \cup {[first |-> h, last |-> TailOf(h)] : h \in p.held} :
                p \in ToSet(outer)}

\* Every chain is a proper doubly linked list: NEXT_INSN from its first
\* insn ends at its recorded last insn, PREV_INSN mirrors NEXT_INSN, and
\* no insn is in two chains.
ChainsWellLinked ==
    /\ \A d \in Handles :
          LET c == ChainOf(d.first) IN
          /\ (d.first = Nil) = (d.last = Nil)
          /\ d.first # Nil =>
                /\ Last(c) = d.last /\ next[d.last] = Nil /\ prev[d.first] = Nil
                /\ \A k \in 1 .. Len(c) - 1 : prev[c[k + 1]] = c[k]
    /\ \A d1, d2 \in Handles :
          d1 # d2 => ToSet(ChainOf(d1.first)) \cap ToSet(ChainOf(d2.first)) = {}

\* free_insn is a list that ends, and no insn on it is in a chain the
\* code still links into or hands out: an insn gen_sequence put there
\* leaves the current chain at end_sequence, and make_insn_raw takes it
\* off before add_insn links it again.
FreeInsnsDetached ==
    LET fl == ChainOf(freeInsn) IN
    /\ fl # <<>> => next[Last(fl)] = Nil
    /\ \A d \in Handles : ToSet(ChainOf(d.first)) \cap ToSet(fl) = {}

\* No insn of a finished nested function is reachable again: none is in
\* a chain of an enclosing function, held by its callers, or on the
\* free_insn list make_insn_raw takes from, since restore_emit_status
\* drops the list the nested function's gen_sequence calls built.
FinishedInsnsUnused ==
    retired \cap (ToSet(ChainOf(freeInsn))
                  \cup UNION {ToSet(ChainOf(d.first)) : d \in Handles}) = {}

\* The pointer operations implement the chain operations callers rely on:
\* appending, inserting, truncating, moving, and pushing and popping
\* sequences act on the chains as SequenceStack says.
AbsSpec == Abs!Spec

=============================================================================
