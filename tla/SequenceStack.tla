--------------------------- MODULE SequenceStack ---------------------------
(***************************************************************************)
(* What emit-rtl.c promises its callers about the insn chain and the      *)
(* stack of pending sequences, with every chain a sequence of insns.      *)
(*   cur   -- the chain being emitted to (first_insn .. last_insn);       *)
(*   stk   -- the pending sequences, the innermost first; `via' says      *)
(*            whether start_sequence/push_to_sequence or                  *)
(*            push_topmost_sequence pushed the entry.  While a topmost    *)
(*            sequence is pushed the outermost chain is the current one,  *)
(*            and its stack entry holds nothing of its own;              *)
(*   held  -- chains a finished sequence handed to its caller;            *)
(*   made  -- the insns made so far;                                      *)
(*   saved -- the cur, stk and held of each enclosing function while a    *)
(*            nested one is compiled, the innermost first.                *)
(***************************************************************************)
EXTENDS Integers, Sequences, SequencesExt

CONSTANTS
    Insn,       \* the insns that may be made
    MaxDepth,   \* the deepest nesting of sequences
    MaxNesting  \* the deepest nesting of functions

VARIABLES cur, stk, held, made, saved

avars == <<cur, stk, held, made, saved>>

\* The outermost entry while a topmost sequence is pushed.
LentAt(s) == IF \E k \in 1 .. Len(s) : s[k].via = "topmost" THEN Len(s) ELSE 0

\* The chains an insn may be added to: the current one and the pending
\* ones that hold their own insns.
Open == {cur} \cup {stk[k].chain : k \in {j \in 1 .. Len(stk) : j # LentAt(stk)}}

\* s with t inserted after its insn a, or before its insn b.
AfterIn(s, a, t) ==
    LET i == CHOOSE k \in 1 .. Len(s) : s[k] = a
    IN  SubSeq(s, 1, i) \o t \o SubSeq(s, i + 1, Len(s))
BeforeIn(s, b, t) ==
    LET i == CHOOSE k \in 1 .. Len(s) : s[k] = b
    IN  SubSeq(s, 1, i - 1) \o t \o SubSeq(s, i, Len(s))

\* Replace the open chain holding insn a by F(chain).
Edit(a, F(_)) ==
    IF a \in ToSet(cur)
    THEN /\ cur' = F(cur) /\ UNCHANGED stk
    ELSE /\ \E k \in 1 .. Len(stk) :
               /\ k # LentAt(stk) /\ a \in ToSet(stk[k].chain)
               /\ stk' = [stk EXCEPT ![k].chain = F(stk[k].chain)]
         /\ UNCHANGED cur

Init == cur = <<>> /\ stk = <<>> /\ held = {} /\ made = {} /\ saved = <<>>

Emit(x) ==
    /\ x \notin made
    /\ cur' = Append(cur, x) /\ made' = made \cup {x}
    /\ UNCHANGED <<stk, held>>

EmitAfter(x, a) ==
    /\ x \notin made /\ a \in UNION {ToSet(c) : c \in Open}
    /\ Edit(a, LAMBDA s : AfterIn(s, a, <<x>>))
    /\ made' = made \cup {x}
    /\ UNCHANGED held

EmitBefore(x, b) ==
    /\ x \notin made /\ b \in UNION {ToSet(c) : c \in Open}
    /\ Edit(b, LAMBDA s : BeforeIn(s, b, <<x>>))
    /\ made' = made \cup {x}
    /\ UNCHANGED held

EmitChain(h) ==
    /\ h \in held
    /\ cur' = cur \o h /\ held' = held \ {h}
    /\ UNCHANGED <<stk, made>>

EmitChainAfter(h, a) ==
    /\ h \in held /\ a \in UNION {ToSet(c) : c \in Open}
    /\ Edit(a, LAMBDA s : AfterIn(s, a, h))
    /\ held' = held \ {h}
    /\ UNCHANGED made

EmitChainBefore(h, b) ==
    /\ h \in held /\ b \in UNION {ToSet(c) : c \in Open}
    /\ Edit(b, LAMBDA s : BeforeIn(s, b, h))
    /\ held' = held \ {h}
    /\ UNCHANGED made

\* Keep the first k insns of the current chain.
Truncate(k) ==
    /\ k \in 0 .. Len(cur)
    /\ cur' = SubSeq(cur, 1, k)
    /\ UNCHANGED <<stk, held, made>>

\* Move insns i .. j of the current chain after the insn a of an open
\* chain.
Move(i, j, a) ==
    /\ 1 <= i /\ i <= j /\ j <= Len(cur)
    /\ a \in UNION {ToSet(c) : c \in Open} \ ToSet(SubSeq(cur, i, j))
    /\ LET r == SubSeq(cur, i, j)
           rest == SubSeq(cur, 1, i - 1) \o SubSeq(cur, j + 1, Len(cur))
       IN  IF a \in ToSet(rest)
           THEN cur' = AfterIn(rest, a, r) /\ UNCHANGED stk
           ELSE /\ cur' = rest
                /\ \E k \in 1 .. Len(stk) :
                      /\ k # LentAt(stk) /\ a \in ToSet(stk[k].chain)
                      /\ stk' = [stk EXCEPT ![k].chain = AfterIn(stk[k].chain, a, r)]
    /\ UNCHANGED <<held, made>>

Push(c, via) ==
    /\ Len(stk) < MaxDepth
    /\ stk' = <<[chain |-> cur, via |-> via]>> \o stk
    /\ cur' = c

Start == Push(<<>>, "seq") /\ UNCHANGED <<held, made>>

PushTo(h) == h \in held /\ Push(h, "seq") /\ held' = held \ {h} /\ UNCHANGED made

\* A one-insn sequence is handed to its caller as the insn's contents:
\* the insn may be made again.
GenPattern ==
    /\ stk # <<>> /\ Head(stk).via = "seq"
    /\ Len(cur) = 1 /\ cur[1] \in made
    /\ made' = made \ {cur[1]}
    /\ UNCHANGED <<cur, stk, held>>

\* The entry pushed by a finished sequence returns; its insns go to the
\* caller, unless it took them as contents.
End ==
    /\ stk # <<>> /\ Head(stk).via = "seq"
    /\ cur' = Head(stk).chain /\ stk' = Tail(stk)
    /\ held' = IF cur = <<>> \/ cur[1] \notin made THEN held ELSE held \cup {cur}
    /\ UNCHANGED made

\* The outermost chain becomes current, its entry empty until the pop.
PushTopmost ==
    /\ Len(stk) < MaxDepth /\ LentAt(stk) = 0
    /\ LET s == <<[chain |-> cur, via |-> "topmost"]>> \o stk
       IN  /\ cur' = s[Len(s)].chain
           /\ stk' = [s EXCEPT ![Len(s)].chain = <<>>]
    /\ UNCHANGED <<held, made>>

\* The current chain goes back to the outermost entry, then the entry
\* pushed by PushTopmost returns.
PopTopmost ==
    /\ stk # <<>> /\ Head(stk).via = "topmost"
    /\ LET s == [stk EXCEPT ![Len(stk)].chain = cur]
       IN  /\ cur' = Head(s).chain /\ stk' = Tail(s)
    /\ UNCHANGED <<held, made>>

\* Insns handed back to be made again may be forgotten: they are never
\* made again.
Forget == \E f \in SUBSET (Insn \ made) : made' = made \cup f

\* A nested function starts with no chains of its own.
Save ==
    /\ Len(saved) < MaxNesting
    /\ saved' = <<[cur |-> cur, stk |-> stk, held |-> held]>> \o saved
    /\ cur' = <<>> /\ stk' = <<>> /\ held' = {}
    /\ Forget

\* When it is done, the enclosing function's chains are back as they
\* were; the nested function's insns are not made again.
Restore ==
    /\ saved # <<>> /\ stk = <<>>
    /\ cur' = Head(saved).cur /\ stk' = Head(saved).stk
    /\ held' = Head(saved).held /\ saved' = Tail(saved)
    /\ Forget

Emission ==
    \/ \E x \in Insn : Emit(x)
    \/ \E x, a \in Insn : EmitAfter(x, a) \/ EmitBefore(x, a)
    \/ \E h \in held : EmitChain(h)
    \/ \E h \in held, a \in Insn : EmitChainBefore(h, a) \/ EmitChainAfter(h, a)
    \/ \E k \in 0 .. Len(cur) : Truncate(k)
    \/ \E i, j \in 1 .. Len(cur), a \in Insn : Move(i, j, a)
    \/ Start \/ \E h \in held : PushTo(h)
    \/ GenPattern \/ End \/ PushTopmost \/ PopTopmost

Next == (Emission /\ UNCHANGED saved) \/ Save \/ Restore

Spec == Init /\ [][Next]_avars

=============================================================================
