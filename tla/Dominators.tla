---------------------------- MODULE Dominators ----------------------------
(***************************************************************************)
(* compute_preds_succs and compute_dominators of flow.c, with the sbitmap *)
(* operations they use.  A program is fixed by Init as the way every      *)
(* block ends; the block graph with its ENTRY and EXIT pseudo-blocks is   *)
(* derived from it the way compute_preds_succs reads the label reference  *)
(* chains, the drop-in flags and the block ends.  An sbitmap is the set   *)
(* of its bits; sbitmap_ones sets every bit of the words allocated, not   *)
(* only the n_basic_blocks bits in use.                                   *)
(***************************************************************************)
EXTENDS Integers, FiniteSets

CONSTANTS
    NBlocks,      \* n_basic_blocks
    Ends,         \* the ways a block may end
    WordBits,     \* bits in an SBITMAP_ELT_TYPE (unsigned HOST_WIDE_INT)
    Entry, Exit   \* ENTRY_BLOCK and EXIT_BLOCK

ASSUME NBlocks \in Nat \ {0} /\ WordBits \in Nat \ {0}

Blocks == 0 .. NBlocks - 1

\* SBITMAP_SET_SIZE (n_basic_blocks) words: the bits memset sets.
Bits == 0 .. ((NBlocks + WordBits - 1) \div WordBits) * WordBits - 1

VARIABLES
    ends,      \* how each block ends: "fall", "return", "jump" or "cjump"
    preds,     \* s_preds
    succs,     \* s_succs
    dom,       \* dominators
    postdom,   \* post_dominators
    temp,      \* temp_bitmap
    bb,        \* the loop variable of compute_dominators
    changed,   \* changed
    pc         \* "preds", "init", "dom", "done"

vars == <<ends, preds, succs, dom, postdom, temp, bb, changed, pc>>

-----------------------------------------------------------------------------
(* The block graph compute_preds_succs reads off a program.               *)

\* basic_block_drops_in: the previous block does not end in a BARRIER,
\* which follows every unconditional jump and every return.
DropsIn(e, b) == b > 0 /\ e[b - 1].kind \notin {"jump", "return"}

\* A RETURN, or a conditional jump or a non-jump in the last block,
\* reaches the exit block.
ExitEdge(e, b) ==
    \/ e[b].kind = "return"
    \/ b = NBlocks - 1 /\ e[b].kind \in {"cjump", "fall"}

\* Every add_pred_succ (pred, succ) call compute_preds_succs makes: the
\* LABEL_REFS chain of each block's label, the exit edges, the drop-in
\* edges and the edge from ENTRY to block 0.
Edges(e) ==
    {<<b, e[b].to>> : b \in {x \in Blocks : e[x].kind \in {"jump", "cjump"}}}
    \cup {<<b, Exit>> : b \in {x \in Blocks : ExitEdge(e, x)}}
    \cup {<<b - 1, b>> : b \in {x \in Blocks : DropsIn(e, x)}}
    \cup {<<Entry, 0>>}

CFG(e) == [node |-> Blocks \cup {Entry, Exit}, edge |-> Edges(e)]

\* The nodes reachable from n along the edges of G.
RECURSIVE ReachFrom(_, _)
ReachFrom(E, S) ==
    LET S2 == S \cup {x[2] : x \in {y \in E : y[1] \in S}}
    IN  IF S2 = S THEN S ELSE ReachFrom(E, S2)

Reach(G, n) == ReachFrom(G.edge, {n})

-----------------------------------------------------------------------------
(* The sbitmap operations.                                                 *)

\* Mutant: the changed flag compares the result with B instead of DST.
AndB_CmpB(dst, a, b) == <<a \cap b, b # a \cap b>>

\* sbitmap_a_and_b: DST = A & B, and whether DST changed.
AndB(dst, a, b) == <<a \cap b, dst # a \cap b>>

\* Mutant: the `break' taken after the first real block ends the scan.
IntersectOfPredsucc_First(dst, src, ps) ==
    LET real == ps \ {Entry, Exit} IN
    IF ps = {} THEN Bits
    ELSE IF real = {} THEN dst
    ELSE src[CHOOSE p \in real : \A p2 \in real : p <= p2]

\* sbitmap_intersect_of_predsucc: ones for an empty list; otherwise the
\* intersection over the real blocks of the list, ENTRY and EXIT skipped,
\* and DST left as it was when the list holds nothing else.
IntersectOfPredsucc(dst, src, ps) ==
    LET real == ps \ {Entry, Exit} IN
    IF ps = {} THEN Bits
    ELSE IF real = {} THEN dst
    ELSE {x \in Bits : \A p \in real : x \in src[p]}

-----------------------------------------------------------------------------

\* Every block is reachable from ENTRY: find_basic_blocks has deleted the
\* blocks it could not reach.
Init ==
    /\ ends \in {e \in [Blocks -> Ends] : Blocks \subseteq Reach(CFG(e), Entry)}
    /\ preds = [b \in Blocks |-> {}]
    /\ succs = [b \in Blocks |-> {}]
    /\ dom = [b \in Blocks |-> {}]
    /\ postdom = [b \in Blocks |-> {}]
    /\ temp = [b \in Blocks |-> {}]
    /\ bb = 1
    /\ changed = FALSE
    /\ pc = "preds"

\* compute_preds_succs: the lists hold each edge once; EXIT gets no
\* predecessor list and ENTRY no successor list.
ComputePredsSuccs ==
    /\ pc = "preds"
    /\ preds' = [t \in Blocks |-> {p \in Blocks \cup {Entry} : <<p, t>> \in Edges(ends)}]
    /\ succs' = [b \in Blocks |-> {s \in Blocks \cup {Exit} : <<b, s>> \in Edges(ends)}]
    /\ pc' = "init"
    /\ UNCHANGED <<ends, dom, postdom, temp, bb, changed>>

\* The set-up of compute_dominators, with the post-dominators of the last
\* block seeded as the code seeds them.
DominatorsInit ==
    /\ pc = "init"
    /\ dom' = [b \in Blocks |-> IF b = 0 THEN {0} ELSE Bits]
    /\ postdom' = [b \in Blocks |-> IF b = NBlocks - 1 THEN {0} ELSE Bits]
    /\ temp' = [b \in Blocks |-> {}]
    /\ bb' = 1
    /\ changed' = FALSE
    /\ pc' = "dom"
    /\ UNCHANGED <<ends, preds, succs>>

\* One iteration of the inner loop: temp_bitmap[bb] is first the
\* intersection over the predecessors, then over the successors.
DomIteration ==
    /\ pc = "dom" /\ bb < NBlocks
    /\ LET tp == IntersectOfPredsucc(temp[bb], dom, preds[bb]) \cup {bb}
           d  == AndB(dom[bb], dom[bb], tp)
           tq == IntersectOfPredsucc(tp, postdom, succs[bb]) \cup {bb}
           q  == AndB(postdom[bb], postdom[bb], tq)
       IN  /\ dom' = [dom EXCEPT ![bb] = d[1]]
           /\ postdom' = [postdom EXCEPT ![bb] = q[1]]
           /\ temp' = [temp EXCEPT ![bb] = tq]
           /\ changed' = (changed \/ d[2] \/ q[2])
    /\ bb' = bb + 1
    /\ UNCHANGED <<ends, preds, succs, pc>>

\* Mutant: the inner loop starts at block 0.
NextDomPass_FromZero ==
    /\ pc = "dom" /\ bb = NBlocks /\ changed
    /\ bb' = 0
    /\ changed' = FALSE
    /\ UNCHANGED <<ends, preds, succs, dom, postdom, temp, pc>>

\* `while (changed)': another pass over blocks 1 .. n_basic_blocks - 1.
NextDomPass ==
    /\ pc = "dom" /\ bb = NBlocks /\ changed
    /\ bb' = 1
    /\ changed' = FALSE
    /\ UNCHANGED <<ends, preds, succs, dom, postdom, temp, pc>>

DomDone ==
    /\ pc = "dom" /\ bb = NBlocks /\ ~changed
    /\ pc' = "done"
    /\ UNCHANGED <<ends, preds, succs, dom, postdom, temp, bb, changed>>

Finished ==
    /\ pc = "done"
    /\ UNCHANGED vars

Next ==
    \/ ComputePredsSuccs
    \/ DominatorsInit
    \/ DomIteration
    \/ NextDomPass
    \/ DomDone
    \/ Finished

\* compute_dominators is a sequential loop nest.
Spec == Init /\ [][Next]_vars /\ WF_vars(Next)

-----------------------------------------------------------------------------
(* Reference: dominance by paths in the block graph.                       *)

Without(G, d) == [node |-> G.node \ {d},
                  edge |-> {x \in G.edge : x[1] # d /\ x[2] # d}]

\* d dominates b: every path from ENTRY to b passes through d.
DomRef(b) ==
    {d \in Blocks : d = b \/ b \notin Reach(Without(CFG(ends), d), Entry)}

\* d post-dominates b: every path from b to EXIT passes through d.
PostDomRef(b) ==
    {d \in Blocks : d = b \/ Exit \notin Reach(Without(CFG(ends), d), b)}

-----------------------------------------------------------------------------
(* Properties.                                                             *)

\* The loop of compute_dominators only ever visits blocks 1 .. n-1 (block
\* 0 keeps its seed) and every bitmap stays inside its allocated words.
TypeOK ==
    /\ preds \in [Blocks -> SUBSET (Blocks \cup {Entry})]
    /\ succs \in [Blocks -> SUBSET (Blocks \cup {Exit})]
    /\ dom \in [Blocks -> SUBSET Bits]
    /\ postdom \in [Blocks -> SUBSET Bits]
    /\ temp \in [Blocks -> SUBSET Bits]
    /\ bb \in 1 .. NBlocks
    /\ changed \in BOOLEAN
    /\ pc \in {"preds", "init", "dom", "done"}

\* When compute_dominators returns, dominators[b] is exactly the set of
\* blocks through which every path from the entry to b passes, with no
\* padding bit of sbitmap_ones left over.
DomCorrect == pc = "done" => \A b \in Blocks : dom[b] = DomRef(b)

\* When compute_dominators returns, post_dominators[b] of every block
\* that can reach the exit is exactly the set of blocks through which
\* every path from b to the exit passes.
PostDomCorrect ==
    pc = "done" =>
        \A b \in Blocks : Exit \in Reach(CFG(ends), b) => postdom[b] = PostDomRef(b)

\* The `while (changed)' loop of compute_dominators terminates.
Termination == <>(pc = "done")

=============================================================================
