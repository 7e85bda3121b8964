---------------------------- MODULE Reachability ----------------------------
(***************************************************************************)
(* The second half of find_basic_blocks_1: marking the reachable blocks   *)
(* to a fixed point, the sanity check on live labels without references, *)
(* deleting the unreachable blocks together with a jump around them, and  *)
(* the restart when more than a threshold of blocks died on pass 1.       *)
(*                                                                         *)
(* A program is the shape of each block, chosen by Init: how it ends      *)
(* ("fall", "call" -- a call that may throw or do a nonlocal goto,        *)
(* "return", "jump" or "cjump" to a block, or "computed" -- a computed    *)
(* jump), the label at its head ("none", "plain", "forced" -- on          *)
(* forced_labels and so LABEL_PRESERVE_P, "handler" -- an exception       *)
(* handler label, or "nonlocal" -- on nonlocal_label_list), and the block *)
(* whose label a REG_LABEL note on one of its insns names, if any.        *)
(* Blocks keep their pass-1 numbers on pass 2; `alive' is the set of      *)
(* blocks the current pass has.                                           *)
(***************************************************************************)
EXTENDS Integers, FiniteSets

CONSTANTS
    NBlocks,           \* n_basic_blocks on pass 1
    Shapes,            \* the shapes a block may have
    RestartThreshold   \* 200: deletions on pass 1 that force a second pass

Blocks == 0 .. NBlocks - 1
NoBlock == -1

VARIABLES
    shape,     \* each block's end and head label
    endKind,   \* the end insn's kind; "deleted" once a jump-around is deleted
    alive,     \* the blocks of the current pass
    dropsIn,   \* basic_block_drops_in
    live,      \* block_live
    marked,    \* block_marked
    refs,      \* LABEL_REFS of each block's label: for each reference, the
               \* block of its CONTAINING_INSN and whether that insn is the
               \* block's end ("end") or an insn with a REG_LABEL note
    something, \* something_marked
    deleted,   \* the blocks deleted on this pass
    i,         \* the loop variable of the current loop
    pass,      \* pass
    pc         \* "mark", "check", "delete", "done", "abort"

vars == <<shape, endKind, alive, dropsIn, live, marked, refs, something,
          deleted, i, pass, pc>>

-----------------------------------------------------------------------------

\* The first block of a pass, and the next and previous block of b in it.
FirstOf(a) == CHOOSE k \in a : \A m \in a : k <= m
NextIn(a, b) == IF \E k \in a : k > b
                THEN CHOOSE k \in a : k > b /\ \A m \in a : m > b => k <= m
                ELSE NBlocks
PrevIn(a, b) == IF \E k \in a : k < b
                THEN CHOOSE k \in a : k < b /\ \A m \in a : m < b => k >= m
                ELSE NoBlock
First == FirstOf(alive)
Nxt(b) == NextIn(alive, b)
Prv(b) == PrevIn(alive, b)

\* The labels that are LABEL_PRESERVE_P and start a reachable block.
Preserved == {b \in alive : shape[b].label = "forced"}

\* The handler labels a call in a block may pass control to.
Handlers == {b \in alive : shape[b].label = "handler"}

\* nonlocal_label_list: the labels a nonlocal goto may reach.
Nonlocal == {b \in alive : shape[b].label = "nonlocal"}

\* label_value_list, which the tagging loop gathers from the REG_LABEL
\* notes of the insns of the pass.
ValueLabels == {shape[b].note : b \in {x \in alive : shape[x].note # NoBlock}}

\* basic_block_drops_in as the tagging loop computes it over the blocks a:
\* the nearest non-note insn before the head is not a BARRIER, which
\* follows every simple jump, every computed jump and every return.  A deleted jump-around has
\* lost its BARRIER, and a deleted block is notes only.
DropsInOver(a, e) ==
    [b \in Blocks |-> b \in a /\ b # FirstOf(a) /\ e[PrevIn(a, b)] \notin {"jump", "computed", "return"}]

\* The labels mark_label_ref reaches from the end insn of a block being
\* marked: the target in a jump's pattern, and every forced label.
JumpTargets(b) ==
    (IF endKind[b] \in {"jump", "cjump"} THEN {shape[b].to} ELSE {}) \cup Preserved

\* A computed jump reaches every label on label_value_list and on
\* forced_labels.
ComputedTargets(b) ==
    IF endKind[b] = "computed" THEN ValueLabels \cup Preserved ELSE {}

\* A call that is not a library call's REG_RETVAL insn reaches the
\* handlers of its region and every nonlocal label.
CallTargets(b) == IF endKind[b] = "call" THEN Handlers \cup Nonlocal ELSE {}

EndTargets(b) == JumpTargets(b) \cup ComputedTargets(b) \cup CallTargets(b)

\* The label a REG_LABEL note in the block names: its block is made live
\* and gets a reference from the note's insn.
NoteTargets(b) == IF shape[b].note = NoBlock THEN {} ELSE {shape[b].note}

Targets(b) == EndTargets(b) \cup NoteTargets(b)

\* LABEL_REFS after marking block b.
AddRefs(b) ==
    [t \in Blocks |->
        refs[t] \cup (IF t \in EndTargets(b) THEN {[from |-> b, at |-> "end"]} ELSE {})
                \cup (IF t \in NoteTargets(b) THEN {[from |-> b, at |-> "note"]} ELSE {})]

\* The tagging loop's part: block 0 and the preserved labels are live,
\* every label's reference chain is empty.
StartPass(p, a) ==
    /\ pass' = p
    /\ alive' = a
    /\ live' = {FirstOf(a)} \cup {b \in a : shape[b].label = "forced"}
    /\ marked' = {}
    /\ refs' = [b \in Blocks |-> {}]
    /\ something' = FALSE
    /\ deleted' = {}
    /\ i' = FirstOf(a)
    /\ pc' = "mark"

\* The programs jump leaves: a jump's target starts with a label that is
\* not a handler, a block without a label follows a jump, a return or a
\* call that ends a block, a call ends a block only where there are
\* handlers or nonlocal labels, and a REG_LABEL note names a label.
Program(s) ==
    /\ \A b \in Blocks : s[b].kind \in {"jump", "cjump"} =>
           s[s[b].to].label \in {"plain", "forced"}
    /\ \A b \in Blocks \ {0} : s[b].label = "none" =>
           s[b - 1].kind \in {"jump", "cjump", "return", "call", "computed"}
    /\ \A b \in Blocks : s[b].kind = "call" =>
           \E h \in Blocks : s[h].label \in {"handler", "nonlocal"}
    /\ \A b \in Blocks : s[b].note # NoBlock => s[s[b].note].label # "none"

Init ==
    /\ shape \in {s \in [Blocks -> Shapes] : Program(s)}
    /\ endKind = [b \in Blocks |-> shape[b].kind]
    /\ dropsIn = DropsInOver(Blocks, endKind)
    /\ pass = 1
    /\ alive = Blocks
    /\ live = {0} \cup {b \in Blocks : shape[b].label = "forced"}
    /\ marked = {}
    /\ refs = [b \in Blocks |-> {}]
    /\ something = FALSE
    /\ deleted = {}
    /\ i = 0
    /\ pc = "mark"

-----------------------------------------------------------------------------
(* The marking loop.                                                       *)

\* Mutant: `i + 1 < n_basic_blocks' is dropped, and the drop-in flag past
\* the last block is read as set.
MarkBlock_NoBound ==
    /\ pc = "mark" /\ i < NBlocks
    /\ i \in live /\ i \notin marked
    /\ marked' = marked \cup {i}
    /\ something' = TRUE
    /\ live' = live \cup Targets(i)
               \cup (IF Nxt(i) = NBlocks \/ dropsIn[Nxt(i)] THEN {Nxt(i)} ELSE {})
    /\ refs' = AddRefs(i)
    /\ i' = Nxt(i)
    /\ UNCHANGED <<shape, endKind, alive, dropsIn, deleted, pass, pc>>

\* Block i is live and not yet marked: mark it, make the block it drops
\* into live, and put it on the reference chain of every label it reaches.
MarkBlock ==
    /\ pc = "mark" /\ i < NBlocks
    /\ i \in live /\ i \notin marked
    /\ marked' = marked \cup {i}
    /\ something' = TRUE
    /\ live' = live \cup Targets(i)
               \cup (IF Nxt(i) < NBlocks /\ dropsIn[Nxt(i)] THEN {Nxt(i)} ELSE {})
    /\ refs' = AddRefs(i)
    /\ i' = Nxt(i)
    /\ UNCHANGED <<shape, endKind, alive, dropsIn, deleted, pass, pc>>

SkipBlock ==
    /\ pc = "mark" /\ i < NBlocks
    /\ ~(i \in live /\ i \notin marked)
    /\ i' = Nxt(i)
    /\ UNCHANGED <<shape, endKind, alive, dropsIn, live, marked, refs,
                   something, deleted, pass, pc>>

\* Mutant: `while (something_marked)' written as a single sweep.
MarkSweepEnd_Once ==
    /\ pc = "mark" /\ i = NBlocks
    /\ pc' = "check"
    /\ UNCHANGED <<shape, endKind, alive, dropsIn, live, marked, refs,
                   something, deleted, i, pass>>

\* `while (something_marked)': another sweep, or on to the check.
MarkSweepEnd ==
    /\ pc = "mark" /\ i = NBlocks
    /\ IF something
       THEN /\ i' = First /\ something' = FALSE /\ UNCHANGED pc
       ELSE /\ pc' = "check" /\ UNCHANGED <<i, something>>
    /\ UNCHANGED <<shape, endKind, alive, dropsIn, live, marked, refs,
                   deleted, pass>>

\* Mutant: the check forgets `! basic_block_drops_in[i]'.
LabelCheck_NoDropsTest ==
    /\ pc = "check"
    /\ pc' = IF \E b \in alive \ {First} :
                  b \in live /\ shape[b].label # "none" /\ refs[b] = {}
             THEN "abort" ELSE "delete"
    /\ i' = First
    /\ UNCHANGED <<shape, endKind, alive, dropsIn, live, marked, refs,
                   something, deleted, pass>>

\* The abort on a live block headed by a label nothing refers to and not
\* dropped into.
LabelCheck ==
    /\ pc = "check"
    /\ pc' = IF \E b \in alive \ {First} :
                  b \in live /\ ~dropsIn[b] /\ shape[b].label # "none" /\ refs[b] = {}
             THEN "abort" ELSE "delete"
    /\ i' = First
    /\ UNCHANGED <<shape, endKind, alive, dropsIn, live, marked, refs,
                   something, deleted, pass>>

-----------------------------------------------------------------------------
(* The deletion loop.                                                      *)

\* The first live block after b, where the jump-around search stops.
NextLive(b) == NextIn(live \cap alive, b)

\* Mutant: the drop-in loop stops before block j (`k < j').
DeleteBlock_DropsBeforeJ ==
    /\ pc = "delete" /\ i < NBlocks
    /\ i \notin live
    /\ deleted' = deleted \cup {i}
    /\ LET p == Prv(i)
           j == NextLive(i)
       IN  IF p \in live /\ j < NBlocks
              /\ endKind[p] = "jump" /\ shape[p].to = j
           THEN /\ endKind' = [endKind EXCEPT ![p] = "deleted"]
                /\ dropsIn' = [b \in Blocks |-> IF b \in alive /\ i <= b /\ b < j
                                                THEN TRUE ELSE dropsIn[b]]
           ELSE UNCHANGED <<endKind, dropsIn>>
    /\ i' = Nxt(i)
    /\ UNCHANGED <<shape, alive, live, marked, refs, something, pass, pc>>

\* Block i is dead: its insns go, its head and end become deleted notes,
\* a following BARRIER goes; if the live block before it ends in a simple
\* jump to the next live block, that jump becomes a note too and the
\* blocks from i to that block are marked as dropped into.
DeleteBlock ==
    /\ pc = "delete" /\ i < NBlocks
    /\ i \notin live
    /\ deleted' = deleted \cup {i}
    /\ LET p == Prv(i)
           j == NextLive(i)
       IN  IF p \in live /\ j < NBlocks
              /\ endKind[p] = "jump" /\ shape[p].to = j
           THEN /\ endKind' = [endKind EXCEPT ![p] = "deleted"]
                /\ dropsIn' = [b \in Blocks |-> IF b \in alive /\ i <= b /\ b <= j
                                                THEN TRUE ELSE dropsIn[b]]
           ELSE UNCHANGED <<endKind, dropsIn>>
    /\ i' = Nxt(i)
    /\ UNCHANGED <<shape, alive, live, marked, refs, something, pass, pc>>

KeepBlock ==
    /\ pc = "delete" /\ i < NBlocks
    /\ i \in live
    /\ i' = Nxt(i)
    /\ UNCHANGED <<shape, endKind, alive, dropsIn, live, marked, refs,
                   something, deleted, pass, pc>>

\* After the deletion loop: on pass 1, more than the threshold deleted
\* means `goto restart' over the blocks left, whose drop-in flags the
\* tagging loop recomputes; otherwise find_basic_blocks is done.
DeleteEnd ==
    /\ pc = "delete" /\ i = NBlocks
    /\ IF pass = 1 /\ Cardinality(deleted) > RestartThreshold
       THEN LET a == alive \ deleted IN
            /\ StartPass(2, a)
            /\ dropsIn' = DropsInOver(a, endKind)
            /\ UNCHANGED <<shape, endKind>>
       ELSE /\ pc' = "done"
            /\ UNCHANGED <<shape, endKind, alive, dropsIn, live, marked, refs,
                           something, deleted, i, pass>>

Finished ==
    /\ pc \in {"done", "abort"}
    /\ UNCHANGED vars

Next ==
    \/ MarkBlock \/ SkipBlock \/ MarkSweepEnd \/ LabelCheck
    \/ DeleteBlock \/ KeepBlock \/ DeleteEnd \/ Finished

Spec == Init /\ [][Next]_vars /\ WF_vars(Next)

-----------------------------------------------------------------------------
(* Reference: reachability in the block graph of the current pass.        *)

\* The edges the marking loop follows.
MarkEdges(b) ==
    Targets(b) \cup (IF Nxt(b) < NBlocks /\ dropsIn[Nxt(b)] THEN {Nxt(b)} ELSE {})

RECURSIVE MarkClosure(_)
MarkClosure(S) ==
    LET S2 == S \cup UNION {MarkEdges(b) : b \in S}
    IN  IF S2 = S THEN S ELSE MarkClosure(S2)

\* The edges compute_preds_succs finds after deletion: drop-ins, and the
\* label references whose containing insn is not a deleted note.  All
\* references but a REG_LABEL note's come from the block's end insn, so
\* a deleted jump-around takes them with it.
CfgEdges(b) ==
    (IF Nxt(b) < NBlocks /\ dropsIn[Nxt(b)] THEN {Nxt(b)} ELSE {})
    \cup {t \in alive : \E r \in refs[t] :
              r.from = b /\ (r.at = "note" \/ endKind[b] # "deleted")}

RECURSIVE CfgClosure(_)
CfgClosure(S) ==
    LET S2 == S \cup UNION {CfgEdges(b) : b \in S}
    IN  IF S2 = S THEN S ELSE CfgClosure(S2)

-----------------------------------------------------------------------------
(* Properties.                                                             *)

\* block_live, block_marked and drops_in only name blocks of the pass.
TypeOK ==
    /\ live \subseteq alive /\ marked \subseteq live
    /\ deleted \subseteq alive \ live
    /\ dropsIn \in [Blocks -> BOOLEAN]
    /\ i \in alive \cup {NBlocks}
    /\ pass \in {1, 2}

\* When `while (something_marked)' exits, block_live and block_marked are
\* identical and are exactly the blocks reachable from block 0 and the
\* preserved labels along drop-ins, jumps, forced labels and handlers.
MarkedIsReachable ==
    pc = "check" =>
        /\ marked = live
        /\ live = MarkClosure({First} \cup Preserved)

\* The sanity check after marking never aborts: every live block headed
\* by a label that nothing drops into is on some reference chain.
NoLabelAbort == pc # "abort"

\* When a deletion loop ends, every live block is reachable from block 0
\* in the graph compute_preds_succs would build from it, the jumps around
\* dead blocks deleted: this is the graph life_analysis gets whenever 200
\* or fewer blocks died.
LiveReachableInCfg ==
    pc = "delete" /\ i = NBlocks => live \subseteq CfgClosure({First})

=============================================================================
