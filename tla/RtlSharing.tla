----------------------------- MODULE RtlSharing -----------------------------
(***************************************************************************)
(* copy_rtx_if_shared, reset_used_flags and unshare_all_rtl of            *)
(* emit-rtl.c over a heap of rtx nodes.  A node has its code, its 'e'     *)
(* operands (ops), the rtvec of its 'E' operand (vec, 0 for none) and     *)
(* its `used' bit; rtvecs are heap objects of their own, so that a        *)
(* shallow copy can share one.  Node 1 is virtual_stack_vars_rtx and node *)
(* 2 a CONST_INT.  The insn patterns are the roots; the insns themselves, *)
(* REG_NOTES, LOG_LINKS and stack_slot_list are not modelled.             *)
(***************************************************************************)
EXTENDS Integers, Sequences, FiniteSets

VSV == 1

\* The codes copy_rtx_if_shared returns as they are.
Shareable == {"REG", "CONST_INT"}
\* CONSTANT_ADDRESS_P.
ConstCodes == {"CONST_INT", "LABEL_REF"}

VARIABLES
    mem,     \* [node, vec]: the rtx nodes and the rtvecs
    roots,   \* PATTERN of each insn
    phase,   \* "unshare", "reset", "copy", "done"
    k,       \* the insn the running loop is at
    orig,    \* ghost: each pattern as a tree, before any copying
    mark     \* ghost: the number of nodes when unshare_all_rtl returned

vars == <<mem, roots, phase, k, orig, mark>>

-----------------------------------------------------------------------------

RECURSIVE Copy(_, _), CopyOps(_, _, _), CopyElems(_, _, _)

Node(S, x) == S.node[x]

\* Mutant: the bcopy is one operand short, so the copy's last field keeps
\* the zero rtx_alloc gave it.
Clone_Short(S, x) ==
    LET n == S.node[x]
        c == IF n.vec # 0 THEN [n EXCEPT !.vec = 0]
             ELSE IF n.ops = <<>> THEN n
             ELSE [n EXCEPT !.ops[Len(n.ops)] = 0]
    IN  [S EXCEPT !.node = Append(S.node, c)]

\* rtx_alloc of a node with x's code, and the bcopy of x into it.
Clone(S, x) == [S EXCEPT !.node = Append(S.node, S.node[x])]

\* The MEM cases copy_rtx_if_shared lets share: a constant address or
\* virtual_stack_vars_rtx, and virtual_stack_vars_rtx plus a constant.
ConstAddr(S, a) == a = VSV \/ Node(S, a).code \in ConstCodes
VirtPlus(S, a) ==
    /\ Node(S, a).code = "PLUS"
    /\ Node(S, a).ops[1] = VSV /\ Node(S, Node(S, a).ops[2]).code \in ConstCodes

MayShare(S, x) ==
    \/ Node(S, x).code \in Shareable
    \/ Node(S, x).code = "MEM" /\ (ConstAddr(S, Node(S, x).ops[1]) \/ VirtPlus(S, Node(S, x).ops[1]))

\* Mutant: the rtvec of a copied node is not duplicated by gen_rtvec_vv.
CopyVec_Shared(S, y, copied) == CopyElems(S, Node(S, y).vec, 1)

\* The 'E' operand: a copied node gets its own rtvec, then each element
\* is copied if shared.
CopyVec(S, y, copied) ==
    LET v == Node(S, y).vec
        S1 == IF copied /\ Len(S.vec[v]) > 0
              THEN [S EXCEPT !.vec = Append(S.vec, S.vec[v]),
                             !.node[y].vec = Len(S.vec) + 1]
              ELSE S
    IN  CopyElems(S1, Node(S1, y).vec, 1)

\* copy_rtx_if_shared (x): the result is [s |-> heap, r |-> the rtx].
Copy(S, x) ==
    IF x = 0 THEN [s |-> S, r |-> 0]
    ELSE LET n == Node(S, x) IN
    IF n.code \in Shareable \/ (n.code = "MEM" /\ ConstAddr(S, n.ops[1]))
    THEN [s |-> S, r |-> x]
    ELSE IF n.code = "MEM" /\ VirtPlus(S, n.ops[1])
    THEN LET a == IF n.used THEN [s |-> S, r |-> n.ops[1]] ELSE Copy(S, n.ops[1])
         IN  [s |-> [a.s EXCEPT !.node[x].ops = <<a.r>>, !.node[x].used = TRUE], r |-> x]
    ELSE LET y  == IF n.used THEN Len(S.node) + 1 ELSE x
             S1 == IF n.used THEN Clone(S, x) ELSE S
             S2 == CopyOps([S1 EXCEPT !.node[y].used = TRUE], y, 1)
         IN  [s |-> IF n.vec = 0 THEN S2 ELSE CopyVec(S2, y, n.used), r |-> y]

CopyOps(S, y, i) ==
    IF i > Len(Node(S, y).ops) THEN S
    ELSE LET a == Copy(S, Node(S, y).ops[i])
         IN  CopyOps([a.s EXCEPT !.node[y].ops[i] = a.r], y, i + 1)

CopyElems(S, v, j) ==
    IF j > Len(S.vec[v]) THEN S
    ELSE LET a == Copy(S, S.vec[v][j])
         IN  CopyElems([a.s EXCEPT !.vec[v][j] = a.r], v, j + 1)

\* reset_used_flags (x): shareable codes and LABEL_REF are left alone.
RECURSIVE Reset(_, _), ResetAll(_, _)
Reset(S, x) ==
    IF x = 0 \/ Node(S, x).code \in Shareable \cup {"LABEL_REF"} THEN S
    ELSE LET n == Node(S, x)
             S1 == ResetAll([S EXCEPT !.node[x].used = FALSE], n.ops)
         IN  IF n.vec = 0 THEN S1 ELSE ResetAll(S1, S1.vec[n.vec])
ResetAll(S, q) == IF q = <<>> THEN S ELSE ResetAll(Reset(S, Head(q)), Tail(q))

\* An rtx as the tree it denotes.
RECURSIVE Tree(_, _)
Tree(S, x) ==
    IF x = 0 THEN [code |-> "null", ops |-> <<>>, el |-> <<>>]
    ELSE LET n == Node(S, x) IN
         [code |-> n.code,
          ops  |-> [i \in DOMAIN n.ops |-> Tree(S, n.ops[i])],
          el   |-> IF n.vec = 0 THEN <<>>
                   ELSE [j \in DOMAIN S.vec[n.vec] |-> Tree(S, S.vec[n.vec][j])]]

-----------------------------------------------------------------------------

Leaf(c) == [code |-> c, ops |-> <<>>, vec |-> 0, used |-> FALSE]
Op(c, q) == [code |-> c, ops |-> q, vec |-> 0, used |-> FALSE]
Par(i) == [code |-> "PARALLEL", ops |-> <<>>, vec |-> i, used |-> FALSE]

\* Operands below node i, and the patterns' rtvecs of one or two of them.
Below(i) == 1 .. i - 1
Elems(i) == {<<a>> : a \in 3 .. i - 1} \cup {<<a, b>> : a, b \in 3 .. i - 1}

\* Inner nodes: a LABEL_REF, a PLUS, a MEM; patterns: a SET or a PARALLEL.
InnerShapes(i) ==
    {Leaf("LABEL_REF")} \cup {Op("PLUS", <<a, b>>) : a, b \in Below(i)}
    \cup {Op("MEM", <<a>>) : a \in Below(i)}
\* A pattern comes with the elements of its rtvec.
PatternShapes(i) ==
    {<<Op("SET", <<a, b>>), <<>>>> : a, b \in 2 .. i - 1} \cup {<<Par(i), e>> : e \in Elems(i)}

\* The patterns rtl generation hands to unshare_all_rtl: any sharing,
\* every used bit clear, each PARALLEL with its own rtvec.
Init ==
    /\ \E n3 \in InnerShapes(3), n4 \in InnerShapes(4),
          p5 \in PatternShapes(5), p6 \in PatternShapes(6) :
          mem = [node |-> <<Leaf("REG"), Leaf("CONST_INT"), n3, n4, p5[1], p6[1]>>,
                 vec  |-> <<<<>>, <<>>, <<>>, <<>>, p5[2], p6[2]>>]
    /\ roots = <<5, 6>>
    /\ phase = "unshare" /\ k = 1
    /\ orig = [i \in 1 .. 2 |-> Tree(mem, roots[i])]
    /\ mark = 0

\* unshare_all_rtl: PATTERN (insn) = copy_rtx_if_shared (PATTERN (insn)).
UnshareInsn ==
    /\ phase = "unshare" /\ k <= Len(roots)
    /\ LET a == Copy(mem, roots[k])
       IN  mem' = a.s /\ roots' = [roots EXCEPT ![k] = a.r]
    /\ k' = k + 1
    /\ UNCHANGED <<phase, orig, mark>>

\* A later user of the insns first clears the used bits of every
\* pattern, then unshares them again, as the comment on reset_used_flags
\* describes.
UnshareDone ==
    /\ phase = "unshare" /\ k > Len(roots)
    /\ phase' = "reset" /\ k' = 1 /\ mark' = Len(mem.node)
    /\ UNCHANGED <<mem, roots, orig>>

ResetInsn ==
    /\ phase = "reset" /\ k <= Len(roots)
    /\ mem' = Reset(mem, roots[k]) /\ k' = k + 1
    /\ UNCHANGED <<roots, phase, orig, mark>>

ResetDone ==
    /\ phase = "reset" /\ k > Len(roots)
    /\ phase' = "copy" /\ k' = 1
    /\ UNCHANGED <<mem, roots, orig, mark>>

CopyInsn ==
    /\ phase = "copy" /\ k <= Len(roots)
    /\ LET a == Copy(mem, roots[k])
       IN  mem' = a.s /\ roots' = [roots EXCEPT ![k] = a.r]
    /\ k' = k + 1
    /\ UNCHANGED <<phase, orig, mark>>

CopyDone ==
    /\ phase = "copy" /\ k > Len(roots)
    /\ phase' = "done"
    /\ UNCHANGED <<mem, roots, k, orig, mark>>

Finished == phase = "done" /\ UNCHANGED vars

Next == UnshareInsn \/ UnshareDone \/ ResetInsn \/ ResetDone \/ CopyInsn
        \/ CopyDone \/ Finished

Spec == Init /\ [][Next]_vars

-----------------------------------------------------------------------------
(* Properties.                                                             *)

\* copy_rtx_if_shared looks inside a node unless it returns it whole.
Descends(S, x) ==
    ~(Node(S, x).code \in Shareable \/ (Node(S, x).code = "MEM" /\ ConstAddr(S, Node(S, x).ops[1])))

\* The operands and rtvec elements of x.
Kids(S, x) ==
    ({Node(S, x).ops[i] : i \in DOMAIN Node(S, x).ops}
     \cup (IF Node(S, x).vec = 0 THEN {}
           ELSE {S.vec[Node(S, x).vec][j] : j \in DOMAIN S.vec[Node(S, x).vec]})) \ {0}

\* The nodes copy_rtx_if_shared reaches from the patterns.
RECURSIVE ReachFrom(_, _)
ReachFrom(S, seen) ==
    LET kids == UNION {Kids(S, x) : x \in {y \in seen : Descends(S, y)}}
    IN  IF kids \subseteq seen THEN seen ELSE ReachFrom(S, seen \cup kids)
Reachable == ReachFrom(mem, {roots[i] : i \in 1 .. 2})
Owners == {p \in Reachable : Descends(mem, p)}

\* Every place copy_rtx_if_shared looks at that holds a pointer to x: a
\* pattern, or an operand or rtvec element of a node it looks inside.
RefsTo(x) ==
    {<<"insn", i, 0>> : i \in {j \in 1 .. 2 : roots[j] = x}}
    \cup UNION {{<<p, "e", i>> : i \in {j \in DOMAIN Node(mem, p).ops : Node(mem, p).ops[j] = x}}
                : p \in Owners}
    \cup UNION {{<<p, "E", i>> : i \in {j \in DOMAIN mem.vec[Node(mem, p).vec] :
                                        mem.vec[Node(mem, p).vec][j] = x}}
                : p \in {q \in Owners : Node(mem, q).vec # 0}}

TypeOK ==
    /\ \A x \in DOMAIN mem.node :
          /\ \A i \in DOMAIN Node(mem, x).ops : Node(mem, x).ops[i] \in DOMAIN mem.node
          /\ Node(mem, x).vec \in {0} \cup DOMAIN mem.vec
    /\ k \in 1 .. 3

\* Once unshare_all_rtl, or a reset_used_flags/copy_rtx_if_shared round,
\* is over, no rtx that copy_rtx_if_shared does not let share is pointed
\* to from two places, and no two reachable nodes share an rtvec.
NoInvalidSharing ==
    phase \in {"reset", "done"} =>
        /\ \A x \in Reachable : ~MayShare(mem, x) => Cardinality(RefsTo(x)) <= 1
        /\ \A p, q \in Owners :
              p # q /\ Node(mem, p).vec # 0 => Node(mem, p).vec # Node(mem, q).vec

\* Copying never changes what a pattern denotes.
TreesPreserved == \A i \in 1 .. 2 : Tree(mem, roots[i]) = orig[i]

\* After reset_used_flags, copy_rtx_if_shared copies only what is shared:
\* the patterns unshare_all_rtl left unshared get no new node.
SecondRoundCopiesNothing == phase = "done" => Len(mem.node) = mark

=============================================================================
