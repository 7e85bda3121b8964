# TLA+ models of the flow-analysis stage (flow.c, emit-rtl.c)

This directory holds TLA+ models of the control-flow and dataflow stage of
egcs 2.91.66, configured for MIPS GNU/Linux. The code is in
`src/gcc/flow.c` and `src/gcc/emit-rtl.c`. The models are checked with TLC.
`PROJECT.json` lists the components, the runs, the mutants, the map from
each definition to the source lines it translates, the findings and the
hazards.

## The system and how its parts interact

| Part | Code | Role |
|---|---|---|
| Partitioner | `find_basic_blocks` (flow.c:299) counts blocks; `find_basic_blocks_1` (392) tags every insn with its block | Splits the insn stream at labels, after jumps and barriers, and after calls that may throw. The two loops must agree, or pass 1 aborts (532). |
| Reachability and pruner | `find_basic_blocks_1` 560-885, `mark_label_ref` (927) | Marks `block_live` to a fixed point, deletes the dead blocks, and removes jumps around them. If more than 200 blocks died, it restarts once. |
| Preds/succs and dominance | `compute_preds_succs` (3312), `compute_dominators` (3974), the sbitmap library (3515-3970) | Builds the block graph and the iterative dominator and post-dominator sets. |
| Liveness propagator | `life_analysis_1` (1075), lines 1287-1384 | Runs a backward relaxation over the blocks until `changed` stays 0. |
| Per-block scan | `propagate_block` (1553), `insn_dead_p`, `libcall_dead_p`, `mark_set_1`, `mark_used_regs` | Scans one block backwards. On the non-final pass it computes `live_at_start` and the block's *significant* registers. On the final pass it deletes dead stores and dead library calls. |
| Register usage | `mark_set_1`/`mark_used_regs` in final mode, `recompute_reg_usage` (4225) | Fills the `REG_N_*` tables used by register allocation. `recompute_reg_usage` recounts them from the final insns. |
| Insn chain and sequences | emit-rtl.c `add_insn*`, `reorder_insns`, `delete_insns_since`, `start_sequence`/`end_sequence`/`push_*`/`pop_*` | Maintains the doubly linked insn stream and the stack of nested sequences. |
| Pseudo allocation | emit-rtl.c `gen_reg_rtx` (499) | Hands out pseudo register numbers and doubles the per-register arrays when they fill. |
| Subword functions | emit-rtl.c `gen_lowpart_common` (633), `gen_lowpart` (954), `gen_highpart` (996), `gen_realpart`/`gen_imagpart` (903, 919), `subreg_lowpart_p` (1085), `operand_subword` (1121) | Take an operand apart into its low part, high part, complex parts or words, as SUBREGs, MEMs at an offset, or constants. Every pass that splits multiword values calls them. |
| Target config | `config/mips/*.h` | Macros only. MIPS has no auto-increment addressing, so `find_auto_inc` and `try_pre_increment` are not compiled. |

The data flows in this order: partition, then prune, then liveness, then
the final pass. Preds/succs and dominance are built from the pruned
blocks for later passes.

## Modules

### LifeAnalysis (with MC_LifeAnalysis)

The model covers the liveness propagator and the per-block scan.

Each model execution starts from a whole program, chosen by `Init`:
- `prog` holds the insns of every block;
- `ends` says how every block ends: it falls through, jumps, or jumps conditionally to a target block.

`DropsIn` and `LabelRefs` derive from `ends`, exactly as
`find_basic_blocks_1` and `mark_label_ref` record them. An insn is a record
with these fields:
- its kind: insn, call, or the note left by a deletion;
- the register it sets;
- the registers it reads;
- `INSN_VOLATILE`;
- for a `REG_RETVAL` insn, the position of its `REG_LIBCALL` insn.

The state variables are the arrays of `life_analysis_1`:
- `liveAtStart`, `liveAtEnd`, `newLiveAtEnd`, `significant`;
- the loop variables `i`, `firstPass`, `changed`;
- `code`, the insn stream the final pass rewrites.

The actions are the branches of the loop body:

| Action | Code |
|---|---|
| `SkipBlock` | `continue` when nothing is newly live (1298-1322). |
| `PassThroughBlock` | The `IOR_AND_COMPL` shortcut (1324-1338). |
| `RescanBlock` | `propagate_block` with `significant` recorded on the first pass only (1339-1353). |
| `NextPass` / `Converged` | The `while (changed)` test (1287-1290, 1383). |
| `FinalBlock` | One iteration of the final loop (1410-1418). |

Every publishing action ends with `Publish`, which ORs the new
`live_at_start` into the predecessors' `new_live_at_end` (1355-1374).

The scan itself is the recursive operator `Scan`. It handles:
- a dead insn, which makes nothing live;
- a dead library call, skipped back to its `REG_LIBCALL` insn with only the `REG_RETVAL` destination marked significant;
- a call, which kills the call-clobbered registers and makes the stack pointer live.

`FinalScan` is the final-mode scan, which turns dead insns and whole dead
library calls into `NOTE_INSN_DELETED`.

The reference `LiveIn` is the least solution of the block equations. It
uses the same scan as the transfer function, and is computed by `LeastFix`.

Properties:
- `FixpointSound`: when the loop exits, every register live in the reference is in `live_at_start`.
- The result is not always the least fixed point. The pass-through at flow.c:1334 trusts `basic_block_significant`, which never holds the registers a call clobbers. So a call-clobbered register that becomes live at the block end is passed through to the block start, although a call in the block kills it. This is conservative, so it is noted here rather than checked by a run.
- `FinalPassCovered`: the final scan finds nothing live at a block start that `live_at_start` lacks.
- `live_at_start` does not only grow during the relaxation, so it is not stated as a property. TLC finds this trace: block 0 is `mem := d`; block 1 is `mem := rv` and ends with a jump to 0; block 2 is `d := x; call` and ends with a conditional jump to 1. `rv` becomes live at block 2's end and is passed through to its start, because the call's clobber is not in `significant`. When `d` becomes live at its end, the block is rescanned, and `rv` is dropped from `live_at_start[2]`. The loop still terminates, which `Termination` checks over these bodies.
- `Termination`: both loops finish.

### Dominators (with MC_Dominators)

The model covers `compute_preds_succs` and `compute_dominators` (flow.c:3277-4018), together with the sbitmap operations they use. The program is how every block ends:
- a fall-through;
- a `RETURN`;
- a jump or a conditional jump to any block.

`Init` keeps only programs in which every block is reachable. That is what `find_basic_blocks` leaves behind.

`Edges` is the set of `add_pred_succ` calls:
- label-reference edges;
- exit edges, for a `RETURN` anywhere, or a conditional jump or non-jump in the last block;
- drop-in edges;
- the `ENTRY -> 0` edge.

Lists become sets, which is what the duplicate check gives.

An sbitmap is the set of its bits over `Bits`, which covers all the words `sbitmap_alloc` allocates. `sbitmap_ones` sets all of them, padding included.

The actions are:
- `ComputePredsSuccs`;
- `DominatorsInit`, the seeds, as the code writes them;
- `DomIteration`, one inner-loop body, with `temp_bitmap[bb]` shared by the dominator half and the post-dominator half;
- `NextDomPass` and `DomDone`, the `while (changed)` test.

`IntersectOfPredsucc` models the three cases of `sbitmap_intersect_of_predsucc`:
- an empty list gives all ones;
- a list of only ENTRY/EXIT leaves `dst` unchanged;
- otherwise it is the intersection.

`DomRef` and `PostDomRef` are the reference definitions, by paths: `b` is not reachable when `d` is removed from the graph.

### Partition (with MC_Partition)

The model covers the two walks over the insn stream: the counting loop of
`find_basic_blocks` (flow.c:319-352) and the tagging loop of
`find_basic_blocks_1` (436-527). An insn is a record with these fields:
- its rtx code;
- for a note, whether it begins or ends an exception region;
- whether it carries `REG_LIBCALL` or `REG_RETVAL`.

`Init` picks a well-formed stream of up to `MaxLen` insns, and whether the
function has nonlocal labels. In a well-formed stream, regions nest and a
library call is a straight run from its `REG_LIBCALL` insn to its
`REG_RETVAL` insn.

Each loop keeps its own `prev_code`, `in_libcall_block` and region depth:
- `CountStep` is one iteration of the counting loop. Like the code, it treats a `CALL_INSN` with `REG_RETVAL` as an `INSN` for `prev_code`.
- `TagStep` is one iteration of the tagging loop, with `basic_block_head[++i]` and `BLOCK_NUM`.
- `TagDone` is the check at 532.

The shared block-start test is `StartsBlock`.

Properties:
- `TagsWithinCount`: every block the tagging loop starts lies within the `n_basic_blocks` entries that were allocated.
- `PartitionAgrees`: pass 1 does not abort.

### Reachability (with MC_Reachability)

The model covers the marking, the check, the deletion and the restart of
`find_basic_blocks_1` (flow.c:407-895). A program gives each block a
*shape*:
- how the block ends: falling through, a call that may throw or do a nonlocal goto, a return, a jump or conditional jump to a block, or a computed jump;
- its head label: none, plain, forced (`LABEL_PRESERVE_P` and on `forced_labels`), an exception handler, or nonlocal (on `nonlocal_label_list`);
- the block whose label a `REG_LABEL` note on one of its insns names, if any. The tagging loop gathers these labels into `label_value_list` (483-490, `ValueLabels`), rebuilt on each pass from the insns that survive.

Blocks keep their pass-1 numbers, and `alive` is the set of blocks of the
current pass. The state holds:
- `block_live`, `block_marked` and `basic_block_drops_in`;
- the `LABEL_REFS` chains. For each reference the model records the block of its `CONTAINING_INSN`, and whether that insn is the block's end or an insn with a `REG_LABEL` note (`AddRefs`, `mark_label_ref` 940-962);
- `something_marked`, the loop index, the `deleted` blocks and `pass`.

`endKind[b]` becomes `"deleted"` when a jump around dead blocks is
turned into a note.

The actions are:

| Action | Code |
|---|---|
| `MarkBlock` / `SkipBlock` | The marking loop body (565-690). The labels it reaches come from `JumpTargets` (572-581), `NoteTargets` (613-624; the note's label block is made live), `ComputedTargets` (629-649) and `CallTargets` (658-685: the handlers of the region and `Nonlocal`). |
| `MarkSweepEnd` | `while (something_marked)` (562). |
| `LabelCheck` | The abort at 708-712. |
| `DeleteBlock` / `KeepBlock` | The deletion loop (719-850), including the jump-around deletion and the drop-in repair for blocks `i..j`. |
| `DeleteEnd` | The restart test (884-894). On restart it runs the tagging loop's re-initialisation (`StartPass`) and recomputes the drop-ins over the surviving blocks (`DropsInOver`). |

The handler-region cleanup (852-867) is not modelled. It only matters for
regions that no live call is in, and those regions cannot split a live
block.

`MarkClosure` and `CfgClosure` are the reference reachability sets:
- over the edges marking follows;
- over the edges `compute_preds_succs` builds, which skip references whose containing insn is a deleted note.

Properties:
- `MarkedIsReachable`: when marking stops, `block_live = block_marked`, and both are exactly the reachable blocks.
- `NoLabelAbort`: the check at 712 never fires.
- `LiveReachableInCfg`: at the end of every deletion loop, every live block is reachable from block 0 in the graph that later passes build.

The restarted pass may delete blocks that pass 1 kept. Suppose block 0
ends in a computed jump, and the only `REG_LABEL` note naming block 1's
label is in a dead block. Pass 1 keeps block 1 live through
`label_value_list`. Pass 2 rebuilds the list from the surviving insns, so
block 1 is now unreachable and is deleted. This is correct: nothing left
can jump there. An earlier version of this model, which had no notes,
checked that pass 2 deletes nothing; TLC refuted that claim once notes
were modelled, and the property was dropped.

### InsnChain and SequenceStack (refinement)

`InsnChain` models the emit-rtl.c insn chain at the level of its pointers:
- `NEXT_INSN` and `PREV_INSN` of each insn (`next`, `prev`; 0 is the null rtx);
- `first_insn` and `last_insn`;
- `sequence_stack`, as a sequence of `[first, last]` entries with the innermost first;
- the chains a finished sequence handed back (`held`, by their first insn);
- the insns `make_insn_raw` has returned (`made`);
- the `free_insn` list, by its head (`freeInsn`), threaded through `NEXT_INSN`;
- the `struct function` of each enclosing function while a nested one is compiled (`outer`, the innermost first). Each one holds the `first_insn`, `last_insn` and `sequence_stack` that `save_emit_status` stored, plus two ghost fields: the chains its callers held, and the insns made before the nested function started;
- the insns of nested functions that are already finished (`retired`, ghost). The compiler frees their storage with the function's obstack.

A second ghost variable, `gen`, records whether the caller of the
innermost `start_sequence` has called `gen_sequence` and with which
outcome ("pattern": the one-insn case, "chain": a SEQUENCE was built).
Callers call `end_sequence` right after `gen_sequence`, so `Next` allows
only `EndSequence` while `gen` is not "none".

Each entry also carries a ghost field `via`. It is not in the code. It
records whether `start_sequence`/`push_to_sequence` or
`push_topmost_sequence` pushed the entry, so that `end_sequence` and
`pop_topmost_sequence` are paired with their push the way callers pair
them.

| Action | Code |
|---|---|
| `EmitInsn` | `emit_insn` (2821): `MakeInsnRaw` (2292), then `AddInsn` (2360) |
| `EmitInsnAfter` / `EmitInsnBefore` | `emit_insn_after`/`emit_insn_before` (2672, 2570): `MakeInsnRaw`, then `AddInsnAfter`/`AddInsnBefore` (2381, 2429), which scan the pending sequences when AFTER/BEFORE ends a chain other than the current one |
| `EmitSequenceAfter` | `emit_insn_after` of a SEQUENCE (2678-2688): `add_insn_after` of each insn in turn, so the scan moves a pending sequence's last insn to the chain's tail |
| `EmitInsns` / `EmitInsnsBefore` / `EmitInsnsAfter` | `emit_insns`, `emit_insns_before`, `emit_insns_after` (2851-2919) |
| `DeleteInsnsSince` | `delete_insns_since` (2475) |
| `ReorderInsns` | `reorder_insns` (2496), with the assignments in the code's order |
| `StartSequence` / `PushToSequence` / `EndSequence` | 3128, 3168, 3223 |
| `PushTopmostSequence` / `PopTopmostSequence` | 3185, 3203; the outermost entry is lent to the current chain until the pop writes it back |
| `GenSequence` | `gen_sequence` (3251): with one insn whose pattern is not a SEQUENCE and no notes, it threads the insn onto `free_insn` (3274) and the caller gets the pattern, otherwise the chain stays and becomes a held SEQUENCE |
| `MakeInsnRaw` | `make_insn_raw` (2292): under `ReuseFreeInsn` it takes the head of `free_insn` and advances it through `NEXT_INSN` (2298-2302) |
| `EmitJumpInsn`, `EmitJumpInsnBefore`, `EmitJumpInsnAfter` | `emit_jump_insn`/`emit_call_insn` (2925, 2942) and their `_before`/`_after` forms (2600-2635, 2725): `AllocInsn`, which is `make_jump_insn_raw`/`make_call_insn_raw` (2319). They allocate a fresh insn even when `free_insn` is not empty, then call `add_insn`, `add_insn_before` or `add_insn_after`. |
| `EmitBarrier`, `EmitBarrierBefore`, `EmitBarrierAfter` | `emit_barrier` (2977), `emit_barrier_before`/`emit_note_before` (2641-2666) and `emit_barrier_after` (2745): a fresh BARRIER or NOTE from `NonInsn` |
| `EmitLabel`, `EmitLabelAfter` | `emit_label` (2959), `emit_label_after` (2759): a label whose `INSN_UID` is still 0, meaning it is not yet in `made`, is linked in; a label already emitted is left where it is |
| `SaveEmitStatus` | `save_emit_status` (1596) stores `Status`, then `InitEmit` applies `init_emit`'s reset of the chain (3309-3322): no insns, no pending sequence, `free_insn = 0` |
| `RestoreEmitStatus` | `restore_emit_status` (1618) puts the chain and stack back and sets `free_insn = 0` (1644); the nested function's insns join `retired`. Callers restore outside any sequence of the nested function. |

`SequenceStack` is the contract the callers rely on. Every chain is a
sequence of insns, and each operation says what happens to the sequences:
append, insert, splice, truncate, move, push and pop. `InsnChain` refines
it through `Abs == INSTANCE SequenceStack WITH ...`, which maps each handle
to the chain spelled out by following `NEXT_INSN` from it. While a topmost
sequence is pushed, the lent outermost entry maps to the empty chain.
The abstract `Save` and `Restore` stack the enclosing function's chains
and give them back unchanged. Both may `Forget` insns handed back for
reuse: `init_emit` and `restore_emit_status` drop the free list, so
those insns are never made again.

Properties:
- `ChainsWellLinked`: for every chain the code keeps a handle on, in the current function and in every enclosing one, `NEXT_INSN` from its first insn ends at its recorded last insn; `PREV_INSN` mirrors `NEXT_INSN`; and no insn is in two chains.
- `FreeInsnsDetached`: the `free_insn` list ends in the null rtx and shares no insn with any chain the code keeps a handle on. This is what makes reuse safe. `gen_sequence` puts the insn on the free list while `first_insn` still points at it, and the model checks that nothing can emit into that chain before `end_sequence` drops it.
- `FinishedInsnsUnused`: no insn of a finished nested function is reachable again, from a chain or held chain of any function or from `free_insn`. `restore_emit_status` ensures this by clearing the free list that the nested function's `gen_sequence` calls built. Without the clear, the enclosing function's next `emit_insn` would reuse freed storage.
- `AbsSpec`: the pointer operations implement `SequenceStack`. The one-insn `gen_sequence` maps to `GenPattern`, which retires the insn from `made`. Insns on the free list are not in the abstract `made`, so handing one out again is an abstract fresh insn.

The constant `NonInsn` holds the CODE_LABEL, BARRIER and NOTE rtxs. `make_insn_raw` never returns one, and `gen_sequence` never puts one on `free_insn`: its one-insn case requires an INSN, JUMP_INSN or CALL_INSN. In the passing run, `NonInsn = {3}` leaves insns 1 and 2 to `make_insn_raw` and the jump and call emitters. Line notes are not modelled. `emit_note` drops a line note that repeats `last_linenum`/`last_filename`, but that dedup state is data, and no chain property depends on it.

The constant `AfterAnywhere` lets `emit_insns_after` and `reorder_insns`
take an insn of a pending sequence as AFTER, which `add_insn_after`
supports. It is FALSE in the passing run.

### RegTables

`RegTables` models the pseudo register tables: `reg_rtx_no`,
`regno_pointer_flag_length`, and the three tables `regno_pointer_flag`,
`regno_pointer_align` and `regno_reg_rtx`. Each table is a function on its
allocated indices. The REG rtx of register `n` is `n` itself. The ghost
variable `ptrs` records the registers `mark_reg_pointer` was called on.

| Action | Code |
|---|---|
| `Init` | `init_emit`'s table setup (emit-rtl.c:3322-3345) |
| `GenRegRtx(complex)` | `gen_reg_rtx` (499): one `NewPseudo`, or two for a complex mode. `Grown` (532-557) doubles all three tables and clears their upper halves when `reg_rtx_no` equals the length. |
| `MarkRegPointer(r, a)` | `mark_reg_pointer` (583) |

Properties:
- `TypeOK`: the three tables have the same length.
- `PseudoTablesSound`: `reg_rtx_no` never passes the length. Every pseudo below it has its REG in `regno_reg_rtx` and none above it does. A pseudo's pointer flag is set exactly when `mark_reg_pointer` was called on it. The registers `init_emit` flags stay flagged.

### RegUsage (composing RegTables)

`RegUsage` models two passes that count register usage:
- `recompute_reg_usage` (flow.c:4225), with `count_reg_sets_1`,
  `count_reg_sets` and `count_reg_references` (4021-4205);
- the final pass of `life_analysis_1` over a function of one basic block.
  This covers the deletion of no-op moves (1138-1205),
  `allocate_for_life_analysis` (1476), and `propagate_block` with `final`
  set (1553-1855). `propagate_block` in turn uses `insn_dead_p`,
  `mark_set_regs`, `mark_set_1` and `mark_used_regs`.

All of these are operators over rtx records. The module composes with
`RegTables` by `RT == INSTANCE RegTables` on the same variables. Pseudos
exist only once `gen_reg_rtx` has made them, and `max_reg_num ()` is
`reg_rtx_no`.

`LifeAnalysis` models the same final pass at block granularity. This
module follows it insn by insn, through the rtx.

State:
- `insns`: the chain;
- `nSets`, `nRefs`: `REG_N_SETS` and `REG_N_REFS`;
- `counted`: a history variable. It is true when the counts are those of `recompute_reg_usage` on the current chain;
- `lifeDone`: life analysis has run. Flow runs once per function, and "registers can't be created after flow" (emit-rtl.c:505), so after it neither `gen_reg_rtx` nor `emit_insn` is taken.

Each emitted insn is one of eleven shapes over a pair of pseudos. Each
shape takes a different path through `count_reg_references`:
- a plain store (a no-op move when both pseudos are the same);
- a store to MEM from a SUBREG;
- `STRICT_LOW_PART` of a narrow SUBREG;
- a wide and a narrow SUBREG destination;
- `ZERO_EXTRACT` with a register operand;
- a load through `POST_INC` with its `REG_INC` note;
- a PARALLEL with a CLOBBER;
- a CLOBBER of MEM;
- a jump;
- a call with a USE in its usage list.

Insns can also be loop-begin or loop-end notes.

| Action | Code |
|---|---|
| `Tables` | `gen_reg_rtx` (before flow only) and `mark_reg_pointer` between passes. |
| `EmitInsn` | `emit_insn`, before flow. |
| `RecomputeRegUsage` | The whole function, atomically. `RecomputeClear` is the clearing loop (4231-4237). `RecomputeInsn` is one element of the scan: the loop-note arm, with the abort at depth 0 as a guard, or the `'i'` arm with `count_reg_sets`, the `REG_INC` loop, `count_reg_references` and a call's USEs. A `FoldLeft` over the chain runs the scan. |
| `LifeAnalysisPass` | `life_analysis_1` on a one-block function without `REG_INC` notes. Flow sees none, since nothing makes them without `AUTO_INC_DEC`. `NoopMove` deletes the no-op moves. `AllocateForLife` clears `REG_N_SETS` and not `REG_N_REFS`. A `FoldRight` of `PropagateInsn` then scans from the last insn back to the first. The scan starts with no pseudo live, an empty `last_mem_set`, and the block's loop depth moved forward over the trailing notes. |

`PropagateInsn` is one step of `propagate_block`'s loop:
- A loop note moves the depth back, and a depth of 0 aborts.
- An insn that is not a call, and that `InsnDeadP` finds dead given the
  registers needed so far and `last_mem_set`, becomes a deleted note. It
  then skips everything else (`goto flushed`).
- Any other insn goes through `MarkSetRegs` and `MarkSet1`, which kill the
  destination, count `REG_N_SETS`, count `REG_N_REFS` by the loop depth,
  and update `last_mem_set`. It then goes through `MarkUsedRegs` and the
  call's usage list. A MEM read or a call forgets `last_mem_set`.

Every register of the shapes is a pseudo. So the cases for hard, frame,
argument and global registers never apply, and REG_DEAD notes,
`REG_N_DEATHS`, `REG_LIVE_LENGTH` and LOG_LINKS are left out.

The reference counts come from the comments, not from the walk:
- every mention of a pseudo is one reference, weighted by `1 +` the loops open before its insn;
- a SET or CLOBBER destination register, or a `REG_INC` note, is one set;
- a store that keeps part of the old value is one more reference.

What life should delete is stated declaratively, on the chain the pass
leaves behind:
- A register is live after an insn if a later surviving insn reads it, with no store into it in between.
- A MEM store is redundant if a later insn stores the same MEM, and nothing in between reads memory, calls, stores another MEM, or changes the address.

Properties:
- `PseudoTablesSound`: the property of `RegTables`, checked while insns are emitted and counted.
- `UsageCountsExact`: after `recompute_reg_usage`, and until the chain changes, every pseudo below `max_reg_num ()` has exactly the reference `REG_N_SETS` and `REG_N_REFS`. This holds after any number of earlier calls, with pseudos made between them, and after life analysis.
- `LifeDeletesUnneededInsns` (action property): life deletes an insn exactly when it is a no-op move, or when it is not a call and stores only values that nobody reads among the insns that survive. The property needs every step of a chain of dead insns to be deleted in the single backward scan. So a deleted insn must make nothing live, and `last_mem_set` must be forgotten at the right points.
- `LifeCountsExact` (action property): after life, `REG_N_SETS` of each pseudo is the number of stores into it among the surviving insns. `REG_N_REFS` has grown by exactly their loop-weighted references. So `mark_set_1` and `mark_used_regs` count what `recompute_reg_usage` would count on the same chain.

### RtlSharing

`RtlSharing` models `copy_rtx_if_shared` and `reset_used_flags`
(emit-rtl.c:1679, 1804) as recursive operators on a heap. The heap holds:
- rtx nodes, each with a code, its `'e'` operands, the rtvec of its `'E'` operand, and the `used` bit;
- rtvecs, as heap objects of their own, so that a shallow copy can share one.

Node 1 is `virtual_stack_vars_rtx` and node 2 is a CONST_INT. The codes
stand for the sharing rules:
- REG and CONST_INT are freely shareable;
- LABEL_REF is unshareable, and `reset_used_flags` skips it;
- PLUS and SET are plain unshareable nodes;
- MEM with a constant or virtual address is shared whole;
- MEM with virtual-plus-constant address is shared, but its address is not;
- PARALLEL has an rtvec.

`Init` takes every heap in which nodes 3-4 are any inner rtx and nodes 5-6
are two SET or PARALLEL patterns over the nodes below them. That is 38,220
heaps, with any sharing.

| Action | Code |
|---|---|
| `UnshareInsn` | One iteration of `unshare_all_rtl` (1652): `PATTERN (insn) = copy_rtx_if_shared (PATTERN (insn))`. |
| `ResetInsn`, then `CopyInsn` | A later round that resets the used bits of every pattern and unshares them again, as the comment at 1800 describes. The callers are outside this repository. |

`Copy` follows the code's cases in order:
1. shareable codes and a MEM with a constant address are returned as they are;
2. a MEM with virtual-plus-constant address recurses into its address only if it was not used;
3. any other used node is `Clone`d (`rtx_alloc` + `bcopy`), marked, and its operands are copied;
4. a copied node's rtvec is duplicated (`gen_rtvec_vv`) before its elements are copied (`CopyVec`).

Properties:
- `NoInvalidSharing`: after `unshare_all_rtl` and after every reset/copy round, no node that `copy_rtx_if_shared` looks inside is pointed to from two places it looks at, and no two such nodes share an rtvec.
- `TreesPreserved`: copying never changes the tree a pattern denotes.
- `SecondRoundCopiesNothing` (violation run): a round after `unshare_all_rtl` allocates nothing.

### Subword (hosted by MC_RegUsage)

`Subword` has no state. It models the subword functions of emit-rtl.c
as operators over rtx records. A record is a REG, SUBREG, MEM,
ZERO_EXTEND/SIGN_EXTEND, CONCAT, CONST_INT or CONST_DOUBLE. Only pseudo
registers are modelled: the hard-register branches need `HARD_REGNO_NREGS`
and `HARD_REGNO_MODE_OK` from `mips.h`, which is not in this repository.
`Null` is the code's 0, and `Abort` is `abort ()`.

| Operator | Code |
|---|---|
| `GenLowpartCommon` | `gen_lowpart_common` 633-735: the mode and size tests, an extension (the operand, recursion, or a narrower extension), a SUBREG re-based by `word`, and a REG as `(subreg mode x word)`. |
| `ConstLowpart`, `SignExtend` | The integer-constant branch, 736-759: returned whole, 0, the low host word, or the low `width` bits sign-extended (`val << (H - width) >> (H - width)`). |
| `GenLowpart`, `LowpartOffset` | `gen_lowpart` 954-994: `gen_lowpart_common`, then a REG copied (`copy_to_reg`), then a MEM at the low part's offset with the byte adjustment. |
| `GenHighpart` | `gen_highpart` 996-1078: the mode check, a constant's high word, a MEM offset under `! WORDS_BIG_ENDIAN`, recursion through a word-0 SUBREG, and a REG's word. |
| `GenRealpart`, `GenImagpart` | 903-930: a CONCAT's operands, or the high or low part by the word order. |
| `SubregLowpartP` | `subreg_lowpart_p` 1085-1101, with C's truncating `/` (`CDiv`). |
| `OperandSubword`, `ConstSubword`, `OnesFrom` | `operand_subword` 1121-1205 (REG, SUBREG, CONCAT, MEM) and the integer-constant tail 1352-1395: the word reversal, the host-word selection, the shift, the mask unless the high bits are all ones, and the sign extension. |

The reference semantics is `BitOf(x, j)`: the object and position of bit `j`
of `x`'s value. That is a register bit, a memory bit at a unit address, or a
constant bit. It is written from the memory layout, not from the functions:
- with `WORDS_BIG_ENDIAN`, SUBREG word 0 is the most significant word;
- with `BYTES_BIG_ENDIAN`, the low byte is at the highest address;
- the real part of a complex value is at the low address.

The module is instantiated for the four targets of `config/mips`:
- `MipsEB`: `linux.h`, big-endian, 32-bit words, 32-bit host;
- `MipsEL`: `llinux.h`, little-endian;
- `MipsEBOn64`: big-endian on a 64-bit host (`xm-linux.h` takes `HOST_BITS_PER_LONG` from `_MIPS_SZLONG`);
- `Mips64EL`: `llinux64.h`, 64-bit words.

`BITS_PER_UNIT` is scaled from 8 to 2, so a 32-bit word is 8 bits, and a
64-bit host wide int is 16. This keeps every value within TLC's integers.
The functions depend only on the ratios of these sizes, and the scaling
keeps those ratios.

Properties (each is checked on all four targets, over pseudos of every
integer and float mode, their non-paradoxical SUBREGs, MEMs, extensions,
complex CONCATs, and integer constants at the word and host boundaries):
- `LowpartIsLowBits`: `gen_lowpart` never fails on an operand at least as wide as the mode. It gives exactly the low-order bits of the mode. The bits above the mode of a narrowed constant are not compared: the comment at 733-738 says they are cleared unless they and the sign bit are all ones, which gives a reasonable unsigned value, but the code (754-755) sign-extends. For example, `(const_int 128)` narrowed to an 8-bit mode is `-128`, not `128`.
- `HighpartIsHighWord`: `gen_highpart` in `word_mode` of a multiword REG, MEM or same-size SUBREG is the most significant word.
- `ComplexPartsByAddress`: `gen_realpart` and `gen_imagpart` of a complex MEM give the parts at the low and high address, and of a CONCAT its operands.
- `SubwordsTileOperand`: `operand_subword` word `i`, counted from the low address, is exactly that word, and 0 past the end. A constant's word is sign-extended.
- `LowpartRecognised`: `subreg_lowpart_p` holds exactly of the SUBREGs that are the low part of their register.

The functions are pure, so each property is stated as `Init => ...` in
`MC_RegUsage` and checked once, in the state `init_emit` leaves. Evaluating
them in every one of the run's states would cost about 0.1 s each.

Checked by TLC while modelling, and not stated as properties, because the
comments promise nothing for these cases:
- `gen_highpart (SImode, (const_int -1))` returns `const0_rtx` when `HOST_BITS_PER_WIDE_INT <= BITS_PER_WORD` (1013-1017). `operand_subword` gives -1 for that high word (1380-1382), so the two functions disagree about the high word of a negative constant.
- `operand_subword` of a `CHImode` CONCAT has `partwords` = 0, since the parts are narrower than a word. Word 0 is then a paradoxical SUBREG of the imaginary part.
- `gen_realpart` and `gen_imagpart` of a `CHImode` REG both return `(subreg:HI (reg:CHI) 0)`, in either byte order. Only hard registers reach this, because `gen_reg_rtx` makes complex pseudos as CONCATs (511-530).
- `gen_highpart` in a mode narrower than a word gives the low part of the top word for a REG (SUBREG word 1), but the top unit for a MEM.

## Runs

| Run | Result | What it shows |
|---|---|---|
| `life` (`MC_LifeAnalysis.cfg`) | pass, 1,032,028 distinct states, about 100 s | Over every 3-block program built from 7 block bodies and 7 block endings, the loop terminates, the result contains the least fixed point, and the final pass agrees with it. |
| `dom` (`MC_Dominators.cfg`) | pass, 47,580 states, 10 s | Over all 3,420 four-block programs with every block reachable, the loop terminates, block 0 is never revisited, and `dominators` is exactly the path-defined set, with no padding bit left. |
| `postdom` | violation of `PostDomCorrect` | For `0 -> 1 -> {2 returns, 3 last}`, the post-dominators come out as `[3] = {0}` (the seed sets bit 0, not bit `n-1`), `[2] = {0,1,2}` (EXIT is the only successor, so `temp_bitmap` keeps the dominator intersection), and `[0]` = all 32 bits (block 0 is never iterated). |
| `partition` (`MC_Partition.cfg`) | pass, 340,720 states, 3 s | Over every well-formed stream of up to 5 insns, the counting and tagging loops agree, under library calls ending in an `INSN`, calls, barriers, jumps, labels and nested region notes, with and without nonlocal labels. |
| `partition_retcall` | violation of `TagsWithinCount` | With nonlocal labels, `LIBCALL insn; CALL with REG_RETVAL; insn` is counted as 1 block and tagged as 2. `basic_block_head[1]` is written past the 1-entry array before the abort at 532. |
| `reach` (`MC_Reachability.cfg`) | pass, 8,475,412 states, 64 s | Over every 4-block program from 48 shapes, marking finds exactly the reachable blocks, the check never aborts, and jump-around deletion keeps every live block reachable in the block graph. With the threshold at 0, every deletion restarts, so pass 2 is checked too. |
| `insnchain` (`MC_InsnChain.cfg`) | pass, 284,534 states, 40 s | With 3 insns, sequences nested 2 deep and one nested function, every sequence of emit (insn, jump, call, label, barrier), splice, reorder, delete, push/pop, `gen_sequence` and save/restore-emit-status calls keeps every chain well linked, keeps `free_insn` off every chain, never reaches an insn of a finished nested function again, and implements `SequenceStack`. |
| `insnchain_after` | violation of `AbsSpec` | The steps are: emit 1; `start_sequence`; emit 2; `reorder_insns (2, 2, 1)`. This moves 2 after the last insn of the pending outer chain, whose saved `last` stays 1. `end_sequence` restores `last_insn = 1`, and the next `emit_insn (3)` sets `NEXT_INSN (1) = 3`, so insn 2 is lost. `emit_insns_after` has the same gap: unlike `add_insn_after` (2398-2412) and so `emit_insn_after` of a SEQUENCE, neither function updates a pending sequence's saved last insn. |
| `registers` (`MC_RegUsage.cfg`, `MC_RegUsage`) | pass, 597,757 states, about 155 s | `gen_reg_rtx` takes the tables through a doubling, and `mark_reg_pointer` is interleaved with emitting up to three insns of every shape, inside and outside loops. `recompute_reg_usage` can run at any point, and life analysis once. The tables stay sound, and every recount is exact. Life deletes exactly the no-op moves and the unneeded stores, chains of dead insns included, and it counts what survives. In the state `init_emit` leaves, the subword functions take every operand apart correctly on the four MIPS targets. |
| `rtlsharing` (`MC_RtlSharing.cfg`) | pass, 379,068 states, 50 s | Over all 38,220 heaps, including shared PLUS, MEM, LABEL_REF and PARALLEL nodes, unsharing leaves no invalid sharing and keeps every pattern's tree. |
| `rtlsharing_reset` | violation of `SecondRoundCopiesNothing` | Insn 1 is `(set (const_int) (label_ref))`. `unshare_all_rtl` copies nothing, and `reset_used_flags` returns on the LABEL_REF with its used bit still set. The next `copy_rtx_if_shared` then allocates a copy of a LABEL_REF that was never shared. |
| `life_libcall` | violation of `FixpointSound` | Block 2 holds the library call `rv := call(x); d := rv`, and a loop leads back to block 1, which reads `rv`. On the first pass the library call is dead and skipped, and only `d` is marked significant. When `rv` becomes live at block 2's end, the block is passed through, and `x`, the call's argument, never becomes live at its start. |

### Bounds

The bounds are:
- 3 blocks;
- 4 registers: a loop-carried pseudo `x`, a possibly dead pseudo `d`, the return register `rv` (call-clobbered), and the stack pointer `sp` (live at exit and used by calls);
- block bodies of 1-2 insns;
- all endings: fall through, jump and cjump to any block, with the last block never ending in a jump.

For Dominators, the bounds are 4 blocks and 10 endings per block, with all blocks reachable. That gives 3,420 programs, and includes:
- a block with two exits;
- a return block that is not the last;
- loops;
- a last block ending in a jump.

For Partition, streams of up to 5 insns hold:
- a library call inside a region after a call;
- a region note between a call and the next insn;
- a jump followed by a barrier and a label.

For Reachability, 4 blocks allow a jump around a dead block whose target is
reached otherwise, a back reference that needs a second sweep, and a handler
reached only from a call. They also allow a label reached only through a
`REG_LABEL` note in a block whose jump-around is deleted, and a
computed-jump target whose note dies on pass 1. `RestartThreshold` is 0 instead of 200, so the
restart path runs whenever a block dies. `LiveReachableInCfg` is checked at
the end of every deletion loop, so it also covers the graph that
`life_analysis` gets when no restart happens.

For LifeAnalysis, three blocks are enough for every case the code distinguishes:
- a block with two predecessors, one by drop-in and one by label;
- a back edge, which forces a second pass;
- a self-loop.

Both shortcuts are exercised: the pass-through fires, and significant
registers are newly live. The body `d := x; call` puts a call after a
register set, so a call-clobbered register read in another block is
passed through and later dropped by a rescan. The passing run has no
library call: with one whose value a successor reads, `FixpointSound` is
violated (`life_libcall`).

For RegTables (checked inside the `registers` run), the code's sizes are
scaled down. `FirstPseudo` = 2 stands for `LAST_VIRTUAL_REGISTER + 1`, and
`Headroom` = 1 for the 101 spare entries.

`MaxRegNo` = 4 takes the length from 3 to 6. A complex mode can straddle
that doubling, since its second pseudo triggers it. A second doubling
(`MaxRegNo` = 7) together with the insn stream is beyond 15 minutes of TLC.

For RegUsage, three insns allow:
- a loop begun, an insn inside it and the loop ended;
- two stores to one pseudo;
- a pseudo made after insns were emitted, and before a second `recompute_reg_usage`;
- for life analysis: a chain of two dead insns, the first feeding the second;
- two stores to one MEM, with or without a load, another read of memory or a call between them;
- a store whose destination register is read by a later partial store.

`MC_RegUsage` builds the shapes over the pairs <<2, 2>>, <<2, 3>> and
<<3, 2>>. The pair <<3, 3>> would only repeat <<2, 2>> for the other
pseudo. With it the run takes twice as long.

For Subword, two units per scaled word and the four targets cover words
narrower than, equal to and wider than the host word, and both byte
orders. Constants are chosen at the boundaries: 0, ±1, the word's sign
bit, and the host word's extremes. CONST_DOUBLEs have high words that are
not the sign of the low one.

`mark_reg_pointer` is called on pseudo 3 (`PointerRegs`). Its flag has to
survive the doubling of the tables. `Aligns` = {4} keeps the run small,
since the zero alignment only skips an assignment.

For RtlSharing, two patterns over four inner nodes are enough for:
- a node shared by both patterns and one shared within a pattern;
- a MEM with a virtual-plus-constant address shared, with its PLUS also used elsewhere;
- a PARALLEL reached twice, whose copy needs its own rtvec.

For InsnChain, 3 insns (one of them the label/barrier/note), a sequence depth of 2 and one nested function (`MaxNesting = 1`) allow:
- an insertion at either end of a pending chain while a nested sequence is current;
- a chain handed back by `end_sequence` and then spliced, pushed to, or emitted;
- `push_topmost_sequence` with a pending sequence in between;
- an insn put on `free_insn` by `gen_sequence` and reused by the next `emit_insn` after `end_sequence`;
- a label emitted twice, and a lone label or barrier in a sequence, which `gen_sequence` must not free;
- a nested function started while the enclosing one has a pending sequence or a lent topmost entry, which builds its own free list and returns.

With 4 insns and one nested function, and no label or barrier emitters, the run covers 8,970,196 states and takes about 20 minutes. With 4 insns and the emitters it does not finish in 5 minutes. The violation run `insnchain_after` keeps 4 insns, all of them INSNs (`NonInsn = {}`), because it stops at its first counterexample.

### Fairness

`life_analysis_1` is one sequential loop nest, with no concurrency and no
waiting. Weak fairness on `Next` only says that the program keeps running,
and `Termination` is checked under it. The same holds for `compute_dominators`
and `find_basic_blocks_1`. InsnChain has no fairness and no liveness property, because the emit calls are made on demand by their callers. Partition has no fairness and no liveness
property, because its properties are all invariants.

## Mutants

Each property of every passing run is shown to depend on the code by a mutant that
TLC must catch:

| Mutant | What it changes | Property that catches it |
|---|---|---|
| `DeleteRange_Unlink` | Unlinks deleted insns instead of making them notes. | `TypeOK` |
| `PassThroughBlock_NoTest` | Drops the significance test. | `FixpointSound` |
| `FinalScan_DeadUses` | A deleted insn still makes its operands live. | `FinalPassCovered` |
| `NextPass_KeepFirstPass` | Never clears `first_pass`. | `Termination` |
| `NextDomPass_FromZero` | The inner loop starts at block 0. | `TypeOK` |
| `IntersectOfPredsucc_First` | Only the first predecessor is used. | `DomCorrect` |
| `AndB_CmpB` | The changed flag compares with the wrong operand. | `Termination` |
| `TagStep_PopAnyNote` | Every note other than a region start pops `eh_note`. | `TypeOK` (Partition) |
| `TagStep_IgnoreLibcall` | The tagging loop ignores `in_libcall_block`. | `TagsWithinCount` |
| `CountStep_IgnoreLibcall` | The counting loop ignores `in_libcall_block`. | `PartitionAgrees` |
| `MarkBlock_NoBound` | Drops `i + 1 < n_basic_blocks`. | `TypeOK` (Reachability) |
| `MarkSweepEnd_Once` | A single marking sweep. | `MarkedIsReachable` |
| `LabelCheck_NoDropsTest` | The check forgets `! basic_block_drops_in[i]`. | `NoLabelAbort` |
| `DeleteBlock_DropsBeforeJ` | The drop-in repair uses `k < j`. | `LiveReachableInCfg` |
| `AddInsnAfter_NoStackScan` | `add_insn_after` does not scan the pending sequences. | `ChainsWellLinked` |
| `Grown_AlignKept` | `regno_pointer_align` is not reallocated. | `TypeOK` (RegUsage) |
| `NewPseudo_LateGrowth` | The tables grow only when `reg_rtx_no` passes the length. | `PseudoTablesSound` |
| `RecomputeClear_Short` | The clearing loop stops at `max_reg - 2`. | `UsageCountsExact` |
| `PropagateInsn_NoFlush` | A dead insn is deleted, but its uses are still marked live (no `goto flushed`). | `LifeDeletesUnneededInsns` |
| `MarkSet1_NoRefs` | `mark_set_1` counts the set but not the `REG_N_REFS` reference. | `LifeCountsExact` |
| `Clone_Short` | The `bcopy` of a copied rtx is one operand short. | `TypeOK` (RtlSharing), `TreesPreserved` |
| `CopyVec_Shared` | No `gen_rtvec_vv` for a copied rtx. | `NoInvalidSharing` |
| `ReorderInsns_NoLastFix` | Drops `if (after == last_insn) last_insn = to`. | `AbsSpec` |
| `MakeInsnRaw_NoAdvance` | `make_insn_raw` reuses `free_insn` without `free_insn = NEXT_INSN (free_insn)`. | `FreeInsnsDetached` |
| `ConstLowpart_ShortShift` | The narrowing of a constant shifts by `HOST_BITS_PER_WIDE_INT - width + 1`, sign-extending from one bit too low. | `LowpartIsLowBits` |
| `GenHighpart_SwappedOrder` | The MEM offset of `gen_highpart` is taken under `WORDS_BIG_ENDIAN` instead of its negation. | `HighpartIsHighWord` |
| `GenLowpart_NoByteAdjust` | The MEM case of `gen_lowpart` drops the `BYTES_BIG_ENDIAN` adjustment. | `ComplexPartsByAddress` |
| `ConstSubword_NoSignExtend` | `operand_subword` masks a constant's word but does not sign-extend it on a wider host. | `SubwordsTileOperand` |
| `SubregLowpartP_OwnSize` | `subreg_lowpart_p` tests the size of the SUBREG's own mode instead of its register's. | `LowpartRecognised` |
| `RestoreEmitStatus_KeepFree` | `restore_emit_status` without `free_insn = 0`. | `FinishedInsnsUnused` |

## Not modelled, and the plan

Not modelled yet, in the planned order:
1. **Reachability extensions**:
   - nonlocal labels that are also `LABEL_PRESERVE_P`. `stmt.c`, which is not in this repository, decides whether they are. If they are, a function whose nested function does a nonlocal goto but which has no live call would reach the abort at 712;
   - asynchronous exceptions;
   - the handler-region cleanup.
2. **InsnChain extensions**: nested `push_topmost_sequence` (assumed not to happen; its callers are not in this repository) and `sequence_element_free_list`.
3. **The rest of life's final pass in RegUsage**: functions of several blocks, with `live_at_end` taken from `LifeAnalysis`. Hard registers would also be needed for `REG_N_DEATHS`, `REG_LIVE_LENGTH` and the stack pointer. The stack-allocation branch at flow.c:1208 is unreachable (see the hazards), and whether that matters depends on `EXIT_IGNORE_STACK` in `mips.h`, which is not in this repository.
4. **RTL sharing extensions**: REG_NOTES and LOG_LINKS as further roots, and `stack_slot_list`.
5. The pseudo-register tables' part of `save_emit_status`/`restore_emit_status` (RegTables). The tables are swapped wholesale, like the chain in InsnChain; `reg_rtx_no`, label numbers, uids and line numbers are data.

6. **The rest of the subword functions**: hard registers (they need `mips.h`), floating-point constants (`REAL_VALUE_*` host/target conversion), BLKmode, ADDRESSOF, `subreg_realpart_p`, and `operand_subword_force`, which only retries through `copy_to_reg`/`force_reg` (explow.c).

Left out for good:
- LOG_LINKS and REG_DEAD/REG_UNUSED notes, which are data and not control;
- `cc0`, which MIPS lacks;
- auto-increment, which MIPS does not compile;
- setjmp handling;
- dump and print routines;
- the target headers, which have no state.
