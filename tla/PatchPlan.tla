----------------------------- MODULE PatchPlan -----------------------------
(***************************************************************************)
(* The order in which the patch engine writes the lines of a patch:        *)
(* patch_build_plan() of cr_patch_parser.c.  Contiguous addressed lines    *)
(* merge into one write, and a block that starts with a jump into another  *)
(* block of the same run of addressed lines is written after its target.   *)
(*                                                                         *)
(* Memory is an array of cells.  A line of a patch file is a record:       *)
(*   kind     "plain" (an address), "mask" (a pattern to find) or          *)
(*            "jump32" (a hook found by a pattern, and a cave)             *)
(*   bytes    what it writes and where, a function from cells to values    *)
(*   target   where the jmp or call that starts at its first byte leads,   *)
(*            NoCell if none starts there                                  *)
(*   pattern  the cells that must hold the game's own bytes to be found    *)
(*   cave     for jump32, the code and then the jump back, as bytes        *)
(***************************************************************************)
EXTENDS Integers, Sequences, SequencesExt

CONSTANT LineMax      \* PATCH_LINE_MAX_BYTES, in cells

NoCell == -1

Cells(line) == DOMAIN line.bytes
FirstCell(line) == CHOOSE c \in Cells(line) : \A d \in Cells(line) : c <= d
EndOf(line) == 1 + (CHOOSE c \in Cells(line) : \A d \in Cells(line) : d <= c)
Size(line) == EndOf(line) - FirstCell(line)

IsPlain(line) == line.kind = "plain"

\* The bytes of two lines as one block; the later line wins where they overlap.
Join(f, g) ==
  [c \in DOMAIN f \cup DOMAIN g |-> IF c \in DOMAIN g THEN g[c] ELSE f[c]]

Extends(block, line) ==
  /\ FirstCell(line) = EndOf(block)
  /\ Size(block) + Size(line) <= LineMax

\* One more line of a run: it extends the last block or starts a new one.  A
\* block keeps the jump of its first line only.
AddLine(blocks, line) ==
  IF blocks # <<>> /\ Extends(Last(blocks), line)
  THEN Append(Front(blocks),
              [Last(blocks) EXCEPT !.bytes = Join(@, line.bytes)])
  ELSE Append(blocks, line)

Merge(run) == FoldLeft(AddLine, <<>>, run)

\* patch_jump_target_block(): the first other block that holds the target.
TargetsOf(blocks, b) ==
  {k \in DOMAIN blocks \ {b} : /\ FirstCell(blocks[k]) <= blocks[b].target
                               /\ blocks[b].target < EndOf(blocks[k])}
TargetOf(blocks, b) ==
  CHOOSE k \in TargetsOf(blocks, b) : \A j \in TargetsOf(blocks, b) : k <= j

\* patch_plan_emit(): block b, and before it its target, the target of that,
\* and so on until one that was reached already.  done[] is set on entry, so
\* jumps in a circle end.
Follow(blocks, order, chain) ==
  LET b == Last(chain)
      next == IF TargetsOf(blocks, b) = {} THEN b ELSE TargetOf(blocks, b)
  IN  IF next \in ToSet(order) \cup ToSet(chain) THEN chain
      ELSE Append(chain, next)

\* Mutant of Emit: a block before its target.
EmitJumpFirst(blocks, order, b) ==
  IF b \in ToSet(order) THEN order
  ELSE order \o FoldLeft(LAMBDA chain, i : Follow(blocks, order, chain),
                         <<b>>, blocks)

Emit(blocks, order, b) ==
  IF b \in ToSet(order) THEN order
  ELSE order \o Reverse(FoldLeft(LAMBDA chain, i : Follow(blocks, order, chain),
                                 <<b>>, blocks))

\* The indices of the blocks of a run in the order they are written.
OrderOf(blocks) ==
  FoldLeft(LAMBDA order, b : Emit(blocks, order, b),
           <<>>, [i \in DOMAIN blocks |-> i])

Ordered(run) ==
  LET blocks == Merge(run)
      order == OrderOf(blocks)
  IN  [i \in DOMAIN order |-> blocks[order[i]]]

\* The lines of a file up to one that is not plain are a run.
TakeLine(state, line) ==
  IF IsPlain(line)
  THEN [state EXCEPT !.run = Append(@, line)]
  ELSE [plan |-> state.plan \o Append(Ordered(state.run), line), run |-> <<>>]

BuildPlan(lines) ==
  LET end == FoldLeft(TakeLine, [plan |-> <<>>, run |-> <<>>], lines)
  IN  end.plan \o Ordered(end.run)
=============================================================================
