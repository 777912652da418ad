------------------------------ MODULE Padding ------------------------------
(***************************************************************************)
(* The padding coordinator of vllm_ascend/models/deepseek_v2.py: the       *)
(* DPMetadataForPadding plan that CustomDeepseekV2ForCausalLM.forward      *)
(* computes from the data-parallel token counts, the four pad/unpad        *)
(* transforms that read it, and the row layout of the collectives that the *)
(* decoder layer wraps around them.                                        *)
(*                                                                         *)
(* A tensor is a sequence of rows; only the row dimension (dim 0) matters  *)
(* to padding, so the hidden dimension is left out.  The transforms take   *)
(* the row that F.pad / torch.zeros put in padding positions as the        *)
(* parameter z, so that the decoder-layer model can use its own row type.  *)
(***************************************************************************)
EXTENDS Integers, Sequences, SequencesExt, FiniteSets

CONSTANTS
  DPSize,   \* get_dp_group().world_size
  TPSize    \* get_tp_group().world_size

ASSUME DPSize \in Nat \ {0} /\ TPSize \in Nat \ {0}

DPRanks == 0 .. DPSize - 1
TPRanks == 0 .. TPSize - 1

\* The weight-parallel group spans the whole DP x TP grid; its rank order
\* is DP-major (the rank of <<d, t>> is d * TPSize + t).
WPSize == DPSize * TPSize
WPRank(d, t) == d * TPSize + t

\* The sum of f[i] over a finite set of indices S.
SumOver(f, S) == SumFunctionOnSet(f, S)

(***************************************************************************)
(* Plan computation: lines 905-920 of CustomDeepseekV2ForCausalLM.forward.  *)
(* cu is cu_tokens_across_dp_cpu, the cumulative token counts of the DP     *)
(* ranks.  lengths recovers the per-rank counts, max_length is the largest  *)
(* of them rounded up to a multiple of the TP width, and atten_unpad_mask   *)
(* marks the real rows of the DP-major padded layout (row k belongs to DP   *)
(* rank (k-1) \div max_length).                                             *)
(***************************************************************************)
\* Faulty variant for mutation analysis: cumulative counts taken as lengths.
LengthsCumulative(cu) == [d \in DPRanks |-> cu[d]]

Lengths(cu) ==
  [d \in DPRanks |-> IF d = 0 THEN cu[0] ELSE cu[d] - cu[d - 1]]

RoundUpToTP(m) == ((m + TPSize - 1) \div TPSize) * TPSize

\* Faulty variant: the keep-mask compares positions with <= lengths.
MakePlanMaskInclusive(cu) ==
  LET lengths    == Lengths(cu)
      max_length == RoundUpToTP(Max({lengths[d] : d \in DPRanks}))
  IN [cu_tokens_across_dp_cpu |-> cu, lengths |-> lengths, max_length |-> max_length,
      pad_size         |-> [d \in DPRanks |-> max_length - lengths[d]],
      atten_unpad_mask |-> [k \in 1 .. DPSize * max_length |->
                              ((k - 1) % max_length) <= lengths[(k - 1) \div max_length]]]

MakePlan(cu) ==
  LET lengths    == Lengths(cu)
      max_length == RoundUpToTP(Max({lengths[d] : d \in DPRanks}))
  IN [cu_tokens_across_dp_cpu |-> cu,
      lengths          |-> lengths,
      max_length       |-> max_length,
      pad_size         |-> [d \in DPRanks |-> max_length - lengths[d]],
      atten_unpad_mask |-> [k \in 1 .. DPSize * max_length |->
                              ((k - 1) % max_length) < lengths[(k - 1) \div max_length]]]

(***************************************************************************)
(* F.pad(data, (0, 0, 0, n)) appends n zero rows; a negative n removes     *)
(* rows from the end.                                                      *)
(***************************************************************************)
FPadRows(data, n, z) ==
  IF n >= 0 THEN data \o [i \in 1 .. n |-> z]
            ELSE SubSeq(data, 1, Len(data) + n)

\* Faulty variant: pad_size taken with the sign of lengths - max_length.
padding_aligned_tp_negated(plan, dp_rank, data, z) ==
  IF plan.pad_size[dp_rank] = 0 THEN data
  ELSE FPadRows(data, -plan.pad_size[dp_rank], z)

\* padding_aligned_tp (lines 91-99).
padding_aligned_tp(plan, dp_rank, data, z) ==
  IF plan.pad_size[dp_rank] = 0 THEN data
  ELSE FPadRows(data, plan.pad_size[dp_rank], z)

(***************************************************************************)
(* padding_aligned_wp (lines 101-117): the rank blocks, packed back to back *)
(* in data, are copied into max_length-wide slots of a zero tensor.  Row i  *)
(* of slot d comes from row PackedStart(d) + i of data.  The slice          *)
(* assignment fails unless data has enough rows for every block.            *)
(***************************************************************************)
PackedStart(plan, d) == SumOver(plan.lengths, 0 .. d - 1)

PadWPDefined(plan, data) == Len(data) >= SumOver(plan.lengths, DPRanks)

padding_aligned_wp(plan, data, z) ==
  [k \in 1 .. DPSize * plan.max_length |->
     LET d == (k - 1) \div plan.max_length
         i == (k - 1) % plan.max_length
     IN IF i < plan.lengths[d] THEN data[PackedStart(plan, d) + i + 1] ELSE z]

(***************************************************************************)
(* unpadding_aligned_tp (lines 120-124): boolean-mask row selection, which  *)
(* fails unless the mask and the tensor have the same number of rows.       *)
(***************************************************************************)
UnpadTPDefined(plan, padded) == Len(padded) = Len(plan.atten_unpad_mask)

unpadding_aligned_tp(plan, padded) ==
  LET tagged == [k \in 1 .. Len(padded) |-> <<padded[k], plan.atten_unpad_mask[k]>>]
      kept   == SelectSeq(tagged, LAMBDA p : p[2])
  IN [i \in 1 .. Len(kept) |-> kept[i][1]]

(***************************************************************************)
(* unpadding_aligned_wp (lines 126-133): a Python slice, which is clamped   *)
(* to the tensor instead of failing.                                        *)
(***************************************************************************)
PySlice(s, lo, hi) ==
  LET l == IF lo < 0 THEN 0 ELSE lo
      h == IF hi > Len(s) THEN Len(s) ELSE hi
  IN IF l >= h THEN <<>> ELSE SubSeq(s, l + 1, h)

\* Faulty variant: the slice keeps the whole max_length slot.
unpadding_aligned_wp_slot(plan, dp_rank, padded) ==
  PySlice(padded, plan.max_length * dp_rank, plan.max_length * dp_rank + plan.max_length)

unpadding_aligned_wp(plan, dp_rank, padded) ==
  PySlice(padded, plan.max_length * dp_rank,
          plan.max_length * dp_rank + plan.lengths[dp_rank])

(***************************************************************************)
(* Row layout of the collectives along dim 0.  reduce_scatter_tensor gives  *)
(* group rank k the k-th of n equal chunks (it fails unless n divides the   *)
(* row count); all_gather concatenates the members' tensors in group-rank  *)
(* order.                                                                   *)
(***************************************************************************)
ScatterChunk(x, n, k) ==
  SubSeq(x, k * (Len(x) \div n) + 1, (k + 1) * (Len(x) \div n))

GatherAll(parts) == FlattenSeq(parts)

(***************************************************************************)
(* torch.chunk(x, n, dim=0), used by CustomDeepseekV2MoE.forward under MC2: *)
(* chunks of ceil(L / n) rows, the last one shorter, and fewer than n       *)
(* chunks when n does not divide L evenly enough.                           *)
(***************************************************************************)
TorchChunkSize(l, n) == (l + n - 1) \div n
TorchChunkCount(l, n) ==
  IF l = 0 THEN n ELSE (l + TorchChunkSize(l, n) - 1) \div TorchChunkSize(l, n)
TorchChunk(x, n, k) ==
  PySlice(x, k * TorchChunkSize(Len(x), n), (k + 1) * TorchChunkSize(Len(x), n))
=============================================================================
