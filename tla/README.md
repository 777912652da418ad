# TLA+ models of the DeepSeek-V2 decoder layer (vllm_ascend/models/deepseek_v2.py)

This directory holds TLA+ models of `src/vllm_ascend/models/deepseek_v2.py` and the
TLC configurations that check them. The code runs one decoder stack of a
mixture-of-experts model on a grid of PP x DP x TP ranks. It pads variable-length,
per-rank token batches to common shapes so that collectives can run across the grid.
It also chooses, per layer, phase and mode, which collectives move `hidden_states`
and `residual` through the layer. The models check that this choreography keeps
shapes consistent, keeps every token on its own rank, keeps the residual stream
complete, and keeps all ranks of a group in the same collective.

## The system and its parts

| Part | Code | Model |
|---|---|---|
| Padding coordinator: `DPMetadataForPadding`, `_dp_metadata_for_padding`, the four pad/unpad transforms | lines 82-133, 904-920 | `Padding` (operators), `PaddingPass` (laws), `DecoderLayer` (use across passes) |
| Decoder-layer orchestrator: `forward`, `post_attention_process`, `post_moe_process` | lines 555-771 | `DecoderLayer` |
| MoE block: `CustomDeepseekV2MoE.forward` (MC2 chunk, scaling) | lines 273-380 | `MoeChunked`, `MoeForward`, `MoeBlock` |
| Shared-expert and dense MLPs | lines 135-271 | `SharedExperts`, `DenseMlp` |
| Latent attention | lines 383-553 | `SelfAttn` (opaque, TP partial sum) |
| Layer stack: `CustomDeepseekV2Model` (`make_layers`, `forward`, the PP hand-off) | lines 797-806, 819-856 | `StartLayer`/`EndLayer`, `StageInput`, `DecoderLayerForward`, `LayerEnd`, `SendIntermediate`; its promise is `LayerStream` |
| Top-level forward: `CustomDeepseekV2ForCausalLM.forward` | lines 894-927 | `StartPass`, `ForwardPass` |
| Parallel groups (PP; per stage TP, DP, and WP = the stage's whole DP x TP grid, DP-major) | outside this source | `Group`, `GroupRank`, `WPRank`, `PartitionSize`, `PrevStage` (from spec sections 2-3 and vllm's `get_pp_indices`) |

How the parts interact:

1. Each pass starts in `CustomDeepseekV2ForCausalLM.forward`. A prefill or eager pass
   rebuilds the process-wide padding plan from `cu_tokens_across_dp_cpu`. That is a
   value every DP rank sees, so in the model the first rank to start pass p fixes
   `inputs[p]`.
2. Every layer runs attention, then `post_attention_process`, which has three branches:
   - a TP all-reduce;
   - TP padding, a TP reduce-scatter, the fused add-norm, a WP all-gather and unpadding;
   - in graph decode, a TP all-reduce, then a DP all-gather, then the norm.
3. The MLP follows: dense (its down_proj all-reduces over TP), or the shared and routed
   experts, which leave WP partial sums.
4. Then `post_moe_process` runs one of three branches:
   - a WP all-reduce (DP=1);
   - WP padding, a WP reduce-scatter, the residual add, a WP all-gather and unpadding;
   - in graph decode, the MC2 branch (which raises at line 697, see below), or a WP all-reduce.

5. Under pipeline parallelism each stage runs its own range of layers (`make_layers`).
   - The first stage embeds the tokens and starts with residual None.
   - A stage that is not the last returns `IntermediateTensors` holding
     `hidden_states` and `residual`. The runner sends them to the same DP and TP
     rank of the next stage.
   - That stage resumes from them.
   - A stage may start the next pass while later stages still run this one.

The padding plan is the only state shared between the layer code and the pass code,
and each process has its own copy. Within a stage, ranks coordinate only through the
order of collective calls. Between stages they coordinate only through the
`IntermediateTensors` hand-off.

## Modules

- **`Padding.tla`** translates the plan (`Lengths`, `RoundUpToTP`, `MakePlan`), the
  transforms (`padding_aligned_tp`, `padding_aligned_wp`, `unpadding_aligned_tp`,
  `unpadding_aligned_wp`, `FPadRows` for `F.pad`, `PySlice` for Python slicing) and
  the row layout of the collectives (`ScatterChunk`, `GatherAll`, `TorchChunk`).
  - A tensor is a sequence of rows; the hidden dimension plays no part in padding.
  - `*Defined` operators state when torch raises instead of returning.
- **`PaddingPass.tla`** is a small state machine: each pass picks a DP token
  distribution and recomputes the plan, as at lines 904-920. Its invariants are the
  layout laws the decoder layer relies on.
- **`DecoderLayer.tla`** is the core. `proc[r]` is the local state of rank
  `r = <<pp, dp, tp>>`:
  - `pc` is the label of the code it is at, or the collective call site it is blocked in;
  - `lay` is the layer;
  - `pass` is the current forward pass;
  - `hid` and `res` are hidden_states and residual;
  - `shared` is shared_output;
  - `plan` is this process's `_dp_metadata_for_padding`.

  A row is `[tok, val]`. `tok` is the token `<<d, i>>`, `Pad` for a zero row, or
  `Mixed` once two different tokens were summed. `val` is a bag of contributions
  `<<kind, layer, shard, exp>>`, where `exp` is the power of routed_scaling_factor.
  Kernels are opaque: a projection replaces the bag by one fresh term tagged with its
  shard, and a norm empties it. So a sum shows exactly which outputs reached a token,
  how often, and with which scale.
  A plain `+` of two tensors (lines 670, 683, 702-707, 752, 758) is `AddB`, which follows
  torch broadcasting: the shapes must agree, or one side must have a single row, which
  is then added to every row of the other. The fused add-norm and the collectives need
  equal shapes.

  `chan[r]` is the FIFO of `IntermediateTensors` that rank `r` has sent to the next
  stage and that stage has not yet taken. PP send/recv is point-to-point and in order.

  Actions:
  - `ForwardPass(r)` models lines 894-927, and lines 829-838 of the model's forward.
    A later stage waits for, and takes, the oldest message from its predecessor
    (`StageInput`).
  - `SendIntermediate(r)` ends the last layer of a stage that is not the last
    (lines 848-852). It appends `hidden_states` and `residual` to `chan[r]`.
  - `DecoderLayerForward(r)` is the layer entry, lines 720-743 up to the first collective.
  - `LocalStep(r)` runs one local code segment between collectives. `Step` dispatches
    on `pc` to one operator per segment, each named after its code (for example
    `AfterAttnReduceScatter` is lines 646-653).
  - `Collective(kind, r)` completes a collective when every member of the group
    instance is blocked in a call of the same group and op. Mismatched shapes fail
    all members, as torch does.
  - `Finished` stutters once all passes are done.
- **`LayerStream.tla`** is the abstract specification of the stack. It leaves out
  the grid and the collectives. A rank starts pass p on that pass's inputs
  (`Start`), goes through the layers one at a time (`Advance`), and returns
  `Ideal(r, in)` (`Complete`). That is what a single device would compute: its own
  DP rank's tokens, in order, each carrying the embedding and every layer's attention
  and MLP output. Every step is weakly fair per rank.

  Each rank runs its own layers, `FirstLayer(r)` up to `LastLayer(r)`, which are the
  stage's `start_layer` and `end_layer`.
  `DecoderLayer` instantiates it as `Abstract` with the refinement mapping below, and
  `RefinesLayerStream == Abstract!Spec` is checked as a temporal property:
  - `status` is `idle` or `done` when `pc` is, and `running` otherwise;
  - `layer` and `pass` are `proc[r].lay` and `proc[r].pass`;
  - `out` is, for a rank at `done`, each row's token paired with the set of
    contribution kinds of its value (`Output`), and Null otherwise;
  - `inputs` is the same variable in both.

  The mapping compares sets of kinds, so it does not see a contribution counted twice.
  `ContributionsOnce` checks that separately.
- **`MCDecoderLayer.tla`** defines the input sets for TLC:
  - phases that are uniform across DP or chosen per rank;
  - equal lengths for graph decode (a captured graph has one batch shape);
  - decode-only inputs.

## Properties

- `NoShapeError`: no rank ever raises a torch shape error (padding, slicing,
  reduce-scatter divisibility, elementwise adds, torch.chunk indexing).
- `CollectivesMatch`: two ranks blocked in collectives, each in the other's group, are
  in the same call of the same layer and pass. This is spec section 5's key invariant.
- `RowsAligned`: no addition ever mixes two tokens, or a token and a padding row.
  torch cannot detect this mistake.
- `TokensStayHome`: between layers each rank holds exactly its own DP rank's tokens,
  in order.
- `StreamComplete`: between layers each token's hidden state and residual hold exactly
  the embedding, plus every TP shard's attention output and every shard's MLP output
  of each earlier layer.
- `ContributionsOnce`: no contribution is counted twice.
- `ScaleUniform`: under FP16 every contribution carries the same power of
  routed_scaling_factor relative to the unscaled stream.
- `AllPassesComplete` (liveness): every rank returns from its last pass.
- `RefinesLayerStream` (refinement, liveness included): the distributed layer
  implements `LayerStream`. Each rank walks the layers in order, and every pass
  returns exactly its own tokens with the complete stream. The grid also never
  stops short of that. This is the eager/graph equivalence of spec section 5, stated
  once for both paths.
- `PaddingPass` adds:
  - `MaskCountsTokens`: the keep-mask has exactly sum(lengths) true entries;
  - `PostAttentionLayoutLaw`: pad, TP reduce-scatter, WP gather and unpad return every
    token in rank order;
  - `PostMoeLayoutLaw`: WP packing plus reduce-scatter hands each WP rank exactly the
    rows of its residual chunk, and gather plus unpad returns each DP rank its own tokens.

## Runs and what they show

| Run | Expect | Shows |
|---|---|---|
| `padding_laws` | pass | All 125 DP=3, TP=2 distributions of 0..4 tokens satisfy the three layout laws. Zero-token ranks, equal and unequal lengths and non-multiples of TP are all covered. |
| `eager_dp2_tp2` | pass | The eager DP>1 path is correct for uneven batches (0..2 tokens per DP rank), prefill and decode, 1 dense + 2 MoE layers, and all interleavings of 4 ranks. The same instance implements `LayerStream`, fairness included. 58k states. |
| `graph_pp2_decode` | pass | Graph decode with PP=2, DP=1, TP=2 and three layers over two pipelined passes. Stage 0 (layers 0-1) hands stage 1 a None residual. Shapes and the stream stay consistent, every rank finishes, and the pipelined stack implements `LayerStream`. 52k states. |
| `eager_pp2_two_pass` | pass | Eager DP=2 with PP=2 and two MoE layers over two passes. Stage 0 may run pass 2 while stage 1 runs pass 1. Stage 1 resumes from the WP-chunk residual without a shape error, a lost contribution or a foreign token. Every rank finishes, and the pipelined eager stack implements `LayerStream`. 49k states. |
| `shared_twice` | violation | The shared-expert output is added twice (lines 752 and 670). |
| `eager_dp1_residual` | violation | With DP=1 the eager MoE layer drops the residual stream (line 673). |
| `fp16_scale` | violation | FP16 rescaling leaves the dense layer's contributions at different scales (lines 758/769). |
| `graph_dp2_decode` | violation | Graph decode with DP=2: the DP all-gather at line 664 makes the fused add at line 665 mismatch the residual. |
| `mc2_decode_tp2` | violation | MC2 decode with fewer tokens than TP ranks: `chunks[tp_rank]` at line 358 fails. |
| `mc2_decode_tp1` | violation | The MC2 branch of graph decode reads `self.params_dtype` (line 697) and `self.tp_group` (line 700). Only `CustomDeepseekV2MoE` sets them (lines 336-338), so the decoder layer raises AttributeError. |
| `moe_freq2` | violation | With moe_layer_freq=2, a dense layer past first_k_dense_replace returns all DP ranks' tokens. Line 758 broadcasts the one-row residual chunk over them instead of failing, so DP rank 0 returns DP rank 1's token (`TokensStayHome`). |
| `mixed_phase` | violation | If DP ranks disagree on is_prefill, one waits in a WP all-gather while its peer waits in a DP all-gather. |

One more defect is in the model but has no run, because no DeepSeek-V2 checkpoint
leaves `n_shared_experts` unset. Set `HasSharedExperts = FALSE` in `eager_dp2_tp2.cfg`
to reproduce it:
- `forward` skips the shared experts (line 751);
- `post_moe_process` then adds the None `shared_output` (line 670), or calls the None
  `shared_experts` (line 694);
- `NoShapeError` fails on the first MoE layer.

Each of these disagreements is a finding in `PROJECT.json`, with what the code does
and what the spec or a comment says. Each property of a passing run has a mutant: a
faulty variant of one mapped definition, as a plausible slip would write it, that TLC
shows the property catches.

## Bounds and why they are enough

- DP=2, TP=2 is the smallest grid where the TP, DP and WP groups all differ, and where
  a DP rank and a TP rank index differ for some rank. That is what exposes a wrong-rank
  slice.
- 0..2 tokens per DP rank covers:
  - an empty rank;
  - equal lengths;
  - a length that is not a multiple of TP, so padding happens;
  - a length that is a multiple of TP, so the `pad_size == 0` early return is taken.
- Three layers with first_k_dense_replace=1 give a dense layer, the first MoE layer (where
  the residual is sliced) and a later MoE layer (where it is not).
- PaddingPass uses DP=3 and up to 4 tokens, so that the packed offsets of
  `padding_aligned_wp` involve more than one earlier rank.
- Passes=2 is what is needed to see a stage run ahead of the next.
- PP=2 is the smallest pipeline. The eager PP run uses two MoE layers (first_k_dense_replace=0),
  so the residual crossing the stage boundary is the WP chunk rather than None.
  - It uses TP=1 and at most 1 token per DP rank. That keeps 2 x 2 ranks and two
    passes within reach, and lengths 0 and 1 still give uneven batches and padding.
  - Its passes are prefills (`PrefillInputs`). With graph mode off, `is_prefill` only
    decides whether the plan is recomputed (line 904), and an eager decode recomputes
    it too. So a decode pass takes exactly the steps of a prefill, and leaving it out
    loses no behaviour. It cuts the per-pass input choices from 8 to 4, which brings
    refinement and liveness within reach.
- The graph PP run uses three layers, so stage 0 holds two (the remainder goes to the
  earlier stage, as `get_pp_indices` assigns it) and the layer loop runs within a stage.

## Fairness

`Fairness == WF_vars(Next)`. Each rank is a process that keeps running, and the
collective transport completes a call once all members have made it. Every step
advances some rank's program, so under weak fairness of the whole next-state relation
the system cannot stop while a step is enabled. `AllPassesComplete` therefore fails
only when ranks block each other or raise.

The PP channel is reliable and in order: a message sent is eventually taken by the
next stage, as point-to-point send/recv guarantees. A stage waiting for its
predecessor is not enabled until the message is there.

## Not modelled

- Numerics of attention, rotary embeddings, gating, top-k routing and expert kernels:
  they are opaque projections here.
- AscendFusedMoE internals and the MC2 dispatch live outside this source.
- The layer split itself (`get_pp_indices`) and the send/recv of `IntermediateTensors`
  are vllm code. They are modelled from vllm's documented behaviour: an even split
  with the remainder on the earlier stages, and a reliable FIFO between neighbouring
  stages.
- The final norm of the last stage (line 854) is a kernel. Outputs are compared
  before it.
- Weight loading, logits and sampling.
- The call `shared_experts(..., reduce_results=True)` at line 694. Its TP all-reduce
  exists only in the dynamic-quant path, and only when TP > 1. With TP = 2 its TP
  members all reach it together (for example TP rank 0 of `mc2_decode_tp2` with
  enough tokens). Either way the branch raises at line 697 right after it, so no
  result of the call reaches the stream, and the model goes straight to the error.
- Construction-time configuration errors. They raise before any rank runs, so there
  is no interleaving or state to check. The one configuration choice with run-time
  consequences, `n_shared_experts`, is the constant `HasSharedExperts`.

## Plan for later work

- The residual-null rule of spec section 3 says residual is None only before the first
  layer and after the last. The code also returns None after every dense layer and
  every DP=1 or graph-mode MoE layer. This is harmless to the stream (`StreamComplete`
  holds), but it is a divergence to record with its own run if one becomes free.
- Graph mode with MC2 and DP>1 once the shape findings above are resolved in the code.
