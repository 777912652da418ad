---------------------------- MODULE PaddingPass ----------------------------
(***************************************************************************)
(* The padding plan across forward passes: every pass that is a prefill or *)
(* runs eagerly replaces the process-wide _dp_metadata_for_padding with a  *)
(* plan computed from that pass's DP token counts (lines 904-920).  Each   *)
(* state holds one plan, and the invariants check the padding laws the     *)
(* decoder layer relies on for every distribution of up to MaxTokens       *)
(* tokens per DP rank.                                                     *)
(*                                                                         *)
(* A real token is the row <<d, i>>: the i-th token of DP rank d.          *)
(***************************************************************************)
EXTENDS Padding

CONSTANTS
  MaxTokens,  \* bound on the tokens of one DP rank in one pass
  Pad         \* the zero row written by F.pad and torch.zeros

VARIABLES
  cu_tokens,  \* get_forward_context().dp_metadata.cu_tokens_across_dp_cpu
  plan        \* _dp_metadata_for_padding

vars == <<cu_tokens, plan>>

\* All cumulative token-count vectors with at most MaxTokens per rank.
CuChoices ==
  { [d \in DPRanks |-> SumOver(l, 0 .. d)] : l \in [DPRanks -> 0 .. MaxTokens] }

Init ==
  /\ cu_tokens \in CuChoices
  /\ plan = MakePlan(cu_tokens)

\* A new forward pass with is_prefill or not enable_graph_mode: lines 904-920.
ForwardPass ==
  /\ cu_tokens' \in CuChoices
  /\ plan' = MakePlan(cu_tokens')

Next == ForwardPass

Spec == Init /\ [][Next]_vars

-----------------------------------------------------------------------------
Own(d)    == [i \in 1 .. plan.lengths[d] |-> <<d, i>>]
AllTokens == FlattenSeq([k \in 1 .. DPSize |-> Own(k - 1)])

TypeOK ==
  /\ cu_tokens \in [DPRanks -> 0 .. DPSize * MaxTokens]
  /\ plan.max_length \in 0 .. MaxTokens + TPSize
  /\ plan.pad_size \in [DPRanks -> Nat]
  /\ plan.atten_unpad_mask \in Seq(BOOLEAN)

(***************************************************************************)
(* The keep-mask marks exactly as many rows as there are real tokens       *)
(* (spec section 3: sum(keep_mask) == sum(lengths)), for every DP          *)
(* distribution, including ranks with no tokens.                           *)
(***************************************************************************)
MaskCountsTokens ==
  Cardinality({k \in DOMAIN plan.atten_unpad_mask : plan.atten_unpad_mask[k]})
    = SumOver(plan.lengths, DPRanks)

(***************************************************************************)
(* Post-attention layout law (post_attention_process, lines 639-658): each *)
(* rank pads its own tokens to max_length, the TP reduce-scatter leaves    *)
(* TP rank t with chunk t, the global all-gather concatenates the chunks   *)
(* of all DP x TP ranks in WP order, and unpadding with the mask yields    *)
(* every DP rank's tokens, in rank order, with no padding row left.        *)
(***************************************************************************)
ScatteredTP(d, t) == ScatterChunk(padding_aligned_tp(plan, d, Own(d), Pad), TPSize, t)

PostAttentionLayoutLaw ==
  LET gathered == GatherAll([w \in 1 .. WPSize |->
                     ScatteredTP((w - 1) \div TPSize, (w - 1) % TPSize)])
  IN /\ UnpadTPDefined(plan, gathered)
     /\ unpadding_aligned_tp(plan, gathered) = AllTokens

(***************************************************************************)
(* Post-MoE layout law (post_moe_process, lines 674-688, with the residual *)
(* slice of lines 646-651): packing all tokens into max_length slots and   *)
(* reduce-scattering over WP gives WP rank <<d, t>> exactly the rows of    *)
(* the residual chunk it kept after the post-attention reduce-scatter, so  *)
(* "hidden_states + residual" adds a token to itself; and the all-gather   *)
(* followed by unpadding_aligned_wp returns each DP rank its own tokens.   *)
(***************************************************************************)
ResidualChunk(d, t) ==
  LET rs == plan.max_length \div TPSize
  IN PySlice(FPadRows(Own(d), rs * TPSize - plan.lengths[d], Pad), t * rs, t * rs + rs)

PostMoeLayoutLaw ==
  LET packed   == padding_aligned_wp(plan, AllTokens, Pad)
      chunk(w) == ScatterChunk(packed, WPSize, w)
      gathered == GatherAll([w \in 1 .. WPSize |-> chunk(w - 1)])
  IN \A d \in DPRanks :
       /\ \A t \in TPRanks : chunk(WPRank(d, t)) = ResidualChunk(d, t)
       /\ unpadding_aligned_wp(plan, d, gathered) = Own(d)
=============================================================================
