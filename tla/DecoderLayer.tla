---------------------------- MODULE DecoderLayer ----------------------------
(***************************************************************************)
(* The decoder-layer orchestrator of vllm_ascend/models/deepseek_v2.py run *)
(* by every rank of the PP x DP x TP grid through a stack of NumLayers     *)
(* layers (CustomDeepseekV2Model.forward over CustomDeepseekV2Decoder-     *)
(* Layer), for up to Passes forward passes.  Each pipeline stage runs its  *)
(* own range of layers; a stage that is not the last hands hidden_states   *)
(* and residual to the next one as IntermediateTensors over a FIFO        *)
(* channel, and may start the next pass while later stages still run this *)
(* one.                                                                    *)
(*                                                                         *)
(* Each rank is a process whose local code runs until it calls a blocking *)
(* collective; a collective completes when every member of its group       *)
(* instance has called one of the same kind (as the transport matches     *)
(* calls by order, not by call site).  The local code between collectives *)
(* is a sequence of LocalSteps, each named after the code it models.      *)
(*                                                                         *)
(* A tensor is a sequence of rows.  A row carries the token it belongs to *)
(* (<<d, i>>, the i-th token of DP rank d), Pad for a zero row, or Mixed   *)
(* when two different tokens were added together, and the bag of          *)
(* contributions summed into it: a contribution is                         *)
(* <<kind, layer, shard, exp>>, the output of one projection of one layer *)
(* computed on one shard (a TP or WP rank, -1 for a whole one), scaled by *)
(* routed_scaling_factor^exp.  Kernels are opaque: a projection replaces  *)
(* the bag by its fresh contribution; a norm leaves an empty bag.          *)
(***************************************************************************)
EXTENDS Padding, Bags

CONSTANTS
  PPSize,           \* get_pp_group().world_size
  NumLayers,        \* config.num_hidden_layers
  FirstKDense,      \* config.first_k_dense_replace
  MoeLayerFreq,     \* config.moe_layer_freq
  EnableGraphMode,  \* additional_config["enable_graph_mode"]
  EnableMC2,        \* envs_ascend.VLLM_ENABLE_MC2
  FP16,             \* hidden_states.dtype == torch.float16
  HasSharedExperts, \* config.n_shared_experts is not None
  Passes,           \* number of forward passes
  InputChoices,     \* per-pass inputs: [lengths: [DPRanks -> Nat], prefill: [DPRanks -> BOOLEAN]]
  Pad, Mixed, Null

VARIABLES
  proc,    \* proc[r]: the local state of rank r = <<pp_rank, dp_rank, tp_rank>>
  inputs,  \* inputs[p]: token counts and is_prefill of each DP rank in pass p
  chan     \* chan[r]: IntermediateTensors sent by rank r to the next stage, oldest first

vars == <<proc, inputs, chan>>

PPRanks == 0 .. PPSize - 1
Ranks == PPRanks \X DPRanks \X TPRanks
PPOf(r) == r[1]
DPOf(r) == r[2]
TPOf(r) == r[3]
WPOf(r) == WPRank(DPOf(r), TPOf(r))

\* The layers of each stage (make_layers, get_pp_indices in vllm): an even
\* split, the layers left over going one each to the stages before the last.
PartitionSize(s) ==
  NumLayers \div PPSize +
    (IF PPSize - 1 - (NumLayers % PPSize) <= s /\ s <= PPSize - 2 THEN 1 ELSE 0)
StartLayer(r) == SumOver([s \in PPRanks |-> PartitionSize(s)], 0 .. PPOf(r) - 1)
EndLayer(r)   == StartLayer(r) + PartitionSize(PPOf(r))

\* Every stage holds at least one layer.
ASSUME PPSize \in Nat \ {0} /\ NumLayers >= PPSize

IsFirstStage(r) == PPOf(r) = 0
IsLastStage(r)  == PPOf(r) = PPSize - 1
PrevStage(r)    == <<PPOf(r) - 1, DPOf(r), TPOf(r)>>

(***************************************************************************)
(* Rows and tensors.                                                       *)
(***************************************************************************)
PadRow == [tok |-> Pad, val |-> EmptyBag]

Fresh(x, term) == [i \in DOMAIN x |-> [tok |-> x[i].tok, val |-> SetToBag({term})]]
Normed(x)      == [i \in DOMAIN x |-> [tok |-> x[i].tok, val |-> EmptyBag]]

AddRow(a, b) == [tok |-> IF a.tok = b.tok THEN a.tok ELSE Mixed, val |-> a.val (+) b.val]
\* torch elementwise addition of two tensors of the same shape.
AddT(x, y) == [i \in DOMAIN x |-> AddRow(x[i], y[i])]

\* torch's `+` on [n, H] and [m, H] tensors: defined when n = m or one side
\* has a single row, which is then broadcast to every row of the other.
BroadcastOK(x, y) == Len(x) = Len(y) \/ Len(x) = 1 \/ Len(y) = 1
AddB(x, y) ==
  CASE Len(x) = Len(y) -> AddT(x, y)
    [] Len(x) = 1      -> [i \in DOMAIN y |-> AddRow(x[1], y[i])]
    [] OTHER           -> [i \in DOMAIN x |-> AddRow(x[i], y[1])]

\* hidden_states *= 1. / self.routed_scaling_factor
ScaleBag(b) == [c \in {<<e[1], e[2], e[3], e[4] - 1>> : e \in DOMAIN b} |->
                  b[<<c[1], c[2], c[3], c[4] + 1>>]]
ScaleT(x) == [i \in DOMAIN x |-> [x[i] EXCEPT !.val = ScaleBag(@)]]

(***************************************************************************)
(* Configuration-derived predicates of the layer.                          *)
(***************************************************************************)
\* CustomDeepseekV2DecoderLayer.__init__, lines 599-600.
IsMoe(l) == l >= FirstKDense /\ l % MoeLayerFreq = 0

Prefill(r, ls) == inputs[ls.pass].prefill[DPOf(r)]
\* is_prefill or not self.enable_graph_mode (lines 632, 669, 904)
EagerPath(r, ls) == Prefill(r, ls) \/ ~EnableGraphMode

Fail(ls) == [ls EXCEPT !.pc = "error"]

(***************************************************************************)
(* The collective call sites: the group each one uses and its kind.        *)
(***************************************************************************)
Site == [pa_ar   |-> <<"TP", "all_reduce">>,      \* line 634
         pa_rs   |-> <<"TP", "reduce_scatter">>,  \* line 641
         pa_ag   |-> <<"WP", "all_gather">>,      \* line 656
         pa_g_ar |-> <<"TP", "all_reduce">>,      \* line 662
         pa_g_ag |-> <<"DP", "all_gather">>,      \* line 664
         mlp_ar  |-> <<"TP", "all_reduce">>,      \* RowParallelLinear down_proj
         pm_ar   |-> <<"WP", "all_reduce">>,      \* line 672
         pm_rs   |-> <<"WP", "reduce_scatter">>,  \* line 677
         pm_ag   |-> <<"WP", "all_gather">>,      \* line 686
         pm_g_ar |-> <<"WP", "all_reduce">>]      \* line 706
WaitSites == DOMAIN Site

Group(kind, r) ==
  CASE kind = "TP" -> {<<PPOf(r), DPOf(r), t>> : t \in TPRanks}
    [] kind = "DP" -> {<<PPOf(r), d, TPOf(r)>> : d \in DPRanks}
    [] kind = "WP" -> {m \in Ranks : PPOf(m) = PPOf(r)}

GroupRank(kind, r) ==
  CASE kind = "TP" -> TPOf(r) [] kind = "DP" -> DPOf(r) [] kind = "WP" -> WPOf(r)

Wait(ls, site) == [ls EXCEPT !.pc = site]

(***************************************************************************)
(* Local code.  Each step is named after the code it models and sets pc to *)
(* the step that follows, a collective call site, "attn" (the next layer), *)
(* "done" or "error" (a fatal shape error raised by torch).                *)
(***************************************************************************)

\* post_attention_layernorm(hidden_states, residual): the fused add-norm of
\* lines 635, 653 and 665; residual becomes the sum, hidden_states its norm.
NormThen(ls, next) ==
  IF Len(ls.hid) # Len(ls.res) THEN Fail(ls)
  ELSE LET s == AddT(ls.hid, ls.res)
       IN [ls EXCEPT !.res = s, !.hid = Normed(s), !.pc = next]

\* CustomDeepseekV2MLAAttention.forward (lines 517-553): as many rows as its
\* input; o_proj has reduce_results=False, so each TP rank holds a partial sum.
SelfAttn(r, ls) == Fresh(ls.hid, <<"attn", ls.lay, TPOf(r), 0>>)

\* forward, lines 720-743, and the branch of post_attention_process up to
\* its first collective (lines 632-641, 660-664).
LayerBegin(r, ls) ==
  LET l    == ls.lay
      res0 == IF ls.res = Null THEN ls.hid ELSE ls.res
      attn == SelfAttn(r, ls)
      out  == IF FP16 THEN ScaleT(attn) ELSE attn
      res1 == IF FP16 /\ l = 0 THEN ScaleT(res0) ELSE res0
      ls1  == [ls EXCEPT !.hid = out, !.res = res1]
  IN IF EagerPath(r, ls)
     THEN IF DPSize <= 1 \/ l < FirstKDense THEN Wait(ls1, "pa_ar")
          ELSE IF ls.plan = Null THEN Fail(ls1)
          ELSE Wait([ls1 EXCEPT !.hid = padding_aligned_tp(ls.plan, DPOf(r), @, PadRow)],
                    "pa_rs")
     ELSE IF TPSize > 1 THEN Wait(ls1, "pa_g_ar")
          ELSE [ls1 EXCEPT !.pc = "pa_g_ar_done"]

\* Faulty variants of AfterAttnReduceScatter: the residual is not sliced at
\* the first MoE layer; the slice starts at dp_rank instead of the TP rank.
AfterAttnReduceScatterNoSlice(r, ls) == NormThen(ls, "pa_ag")
AfterAttnReduceScatterDPStart(r, ls) ==
  LET rs   == Len(ls.hid)
      res1 == IF ls.lay = FirstKDense
              THEN PySlice(FPadRows(ls.res, rs * TPSize - Len(ls.res), PadRow),
                           DPOf(r) * rs, DPOf(r) * rs + rs)
              ELSE ls.res
  IN NormThen([ls EXCEPT !.res = res1], "pa_ag")

\* Lines 646-653: at the first MoE layer the residual is padded and sliced
\* to this rank's reduce-scatter chunk; then the fused add-norm; then the
\* global all-gather of line 656.
AfterAttnReduceScatter(r, ls) ==
  LET rs   == Len(ls.hid)
      res1 == IF ls.lay = FirstKDense
              THEN PySlice(FPadRows(ls.res, rs * TPSize - Len(ls.res), PadRow),
                           TPOf(r) * rs, TPOf(r) * rs + rs)
              ELSE ls.res
  IN NormThen([ls EXCEPT !.res = res1], "pa_ag")

\* Line 658: unpadding_aligned_tp.
AfterAttnAllGather(ls) ==
  IF ~UnpadTPDefined(ls.plan, ls.hid) THEN Fail(ls)
  ELSE [ls EXCEPT !.hid = unpadding_aligned_tp(ls.plan, @), !.pc = "ffn"]

\* Lines 663-665 of the graph-mode branch.
AfterGraphAttnAllReduce(ls) ==
  IF ~EnableMC2 THEN Wait(ls, "pa_g_ag") ELSE NormThen(ls, "ffn")

\* CustomDeepseekV2SharedExpertMLP.forward (lines 239-271): down_proj is a
\* RowParallelLinearWp with reduce_results=False, one partial sum per WP rank.
SharedExperts(r, ls) == Fresh(ls.hid, <<"shared", ls.lay, WPOf(r), 0>>)

\* Faulty variant of MoeChunked: the guard of line 356 without VLLM_ENABLE_MC2.
MoeChunkedNoMC2(r, ls) == ~Prefill(r, ls) /\ TPSize > 1

\* Line 356: under MC2 a decode pass with TP > 1 keeps one torch.chunk.
MoeChunked(r, ls) == EnableMC2 /\ ~Prefill(r, ls) /\ TPSize > 1

(***************************************************************************)
(* CustomDeepseekV2MoE.forward (lines 346-380): this TP rank's torch.chunk *)
(* of the tokens under MC2 decode (indexing chunks[tp_rank] fails when     *)
(* torch.chunk made fewer chunks), then AscendFusedMoE with                *)
(* reduce_results=False, this WP rank's partial sum, times                 *)
(* routed_scaling_factor.                                                  *)
(***************************************************************************)
MoeChunkMissing(r, ls) ==
  MoeChunked(r, ls) /\ TPOf(r) >= TorchChunkCount(Len(ls.hid), TPSize)

MoeForward(r, ls) ==
  LET x == IF MoeChunked(r, ls) THEN TorchChunk(ls.hid, TPSize, TPOf(r)) ELSE ls.hid
  IN Fresh(x, <<"routed", ls.lay, WPOf(r), 1>>)

\* forward, lines 744-752: shared experts (None without n_shared_experts),
\* routed experts, and their sum.
MoeBlock(r, ls) ==
  LET shared == IF HasSharedExperts THEN SharedExperts(r, ls) ELSE Null
      routed == MoeForward(r, ls)
  IN IF MoeChunkMissing(r, ls) \/ (shared # Null /\ ~BroadcastOK(routed, shared)) THEN Fail(ls)
     ELSE [ls EXCEPT !.hid = IF shared = Null THEN routed ELSE AddB(routed, shared),
                     !.shared = shared, !.pc = "pm"]

\* Faulty variant of DenseMlp: the all-reduce guarded by the TP rank
\* instead of the TP width.
DenseMlpRankGuard(r, ls) ==
  LET out == Fresh(ls.hid, <<"dense", ls.lay, TPOf(r), 0>>)
  IN IF TPOf(r) > 0 THEN Wait([ls EXCEPT !.hid = out], "mlp_ar")
     ELSE [ls EXCEPT !.hid = out, !.pc = "mlp_done"]

\* Line 757 with CustomDeepseekV2MLP.forward (lines 199-201): down_proj is a
\* RowParallelLinear with reduce_results=True, which all-reduces when TP > 1.
DenseMlp(r, ls) ==
  LET out == Fresh(ls.hid, <<"dense", ls.lay, TPOf(r), 0>>)
  IN IF TPSize > 1 THEN Wait([ls EXCEPT !.hid = out], "mlp_ar")
     ELSE [ls EXCEPT !.hid = out, !.pc = "mlp_done"]

\* Lines 758-759.
AfterDenseMlp(ls) ==
  IF ~BroadcastOK(ls.hid, ls.res) THEN Fail(ls)
  ELSE [ls EXCEPT !.hid = AddB(@, ls.res), !.res = Null, !.pc = "layer_end"]

\* post_moe_process up to its first collective (lines 669-674, 692-705).
\* Every branch adds shared_output or calls self.shared_experts, which
\* raises a TypeError when they are None.  The MC2 branch of graph decode
\* raises an AttributeError at line 697: params_dtype and tp_group are
\* attributes of CustomDeepseekV2MoE (lines 336-338), never set on the
\* decoder layer, so lines 699-703 are never reached.
PostMoeEntry(r, ls) ==
  IF ls.shared = Null THEN Fail(ls)
  ELSE IF EagerPath(r, ls)
  THEN IF ~BroadcastOK(ls.shared, ls.hid) THEN Fail(ls)
       ELSE LET sum == AddB(ls.shared, ls.hid)
            IN IF DPSize <= 1 THEN Wait([ls EXCEPT !.hid = sum], "pm_ar")
               ELSE IF ~PadWPDefined(ls.plan, sum) THEN Fail(ls)
               ELSE Wait([ls EXCEPT !.hid = padding_aligned_wp(ls.plan, sum, PadRow)],
                         "pm_rs")
  ELSE IF EnableMC2 THEN Fail(ls)
       ELSE IF ~BroadcastOK(ls.shared, ls.hid) THEN Fail(ls)
       ELSE Wait([ls EXCEPT !.hid = AddB(ls.shared, @)], "pm_g_ar")

\* Line 673: return hidden_states, None.
AfterMoeAllReduce(ls) == [ls EXCEPT !.res = Null, !.pc = "layer_end"]

\* Faulty variant: the residual add of line 683 left out.
AfterMoeReduceScatterNoResidual(ls) == Wait([ls EXCEPT !.res = ls.hid], "pm_ag")

\* Lines 683-686.
AfterMoeReduceScatter(ls) ==
  IF ~BroadcastOK(ls.hid, ls.res) THEN Fail(ls)
  ELSE LET s == AddB(ls.hid, ls.res) IN Wait([ls EXCEPT !.hid = s, !.res = s], "pm_ag")

\* Faulty variant: unpadding with the TP rank in place of the DP rank.
AfterMoeAllGatherTPRank(r, ls) ==
  [ls EXCEPT !.hid = unpadding_aligned_wp(ls.plan, TPOf(r), @),
             !.res = IF ls.lay = NumLayers - 1 THEN Null ELSE @,
             !.pc  = "layer_end"]

\* Lines 688-691.
AfterMoeAllGather(r, ls) ==
  [ls EXCEPT !.hid = unpadding_aligned_wp(ls.plan, DPOf(r), @),
             !.res = IF ls.lay = NumLayers - 1 THEN Null ELSE @,
             !.pc  = "layer_end"]

\* Faulty variant: the residual add of line 708 left out.
AfterGraphMoeAllReduceNoResidual(ls) == [ls EXCEPT !.res = Null, !.pc = "layer_end"]

\* Lines 707-708.
AfterGraphMoeAllReduce(ls) ==
  IF ~BroadcastOK(ls.hid, ls.res) THEN Fail(ls)
  ELSE [ls EXCEPT !.hid = AddB(@, ls.res), !.res = Null, !.pc = "layer_end"]

\* Faulty variant: the layer loop runs one layer past the stage's last.
LayerEndPastLast(r, ls) ==
  [ls EXCEPT !.lay = @ + 1, !.pc = IF ls.lay = EndLayer(r) THEN "done" ELSE "attn"]

\* Lines 761-771, then the next iteration of the layer loop of
\* CustomDeepseekV2Model.forward over range(start_layer, end_layer)
\* (lines 840-846), or its end.
LayerEnd(r, ls) ==
  [ls EXCEPT !.hid = IF ~IsMoe(ls.lay) /\ FP16 THEN ScaleT(@) ELSE @,
             !.lay = @ + 1,
             !.pc  = IF ls.lay + 1 = EndLayer(r) THEN "done" ELSE "attn"]

Step(r, ls) ==
  CASE ls.pc = "pa_ar_done"      -> NormThen(ls, "ffn")
    [] ls.pc = "pa_rs_done"      -> AfterAttnReduceScatter(r, ls)
    [] ls.pc = "pa_ag_done"      -> AfterAttnAllGather(ls)
    [] ls.pc = "pa_g_ar_done"    -> AfterGraphAttnAllReduce(ls)
    [] ls.pc = "pa_g_ag_done"    -> NormThen(ls, "ffn")
    [] ls.pc = "ffn"             -> IF IsMoe(ls.lay) THEN MoeBlock(r, ls) ELSE DenseMlp(r, ls)
    [] ls.pc = "mlp_ar_done"     -> [ls EXCEPT !.pc = "mlp_done"]
    [] ls.pc = "mlp_done"        -> AfterDenseMlp(ls)
    [] ls.pc = "pm"              -> PostMoeEntry(r, ls)
    [] ls.pc = "pm_ar_done"      -> AfterMoeAllReduce(ls)
    [] ls.pc = "pm_rs_done"      -> AfterMoeReduceScatter(ls)
    [] ls.pc = "pm_ag_done"      -> AfterMoeAllGather(r, ls)
    [] ls.pc = "pm_g_ar_done"    -> AfterGraphMoeAllReduce(ls)
    [] ls.pc = "layer_end"       -> LayerEnd(r, ls)

StopLabels == WaitSites \cup {"idle", "attn", "done", "error"}

\* The last layer of a stage that is not the last returns IntermediateTensors.
StageOutputPending(r) ==
  proc[r].pc = "layer_end" /\ proc[r].lay + 1 = EndLayer(r) /\ ~IsLastStage(r)

\* A rank runs one step of its local code between two collective calls.
LocalStep(r) ==
  /\ proc[r].pc \notin StopLabels
  /\ ~StageOutputPending(r)
  /\ proc' = [proc EXCEPT ![r] = Step(r, @)]
  /\ UNCHANGED <<inputs, chan>>

(***************************************************************************)
(* Collectives.  A collective over the group instance M completes when     *)
(* every member has called a collective of the same group and kind; a      *)
(* member's result replaces its hidden_states.  Summing collectives add   *)
(* the rows at each position; torch fails unless all members pass tensors  *)
(* of the same shape, reduce_scatter_tensor unless the group size divides  *)
(* the rows.                                                               *)
(***************************************************************************)
Members(kind, r) ==
  LET M == Group(kind, r)
  IN [k \in 1 .. Cardinality(M) |-> CHOOSE m \in M : GroupRank(kind, m) = k - 1]

SumT(parts) == FoldLeft(LAMBDA acc, x : AddT(acc, x), parts[1], Tail(parts))

CollectiveDefined(op, parts) ==
  /\ \A k \in DOMAIN parts : Len(parts[k]) = Len(parts[1])
  /\ op = "reduce_scatter" => Len(parts[1]) % Len(parts) = 0

CollectiveResult(op, parts, k) ==
  CASE op = "all_reduce"      -> SumT(parts)
    [] op = "reduce_scatter"  -> ScatterChunk(SumT(parts), Len(parts), k)
    [] op = "all_gather"      -> GatherAll(parts)

Collective(kind, r) ==
  LET site == proc[r].pc
      op   == Site[site][2]
      mem  == Members(kind, r)
      M    == Group(kind, r)
      parts == [k \in DOMAIN mem |-> proc[mem[k]].hid]
  IN /\ site \in WaitSites
     /\ Site[site][1] = kind
     /\ \A m \in M : proc[m].pc \in WaitSites /\ Site[proc[m].pc] = Site[site]
     /\ proc' = [m \in Ranks |->
                   IF m \notin M THEN proc[m]
                   ELSE IF ~CollectiveDefined(op, parts) THEN Fail(proc[m])
                   ELSE [proc[m] EXCEPT
                          !.hid = CollectiveResult(op, parts, GroupRank(kind, m)),
                          !.pc  = proc[m].pc \o "_done"]]
     /\ UNCHANGED <<inputs, chan>>

(***************************************************************************)
(* A rank starts a forward pass (CustomDeepseekV2ForCausalLM.forward,      *)
(* lines 904-922, and CustomDeepseekV2Model.forward, lines 829-838).  The  *)
(* first rank to start pass p fixes its inputs, which every DP rank then   *)
(* sees (cu_tokens_across_dp_cpu is shared); a pass that is a prefill or   *)
(* runs eagerly recomputes the padding plan.  The first stage embeds the  *)
(* tokens and starts with residual None; a later stage resumes from the    *)
(* hidden_states and residual its predecessor sent.                        *)
(***************************************************************************)
Embed(d, n) == [i \in 1 .. n |-> [tok |-> <<d, i>>, val |-> SetToBag({<<"embed", -1, -1, 0>>})]]

Received(r) == Head(chan[PrevStage(r)])

\* Faulty variant: a later stage takes hidden_states but not the residual.
StageInputNoResidual(r, in) ==
  IF IsFirstStage(r) THEN [hid |-> Embed(DPOf(r), in.lengths[DPOf(r)]), res |-> Null]
  ELSE [Received(r) EXCEPT !.res = Null]

StageInput(r, in) ==
  IF IsFirstStage(r) THEN [hid |-> Embed(DPOf(r), in.lengths[DPOf(r)]), res |-> Null]
  ELSE Received(r)

StartPass(r, in, p) ==
  LET d     == DPOf(r)
      eager == in.prefill[d] \/ ~EnableGraphMode
      cu    == [k \in DPRanks |-> SumOver(in.lengths, 0 .. k)]
  IN proc' = [proc EXCEPT ![r] =
                [pc |-> "attn", lay |-> StartLayer(r), pass |-> p,
                 hid |-> StageInput(r, in).hid, res |-> StageInput(r, in).res, shared |-> Null,
                 plan |-> IF eager THEN MakePlan(cu) ELSE @.plan]]

ForwardPass(r) ==
  LET p == proc[r].pass + 1
  IN /\ proc[r].pc \in {"idle", "done"}
     /\ p <= Passes
     /\ \/ IsFirstStage(r) /\ UNCHANGED chan
        \/ /\ ~IsFirstStage(r)
           /\ chan[PrevStage(r)] # <<>>
           /\ chan' = [chan EXCEPT ![PrevStage(r)] = Tail(@)]
     /\ \/ /\ p > Len(inputs)
           /\ \E in \in InputChoices : inputs' = Append(inputs, in) /\ StartPass(r, in, p)
        \/ /\ p <= Len(inputs)
           /\ StartPass(r, inputs[p], p)
           /\ UNCHANGED inputs

\* The last layer of a stage that is not the last: CustomDeepseekV2Model.
\* forward returns IntermediateTensors({"hidden_states", "residual"})
\* (lines 848-852), which the runner sends to the same DP and TP rank of
\* the next stage.
SendIntermediate(r) ==
  LET ls == LayerEnd(r, proc[r])
  IN /\ StageOutputPending(r)
     /\ proc' = [proc EXCEPT ![r] = ls]
     /\ chan' = [chan EXCEPT ![r] = Append(@, [hid |-> ls.hid, res |-> ls.res])]
     /\ UNCHANGED inputs

\* A rank enters a decoder layer and runs it up to its first collective call.
DecoderLayerForward(r) ==
  /\ proc[r].pc = "attn"
  /\ proc' = [proc EXCEPT ![r] = LayerBegin(r, @)]
  /\ UNCHANGED <<inputs, chan>>

\* Every rank has returned from its last pass.
Finished ==
  /\ \A r \in Ranks : proc[r].pc = "done" /\ proc[r].pass = Passes
  /\ UNCHANGED vars

Init ==
  /\ inputs = <<>>
  /\ chan = [r \in Ranks |-> <<>>]
  /\ proc = [r \in Ranks |-> [pc |-> "idle", lay |-> 0, pass |-> 0, hid |-> <<>>,
                              res |-> Null, shared |-> Null, plan |-> Null]]

Next ==
  \/ \E r \in Ranks : ForwardPass(r)
  \/ \E r \in Ranks : DecoderLayerForward(r)
  \/ \E r \in Ranks : LocalStep(r)
  \/ \E r \in Ranks : SendIntermediate(r)
  \/ \E r \in Ranks : Collective("TP", r)
  \/ \E r \in Ranks : Collective("DP", r)
  \/ \E r \in Ranks : Collective("WP", r)
  \/ Finished

(***************************************************************************)
(* Ranks are processes that keep running and the transport completes a    *)
(* collective once all members have called it, so some enabled step       *)
(* always happens.  Every step moves a rank forward, so this is enough for *)
(* the passes to end unless the ranks block each other.                    *)
(***************************************************************************)
Fairness == WF_vars(Next)

Spec == Init /\ [][Next]_vars /\ Fairness
-----------------------------------------------------------------------------
(***************************************************************************)
(* Properties.                                                             *)
(***************************************************************************)
Rows(ls) == {ls.hid[i] : i \in DOMAIN ls.hid} \cup
            (IF ls.res = Null THEN {} ELSE {ls.res[i] : i \in DOMAIN ls.res})

Labels == StopLabels \cup {w \o "_done" : w \in WaitSites}
                     \cup {"ffn", "mlp_done", "pm", "layer_end"}

TypeOK ==
  /\ inputs \in Seq(InputChoices) /\ Len(inputs) <= Passes
  /\ \A r \in Ranks :
       /\ proc[r].pc \in Labels
       /\ proc[r].lay \in 0 .. NumLayers
       /\ proc[r].pass \in 0 .. Passes
       /\ \A row \in Rows(proc[r]) : row.tok \in (DPRanks \X Nat) \cup {Pad, Mixed}
       /\ Len(chan[r]) <= Passes
       /\ IsLastStage(r) => chan[r] = <<>>

(***************************************************************************)
(* Every rank that starts a pass finishes it without a fatal torch error   *)
(* (a shape mismatch, an index out of range, a None operand or a missing  *)
(* attribute):                                                            *)
(* the pads, slices, reduce-scatters, gathers and fused adds of every      *)
(* branch of post_attention_process, post_moe_process and                  *)
(* CustomDeepseekV2MoE.forward always meet tensors of matching shapes.     *)
(***************************************************************************)
NoShapeError == \A r \in Ranks : proc[r].pc # "error"

(***************************************************************************)
(* Two ranks that are blocked in collectives, each a member of the other's *)
(* group, are blocked in the same call of the same layer and pass.  The    *)
(* transport matches calls by order, so ranks that took different branches *)
(* of post_attention_process or post_moe_process would exchange unrelated  *)
(* tensors or wait for each other forever.  Spec section 5 calls this the  *)
(* most critical property of the system.                                   *)
(***************************************************************************)
CollectivesMatch ==
  \A r, m \in Ranks :
    (/\ proc[r].pc \in WaitSites /\ proc[m].pc \in WaitSites
     /\ m \in Group(Site[proc[r].pc][1], r) /\ r \in Group(Site[proc[m].pc][1], m))
    => /\ proc[r].pc = proc[m].pc
       /\ proc[r].lay = proc[m].lay
       /\ proc[r].pass = proc[m].pass

(***************************************************************************)
(* No row ever adds up two different tokens (or a token and a padding      *)
(* row): every cross-rank reduction, residual add and fused add-norm      *)
(* combines rows of the same token.  torch cannot notice such a mistake:  *)
(* the shapes agree, the values are silently wrong.                       *)
(***************************************************************************)
RowsAligned == \A r \in Ranks : \A row \in Rows(proc[r]) : row.tok # Mixed

(***************************************************************************)
(* The contributions a correct residual stream holds before layer l: the  *)
(* embedding, and for each earlier layer the attention output of every TP *)
(* shard and the MLP output of every shard (TP shards of the dense MLP,   *)
(* WP shards of the routed and the shared experts).                        *)
(***************************************************************************)
ExpertKinds == IF HasSharedExperts THEN {"routed", "shared"} ELSE {"routed"}

LayerKinds(j) ==
  {<<"attn", j, t>> : t \in TPRanks} \cup
  IF IsMoe(j) THEN {<<k, j, w>> : k \in ExpertKinds, w \in 0 .. WPSize - 1}
              ELSE {<<"dense", j, t>> : t \in TPRanks}

IdealKinds(l) == {<<"embed", -1, -1>>} \cup UNION {LayerKinds(j) : j \in 0 .. l - 1}

Kinds(b) == {<<e[1], e[2], e[3]>> : e \in DOMAIN b}

AtBoundary(r) == proc[r].pc \in {"attn", "done"} /\ proc[r].pass > 0

OwnTokens(r) == [i \in 1 .. inputs[proc[r].pass].lengths[DPOf(r)] |-> <<DPOf(r), i>>]

(***************************************************************************)
(* Between layers, every rank holds exactly its own DP rank's tokens, in  *)
(* order: what attention reads from and writes to the KV cache, and what  *)
(* the model returns.  The padded, scattered and gathered layouts of the  *)
(* DP > 1 path must all be undone by the end of each layer.               *)
(***************************************************************************)
TokensStayHome ==
  \A r \in Ranks : AtBoundary(r) =>
    [i \in DOMAIN proc[r].hid |-> proc[r].hid[i].tok] = OwnTokens(r)

(***************************************************************************)
(* Between layers, the hidden state of every token, and the residual kept *)
(* for it, hold every contribution of the residual stream and nothing     *)
(* else: no skip connection is dropped, no partial sum of a TP or WP      *)
(* shard is left unreduced, and no MLP or attention output is missing.    *)
(***************************************************************************)
StreamComplete ==
  \A r \in Ranks : AtBoundary(r) =>
    \A row \in Rows(proc[r]) : row.tok # Pad => Kinds(row.val) = IdealKinds(proc[r].lay)

(***************************************************************************)
(* Each contribution is added exactly once (spec 4.3: the shared-expert   *)
(* output is added to the routed output once, before the post-MoE         *)
(* communication).                                                         *)
(***************************************************************************)
ContributionsOnce ==
  \A r \in Ranks : AtBoundary(r) =>
    \A row \in Rows(proc[r]) : \A e \in DOMAIN row.val : row.val[e] = 1

(***************************************************************************)
(* Under FP16 the overflow guard rescales whole streams only (spec 4.2):  *)
(* between layers all contributions carry the same power of               *)
(* routed_scaling_factor relative to the unscaled stream, so the next     *)
(* RMSNorm sees the stream up to a constant factor.                       *)
(***************************************************************************)
IdealExp(kind) == IF kind = "routed" THEN 1 ELSE 0

ScaleUniform ==
  \A r \in Ranks : AtBoundary(r) =>
    \A row \in Rows(proc[r]) :
      Cardinality({e[4] - IdealExp(e[1]) : e \in DOMAIN row.val}) <= 1

(***************************************************************************)
(* Every rank eventually returns from its last forward pass: no collective *)
(* waits forever for a peer that went elsewhere.                           *)
(***************************************************************************)
AllPassesComplete ==
  <>(\A r \in Ranks : proc[r].pc = "done" /\ proc[r].pass = Passes)
-----------------------------------------------------------------------------
(***************************************************************************)
(* Refinement: the detailed stack implements LayerStream.  A rank is idle  *)
(* before its first pass, done after returning from one, and running in   *)
(* between (blocked in a collective or not); its layer is proc[r].lay; a  *)
(* done rank's output is what its hidden_states hold, each row read as    *)
(* the token it belongs to and the set of outputs summed into it.  The    *)
(* ideal output of a pass is the rank's own tokens, in order, each        *)
(* holding the residual stream of every layer up to the end of its stage  *)
(* (what a later stage receives, or, on the last, the stack's output).    *)
(***************************************************************************)
AbsStatus(r) ==
  CASE proc[r].pc = "idle" -> "idle"
    [] proc[r].pc = "done" -> "done"
    [] OTHER               -> "running"

Output(ls) == [i \in DOMAIN ls.hid |-> <<ls.hid[i].tok, Kinds(ls.hid[i].val)>>]

IdealOutput(r, in) ==
  [i \in 1 .. in.lengths[DPOf(r)] |-> <<<<DPOf(r), i>>, IdealKinds(EndLayer(r))>>]

Abstract == INSTANCE LayerStream WITH
  FirstLayer <- StartLayer,
  LastLayer  <- EndLayer,
  Ideal  <- IdealOutput,
  status <- [r \in Ranks |-> AbsStatus(r)],
  layer  <- [r \in Ranks |-> proc[r].lay],
  pass   <- [r \in Ranks |-> proc[r].pass],
  out    <- [r \in Ranks |-> IF proc[r].pc = "done" THEN Output(proc[r]) ELSE Null]

(***************************************************************************)
(* Every behaviour of the stack is one of LayerStream, fairness included:  *)
(* ranks go through the layers of a pass in order, one layer per step of  *)
(* the layer loop of CustomDeepseekV2Model.forward, each returns exactly  *)
(* its own tokens carrying the complete residual stream, and each running *)
(* rank keeps making progress until its last pass is done.                *)
(***************************************************************************)
RefinesLayerStream == Abstract!Spec
=============================================================================
