--------------------------- MODULE MCDecoderLayer ---------------------------
(***************************************************************************)
(* Model-checking instance of DecoderLayer: the per-pass inputs are every  *)
(* distribution of up to MaxTokens tokens per DP rank, with a phase that   *)
(* is the same on every DP rank (UniformPhase) or chosen per DP rank       *)
(* (AnyPhase), and, for graph-mode decode, equal token counts on every DP  *)
(* rank (the batch a captured graph was compiled for).                     *)
(***************************************************************************)
EXTENDS DecoderLayer

CONSTANT MaxTokens

UniformPhase == {[d \in DPRanks |-> b] : b \in BOOLEAN}
AnyPhase     == [DPRanks -> BOOLEAN]

AnyLengths   == [DPRanks -> 0 .. MaxTokens]
EqualLengths == {[d \in DPRanks |-> n] : n \in 0 .. MaxTokens}

EagerInputs  == [lengths : AnyLengths, prefill : UniformPhase]
PrefillInputs == [lengths : AnyLengths, prefill : {[d \in DPRanks |-> TRUE]}]
GraphInputs  == {i \in [lengths : AnyLengths, prefill : UniformPhase] :
                   ~i.prefill[0] => i.lengths \in EqualLengths}
DecodeGraphInputs == {i \in GraphInputs : ~i.prefill[0]}
MixedPhaseInputs == [lengths : EqualLengths, prefill : AnyPhase]

=============================================================================
