---------------------------- MODULE LayerStream ----------------------------
(***************************************************************************)
(* What the decoder stack promises each rank, with the parallel layout,   *)
(* the collectives and the residual bookkeeping left out.  A rank starts  *)
(* pass p on the inputs every rank of that pass sees, runs the layers one *)
(* after the other (its own range of them, under pipeline parallelism),   *)
(* and returns what a single-device model would compute from those inputs *)
(* up to its last layer: Ideal(r, in).                                    *)
(*                                                                         *)
(* Every running rank eventually finishes its layer, and every finished   *)
(* rank with passes left eventually starts the next one.                  *)
(***************************************************************************)
EXTENDS Naturals, Sequences

CONSTANTS
  Ranks,          \* the processes of the parallel grid
  FirstLayer(_),  \* FirstLayer(r): the first layer rank r runs (start_layer)
  LastLayer(_),   \* LastLayer(r): one past the last layer it runs (end_layer)
  Passes,         \* number of forward passes
  InputChoices,   \* the inputs a pass may be run on
  Ideal(_, _),    \* Ideal(r, in): what rank r returns for the inputs in
  Null

VARIABLES
  inputs,   \* inputs[p]: the inputs of pass p, fixed by the first rank to run it
  status,   \* "idle", "running" or "done"
  layer,    \* the layer a running rank is in; LastLayer(r) once it is done
  pass,     \* the pass a rank is in or last finished
  out       \* what a done rank returned, Null otherwise

avars == <<inputs, status, layer, pass, out>>

Init ==
  /\ inputs = <<>>
  /\ status = [r \in Ranks |-> "idle"]
  /\ layer  = [r \in Ranks |-> 0]
  /\ pass   = [r \in Ranks |-> 0]
  /\ out    = [r \in Ranks |-> Null]

Start(r) ==
  LET p == pass[r] + 1
  IN /\ status[r] \in {"idle", "done"}
     /\ p <= Passes
     /\ \/ p > Len(inputs) /\ \E in \in InputChoices : inputs' = Append(inputs, in)
        \/ p <= Len(inputs) /\ UNCHANGED inputs
     /\ status' = [status EXCEPT ![r] = "running"]
     /\ layer'  = [layer EXCEPT ![r] = FirstLayer(r)]
     /\ pass'   = [pass EXCEPT ![r] = p]
     /\ out'    = [out EXCEPT ![r] = Null]

Advance(r) ==
  /\ status[r] = "running"
  /\ layer[r] + 1 < LastLayer(r)
  /\ layer' = [layer EXCEPT ![r] = @ + 1]
  /\ UNCHANGED <<inputs, status, pass, out>>

Complete(r) ==
  /\ status[r] = "running"
  /\ layer[r] + 1 = LastLayer(r)
  /\ status' = [status EXCEPT ![r] = "done"]
  /\ layer'  = [layer EXCEPT ![r] = LastLayer(r)]
  /\ out'    = [out EXCEPT ![r] = Ideal(r, inputs[pass[r]])]
  /\ UNCHANGED <<inputs, pass>>

Next == \E r \in Ranks : Start(r) \/ Advance(r) \/ Complete(r)

Fairness ==
  \A r \in Ranks : WF_avars(Start(r)) /\ WF_avars(Advance(r)) /\ WF_avars(Complete(r))

Spec == Init /\ [][Next]_avars /\ Fairness
=============================================================================
