---------------------------- MODULE MCHarmonyPro ----------------------------
(* A session with the PRO strategy and the layers of Layers.               *)
EXTENDS Harmony, Pro, Layers

ProStart      == {ProInit}

NoLayers      == <<>>
AggLayer      == <<"agg">>
CodegenLayer  == <<"codegen">>
AllLayers     == <<"constraint", "cache", "agg", "codegen">>
Constraint    == <<"constraint">>

(* "As points leave the search strategy, they must pass through the        *)
(* generation phase of each processing layer before [they are] made        *)
(* available to the client": whatever detour it took (rejected and sent    *)
(* again from layer 1, parked, retried from the middle of the stack), a    *)
(* trial that clients can get satisfies the constraints and has its code.  *)
QueuedIsPrepared ==
  \A i \in Queued \cup Held : \A k \in 1 .. LstackLen :
    /\ Stack[k] = "constraint" => pending[i].val \in ValidVals
    /\ Stack[k] = "codegen" => lstate[k].log[pending[i].val] = "COMPLETE"

(* The one skip flag of cache.c is set for a trial found in the cache and  *)
(* is meant for its analysis.  Between requests it is clear, and while it  *)
(* is set the trial in the workflow is on its way back through the cache,  *)
(* with a result on record for its values: no measured result of another   *)
(* trial is dropped, and no cached one is recorded twice.                  *)
SkipIsForHit ==
  \A k \in 1 .. LstackLen : Stack[k] = "cache" /\ lstate[k].skip =>
    /\ at = "workflow" /\ curr_layer = -k
    /\ \E n \in DOMAIN lstate[k].perfs[pending[trial_idx].val] :
         pending[trial_idx].perf = lstate[k].perfs[pending[trial_idx].val][n]

(* agg.c promises AGG_TIMES evaluations of each point: the evaluations     *)
(* gathered for one point, in whatever cells of its storage list, are      *)
(* fewer than AGG_TIMES, or they would have been aggregated.               *)
AggCollects ==
  \A k \in 1 .. LstackLen : Stack[k] = "agg" =>
    \A i, j \in DOMAIN lstate[k] :
      i # j /\ lstate[k][i].id = lstate[k][j].id /\ lstate[k][i].id # -1
        => lstate[k][i].count + lstate[k][j].count < AggTimes

=============================================================================
