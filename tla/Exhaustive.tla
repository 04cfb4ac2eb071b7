----------------------------- MODULE Exhaustive -----------------------------
(***************************************************************************)
(* The exhaustive strategy (exhaustive.c), as the operators a session      *)
(* calls.  The search space is given as the sequence of its points in the  *)
(* order in which increment() visits them: the last one is the point whose *)
(* every variable is at its maximum.  The variables are integers or        *)
(* enumerations (for reals the look-ahead of increment() never fires).     *)
(***************************************************************************)
EXTENDS HMesg, Sequences

CONSTANTS Space,        \* the points of the search space, in order
          Passes        \* CFGKEY_PASSES, set in the configuration

ASSUME ExhaustiveAssumption ==
  /\ Len(Space) > 0
  /\ \A i \in 1 .. Len(Space) : Space[i] \in Vals
  /\ Passes \in Nat \ {0}

(* id and pos are the id of curr and its place in the space.  measured is  *)
(* a history of the values that have been reported; no code reads it.      *)
ExhaustiveInit ==
  [id |-> 1, pos |-> 1, remaining_passes |-> Passes, final_id |-> 0,
   outstanding_points |-> 0, final_point_received |-> FALSE, converged |-> FALSE,
   best |-> HPOINT_INITIALIZER, best_perf |-> Infinity, measured |-> {}]

(* strategy_init() once more: the odometer and the pass counter start over *)
(* and the rest is retained.                                               *)
ExhaustiveRestart(s) ==
  [s EXCEPT !.pos = 1, !.remaining_passes = Passes, !.converged = FALSE]

increment_StopsShort(s) ==
  IF s.remaining_passes > 0 /\ s.pos + 1 >= Len(Space)
    THEN [s EXCEPT !.remaining_passes = @ - 1]
    ELSE [s EXCEPT !.pos = @ + 1]

(* increment(): the next point of the space; final_id is set one point     *)
(* ahead, or when the last pass wraps around.                              *)
increment(s) ==
  CASE s.remaining_passes <= 0 -> s
    [] s.remaining_passes > 0 /\ s.pos < Len(Space) ->
         [s EXCEPT !.pos = @ + 1,
                   !.final_id = IF s.remaining_passes = 1 /\ s.pos + 1 = Len(Space)
                                  THEN s.id ELSE @]
    [] OTHER ->
         [s EXCEPT !.pos = 1,
                   !.remaining_passes = @ - 1,
                   !.final_id = IF s.remaining_passes = 1 THEN s.id - 1 ELSE @]

(* strategy_generate(): the current point, or the best one when the passes *)
(* are over.                                                               *)
ExhaustiveGenerate(s) ==
  LET more == s.remaining_passes > 0
      n    == IF more THEN [increment(s) EXCEPT !.id = @ + 1] ELSE s
      counts == n.final_id = 0 \/ n.id <= n.final_id
  IN  {[next   |-> [n EXCEPT !.outstanding_points = IF counts THEN @ + 1 ELSE @],
        status |-> "ACCEPT",
        point  |-> IF more THEN [id |-> s.id, val |-> Space[s.pos]] ELSE s.best]}

(* strategy_rejected(): the hint, or the next point, under the same id.    *)
ExhaustiveRejected(s, point, hint) ==
  {[next   |-> IF hint.id # -1 THEN s ELSE increment(s),
    status |-> "ACCEPT",
    point  |-> [id  |-> point.id,
                val |-> IF hint.id # -1 THEN hint.val ELSE Space[s.pos]]]}

(* The count of outstanding points goes on falling while the best point is *)
(* measured again and again after the last pass.  It is never raised again *)
(* by then and only compared with 0, so this bound stands for all below.   *)
MinOutstanding == -1

ExhaustiveAnalyze(s, trial) ==
  LET better   == s.best_perf > trial.perf
      final    == trial.id = s.final_id
      counts   == s.final_id = 0 \/ trial.id <= s.final_id
      left     == IF counts /\ s.outstanding_points > MinOutstanding
                    THEN s.outstanding_points - 1 ELSE s.outstanding_points
      received == s.final_point_received \/ final
  IN  {[s EXCEPT !.best = IF better THEN [id |-> trial.id, val |-> trial.val] ELSE @,
                 !.best_perf = IF better THEN trial.perf ELSE @,
                 !.outstanding_points = left,
                 !.final_point_received = received,
                 !.converged = @ \/ final \/ (left <= 0 /\ received),
                 !.measured = @ \cup {trial.val}]}

ExhaustiveBest(s) == s.best

ExhaustiveConverged(s) == s.converged

=============================================================================
