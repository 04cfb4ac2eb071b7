---------------------------- MODULE RandomSearch ----------------------------
(***************************************************************************)
(* The random strategy (random.c), as the operators a session calls.  It   *)
(* sends one random point after another, never pauses and never converges. *)
(***************************************************************************)
EXTENDS HMesg

CONSTANT MaxTrials    \* bound: the trials of one session

(* id is the id of curr, the vertex that is sent next.                     *)
RandomInit == [id |-> 1, best |-> HPOINT_INITIALIZER, best_perf |-> Infinity]

(* strategy_init() once more: the best point and the counter are retained. *)
RandomRestart(s) == s

RandomSend(s, next) ==
  {[next |-> next, status |-> "ACCEPT", point |-> [id |-> s.id, val |-> v]] : v \in Vals}

(* strategy_generate().                                                    *)
RandomGenerate(s) ==
  IF s.id > MaxTrials
    THEN {[next |-> s, status |-> "WAIT", point |-> HPOINT_INITIALIZER]}
    ELSE RandomSend(s, [s EXCEPT !.id = @ + 1])

(* strategy_rejected(): the hint under the id of the rejected point, or a  *)
(* new random vertex, which carries the id of the trial that is sent next. *)
RandomRejected(s, point, hint) ==
  IF hint.id # -1
    THEN {[next |-> s, status |-> "ACCEPT", point |-> [hint EXCEPT !.id = point.id]]}
    ELSE RandomSend(s, s)

(* strategy_analyze(): any trial may be the best one so far.               *)
RandomAnalyze(s, trial) ==
  {IF s.best_perf > trial.perf
     THEN [s EXCEPT !.best = [id |-> trial.id, val |-> trial.val], !.best_perf = trial.perf]
     ELSE s}

=============================================================================
