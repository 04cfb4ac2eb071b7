-------------------------------- MODULE Nemo --------------------------------
(***************************************************************************)
(* The NEMO strategy (nemo.c), as the operators a session calls: the       *)
(* Nelder-Mead algorithm run once for every performance value of a trial.  *)
(* A phase that converges fixes a threshold for its value and starts the   *)
(* next phase from the initial simplex; later phases penalize vertices     *)
(* that miss the thresholds of earlier ones.                               *)
(*                                                                         *)
(* A trial has one performance here, that of the current phase.  The       *)
(* penalty is not computed: it may raise the performance to any value.     *)
(***************************************************************************)
EXTENDS NelderMead, TLC

CONSTANT PerfCount    \* perf_n

(* strategy_init() on load: phase 0 has been started.                      *)
NemoInit == NMInit @@ [phase |-> 0]

(* nemo_phase_incr(): the base simplex starts over, and one of its         *)
(* vertices is replaced by the best point (NEMO_ANCHOR), with the id and   *)
(* the performance of the test vertex that carries it there.               *)
nemo_phase_incr(s) ==
  LET restarted == [s EXCEPT !.v = [i \in DOMAIN @ |-> IF i \in Base THEN Vertex0 ELSE @[i]],
                             !.state = "INIT", !.index_curr = 0, !.phase = @ + 1]
  IN  IF s.best.id > 0
        THEN {[restarted EXCEPT !.v[i] = s.v[Test],
                                !.best.id = 0, !.best_perf = Infinity] : i \in Base}
        ELSE {restarted}

(* check_convergence(): the last phase converges, an earlier one ends.     *)
nemo_check(s) ==
  (IF s.phase = PerfCount - 1 THEN {[s EXCEPT !.state = "CONVERGED"]} ELSE nemo_phase_incr(s))
    \cup IF s.next_id < MaxTrials THEN {s} ELSE {}

nemo_algorithm(s) == NMAlgorithm(s, nemo_check)

NemoRejected(s, point, hint) == NMRejectedBy(s, point, hint, nemo_algorithm)

(* The performance with the penalty of the earlier phases.                 *)
Penalized(s, perf) ==
  IF s.phase = 0 THEN {perf} ELSE {p \in Perfs : p >= perf}

(* strategy_analyze(): a trial that is not vertex next is an error (no     *)
(* outcome).                                                               *)
NemoAnalyze(s, trial) ==
  LET analyzed(perf) == [s EXCEPT
        !.v[s.next].perf = perf,
        !.best = IF s.best_perf > perf THEN [id |-> trial.id, val |-> trial.val] ELSE @,
        !.best_perf = IF @ > perf THEN perf ELSE @]
      done(n) == [n EXCEPT !.next_id = IF NMConverged(n) THEN @ ELSE @ + 1]
  IN  IF trial.id # s.v[s.next].id
        THEN {}
        ELSE {done(n) : n \in UNION {nemo_algorithm(analyzed(p)) : p \in Penalized(s, trial.perf)}}

=============================================================================
