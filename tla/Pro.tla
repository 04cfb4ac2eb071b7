-------------------------------- MODULE Pro --------------------------------
(***************************************************************************)
(* The Parallel Rank Order strategy (pro.c), the default strategy, as the  *)
(* operators a session calls.  A simplex of SimplexSize vertices is sent   *)
(* out, and when all of them have been reported (or penalized) the         *)
(* algorithm computes the next simplex.                                    *)
(*                                                                         *)
(* The bookkeeping is exact.  The geometry is not modelled: the values of  *)
(* a vertex are any of Vals, and each call of pro_algorithm() either       *)
(* yields another simplex or converges.  (pro_algorithm repeats its step   *)
(* while the new simplex is out of bounds, so the phase it ends in is not  *)
(* restricted by the phase it started from.)  MaxRounds bounds the number  *)
(* of simplexes between restarts: the last one converges.                  *)
(***************************************************************************)
EXTENDS HMesg

CONSTANTS SimplexSize,   \* simplex_size
          RejectType,    \* reject_type: "PENALTY" or "RANDOM"
          MaxRounds      \* bound: simplexes until the search converges

ASSUME ProAssumption ==
  /\ SimplexSize \in Nat \ {0}
  /\ RejectType \in {"PENALTY", "RANDOM"}
  /\ MaxRounds \in Nat \ {0}

Vertices == 0 .. SimplexSize - 1

ProState ==
  [next_id : Nat, test : [Vertices -> Nat], send_idx : 0 .. SimplexSize,
   reported : Nat, converged : BOOLEAN, rounds : Nat,
   best : Point, best_perf : Nat]

(* strategy_init() on load: test[i] is the id of vertex i, 0 for none.     *)
ProInit ==
  [next_id |-> 1, test |-> [i \in Vertices |-> 0], send_idx |-> 0, reported |-> 0,
   converged |-> FALSE, rounds |-> 0,
   best |-> HPOINT_INITIALIZER, best_perf |-> Infinity]

ProRestart_ResetsIds(s) == [ProInit EXCEPT !.best = s.best, !.best_perf = s.best_perf]

ProRestart_ForgetsBest(s) == [ProInit EXCEPT !.next_id = s.next_id]

(* strategy_init() on restart keeps the best point and the id counter.     *)
ProRestart(s) ==
  [ProInit EXCEPT !.next_id = s.next_id, !.best = s.best, !.best_perf = s.best_perf]

ProSend_SameId(s) ==
  {[next   |-> [s EXCEPT !.test[s.send_idx] = s.next_id, !.send_idx = @ + 1],
    status |-> "ACCEPT",
    point  |-> [id |-> s.next_id, val |-> v]] : v \in Vals}

(* Send vertex send_idx, which gets the next id.                           *)
ProSend(s) ==
  {[next   |-> [s EXCEPT !.test[s.send_idx] = s.next_id,
                         !.next_id = @ + 1,
                         !.send_idx = @ + 1],
    status |-> "ACCEPT",
    point  |-> [id |-> s.next_id, val |-> v]] : v \in Vals}

ProGenerate(s) ==
  IF s.send_idx = SimplexSize \/ s.converged
    THEN {[next |-> s, status |-> "WAIT", point |-> HPOINT_INITIALIZER]}
    ELSE ProSend(s)

(* pro_algorithm() and the resets that follow it.                          *)
ProAlgorithm(s) ==
  LET rounds == IF s.converged THEN s.rounds ELSE s.rounds + 1
  IN  {[s EXCEPT !.converged = c, !.rounds = rounds, !.reported = 0, !.send_idx = 0]
         : c \in {d \in BOOLEAN : s.converged \/ rounds >= MaxRounds => d}}

(* One more vertex is accounted for.                                       *)
ProCount(s) ==
  LET counted == [s EXCEPT !.reported = @ + 1]
  IN  IF counted.reported = SimplexSize THEN ProAlgorithm(counted) ELSE {counted}

ProVertex(s, id) == {i \in Vertices : s.test[i] = id}

(* strategy_rejected(): take the hint, or penalize the vertex and send     *)
(* another one, or draw the vertex again at random.                        *)
ProRejected(s, point, hint) ==
  IF ProVertex(s, point.id) = {}
    THEN {[next |-> s, status |-> "ERROR", point |-> point]}
  ELSE IF hint.id # -1
    THEN {[next |-> s, status |-> "ACCEPT", point |-> [hint EXCEPT !.id = point.id]]}
  ELSE IF RejectType = "RANDOM"
    THEN {[next |-> s, status |-> "ACCEPT", point |-> [id |-> point.id, val |-> v]] : v \in Vals}
  ELSE UNION {IF n.send_idx = SimplexSize
                THEN {[next |-> n, status |-> "WAIT", point |-> point]}
                ELSE ProSend(n) : n \in ProCount(s)}

(* strategy_analyze(): a trial of an earlier search is not counted.        *)
ProAnalyze(s, trial) ==
  LET better  == s.best_perf > trial.perf
      kept(n) == [n EXCEPT !.best = IF better THEN [id |-> trial.id, val |-> trial.val] ELSE @,
                           !.best_perf = IF better THEN trial.perf ELSE @]
  IN  IF ProVertex(s, trial.id) = {}
        THEN {s}
        ELSE {kept(n) : n \in ProCount(s)}

ProBest(s) == s.best

ProConverged(s) == s.converged

=============================================================================
