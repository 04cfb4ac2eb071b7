----------------------------- MODULE NelderMead -----------------------------
(***************************************************************************)
(* The Nelder-Mead strategy (nm.c), as the operators a session calls.  One *)
(* vertex is out at a time: "next", a vertex of the base simplex or the    *)
(* test vertex.  Its report moves a state machine on, which says which     *)
(* vertex is next.                                                         *)
(*                                                                         *)
(* The state machine, the performances it compares and the ids are exact.  *)
(* The coordinates of vertices are not modelled: a vertex that is sent out *)
(* has any value, check_convergence() may find the simplex converged       *)
(* whenever it is called, and a reflected or expanded vertex may be out of *)
(* bounds (a contracted or shrunk one lies between vertices that are not). *)
(***************************************************************************)
EXTENDS HMesg

CONSTANTS SimplexSize,   \* simplex_size
          RejectType,    \* reject_type: "PENALTY" or "RANDOM"
          MaxTrials      \* bound: the id from which check_convergence() always converges

(* The vertices of the base simplex, and the test vertex after them.       *)
Base == 0 .. SimplexSize - 1
Test == SimplexSize

Vertex0 == [id |-> 0, perf |-> Infinity]

(* strategy_init() on load.                                                *)
NMInit ==
  [v |-> [i \in 0 .. Test |-> Vertex0], state |-> "INIT", index_curr |-> 0, next |-> 0,
   index_best |-> 0, index_worst |-> 0, next_id |-> 1,
   best |-> HPOINT_INITIALIZER, best_perf |-> Infinity]

(* ... and once more: the vertices are reset, the counter and the best     *)
(* point are retained.                                                     *)
NMRestart(s) ==
  [NMInit EXCEPT !.next_id = s.next_id, !.best = s.best, !.best_perf = s.best_perf]

NMConverged(s) == s.state = "CONVERGED"

NMBest(s) == s.best

-----------------------------------------------------------------------------
Lowest(S) == CHOOSE i \in S : \A j \in S : i <= j

(* simplex_update_index(): the first vertex none is better than, and the   *)
(* first none is worse than.                                               *)
simplex_update_index(s) ==
  LET none(rel(_, _)) == {i \in Base : \A j \in Base : ~rel(s.v[j].perf, s.v[i].perf)}
  IN  [s EXCEPT !.index_best  = Lowest(none(LAMBDA a, b : a < b)),
                !.index_worst = Lowest(none(LAMBDA a, b : a > b))]

(* The test vertex takes the place of the worst one.                       *)
replace_worst(s) == [s EXCEPT !.v[s.index_worst] = s.v[Test]]

move_on(s, state) == [simplex_update_index(s) EXCEPT !.state = state]

(* nm_state_transition().                                                  *)
nm_state_transition(s) ==
  LET perf  == s.v[Test].perf
      best  == s.v[s.index_best].perf
      worst == s.v[s.index_worst].perf
      moved == move_on(replace_worst(s), "REFLECT")
  IN  CASE s.state \in {"INIT", "SHRINK"} ->
             LET n == [s EXCEPT !.index_curr = @ + 1]
             IN  IF n.index_curr = SimplexSize THEN move_on(n, "REFLECT") ELSE n
        [] s.state = "REFLECT" /\ perf < best ->
             [replace_worst(s) EXCEPT !.state = "EXPAND"]
        [] s.state = "REFLECT" /\ perf >= best /\ perf < worst ->
             [moved EXCEPT !.state =
                IF moved.index_worst = s.index_worst THEN "CONTRACT" ELSE "REFLECT"]
        [] s.state = "REFLECT" /\ perf >= best /\ perf >= worst ->
             move_on(s, "CONTRACT")
        [] s.state = "EXPAND" ->
             IF perf < best THEN moved ELSE move_on(s, "REFLECT")
        [] s.state = "CONTRACT" ->
             IF perf < worst THEN moved
                             ELSE [s EXCEPT !.index_curr = -1, !.state = "SHRINK"]

(* nm_next_vertex().                                                       *)
nm_next_vertex(s) ==
  CASE s.state = "INIT" -> [s EXCEPT !.next = s.index_curr]
    [] s.state \in {"REFLECT", "EXPAND", "CONTRACT"} ->
         [s EXCEPT !.next = Test, !.v[Test].perf = Infinity]
    [] s.state = "SHRINK" /\ s.index_curr = -1 ->
         [s EXCEPT !.next = 0, !.index_curr = 0,
                   !.v = [i \in DOMAIN @ |-> IF i \in Base \ {s.index_best}
                                               THEN [@[i] EXCEPT !.perf = Infinity] ELSE @[i]]]
    [] s.state = "SHRINK" /\ s.index_curr # -1 -> [s EXCEPT !.next = s.index_curr]
    [] s.state = "CONVERGED" -> [s EXCEPT !.next = s.index_best]

(* check_convergence().                                                    *)
check_convergence(s) ==
  {[s EXCEPT !.state = "CONVERGED"]} \cup IF s.next_id < MaxTrials THEN {s} ELSE {}

(* One turn of the loop in nm_algorithm(), with the strategy's own test    *)
(* for convergence.                                                        *)
NMTurn(s, Check(_)) ==
  LET moved == nm_state_transition(s)
  IN  IF s.state = "CONVERGED"
        THEN {s}
        ELSE {nm_next_vertex(n) : n \in IF moved.state = "REFLECT" THEN Check(moved) ELSE {moved}}

(* nm_algorithm() repeats while next is out of bounds: an expanded vertex  *)
(* may be, the reflected one that follows it may be, and then comes a      *)
(* contracted one, so that there are at most three turns.                  *)
NMAlgorithm(s, Check(_)) ==
  LET again(S) == S \cup UNION {NMTurn(n, Check) : n \in {m \in S : m.state \in {"REFLECT", "EXPAND"}}}
  IN  again(again(NMTurn(s, Check)))

nm_algorithm(s) == NMAlgorithm(s, check_convergence)

-----------------------------------------------------------------------------
(* Vertex next, sent out with its id.                                      *)
NMSend(s) ==
  {[next   |-> s,
    status |-> "ACCEPT",
    point  |-> [id |-> s.v[s.next].id, val |-> v]] : v \in Vals}

NMNumber(s) == [s EXCEPT !.v[s.next].id = s.next_id]

(* strategy_generate(): vertex next, unless it is out already.             *)
NMGenerate(s) ==
  IF s.v[s.next].id = s.next_id
    THEN {[next |-> s, status |-> "WAIT", point |-> HPOINT_INITIALIZER]}
    ELSE NMSend(NMNumber(s))

(* strategy_rejected(): take the hint, or penalize the vertex and go on to *)
(* the next one, or draw it again at random.                               *)
NMRejectedBy(s, point, hint, Algorithm(_)) ==
  LET penalized == [s EXCEPT !.v[s.next].perf = Infinity]
  IN  IF hint.id # -1
        THEN {[next |-> s, status |-> "ACCEPT", point |-> [hint EXCEPT !.id = point.id]]}
      ELSE IF RejectType = "RANDOM"
        THEN NMSend(penalized)
      ELSE UNION {NMSend(NMNumber(n)) : n \in Algorithm(penalized)}

NMRejected(s, point, hint) == NMRejectedBy(s, point, hint, nm_algorithm)

NMAnalyze_KeepsId(s, trial) ==
  LET better == s.best_perf > trial.perf
      done(n) ==
        [n EXCEPT !.best = IF better THEN [id |-> trial.id, val |-> trial.val] ELSE @,
                  !.best_perf = IF better THEN trial.perf ELSE @]
  IN  IF trial.id # s.v[s.next].id
        THEN {s}
        ELSE {done(n) : n \in nm_algorithm([s EXCEPT !.v[s.next].perf = trial.perf])}

(* strategy_analyze(): the performance of vertex next; a trial of an       *)
(* earlier search is ignored.                                              *)
NMAnalyze(s, trial) ==
  LET better == s.best_perf > trial.perf
      done(n) ==
        [n EXCEPT !.best = IF better THEN [id |-> trial.id, val |-> trial.val] ELSE @,
                  !.best_perf = IF better THEN trial.perf ELSE @,
                  !.next_id = IF NMConverged(n) THEN @ ELSE @ + 1]
  IN  IF trial.id # s.v[s.next].id
        THEN {s}
        ELSE {done(n) : n \in nm_algorithm([s EXCEPT !.v[s.next].perf = trial.perf])}

=============================================================================
