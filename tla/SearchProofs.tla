---------------------------- MODULE SearchProofs ----------------------------
(***************************************************************************)
(* The exhaustive, random and Nelder-Mead strategies keep the contract     *)
(* that the theorems on the session assume of its strategy, so these hold  *)
(* of a session that may load any of them, with any layers that keep       *)
(* theirs.  The random strategy keeps the promises of TrialProofs too, if  *)
(* the layers take every point.  (Nelder-Mead does not: once converged it  *)
(* sends the best vertex under the id of the last trial.)                  *)
(***************************************************************************)
EXTENDS PoolProofs, Searches

Costs == Perfs \cup {Infinity}

LEMMA CostIs ==
  Costs \subseteq Nat /\ Infinity \in Costs /\ \A p \in Costs : p <= Infinity
  BY MesgAssumption DEF Costs

-----------------------------------------------------------------------------
(* The random strategy.                                                    *)
RandomStates == [id : Nat, best : Point, best_perf : Costs]

LEMMA RandomKeeps ==
  /\ RandomInit \in RandomStates
  /\ \A s \in RandomStates :
       /\ RandomRestart(s) \in RandomStates
       /\ RandomGenerate(s) \subseteq [next : RandomStates, status : {"ACCEPT", "WAIT"}, point : Point]
       /\ \A p, h \in Point :
            RandomRejected(s, p, h)
              \subseteq [next : RandomStates, status : {"ACCEPT", "WAIT", "ERROR"}, point : Point]
       /\ \A t \in Trials : RandomAnalyze(s, t) \subseteq RandomStates
<1>1. RandomInit \in RandomStates
  BY InitialType, CostIs DEF RandomInit, RandomStates
<1> SUFFICES ASSUME NEW s \in RandomStates
             PROVE  /\ RandomRestart(s) \in RandomStates
                    /\ RandomGenerate(s)
                         \subseteq [next : RandomStates, status : {"ACCEPT", "WAIT"}, point : Point]
                    /\ \A p, h \in Point :
                         RandomRejected(s, p, h)
                           \subseteq [next : RandomStates, status : {"ACCEPT", "WAIT", "ERROR"},
                                      point : Point]
                    /\ \A t \in Trials : RandomAnalyze(s, t) \subseteq RandomStates
  BY <1>1
<1>2. s.id \in Nat /\ [s EXCEPT !.id = @ + 1] \in RandomStates
  BY DEF RandomStates
<1>3. ASSUME NEW next \in RandomStates
      PROVE  RandomSend(s, next) \subseteq [next : RandomStates, status : {"ACCEPT"}, point : Point]
  <2>1. \A v \in Vals : [id |-> s.id, val |-> v] \in Point
    BY <1>2 DEF Point
  <2> QED BY <1>3, <2>1 DEF RandomSend
<1>4. RandomGenerate(s) \subseteq [next : RandomStates, status : {"ACCEPT", "WAIT"}, point : Point]
  <2>1. RandomSend(s, [s EXCEPT !.id = @ + 1])
          \subseteq [next : RandomStates, status : {"ACCEPT"}, point : Point]
    BY <1>2, <1>3
  <2> QED BY <2>1, InitialType DEF RandomGenerate
<1>5. ASSUME NEW p \in Point, NEW h \in Point
      PROVE  RandomRejected(s, p, h)
               \subseteq [next : RandomStates, status : {"ACCEPT", "WAIT", "ERROR"}, point : Point]
  <2>1. [h EXCEPT !.id = p.id] \in Point
    BY DEF Point
  <2>2. RandomSend(s, s) \subseteq [next : RandomStates, status : {"ACCEPT"}, point : Point]
    BY <1>3
  <2> QED BY <2>1, <2>2 DEF RandomRejected
<1>6. ASSUME NEW t \in Trials PROVE RandomAnalyze(s, t) \subseteq RandomStates
  <2>1. [id |-> t.id, val |-> t.val] \in Point /\ t.perf \in Costs
    BY DEF Trials, Point, Costs
  <2>2. [s EXCEPT !.best = [id |-> t.id, val |-> t.val], !.best_perf = t.perf] \in RandomStates
    BY <2>1 DEF RandomStates
  <2> QED BY <2>2 DEF RandomAnalyze
<1> QED
  BY <1>4, <1>5, <1>6 DEF RandomRestart

-----------------------------------------------------------------------------
(* The exhaustive strategy: the odometer stays within the space.           *)
ExhaustiveStates ==
  [id : Nat, pos : 1 .. Len(Space), remaining_passes : Int, final_id : Int,
   outstanding_points : Int, final_point_received : BOOLEAN, converged : BOOLEAN,
   best : Point, best_perf : Costs, measured : SUBSET (Vals \cup {NoVal})]

LEMMA IncrementType ==
  ASSUME NEW s \in ExhaustiveStates
  PROVE  increment(s) \in ExhaustiveStates
<1>1. /\ Len(Space) > 0 /\ s.pos \in 1 .. Len(Space) /\ 1 \in 1 .. Len(Space)
      /\ {s.remaining_passes, s.remaining_passes - 1} \subseteq Int /\ s.id - 1 \in Int /\ s.id \in Int /\ s.final_id \in Int
  BY ExhaustiveAssumption DEF ExhaustiveStates
<1>2. CASE s.remaining_passes <= 0
  <2>1. ~(s.remaining_passes > 0)
    BY <1>1, <1>2
  <2> QED BY <1>2, <2>1 DEF increment
<1>3. CASE s.remaining_passes > 0 /\ s.pos < Len(Space)
  <2> DEFINE final == IF s.remaining_passes = 1 /\ s.pos + 1 = Len(Space) THEN s.id ELSE s.final_id
             moved == [s EXCEPT !.pos = s.pos + 1, !.final_id = final]
  <2>1. increment(s) = moved
    <3>1. ~(s.remaining_passes <= 0)
      BY <1>3 DEF ExhaustiveStates
    <3> HIDE DEF final
    <3>2. increment(s) = [s EXCEPT !.pos = s.pos + 1,
                                   !.final_id = IF s.remaining_passes = 1 /\ s.pos + 1 = Len(Space)
                                                  THEN s.id ELSE s.final_id]
      BY <1>3, <3>1 DEF increment
    <3> QED BY <3>2 DEF final
  <2>2. final \in Int /\ s.pos + 1 \in 1 .. Len(Space)
    BY <1>1, <1>3
  <2> HIDE DEF final
  <2>3. moved \in ExhaustiveStates
    BY <2>2 DEF ExhaustiveStates
  <2> QED BY <2>1, <2>3
<1>4. CASE ~(s.remaining_passes <= 0) /\ ~(s.remaining_passes > 0 /\ s.pos < Len(Space))
  <2> DEFINE final == IF s.remaining_passes = 1 THEN s.id - 1 ELSE s.final_id
             moved == [s EXCEPT !.pos = 1, !.remaining_passes = s.remaining_passes - 1, !.final_id = final]
  <2>1. increment(s) = moved
    BY <1>4 DEF increment, ExhaustiveStates
  <2>2. final \in Int
    BY <1>1
  <2> HIDE DEF final
  <2>3. moved \in ExhaustiveStates
    BY <1>1, <2>2 DEF ExhaustiveStates
  <2> QED BY <2>1, <2>3
<1> QED
  BY <1>2, <1>3, <1>4

LEMMA ExhaustiveKeeps ==
  /\ ExhaustiveInit \in ExhaustiveStates
  /\ \A s \in ExhaustiveStates :
       /\ ExhaustiveRestart(s) \in ExhaustiveStates
       /\ ExhaustiveGenerate(s)
            \subseteq [next : ExhaustiveStates, status : {"ACCEPT", "WAIT"}, point : Point]
       /\ \A p, h \in Point :
            ExhaustiveRejected(s, p, h)
              \subseteq [next : ExhaustiveStates, status : {"ACCEPT", "WAIT", "ERROR"}, point : Point]
       /\ \A t \in Trials : ExhaustiveAnalyze(s, t) \subseteq ExhaustiveStates
<1>1. 1 \in 1 .. Len(Space) /\ Passes \in Int /\ \A i \in 1 .. Len(Space) : Space[i] \in Vals
  BY ExhaustiveAssumption
<1>2. ExhaustiveInit \in ExhaustiveStates
  BY <1>1, InitialType, CostIs DEF ExhaustiveInit, ExhaustiveStates
<1> SUFFICES ASSUME NEW s \in ExhaustiveStates
             PROVE  /\ ExhaustiveRestart(s) \in ExhaustiveStates
                    /\ ExhaustiveGenerate(s)
                         \subseteq [next : ExhaustiveStates, status : {"ACCEPT", "WAIT"},
                                    point : Point]
                    /\ \A p, h \in Point :
                         ExhaustiveRejected(s, p, h)
                           \subseteq [next : ExhaustiveStates, status : {"ACCEPT", "WAIT", "ERROR"},
                                      point : Point]
                    /\ \A t \in Trials : ExhaustiveAnalyze(s, t) \subseteq ExhaustiveStates
  BY <1>2
<1>3. ExhaustiveRestart(s) \in ExhaustiveStates
  BY <1>1 DEF ExhaustiveRestart, ExhaustiveStates
<1>4. s.id \in Nat /\ s.id \in Int /\ Space[s.pos] \in Vals /\ s.best \in Point
  BY <1>1 DEF ExhaustiveStates
<1>5. ExhaustiveGenerate(s) \subseteq [next : ExhaustiveStates, status : {"ACCEPT", "WAIT"}, point : Point]
  <2> DEFINE more   == s.remaining_passes > 0
             n      == IF more THEN [increment(s) EXCEPT !.id = @ + 1] ELSE s
             counts == n.final_id = 0 \/ n.id <= n.final_id
             out    == IF counts THEN n.outstanding_points + 1 ELSE n.outstanding_points
             point  == IF more THEN [id |-> s.id, val |-> Space[s.pos]] ELSE s.best
  <2>1. ExhaustiveGenerate(s)
          = {[next |-> [n EXCEPT !.outstanding_points = out], status |-> "ACCEPT", point |-> point]}
    BY DEF ExhaustiveGenerate
  <2>2. point \in Point
    BY <1>4 DEF Point
  <2>3. n \in ExhaustiveStates
    <3> HIDE DEF more, n, counts, out, point
    <3>1. ASSUME NEW m \in ExhaustiveStates
          PROVE  [m EXCEPT !.id = @ + 1] \in ExhaustiveStates
      <4>1. m.id + 1 \in Nat
        BY DEF ExhaustiveStates
      <4> DEFINE w == m.id + 1
      <4> HIDE DEF w
      <4>2. [m EXCEPT !.id = w] \in ExhaustiveStates
        <5>1. w \in Nat
          BY <4>1 DEF w
        <5> QED BY <5>1 DEF ExhaustiveStates
      <4> QED BY <4>2 DEF w
    <3> USE DEF more, n
    <3> QED BY <3>1, IncrementType
  <2> HIDE DEF n, more, point
  <2>4. out \in Int
    BY <2>3 DEF ExhaustiveStates
  <2> HIDE DEF out
  <2>5. [n EXCEPT !.outstanding_points = out] \in ExhaustiveStates
    BY <2>3, <2>4 DEF ExhaustiveStates
  <2> QED BY <2>1, <2>2, <2>5
<1>6. ASSUME NEW p \in Point, NEW h \in Point
      PROVE  ExhaustiveRejected(s, p, h)
               \subseteq [next : ExhaustiveStates, status : {"ACCEPT", "WAIT", "ERROR"}, point : Point]
  <2>1. /\ [id |-> p.id, val |-> h.val] \in Point
        /\ [id |-> p.id, val |-> Space[s.pos]] \in Point
    BY <1>4 DEF Point
  <2> QED BY <2>1, IncrementType DEF ExhaustiveRejected
<1>7. ASSUME NEW t \in Trials PROVE ExhaustiveAnalyze(s, t) \subseteq ExhaustiveStates
  <2> DEFINE better   == s.best_perf > t.perf
             final    == t.id = s.final_id
             counts   == s.final_id = 0 \/ t.id <= s.final_id
             left     == IF counts /\ s.outstanding_points > MinOutstanding
                           THEN s.outstanding_points - 1 ELSE s.outstanding_points
             received == s.final_point_received \/ final
             best     == IF better THEN [id |-> t.id, val |-> t.val] ELSE s.best
             perf     == IF better THEN t.perf ELSE s.best_perf
             done     == s.converged \/ final \/ (left <= 0 /\ received)
             seen     == s.measured \cup {t.val}
  <2>1. ExhaustiveAnalyze(s, t)
          = {[s EXCEPT !.best = best, !.best_perf = perf, !.outstanding_points = left,
                       !.final_point_received = received, !.converged = done, !.measured = seen]}
    BY DEF ExhaustiveAnalyze
  <2>2. best \in Point /\ perf \in Costs
    BY <1>4 DEF Trials, Point, Costs, ExhaustiveStates
  <2>3. left \in Int /\ seen \in SUBSET (Vals \cup {NoVal})
    BY DEF ExhaustiveStates, Trials
  <2>4. received \in BOOLEAN /\ done \in BOOLEAN
    BY Zenon DEF ExhaustiveStates
  <2> HIDE DEF best, perf, left, received, done, seen
  <2>5. [s EXCEPT !.best = best, !.best_perf = perf, !.outstanding_points = left,
                  !.final_point_received = received, !.converged = done, !.measured = seen]
          \in ExhaustiveStates
    BY <2>2, <2>3, <2>4 DEF ExhaustiveStates
  <2> QED BY <2>1, <2>5
<1> QED
  BY <1>3, <1>5, <1>6, <1>7

-----------------------------------------------------------------------------
(* Nelder-Mead.  While the base simplex is measured, at first or after it  *)
(* shrinks, index_curr is one of its vertices.                             *)
Corners == 0 .. SimplexSize

NMFields ==
  [v : [Corners -> [id : Int, perf : Costs]],
   state : {"INIT", "REFLECT", "EXPAND", "CONTRACT", "SHRINK", "CONVERGED"},
   index_curr : Int, next : Corners, index_best : NM!Base, index_worst : NM!Base,
   next_id : Nat, best : Point, best_perf : Costs]

NMStates == {s \in NMFields : s.state \in {"INIT", "SHRINK"} => s.index_curr \in NM!Base}

(* Between the two halves of a turn it may also be -1.                     *)
NMHalfway ==
  {s \in NMFields : /\ s.state = "INIT" => s.index_curr \in NM!Base
                    /\ s.state = "SHRINK" => s.index_curr \in NM!Base \cup {-1}}

LEMMA CornersAre ==
  /\ NM!Base \subseteq Corners /\ NM!Base \in SUBSET Nat /\ NM!Base # {}
  /\ NM!Test = SimplexSize /\ NM!Test \in Corners /\ 0 \in NM!Base /\ 0 \in Corners
  /\ \A i \in NM!Base : i + 1 = SimplexSize \/ i + 1 \in NM!Base
  BY SearchesAssumption DEF NM!Base, NM!Test, Corners

(* One field of the state is set.                                          *)
LEMMA SetFields ==
  ASSUME NEW s \in NMFields
  PROVE  /\ \A v \in [Corners -> [id : Int, perf : Costs]] :
              /\ [s EXCEPT !.v = v] \in NMFields
              /\ [s EXCEPT !.v = v].index_curr = s.index_curr
              /\ [s EXCEPT !.v = v].state = s.state
         /\ \A i \in Corners : /\ [s EXCEPT !.next = i] \in NMFields
                               /\ [s EXCEPT !.next = i].v = s.v
                               /\ [s EXCEPT !.next = i].state = s.state
         /\ \A state \in {"INIT", "REFLECT", "EXPAND", "CONTRACT", "SHRINK", "CONVERGED"} :
              /\ [s EXCEPT !.state = state] \in NMFields
              /\ [s EXCEPT !.state = state].index_curr = s.index_curr
              /\ [s EXCEPT !.state = state].state = state
<1>2. ASSUME NEW v \in [Corners -> [id : Int, perf : Costs]]
      PROVE  /\ [s EXCEPT !.v = v] \in NMFields
             /\ [s EXCEPT !.v = v].index_curr = s.index_curr
             /\ [s EXCEPT !.v = v].state = s.state
  BY DEF NMFields
<1>3. ASSUME NEW i \in Corners PROVE /\ [s EXCEPT !.next = i] \in NMFields
                                     /\ [s EXCEPT !.next = i].v = s.v
                                     /\ [s EXCEPT !.next = i].state = s.state
  BY DEF NMFields
<1>4. ASSUME NEW state \in {"INIT", "REFLECT", "EXPAND", "CONTRACT", "SHRINK", "CONVERGED"}
      PROVE  /\ [s EXCEPT !.state = state] \in NMFields
             /\ [s EXCEPT !.state = state].index_curr = s.index_curr
             /\ [s EXCEPT !.state = state].state = state
  BY DEF NMFields
<1> QED
  BY <1>2, <1>3, <1>4

(* Among the vertices one has the best and one the worst performance.      *)
LEMMA RankedHasBest ==
  ASSUME NEW X, X # {}, NEW f \in [X -> Nat]
  PROVE  \E i \in X : \A j \in X : ~(f[j] < f[i])
<1> DEFINE values == {f[i] : i \in X}
<1>1. values \in SUBSET Nat /\ values # {}
  OBVIOUS
<1> HIDE DEF values
<1>2. First(values) \in values /\ \A n \in values : First(values) <= n
  BY <1>1, FirstType
<1>3. PICK i \in X : f[i] = First(values)
  BY <1>2 DEF values
<1>4. ASSUME NEW j \in X PROVE ~(f[j] < f[i])
  <2>1. f[j] \in values
    BY DEF values
  <2> QED BY <1>1, <1>2, <1>3, <2>1
<1> QED
  BY <1>4

LEMMA LowestType ==
  ASSUME NEW X \in SUBSET Nat, X # {}
  PROVE  NM!Lowest(X) \in X
  BY FirstType DEF NM!Lowest, First

(* simplex_update_index() finds them.                                      *)
LEMMA UpdateIndexIs ==
  ASSUME NEW s \in NMFields
  PROVE  \E b, w \in NM!Base :
           NM!simplex_update_index(s) = [s EXCEPT !.index_best = b, !.index_worst = w]
<1> DEFINE B == {i \in NM!Base : \A j \in NM!Base : ~(s.v[j].perf < s.v[i].perf)}
           W == {i \in NM!Base : \A j \in NM!Base : ~(s.v[j].perf > s.v[i].perf)}
<1>1. NM!simplex_update_index(s) = [s EXCEPT !.index_best = NM!Lowest(B), !.index_worst = NM!Lowest(W)]
  BY DEF NM!simplex_update_index
<1>2. \A i \in NM!Base : s.v[i].perf \in Costs
  BY CornersAre DEF NMFields
<1>3. B # {}
  <2> DEFINE f == [i \in NM!Base |-> s.v[i].perf]
  <2>1. f \in [NM!Base -> Nat]
    BY <1>2, CostIs
  <2> HIDE DEF f
  <2>2. PICK i \in NM!Base : \A j \in NM!Base : ~(f[j] < f[i])
    BY <2>1, CornersAre, RankedHasBest
  <2>3. \A j \in NM!Base : f[j] = s.v[j].perf
    BY DEF f
  <2> QED BY <2>2, <2>3
<1>4. W # {}
  <2> DEFINE f == [i \in NM!Base |-> Infinity - s.v[i].perf]
  <2>1. ASSUME NEW i \in NM!Base
        PROVE  Infinity - s.v[i].perf \in Nat /\ s.v[i].perf \in Nat /\ Infinity \in Nat
    <3>1. s.v[i].perf \in Nat /\ Infinity \in Nat /\ s.v[i].perf <= Infinity
      BY <1>2, CostIs
    <3> QED BY <3>1
  <2>2. f \in [NM!Base -> Nat]
    BY <2>1
  <2> HIDE DEF f
  <2>3. PICK i \in NM!Base : \A j \in NM!Base : ~(f[j] < f[i])
    BY <2>2, CornersAre, RankedHasBest
  <2>4. \A j \in NM!Base : f[j] = Infinity - s.v[j].perf
    BY DEF f
  <2>5. ASSUME NEW j \in NM!Base PROVE ~(s.v[j].perf > s.v[i].perf)
    BY <2>1, <2>3, <2>4
  <2> QED BY <2>5
<1>5. NM!Lowest(B) \in NM!Base /\ NM!Lowest(W) \in NM!Base
  <2>1. B \in SUBSET Nat /\ W \in SUBSET Nat /\ B \subseteq NM!Base /\ W \subseteq NM!Base
    BY CornersAre
  <2> HIDE DEF B, W
  <2> QED BY <1>3, <1>4, <2>1, LowestType
<1> HIDE DEF B, W
<1> QED
  BY <1>1, <1>5

(* So moving on, with or without the worst vertex replaced, keeps the      *)
(* types.                                                                  *)
LEMMA MoveOnType ==
  ASSUME NEW s \in NMFields, NEW state \in {"REFLECT", "CONTRACT"}
  PROVE  NM!move_on(s, state) \in NMFields /\ NM!move_on(s, state).state = state
<1>1. PICK b \in NM!Base, w \in NM!Base :
        NM!simplex_update_index(s) = [s EXCEPT !.index_best = b, !.index_worst = w]
  BY UpdateIndexIs
<1>2. NM!move_on(s, state) = [[s EXCEPT !.index_best = b, !.index_worst = w] EXCEPT !.state = state]
  BY <1>1, Zenon DEF NM!move_on
<1>3. [s EXCEPT !.index_best = b, !.index_worst = w] \in NMFields
  BY DEF NMFields
<1> QED
  BY <1>2, <1>3 DEF NMFields

LEMMA ReplaceWorstType ==
  ASSUME NEW s \in NMFields
  PROVE  NM!replace_worst(s) \in NMFields
<1>1. NM!replace_worst(s) = [s EXCEPT !.v = [s.v EXCEPT ![s.index_worst] = s.v[NM!Test]]]
  BY DEF NM!replace_worst
<1>2. s.v \in [Corners -> [id : Int, perf : Costs]]
  BY DEF NMFields
<1>3. [s.v EXCEPT ![s.index_worst] = s.v[NM!Test]] \in [Corners -> [id : Int, perf : Costs]]
  BY <1>2, CornersAre
<1> QED
  BY <1>1, <1>3 DEF NMFields

(* One turn of the state machine, ...                                      *)
LEMMA NMTransitionType ==
  ASSUME NEW s \in NMStates, s.state # "CONVERGED"
  PROVE  NM!nm_state_transition(s) \in NMHalfway
<1> DEFINE perf  == s.v[NM!Test].perf
           best  == s.v[s.index_best].perf
           worst == s.v[s.index_worst].perf
           moved == NM!move_on(NM!replace_worst(s), "REFLECT")
           count == [s EXCEPT !.index_curr = @ + 1]
<1>1. s \in NMFields /\ s.index_curr \in Int
  BY DEF NMStates, NMFields
<1>2. perf \in Nat /\ best \in Nat /\ worst \in Nat
  BY <1>1, CornersAre, CostIs DEF NMFields
<1>3. \A n \in NMFields : n.state \notin {"INIT", "SHRINK"} => n \in NMHalfway
  BY DEF NMHalfway
<1>4. moved \in NMFields /\ moved.state = "REFLECT"
  BY <1>1, ReplaceWorstType, MoveOnType
<1>5. \A n \in NMFields : \A state \in {"REFLECT", "CONTRACT", "EXPAND"} :
        [n EXCEPT !.state = state] \in NMHalfway
  BY DEF NMFields, NMHalfway
<1>6. \A state \in {"REFLECT", "CONTRACT"} : NM!move_on(s, state) \in NMHalfway
  BY <1>1, <1>3, MoveOnType
<1> HIDE DEF perf, best, worst, moved
<1>7. CASE s.state \in {"INIT", "SHRINK"}
  <2>1. count = [s EXCEPT !.index_curr = s.index_curr + 1] /\ count.index_curr = s.index_curr + 1
        /\ count.state = s.state
    BY <1>1 DEF NMFields
  <2>2. count \in NMFields
    BY <1>1, <2>1 DEF NMFields
  <2> HIDE DEF count
  <2>3. NM!nm_state_transition(s)
          = IF count.index_curr = SimplexSize THEN NM!move_on(count, "REFLECT") ELSE count
    BY <1>7, Zenon DEF NM!nm_state_transition, count
  <2>4. NM!move_on(count, "REFLECT") \in NMHalfway
    BY <1>3, <2>2, MoveOnType
  <2>5. ASSUME count.index_curr # SimplexSize PROVE count \in NMHalfway
    <3>1. s.index_curr \in NM!Base
      BY <1>7 DEF NMStates
    <3>2. count.index_curr \in NM!Base
      BY <2>1, <2>5, <3>1, CornersAre
    <3> QED BY <2>2, <3>2 DEF NMHalfway
  <2> QED BY <2>3, <2>4, <2>5
<1> HIDE DEF count
<1>8. CASE s.state = "REFLECT"
  <2>1. CASE perf < best
    <3>1. NM!nm_state_transition(s) = [NM!replace_worst(s) EXCEPT !.state = "EXPAND"]
      BY <1>8, <2>1, <1>2 DEF NM!nm_state_transition, perf, best, worst
    <3> QED BY <1>1, <1>5, <3>1, ReplaceWorstType
  <2>2. CASE perf >= best /\ perf < worst
    <3> DEFINE state == IF moved.index_worst = s.index_worst THEN "CONTRACT" ELSE "REFLECT"
    <3>1. ~(perf < best) /\ ~(perf >= worst)
      BY <1>2, <2>2
    <3>2. NM!nm_state_transition(s) = [moved EXCEPT !.state = state]
      BY <1>8, <2>2, <3>1 DEF NM!nm_state_transition, perf, best, worst, moved
    <3>3. state \in {"CONTRACT", "REFLECT", "EXPAND"}
      OBVIOUS
    <3> HIDE DEF state
    <3> QED BY <1>4, <1>5, <3>2, <3>3
  <2>3. CASE perf >= best /\ perf >= worst
    <3>1. ~(perf < best) /\ ~(perf < worst)
      BY <1>2, <2>3
    <3>2. NM!nm_state_transition(s) = NM!move_on(s, "CONTRACT")
      BY <1>8, <2>3, <3>1 DEF NM!nm_state_transition, perf, best, worst
    <3> QED BY <1>6, <3>2
  <2> QED BY <1>2, <2>1, <2>2, <2>3
<1>9. CASE s.state = "EXPAND"
  <2>1. NM!nm_state_transition(s) = IF perf < best THEN moved ELSE NM!move_on(s, "REFLECT")
    BY <1>9 DEF NM!nm_state_transition, perf, best, moved
  <2> QED BY <1>3, <1>4, <1>6, <2>1
<1>10. CASE s.state = "CONTRACT"
  <2> DEFINE small == [s EXCEPT !.index_curr = -1, !.state = "SHRINK"]
  <2>1. NM!nm_state_transition(s) = IF perf < worst THEN moved ELSE small
    BY <1>10 DEF NM!nm_state_transition, perf, worst, moved
  <2>2. small \in NMHalfway
    <3> DEFINE start == -1
               begun == [s EXCEPT !.index_curr = start]
    <3>1. start \in Int
      OBVIOUS
    <3> HIDE DEF start
    <3>2. begun \in NMFields /\ begun.index_curr = start
      BY <1>1, <3>1 DEF NMFields
    <3> HIDE DEF begun
    <3>3. [begun EXCEPT !.state = "SHRINK"] \in NMFields
          /\ [begun EXCEPT !.state = "SHRINK"].index_curr = start
          /\ [begun EXCEPT !.state = "SHRINK"].state = "SHRINK"
      BY <3>2, SetFields
    <3>4. [begun EXCEPT !.state = "SHRINK"] \in NMHalfway
      BY <3>3 DEF NMHalfway, start
    <3> QED BY <3>4 DEF begun, start
  <2> QED BY <1>3, <1>4, <2>1, <2>2
<1> QED
  BY <1>1, <1>7, <1>8, <1>9, <1>10 DEF NMFields

(* ... check_convergence(), which may end the search, ...                  *)
LEMMA CheckType ==
  ASSUME NEW s \in NMHalfway
  PROVE  NM!check_convergence(s) \subseteq NMHalfway
  BY DEF NM!check_convergence, NMHalfway, NMFields

(* ... and nm_next_vertex().                                               *)
LEMMA NextVertexType ==
  ASSUME NEW s \in NMHalfway
  PROVE  NM!nm_next_vertex(s) \in NMStates
<1>1. s \in NMFields /\ s.v \in [Corners -> [id : Int, perf : Costs]]
  BY DEF NMHalfway, NMFields
<1>2. \A n \in NMFields : n.state \notin {"INIT", "SHRINK"} => n \in NMStates
  BY DEF NMStates
<1>3. CASE s.state = "INIT"
  <2>1. NM!nm_next_vertex(s) = [s EXCEPT !.next = s.index_curr]
    BY <1>3 DEF NM!nm_next_vertex
  <2>2. s.index_curr \in Corners /\ s.index_curr \in NM!Base
    BY <1>3, CornersAre DEF NMHalfway
  <2> QED BY <1>1, <2>1, <2>2 DEF NMFields, NMStates
<1>4. CASE s.state \in {"REFLECT", "EXPAND", "CONTRACT"}
  <2> DEFINE v == [s.v EXCEPT ![NM!Test].perf = Infinity]
  <2>1. NM!nm_next_vertex(s)
          = [[s EXCEPT !.next = NM!Test] EXCEPT !.v = [@ EXCEPT ![NM!Test].perf = Infinity]]
    BY <1>4 DEF NM!nm_next_vertex
  <2>2. v \in [Corners -> [id : Int, perf : Costs]]
    BY <1>1, CornersAre, CostIs
  <2>3. NM!nm_next_vertex(s) = [s EXCEPT !.next = NM!Test, !.v = v]
    <3>1. [s EXCEPT !.next = NM!Test].v = s.v
      BY DEF NMHalfway, NMFields
    <3> QED BY <2>1, <3>1
  <2> HIDE DEF v
  <2>4. [s EXCEPT !.next = NM!Test, !.v = v] \in NMFields
    BY <1>1, <2>2, CornersAre DEF NMFields
  <2>5. [s EXCEPT !.next = NM!Test, !.v = v].state = s.state
    BY <1>1 DEF NMFields
  <2> QED BY <1>2, <1>4, <2>3, <2>4, <2>5
<1>5. CASE s.state = "SHRINK" /\ s.index_curr = -1
  <2> DEFINE v == [i \in DOMAIN s.v |-> IF i \in NM!Base \ {s.index_best}
                                         THEN [s.v[i] EXCEPT !.perf = Infinity] ELSE s.v[i]]
  <2>1. NM!nm_next_vertex(s) = [s EXCEPT !.next = 0, !.index_curr = 0, !.v = v]
    BY <1>5 DEF NM!nm_next_vertex
  <2>2. v \in [Corners -> [id : Int, perf : Costs]]
    BY <1>1, CostIs
  <2> HIDE DEF v
  <2>3. [s EXCEPT !.next = 0] \in NMFields
    BY <1>1, CornersAre, SetFields
  <2> DEFINE first == [s EXCEPT !.next = 0]
             begun == [first EXCEPT !.index_curr = 0]
  <2>4. begun \in NMFields /\ begun.index_curr = 0
    <3> HIDE DEF first
    <3>1. first \in NMFields /\ 0 \in Int
      BY <2>3 DEF first
    <3> QED BY <3>1 DEF NMFields
  <2>5. [begun EXCEPT !.v = v] \in NMFields /\ [begun EXCEPT !.v = v].index_curr = 0
    <3> HIDE DEF begun
    <3> QED BY <2>2, <2>4, SetFields
  <2> QED BY <2>1, <2>5, CornersAre DEF NMStates
<1>6. CASE s.state = "SHRINK" /\ s.index_curr # -1
  <2>1. NM!nm_next_vertex(s) = [s EXCEPT !.next = s.index_curr]
    BY <1>6 DEF NM!nm_next_vertex
  <2>2. s.index_curr \in Corners /\ s.index_curr \in NM!Base
    BY <1>6, CornersAre DEF NMHalfway
  <2> QED BY <1>1, <2>1, <2>2 DEF NMFields, NMStates
<1>7. CASE s.state = "CONVERGED"
  <2>1. NM!nm_next_vertex(s) = [s EXCEPT !.next = s.index_best]
    BY <1>7 DEF NM!nm_next_vertex
  <2>2. s.index_best \in Corners
    BY <1>1, CornersAre DEF NMFields
  <2> QED BY <1>1, <1>7, <2>1, <2>2 DEF NMFields, NMStates
<1> QED
  BY <1>1, <1>3, <1>4, <1>5, <1>6, <1>7 DEF NMFields

LEMMA TurnType ==
  ASSUME NEW s \in NMStates
  PROVE  NM!NMTurn(s, NM!check_convergence) \subseteq NMStates
<1> DEFINE moved == NM!nm_state_transition(s)
           all   == IF moved.state = "REFLECT" THEN NM!check_convergence(moved) ELSE {moved}
<1>1. NM!NMTurn(s, NM!check_convergence)
        = IF s.state = "CONVERGED" THEN {s} ELSE {NM!nm_next_vertex(n) : n \in all}
  BY DEF NM!NMTurn
<1>2. ASSUME s.state # "CONVERGED" PROVE all \subseteq NMHalfway
  <2>1. moved \in NMHalfway
    BY <1>2, NMTransitionType
  <2> HIDE DEF moved
  <2> QED BY <2>1, CheckType
<1> HIDE DEF all
<1> QED
  BY <1>1, <1>2, NextVertexType

(* nm_algorithm() takes up to three turns.                                 *)
LEMMA AlgorithmType ==
  ASSUME NEW s \in NMStates
  PROVE  NM!nm_algorithm(s) \subseteq NMStates
<1> DEFINE again(S) ==
             S \cup UNION {NM!NMTurn(n, NM!check_convergence) :
                             n \in {m \in S : m.state \in {"REFLECT", "EXPAND"}}}
           once == NM!NMTurn(s, NM!check_convergence)
<1>1. NM!nm_algorithm(s) = again(again(once))
  BY DEF NM!nm_algorithm, NM!NMAlgorithm
<1>2. ASSUME NEW S \in SUBSET NMStates PROVE again(S) \in SUBSET NMStates
  BY TurnType
<1>3. once \in SUBSET NMStates
  BY TurnType
<1> HIDE DEF again, once
<1> QED
  BY <1>1, <1>2, <1>3

(* Vertex next gets an id or a performance, and is sent out.               *)
LEMMA VertexType ==
  ASSUME NEW s \in NMStates
  PROVE  /\ NM!NMNumber(s) \in NMStates
         /\ \A p \in Costs : [s EXCEPT !.v[s.next].perf = p] \in NMStates
         /\ NM!NMSend(s) \subseteq [next : NMStates, status : {"ACCEPT"}, point : Point]
<1>1. /\ s \in NMFields /\ s.v \in [Corners -> [id : Int, perf : Costs]]
      /\ s.next \in Corners /\ s.next_id \in Int
  BY DEF NMStates, NMFields
<1>2. ASSUME NEW v \in [Corners -> [id : Int, perf : Costs]] PROVE [s EXCEPT !.v = v] \in NMStates
  BY <1>1, <1>2, SetFields DEF NMStates
<1>3. NM!NMNumber(s) \in NMStates
  <2> DEFINE v == [s.v EXCEPT ![s.next].id = s.next_id]
  <2>1. NM!NMNumber(s) = [s EXCEPT !.v = v]
    BY DEF NM!NMNumber
  <2>2. v \in [Corners -> [id : Int, perf : Costs]]
    BY <1>1
  <2> HIDE DEF v
  <2> QED BY <1>2, <2>1, <2>2
<1>4. ASSUME NEW p \in Costs PROVE [s EXCEPT !.v[s.next].perf = p] \in NMStates
  <2> DEFINE v == [s.v EXCEPT ![s.next].perf = p]
  <2>1. [s EXCEPT !.v[s.next].perf = p] = [s EXCEPT !.v = v]
    OBVIOUS
  <2>2. v \in [Corners -> [id : Int, perf : Costs]]
    BY <1>1
  <2> HIDE DEF v
  <2> QED BY <1>2, <2>1, <2>2
<1>5. NM!NMSend(s) \subseteq [next : NMStates, status : {"ACCEPT"}, point : Point]
  <2>1. s.v[s.next].id \in Int
    BY <1>1
  <2>2. \A v \in Vals : [id |-> s.v[s.next].id, val |-> v] \in Point
    BY <2>1 DEF Point
  <2> QED BY <2>2 DEF NM!NMSend
<1> QED
  BY <1>3, <1>4, <1>5

LEMMA NMKeeps ==
  /\ NM!NMInit \in NMStates
  /\ \A s \in NMStates :
       /\ NM!NMRestart(s) \in NMStates
       /\ NM!NMGenerate(s) \subseteq [next : NMStates, status : {"ACCEPT", "WAIT"}, point : Point]
       /\ \A p, h \in Point :
            NM!NMRejected(s, p, h)
              \subseteq [next : NMStates, status : {"ACCEPT", "WAIT", "ERROR"}, point : Point]
       /\ \A t \in Trials : NM!NMAnalyze(s, t) \subseteq NMStates
<1>1. NM!NMInit \in NMStates
  <2>1. [i \in 0 .. NM!Test |-> NM!Vertex0] \in [Corners -> [id : Int, perf : Costs]]
    BY CornersAre, CostIs DEF NM!Vertex0, Corners
  <2>2. 0 \in NM!Base /\ 0 \in Corners
    BY CornersAre
  <2> DEFINE v == [i \in 0 .. NM!Test |-> NM!Vertex0]
             init == [v |-> v, state |-> "INIT", index_curr |-> 0, next |-> 0,
                      index_best |-> 0, index_worst |-> 0, next_id |-> 1,
                      best |-> HPOINT_INITIALIZER, best_perf |-> Infinity]
  <2>3. NM!NMInit = init
    BY DEF NM!NMInit, NM!HPOINT_INITIALIZER, HPOINT_INITIALIZER
  <2> HIDE DEF v
  <2>4. v \in [Corners -> [id : Int, perf : Costs]]
    BY <2>1 DEF v
  <2>5. init \in NMFields
    BY <2>2, <2>4, InitialType, CostIs DEF NMFields
  <2>6. init.index_curr = 0
    OBVIOUS
  <2> HIDE DEF init
  <2> QED BY <2>2, <2>3, <2>5, <2>6 DEF NMStates
<1> SUFFICES ASSUME NEW s \in NMStates
             PROVE  /\ NM!NMRestart(s) \in NMStates
                    /\ NM!NMGenerate(s)
                         \subseteq [next : NMStates, status : {"ACCEPT", "WAIT"}, point : Point]
                    /\ \A p, h \in Point :
                         NM!NMRejected(s, p, h)
                           \subseteq [next : NMStates, status : {"ACCEPT", "WAIT", "ERROR"},
                                      point : Point]
                    /\ \A t \in Trials : NM!NMAnalyze(s, t) \subseteq NMStates
  BY <1>1
<1>2. NM!NMRestart(s) \in NMStates
  <2> DEFINE init == NM!NMInit
  <2>1. NM!NMRestart(s)
          = [init EXCEPT !.next_id = s.next_id, !.best = s.best, !.best_perf = s.best_perf]
    BY DEF NM!NMRestart
  <2>2. s.next_id \in Nat /\ s.best \in Point /\ s.best_perf \in Costs
    BY DEF NMStates, NMFields
  <2>3. init \in NMStates
    BY <1>1
  <2> HIDE DEF init
  <2> QED BY <2>1, <2>2, <2>3 DEF NMStates, NMFields
<1>3. NM!NMGenerate(s) \subseteq [next : NMStates, status : {"ACCEPT", "WAIT"}, point : Point]
  <2>1. NM!NMSend(NM!NMNumber(s)) \subseteq [next : NMStates, status : {"ACCEPT"}, point : Point]
    <3>1. NM!NMNumber(s) \in NMStates
      BY VertexType
    <3> QED BY <3>1, VertexType
  <2>2. NM!HPOINT_INITIALIZER \in Point
    BY InitialType DEF NM!HPOINT_INITIALIZER, HPOINT_INITIALIZER
  <2> QED BY <2>1, <2>2 DEF NM!NMGenerate
<1>4. ASSUME NEW p \in Point, NEW h \in Point
      PROVE  NM!NMRejected(s, p, h)
               \subseteq [next : NMStates, status : {"ACCEPT", "WAIT", "ERROR"}, point : Point]
  <2> DEFINE penalized == [s EXCEPT !.v[s.next].perf = Infinity]
  <2>1. penalized \in NMStates
    BY VertexType, CostIs
  <2> HIDE DEF penalized
  <2>2. NM!NMRejected(s, p, h)
          = IF h.id # -1
              THEN {[next |-> s, status |-> "ACCEPT", point |-> [h EXCEPT !.id = p.id]]}
            ELSE IF RejectType = "RANDOM"
              THEN NM!NMSend(penalized)
            ELSE UNION {NM!NMSend(NM!NMNumber(n)) : n \in NM!nm_algorithm(penalized)}
    BY DEF NM!NMRejected, NM!NMRejectedBy, penalized
  <2>3. [h EXCEPT !.id = p.id] \in Point
    BY DEF Point
  <2>4. ASSUME NEW n \in NM!nm_algorithm(penalized)
        PROVE  NM!NMSend(NM!NMNumber(n))
                 \subseteq [next : NMStates, status : {"ACCEPT"}, point : Point]
    <3>1. n \in NMStates
      BY <2>1, AlgorithmType
    <3>2. NM!NMNumber(n) \in NMStates
      BY <3>1, VertexType
    <3> QED BY <3>2, VertexType
  <2>5. NM!NMSend(penalized) \subseteq [next : NMStates, status : {"ACCEPT"}, point : Point]
    BY <2>1, VertexType
  <2> QED BY <2>2, <2>3, <2>4, <2>5
<1>5. ASSUME NEW t \in Trials PROVE NM!NMAnalyze(s, t) \subseteq NMStates
  <2> DEFINE better  == s.best_perf > t.perf
             measured == [s EXCEPT !.v[s.next].perf = t.perf]
             best(n) == IF better THEN [id |-> t.id, val |-> t.val] ELSE n.best
             perf(n) == IF better THEN t.perf ELSE n.best_perf
             id(n)   == IF NM!NMConverged(n) THEN n.next_id ELSE n.next_id + 1
             done(n) == [n EXCEPT !.best = best(n), !.best_perf = perf(n), !.next_id = id(n)]
  <2>1. NM!NMAnalyze(s, t) \subseteq {s} \cup {done(n) : n \in NM!nm_algorithm(measured)}
    BY DEF NM!NMAnalyze
  <2>2. [id |-> t.id, val |-> t.val] \in Point /\ t.perf \in Costs
    BY DEF Trials, Point, Costs
  <2>3. measured \in NMStates
    BY <2>2, VertexType
  <2> HIDE DEF measured
  <2>4. ASSUME NEW n \in NMStates PROVE done(n) \in NMStates
    <3>1. best(n) \in Point /\ perf(n) \in Costs /\ id(n) \in Nat
      BY <2>2 DEF NMStates, NMFields
    <3> HIDE DEF best, perf, id
    <3> QED BY <3>1 DEF NMStates, NMFields
  <2> HIDE DEF done
  <2> QED BY <2>1, <2>3, <2>4, AlgorithmType
<1> QED
  BY <1>2, <1>3, <1>4, <1>5

-----------------------------------------------------------------------------
(***************************************************************************)
(* A session that may load any of the three.                               *)
(***************************************************************************)
UsesSearches ==
  /\ StrategyInit = SearchInit
  /\ \A s : /\ StrategyRestart(s) = SearchRestart(s)
            /\ StrategyGenerate(s) = SearchGenerate(s)
            /\ StrategyBest(s) = SearchBest(s)
            /\ StrategyConverged(s) = SearchConverged(s)
  /\ \A s, t : StrategyAnalyze(s, t) = SearchAnalyze(s, t)
  /\ \A s, p, h : StrategyRejected(s, p, h) = SearchRejected(s, p, h)

Searched(plugin, S) == {[plugin |-> plugin, state |-> x] : x \in S}

SearchStates ==
  UNION {{s \in Searched("exhaustive", ExhaustiveStates) : "exhaustive" \in Plugins},
         {s \in Searched("random", RandomStates) : "random" \in Plugins},
         {s \in Searched("nm", NMStates) : "nm" \in Plugins}}

LEMMA TaggedType ==
  ASSUME NEW plugin, NEW S, NEW x \in S, NEW statuses, NEW outcomes,
         outcomes \subseteq [next : S, status : statuses, point : Point]
  PROVE  Tagged([plugin |-> plugin, state |-> x], outcomes)
           \subseteq [next : Searched(plugin, S), status : statuses, point : Point]
<1> DEFINE s == [plugin |-> plugin, state |-> x]
<1> SUFFICES ASSUME NEW o \in outcomes
             PROVE  [o EXCEPT !.next = [s EXCEPT !.state = o.next]]
                      \in [next : Searched(plugin, S), status : statuses, point : Point]
  BY DEF Tagged
<1>1. o \in [next : S, status : statuses, point : Point] /\ o.next \in S
  OBVIOUS
<1>2. [s EXCEPT !.state = o.next] = [plugin |-> plugin, state |-> o.next]
  OBVIOUS
<1>3. [s EXCEPT !.state = o.next] \in Searched(plugin, S)
  BY <1>1, <1>2 DEF Searched
<1> HIDE DEF s
<1> QED
  BY <1>1, <1>3

(* The routines of the session are those of the strategy that was loaded.  *)
LEMMA LoadedRoutines ==
  ASSUME NEW x
  PROVE  /\ LET s == [plugin |-> "exhaustive", state |-> x]
            IN  /\ SearchRestart(s) = [plugin |-> "exhaustive", state |-> ExhaustiveRestart(x)]
                /\ SearchGenerate(s) = Tagged(s, ExhaustiveGenerate(x))
                /\ \A p, h : SearchRejected(s, p, h) = Tagged(s, ExhaustiveRejected(x, p, h))
                /\ \A t : SearchAnalyze(s, t)
                            = {[plugin |-> "exhaustive", state |-> n] : n \in ExhaustiveAnalyze(x, t)}
                /\ SearchBest(s) = x.best
                /\ SearchConverged(s) = x.converged
         /\ LET s == [plugin |-> "random", state |-> x]
            IN  /\ SearchRestart(s) = s
                /\ SearchGenerate(s) = Tagged(s, RandomGenerate(x))
                /\ \A p, h : SearchRejected(s, p, h) = Tagged(s, RandomRejected(x, p, h))
                /\ \A t : SearchAnalyze(s, t)
                            = {[plugin |-> "random", state |-> n] : n \in RandomAnalyze(x, t)}
                /\ SearchBest(s) = x.best
                /\ SearchConverged(s) = FALSE
         /\ LET s == [plugin |-> "nm", state |-> x]
            IN  /\ SearchRestart(s) = [plugin |-> "nm", state |-> NM!NMRestart(x)]
                /\ SearchGenerate(s) = Tagged(s, NM!NMGenerate(x))
                /\ \A p, h : SearchRejected(s, p, h) = Tagged(s, NM!NMRejected(x, p, h))
                /\ \A t : SearchAnalyze(s, t)
                            = {[plugin |-> "nm", state |-> n] : n \in NM!NMAnalyze(x, t)}
                /\ SearchBest(s) = x.best
                /\ SearchConverged(s) = NM!NMConverged(x)
<1> DEFINE e == [plugin |-> "exhaustive", state |-> x]
           r == [plugin |-> "random", state |-> x]
           n == [plugin |-> "nm", state |-> x]
<1>1. e.plugin = "exhaustive" /\ r.plugin = "random" /\ n.plugin = "nm"
      /\ e.state = x /\ r.state = x /\ n.state = x
  OBVIOUS
<1>2. /\ \A y : [e EXCEPT !.state = y] = [plugin |-> "exhaustive", state |-> y]
      /\ \A y : [r EXCEPT !.state = y] = [plugin |-> "random", state |-> y]
      /\ \A y : [n EXCEPT !.state = y] = [plugin |-> "nm", state |-> y]
  OBVIOUS
<1>3. /\ SearchRestart(e) = [e EXCEPT !.state = ExhaustiveRestart(x)]
      /\ SearchRestart(r) = [r EXCEPT !.state = x]
      /\ SearchRestart(n) = [n EXCEPT !.state = NM!NMRestart(x)]
  BY <1>1 DEF SearchRestart, RandomRestart
<1>4. /\ SearchGenerate(e) = Tagged(e, ExhaustiveGenerate(x))
      /\ SearchGenerate(r) = Tagged(r, RandomGenerate(x))
      /\ SearchGenerate(n) = Tagged(n, NM!NMGenerate(x))
  BY <1>1 DEF SearchGenerate
<1>5. ASSUME NEW p, NEW h
      PROVE  /\ SearchRejected(e, p, h) = Tagged(e, ExhaustiveRejected(x, p, h))
             /\ SearchRejected(r, p, h) = Tagged(r, RandomRejected(x, p, h))
             /\ SearchRejected(n, p, h) = Tagged(n, NM!NMRejected(x, p, h))
  BY <1>1 DEF SearchRejected
<1>6. ASSUME NEW t
      PROVE  /\ SearchAnalyze(e, t) = {[e EXCEPT !.state = y] : y \in ExhaustiveAnalyze(x, t)}
             /\ SearchAnalyze(r, t) = {[r EXCEPT !.state = y] : y \in RandomAnalyze(x, t)}
             /\ SearchAnalyze(n, t) = {[n EXCEPT !.state = y] : y \in NM!NMAnalyze(x, t)}
  BY <1>1 DEF SearchAnalyze
<1>7. /\ SearchBest(e) = x.best /\ SearchBest(r) = x.best /\ SearchBest(n) = x.best
  BY <1>1 DEF SearchBest
<1>8. /\ SearchConverged(e) = x.converged /\ SearchConverged(r) = FALSE
      /\ SearchConverged(n) = NM!NMConverged(x)
  BY <1>1 DEF SearchConverged, ExhaustiveConverged
<1> QED
  BY <1>1, <1>2, <1>3, <1>4, <1>5, <1>6, <1>7, <1>8

(* What StrategyContract asks of the states after the first.               *)
StepsWithin(S) ==
  \A s \in S :
    /\ StrategyRestart(s) \in S
    /\ StrategyBest(s) \in Point
    /\ StrategyConverged(s) \in BOOLEAN
    /\ StrategyGenerate(s) \subseteq [next : S, status : {"ACCEPT", "WAIT"}, point : Point]
    /\ \A p, h \in Point :
         StrategyRejected(s, p, h)
           \subseteq [next : S, status : {"ACCEPT", "WAIT", "ERROR"}, point : Point]
    /\ \A t \in Trials : StrategyAnalyze(s, t) \subseteq S

LEMMA ExhaustiveSteps ==
  ASSUME UsesSearches
  PROVE  StepsWithin(Searched("exhaustive", ExhaustiveStates))
<1> DEFINE S == Searched("exhaustive", ExhaustiveStates)
<1> SUFFICES ASSUME NEW x \in ExhaustiveStates, NEW s, s = [plugin |-> "exhaustive", state |-> x]
             PROVE  /\ SearchRestart(s) \in S
                    /\ SearchBest(s) \in Point
                    /\ SearchConverged(s) \in BOOLEAN
                    /\ SearchGenerate(s)
                         \subseteq [next : S, status : {"ACCEPT", "WAIT"}, point : Point]
                    /\ \A p, h \in Point :
                         SearchRejected(s, p, h)
                           \subseteq [next : S, status : {"ACCEPT", "WAIT", "ERROR"}, point : Point]
                    /\ \A t \in Trials : SearchAnalyze(s, t) \subseteq S
  BY DEF UsesSearches, StepsWithin, Searched
<1>1. \A y \in ExhaustiveStates : [plugin |-> "exhaustive", state |-> y] \in S
  BY DEF Searched
<1> HIDE DEF S
<1>2. SearchRestart(s) \in S
  BY <1>1, LoadedRoutines, ExhaustiveKeeps
<1>3. SearchBest(s) \in Point /\ SearchConverged(s) \in BOOLEAN
  BY LoadedRoutines DEF ExhaustiveStates
<1>4. SearchGenerate(s) \subseteq [next : S, status : {"ACCEPT", "WAIT"}, point : Point]
  <2>1. SearchGenerate(s) = Tagged(s, ExhaustiveGenerate(x))
    BY LoadedRoutines
  <2>2. ExhaustiveGenerate(x)
          \subseteq [next : ExhaustiveStates, status : {"ACCEPT", "WAIT"}, point : Point]
    BY ExhaustiveKeeps
  <2>3. Tagged([plugin |-> "exhaustive", state |-> x], ExhaustiveGenerate(x))
          \subseteq [next : S, status : {"ACCEPT", "WAIT"}, point : Point]
    BY <2>2, TaggedType DEF S
  <2> QED BY <2>1, <2>3
<1>5. ASSUME NEW p \in Point, NEW h \in Point
      PROVE  SearchRejected(s, p, h)
               \subseteq [next : S, status : {"ACCEPT", "WAIT", "ERROR"}, point : Point]
  <2>1. SearchRejected(s, p, h) = Tagged(s, ExhaustiveRejected(x, p, h))
    BY LoadedRoutines
  <2>2. ExhaustiveRejected(x, p, h)
          \subseteq [next : ExhaustiveStates, status : {"ACCEPT", "WAIT", "ERROR"}, point : Point]
    BY ExhaustiveKeeps
  <2>3. Tagged([plugin |-> "exhaustive", state |-> x], ExhaustiveRejected(x, p, h))
          \subseteq [next : S, status : {"ACCEPT", "WAIT", "ERROR"}, point : Point]
    BY <2>2, TaggedType DEF S
  <2> QED BY <2>1, <2>3
<1>6. ASSUME NEW t \in Trials PROVE SearchAnalyze(s, t) \subseteq S
  <2>1. SearchAnalyze(s, t) = {[plugin |-> "exhaustive", state |-> n] : n \in ExhaustiveAnalyze(x, t)}
    BY LoadedRoutines
  <2>2. ExhaustiveAnalyze(x, t) \subseteq ExhaustiveStates
    BY ExhaustiveKeeps
  <2> QED BY <1>1, <2>1, <2>2
<1> QED
  BY <1>2, <1>3, <1>4, <1>5, <1>6

LEMMA RandomSteps ==
  ASSUME UsesSearches
  PROVE  StepsWithin(Searched("random", RandomStates))
<1> DEFINE S == Searched("random", RandomStates)
<1> SUFFICES ASSUME NEW x \in RandomStates, NEW s, s = [plugin |-> "random", state |-> x]
             PROVE  /\ SearchRestart(s) \in S
                    /\ SearchBest(s) \in Point
                    /\ SearchConverged(s) \in BOOLEAN
                    /\ SearchGenerate(s)
                         \subseteq [next : S, status : {"ACCEPT", "WAIT"}, point : Point]
                    /\ \A p, h \in Point :
                         SearchRejected(s, p, h)
                           \subseteq [next : S, status : {"ACCEPT", "WAIT", "ERROR"}, point : Point]
                    /\ \A t \in Trials : SearchAnalyze(s, t) \subseteq S
  BY DEF UsesSearches, StepsWithin, Searched
<1>1. \A y \in RandomStates : [plugin |-> "random", state |-> y] \in S
  BY DEF Searched
<1> HIDE DEF S
<1>2. SearchRestart(s) \in S
  BY <1>1, LoadedRoutines, RandomKeeps
<1>3. SearchBest(s) \in Point /\ SearchConverged(s) \in BOOLEAN
  BY LoadedRoutines DEF RandomStates
<1>4. SearchGenerate(s) \subseteq [next : S, status : {"ACCEPT", "WAIT"}, point : Point]
  <2>1. SearchGenerate(s) = Tagged(s, RandomGenerate(x))
    BY LoadedRoutines
  <2>2. RandomGenerate(x)
          \subseteq [next : RandomStates, status : {"ACCEPT", "WAIT"}, point : Point]
    BY RandomKeeps
  <2>3. Tagged([plugin |-> "random", state |-> x], RandomGenerate(x))
          \subseteq [next : S, status : {"ACCEPT", "WAIT"}, point : Point]
    BY <2>2, TaggedType DEF S
  <2> QED BY <2>1, <2>3
<1>5. ASSUME NEW p \in Point, NEW h \in Point
      PROVE  SearchRejected(s, p, h)
               \subseteq [next : S, status : {"ACCEPT", "WAIT", "ERROR"}, point : Point]
  <2>1. SearchRejected(s, p, h) = Tagged(s, RandomRejected(x, p, h))
    BY LoadedRoutines
  <2>2. RandomRejected(x, p, h)
          \subseteq [next : RandomStates, status : {"ACCEPT", "WAIT", "ERROR"}, point : Point]
    BY RandomKeeps
  <2>3. Tagged([plugin |-> "random", state |-> x], RandomRejected(x, p, h))
          \subseteq [next : S, status : {"ACCEPT", "WAIT", "ERROR"}, point : Point]
    BY <2>2, TaggedType DEF S
  <2> QED BY <2>1, <2>3
<1>6. ASSUME NEW t \in Trials PROVE SearchAnalyze(s, t) \subseteq S
  <2>1. SearchAnalyze(s, t) = {[plugin |-> "random", state |-> n] : n \in RandomAnalyze(x, t)}
    BY LoadedRoutines
  <2>2. RandomAnalyze(x, t) \subseteq RandomStates
    BY RandomKeeps
  <2> QED BY <1>1, <2>1, <2>2
<1> QED
  BY <1>2, <1>3, <1>4, <1>5, <1>6

LEMMA NMSteps ==
  ASSUME UsesSearches
  PROVE  StepsWithin(Searched("nm", NMStates))
<1> DEFINE S == Searched("nm", NMStates)
<1> SUFFICES ASSUME NEW x \in NMStates, NEW s, s = [plugin |-> "nm", state |-> x]
             PROVE  /\ SearchRestart(s) \in S
                    /\ SearchBest(s) \in Point
                    /\ SearchConverged(s) \in BOOLEAN
                    /\ SearchGenerate(s)
                         \subseteq [next : S, status : {"ACCEPT", "WAIT"}, point : Point]
                    /\ \A p, h \in Point :
                         SearchRejected(s, p, h)
                           \subseteq [next : S, status : {"ACCEPT", "WAIT", "ERROR"}, point : Point]
                    /\ \A t \in Trials : SearchAnalyze(s, t) \subseteq S
  BY DEF UsesSearches, StepsWithin, Searched
<1>1. \A y \in NMStates : [plugin |-> "nm", state |-> y] \in S
  BY DEF Searched
<1> HIDE DEF S
<1>2. SearchRestart(s) \in S
  BY <1>1, LoadedRoutines, NMKeeps
<1>3. SearchBest(s) \in Point /\ SearchConverged(s) \in BOOLEAN
  BY LoadedRoutines DEF NMStates, NMFields, NM!NMConverged
<1>4. SearchGenerate(s) \subseteq [next : S, status : {"ACCEPT", "WAIT"}, point : Point]
  <2>1. SearchGenerate(s) = Tagged(s, NM!NMGenerate(x))
    BY LoadedRoutines
  <2>2. NM!NMGenerate(x)
          \subseteq [next : NMStates, status : {"ACCEPT", "WAIT"}, point : Point]
    BY NMKeeps
  <2>3. Tagged([plugin |-> "nm", state |-> x], NM!NMGenerate(x))
          \subseteq [next : S, status : {"ACCEPT", "WAIT"}, point : Point]
    BY <2>2, TaggedType DEF S
  <2> QED BY <2>1, <2>3
<1>5. ASSUME NEW p \in Point, NEW h \in Point
      PROVE  SearchRejected(s, p, h)
               \subseteq [next : S, status : {"ACCEPT", "WAIT", "ERROR"}, point : Point]
  <2>1. SearchRejected(s, p, h) = Tagged(s, NM!NMRejected(x, p, h))
    BY LoadedRoutines
  <2>2. NM!NMRejected(x, p, h)
          \subseteq [next : NMStates, status : {"ACCEPT", "WAIT", "ERROR"}, point : Point]
    BY NMKeeps
  <2>3. Tagged([plugin |-> "nm", state |-> x], NM!NMRejected(x, p, h))
          \subseteq [next : S, status : {"ACCEPT", "WAIT", "ERROR"}, point : Point]
    BY <2>2, TaggedType DEF S
  <2> QED BY <2>1, <2>3
<1>6. ASSUME NEW t \in Trials PROVE SearchAnalyze(s, t) \subseteq S
  <2>1. SearchAnalyze(s, t) = {[plugin |-> "nm", state |-> n] : n \in NM!NMAnalyze(x, t)}
    BY LoadedRoutines
  <2>2. NM!NMAnalyze(x, t) \subseteq NMStates
    BY NMKeeps
  <2> QED BY <1>1, <2>1, <2>2
<1> QED
  BY <1>2, <1>3, <1>4, <1>5, <1>6

(* The exhaustive, random and Nelder-Mead strategies keep the contract of  *)
(* the types, whichever of them is loaded, for every search space, number  *)
(* of passes, size of the simplex and reject method.                       *)
THEOREM SearchesKeepContract ==
  ASSUME UsesSearches, Plugins \subseteq {"exhaustive", "random", "nm"}
  PROVE  StrategyContract(SearchStates)
<1> DEFINE E == Searched("exhaustive", ExhaustiveStates)
           R == Searched("random", RandomStates)
           M == Searched("nm", NMStates)
<1>1. StrategyInit \subseteq SearchStates
  <2> SUFFICES ASSUME NEW p \in Plugins
               PROVE  [plugin |-> p, state |-> Loaded[p]] \in SearchStates
    BY DEF UsesSearches, SearchInit
  <2>1. CASE p = "exhaustive"
    <3>1. Loaded[p] = ExhaustiveInit
      BY <2>1 DEF Loaded
    <3> QED BY <2>1, <3>1, ExhaustiveKeeps DEF SearchStates, Searched
  <2>2. CASE p = "random"
    <3>1. Loaded[p] = RandomInit
      BY <2>2 DEF Loaded
    <3> QED BY <2>2, <3>1, RandomKeeps DEF SearchStates, Searched
  <2>3. CASE p = "nm"
    <3>1. Loaded[p] = NM!NMInit
      BY <2>3 DEF Loaded
    <3> QED BY <2>3, <3>1, NMKeeps DEF SearchStates, Searched
  <2> QED BY <2>1, <2>2, <2>3
<1>2. StepsWithin(E) /\ StepsWithin(R) /\ StepsWithin(M)
  BY ExhaustiveSteps, RandomSteps, NMSteps
<1>3. ASSUME NEW s \in SearchStates
      PROVE  \E S \in {E, R, M} : s \in S /\ S \subseteq SearchStates
  <2> HIDE DEF E, R, M
  <2>1. SearchStates = UNION {{t \in E : "exhaustive" \in Plugins}, {t \in R : "random" \in Plugins},
                              {t \in M : "nm" \in Plugins}}
    BY DEF SearchStates, E, R, M
  <2> QED BY <1>3, <2>1
<1> HIDE DEF E, R, M
<1>4. StepsWithin(SearchStates)
  <2> SUFFICES ASSUME NEW s \in SearchStates, NEW S \in {E, R, M}, s \in S, S \subseteq SearchStates
               PROVE  /\ StrategyRestart(s) \in SearchStates
                      /\ StrategyBest(s) \in Point
                      /\ StrategyConverged(s) \in BOOLEAN
                      /\ StrategyGenerate(s)
                           \subseteq [next : SearchStates, status : {"ACCEPT", "WAIT"}, point : Point]
                      /\ \A p, h \in Point :
                           StrategyRejected(s, p, h)
                             \subseteq [next : SearchStates, status : {"ACCEPT", "WAIT", "ERROR"},
                                        point : Point]
                      /\ \A t \in Trials : StrategyAnalyze(s, t) \subseteq SearchStates
    BY <1>3 DEF StepsWithin
  <2>1. StepsWithin(S)
    BY <1>2
  <2>2. \A statuses : [next : S, status : statuses, point : Point]
                        \subseteq [next : SearchStates, status : statuses, point : Point]
    OBVIOUS
  <2> QED BY <2>1, <2>2 DEF StepsWithin
<1> QED
  BY <1>1, <1>4 DEF StepsWithin, StrategyContract

(* Types, in a session with any of the three and layers that keep theirs.  *)
THEOREM SearchTypeCorrect ==
  ASSUME UsesSearches, Plugins \subseteq {"exhaustive", "random", "nm"},
         NEW L, LayerContract(L)
  PROVE  Spec => []TypeOK
  BY SearchesKeepContract, TypeCorrect

(* And, while the lists keep their size, the ring keeps its shape and the  *)
(* queue is first in, first out.                                           *)
THEOREM SearchQueueCorrect ==
  ASSUME UsesSearches, Plugins \subseteq {"exhaustive", "random", "nm"},
         NEW L, LayerContract(L), NoGrowth
  PROVE  Spec => []RingShape /\ QueueIsFifo
<1>1. Spec => []RingShape
  BY SearchesKeepContract, RingCorrect
<1>2. Spec => QueueIsFifo
  BY SearchesKeepContract, QueueCorrect
<1> QED
  BY <1>1, <1>2

-----------------------------------------------------------------------------
(***************************************************************************)
(* The random strategy keeps the promises about trials, through restarts,  *)
(* if no layer rejects points: every trial it generates has an id above    *)
(* all earlier ones.  (A point that is rejected comes back under the id of *)
(* the trial that is generated next.)                                      *)
(***************************************************************************)
RandomOnes == Searched("random", RandomStates)

RandomIds == [s \in RandomOnes |-> s.state.id]

RandomMemory(x, X) ==
  /\ \A id \in X : id < x.id
  /\ x.best.id < x.id /\ x.best.id \notin X

RandomAnyTime == {w \in RandomOnes \X SUBSET Nat : RandomMemory(w[1].state, w[2])}

LEMMA RandomLeads ==
  ASSUME NEW x \in RandomStates, NEW next \in RandomStates, NEW X \in SUBSET Nat,
         x.id <= next.id, RandomMemory(next, X)
  PROVE  Leads(RandomIds, RandomAnyTime, [plugin |-> "random", state |-> x],
               [plugin |-> "random", state |-> next], X)
<1> DEFINE s == [plugin |-> "random", state |-> x]
           n == [plugin |-> "random", state |-> next]
<1>1. s \in RandomOnes /\ n \in RandomOnes /\ s.state = x /\ n.state = next
  BY DEF RandomOnes, Searched
<1> HIDE DEF s, n
<1>2. RandomIds[s] = x.id /\ RandomIds[n] = next.id
  BY <1>1 DEF RandomIds
<1>3. <<n, X>> \in RandomAnyTime
  BY <1>1 DEF RandomAnyTime
<1>4. Leads(RandomIds, RandomAnyTime, s, n, X)
  BY <1>2, <1>3 DEF Leads
<1> QED
  BY <1>4 DEF s, n

LEMMA RandomIssues ==
  ASSUME UsesSearches, Plugins \subseteq {"random"}
  PROVE  IssuesIds(RandomOnes, RandomIds, RandomAnyTime)
<1>1. RandomIds \in [RandomOnes -> Nat]
  BY DEF RandomIds, RandomOnes, Searched, RandomStates
<1>2. ASSUME NEW s \in StrategyInit PROVE <<s, {}>> \in RandomAnyTime
  <2>1. s = [plugin |-> "random", state |-> RandomInit]
    BY <1>2 DEF UsesSearches, SearchInit, Loaded
  <2>2. RandomMemory(RandomInit, {})
    BY DEF RandomMemory, RandomInit, HPOINT_INITIALIZER
  <2>3. s \in RandomOnes /\ s.state = RandomInit
    BY <2>1, RandomKeeps DEF RandomOnes, Searched
  <2> QED BY <2>2, <2>3 DEF RandomAnyTime
<1> SUFFICES ASSUME NEW s \in RandomOnes, NEW X \in SUBSET Nat, <<s, X>> \in RandomAnyTime
             PROVE  /\ \A x \in X : x < RandomIds[s]
                    /\ StrategyBest(s).id < RandomIds[s] /\ StrategyBest(s).id \notin X
                    /\ \A o \in StrategyGenerate(s) :
                         IF o.status = "WAIT"
                           THEN Leads(RandomIds, RandomAnyTime, s, o.next, X)
                           ELSE /\ RandomIds[s] <= o.point.id /\ o.point.val \in Vals
                                /\ Leads(RandomIds, RandomAnyTime, s, o.next, X \cup {o.point.id})
                    /\ \A t \in Trials : t.id \in X =>
                         /\ StrategyAnalyze(s, t) # {}
                         /\ \A next \in StrategyAnalyze(s, t) :
                              Leads(RandomIds, RandomAnyTime, s, next, X \ {t.id})
                    /\ Leads(RandomIds, RandomAnyTime, s, StrategyRestart(s), X)
  BY <1>1, <1>2 DEF IssuesIds
<1>3. PICK x \in RandomStates : s = [plugin |-> "random", state |-> x]
  BY DEF RandomOnes, Searched
<1>4. s.state = x /\ RandomMemory(x, X) /\ RandomIds[s] = x.id
  <2>1. s.state = x
    BY <1>3
  <2> QED BY <2>1 DEF RandomAnyTime, RandomIds
<1>5. x.id \in Nat /\ x.best.id \in Int
  BY DEF RandomStates, Point
<1>6. /\ StrategyBest(s) = x.best
      /\ StrategyRestart(s) = [plugin |-> "random", state |-> x]
      /\ StrategyGenerate(s) = Tagged(s, RandomGenerate(x))
      /\ \A t : StrategyAnalyze(s, t)
                  = {[plugin |-> "random", state |-> n] : n \in RandomAnalyze(x, t)}
  BY <1>3, LoadedRoutines DEF UsesSearches
<1>7. (\A id \in X : id < RandomIds[s]) /\ StrategyBest(s).id < RandomIds[s]
      /\ StrategyBest(s).id \notin X
  BY <1>4, <1>6 DEF RandomMemory
<1>8. ASSUME NEW o \in StrategyGenerate(s)
      PROVE  IF o.status = "WAIT"
               THEN Leads(RandomIds, RandomAnyTime, s, o.next, X)
               ELSE /\ RandomIds[s] <= o.point.id /\ o.point.val \in Vals
                    /\ Leads(RandomIds, RandomAnyTime, s, o.next, X \cup {o.point.id})
  <2>1. PICK g \in RandomGenerate(x) : o = [g EXCEPT !.next = [s EXCEPT !.state = g.next]]
    BY <1>6, <1>8 DEF Tagged
  <2>2. g \in [next : RandomStates, status : {"ACCEPT", "WAIT"}, point : Point]
    BY RandomKeeps
  <2>3. /\ o.status = g.status /\ o.point = g.point
        /\ o.next = [plugin |-> "random", state |-> g.next]
    BY <1>3, <2>1, <2>2
  <2>4. CASE x.id > MaxTrials
    <3>1. g.next = x /\ g.status = "WAIT"
      BY <2>4 DEF RandomGenerate
    <3> QED BY <1>3, <1>4, <1>5, <2>3, <3>1, RandomLeads
  <2>5. CASE ~(x.id > MaxTrials)
    <3> DEFINE next == [x EXCEPT !.id = x.id + 1]
    <3>1. g.next = next /\ g.status = "ACCEPT" /\ g.point.id = x.id /\ g.point.val \in Vals
      <4> HIDE DEF next
      <4>1. RandomGenerate(x) = RandomSend(x, next)
        BY <2>5 DEF RandomGenerate, next
      <4> QED BY <4>1 DEF RandomSend
    <3>2. next \in RandomStates /\ next.id = x.id + 1 /\ next.best = x.best
      BY DEF RandomStates
    <3> HIDE DEF next
    <3>3. x.id <= next.id /\ RandomMemory(next, X \cup {x.id})
      <4>1. ASSUME NEW id \in X \cup {x.id} PROVE id < x.id + 1
        <5>1. id \in Nat /\ (id = x.id \/ id < x.id)
          BY <1>4, <1>5 DEF RandomMemory
        <5> QED BY <1>5, <5>1
      <4>2. x.best.id < x.id + 1 /\ x.best.id \notin X \cup {x.id} /\ x.id <= x.id + 1
        BY <1>4, <1>5 DEF RandomMemory
      <4> QED BY <3>2, <4>1, <4>2 DEF RandomMemory
    <3>4. X \cup {x.id} \in SUBSET Nat
      BY <1>5
    <3>5. Leads(RandomIds, RandomAnyTime, s, o.next, X \cup {x.id})
      BY <1>3, <2>3, <3>1, <3>2, <3>3, <3>4, RandomLeads
    <3> QED BY <1>4, <1>5, <2>3, <3>1, <3>5
  <2> QED BY <2>4, <2>5
<1>9. ASSUME NEW t \in Trials, t.id \in X
      PROVE  /\ StrategyAnalyze(s, t) # {}
             /\ \A next \in StrategyAnalyze(s, t) :
                  Leads(RandomIds, RandomAnyTime, s, next, X \ {t.id})
  <2> DEFINE n == IF x.best_perf > t.perf
                    THEN [x EXCEPT !.best = [id |-> t.id, val |-> t.val], !.best_perf = t.perf]
                    ELSE x
  <2>1. StrategyAnalyze(s, t) = {[plugin |-> "random", state |-> n]}
    BY <1>6 DEF RandomAnalyze
  <2>2. n \in RandomStates
    <3>1. RandomAnalyze(x, t) \subseteq RandomStates
      BY RandomKeeps
    <3> QED BY <3>1 DEF RandomAnalyze
  <2>3. n.id = x.id /\ n.best.id \in {x.best.id, t.id}
    BY DEF RandomStates
  <2> HIDE DEF n
  <2>4. RandomMemory(n, X \ {t.id}) /\ x.id <= n.id
    <3>1. t.id < x.id
      BY <1>4, <1>9 DEF RandomMemory
    <3>2. n.best.id < x.id /\ n.best.id \notin X \ {t.id}
      BY <1>4, <2>3, <3>1 DEF RandomMemory
    <3>3. x.id <= n.id /\ \A id \in X \ {t.id} : id < n.id
      BY <1>4, <1>5, <2>3 DEF RandomMemory
    <3> QED BY <2>3, <3>2, <3>3 DEF RandomMemory
  <2> QED BY <1>3, <2>1, <2>2, <2>4, RandomLeads
<1>10. Leads(RandomIds, RandomAnyTime, s, StrategyRestart(s), X)
  BY <1>3, <1>4, <1>5, <1>6, RandomLeads
<1> QED
  BY <1>7, <1>8, <1>9, <1>10

(* What a session with the random strategy and layers that take every      *)
(* point is to its trials.  The layers may fail after the search has       *)
(* converged, which it never does.                                         *)
LEMMA RandomContract ==
  ASSUME UsesSearches, Plugins \subseteq {"random"},
         NEW L, LayerContract(L), NeverReject(L), NeverFail(L, FALSE)
  PROVE  TrialContract(RandomOnes, L, RandomIds, RandomAnyTime)
<1>1. StrategyContract(RandomOnes)
  <2>1. StepsWithin(RandomOnes)
    BY RandomSteps DEF RandomOnes
  <2>2. ASSUME NEW s \in StrategyInit PROVE s \in RandomOnes
    <3>1. s = [plugin |-> "random", state |-> RandomInit]
      BY <2>2 DEF UsesSearches, SearchInit, Loaded
    <3> QED BY <3>1, RandomKeeps DEF RandomOnes, Searched
  <2> QED BY <2>1, <2>2 DEF StepsWithin, StrategyContract
<1>2. EndsEmpty(RandomOnes, RandomAnyTime)
  <2>1. ASSUME NEW s \in RandomOnes PROVE ~StrategyConverged(s)
    <3>1. PICK x \in RandomStates : s = [plugin |-> "random", state |-> x]
      BY DEF RandomOnes, Searched
    <3> QED BY <3>1, LoadedRoutines DEF UsesSearches
  <2> QED BY <2>1 DEF EndsEmpty
<1> QED
  BY <1>1, <1>2, RandomIssues DEF TrialContract

(* The trials of a session with the random strategy are accounted for,     *)
(* their ids differ, each report is about the trial that its sender was    *)
(* handed, and the session implements TrialPool, through any restarts.     *)
THEOREM RandomTrialsCorrect ==
  ASSUME UsesSearches, Plugins \subseteq {"random"},
         NEW L, LayerContract(L), NeverReject(L), NeverFail(L, FALSE), NoGrowth
  PROVE  /\ Spec => []TrialsAccounted /\ []PendingCounted /\ []IdsUnique /\ []ReportsOwnTrial
         /\ Nat \subseteq PoolIds => (Spec => PoolSpec)
<1>1. TrialContract(RandomOnes, L, RandomIds, RandomAnyTime)
  BY RandomContract
<1>2. /\ Spec => []TrialsAccounted
      /\ Spec => []PendingCounted
      /\ Spec => []IdsUnique
      /\ Spec => []ReportsOwnTrial
  BY <1>1, TrialsCorrect, CountCorrect, IdsCorrect, ReportsCorrect
<1>3. ASSUME Nat \subseteq PoolIds PROVE Spec => PoolSpec
  BY <1>1, <1>3, PoolCorrect
<1> QED
  BY <1>2, <1>3

(* One client of a session with the random strategy and layers that accept *)
(* every trial at once never ends the session.                             *)
THEOREM RandomSessionAlive ==
  ASSUME UsesSearches, Plugins \subseteq {"random"},
         NEW L, LayerContract(L), NeverReject(L), NeverFail(L, FALSE), Straight(L), NoGrowth,
         SigMatch \subseteq {TRUE}, \A c, d \in Clients : c = d
  PROVE  Spec => []SessionAlive
<1>1. TrialContract(RandomOnes, L, RandomIds, RandomAnyTime)
  BY RandomContract
<1>2. BestIsReported(RandomOnes)
  <2>1. ASSUME NEW s \in StrategyInit PROVE -1 <= StrategyBest(s).id
    <3>1. s = [plugin |-> "random", state |-> RandomInit]
      BY <2>1 DEF UsesSearches, SearchInit, Loaded
    <3>2. StrategyBest(s) = RandomInit.best
      BY <3>1, LoadedRoutines DEF UsesSearches
    <3>3. RandomInit.best = HPOINT_INITIALIZER
      BY DEF RandomInit
    <3> QED BY <3>2, <3>3 DEF HPOINT_INITIALIZER
  <2>2. ASSUME NEW x \in RandomStates, NEW s, s = [plugin |-> "random", state |-> x]
        PROVE  /\ \A o \in StrategyGenerate(s) : StrategyBest(o.next).id = StrategyBest(s).id
               /\ \A p \in Point : \A h \in Hints : \A o \in StrategyRejected(s, p, h) :
                    StrategyBest(o.next).id = StrategyBest(s).id
               /\ \A t \in Trials : \A next \in StrategyAnalyze(s, t) :
                    StrategyBest(next).id \in {StrategyBest(s).id, t.id}
               /\ StrategyBest(StrategyRestart(s)).id = StrategyBest(s).id
    <3>1. \A y : StrategyBest([plugin |-> "random", state |-> y]) = y.best
      BY LoadedRoutines DEF UsesSearches
    <3>2. ASSUME NEW g, g.next.best = x.best, NEW o, o = [g EXCEPT !.next = [s EXCEPT !.state = g.next]],
                 g \in [next : RandomStates, status : {"ACCEPT", "WAIT", "ERROR"}, point : Point]
          PROVE  StrategyBest(o.next) = StrategyBest(s)
      <4>1. o.next = [plugin |-> "random", state |-> g.next]
        BY <2>2, <3>2
      <4> QED BY <2>2, <3>1, <3>2, <4>1
    <3>3. ASSUME NEW o \in StrategyGenerate(s)
          PROVE  StrategyBest(o.next).id = StrategyBest(s).id
      <4>1. StrategyGenerate(s) = Tagged(s, RandomGenerate(x))
        BY <2>2, LoadedRoutines DEF UsesSearches
      <4>2. PICK g \in RandomGenerate(x) : o = [g EXCEPT !.next = [s EXCEPT !.state = g.next]]
        BY <3>3, <4>1 DEF Tagged
      <4>3. g.next.best = x.best
        <5> DEFINE next == [x EXCEPT !.id = @ + 1]
        <5>1. next.best = x.best
          BY DEF RandomStates
        <5> HIDE DEF next
        <5>2. g.next = x \/ g \in RandomSend(x, next)
          BY <4>2 DEF RandomGenerate, next
        <5> QED BY <5>1, <5>2 DEF RandomSend
      <4>4. g \in [next : RandomStates, status : {"ACCEPT", "WAIT", "ERROR"}, point : Point]
        BY RandomKeeps
      <4> QED BY <3>2, <4>2, <4>3, <4>4
    <3>4. ASSUME NEW p \in Point, NEW h \in Hints, NEW o \in StrategyRejected(s, p, h)
          PROVE  StrategyBest(o.next).id = StrategyBest(s).id
      <4>1. StrategyRejected(s, p, h) = Tagged(s, RandomRejected(x, p, h)) /\ h \in Point
        BY <2>2, LoadedRoutines DEF UsesSearches, Hints
      <4>2. PICK g \in RandomRejected(x, p, h) : o = [g EXCEPT !.next = [s EXCEPT !.state = g.next]]
        BY <3>4, <4>1 DEF Tagged
      <4>3. g.next = x
        BY <4>2 DEF RandomRejected, RandomSend
      <4>4. g \in [next : RandomStates, status : {"ACCEPT", "WAIT", "ERROR"}, point : Point]
        BY <4>1, RandomKeeps
      <4> QED BY <3>2, <4>2, <4>3, <4>4
    <3>5. ASSUME NEW t \in Trials, NEW next \in StrategyAnalyze(s, t)
          PROVE  StrategyBest(next).id \in {StrategyBest(s).id, t.id}
      <4>1. PICK n \in RandomAnalyze(x, t) : next = [plugin |-> "random", state |-> n]
        <5>1. StrategyAnalyze(s, t)
                = {[plugin |-> "random", state |-> n] : n \in RandomAnalyze(x, t)}
          BY <2>2, LoadedRoutines DEF UsesSearches
        <5> QED BY <3>5, <5>1
      <4>2. n.best.id \in {x.best.id, t.id}
        <5> DEFINE best == [id |-> t.id, val |-> t.val]
        <5>1. n = x \/ n = [x EXCEPT !.best = best, !.best_perf = t.perf]
          BY <4>1 DEF RandomAnalyze
        <5>2. best.id = t.id
          OBVIOUS
        <5> HIDE DEF best
        <5>3. [x EXCEPT !.best = best, !.best_perf = t.perf].best = best
          BY DEF RandomStates
        <5> QED BY <5>1, <5>2, <5>3
      <4> QED BY <2>2, <3>1, <4>1, <4>2
    <3>6. StrategyRestart(s) = s
      BY <2>2, LoadedRoutines DEF UsesSearches
    <3> QED BY <3>3, <3>4, <3>5, <3>6
  <2>3. \A s \in RandomOnes : \E x \in RandomStates : s = [plugin |-> "random", state |-> x]
    BY DEF RandomOnes, Searched
  <2> QED BY <2>1, <2>2, <2>3 DEF BestIsReported
<1> QED
  BY <1>1, <1>2, LoneClientCorrect DEF LoneContract

=============================================================================
