---------------------------- MODULE ProTrialProofs ----------------------------
(***************************************************************************)
(* PRO and the layers of Layers keep the promises that TrialProofs asks    *)
(* of the plug-ins, so the theorems there and in PoolProofs hold of a      *)
(* session that runs PRO:                                                  *)
(*                                                                         *)
(*   - with any stack of layers, while the search is not restarted and a   *)
(*     rejected point is drawn again at random;                            *)
(*   - through any restarts, if no layer rejects points or fails.          *)
(*                                                                         *)
(* Beyond that the code does lose trials: a point of before the restart is *)
(* unknown to strategy_rejected(), the penalty method may leave a rejected *)
(* trial in no list, and the cache fails once the search has converged.    *)
(*                                                                         *)
(* The section before the last is about what the layers do to a trial      *)
(* before clients can get it; the last about a client that is alone with   *)
(* PRO, whose requests do not end the session.                             *)
(***************************************************************************)
EXTENDS PoolProofs, PluginProofs

-----------------------------------------------------------------------------
(* An id above all those that PRO has used.                                *)
ProIds == [s \in ProState |-> s.next_id]

(* What PRO's state tells, at any time, of the pending trials' ids X.      *)
ProMemory(s, X) ==
  /\ \A x \in X : x < s.next_id
  /\ s.best.id < s.next_id /\ s.best.id \notin X

(* And while there is no restart: they are vertices that were sent and not *)
(* reported, and all of them are.                                          *)
ProRound(s, X) ==
  /\ ProMemory(s, X)
  /\ IsFiniteSet(X) /\ Cardinality(X) = s.send_idx - s.reported
  /\ s.reported < SimplexSize
  /\ \A x \in X : \E i \in Vertices : i < s.send_idx /\ s.test[i] = x
  /\ s.converged => X = {}

ProAnyTime   == {w \in ProState \X SUBSET Nat : ProMemory(w[1], w[2])}
ProOneSearch == {w \in ProState \X SUBSET Nat : ProRound(w[1], w[2])}

LEMMA ProPairs ==
  ASSUME NEW s \in ProState, NEW X \in SUBSET Nat
  PROVE  /\ <<s, X>> \in ProAnyTime <=> ProMemory(s, X)
         /\ <<s, X>> \in ProOneSearch <=> ProRound(s, X)
  BY DEF ProAnyTime, ProOneSearch

-----------------------------------------------------------------------------
(* What sending a vertex does to the fields of the state.                  *)
LEMMA ProSendIs ==
  ASSUME NEW s \in ProState, s.send_idx # SimplexSize, NEW o \in ProSend(s)
  PROVE  /\ o.status = "ACCEPT" /\ o.point.id = s.next_id /\ o.point.val \in Vals
         /\ o.next \in ProState
         /\ o.next.next_id = s.next_id + 1
         /\ o.next.send_idx = s.send_idx + 1
         /\ o.next.reported = s.reported
         /\ o.next.converged = s.converged
         /\ o.next.best = s.best
         /\ \A j \in Vertices :
              o.next.test[j] = IF j = s.send_idx THEN s.next_id ELSE s.test[j]
<1>1. o.next \in ProState
  BY ProSendType
<1>2. PICK v \in Vals :
        o = [next   |-> [s EXCEPT !.test[s.send_idx] = s.next_id,
                                  !.next_id = @ + 1, !.send_idx = @ + 1],
             status |-> "ACCEPT",
             point  |-> [id |-> s.next_id, val |-> v]]
  BY DEF ProSend
<1>3. o.status = "ACCEPT" /\ o.point.id = s.next_id /\ o.point.val \in Vals
  BY <1>2
<1>4. o.next = [s EXCEPT !.test[s.send_idx] = s.next_id, !.next_id = @ + 1, !.send_idx = @ + 1]
  BY <1>2
<1> DEFINE next == o.next
<1>5. /\ next.next_id = s.next_id + 1
      /\ next.send_idx = s.send_idx + 1
      /\ next.reported = s.reported
      /\ next.converged = s.converged
      /\ next.best = s.best
      /\ next.test = [s.test EXCEPT ![s.send_idx] = s.next_id]
  <2> HIDE DEF next
  <2>1. next = [s EXCEPT !.test[s.send_idx] = s.next_id, !.next_id = @ + 1, !.send_idx = @ + 1]
    BY <1>4 DEF next
  <2> QED BY <2>1 DEF ProState
<1>6. \A j \in Vertices : next.test[j] = IF j = s.send_idx THEN s.next_id ELSE s.test[j]
  BY <1>5 DEF ProState
<1> QED
  BY <1>1, <1>3, <1>5, <1>6

(* What counting a report does to them.                                    *)
LEMMA ProCountIs ==
  ASSUME NEW s \in ProState
  PROVE  /\ ProCount(s) # {}
         /\ \A n \in ProCount(s) :
              /\ n \in ProState
              /\ n.next_id = s.next_id /\ n.test = s.test /\ n.best = s.best
              /\ IF s.reported + 1 = SimplexSize
                   THEN n.reported = 0 /\ n.send_idx = 0
                   ELSE /\ n.reported = s.reported + 1 /\ n.send_idx = s.send_idx
                        /\ n.converged = s.converged
<1> DEFINE counted == [s EXCEPT !.reported = @ + 1]
           rounds  == IF counted.converged THEN counted.rounds ELSE counted.rounds + 1
<1>1. /\ counted.reported = s.reported + 1 /\ counted.next_id = s.next_id
      /\ counted.test = s.test /\ counted.best = s.best
      /\ counted.send_idx = s.send_idx /\ counted.converged = s.converged
      /\ counted \in ProState
  BY DEF ProState
<1>2. ProCount(s) = IF counted.reported = SimplexSize THEN ProAlgorithm(counted) ELSE {counted}
  BY DEF ProCount
<1>3. ProAlgorithm(counted)
        = {[counted EXCEPT !.converged = c, !.rounds = rounds, !.reported = 0, !.send_idx = 0]
             : c \in {d \in BOOLEAN : counted.converged \/ rounds >= MaxRounds => d}}
  BY DEF ProAlgorithm
<1> HIDE DEF counted, rounds
<1>4. ProAlgorithm(counted) # {}
  <2>1. TRUE \in {d \in BOOLEAN : counted.converged \/ rounds >= MaxRounds => d}
    OBVIOUS
  <2> QED BY <1>3, <2>1
<1>5. ASSUME NEW n \in ProAlgorithm(counted)
      PROVE  /\ n.next_id = counted.next_id /\ n.test = counted.test /\ n.best = counted.best
             /\ n.reported = 0 /\ n.send_idx = 0
  <2>1. PICK c \in BOOLEAN :
          n = [counted EXCEPT !.converged = c, !.rounds = rounds, !.reported = 0, !.send_idx = 0]
    BY <1>3, <1>5
  <2> QED BY <1>1, <2>1 DEF ProState
<1>6. \A n \in ProCount(s) : n \in ProState
  BY ProCountType
<1> QED
  BY <1>1, <1>2, <1>4, <1>5, <1>6

(* And what analyzing does.                                                *)
LEMMA ProAnalyzeIs ==
  ASSUME NEW s \in ProState, NEW t \in Trials
  PROVE  /\ ProAnalyze(s, t) # {}
         /\ \A a \in ProAnalyze(s, t) :
              \/ a = s /\ ProVertex(s, t.id) = {}
              \/ \E n \in ProCount(s) :
                   /\ a.next_id = n.next_id /\ a.test = n.test /\ a.send_idx = n.send_idx
                   /\ a.reported = n.reported /\ a.converged = n.converged
                   /\ a.best.id \in {n.best.id, t.id}
<1>1. CASE ProVertex(s, t.id) = {}
  BY <1>1 DEF ProAnalyze
<1>2. CASE ProVertex(s, t.id) # {}
  <2> DEFINE better == s.best_perf > t.perf
             kept(n) == [n EXCEPT !.best = IF better THEN [id |-> t.id, val |-> t.val] ELSE n.best,
                                  !.best_perf = IF better THEN t.perf ELSE n.best_perf]
  <2>1. ProAnalyze(s, t) = {kept(n) : n \in ProCount(s)}
    BY <1>2, Zenon DEF ProAnalyze
  <2>2. ASSUME NEW n \in ProState
        PROVE  /\ kept(n).next_id = n.next_id /\ kept(n).test = n.test
               /\ kept(n).send_idx = n.send_idx /\ kept(n).reported = n.reported
               /\ kept(n).converged = n.converged /\ kept(n).best.id \in {n.best.id, t.id}
    <3> HIDE DEF better
    <3> QED BY DEF ProState
  <2> HIDE DEF kept
  <2>3. ProCount(s) # {} /\ \A n \in ProCount(s) : n \in ProState
    BY ProCountIs
  <2> QED BY <2>1, <2>2, <2>3
<1> QED
  BY <1>1, <1>2

-----------------------------------------------------------------------------
(* New vertices get new ids, and PRO forgets only what is analyzed.        *)
LEMMA MemoryGrows ==
  ASSUME NEW s \in ProState, NEW X \in SUBSET Nat, ProMemory(s, X),
         s.send_idx # SimplexSize, NEW o \in ProSend(s)
  PROVE  ProMemory(o.next, X \cup {o.point.id})
<1>1. s.next_id \in Nat /\ s.best.id \in Int
  BY DEF ProState, Point
<1> QED
  BY <1>1, ProSendIs DEF ProMemory

LEMMA MemoryShrinks ==
  ASSUME NEW s \in ProState, NEW X \in SUBSET Nat, ProMemory(s, X),
         NEW t \in Trials, t.id \in X, NEW a \in ProAnalyze(s, t)
  PROVE  ProMemory(a, X \ {t.id}) /\ a.next_id = s.next_id
<1>1. CASE a = s
  BY <1>1 DEF ProMemory
<1>2. CASE a # s
  <2>1. PICK n \in ProCount(s) : a.next_id = n.next_id /\ a.best.id \in {n.best.id, t.id}
    BY <1>2, ProAnalyzeIs
  <2>2. n.next_id = s.next_id /\ n.best = s.best
    BY ProCountIs
  <2> QED BY <2>1, <2>2 DEF ProMemory
<1> QED
  BY <1>1, <1>2

(* While there are no restarts, PRO knows which vertices are out, and when *)
(* the last of them is reported none is left.                              *)
LEMMA RoundGrows ==
  ASSUME NEW s \in ProState, NEW X \in SUBSET Nat, ProRound(s, X),
         s.send_idx # SimplexSize, ~s.converged, NEW o \in ProSend(s)
  PROVE  ProRound(o.next, X \cup {o.point.id})
<1>1. /\ s.next_id \in Nat /\ s.send_idx \in 0 .. SimplexSize /\ s.reported \in Nat
      /\ SimplexSize \in Nat /\ s.send_idx \in Vertices /\ Vertices \subseteq Int
  BY ProAssumption DEF ProState, Vertices
<1>2. /\ o.point.id = s.next_id
      /\ o.next.send_idx = s.send_idx + 1 /\ o.next.reported = s.reported
      /\ o.next.converged = s.converged
      /\ \A j \in Vertices : o.next.test[j] = IF j = s.send_idx THEN s.next_id ELSE s.test[j]
  BY ProSendIs
<1>3. s.next_id \notin X
  BY <1>1 DEF ProRound, ProMemory
<1>4. /\ IsFiniteSet(X \cup {s.next_id})
      /\ Cardinality(X \cup {s.next_id}) = Cardinality(X) + 1
  BY <1>3, FS_AddElement DEF ProRound
<1>5. \A x \in X \cup {s.next_id} :
        \E i \in Vertices : i < o.next.send_idx /\ o.next.test[i] = x
  <2>1. s.send_idx < o.next.send_idx /\ o.next.test[s.send_idx] = s.next_id
    BY <1>1, <1>2
  <2>2. ASSUME NEW x \in X
        PROVE  \E i \in Vertices : i < o.next.send_idx /\ o.next.test[i] = x
    <3>1. PICK i \in Vertices : i < s.send_idx /\ s.test[i] = x
      BY DEF ProRound
    <3>2. i < o.next.send_idx /\ i # s.send_idx /\ o.next.test[i] = x
      BY <1>1, <1>2, <3>1
    <3> QED BY <3>2
  <2> QED BY <1>1, <2>1, <2>2
<1>6. ProMemory(o.next, X \cup {o.point.id})
  BY MemoryGrows DEF ProRound
<1>7. Cardinality(X \cup {s.next_id}) = o.next.send_idx - o.next.reported
  BY <1>1, <1>2, <1>4 DEF ProRound
<1> QED
  BY <1>2, <1>4, <1>5, <1>6, <1>7 DEF ProRound

LEMMA RoundShrinks ==
  ASSUME NEW s \in ProState, NEW X \in SUBSET Nat, ProRound(s, X),
         NEW t \in Trials, t.id \in X, NEW a \in ProAnalyze(s, t)
  PROVE  ProRound(a, X \ {t.id})
<1>1. ProMemory(a, X \ {t.id})
  BY MemoryShrinks DEF ProRound
<1>2. /\ IsFiniteSet(X \ {t.id}) /\ Cardinality(X \ {t.id}) = Cardinality(X) - 1
      /\ Cardinality(X \ {t.id}) \in Nat
  BY FS_RemoveElement, FS_CardinalityType DEF ProRound
<1>3. ProVertex(s, t.id) # {}
  BY DEF ProRound, ProVertex
<1>4. PICK n \in ProCount(s) :
        /\ a.test = n.test /\ a.send_idx = n.send_idx
        /\ a.reported = n.reported /\ a.converged = n.converged
  BY <1>3, ProAnalyzeIs
<1>5. /\ s.send_idx \in 0 .. SimplexSize /\ s.reported \in Nat /\ SimplexSize \in Nat \ {0}
      /\ ~s.converged
  BY ProAssumption DEF ProState, ProRound
<1>6. CASE s.reported + 1 = SimplexSize
  <2>1. a.reported = 0 /\ a.send_idx = 0
    BY <1>4, <1>6, ProCountIs
  <2>2. Cardinality(X \ {t.id}) = 0
    BY <1>2, <1>5, <1>6 DEF ProRound
  <2>3. X \ {t.id} = {}
    BY <1>2, <2>2, FS_EmptySet
  <2>4. Cardinality(X \ {t.id}) = a.send_idx - a.reported /\ a.reported < SimplexSize
    BY <1>5, <2>1, <2>2
  <2> QED BY <1>1, <1>2, <2>3, <2>4 DEF ProRound
<1>7. CASE s.reported + 1 # SimplexSize
  <2>1. /\ a.reported = s.reported + 1 /\ a.send_idx = s.send_idx /\ a.test = s.test
        /\ a.converged = s.converged
    BY <1>4, <1>7, ProCountIs
  <2>2. Cardinality(X \ {t.id}) = a.send_idx - a.reported /\ a.reported < SimplexSize
    BY <1>2, <1>5, <1>7, <2>1 DEF ProRound
  <2> QED BY <1>1, <1>2, <1>5, <2>1, <2>2 DEF ProRound
<1> QED
  BY <1>6, <1>7

-----------------------------------------------------------------------------
LEMMA ProInitIs ==
  UsesPro => /\ StrategyInit = {ProInit} /\ ProInit \in ProState
             /\ ProMemory(ProInit, {}) /\ ProRound(ProInit, {})
<1> SUFFICES ASSUME UsesPro
             PROVE  /\ StrategyInit = {ProInit} /\ ProInit \in ProState
                    /\ ProMemory(ProInit, {}) /\ ProRound(ProInit, {})
  OBVIOUS
<1>1. StrategyInit = {ProInit} /\ ProInit \in ProState
  BY ProKeepsContract DEF UsesPro, StrategyContract
<1>2. ProMemory(ProInit, {})
  BY DEF ProMemory, ProInit, HPOINT_INITIALIZER
<1>3. IsFiniteSet({}) /\ Cardinality({}) = 0
  BY FS_EmptySet
<1>4. ProRound(ProInit, {})
  BY <1>2, <1>3, ProAssumption DEF ProRound, ProInit
<1> QED
  BY <1>1, <1>2, <1>4

(* IssuesIds, for PRO.                                                     *)
Issues(G, s, X) ==
  /\ \A x \in X : x < s.next_id
  /\ s.best.id < s.next_id /\ s.best.id \notin X
  /\ \A o \in ProGenerate(s) :
       IF o.status = "WAIT"
         THEN Leads(ProIds, G, s, o.next, X)
         ELSE /\ s.next_id <= o.point.id /\ o.point.val \in Vals
              /\ Leads(ProIds, G, s, o.next, X \cup {o.point.id})
  /\ \A t \in Trials : t.id \in X =>
       /\ ProAnalyze(s, t) # {}
       /\ \A a \in ProAnalyze(s, t) : Leads(ProIds, G, s, a, X \ {t.id})
  /\ MaxRestarts > 0 => Leads(ProIds, G, s, ProRestart(s), X)

LEMMA ProIssues ==
  ASSUME UsesPro, NEW G, \A s \in StrategyInit : <<s, {}>> \in G,
         \A s \in ProState : \A X \in SUBSET Nat : <<s, X>> \in G => Issues(G, s, X)
  PROVE  IssuesIds(ProState, ProIds, G)
<1>1. ProIds \in [ProState -> Nat] /\ \A s \in ProState : ProIds[s] = s.next_id
  BY DEF ProIds, ProState
<1> SUFFICES ASSUME NEW s \in ProState, NEW X \in SUBSET Nat, <<s, X>> \in G
             PROVE  /\ \A x \in X : x < ProIds[s]
                    /\ StrategyBest(s).id < ProIds[s] /\ StrategyBest(s).id \notin X
                    /\ \A o \in StrategyGenerate(s) :
                         IF o.status = "WAIT"
                           THEN Leads(ProIds, G, s, o.next, X)
                           ELSE /\ ProIds[s] <= o.point.id /\ o.point.val \in Vals
                                /\ Leads(ProIds, G, s, o.next, X \cup {o.point.id})
                    /\ \A t \in Trials : t.id \in X =>
                         /\ StrategyAnalyze(s, t) # {}
                         /\ \A next \in StrategyAnalyze(s, t) :
                              Leads(ProIds, G, s, next, X \ {t.id})
                    /\ MaxRestarts > 0 => Leads(ProIds, G, s, StrategyRestart(s), X)
  BY <1>1 DEF IssuesIds
<1>2. Issues(G, s, X)
  OBVIOUS
<1>3. /\ StrategyGenerate(s) = ProGenerate(s)
      /\ StrategyBest(s) = s.best /\ StrategyRestart(s) = ProRestart(s)
      /\ \A t : StrategyAnalyze(s, t) = ProAnalyze(s, t)
      /\ ProIds[s] = s.next_id
  BY <1>1 DEF UsesPro, ProBest
<1> QED
  BY <1>2, <1>3 DEF Issues

(* PRO issues ids as the session expects, whatever restarts there are.     *)
LEMMA ProIssuesAnyTime ==
  ASSUME UsesPro
  PROVE  IssuesIds(ProState, ProIds, ProAnyTime)
<1>1. ProIds \in [ProState -> Nat] /\ \A s \in ProState : ProIds[s] = s.next_id
  BY DEF ProIds, ProState
<1>2. \A s \in StrategyInit : <<s, {}>> \in ProAnyTime
  BY ProInitIs, ProPairs
<1> SUFFICES ASSUME NEW s \in ProState, NEW X \in SUBSET Nat, ProMemory(s, X)
             PROVE  Issues(ProAnyTime, s, X)
  BY <1>2, ProIssues, ProPairs
<1>3. s.next_id \in Nat
  BY DEF ProState
<1>4. ASSUME NEW next \in ProState, NEW Y \in SUBSET Nat, ProMemory(next, Y),
             s.next_id <= next.next_id
      PROVE  Leads(ProIds, ProAnyTime, s, next, Y)
  BY <1>1, <1>4, ProPairs DEF Leads
<1>5. ASSUME NEW o \in ProGenerate(s)
      PROVE  IF o.status = "WAIT"
               THEN Leads(ProIds, ProAnyTime, s, o.next, X)
               ELSE /\ s.next_id <= o.point.id /\ o.point.val \in Vals
                    /\ Leads(ProIds, ProAnyTime, s, o.next, X \cup {o.point.id})
  <2>1. CASE s.send_idx = SimplexSize \/ s.converged
    <3>1. o.status = "WAIT" /\ o.next = s
      BY <1>5, <2>1 DEF ProGenerate
    <3> QED BY <1>3, <1>4, <3>1
  <2>2. CASE ~(s.send_idx = SimplexSize \/ s.converged)
    <3>1. o \in ProSend(s)
      BY <1>5, <2>2 DEF ProGenerate
    <3>2. /\ o.status = "ACCEPT" /\ o.point.id = s.next_id /\ o.point.val \in Vals
          /\ o.next \in ProState /\ o.next.next_id = s.next_id + 1
      BY <2>2, <3>1, ProSendIs
    <3>3. ProMemory(o.next, X \cup {o.point.id}) /\ X \cup {o.point.id} \in SUBSET Nat
      BY <1>3, <2>2, <3>1, <3>2, MemoryGrows
    <3> QED BY <1>3, <1>4, <3>2, <3>3
  <2> QED BY <2>1, <2>2
<1>6. ASSUME NEW t \in Trials, t.id \in X
      PROVE  /\ ProAnalyze(s, t) # {}
             /\ \A a \in ProAnalyze(s, t) : Leads(ProIds, ProAnyTime, s, a, X \ {t.id})
  <2>1. ASSUME NEW a \in ProAnalyze(s, t) PROVE Leads(ProIds, ProAnyTime, s, a, X \ {t.id})
    <3>1. a \in ProState
      BY <2>1, ProKeepsContract DEF UsesPro, StrategyContract
    <3> QED BY <1>3, <1>4, <1>6, <2>1, <3>1, MemoryShrinks
  <2> QED BY <2>1, ProAnalyzeIs
<1>7. Leads(ProIds, ProAnyTime, s, ProRestart(s), X)
  <2>1. ProRestart(s) \in ProState
    BY ProKeepsContract DEF UsesPro, StrategyContract
  <2>2. ProRestart(s).next_id = s.next_id /\ ProRestart(s).best = s.best
    BY DEF ProRestart, ProInit
  <2> QED BY <1>3, <1>4, <2>1, <2>2 DEF ProMemory
<1> QED
  BY <1>5, <1>6, <1>7 DEF ProMemory, Issues

(* And without restarts it knows all that is out.                          *)
LEMMA ProIssuesOneSearch ==
  ASSUME UsesPro, MaxRestarts = 0
  PROVE  /\ IssuesIds(ProState, ProIds, ProOneSearch)
         /\ WaitsForTrials(ProState, ProOneSearch)
         /\ EndsEmpty(ProState, ProOneSearch)
<1>1. ProIds \in [ProState -> Nat] /\ \A s \in ProState : ProIds[s] = s.next_id
  BY DEF ProIds, ProState
<1>2. \A s \in StrategyInit : <<s, {}>> \in ProOneSearch
  BY ProInitIs, ProPairs
<1>3. \A s \in ProState : s.next_id \in Nat
  BY DEF ProState
<1>4. ASSUME NEW s \in ProState, NEW next \in ProState, NEW Y \in SUBSET Nat,
             ProRound(next, Y), s.next_id <= next.next_id
      PROVE  Leads(ProIds, ProOneSearch, s, next, Y)
  BY <1>1, <1>4, ProPairs DEF Leads
<1>5. ASSUME NEW s \in ProState, NEW X \in SUBSET Nat, ProRound(s, X), NEW o \in ProGenerate(s)
      PROVE  IF o.status = "WAIT"
               THEN /\ Leads(ProIds, ProOneSearch, s, o.next, X)
                    /\ X # {} \/ o.next.converged
               ELSE /\ s.next_id <= o.point.id /\ o.point.val \in Vals
                    /\ Leads(ProIds, ProOneSearch, s, o.next, X \cup {o.point.id})
  <2>1. CASE s.send_idx = SimplexSize \/ s.converged
    <3>1. o.status = "WAIT" /\ o.next = s
      BY <1>5, <2>1 DEF ProGenerate
    <3>2. ASSUME ~s.converged PROVE X # {}
      <4>1. s.reported \in Nat /\ SimplexSize \in Nat
        BY ProAssumption DEF ProState
      <4>2. Cardinality(X) # 0
        BY <2>1, <3>2, <4>1, <1>5 DEF ProRound
      <4> QED BY <4>2, FS_EmptySet
    <3> QED BY <1>3, <1>4, <1>5, <3>1, <3>2
  <2>2. CASE ~(s.send_idx = SimplexSize \/ s.converged)
    <3>1. o \in ProSend(s)
      BY <1>5, <2>2 DEF ProGenerate
    <3>2. /\ o.status = "ACCEPT" /\ o.point.id = s.next_id /\ o.point.val \in Vals
          /\ o.next \in ProState /\ o.next.next_id = s.next_id + 1
      BY <2>2, <3>1, ProSendIs
    <3>3. ProRound(o.next, X \cup {o.point.id}) /\ X \cup {o.point.id} \in SUBSET Nat
      BY <1>3, <1>5, <2>2, <3>1, <3>2, RoundGrows
    <3> QED BY <1>3, <1>4, <3>2, <3>3
  <2> QED BY <2>1, <2>2
<1>6. ASSUME NEW s \in ProState, NEW X \in SUBSET Nat, ProRound(s, X),
             NEW t \in Trials, t.id \in X
      PROVE  /\ ProAnalyze(s, t) # {}
             /\ \A a \in ProAnalyze(s, t) : Leads(ProIds, ProOneSearch, s, a, X \ {t.id})
  <2>1. ASSUME NEW a \in ProAnalyze(s, t) PROVE Leads(ProIds, ProOneSearch, s, a, X \ {t.id})
    <3>1. a \in ProState
      BY <2>1, ProKeepsContract DEF UsesPro, StrategyContract
    <3>2. ProRound(a, X \ {t.id})
      BY <1>6, <2>1, RoundShrinks
    <3>3. a.next_id = s.next_id
      BY <1>6, <2>1, MemoryShrinks DEF ProRound
    <3> QED BY <1>3, <1>4, <3>1, <3>2, <3>3
  <2> QED BY <2>1, ProAnalyzeIs
<1>7. IssuesIds(ProState, ProIds, ProOneSearch)
  <2> SUFFICES ASSUME NEW s \in ProState, NEW X \in SUBSET Nat, ProRound(s, X)
               PROVE  Issues(ProOneSearch, s, X)
    BY <1>2, ProIssues, ProPairs
  <2>1. /\ \A x \in X : x < s.next_id
        /\ s.best.id < s.next_id /\ s.best.id \notin X
    BY DEF ProRound, ProMemory
  <2>2. \A o \in ProGenerate(s) :
          IF o.status = "WAIT"
            THEN Leads(ProIds, ProOneSearch, s, o.next, X)
            ELSE /\ s.next_id <= o.point.id /\ o.point.val \in Vals
                 /\ Leads(ProIds, ProOneSearch, s, o.next, X \cup {o.point.id})
    BY <1>5
  <2> QED BY <1>6, <2>1, <2>2 DEF Issues
<1>8. WaitsForTrials(ProState, ProOneSearch)
  BY <1>5, ProPairs DEF WaitsForTrials, UsesPro, ProConverged
<1>9. EndsEmpty(ProState, ProOneSearch)
  BY ProPairs DEF EndsEmpty, UsesPro, ProConverged, ProRound
<1> QED
  BY <1>7, <1>8, <1>9

(* A rejected vertex is drawn again, or becomes what the hint says.        *)
LEMMA ProReplaces ==
  ASSUME UsesPro, RejectType = "RANDOM"
  PROVE  ReplacesRejected(ProState, ProIds, ProOneSearch)
<1> SUFFICES ASSUME NEW s \in ProState, NEW X \in SUBSET Nat, <<s, X>> \in ProOneSearch,
                    NEW p \in Point, NEW h \in Hints, p.id \in X,
                    NEW o \in StrategyRejected(s, p, h)
             PROVE  /\ o.status = "ACCEPT"
                    /\ o.point.id = p.id
                    /\ o.point.val \in Vals
                    /\ Leads(ProIds, ProOneSearch, s, o.next, (X \ {p.id}) \cup {o.point.id})
  BY DEF ReplacesRejected
<1>0. o \in ProRejected(s, p, h)
  BY DEF UsesPro
<1>1. ProVertex(s, p.id) # {}
  BY ProPairs DEF ProRound, ProVertex
<1>2. o.status = "ACCEPT" /\ o.next = s /\ o.point.id = p.id /\ o.point.val \in Vals
  <2>1. CASE h.id # -1
    <3> DEFINE q == [h EXCEPT !.id = p.id]
    <3>1. o = [next |-> s, status |-> "ACCEPT", point |-> q]
      BY <1>0, <1>1, <2>1 DEF ProRejected
    <3>2. q.id = p.id /\ q.val = h.val /\ h.val \in Vals
      BY <2>1 DEF Hints, Point
    <3> HIDE DEF q
    <3> QED BY <3>1, <3>2
  <2>2. CASE h.id = -1
    <3>1. ProRejected(s, p, h)
            = {[next |-> s, status |-> "ACCEPT", point |-> [id |-> p.id, val |-> v]] : v \in Vals}
      BY <1>1, <2>2 DEF ProRejected
    <3> QED BY <1>0, <3>1
  <2> QED BY <2>1, <2>2
<1>3. ProIds[s] = s.next_id /\ s.next_id \in Nat
  BY DEF ProIds, ProState
<1>4. (X \ {p.id}) \cup {o.point.id} = X
  BY <1>2
<1> QED
  BY <1>2, <1>3, <1>4 DEF Leads

-----------------------------------------------------------------------------
LEMMA HintsHas == HPOINT_INITIALIZER \in Hints
  BY InitialType DEF Hints, HPOINT_INITIALIZER

LEMMA VerdictFields ==
  ASSUME NEW s, NEW status, NEW perf
  PROVE  /\ Verdict(s, status, perf).status = status
         /\ Verdict(s, status, perf).hint \in Hints
  BY HintsHas DEF Verdict

(* What the layers answer: only a constraint rejects, and only the cache   *)
(* fails, once the search has converged.                                   *)
LEMMA StackAnswers ==
  ASSUME UsesStack, NEW k \in 1 .. LstackLen, NEW s
  PROVE  /\ \A t : \A b \in BOOLEAN : \A o \in StackGenerate(k, s, t, b) :
              /\ o.hint \in Hints
              /\ o.status = "REJECT" => Stack[k] = "constraint"
              /\ o.status = "ERROR" => Stack[k] = "cache" /\ b
         /\ \A t : \A o \in StackAnalyze(k, s, t) : o.status \notin {"REJECT", "ERROR"}
         /\ \A t : \A o \in StackCallback(k, s, t) : o.hint \in Hints /\ o.status # "REJECT"
<1>1. Stack[k] \in {"agg", "constraint", "codegen", "cache"}
  BY LayersAssumption DEF UsesStack, StackLen
<1>2. ASSUME NEW t, NEW b \in BOOLEAN, NEW o \in StackGenerate(k, s, t, b)
      PROVE  /\ o.hint \in Hints
             /\ o.status = "REJECT" => Stack[k] = "constraint"
             /\ o.status = "ERROR" => Stack[k] = "cache" /\ b
  <2>1. CASE Stack[k] = "agg"
    <3>1. o = Verdict(s, "ACCEPT", t.perf)
      BY <1>2, <2>1 DEF StackGenerate
    <3> QED BY <3>1, VerdictFields
  <2>2. CASE Stack[k] = "constraint"
    <3>1. o = Verdict(s, "ACCEPT", t.perf) \/ o = Verdict(s, "REJECT", t.perf)
      BY <1>2, <2>2 DEF StackGenerate, ConstraintGenerate
    <3> QED BY <2>2, <3>1, VerdictFields
  <2>3. CASE Stack[k] = "codegen"
    <3>1. o \in CodegenGenerate(s, t)
      BY <1>2, <2>3 DEF StackGenerate
    <3>2. \E next : o = Verdict(next, "ACCEPT", t.perf) \/ o = Verdict(next, "WAIT", t.perf)
      BY <3>1 DEF CodegenGenerate
    <3> QED BY <3>2, VerdictFields
  <2>4. CASE Stack[k] = "cache"
    <3>1. o \in CacheGenerate(s, t, b)
      BY <1>2, <2>4 DEF StackGenerate
    <3>2. CASE b
      <4>1. o = Verdict(s, "ERROR", t.perf)
        BY <3>1, <3>2 DEF CacheGenerate
      <4> QED BY <2>4, <3>2, <4>1, VerdictFields
    <3>3. CASE ~b /\ Len(s.perfs[t.val]) = 0
      <4>1. o = Verdict(s, "ACCEPT", t.perf)
        BY <3>1, <3>3 DEF CacheGenerate
      <4> QED BY <4>1, VerdictFields
    <3>4. CASE ~b /\ Len(s.perfs[t.val]) # 0
      <4> DEFINE v       == t.val
                 known   == Len(s.perfs[v])
                 wrapped == IF s.total[v] > 0 /\ s.count[v] > s.total[v]
                              THEN (s.count[v] % s.total[v]) + 1 ELSE s.count[v]
                 over    == wrapped > known
                 nth     == IF over THEN wrapped % known ELSE wrapped
                 total   == IF over THEN known ELSE s.total[v]
                 next    == [s EXCEPT !.skip = TRUE, !.count[v] = nth, !.total[v] = total]
                 perf    == s.perfs[v][IF nth = 0 THEN 1 ELSE nth]
      <4>1. o = Verdict(next, "RETURN", perf)
        BY <3>1, <3>4 DEF CacheGenerate
      <4> HIDE DEF next, perf
      <4> QED BY <4>1, VerdictFields
    <3> QED BY <3>2, <3>3, <3>4
  <2> QED BY <1>1, <2>1, <2>2, <2>3, <2>4
<1>3. ASSUME NEW t, NEW o \in StackAnalyze(k, s, t) PROVE o.status \notin {"REJECT", "ERROR"}
  <2>1. \E next, perf : o = Verdict(next, "ACCEPT", perf) \/ o = Verdict(next, "RETRY", perf)
    BY <1>1, <1>3 DEF StackAnalyze, AggAnalyze, CacheAnalyze
  <2> QED BY <2>1, VerdictFields
<1>4. ASSUME NEW t, NEW o \in StackCallback(k, s, t) PROVE o.hint \in Hints /\ o.status # "REJECT"
  <2>1. Stack[k] = "codegen"
    BY <1>4 DEF StackCallback
  <2>2. o.status = "ACCEPT" /\ o.hint = HPOINT_INITIALIZER
    BY <1>4, <2>1 DEF StackCallback, CodegenCallback
  <2> QED BY <2>2, HintsHas
<1> QED
  BY <1>2, <1>3, <1>4

(* Every stack fails at most once the search has converged.                *)
LEMMA StackFailsLate ==
  ASSUME UsesStack
  PROVE  NeverFail(StackStates, FALSE)
  BY StackAnswers DEF NeverFail, UsesStack

(* Layers that take every point and do not fail.                           *)
PlainStack == \A k \in 1 .. Len(Stack) : Stack[k] \in {"agg", "codegen"}

LEMMA PlainStackAccepts ==
  ASSUME UsesStack, PlainStack
  PROVE  NeverFail(StackStates, TRUE) /\ NeverReject(StackStates)
<1>1. \A k \in 1 .. LstackLen : Stack[k] # "constraint" /\ Stack[k] # "cache"
  BY DEF PlainStack, UsesStack, StackLen
<1>2. NeverFail(StackStates, TRUE)
  BY <1>1, StackAnswers DEF NeverFail, UsesStack
<1>3. NeverReject(StackStates)
  BY <1>1, StackAnswers DEF NeverReject, UsesStack
<1> QED
  BY <1>2, <1>3, Zenon

-----------------------------------------------------------------------------
(* One search: any layers, with the method that draws a rejected point     *)
(* again.                                                                  *)
OneSearch == RejectType = "RANDOM" /\ MaxRestarts = 0

LEMMA OneSearchContract ==
  ASSUME UsesPro, UsesStack, OneSearch
  PROVE  TrialContract(ProState, StackStates, ProIds, ProOneSearch)
  BY ProKeepsContract, StackKeepsContract, ProIssuesOneSearch, ProReplaces, StackFailsLate
     DEF TrialContract, OneSearch

LEMMA PlainContract ==
  ASSUME UsesPro, UsesStack, PlainStack
  PROVE  TrialContract(ProState, StackStates, ProIds, ProAnyTime)
  BY ProKeepsContract, StackKeepsContract, ProIssuesAnyTime, PlainStackAccepts, Zenon
     DEF TrialContract

(* The trials of a session with PRO are accounted for, their ids differ,   *)
(* and each report is about the trial its sender was handed: with every    *)
(* stack of layers in one search, and through restarts when the layers     *)
(* take every point.                                                       *)
THEOREM ProTrialsCorrect ==
  ASSUME UsesPro, UsesStack, OneSearch \/ PlainStack, NoGrowth
  PROVE  Spec => []TrialsAccounted /\ []PendingCounted /\ []IdsUnique /\ []ReportsOwnTrial
<1>1. PICK N, G : TrialContract(ProState, StackStates, N, G)
  BY OneSearchContract, PlainContract
<1>2. /\ Spec => []TrialsAccounted
      /\ Spec => []PendingCounted
      /\ Spec => []IdsUnique
      /\ Spec => []ReportsOwnTrial
  BY <1>1, TrialsCorrect, CountCorrect, IdsCorrect, ReportsCorrect
<1> QED
  BY <1>2

(* And in one search the session never sleeps with nothing to wake it.     *)
THEOREM ProPauseCorrect ==
  ASSUME UsesPro, UsesStack, OneSearch, NoGrowth
  PROVE  Spec => []PauseHasWaker
  BY OneSearchContract, ProIssuesOneSearch, PauseCorrect DEF OneSearch

(* A session with PRO implements TrialPool.                                *)
THEOREM ProPoolCorrect ==
  ASSUME UsesPro, UsesStack, OneSearch \/ PlainStack, NoGrowth, Nat \subseteq PoolIds
  PROVE  Spec => PoolSpec
<1>1. PICK N, G : TrialContract(ProState, StackStates, N, G)
  BY OneSearchContract, PlainContract
<1> QED
  BY <1>1, PoolCorrect

-----------------------------------------------------------------------------
(***************************************************************************)
(* What clients can fetch is prepared.  QueuedIsPrepared does not say why  *)
(* a trial on its way has what it needs; its inductive form does: a trial  *)
(* at a layer satisfies the layers below it, whichever way it goes, and a  *)
(* code server's answer is about the trial that waits for it.              *)
(***************************************************************************)

(* Layer k, in state s, has no objection to values v.                      *)
Passes(k, s, v) ==
  /\ Stack[k] = "constraint" => v \in ValidVals
  /\ Stack[k] = "codegen" => s.log[v] = "COMPLETE"

(* And neither has any of the first n layers.                              *)
AllPass(states, v, n) == \A k \in 1 .. LstackLen : k <= n => Passes(k, states[k], v)

Prepared(i, n) == AllPass(lstate, pending[i].val, n)

(* How many layers a trial at this layer has certainly passed.             *)
Behind(layer) == IF layer > 0 THEN layer - 1 ELSE -layer - 1

QueuedPrepared == \A i \in Queued \cup Held : Prepared(i, LstackLen)

FlowPrepared == at = "workflow" => Prepared(trial_idx, Behind(curr_layer))

(* Trials wait for code only.                                              *)
WaitingPrepared ==
  \A w \in waiting : w[1] > 0 /\ Stack[w[1]] = "codegen" /\ Prepared(w[2], Behind(w[1]))

(* A request to the code server is for a trial that still waits for it,    *)
(* and no trial asks twice.                                                *)
Members(q) == {q[n] : n \in 1 .. Len(q)}

NoTwice(q) == \A m, n \in 1 .. Len(q) : q[m] = q[n] => m = n

RequestsWait ==
  \A k \in 1 .. LstackLen : Stack[k] = "codegen" =>
    /\ NoTwice(lstate[k].server)
    /\ \A r \in Members(lstate[k].server) :
         \E i \in Slots : <<k, i>> \in waiting /\ PointOf(pending[i]) = r

PrepInv == QueuedPrepared /\ FlowPrepared /\ WaitingPrepared /\ RequestsWait

(* What a new request does to the list of them, and what an answer does.   *)
LEMMA AskedMore ==
  ASSUME NEW T, NEW q \in Seq(T), NEW p \in T
  PROVE  /\ \A r \in Members(Append(q, p)) : r \in Members(q) \/ r = p
         /\ NoTwice(q) /\ p \notin Members(q) => NoTwice(Append(q, p))
<1> DEFINE a == Append(q, p)
<1>1. /\ Len(q) \in Nat /\ Len(a) = Len(q) + 1 /\ a[Len(q) + 1] = p
      /\ \A n \in 1 .. Len(q) : a[n] = q[n]
  OBVIOUS
<1> HIDE DEF a
<1>2. \A n \in 1 .. Len(a) : n \in 1 .. Len(q) \/ n = Len(q) + 1
  BY <1>1
<1>3. ASSUME NEW r \in Members(a) PROVE r \in Members(q) \/ r = p
  BY <1>1, <1>2 DEF Members
<1>4. ASSUME NoTwice(q), p \notin Members(q) PROVE NoTwice(a)
  <2> SUFFICES ASSUME NEW m \in 1 .. Len(a), NEW n \in 1 .. Len(a), a[m] = a[n]
               PROVE  m = n
    BY DEF NoTwice
  <2>1. \A j \in 1 .. Len(q) : a[j] # p
    BY <1>1, <1>4 DEF Members
  <2>2. CASE m \in 1 .. Len(q) /\ n \in 1 .. Len(q)
    BY <1>1, <1>4, <2>2 DEF NoTwice
  <2>3. CASE ~(m \in 1 .. Len(q) /\ n \in 1 .. Len(q))
    BY <1>1, <1>2, <2>1, <2>3
  <2> QED BY <2>2, <2>3
<1> QED
  BY <1>3, <1>4 DEF a

LEMMA AskedLess ==
  ASSUME NEW T, NEW q \in Seq(T), q # <<>>
  PROVE  /\ Head(q) \in Members(q)
         /\ Members(Tail(q)) \subseteq Members(q)
         /\ NoTwice(q) => NoTwice(Tail(q)) /\ Head(q) \notin Members(Tail(q))
<1> DEFINE b == Tail(q)
<1>1. /\ Len(q) \in Nat \ {0} /\ Len(b) = Len(q) - 1 /\ Head(q) = q[1]
      /\ \A n \in 1 .. Len(b) : b[n] = q[n + 1]
  OBVIOUS
<1> HIDE DEF b
<1>2. 1 \in 1 .. Len(q) /\ \A n \in 1 .. Len(b) : n + 1 \in 1 .. Len(q) /\ n + 1 # 1
  BY <1>1
<1>3. Head(q) \in Members(q) /\ Members(b) \subseteq Members(q)
  BY <1>1, <1>2 DEF Members
<1>4. ASSUME NoTwice(q) PROVE NoTwice(b) /\ Head(q) \notin Members(b)
  <2>1. ASSUME NEW m \in 1 .. Len(b), NEW n \in 1 .. Len(b), b[m] = b[n] PROVE m = n
    <3>1. m + 1 = n + 1
      BY <1>1, <1>2, <1>4, <2>1 DEF NoTwice
    <3> QED BY <1>1, <3>1
  <2>2. ASSUME NEW n \in 1 .. Len(b) PROVE b[n] # Head(q)
    BY <1>1, <1>2, <1>4 DEF NoTwice
  <2> QED BY <2>1, <2>2 DEF NoTwice, Members
<1> QED
  BY <1>3, <1>4 DEF b

(* Code that was generated stays generated.                                *)
CodeStays ==
  \A k \in 1 .. LstackLen : Stack[k] = "codegen" =>
    \A v \in Vals : lstate[k].log[v] = "COMPLETE" => lstate'[k].log[v] = "COMPLETE"

LEMMA PassStays ==
  ASSUME CodeStays, NEW v \in Vals, NEW n, AllPass(lstate, v, n)
  PROVE  AllPass(lstate', v, n)
  BY DEF CodeStays, AllPass, Passes

(* The verdicts of the layers.                                             *)
LEMMA GenerateVerdict ==
  ASSUME UsesStack, NEW k \in 1 .. LstackLen, NEW s \in StackStates[k],
         NEW t \in Trials, t.val \in Vals, NEW b \in BOOLEAN, NEW o \in StackGenerate(k, s, t, b)
  PROVE  /\ o.status = "ACCEPT" /\ Stack[k] = "constraint" => t.val \in ValidVals
         /\ o.status = "WAIT" => Stack[k] = "codegen"
         /\ Stack[k] = "codegen" =>
              /\ o.status = "ACCEPT" => o.next.log[t.val] = "COMPLETE"
              /\ \A v \in Vals : s.log[v] = "COMPLETE" => o.next.log[v] = "COMPLETE"
              /\ \/ o.next.server = s.server
                 \/ o.status = "WAIT" /\ o.next.server = Append(s.server, PointOf(t))
<1>1. Stack[k] \in {"agg", "constraint", "codegen", "cache"}
  BY LayersAssumption DEF UsesStack, StackLen
<1>2. CASE Stack[k] = "agg"
  <2>1. o = Verdict(s, "ACCEPT", t.perf)
    BY <1>2 DEF StackGenerate
  <2> QED BY <1>2, <2>1 DEF Verdict
<1>3. CASE Stack[k] = "constraint"
  <2>1. o = Verdict(s, IF t.val \in ValidVals THEN "ACCEPT" ELSE "REJECT", t.perf)
    BY <1>3 DEF StackGenerate, ConstraintGenerate
  <2> QED BY <1>3, <2>1 DEF Verdict
<1>4. CASE Stack[k] = "codegen"
  <2>1. s \in CodegenStates /\ o \in CodegenGenerate(s, t)
    BY <1>4 DEF StackGenerate, StackStates
  <2>2. CASE s.log[t.val] = "COMPLETE"
    <3>1. o = Verdict(s, "ACCEPT", t.perf)
      BY <2>1, <2>2 DEF CodegenGenerate
    <3> QED BY <1>4, <2>2, <3>1 DEF Verdict
  <2>3. CASE s.log[t.val] = "REQUESTED"
    <3>1. o = Verdict(s, "WAIT", t.perf)
      BY <2>1, <2>3 DEF CodegenGenerate
    <3> QED BY <1>4, <3>1 DEF Verdict
  <2>4. CASE s.log[t.val] # "COMPLETE" /\ s.log[t.val] # "REQUESTED"
    <3> DEFINE asked == [log    |-> [s.log EXCEPT ![t.val] = "REQUESTED"],
                         server |-> Append(s.server, [id |-> t.id, val |-> t.val])]
    <3>1. o = Verdict(asked, "WAIT", t.perf)
      BY <2>1, <2>4 DEF CodegenGenerate
    <3>2. s.log \in [Vals -> {"NONE", "REQUESTED", "COMPLETE"}]
      BY <2>1 DEF CodegenStates
    <3>3. \A v \in Vals : s.log[v] = "COMPLETE" => asked.log[v] = "COMPLETE"
      BY <2>4, <3>2
    <3>4. asked.server = Append(s.server, PointOf(t))
      BY DEF PointOf
    <3> HIDE DEF asked
    <3>5. o.next = asked /\ o.status = "WAIT"
      BY <3>1 DEF Verdict
    <3> QED BY <1>4, <3>3, <3>4, <3>5
  <2> QED BY <2>2, <2>3, <2>4
<1>5. CASE Stack[k] = "cache"
  <2>1. o \in CacheGenerate(s, t, b)
    BY <1>5 DEF StackGenerate
  <2>2. \E next, perf : \/ o = Verdict(next, "ERROR", perf)
                        \/ o = Verdict(next, "ACCEPT", perf)
                        \/ o = Verdict(next, "RETURN", perf)
    BY <2>1 DEF CacheGenerate
  <2> QED BY <1>5, <2>2 DEF Verdict
<1> QED
  BY <1>1, <1>2, <1>3, <1>4, <1>5

LEMMA AnalyzeVerdict ==
  ASSUME UsesStack, NEW k \in 1 .. LstackLen, NEW s, NEW t, NEW o \in StackAnalyze(k, s, t)
  PROVE  /\ o.status \in {"ACCEPT", "RETRY"}
         /\ Stack[k] = "codegen" => o.next = s
<1>1. CASE Stack[k] = "codegen"
  <2>1. o = Verdict(s, "ACCEPT", t.perf)
    BY <1>1 DEF StackAnalyze
  <2> QED BY <2>1 DEF Verdict
<1>2. CASE Stack[k] # "codegen"
  <2>1. \E next, perf : o = Verdict(next, "ACCEPT", perf) \/ o = Verdict(next, "RETRY", perf)
    BY <1>2 DEF StackAnalyze, AggAnalyze, CacheAnalyze
  <2> QED BY <1>2, <2>1 DEF Verdict
<1> QED
  BY <1>1, <1>2

(* Where a transition takes a trial: it stays the same one except on a     *)
(* rejection, after which it starts again from the first layer.            *)
LEMMA TransitionTo ==
  ASSUME NEW S, StrategyContract(S), strat \in S, NEW idx, PointOf(pending[idx]) \in Point,
         NEW layer \in Int, NEW o, o.hint \in Point, NEW t \in workflow_transition(idx, layer, o)
  PROVE  /\ o.status = "ACCEPT" =>
              t.ret = 0 /\ t.layer = layer + 1 /\ t.point = PointOf(pending[idx])
         /\ o.status \in {"RETURN", "RETRY"} =>
              t.ret = 0 /\ t.layer = -layer /\ t.point = PointOf(pending[idx])
         /\ o.status = "REJECT" => t.ret # 0 \/ t.layer = 1
<1> DEFINE stay == [ret |-> 0, layer |-> layer, strat |-> strat, waiting |-> waiting,
                    point |-> PointOf(pending[idx]), pollstate |-> pollstate]
<1>1. CASE o.status = "ACCEPT"
  <2>1. t = [stay EXCEPT !.layer = layer + 1]
    BY <1>1 DEF workflow_transition
  <2> QED BY <1>1, <2>1
<1>2. CASE o.status \in {"RETURN", "RETRY"}
  <2>1. t = [stay EXCEPT !.layer = -layer]
    BY <1>2 DEF workflow_transition
  <2> QED BY <1>2, <2>1
<1>3. CASE o.status = "REJECT"
  <2>1. t \in handle_reject(idx, layer, o.hint, stay)
    BY <1>3 DEF workflow_transition
  <2>2. CASE layer < 0
    <3>1. t = [stay EXCEPT !.ret = -1]
      BY <2>1, <2>2 DEF handle_reject
    <3> QED BY <1>3, <3>1
  <2>3. CASE ~(layer < 0)
    <3>1. PICK r \in StrategyRejected(strat, PointOf(pending[idx]), o.hint) :
            /\ t.ret = CASE r.status = "ERROR" -> -1 [] r.status = "WAIT" -> 1 [] OTHER -> 0
            /\ t.layer = IF r.status = "ACCEPT" THEN 1 ELSE layer
      BY <2>1, <2>3 DEF handle_reject
    <3>2. r.status \in {"ACCEPT", "WAIT", "ERROR"}
      BY DEF StrategyContract
    <3> QED BY <1>3, <3>1, <3>2
  <2> QED BY <2>2, <2>3
<1> QED
  BY <1>1, <1>2, <1>3

(* What the lemmas below use: a trial in a queue, held or waiting is not   *)
(* the one in the workflow, and has values.                                *)
LEMMA PrepFacts ==
  ASSUME NEW S, NEW N, NEW G, TrialContract(S, StackStates, N, G),
         TrialInv(S, StackStates, N, G), PrepInv
  PROVE  /\ \A i \in Queued \cup Held \cup Waiting :
              i \in Occupied /\ i \in Slots /\ pending[i].val \in Vals /\ i \notin InFlow
         /\ \A i \in Queued \cup Held : AllPass(lstate, pending[i].val, LstackLen)
         /\ \A w \in waiting : /\ w[2] \in Waiting /\ w[1] > 0 /\ Stack[w[1]] = "codegen"
                               /\ AllPass(lstate, pending[w[2]].val, Behind(w[1]))
<1>1. /\ Queued \cup Held \cup Waiting \subseteq Occupied
      /\ Queued \cap InFlow = {} /\ Held \cap InFlow = {} /\ Waiting \cap InFlow = {}
  BY DEF TrialInv, TrialsAccounted
<1>2. \A i \in Occupied : i \in Slots /\ pending[i].val \in Vals
  BY InvFacts
<1>3. \A w \in waiting : w[2] \in Waiting
  BY DEF Waiting
<1> QED
  BY <1>1, <1>2, <1>3 DEF PrepInv, QueuedPrepared, WaitingPrepared, Prepared

(* Trials that a step leaves in the queue, in a client's hands or waiting, *)
(* with their values, stay prepared.                                       *)
LEMMA QueuedStays ==
  ASSUME NEW S, NEW N, NEW G, TrialContract(S, StackStates, N, G),
         TrialInv(S, StackStates, N, G), PrepInv, CodeStays,
         \A i \in Queued' \cup Held' : /\ i \in Queued \cup Held
                                       /\ pending'[i].val = pending[i].val
  PROVE  QueuedPrepared'
<1> SUFFICES ASSUME NEW i \in Queued' \cup Held'
             PROVE  AllPass(lstate', pending'[i].val, LstackLen)
  BY DEF QueuedPrepared, Prepared
<1>1. pending[i].val \in Vals /\ AllPass(lstate, pending[i].val, LstackLen)
  BY PrepFacts
<1> QED
  BY <1>1, PassStays

LEMMA WaitingStays ==
  ASSUME NEW S, NEW N, NEW G, TrialContract(S, StackStates, N, G),
         TrialInv(S, StackStates, N, G), PrepInv, CodeStays,
         NEW w \in waiting, pending'[w[2]].val = pending[w[2]].val
  PROVE  w[1] > 0 /\ Stack[w[1]] = "codegen" /\ AllPass(lstate', pending'[w[2]].val, Behind(w[1]))
<1>1. /\ pending[w[2]].val \in Vals /\ w[1] > 0 /\ Stack[w[1]] = "codegen"
      /\ AllPass(lstate, pending[w[2]].val, Behind(w[1]))
  BY PrepFacts
<1> QED
  BY <1>1, PassStays

(* A turn of the workflow's loop.                                          *)
LEMMA LayerPrepares ==
  ASSUME NEW S, NEW N, NEW G, TrialContract(S, StackStates, N, G), UsesStack,
         TrialInv(S, StackStates, N, G), PrepInv, Slots' = Slots, LayerStep
  PROVE  PrepInv'
<1> DEFINE k == IF curr_layer < 0 THEN -curr_layer ELSE curr_layer
           i == trial_idx
<1>1. /\ k \in 1 .. LstackLen /\ curr_layer \in (-LstackLen .. LstackLen) \ {0}
      /\ curr_layer \in Int
      /\ (curr_layer < 0 /\ k = -curr_layer) \/ (curr_layer > 0 /\ k = curr_layer)
      /\ lstate[k] \in StackStates[k]
      /\ i \in Occupied /\ i \in Slots /\ i \in InFlow
      /\ at = "workflow"
  <2>1. curr_layer # 0 /\ curr_layer <= LstackLen /\ at = "workflow"
    BY DEF LayerStep
  <2>2. curr_layer \in -LstackLen .. LstackLen + 1 /\ LstackLen \in Nat
    BY InvFacts, SessionAssumption DEF TypeOK
  <2>3. /\ k \in 1 .. LstackLen /\ curr_layer \in (-LstackLen .. LstackLen) \ {0}
        /\ curr_layer \in Int
        /\ (curr_layer < 0 /\ k = -curr_layer) \/ (curr_layer > 0 /\ k = curr_layer)
    BY <2>1, <2>2
  <2>4. lstate[k] \in StackStates[k]
    BY <2>3 DEF TrialInv, RingInv, TypeInv, LstateIn
  <2> QED BY <2>1, <2>3, <2>4, InvFacts
<1>2. /\ pending \in [Slots -> Trials] /\ pending[i] \in Trials /\ pending[i].val \in Vals
      /\ PointOf(pending[i]) \in Point /\ strat \in S
      /\ StrategyContract(S) /\ StrategyConverged(strat) \in BOOLEAN
  <2>1. pending \in [Slots -> Trials] /\ pending[i] \in Trials /\ pending[i].val \in Vals /\ strat \in S
    BY <1>1, InvFacts DEF TypeOK
  <2>2. StrategyContract(S)
    BY DEF TrialContract
  <2>3. StrategyConverged(strat) \in BOOLEAN
    BY <2>1, <2>2, Zenon DEF StrategyContract
  <2>4. PointOf(pending[i]) \in Point
    BY <2>1 DEF PointOf, Point, Trials
  <2> QED BY <2>1, <2>2, <2>3, <2>4
<1>3. PICK o \in IF curr_layer < 0
                   THEN LayerAnalyze(k, lstate[k], pending[i])
                   ELSE LayerGenerate(k, lstate[k], pending[i], StrategyConverged(strat)) :
        \E t \in workflow_transition(i, curr_layer, o) :
          /\ lstate' = [lstate EXCEPT ![k] = o.next]
          /\ waiting' = t.waiting
          /\ Take(t, i, o.perf)
          /\ IF t.ret = 0
               THEN UNCHANGED <<at, wire, caller, from, trial_idx>>
               ELSE Return(t.ret = 1)
  BY DEF LayerStep
<1>4. PICK t \in workflow_transition(i, curr_layer, o) :
        /\ lstate' = [lstate EXCEPT ![k] = o.next]
        /\ waiting' = t.waiting
        /\ Take(t, i, o.perf)
        /\ IF t.ret = 0
             THEN UNCHANGED <<at, wire, caller, from, trial_idx>>
             ELSE Return(t.ret = 1)
  BY <1>3
<1>5. UNCHANGED <<Queued, Held>>
  BY DEF LayerStep, ringVars, Queued, Held
<1> HIDE DEF k
<1>6. /\ o.status \in FlowStatuses
      /\ o.status = "REJECT" => curr_layer > 0 /\ ReplacesRejected(S, N, G) /\ o.hint \in Hints
      /\ o.hint \in Point
  <2>1. /\ o.status \in FlowStatuses
        /\ o.status = "REJECT" => curr_layer > 0 /\ ReplacesRejected(S, N, G) /\ o.hint \in Hints
    BY <1>1, VerdictIs
  <2>2. o \in LayerGenerate(k, lstate[k], pending[i], StrategyConverged(strat))
                \cup LayerAnalyze(k, lstate[k], pending[i])
    OBVIOUS
  <2>3. o \in [next : StackStates[k], status : LayerStatuses, hint : Point,
               perf : Perfs \cup {Infinity}]
    BY <1>1, <1>2, <2>2 DEF TrialContract, LayerContract
  <2> QED BY <2>1, <2>3
<1>7. /\ lstate'[k] = o.next /\ \A j \in 1 .. LstackLen : j # k => lstate'[j] = lstate[j]
      /\ curr_layer' = t.layer /\ waiting' = t.waiting
      /\ \A j \in Slots : j # i => pending'[j] = pending[j]
      /\ pending'[i].val = t.point.val /\ PointOf(pending'[i]) = PointOf(t.point)
  <2>1. DOMAIN lstate = 1 .. LstackLen
    BY DEF TrialInv, RingInv, TypeInv, LstateIn
  <2>2. pending'[i] = Trial(t.point, o.perf)
    BY <1>1, <1>2, <1>4 DEF Take
  <2>3. pending'[i].val = t.point.val /\ PointOf(pending'[i]) = PointOf(t.point)
    BY <2>2 DEF Trial, PointOf
  <2> QED BY <1>1, <1>2, <1>4, <2>1, <2>3 DEF Take
<1>8. /\ o.status = "ACCEPT" =>
           t.ret = 0 /\ t.layer = curr_layer + 1 /\ t.point = PointOf(pending[i])
      /\ o.status \in {"RETURN", "RETRY"} =>
           t.ret = 0 /\ t.layer = -curr_layer /\ t.point = PointOf(pending[i])
      /\ o.status = "REJECT" => t.ret # 0 \/ t.layer = 1
  BY <1>1, <1>2, <1>4, <1>6, TransitionTo
<1>9. \/ t.ret = 0 /\ t.waiting = waiting /\ o.status # "WAIT"
      \/ /\ t.ret = 1 /\ t.waiting = waiting \cup {<<curr_layer, i>>}
         /\ t.point = PointOf(pending[i]) /\ o.status = "WAIT"
  <2>1. ~(o.status = "REJECT" /\ curr_layer < 0)
    BY <1>1, <1>6
  <2>2. o.status = "REJECT" /\ curr_layer > 0 => ReplacesRejected(S, N, G) /\ o.hint \in Hints
    BY <1>6
  <2>3. o.status = "WAIT" => t.ret = 1
    BY <1>4 DEF workflow_transition
  <2>4. /\ i \in Occupied /\ curr_layer \in (-LstackLen .. LstackLen) \ {0}
        /\ o.status \in FlowStatuses /\ t \in workflow_transition(i, curr_layer, o)
    BY <1>1, <1>4, <1>6
  <2>5. \/ /\ t.ret = 0 /\ t.waiting = waiting
           /\ t.point \in Point /\ t.point.val \in Vals
           /\ t.point.id = pending[i].id \/ N[strat] <= t.point.id
           /\ Leads(N, G, strat, t.strat, (LiveIds \ {pending[i].id}) \cup {t.point.id})
           /\ Redirects(i, t.point, curr_layer, t.layer)
        \/ /\ t.ret = 1 /\ t.waiting = handle_wait(i, curr_layer)
           /\ t.point = PointOf(pending[i]) /\ t.strat = strat /\ o.status = "WAIT"
        \/ o.status = "REJECT" /\ curr_layer < 0
    BY <2>2, <2>4, TransitionIs
  <2> QED BY <2>1, <2>3, <2>5 DEF handle_wait
<1>10. /\ o.status \in {"ACCEPT", "RETURN", "RETRY", "WAIT", "REJECT"}
       /\ o.status # "REJECT" =>
            pending'[i].val = pending[i].val /\ PointOf(pending'[i]) = PointOf(pending[i])
  <2>1. o.status \in {"ACCEPT", "RETURN", "RETRY", "WAIT", "REJECT"}
    BY <1>6 DEF FlowStatuses
  <2>2. o.status # "REJECT" => t.point = PointOf(pending[i])
    BY <1>8, <1>9, <2>1
  <2> QED BY <1>7, <2>1, <2>2 DEF PointOf
(* What layer k's verdict tells of its state and of the trial.             *)
<1>11. /\ Stack[k] = "codegen" =>
            /\ \A v \in Vals : lstate[k].log[v] = "COMPLETE" => o.next.log[v] = "COMPLETE"
            /\ \/ o.next.server = lstate[k].server
               \/ /\ o.status = "WAIT" /\ curr_layer = k
                  /\ o.next.server = Append(lstate[k].server, PointOf(pending[i]))
       /\ o.status = "WAIT" => curr_layer = k /\ Stack[k] = "codegen"
       /\ o.status = "ACCEPT" /\ curr_layer > 0 => Passes(k, o.next, pending[i].val)
  <2>1. CASE curr_layer < 0
    <3>1. o \in StackAnalyze(k, lstate[k], pending[i])
      BY <1>3, <2>1 DEF UsesStack
    <3>2. /\ o.status \in {"ACCEPT", "RETRY"}
          /\ Stack[k] = "codegen" => o.next = lstate[k]
      BY <1>1, <3>1, AnalyzeVerdict
    <3> QED BY <1>1, <2>1, <3>2
  <2>2. CASE curr_layer > 0
    <3>1. o \in StackGenerate(k, lstate[k], pending[i], StrategyConverged(strat))
      BY <1>1, <1>3, <2>2 DEF UsesStack
    <3>2. /\ o.status = "ACCEPT" /\ Stack[k] = "constraint" => pending[i].val \in ValidVals
          /\ o.status = "WAIT" => Stack[k] = "codegen"
          /\ Stack[k] = "codegen" =>
               /\ o.status = "ACCEPT" => o.next.log[pending[i].val] = "COMPLETE"
               /\ \A v \in Vals : lstate[k].log[v] = "COMPLETE" => o.next.log[v] = "COMPLETE"
               /\ \/ o.next.server = lstate[k].server
                  \/ /\ o.status = "WAIT"
                     /\ o.next.server = Append(lstate[k].server, PointOf(pending[i]))
      BY <1>1, <1>2, <3>1, GenerateVerdict
    <3>3. curr_layer = k
      BY <1>1, <2>2
    <3> QED BY <3>2, <3>3 DEF Passes
  <2> QED BY <1>1, <2>1, <2>2
<1> HIDE DEF i
<1>12. CodeStays
  BY <1>7, <1>11 DEF CodeStays
<1>13. QueuedPrepared'
  <2>1. \A j \in Queued \cup Held : j # i /\ j \in Slots
    BY <1>1, PrepFacts
  <2> QED BY <1>5, <1>7, <1>12, <2>1, QueuedStays
<1>14. FlowPrepared'
  <2> SUFFICES ASSUME at' = "workflow"
               PROVE  AllPass(lstate', pending'[trial_idx'].val, Behind(curr_layer'))
    BY DEF FlowPrepared, Prepared
  <2>1. t.ret = 0 /\ trial_idx' = i /\ o.status # "WAIT"
    <3>1. ASSUME t.ret # 0 PROVE FALSE
      BY <1>4, <1>9, <3>1, InvFacts, ReturnType
    <3> QED BY <1>4, <1>9, <3>1 DEF i
  <2>2. AllPass(lstate, pending[i].val, Behind(curr_layer))
    BY <1>1 DEF PrepInv, FlowPrepared, Prepared, i
  <2>3. AllPass(lstate', pending[i].val, Behind(curr_layer))
    BY <1>2, <1>12, <2>2, PassStays
  <2>4. CASE o.status = "REJECT"
    <3>1. curr_layer' = 1
      BY <1>7, <1>8, <2>1, <2>4
    <3>2. \A j \in 1 .. LstackLen : ~(j <= 0)
      OBVIOUS
    <3>3. Behind(curr_layer') = 0
      BY <3>1 DEF Behind
    <3> QED BY <3>2, <3>3 DEF AllPass
  <2>5. CASE o.status \in {"RETURN", "RETRY"}
    <3>1. curr_layer' = -curr_layer
      BY <1>7, <1>8, <2>5
    <3>2. Behind(curr_layer') = Behind(curr_layer)
      BY <1>1, <3>1 DEF Behind
    <3> QED BY <1>10, <2>1, <2>3, <2>5, <3>2
  <2>6. CASE o.status = "ACCEPT" /\ curr_layer < 0
    <3>1. curr_layer' = curr_layer + 1
      BY <1>7, <1>8, <2>6
    <3>2. \A j \in 1 .. LstackLen : j <= Behind(curr_layer') => j <= Behind(curr_layer)
      BY <1>1, <2>6, <3>1 DEF Behind
    <3> QED BY <1>10, <2>1, <2>3, <2>6, <3>2 DEF AllPass
  <2>7. CASE o.status = "ACCEPT" /\ curr_layer > 0
    <3>1. curr_layer' = curr_layer + 1 /\ curr_layer = k
      BY <1>1, <1>7, <1>8, <2>7
    <3>2. \A j \in 1 .. LstackLen : j <= Behind(curr_layer') => j <= Behind(curr_layer) \/ j = k
      BY <1>1, <2>7, <3>1 DEF Behind
    <3>3. Passes(k, lstate'[k], pending[i].val)
      BY <1>7, <1>11, <2>7
    <3> QED BY <1>10, <2>1, <2>3, <2>7, <3>2, <3>3 DEF AllPass
  <2> QED BY <1>1, <1>10, <2>1, <2>4, <2>5, <2>6, <2>7
<1>15. WaitingPrepared'
  <2> SUFFICES ASSUME NEW w \in waiting'
               PROVE  /\ w[1] > 0 /\ Stack[w[1]] = "codegen"
                      /\ AllPass(lstate', pending'[w[2]].val, Behind(w[1]))
    BY DEF WaitingPrepared, Prepared
  <2>1. CASE w \in waiting
    <3>1. w[2] # i /\ w[2] \in Slots
      BY <1>1, <2>1, PrepFacts
    <3> QED BY <1>7, <1>12, <2>1, <3>1, WaitingStays
  <2>2. CASE w \notin waiting
    <3>1. w = <<curr_layer, i>> /\ o.status = "WAIT"
      BY <1>7, <1>9, <2>2
    <3>2. w[1] = curr_layer /\ w[2] = i /\ curr_layer = k /\ Stack[k] = "codegen"
      BY <1>11, <3>1
    <3>3. AllPass(lstate, pending[i].val, Behind(curr_layer))
      BY <1>1 DEF PrepInv, FlowPrepared, Prepared, i
    <3>4. AllPass(lstate', pending[i].val, Behind(curr_layer))
      BY <1>2, <1>12, <3>3, PassStays
    <3>5. curr_layer > 0 /\ pending'[i].val = pending[i].val
      BY <1>1, <1>10, <3>1, <3>2
    <3> QED BY <3>2, <3>4, <3>5
  <2> QED BY <2>1, <2>2
(* A new request is about the trial in the workflow, the others are not.   *)
<1>16. RequestsWait'
  <2>1. ASSUME NEW j \in 1 .. LstackLen, Stack[j] = "codegen", NEW r \in Members(lstate[j].server)
        PROVE  \E n \in Slots : /\ <<j, n>> \in waiting' /\ PointOf(pending'[n]) = r
                                /\ pending[n].id = r.id /\ n # i /\ n \in Occupied
    <3>1. PICK n \in Slots : <<j, n>> \in waiting /\ PointOf(pending[n]) = r
      BY <2>1 DEF PrepInv, RequestsWait
    <3>2. n \in Waiting
      <4>1. <<j, n>>[2] = n
        OBVIOUS
      <4> QED BY <3>1, <4>1 DEF Waiting
    <3>3. n # i /\ n \in Occupied
      BY <1>1, <3>2, PrepFacts
    <3>4. <<j, n>> \in waiting'
      BY <1>7, <1>9, <3>1
    <3>5. pending[n].id = r.id
      BY <3>1 DEF PointOf
    <3>6. PointOf(pending'[n]) = r
      BY <1>7, <3>1, <3>3
    <3> QED BY <3>3, <3>4, <3>5, <3>6
  <2>2. ASSUME NEW j \in 1 .. LstackLen, Stack[j] = "codegen",
               lstate'[j].server = lstate[j].server
        PROVE  /\ NoTwice(lstate'[j].server)
               /\ \A r \in Members(lstate'[j].server) :
                    \E n \in Slots : <<j, n>> \in waiting' /\ PointOf(pending'[n]) = r
    <3>1. NoTwice(lstate[j].server)
      BY <2>2 DEF PrepInv, RequestsWait
    <3> QED BY <2>1, <2>2, <3>1
  <2>3. ASSUME Stack[k] = "codegen", lstate'[k].server # lstate[k].server
        PROVE  /\ NoTwice(lstate'[k].server)
               /\ \A r \in Members(lstate'[k].server) :
                    \E n \in Slots : <<k, n>> \in waiting' /\ PointOf(pending'[n]) = r
    <3> DEFINE p == PointOf(pending[i])
               q == lstate[k].server
    <3>1. lstate'[k].server = Append(q, p) /\ o.status = "WAIT" /\ curr_layer = k
      BY <1>7, <1>11, <2>3
    <3>2. q \in Seq(Point) /\ p \in Point /\ NoTwice(q)
      <4>1. lstate[k] \in CodegenStates
        BY <1>1, <2>3 DEF StackStates
      <4> QED BY <1>1, <1>2, <2>3, <4>1 DEF CodegenStates, PrepInv, RequestsWait
    <3>3. p \notin Members(q)
      <4> SUFFICES ASSUME p \in Members(q) PROVE FALSE
        OBVIOUS
      <4>1. PICK n \in Slots : pending[n].id = p.id /\ n # i /\ n \in Occupied
        BY <1>1, <2>1, <2>3
      <4>2. p.id = pending[i].id
        BY DEF PointOf
      <4>3. IdsUnique /\ i \in Occupied
        BY <1>1 DEF TrialInv
      <4> QED BY <4>1, <4>2, <4>3 DEF IdsUnique
    <3>4. i \in Slots /\ <<k, i>> \in waiting' /\ PointOf(pending'[i]) = p
      BY <1>1, <1>7, <1>9, <1>10, <3>1
    <3> HIDE DEF p, q
    <3>5. NoTwice(Append(q, p)) /\ \A r \in Members(Append(q, p)) : r \in Members(q) \/ r = p
      BY <3>2, <3>3, AskedMore
    <3>6. ASSUME NEW r \in Members(q)
          PROVE  \E n \in Slots : <<k, n>> \in waiting' /\ PointOf(pending'[n]) = r
      BY <1>1, <2>1, <2>3, <3>6 DEF q
    <3> QED BY <3>1, <3>4, <3>5, <3>6
  <2> QED BY <1>7, <2>2, <2>3 DEF RequestsWait, PointOf
<1> QED
  BY <1>13, <1>14, <1>15, <1>16 DEF PrepInv

(* The code server answers.                                                *)
LEMMA CallbackPrepares ==
  ASSUME NEW S, NEW N, NEW G, TrialContract(S, StackStates, N, G), UsesStack,
         TrialInv(S, StackStates, N, G), PrepInv, Slots' = Slots,
         NEW n \in 1 .. Len(Callbacks), handle_callback(n)
  PROVE  PrepInv'
<1> DEFINE layer  == Callbacks[n]
           k      == IF layer < 0 THEN -layer ELSE layer
           list   == {s \in Slots : <<layer, s>> \in waiting}
           trials == [s \in list |-> pending[s]]
<1>1. PICK o \in LayerCallback(k, lstate[k], trials) :
        \E t \in workflow_transition(o.slot, layer, o) :
          /\ lstate' = [lstate EXCEPT ![k] = o.next]
          /\ waiting' = IF t.ret = 0 THEN Unpark(t.waiting, layer, o.slot) ELSE t.waiting
          /\ Take(t, o.slot, pending[o.slot].perf)
          /\ IF t.ret = 0
               THEN at' = "workflow" /\ caller' = "callback" /\ trial_idx' = o.slot
               ELSE UNCHANGED <<at, caller, trial_idx>>
  BY DEF handle_callback
<1>2. UNCHANGED <<Queued, Held>> /\ list # {} /\ at = "select"
  BY DEF handle_callback, ringVars, Queued, Held
<1>3. /\ layer \in Int /\ layer > 0 /\ layer = k /\ k \in 1 .. LstackLen
      /\ Stack[k] = "codegen" /\ lstate[k] \in CodegenStates
  <2>1. layer \in (-LstackLen .. LstackLen) \ {0}
    BY SessionAssumption
  <2>2. layer > 0 /\ Stack[layer] = "codegen"
    <3>1. PICK s \in Slots : <<layer, s>> \in waiting
      BY <1>2
    <3>2. <<layer, s>>[1] = layer
      OBVIOUS
    <3> HIDE DEF layer
    <3> QED BY <3>1, <3>2, PrepFacts
  <2> HIDE DEF layer
  <2>3. layer = k /\ k \in 1 .. LstackLen
    BY <2>1, <2>2, SessionAssumption
  <2>4. lstate[k] \in StackStates[k]
    BY <2>3 DEF TrialInv, RingInv, TypeInv, LstateIn
  <2> HIDE DEF k
  <2> QED BY <2>1, <2>2, <2>3, <2>4 DEF StackStates
<1> DEFINE r == Head(lstate[k].server)
<1>4. PICK i \in list :
        /\ lstate[k].server # <<>> /\ trials[i].id = r.id
        /\ o = [next   |-> [log    |-> [lstate[k].log EXCEPT ![r.val] = "COMPLETE"],
                            server |-> Tail(lstate[k].server)],
                status |-> "ACCEPT", hint |-> HPOINT_INITIALIZER, slot |-> i]
  <2> HIDE DEF k, trials
  <2>1. o \in CodegenCallback(lstate[k], trials)
    BY <1>1, <1>3 DEF UsesStack, StackCallback
  <2>2. DOMAIN trials = list
    BY DEF trials
  <2> QED BY <2>1, <2>2 DEF CodegenCallback
(* The request it answers was the oldest, and there is no other like it.   *)
<1>5. /\ i \in Slots /\ <<layer, i>> \in waiting /\ i \in Waiting
      /\ pending[i].id = r.id /\ r \in Members(lstate[k].server)
      /\ NoTwice(Tail(lstate[k].server)) /\ r \notin Members(Tail(lstate[k].server))
      /\ Members(Tail(lstate[k].server)) \subseteq Members(lstate[k].server)
  <2>1. i \in list /\ trials[i].id = r.id
    BY <1>4
  <2>2. <<layer, i>>[2] = i
    OBVIOUS
  <2>3. lstate[k].server \in Seq(Point) /\ NoTwice(lstate[k].server)
    BY <1>3 DEF CodegenStates, PrepInv, RequestsWait
  <2> HIDE DEF k
  <2>4. /\ r \in Members(lstate[k].server)
        /\ NoTwice(Tail(lstate[k].server)) /\ r \notin Members(Tail(lstate[k].server))
        /\ Members(Tail(lstate[k].server)) \subseteq Members(lstate[k].server)
    BY <1>4, <2>3, AskedLess
  <2> QED BY <2>1, <2>2, <2>4 DEF Waiting
(* The answer is about the values that trial i waits with.                 *)
<1>6. r = PointOf(pending[i])
  <2>1. PICK j \in Slots : <<k, j>> \in waiting /\ PointOf(pending[j]) = r
    BY <1>3, <1>5 DEF PrepInv, RequestsWait
  <2>2. j \in Waiting
    <3>1. <<k, j>>[2] = j
      OBVIOUS
    <3> QED BY <2>1, <3>1 DEF Waiting
  <2>3. pending[j].id = pending[i].id
    BY <1>5, <2>1 DEF PointOf
  <2> HIDE DEF r
  <2>4. i \in Occupied /\ j \in Occupied /\ IdsUnique
    BY <1>5, <2>2, PrepFacts DEF TrialInv
  <2>5. i = j
    BY <2>3, <2>4 DEF IdsUnique
  <2> QED BY <2>1, <2>5
<1>7. /\ o.status = "ACCEPT" /\ o.slot = i /\ o.hint \in Point
      /\ o.next.log = [lstate[k].log EXCEPT ![r.val] = "COMPLETE"]
      /\ o.next.server = Tail(lstate[k].server)
  BY <1>4, InitialType
<1> HIDE DEF r, trials, list
<1>8. /\ pending \in [Slots -> Trials] /\ pending[i] \in Trials /\ pending[i].val \in Vals
      /\ i \notin Queued \cup Held /\ AllPass(lstate, pending[i].val, layer - 1)
  <2>1. pending \in [Slots -> Trials] /\ pending[i] \in Trials /\ pending[i].val \in Vals
    BY <1>5, InvFacts, PrepFacts DEF TypeOK
  <2>2. i \notin Queued \cup Held
    BY <1>5 DEF TrialInv, TrialsAccounted
  <2>3. AllPass(lstate, pending[i].val, Behind(layer))
    <3>1. <<layer, i>>[1] = layer /\ <<layer, i>>[2] = i
      OBVIOUS
    <3> HIDE DEF layer
    <3>2. AllPass(lstate, pending[<<layer, i>>[2]].val, Behind(<<layer, i>>[1]))
      BY <1>5, PrepFacts
    <3> QED BY <3>1, <3>2
  <2> HIDE DEF layer
  <2> QED BY <1>3, <2>1, <2>2, <2>3 DEF Behind
<1>9. PICK t \in workflow_transition(i, layer, o) :
        /\ lstate' = [lstate EXCEPT ![k] = o.next]
        /\ waiting' = IF t.ret = 0 THEN Unpark(t.waiting, layer, i) ELSE t.waiting
        /\ Take(t, i, pending[i].perf)
        /\ IF t.ret = 0
             THEN at' = "workflow" /\ caller' = "callback" /\ trial_idx' = i
             ELSE UNCHANGED <<at, caller, trial_idx>>
  BY <1>1, <1>7
<1> HIDE DEF layer, k
<1>10. t.ret = 0 /\ t.layer = layer + 1 /\ t.point = PointOf(pending[i]) /\ t.waiting = waiting
  BY <1>7 DEF workflow_transition
<1>11. /\ trial_idx' = i /\ curr_layer' = layer + 1 /\ waiting' = waiting \ {<<layer, i>>}
       /\ lstate'[k] = o.next /\ \A j \in 1 .. LstackLen : j # k => lstate'[j] = lstate[j]
       /\ UNCHANGED pending
  <2>1. DOMAIN lstate = 1 .. LstackLen
    BY DEF TrialInv, RingInv, TypeInv, LstateIn
  <2>2. Trial(t.point, pending[i].perf) = pending[i]
    BY <1>8, <1>10 DEF Trial, PointOf, Trials
  <2>3. UNCHANGED pending
    BY <1>5, <1>8, <1>9, <2>2 DEF Take
  <2> QED BY <1>3, <1>9, <1>10, <2>1, <2>3 DEF Take, Unpark
<1>12. /\ r.val = pending[i].val
       /\ o.next.log[pending[i].val] = "COMPLETE"
       /\ \A v \in Vals : lstate[k].log[v] = "COMPLETE" => o.next.log[v] = "COMPLETE"
  <2>1. r.val = pending[i].val
    BY <1>6 DEF PointOf
  <2>2. lstate[k].log \in [Vals -> {"NONE", "REQUESTED", "COMPLETE"}]
    BY <1>3 DEF CodegenStates
  <2> QED BY <1>7, <1>8, <2>1, <2>2
<1>13. CodeStays
  BY <1>11, <1>12 DEF CodeStays
<1>14. QueuedPrepared'
  BY <1>2, <1>11, <1>13, QueuedStays
<1>15. FlowPrepared'
  <2>1. AllPass(lstate', pending[i].val, layer - 1)
    BY <1>8, <1>13, PassStays
  <2>2. Passes(k, lstate'[k], pending[i].val)
    BY <1>3, <1>11, <1>12 DEF Passes
  <2>3. \A j \in 1 .. LstackLen : j <= Behind(curr_layer') => j <= layer - 1 \/ j = k
    BY <1>3, <1>11 DEF Behind
  <2>4. AllPass(lstate', pending[i].val, Behind(curr_layer'))
    BY <2>1, <2>2, <2>3 DEF AllPass
  <2> QED BY <1>11, <2>4 DEF FlowPrepared, Prepared
<1>16. WaitingPrepared'
  BY <1>11, <1>13, WaitingStays DEF WaitingPrepared, Prepared
<1>17. RequestsWait'
  <2> SUFFICES ASSUME NEW j \in 1 .. LstackLen, Stack[j] = "codegen"
               PROVE  /\ NoTwice(lstate'[j].server)
                      /\ \A q \in Members(lstate'[j].server) :
                           \E m \in Slots : <<j, m>> \in waiting' /\ PointOf(pending[m]) = q
    BY <1>11 DEF RequestsWait, PointOf
  <2>1. NoTwice(lstate'[j].server)
    <3>1. NoTwice(lstate[j].server)
      BY DEF PrepInv, RequestsWait
    <3> QED BY <1>5, <1>7, <1>11, <3>1
  <2>2. ASSUME NEW q \in Members(lstate'[j].server)
        PROVE  \E m \in Slots : <<j, m>> \in waiting' /\ PointOf(pending[m]) = q
    <3>1. q \in Members(lstate[j].server) /\ (j = k => q # r)
      BY <1>5, <1>7, <1>11, <2>2
    <3>2. PICK m \in Slots : <<j, m>> \in waiting /\ PointOf(pending[m]) = q
      BY <3>1 DEF PrepInv, RequestsWait
    <3>3. <<j, m>> # <<layer, i>>
      BY <1>3, <1>6, <3>1, <3>2
    <3> QED BY <1>11, <3>2, <3>3
  <2> QED BY <2>1, <2>2
<1> QED
  BY <1>14, <1>15, <1>16, <1>17 DEF PrepInv

(* A step that leaves the layers and their wait lists alone, and the       *)
(* trials in these with what they are.                                     *)
LEMMA LayersIdle ==
  ASSUME NEW S, NEW N, NEW G, TrialContract(S, StackStates, N, G),
         TrialInv(S, StackStates, N, G), PrepInv, Slots' = Slots, UNCHANGED <<lstate, waiting>>,
         \A i \in Waiting : PointOf(pending'[i]) = PointOf(pending[i])
  PROVE  CodeStays /\ WaitingPrepared' /\ RequestsWait'
<1>1. CodeStays
  BY DEF CodeStays
<1>2. \A w \in waiting : w[2] \in Waiting /\ pending'[w[2]].val = pending[w[2]].val
  BY DEF Waiting, PointOf
<1>3. WaitingPrepared'
  BY <1>1, <1>2, WaitingStays DEF WaitingPrepared, Prepared
<1>4. RequestsWait'
  <2>1. \A k \in 1 .. LstackLen : Stack[k] = "codegen" => NoTwice(lstate[k].server)
    BY DEF PrepInv, RequestsWait
  <2>2. ASSUME NEW k \in 1 .. LstackLen, Stack[k] = "codegen", NEW r \in Members(lstate[k].server)
        PROVE  \E i \in Slots : <<k, i>> \in waiting /\ PointOf(pending'[i]) = r
    <3>1. PICK i \in Slots : <<k, i>> \in waiting /\ PointOf(pending[i]) = r
      BY <2>2 DEF PrepInv, RequestsWait
    <3>2. <<k, i>>[2] = i
      OBVIOUS
    <3>3. i \in Waiting
      BY <3>1, <3>2 DEF Waiting
    <3> QED BY <3>1, <3>3
  <2> QED BY <2>1, <2>2 DEF RequestsWait, PointOf
<1> QED
  BY <1>1, <1>3, <1>4

(* The workflow ends: the trial leaves, or joins the queue.                *)
LEMMA WorkflowEndPrepares ==
  ASSUME NEW S, NEW N, NEW G, TrialContract(S, StackStates, N, G),
         TrialInv(S, StackStates, N, G), PrepInv, Slots' = Slots,
         WorkflowAnalyze \/ WorkflowEnqueue
  PROVE  PrepInv'
<1> DEFINE i == trial_idx
<1>1. /\ at = "workflow" /\ i \in InFlow /\ i \in Slots /\ i \in Occupied
      /\ pending \in [Slots -> Trials] /\ pending[i].val \in Vals
      /\ UNCHANGED <<lstate, waiting, holder>>
  <2>1. at = "workflow"
    BY DEF WorkflowAnalyze, WorkflowEnqueue
  <2>2. UNCHANGED <<lstate, waiting, holder>>
    BY DEF WorkflowAnalyze, WorkflowEnqueue, plugVars, trialVars
  <2>3. i \in InFlow /\ i \in Slots /\ i \in Occupied
    BY <2>1, InvFacts
  <2>4. pending \in [Slots -> Trials] /\ pending[i].val \in Vals
    BY <2>3, InvFacts DEF TypeOK
  <2> QED BY <2>1, <2>2, <2>3, <2>4
<1>2. at' # "workflow"
  <2>1. \E ok \in BOOLEAN : Return(ok)
    BY DEF WorkflowAnalyze, WorkflowEnqueue
  <2> QED BY <2>1, InvFacts, ReturnType
<1>3. Held' = Held
  BY <1>1 DEF Held
<1>4. \A j \in Queued \cup Held \cup Waiting : j # i /\ j \in Slots
  BY <1>1, PrepFacts
<1>5. CASE WorkflowAnalyze
  <2>1. UNCHANGED pending \/ pending' = [pending EXCEPT ![i] = FreeTrial]
    BY <1>5 DEF WorkflowAnalyze, Release
  <2> HIDE DEF i
  <2>2. \A j \in Slots : j # i => pending'[j] = pending[j]
    BY <1>1, <2>1
  <2>3. Queued' = Queued
    BY <1>5 DEF WorkflowAnalyze, ringVars, Queued
  <2>4. CodeStays /\ WaitingPrepared' /\ RequestsWait'
    BY <1>1, <1>4, <2>2, LayersIdle
  <2>5. QueuedPrepared'
    BY <1>3, <1>4, <2>2, <2>3, <2>4, QueuedStays
  <2> QED BY <1>2, <2>4, <2>5 DEF PrepInv, FlowPrepared
<1>6. CASE WorkflowEnqueue
  <2>1. UNCHANGED pending
    BY <1>6 DEF WorkflowEnqueue, trialVars
  <2>2. CodeStays /\ WaitingPrepared' /\ RequestsWait'
    BY <1>1, <2>1, LayersIdle
  <2>3. AllPass(lstate, pending[i].val, LstackLen)
    <3>1. AllPass(lstate, pending[i].val, Behind(curr_layer))
      BY <1>1 DEF PrepInv, FlowPrepared, Prepared
    <3>2. curr_layer > LstackLen /\ curr_layer \in -LstackLen .. LstackLen + 1 /\ LstackLen \in Nat
      BY <1>6, InvFacts, SessionAssumption DEF WorkflowEnqueue, TypeOK
    <3>3. Behind(curr_layer) = LstackLen
      BY <3>2 DEF Behind
    <3> QED BY <3>1, <3>3
  <2>4. Queued' \subseteq Queued \cup {i}
    <3>1. UNCHANGED ready \/ ready' = [ready EXCEPT ![ready_tail] = i]
      BY <1>6 DEF WorkflowEnqueue, Enqueue, ringVars
    <3>2. ready \in [Slots -> Slots \cup {NoTrial}]
      BY InvFacts DEF TypeOK
    <3> HIDE DEF i
    <3>3. \A p \in Slots : ready'[p] \in {ready[p], i}
      BY <3>1, <3>2
    <3> QED BY <3>3 DEF Queued
  <2> HIDE DEF i
  <2>5. QueuedPrepared'
    <3>1. \A j \in Queued \cup Held : AllPass(lstate, pending[j].val, LstackLen)
      BY PrepFacts
    <3>2. \A j \in Queued' \cup Held' : AllPass(lstate, pending[j].val, LstackLen)
      BY <1>3, <2>3, <2>4, <3>1
    <3> QED BY <1>1, <2>1, <3>2 DEF QueuedPrepared, Prepared
  <2> QED BY <1>2, <2>2, <2>5 DEF PrepInv, FlowPrepared
<1> QED
  BY <1>5, <1>6

(* A trial is generated, and starts at the first layer; or the generation  *)
(* loop begins or ends.                                                    *)
LEMMA GenerationPrepares ==
  ASSUME NEW S, NEW N, NEW G, TrialContract(S, StackStates, N, G),
         TrialInv(S, StackStates, N, G), PrepInv, Slots' = Slots,
         StartGenerate \/ EndGenerate \/ generate_trial
  PROVE  PrepInv'
<1>1. /\ UNCHANGED <<lstate, waiting, Queued, Held>>
      /\ pending \in [Slots -> Trials]
  BY InvFacts DEF StartGenerate, EndGenerate, generate_trial, trialVars, ringVars, plugVars,
     Queued, Held, TypeOK
<1>2. /\ at' = "workflow" => curr_layer' = 1
      /\ \/ UNCHANGED pending
         \/ \E t : pending' = [pending EXCEPT ![First(SlotsWith(-1))] = t] /\ SlotsWith(-1) # {}
  <2>1. CASE StartGenerate \/ EndGenerate
    BY <2>1 DEF StartGenerate, EndGenerate, trialVars
  <2>2. CASE generate_trial
    <3>1. PICK o \in StrategyGenerate(strat) :
            IF o.status = "WAIT"
              THEN UNCHANGED <<pending, at>>
              ELSE /\ trial_idx' = First(SlotsWith(-1))
                   /\ pending' = [pending EXCEPT ![trial_idx'] = Trial(o.point, Infinity)]
                   /\ curr_layer' = 1
      BY <2>2 DEF generate_trial
    <3>2. at = "generate" /\ SlotsWith(-1) # {}
      BY <2>2 DEF generate_trial
    <3> QED BY <3>1, <3>2
  <2> QED BY <2>1, <2>2
<1>3. \A j \in Queued \cup Held \cup Waiting : pending'[j] = pending[j]
  <2>1. SlotsWith(-1) # {} => First(SlotsWith(-1)) \in Slots \ Occupied
    <3>1. SlotsWith(-1) \in SUBSET Nat
      BY InvFacts DEF SlotsWith, Slots, TypeOK
    <3>2. SlotsWith(-1) # {} => First(SlotsWith(-1)) \in SlotsWith(-1)
      BY <3>1, FirstType
    <3> QED BY <3>2 DEF SlotsWith, Occupied
  <2>2. \A j \in Queued \cup Held \cup Waiting : j \in Occupied /\ j \in Slots
    BY PrepFacts
  <2> QED BY <1>1, <1>2, <2>1, <2>2
<1>4. CodeStays /\ WaitingPrepared' /\ RequestsWait'
  BY <1>1, <1>3, LayersIdle
<1>5. QueuedPrepared'
  BY <1>1, <1>3, <1>4, QueuedStays
<1>6. FlowPrepared'
  <2> SUFFICES ASSUME at' = "workflow"
               PROVE  AllPass(lstate', pending'[trial_idx'].val, Behind(curr_layer'))
    BY DEF FlowPrepared, Prepared
  <2>1. Behind(curr_layer') = 0
    BY <1>2 DEF Behind
  <2>2. \A k \in 1 .. LstackLen : ~(k <= 0)
    OBVIOUS
  <2> QED BY <2>1, <2>2 DEF AllPass
<1> QED
  BY <1>4, <1>5, <1>6 DEF PrepInv

(* A request is handled: a trial changes hands, or none does.              *)
LEMMA MessagePrepares ==
  ASSUME NEW S, NEW N, NEW G, TrialContract(S, StackStates, N, G),
         TrialInv(S, StackStates, N, G), RingInv(S, StackStates)', PrepInv, Slots' = Slots,
         NEW c \in Clients, HandleMessage(c)
  PROVE  PrepInv'
<1>1. UNCHANGED <<lstate, waiting>> /\ at = "select"
  BY DEF HandleMessage, handle_join, handle_getcfg, handle_best, handle_fetch, handle_report,
     plugVars
<1>2. /\ pending \in [Slots -> Trials] /\ ready \in [Slots -> Slots \cup {NoTrial}]
      /\ holder \in [Slots -> Clients \cup {NoClient}] /\ ready_head \in Slots
  BY InvFacts DEF TypeOK
<1>3. ASSUME UNCHANGED pending, Queued' \cup Held' \subseteq Queued \cup Held, at' # "workflow"
      PROVE  PrepInv'
  <2>1. CodeStays /\ WaitingPrepared' /\ RequestsWait'
    BY <1>1, <1>3, LayersIdle
  <2>2. QueuedPrepared'
    BY <1>3, <2>1, QueuedStays
  <2> QED BY <1>3, <2>1, <2>2 DEF PrepInv, FlowPrepared
<1>4. CASE handle_join(c)
  <2>1. UNCHANGED <<trialVars, ringVars>>
    BY <1>4, ListsStay DEF handle_join
  <2>2. UNCHANGED <<pending, Queued, Held>>
    BY <2>1 DEF trialVars, ringVars, Queued, Held
  <2>3. at' # "workflow"
    BY <1>4 DEF handle_join, Reply, Fail
  <2> QED BY <1>3, <2>2, <2>3
<1>5. CASE handle_getcfg(c) \/ handle_best(c)
  <2>1. UNCHANGED <<pending, Queued, Held>>
    BY <1>5 DEF handle_getcfg, handle_best, trialVars, ringVars, Queued, Held
  <2>2. at' # "workflow"
    BY <1>5 DEF handle_getcfg, handle_best, Reply
  <2> QED BY <1>3, <2>1, <2>2
<1>6. CASE handle_fetch(c)
  <2>1. UNCHANGED pending /\ at' # "workflow"
    BY <1>6 DEF handle_fetch, Reply
  <2>2. CASE UNCHANGED <<ready, holder>>
    BY <1>3, <2>1, <2>2 DEF Queued, Held
  <2>3. CASE ~UNCHANGED <<ready, holder>>
    <3> DEFINE idx == ready[ready_head]
    <3>1. Dequeue /\ holder' = [holder EXCEPT ![idx] = c] /\ idx >= 0
      BY <1>6, <2>3 DEF handle_fetch
    <3>2. idx \in Queued
      BY <1>2, <3>1 DEF Queued, NoTrial
    <3>3. Queued' \subseteq Queued
      <4>1. \A p \in Slots : ready'[p] \in {ready[p], NoTrial}
        BY <1>2, <3>1 DEF Dequeue
      <4> QED BY <4>1 DEF Queued
    <3> HIDE DEF idx
    <3>4. Held' \subseteq Held \cup {idx}
      BY <1>2, <3>1 DEF Held
    <3> QED BY <1>3, <2>1, <3>2, <3>3, <3>4
  <2> QED BY <2>2, <2>3
<1>7. CASE handle_report(c)
  <2> DEFINE found == SlotsWith(wire[c].point.id)
             idx   == First(found)
  <2>1. UNCHANGED Queued
    BY <1>7 DEF handle_report, ringVars, Queued
  <2>2. CASE found = {}
    <3>1. UNCHANGED <<pending, holder>> /\ (Reply(c, [wire[c] EXCEPT !.status = "OK"]) \/ Fail(c))
      BY <1>7, <2>2 DEF handle_report
    <3>2. UNCHANGED Held /\ at' # "workflow"
      BY <3>1 DEF Held, Reply, Fail
    <3> QED BY <1>3, <2>1, <3>1, <3>2
  <2>3. CASE found # {}
    <3>1. /\ pending' = [pending EXCEPT ![idx].perf = wire[c].perf]
          /\ holder' = [holder EXCEPT ![idx] = NoClient]
          /\ trial_idx' = idx /\ curr_layer' = -LstackLen
      BY <1>7, <2>3 DEF handle_report
    <3>2. idx \in Occupied /\ holder[idx] = c /\ Requested(c, "REPORT")
      <4>1. Requested(c, "REPORT")
        BY <1>7 DEF handle_report
      <4> QED BY <1>1, <2>3, <4>1, ReportFinds
    <3> HIDE DEF found, idx
    <3>3. idx \in Held
      <4>1. idx \in Slots
        BY <3>2 DEF Occupied
      <4> QED BY <3>2, <4>1, SessionAssumption DEF Held
    <3>4. \A j \in Slots : /\ pending'[j].val = pending[j].val
                           /\ PointOf(pending'[j]) = PointOf(pending[j])
      <4> SUFFICES ASSUME NEW j \in Slots
                   PROVE  pending'[j].id = pending[j].id /\ pending'[j].val = pending[j].val
        BY DEF PointOf
      <4>1. pending[j] \in Trials
        BY <1>2
      <4> QED BY <1>2, <3>1, <4>1 DEF Trials
    <3>5. Held' \subseteq Held
      BY <1>2, <3>1 DEF Held
    <3>6. \A j \in Queued \cup Held \cup Waiting : j \in Slots
      BY PrepFacts
    <3>7. CodeStays /\ WaitingPrepared' /\ RequestsWait'
      BY <1>1, <3>4, <3>6, LayersIdle
    <3>8. QueuedPrepared'
      BY <2>1, <3>4, <3>5, <3>6, <3>7, QueuedStays
    <3>9. FlowPrepared'
      <4>1. AllPass(lstate, pending[idx].val, LstackLen)
        BY <3>3, PrepFacts
      <4>2. \A k \in 1 .. LstackLen : k <= LstackLen
        BY SessionAssumption
      <4>3. AllPass(lstate, pending[idx].val, Behind(curr_layer'))
        BY <4>1, <4>2 DEF AllPass
      <4>4. pending'[idx].val = pending[idx].val
        BY <3>3, <3>4, <3>6
      <4> QED BY <1>1, <3>1, <4>3, <4>4 DEF FlowPrepared, Prepared
    <3> QED BY <3>7, <3>8, <3>9 DEF PrepInv
  <2> QED BY <2>2, <2>3
<1> QED
  BY <1>4, <1>5, <1>6, <1>7 DEF HandleMessage

(* Every step keeps the trials prepared.                                   *)
LEMMA PrepStep ==
  ASSUME NEW S, NEW N, NEW G, TrialContract(S, StackStates, N, G), UsesStack, NoGrowth,
         MaxRestarts = 0, TrialInv(S, StackStates, N, G), PrepInv, [Next]_vars
  PROVE  PrepInv'
<1>1. RingInv(S, StackStates)'
  BY StepShape DEF TrialInv, TrialContract
<1>2. Slots' = Slots
  BY <1>1 DEF TrialInv, RingInv, Slots
<1>3. CASE LayerStep
  BY <1>2, <1>3, LayerPrepares
<1>4. CASE WorkflowAnalyze \/ WorkflowEnqueue
  BY <1>2, <1>4, WorkflowEndPrepares
<1>5. CASE StartGenerate \/ EndGenerate \/ generate_trial
  BY <1>2, <1>5, GenerationPrepares
<1>6. ASSUME NEW i \in 1 .. Len(Callbacks), handle_callback(i)
      PROVE  PrepInv'
  BY <1>2, <1>6, CallbackPrepares
<1>7. ASSUME NEW c \in Clients, HandleMessage(c)
      PROVE  PrepInv'
  BY <1>1, <1>2, <1>7, MessagePrepares
<1>8. ASSUME UNCHANGED <<pending, ready, waiting, holder, lstate, trial_idx, curr_layer>>,
             at' = at \/ at' # "workflow"
      PROVE  PrepInv'
  <2>1. UNCHANGED <<Queued, Held>>
    BY <1>2, <1>8 DEF Queued, Held
  <2>2. CodeStays /\ WaitingPrepared' /\ RequestsWait'
    BY <1>2, <1>8, LayersIdle
  <2>3. QueuedPrepared'
    BY <1>8, <2>1, <2>2, QueuedStays
  <2>4. FlowPrepared'
    BY <1>8 DEF PrepInv, FlowPrepared, Prepared
  <2> QED BY <2>2, <2>3, <2>4 DEF PrepInv
<1>9. CASE \E value \in BOOLEAN : handle_setcfg(value)
  <2>1. /\ UNCHANGED <<pending, ready, waiting, holder, lstate, trial_idx, curr_layer>>
        /\ at' # "workflow"
    BY <1>9 DEF handle_setcfg, trialVars, ringVars, plugVars
  <2> QED BY <1>8, <2>1
<1>10. ~handle_restart
  BY InvFacts DEF handle_restart, TypeOK
<1>11. CASE UNCHANGED sessionVars
  <2>1. UNCHANGED <<pending, ready, waiting, holder, lstate, trial_idx, curr_layer, at>>
    BY <1>11 DEF sessionVars, trialVars, ringVars, plugVars, flowVars
  <2> QED BY <1>8, <2>1
<1>12. CASE \E c \in Clients : ClientStep(c)
  BY <1>11, <1>12 DEF ClientStep
<1>13. CASE SessionStep
  BY <1>3, <1>4, <1>5, <1>6, <1>7, <1>9, <1>10, <1>13 DEF SessionStep, SessionWork, HttpRequest
<1> QED
  BY <1>11, <1>12, <1>13 DEF Next, vars

(* Whatever detour a trial took, when a client can fetch it its values     *)
(* satisfy the constraints and its code has been generated: with every     *)
(* stack of these layers, in whatever order they come, and every strategy  *)
(* that replaces what they reject.                                         *)
THEOREM QueueIsPrepared ==
  ASSUME NEW S, NEW N, NEW G, TrialContract(S, StackStates, N, G), UsesStack, NoGrowth,
         MaxRestarts = 0
  PROVE  Spec => []QueuedIsPrepared
<1> DEFINE Inv == TrialInv(S, StackStates, N, G) /\ PrepInv
<1>1. Init => Inv
  <2> SUFFICES ASSUME Init PROVE Inv
    OBVIOUS
  <2>1. TrialInv(S, StackStates, N, G)
    BY TrialInit
  <2>2. Queued = {} /\ Held = {} /\ waiting = {} /\ at = "select"
    <3>1. Slots = Cells(InitCap)
      BY DEF Init, SessionInit, Slots, Cells
    <3> QED BY <3>1 DEF Init, SessionInit, Queued, Held
  <2>3. RequestsWait
    <3>1. lstate = [k \in 1 .. LstackLen |-> StackInit(k)]
      BY DEF Init, SessionInit, UsesStack
    <3>2. \A k \in 1 .. LstackLen : Stack[k] = "codegen" => lstate[k].server = <<>>
      BY <3>1 DEF StackInit, CodegenInit
    <3>3. NoTwice(<<>>) /\ Members(<<>>) = {}
      BY DEF NoTwice, Members
    <3> QED BY <3>2, <3>3 DEF RequestsWait
  <2> QED BY <2>1, <2>2, <2>3 DEF PrepInv, QueuedPrepared, FlowPrepared, WaitingPrepared
<1>2. Inv /\ [Next]_vars => Inv'
  <2> SUFFICES ASSUME Inv, [Next]_vars PROVE Inv'
    OBVIOUS
  <2>1. TrialInv(S, StackStates, N, G)'
    BY TrialStepKept
  <2>2. PrepInv'
    BY PrepStep
  <2> QED BY <2>1, <2>2
<1>3. Inv => QueuedIsPrepared
  <2> SUFFICES ASSUME Inv, NEW i \in Queued \cup Held, NEW k \in 1 .. LstackLen
               PROVE  Passes(k, lstate[k], pending[i].val)
    BY DEF QueuedIsPrepared, Passes
  <2>1. AllPass(lstate, pending[i].val, LstackLen)
    BY DEF PrepInv, QueuedPrepared, Prepared
  <2>2. k <= LstackLen
    BY SessionAssumption
  <2> QED BY <2>1, <2>2 DEF AllPass
<1> HIDE DEF Inv
<1> QED
  BY <1>1, <1>2, <1>3, PTL DEF Spec

(* So it is with PRO, in one search.                                       *)
THEOREM ProQueueIsPrepared ==
  ASSUME UsesPro, UsesStack, OneSearch, NoGrowth
  PROVE  Spec => []QueuedIsPrepared
  BY OneSearchContract, QueueIsPrepared DEF OneSearch

-----------------------------------------------------------------------------
(***************************************************************************)
(* A session with PRO outlives the requests of a client that has it for    *)
(* itself, as long as no layer changes the order of trials.                *)
(***************************************************************************)

(* PRO's best point is one that was reported, also through a restart.      *)
LEMMA ProBestIsReported ==
  ASSUME UsesPro
  PROVE  BestIsReported(ProState)
<1>1. \A s \in StrategyInit : -1 <= StrategyBest(s).id
  BY DEF UsesPro, ProInit, ProBest, HPOINT_INITIALIZER
<1>2. ASSUME NEW s \in ProState, NEW o \in StrategyGenerate(s)
      PROVE  StrategyBest(o.next).id = StrategyBest(s).id
  <2>1. CASE s.send_idx = SimplexSize \/ s.converged
    BY <1>2, <2>1 DEF UsesPro, ProGenerate, ProBest
  <2>2. CASE ~(s.send_idx = SimplexSize \/ s.converged)
    <3>1. o \in ProSend(s)
      BY <1>2, <2>2 DEF UsesPro, ProGenerate
    <3>2. o.next.best = s.best
      BY <2>2, <3>1, ProSendIs
    <3> QED BY <3>2 DEF UsesPro, ProBest
  <2> QED BY <2>1, <2>2
<1>3. ASSUME NEW s \in ProState, NEW p \in Point, NEW h \in Hints,
             NEW o \in StrategyRejected(s, p, h)
      PROVE  StrategyBest(o.next).id = StrategyBest(s).id
  <2>1. o.next = s \/ \E n \in ProCount(s) : \/ o.next = n
                                             \/ n.send_idx # SimplexSize /\ o \in ProSend(n)
    BY <1>3 DEF UsesPro, ProRejected
  <2>2. ASSUME NEW n \in ProCount(s), n.send_idx # SimplexSize, o \in ProSend(n)
        PROVE  o.next.best = s.best
    BY <2>2, ProCountIs, ProSendIs
  <2>3. o.next.best = s.best
    BY <2>1, <2>2, ProCountIs
  <2> QED BY <2>3 DEF UsesPro, ProBest
<1>4. ASSUME NEW s \in ProState, NEW t \in Trials, NEW next \in StrategyAnalyze(s, t)
      PROVE  StrategyBest(next).id \in {StrategyBest(s).id, t.id}
  <2>1. next \in ProAnalyze(s, t)
    BY <1>4 DEF UsesPro
  <2>2. next = s \/ \E n \in ProCount(s) : next.best.id \in {n.best.id, t.id}
    BY <2>1, ProAnalyzeIs
  <2>3. next.best.id \in {s.best.id, t.id}
    BY <2>2, ProCountIs
  <2> QED BY <2>3 DEF UsesPro, ProBest
<1>5. ASSUME NEW s \in ProState
      PROVE  StrategyBest(StrategyRestart(s)).id = StrategyBest(s).id
  <2>1. ProRestart(s).best = s.best
    BY DEF ProRestart, ProInit
  <2>2. StrategyBest(StrategyRestart(s)) = ProRestart(s).best /\ StrategyBest(s) = s.best
    BY Zenon DEF UsesPro, ProBest
  <2> QED BY <2>1, <2>2
<1> QED
  BY <1>1, <1>2, <1>3, <1>4, <1>5 DEF BestIsReported

(* Constraints change no trial's place, but have it replaced or not.       *)
StraightStack == \A k \in 1 .. Len(Stack) : Stack[k] = "constraint"

LEMMA ConstraintsAreStraight ==
  ASSUME UsesStack, StraightStack
  PROVE  Straight(StackStates)
<1> SUFFICES ASSUME NEW k \in 1 .. LstackLen, NEW s \in StackStates[k], NEW t \in Trials
             PROVE  /\ \A b \in BOOLEAN : \A o \in StackGenerate(k, s, t, b) :
                         o.status \in {"ACCEPT", "REJECT", "ERROR"}
                    /\ \A o \in StackAnalyze(k, s, t) : o.status = "ACCEPT"
  BY DEF Straight, UsesStack
<1>1. Stack[k] = "constraint"
  BY DEF StraightStack, UsesStack, StackLen
<1>2. ASSUME NEW b \in BOOLEAN, NEW o \in StackGenerate(k, s, t, b)
      PROVE  o.status \in {"ACCEPT", "REJECT", "ERROR"}
  <2>1. o = Verdict(s, IF t.val \in ValidVals THEN "ACCEPT" ELSE "REJECT", t.perf)
    BY <1>1, <1>2 DEF StackGenerate, ConstraintGenerate
  <2> QED BY <2>1 DEF Verdict
<1>3. ASSUME NEW o \in StackAnalyze(k, s, t) PROVE o.status = "ACCEPT"
  <2>1. o = Verdict(s, "ACCEPT", t.perf)
    BY <1>1, <1>3 DEF StackAnalyze
  <2> QED BY <2>1 DEF Verdict
<1> QED
  BY <1>2, <1>3

(* SessionAlive: one client of a session with PRO that describes its own   *)
(* session is never told FAIL nor left with a dead one, with constraints   *)
(* in one search, and without layers through restarts; whatever order it   *)
(* calls the library in, also when it leaves in mid-test and joins again.  *)
THEOREM ProSessionAlive ==
  ASSUME UsesPro, UsesStack, StraightStack, OneSearch \/ PlainStack, NoGrowth,
         SigMatch \subseteq {TRUE}, \A c, d \in Clients : c = d
  PROVE  Spec => []SessionAlive
<1>1. PICK N, G : TrialContract(ProState, StackStates, N, G)
  BY OneSearchContract, PlainContract
<1>2. LoneContract(ProState, StackStates, N, G)
  BY <1>1, ProBestIsReported, ConstraintsAreStraight DEF LoneContract
<1> QED
  BY <1>2, LoneClientCorrect

=============================================================================
