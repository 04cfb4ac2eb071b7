------------------------------ MODULE PoolProofs ------------------------------
(***************************************************************************)
(* The session implements TrialPool: under the mapping of Harmony every    *)
(* step of the session, its layers and its clients is a step in the life   *)
(* of one trial, or no step at all.                                        *)
(*                                                                         *)
(* The proof goes by TrialStep, which says of each step what it does to    *)
(* slots, lists and holders; here it is said again of the four places that *)
(* a trial has in the pool.                                                *)
(*                                                                         *)
(* The last section uses the order of the pool's line, in which trials     *)
(* reach the clients: it has it that one client's reports are always of    *)
(* trials that are still out, or of the best point last sent.              *)
(***************************************************************************)
EXTENDS TrialProofs

(* The variables of the pool, as Harmony maps them.                        *)
Making  == {pending[i].id : i \in Generating}
Line    == [n \in 1 .. Len(ReadyQueue) |-> PointOf(pending[ReadyQueue[n]])]
HeldOf(c) == {i \in Slots : holder[i] = c}
Hands   == [c \in Clients |-> TrialPoints(HeldOf(c))]
Judging == TrialPoints(Analyzing)

-----------------------------------------------------------------------------
(* Which of the trials at layers are on their way to the ready queue.      *)
WaitingUp == {w[2] : w \in {v \in waiting : v[1] > 0}}

LEMMA GeneratingIs ==
  /\ Generating = WaitingUp \cup IF curr_layer > 0 THEN InFlow ELSE {}
  /\ Generating' = WaitingUp' \cup IF curr_layer' > 0 THEN InFlow' ELSE {}
  /\ WaitingUp \subseteq Waiting
  /\ Generating \subseteq Waiting \cup InFlow
<1>1. Generating = WaitingUp \cup IF curr_layer > 0 THEN InFlow ELSE {}
  BY DEF Generating, WaitingUp, InFlow
<1>2. Generating' = WaitingUp' \cup IF curr_layer' > 0 THEN InFlow' ELSE {}
  BY DEF Generating, WaitingUp, InFlow
<1>3. WaitingUp \subseteq Waiting
  BY DEF WaitingUp, Waiting
<1> QED
  BY <1>1, <1>2, <1>3

LEMMA AnalyzingIs ==
  /\ Analyzing = (Waiting \cup InFlow) \ Generating
  /\ Analyzing' = (Waiting' \cup InFlow') \ Generating'
<1>1. Analyzing = (Waiting \cup InFlow) \ Generating
  BY DEF Analyzing
<1>2. Analyzing' = (Waiting' \cup InFlow') \ Generating'
  BY DEF Analyzing
<1> QED
  BY <1>1, <1>2

(* The places of the pool share out the pending trials.                    *)
LEMMA StagesApart ==
  ASSUME TrialsAccounted
  PROVE  /\ Occupied = Generating \cup Analyzing \cup Queued \cup Held
         /\ Generating \cap Analyzing = {}
         /\ (Generating \cup Analyzing) \cap (Queued \cup Held) = {}
         /\ Queued \cap Held = {}
  BY GeneratingIs, AccountedIs DEF Apart, Analyzing

LEMMA WaitingUpIs ==
  ASSUME ParkedOnce, NEW layer, NEW i, <<layer, i>> \in waiting
  PROVE  i \in Waiting /\ (i \in WaitingUp <=> layer > 0)
<1>1. <<layer, i>>[1] = layer /\ <<layer, i>>[2] = i
  OBVIOUS
<1>2. i \in Waiting
  BY <1>1 DEF Waiting
<1>3. \A w \in waiting : w[2] = i => w = <<layer, i>>
  BY <1>1 DEF ParkedOnce
<1>4. i \in WaitingUp => layer > 0
  BY <1>1, <1>3 DEF WaitingUp
<1>5. layer > 0 => i \in WaitingUp
  BY <1>1 DEF WaitingUp
<1> QED
  BY <1>2, <1>4, <1>5

-----------------------------------------------------------------------------
(***************************************************************************)
(* A trial that is at a layer before and after the step: "here" and        *)
(* "there" are the layers, whose signs tell which way it goes.             *)
(***************************************************************************)
Turned(N, i, p, here, there) ==
  /\ i \in Slots /\ i \in Waiting \cup InFlow
  /\ Generating' \ {i} = Generating \ {i}
  /\ Analyzing' \ {i} = Analyzing \ {i}
  /\ i \in IF here > 0 THEN Generating ELSE Analyzing
  /\ i \in IF there > 0 THEN Generating' ELSE Analyzing'
  /\ SamePoints(Slots \ {i}) /\ PointOf(pending[i])' = p
  /\ p \in Point
  /\ p.id = pending[i].id \/ N[strat] <= p.id
  /\ Redirects(i, p, here, there)
  /\ UNCHANGED <<ready, ready_head, holder>>

(* What is written to a slot.                                              *)
LEMMA PointsWritten ==
  ASSUME SlotTypes, NEW i \in Slots, NEW p \in Point, NEW perf,
         pending' = [pending EXCEPT ![i] = Trial(p, perf)]
  PROVE  SamePoints(Slots \ {i}) /\ PointOf(pending[i])' = p
<1> USE DEF SlotTypes
<1> DEFINE t == Trial(p, perf)
<1>1. [id |-> t.id, val |-> t.val] = p
  BY DEF Trial, Point
<1>2. pending' = [pending EXCEPT ![i] = t]
  OBVIOUS
<1> HIDE DEF t
<1>3. \A j \in Slots : pending'[j] = IF j = i THEN t ELSE pending[j]
  BY <1>2
<1> QED
  BY <1>1, <1>3 DEF SamePoints, PointOf

LEMMA PassedTurns ==
  ASSUME NEW N, NEW G, SlotTypes, TrialsAccounted,
         NEW i \in Slots, NEW p \in Point, NEW perf, Passed(N, G, i, p, perf)
  PROVE  Turned(N, i, p, curr_layer, curr_layer')
<1>1. InFlow = {i} /\ InFlow' = {i} /\ waiting' = waiting
      /\ UNCHANGED <<ready, ready_head, holder>>
  BY DEF Passed, ringVars
<1>2. i \notin Waiting
  BY <1>1 DEF TrialsAccounted
<1>3. Waiting' = Waiting /\ WaitingUp' = WaitingUp
  BY <1>1 DEF Waiting, WaitingUp
<1>4. /\ Generating = WaitingUp \cup IF curr_layer > 0 THEN {i} ELSE {}
      /\ Generating' = WaitingUp \cup IF curr_layer' > 0 THEN {i} ELSE {}
      /\ WaitingUp \subseteq Waiting
  BY <1>1, <1>3, GeneratingIs
<1>5. /\ Analyzing = (Waiting \cup {i}) \ Generating
      /\ Analyzing' = (Waiting \cup {i}) \ Generating'
  BY <1>1, <1>3, AnalyzingIs
<1>6. SamePoints(Slots \ {i}) /\ PointOf(pending[i])' = p
  BY PointsWritten DEF Passed
<1>7. /\ Generating' \ {i} = Generating \ {i} /\ Analyzing' \ {i} = Analyzing \ {i}
      /\ i \in IF curr_layer > 0 THEN Generating ELSE Analyzing
      /\ i \in IF curr_layer' > 0 THEN Generating' ELSE Analyzing'
  BY <1>2, <1>4, <1>5
<1> QED
  BY <1>1, <1>6, <1>7 DEF Turned, Passed, Replaces

LEMMA ParkedTurns ==
  ASSUME NEW N, NEW G, SlotTypes, TrialsAccounted, TrialsAccounted',
         NEW i \in Slots, NEW layer, NEW perf, Parked(i, layer, perf)
  PROVE  Turned(N, i, PointOf(pending[i]), layer, layer)
<1>1. InFlow = {i} /\ InFlow' = {} /\ waiting' = waiting \cup {<<layer, i>>}
      /\ layer = curr_layer /\ UNCHANGED <<ready, ready_head, holder>>
  BY DEF Parked, ringVars
<1>2. i \notin Waiting
  BY <1>1 DEF TrialsAccounted
<1>3. <<layer, i>>[1] = layer /\ <<layer, i>>[2] = i
  OBVIOUS
<1>4. /\ Waiting' = Waiting \cup {i}
      /\ WaitingUp' = WaitingUp \cup IF layer > 0 THEN {i} ELSE {}
  BY <1>1, <1>3 DEF Waiting, WaitingUp
<1>5. /\ Generating = WaitingUp \cup IF layer > 0 THEN {i} ELSE {}
      /\ Generating' = WaitingUp'
      /\ WaitingUp \subseteq Waiting
  BY <1>1, GeneratingIs
<1>6. /\ Analyzing = (Waiting \cup {i}) \ Generating
      /\ Analyzing' = Waiting' \ Generating'
  BY <1>1, AnalyzingIs
<1>7. PointOf(pending[i]) \in Point /\ PointOf(pending[i]).id = pending[i].id
  BY DEF PointOf, Point, Trials, SlotTypes
<1>8. SamePoints(Slots \ {i}) /\ PointOf(pending[i])' = PointOf(pending[i])
  BY <1>7, PointsWritten DEF Parked
<1>9. /\ Generating' \ {i} = Generating \ {i} /\ Analyzing' \ {i} = Analyzing \ {i}
      /\ i \in IF layer > 0 THEN Generating ELSE Analyzing
      /\ i \in IF layer > 0 THEN Generating' ELSE Analyzing'
  BY <1>2, <1>4, <1>5, <1>6
<1> QED
  BY <1>1, <1>7, <1>8, <1>9 DEF Turned, Redirects

LEMMA ResumedTurns ==
  ASSUME NEW N, NEW G, SlotTypes, TrialsAccounted, TrialsAccounted',
         NEW i \in Slots, NEW layer, NEW p \in Point, Resumed(N, G, i, layer, p)
  PROVE  Turned(N, i, p, layer, curr_layer')
<1>1. InFlow = {} /\ InFlow' = {i} /\ waiting' = waiting \ {<<layer, i>>}
      /\ <<layer, i>> \in waiting /\ UNCHANGED <<ready, ready_head, holder>>
  BY DEF Resumed, ringVars
<1>2. ParkedOnce
  BY AccountedIs
<1>3. <<layer, i>>[1] = layer /\ <<layer, i>>[2] = i
  OBVIOUS
<1>4. i \in Waiting /\ (i \in WaitingUp <=> layer > 0)
  BY <1>1, <1>2, WaitingUpIs
<1>5. Waiting' = Waiting \ {i} /\ WaitingUp' = WaitingUp \ {i}
  BY <1>1, <1>2, <1>3 DEF Waiting, WaitingUp, ParkedOnce
<1>6. /\ Generating = WaitingUp
      /\ Generating' = WaitingUp' \cup IF curr_layer' > 0 THEN {i} ELSE {}
      /\ WaitingUp \subseteq Waiting
  BY <1>1, GeneratingIs
<1>7. /\ Analyzing = Waiting \ Generating
      /\ Analyzing' = (Waiting' \cup {i}) \ Generating'
  BY <1>1, AnalyzingIs
<1>8. SamePoints(Slots \ {i}) /\ PointOf(pending[i])' = p
  BY PointsWritten DEF Resumed
<1>9. /\ Generating' \ {i} = Generating \ {i} /\ Analyzing' \ {i} = Analyzing \ {i}
      /\ i \in IF layer > 0 THEN Generating ELSE Analyzing
      /\ i \in IF curr_layer' > 0 THEN Generating' ELSE Analyzing'
  BY <1>4, <1>5, <1>6, <1>7
<1> QED
  BY <1>1, <1>4, <1>8, <1>9 DEF Turned, Resumed, Replaces

-----------------------------------------------------------------------------
(***************************************************************************)
(* What happens to each place of the pool when slot i joins it, leaves it  *)
(* or is given another point.                                              *)
(***************************************************************************)
LEMMA MakingSame ==
  ASSUME Generating' = Generating, SamePoints(Generating)
  PROVE  Making' = Making
<1>1. \A j \in Generating : pending'[j].id = pending[j].id
  BY DEF SamePoints, PointOf
<1> QED
  BY <1>1 DEF Making

LEMMA MakingMore ==
  ASSUME NEW i, Generating' = Generating \cup {i}, SamePoints(Generating \ {i}),
         i \notin Generating
  PROVE  Making' = Making \cup {pending'[i].id}
<1>1. \A j \in Generating : pending'[j].id = pending[j].id
  BY DEF SamePoints, PointOf
<1> QED
  BY <1>1 DEF Making

LEMMA MakingLess ==
  ASSUME NEW i \in Generating, Generating' = Generating \ {i}, SamePoints(Generating \ {i}),
         Generating \subseteq Occupied, IdsUnique
  PROVE  /\ pending[i].id \in Making
         /\ Making' = Making \ {pending[i].id}
<1>1. \A j \in Generating \ {i} : pending'[j].id = pending[j].id
  BY DEF SamePoints, PointOf
<1>2. \A j \in Generating \ {i} : pending[j].id # pending[i].id
  BY DEF IdsUnique
<1> QED
  BY <1>1, <1>2 DEF Making

LEMMA MakingOther ==
  ASSUME NEW i \in Generating, Generating' = Generating, SamePoints(Generating \ {i}),
         Generating \subseteq Occupied, IdsUnique
  PROVE  /\ pending[i].id \in Making
         /\ Making' = (Making \ {pending[i].id}) \cup {pending'[i].id}
<1>1. \A j \in Generating \ {i} : pending'[j].id = pending[j].id
  BY DEF SamePoints, PointOf
<1>2. \A j \in Generating \ {i} : pending[j].id # pending[i].id
  BY DEF IdsUnique
<1> QED
  BY <1>1, <1>2 DEF Making

LEMMA JudgingSame ==
  ASSUME Analyzing' = Analyzing, SamePoints(Analyzing)
  PROVE  Judging' = Judging
<1>1. \A j \in Analyzing : PointOf(pending'[j]) = PointOf(pending[j])
  BY DEF SamePoints, PointOf
<1>2. Judging' = {PointOf(pending'[j]) : j \in Analyzing'}
  BY DEF Judging, TrialPoints, PointOf
<1> QED
  BY <1>1, <1>2 DEF Judging, TrialPoints

LEMMA JudgingMore ==
  ASSUME NEW i, Analyzing' = Analyzing \cup {i}, SamePoints(Analyzing), NEW p,
         PointOf(pending[i])' = p
  PROVE  Judging' = Judging \cup {p}
<1>1. /\ \A j \in Analyzing : PointOf(pending'[j]) = PointOf(pending[j])
      /\ PointOf(pending'[i]) = p
  BY DEF SamePoints, PointOf
<1>2. Judging' = {PointOf(pending'[j]) : j \in Analyzing'}
  BY DEF Judging, TrialPoints, PointOf
<1> QED
  BY <1>1, <1>2 DEF Judging, TrialPoints

LEMMA JudgingLess ==
  ASSUME NEW i \in Analyzing, Analyzing' = Analyzing \ {i}, SamePoints(Analyzing \ {i}),
         Analyzing \subseteq Occupied, IdsUnique
  PROVE  /\ PointOf(pending[i]) \in Judging
         /\ Judging' = Judging \ {PointOf(pending[i])}
<1>1. \A j \in Analyzing \ {i} : PointOf(pending'[j]) = PointOf(pending[j])
  BY DEF SamePoints, PointOf
<1>2. Judging' = {PointOf(pending'[j]) : j \in Analyzing'}
  BY DEF Judging, TrialPoints, PointOf
<1>3. \A j \in Analyzing \ {i} : PointOf(pending[j]).id # PointOf(pending[i]).id
  BY DEF IdsUnique, PointOf
<1> QED
  BY <1>1, <1>2, <1>3 DEF Judging, TrialPoints

LEMMA HandsSame ==
  ASSUME SlotTypes, Slots' = Slots, UNCHANGED holder, SamePoints(Held)
  PROVE  Hands' = Hands
<1>1. ASSUME NEW c \in Clients
      PROVE  TrialPoints(HeldOf(c))' = TrialPoints(HeldOf(c))
  <2>1. HeldOf(c)' = HeldOf(c) /\ HeldOf(c) \subseteq Held
    BY SessionAssumption DEF HeldOf, Held
  <2>2. \A j \in HeldOf(c) : PointOf(pending'[j]) = PointOf(pending[j])
    BY <2>1 DEF SamePoints, PointOf
  <2>3. TrialPoints(HeldOf(c))' = {PointOf(pending'[j]) : j \in HeldOf(c)'}
    BY DEF TrialPoints, PointOf
  <2> QED BY <2>1, <2>2, <2>3 DEF TrialPoints
<1> QED
  BY <1>1 DEF Hands

(* Slot i, whose trial keeps its point, is handed to client c ...          *)
LEMMA HandsMore ==
  ASSUME SlotTypes, Slots' = Slots, NEW i \in Slots, NEW c \in Clients, i \notin Held,
         holder' = [holder EXCEPT ![i] = c], SamePoints(Slots)
  PROVE  Hands' = [Hands EXCEPT ![c] = @ \cup {PointOf(pending[i])}]
<1>1. \A j \in Slots : PointOf(pending'[j]) = PointOf(pending[j])
  BY DEF SamePoints, PointOf
<1>2. \A j \in Slots : holder'[j] = IF j = i THEN c ELSE holder[j]
  BY DEF SlotTypes
<1>3. holder[i] = NoClient
  BY DEF Held
<1>4. ASSUME NEW d \in Clients
      PROVE  Hands'[d] = IF d = c THEN Hands[d] \cup {PointOf(pending[i])} ELSE Hands[d]
  <2>1. HeldOf(d)' = IF d = c THEN HeldOf(d) \cup {i} ELSE HeldOf(d)
    BY <1>2, <1>3, SessionAssumption DEF HeldOf
  <2>2. TrialPoints(HeldOf(d))' = {PointOf(pending[j]) : j \in HeldOf(d)'}
    <3>1. TrialPoints(HeldOf(d))' = {PointOf(pending'[j]) : j \in HeldOf(d)'}
      BY DEF TrialPoints, PointOf
    <3>2. \A j \in HeldOf(d)' : j \in Slots
      BY DEF HeldOf
    <3> QED BY <1>1, <3>1, <3>2
  <2>3. Hands'[d] = TrialPoints(HeldOf(d))' /\ Hands[d] = TrialPoints(HeldOf(d))
    BY DEF Hands
  <2> QED BY <2>1, <2>2, <2>3 DEF TrialPoints
<1>5. Hands = [d \in Clients |-> Hands[d]] /\ Hands' = [d \in Clients |-> Hands'[d]]
  BY DEF Hands
<1> HIDE DEF Hands
<1> QED
  BY <1>4, <1>5

(* ... and given back by it.                                               *)
LEMMA HandsLess ==
  ASSUME SlotTypes, Slots' = Slots, NEW i \in Slots, NEW c \in Clients, holder[i] = c,
         holder' = [holder EXCEPT ![i] = NoClient], SamePoints(Slots),
         Held \subseteq Occupied, IdsUnique
  PROVE  /\ PointOf(pending[i]) \in Hands[c]
         /\ Hands' = [Hands EXCEPT ![c] = @ \ {PointOf(pending[i])}]
<1>1. \A j \in Slots : PointOf(pending'[j]) = PointOf(pending[j])
  BY DEF SamePoints, PointOf
<1>2. \A j \in Slots : holder'[j] = IF j = i THEN NoClient ELSE holder[j]
  BY DEF SlotTypes
<1>3. i \in HeldOf(c) /\ HeldOf(c) \subseteq Occupied
  BY SessionAssumption DEF Held, HeldOf
<1>4. \A j \in HeldOf(c) \ {i} : PointOf(pending[j]).id # PointOf(pending[i]).id
  BY <1>3 DEF IdsUnique, PointOf
<1>5. ASSUME NEW d \in Clients
      PROVE  Hands'[d] = IF d = c THEN Hands[d] \ {PointOf(pending[i])} ELSE Hands[d]
  <2>1. HeldOf(d)' = IF d = c THEN HeldOf(d) \ {i} ELSE HeldOf(d)
    BY <1>2, SessionAssumption DEF HeldOf
  <2>2. TrialPoints(HeldOf(d))' = {PointOf(pending[j]) : j \in HeldOf(d)'}
    <3>1. TrialPoints(HeldOf(d))' = {PointOf(pending'[j]) : j \in HeldOf(d)'}
      BY DEF TrialPoints, PointOf
    <3>2. \A j \in HeldOf(d)' : j \in Slots
      BY DEF HeldOf
    <3> QED BY <1>1, <3>1, <3>2
  <2>3. Hands'[d] = TrialPoints(HeldOf(d))' /\ Hands[d] = TrialPoints(HeldOf(d))
    BY DEF Hands
  <2>4. d = c => {PointOf(pending[j]) : j \in HeldOf(d) \ {i}}
                   = {PointOf(pending[j]) : j \in HeldOf(d)} \ {PointOf(pending[i])}
    BY <1>3, <1>4
  <2> QED BY <2>1, <2>2, <2>3, <2>4 DEF TrialPoints
<1>6. Hands = [d \in Clients |-> Hands[d]] /\ Hands' = [d \in Clients |-> Hands'[d]]
  BY DEF Hands
<1>7. PointOf(pending[i]) \in Hands[c]
  BY <1>3 DEF Hands, TrialPoints
<1> HIDE DEF Hands
<1> QED
  BY <1>5, <1>6, <1>7

-----------------------------------------------------------------------------
(* The queue holds the indexes that are in the ring.                       *)
LEMMA QueueIs ==
  ASSUME SlotTypes, RingShape
  PROVE  /\ ReadyQueue \in Seq(Int)
         /\ \A n \in 1 .. Len(ReadyQueue) : ReadyQueue[n] \in Queued
         /\ ready[ready_head] # NoTrial =>
              ReadyQueue # <<>> /\ ReadyQueue[1] = ready[ready_head]
<1> DEFINE size == SizeOf(ready, ready_head, ready_tail, pending_cap)
           cell(n) == ready[CellOf(ready_head, n, pending_cap)]
<1>1. /\ pending_cap \in Nat \ {0}
      /\ ready \in [Cells(pending_cap) -> Int]
      /\ ready_head \in Cells(pending_cap) /\ ready_tail \in Cells(pending_cap)
      /\ WellShaped(ready, ready_head, ready_tail, pending_cap)
  <2>1. Slots = Cells(pending_cap) /\ Slots \cup {NoTrial} \subseteq Int
    BY DEF SlotTypes, Cells, NoTrial
  <2> QED BY <2>1 DEF SlotTypes, RingShape
<1>2. size \in 0 .. pending_cap
      /\ \A n \in 1 .. pending_cap : cell(n) # NoTrial <=> n <= size
  BY <1>1, SizeType
<1>3. ReadyQueue = [n \in 1 .. size |-> cell(n)]
  BY <1>1, ContentsIs DEF ReadyQueue
<1>4. \A n \in 1 .. pending_cap : CellOf(ready_head, n, pending_cap) \in Slots
  BY <1>1, CellType DEF SlotTypes
<1>5. ready[ready_head] = cell(1) /\ 1 \in 1 .. pending_cap
  BY <1>1 DEF CellOf, Cells
<1> HIDE DEF size
<1>6. \A n \in 1 .. size : cell(n) \in Queued /\ cell(n) \in Int
  <2>1. \A n \in 1 .. size : n \in 1 .. pending_cap /\ n <= size
    BY <1>1, <1>2
  <2>2. \A n \in 1 .. size : CellOf(ready_head, n, pending_cap) \in Slots /\ cell(n) # NoTrial
    BY <1>2, <1>4, <2>1
  <2>3. \A p \in Slots : ready[p] # NoTrial => ready[p] \in Queued
    BY DEF Queued
  <2>4. \A p \in Slots : ready[p] \in Int
    BY <1>1 DEF SlotTypes
  <2> QED BY <2>2, <2>3, <2>4
<1> HIDE DEF cell
<1>7. ReadyQueue \in Seq(Int) /\ Len(ReadyQueue) = size
      /\ \A n \in 1 .. size : ReadyQueue[n] = cell(n)
  BY <1>2, <1>3, <1>6
<1>8. ready[ready_head] # NoTrial => 1 \in 1 .. size
  BY <1>2, <1>5
<1>9. 1 \in 1 .. size => ReadyQueue # <<>>
  BY <1>7
<1> QED
  BY <1>5, <1>6, <1>7, <1>8, <1>9

LEMMA LineIs ==
  ASSUME SlotTypes, RingShape
  PROVE  /\ Line \in Seq(Point) /\ Len(Line) = Len(ReadyQueue)
         /\ \A n \in 1 .. Len(ReadyQueue) : Line[n] = PointOf(pending[ReadyQueue[n]])
<1>1. Len(ReadyQueue) \in Nat /\ \A n \in 1 .. Len(ReadyQueue) : ReadyQueue[n] \in Slots
  BY QueueIs DEF Queued, SlotTypes
<1>2. \A j \in Slots : PointOf(pending[j]) \in Point
  BY DEF PointOf, Point, Trials, SlotTypes
<1>3. \A n \in 1 .. Len(ReadyQueue) : PointOf(pending[ReadyQueue[n]]) \in Point
  BY <1>1, <1>2
<1> QED
  BY <1>1, <1>3 DEF Line

LEMMA LineSame ==
  ASSUME SlotTypes, RingShape, UNCHANGED <<ready, ready_head, pending_cap>>, SamePoints(Queued)
  PROVE  Line' = Line
<1>1. ReadyQueue' = ReadyQueue
  BY DEF ReadyQueue
<1>2. \A n \in 1 .. Len(ReadyQueue) :
        PointOf(pending'[ReadyQueue[n]]) = PointOf(pending[ReadyQueue[n]])
  BY QueueIs DEF SamePoints, PointOf
<1>3. Line' = [n \in 1 .. Len(ReadyQueue') |-> PointOf(pending'[ReadyQueue'[n]])]
  BY DEF Line, PointOf
<1> QED
  BY <1>1, <1>2, <1>3 DEF Line

LEMMA LineMore ==
  ASSUME SlotTypes, RingShape, NEW i \in Slots, ready[ready_tail] = NoTrial, Enqueue(i),
         UNCHANGED <<ready_head, pending, pending_cap>>
  PROVE  Line' = Append(Line, PointOf(pending[i]))
<1> DEFINE k == Len(ReadyQueue)
<1>1. ReadyQueue' = Append(ReadyQueue, i) /\ i \in Int
  <2>1. /\ pending_cap \in Nat \ {0}
        /\ ready \in [Cells(pending_cap) -> Int]
        /\ ready_head \in Cells(pending_cap) /\ ready_tail \in Cells(pending_cap)
        /\ WellShaped(ready, ready_head, ready_tail, pending_cap)
        /\ i \in Nat
    <3>1. Slots = Cells(pending_cap) /\ Slots \subseteq Nat /\ Slots \cup {NoTrial} \subseteq Int
      BY DEF SlotTypes, Cells, NoTrial
    <3> QED BY <3>1 DEF SlotTypes, RingShape
  <2>2. Contents([ready EXCEPT ![ready_tail] = i], ready_head, pending_cap)
          = Append(ReadyQueue, i)
    BY <2>1, EnqueueAppends DEF ReadyQueue
  <2>3. i \in Int
    BY <2>1
  <2> QED BY <2>2, <2>3 DEF Enqueue, ReadyQueue
<1>2. /\ k \in Nat /\ Len(ReadyQueue') = k + 1
      /\ \A n \in 1 .. k + 1 : ReadyQueue'[n] = IF n = k + 1 THEN i ELSE ReadyQueue[n]
  <2>1. ReadyQueue \in Seq(Int) /\ k \in Nat
    BY QueueIs
  <2>2. /\ Len(ReadyQueue') = k + 1 /\ ReadyQueue'[k + 1] = i
        /\ \A n \in 1 .. k : ReadyQueue'[n] = ReadyQueue[n]
    BY <1>1, <2>1, AppendProperties
  <2>3. \A n \in 1 .. k + 1 : n # k + 1 => n \in 1 .. k
    BY <2>1
  <2> QED BY <2>1, <2>2, <2>3
<1>3. Line' = [n \in 1 .. k + 1 |-> PointOf(pending[ReadyQueue'[n]])]
  BY <1>2 DEF Line, PointOf
<1>4. Line \in Seq(Point) /\ Len(Line) = k
      /\ \A n \in 1 .. k : Line[n] = PointOf(pending[ReadyQueue[n]])
  BY LineIs
<1>5. PointOf(pending[i]) \in Point
  BY DEF PointOf, Point, Trials, SlotTypes
<1> HIDE DEF k, Line
<1>6. \A n \in 1 .. k + 1 :
        PointOf(pending[ReadyQueue'[n]]) = IF n = k + 1 THEN PointOf(pending[i]) ELSE Line[n]
  <2>1. \A n \in 1 .. k + 1 : n # k + 1 => n \in 1 .. k
    BY <1>2
  <2> QED BY <1>2, <1>4, <2>1
<1>7. \A n \in 1 .. k + 1 : PointOf(pending[ReadyQueue'[n]]) \in Point
  <2>1. \A n \in 1 .. k + 1 : n # k + 1 => Line[n] \in Point
    BY <1>2, <1>4
  <2> QED BY <1>5, <1>6, <2>1
<1>8. /\ Line' \in Seq(Point) /\ Len(Line') = k + 1
      /\ \A n \in 1 .. k + 1 : Line'[n] = PointOf(pending[ReadyQueue'[n]])
  BY <1>2, <1>3, <1>7
<1>9. /\ Append(Line, PointOf(pending[i])) \in Seq(Point)
      /\ Len(Append(Line, PointOf(pending[i]))) = k + 1
      /\ \A n \in 1 .. k + 1 : Append(Line, PointOf(pending[i]))[n]
           = IF n = k + 1 THEN PointOf(pending[i]) ELSE Line[n]
  BY <1>4, <1>5, AppendProperties
<1> QED
  BY <1>6, <1>8, <1>9, SeqEqual

LEMMA LineLess ==
  ASSUME SlotTypes, RingShape, ready[ready_head] # NoTrial, Dequeue,
         UNCHANGED <<pending, pending_cap>>
  PROVE  /\ Line # <<>> /\ Head(Line) = PointOf(pending[ready[ready_head]])
         /\ Line' = Tail(Line)
<1> DEFINE k == Len(ReadyQueue)
<1>1. ReadyQueue' = Tail(ReadyQueue) /\ ReadyQueue # <<>>
  <2>1. /\ pending_cap \in Nat \ {0}
        /\ ready \in [Cells(pending_cap) -> Int]
        /\ ready_head \in Cells(pending_cap) /\ ready_tail \in Cells(pending_cap)
        /\ WellShaped(ready, ready_head, ready_tail, pending_cap)
    <3>1. Slots = Cells(pending_cap) /\ Slots \cup {NoTrial} \subseteq Int
      BY DEF SlotTypes, Cells, NoTrial
    <3> QED BY <3>1 DEF SlotTypes, RingShape
  <2>2. /\ ReadyQueue # <<>>
        /\ Contents([ready EXCEPT ![ready_head] = NoTrial],
                    Advance(ready_head, pending_cap), pending_cap) = Tail(ReadyQueue)
    BY <2>1, DequeueRemoves DEF ReadyQueue
  <2> QED BY <2>2 DEF Dequeue, ReadyQueue
<1>2. /\ k \in Nat \ {0} /\ Len(ReadyQueue') = k - 1
      /\ \A n \in 1 .. k - 1 : ReadyQueue'[n] = ReadyQueue[n + 1]
      /\ ReadyQueue[1] = ready[ready_head]
  <2>1. ReadyQueue \in Seq(Int) /\ ReadyQueue[1] = ready[ready_head]
    BY QueueIs
  <2>2. k \in Nat \ {0}
    BY <1>1, <2>1
  <2> QED BY <1>1, <2>1, <2>2, HeadTailProperties
<1>3. Line' = [n \in 1 .. k - 1 |-> PointOf(pending[ReadyQueue'[n]])]
  BY <1>2 DEF Line, PointOf
<1>4. Line \in Seq(Point) /\ Len(Line) = k
      /\ \A n \in 1 .. k : Line[n] = PointOf(pending[ReadyQueue[n]])
  BY LineIs
<1> HIDE DEF k, Line
<1>5. \A n \in 1 .. k - 1 :
        PointOf(pending[ReadyQueue'[n]]) = Line[n + 1] /\ Line[n + 1] \in Point
  <2>1. \A n \in 1 .. k - 1 : n + 1 \in 1 .. k
    BY <1>2
  <2>2. \A n \in 1 .. k : Line[n] \in Point
    BY <1>4
  <2> QED BY <1>2, <1>4, <2>1, <2>2
<1>6. /\ Line' \in Seq(Point) /\ Len(Line') = k - 1
      /\ \A n \in 1 .. k - 1 : Line'[n] = Line[n + 1]
  <2>1. k - 1 \in Nat
    BY <1>2
  <2> QED BY <1>3, <1>5, <2>1
<1>7. /\ Line # <<>> /\ Head(Line) = Line[1]
      /\ Tail(Line) \in Seq(Point) /\ Len(Tail(Line)) = k - 1
      /\ \A n \in 1 .. k - 1 : Tail(Line)[n] = Line[n + 1]
  BY <1>2, <1>4, HeadTailProperties
<1>8. Line' = Tail(Line)
  BY <1>6, <1>7, SeqEqual
<1>9. Line[1] = PointOf(pending[ready[ready_head]])
  BY <1>2, <1>4
<1> QED
  BY <1>7, <1>8, <1>9

-----------------------------------------------------------------------------
(* The ids in the pool are those of the pending trials.                    *)
LEMMA LiveIs ==
  ASSUME SlotTypes, RingShape, TrialsAccounted
  PROVE  Pool!Live \subseteq LiveIds
<1>1. Pool!Live = Making \cup {t.id : t \in {Line[n] : n \in 1 .. Len(Line)}}
                    \cup {t.id : t \in Judging} \cup UNION {{t.id : t \in Hands[c]} : c \in Clients}
  BY DEF Pool!Live, Pool!IdsOf, Pool!InLine, Making, Line, Judging, Hands, HeldOf
<1>2. /\ Generating \subseteq Occupied /\ Analyzing \subseteq Occupied
      /\ Queued \subseteq Occupied /\ Held \subseteq Occupied
  BY StagesApart
<1>3. \A i : PointOf(pending[i]).id = pending[i].id
  BY DEF PointOf
<1>4. Making \subseteq LiveIds
  BY <1>2 DEF Making, LiveIds
<1>5. \A t \in {Line[n] : n \in 1 .. Len(Line)} : t.id \in LiveIds
  <2>1. \A n \in 1 .. Len(Line) : ReadyQueue[n] \in Occupied
                                  /\ Line[n] = PointOf(pending[ReadyQueue[n]])
    BY <1>2, QueueIs, LineIs
  <2> QED BY <1>3, <2>1 DEF LiveIds
<1>6. \A t \in Judging : t.id \in LiveIds
  BY <1>2, <1>3 DEF Judging, TrialPoints, LiveIds
<1>7. \A c \in Clients : \A t \in Hands[c] : t.id \in LiveIds
  <2>1. \A c \in Clients : HeldOf(c) \subseteq Occupied
    BY <1>2, SessionAssumption DEF HeldOf, Held
  <2> QED BY <1>3, <2>1 DEF Hands, TrialPoints, LiveIds
<1> QED
  BY <1>1, <1>4, <1>5, <1>6, <1>7

(* The steps of the pool.                                                  *)
PoolStep == Pool!PoolNext \/ UNCHANGED Pool!poolVars

LEMMA PoolStutters ==
  ASSUME UNCHANGED <<Making, Line, Hands, Judging>>
  PROVE  PoolStep
  BY DEF PoolStep, Pool!poolVars, Making, Line, Hands, HeldOf, Judging

LEMMA PoolGenerates ==
  ASSUME NEW id \in PoolIds, id \notin Pool!Live, Making' = Making \cup {id},
         UNCHANGED <<Line, Hands, Judging>>
  PROVE  PoolStep
<1>1. Pool!Generate(id)
  BY DEF Pool!Generate, Making, Line, Hands, HeldOf, Judging
<1> QED
  BY <1>1 DEF PoolStep, Pool!PoolNext

LEMMA PoolReplaces ==
  ASSUME NEW old \in Making, NEW new \in PoolIds, new \notin Pool!Live,
         Making' = (Making \ {old}) \cup {new}, UNCHANGED <<Line, Hands, Judging>>
  PROVE  PoolStep
<1>1. Pool!Replace(old, new)
  BY DEF Pool!Replace, Making, Line, Hands, HeldOf, Judging
<1> QED
  BY <1>1 DEF PoolStep, Pool!PoolNext, Making

LEMMA PoolQueues ==
  ASSUME NEW p \in Point, p.id \in Making, p.val \in Vals, Making' = Making \ {p.id},
         Line' = Append(Line, p), UNCHANGED <<Hands, Judging>>
  PROVE  PoolStep
<1>1. [id |-> p.id, val |-> p.val] = p
  BY DEF Point
<1>2. Pool!Queue(p.id, p.val)
  BY <1>1 DEF Pool!Queue, Making, Line, Hands, HeldOf, Judging
<1> QED
  BY <1>2 DEF PoolStep, Pool!PoolNext, Making

LEMMA PoolSkips ==
  ASSUME NEW p \in Point, p.id \in Making, p.val \in Vals, Making' = Making \ {p.id},
         Judging' = Judging \cup {p}, UNCHANGED <<Line, Hands>>
  PROVE  PoolStep
<1>1. [id |-> p.id, val |-> p.val] = p
  BY DEF Point
<1>2. Pool!Skip(p.id, p.val)
  BY <1>1 DEF Pool!Skip, Making, Line, Hands, HeldOf, Judging
<1> QED
  BY <1>2 DEF PoolStep, Pool!PoolNext, Making

LEMMA PoolFetches ==
  ASSUME NEW c \in Clients, Line # <<>>, Line' = Tail(Line),
         Hands' = [Hands EXCEPT ![c] = @ \cup {Head(Line)}], UNCHANGED <<Making, Judging>>
  PROVE  PoolStep
<1>1. Pool!Fetch(c)
  BY DEF Pool!Fetch, Making, Line, Hands, HeldOf, Judging
<1> QED
  BY <1>1 DEF PoolStep, Pool!PoolNext

LEMMA PoolReports ==
  ASSUME NEW c \in Clients, NEW p \in Hands[c], Hands' = [Hands EXCEPT ![c] = @ \ {p}],
         Judging' = Judging \cup {p}, UNCHANGED <<Making, Line>>
  PROVE  PoolStep
<1>1. Pool!Report(c, p)
  BY DEF Pool!Report, Making, Line, Hands, HeldOf, Judging
<1> QED
  BY <1>1 DEF PoolStep, Pool!PoolNext, Hands, HeldOf

LEMMA PoolRetries ==
  ASSUME NEW p \in Judging, Judging' = Judging \ {p}, Making' = Making \cup {p.id},
         UNCHANGED <<Line, Hands>>
  PROVE  PoolStep
<1>1. Pool!Retry(p)
  BY DEF Pool!Retry, Making, Line, Hands, HeldOf, Judging
<1> QED
  BY <1>1 DEF PoolStep, Pool!PoolNext, Judging

LEMMA PoolJudges ==
  ASSUME NEW p \in Judging, Judging' = Judging \ {p}, UNCHANGED <<Making, Line, Hands>>
  PROVE  PoolStep
<1>1. Pool!Judge(p)
  BY DEF Pool!Judge, Making, Line, Hands, HeldOf, Judging
<1> QED
  BY <1>1 DEF PoolStep, Pool!PoolNext, Judging

-----------------------------------------------------------------------------
(* What the steps below use of the invariant.                              *)
PoolReady(N, G) ==
  /\ SlotTypes /\ RingShape /\ Slots' = Slots /\ UNCHANGED pending_cap
  /\ curr_layer' \in Int
  /\ N[strat] \in Nat /\ \A x \in LiveIds : x < N[strat]
  /\ TrialsAccounted /\ IdsUnique /\ StratKnows(G)
  /\ Nat \subseteq PoolIds

LEMMA PoolFacts ==
  ASSUME NEW N, NEW G, PoolReady(N, G)
  PROVE  /\ Occupied \subseteq Slots
         /\ Generating \subseteq Occupied /\ Analyzing \subseteq Occupied
         /\ Queued \subseteq Occupied /\ Held \subseteq Occupied
         /\ Generating \cap Analyzing = {} /\ Generating' \cap Analyzing' = {}
         /\ (Generating \cup Analyzing) \cap (Queued \cup Held) = {}
         /\ \A i \in Occupied : /\ PointOf(pending[i]) \in Point
                                /\ PointOf(pending[i]).id = pending[i].id
                                /\ PointOf(pending[i]).val \in Vals
         /\ \A p \in Point : N[strat] <= p.id => p.id \in PoolIds /\ p.id \notin Pool!Live
<1>1. Occupied \subseteq Slots
  BY DEF Occupied
<1>2. Generating' \cap Analyzing' = {}
  BY AnalyzingIs
<1>3. \A i \in Occupied : /\ PointOf(pending[i]) \in Point
                          /\ PointOf(pending[i]).id = pending[i].id
                          /\ PointOf(pending[i]).val \in Vals
  BY <1>1 DEF PoolReady, StratKnows, PointOf, Point, Trials, SlotTypes
<1>4. ASSUME NEW p \in Point, N[strat] <= p.id
      PROVE  p.id \in PoolIds /\ p.id \notin Pool!Live
  <2>1. p.id \in Nat
    BY <1>4 DEF PoolReady, Point
  <2>2. p.id \notin LiveIds
    BY <1>4, <2>1 DEF PoolReady, StratKnows
  <2> QED BY <2>1, <2>2, LiveIs DEF PoolReady
<1> QED
  BY <1>1, <1>2, <1>3, <1>4, StagesApart DEF PoolReady

(* A trial at a layer goes on, is replaced, skips its test or is tried     *)
(* again.                                                                  *)
LEMMA TurnedSteps ==
  ASSUME NEW N, NEW G, PoolReady(N, G), NEW i, NEW p, NEW here, NEW there,
         Turned(N, i, p, here, there)
  PROVE  PoolStep
<1>1. /\ Generating \subseteq Occupied /\ Analyzing \subseteq Occupied
      /\ Generating \cap Analyzing = {} /\ Generating' \cap Analyzing' = {}
      /\ (Generating \cup Analyzing) \cap (Queued \cup Held) = {}
      /\ Generating \subseteq Slots /\ Analyzing \subseteq Slots
      /\ Queued \subseteq Slots /\ Held \subseteq Slots
  BY PoolFacts
<1>2. /\ Generating' \ {i} = Generating \ {i} /\ Analyzing' \ {i} = Analyzing \ {i}
      /\ i \in IF here > 0 THEN Generating ELSE Analyzing
      /\ i \in IF there > 0 THEN Generating' ELSE Analyzing'
      /\ SamePoints(Slots \ {i}) /\ PointOf(pending[i])' = p /\ p \in Point
      /\ p.id = pending[i].id \/ N[strat] <= p.id
      /\ p = PointOf(pending[i]) \/ (here > 0 /\ there > 0)
  BY DEF Turned, Redirects
<1>3. pending'[i].id = p.id
  BY <1>2 DEF PointOf
<1>4. /\ i \in Occupied /\ i \notin Queued \cup Held
      /\ PointOf(pending[i]).id = pending[i].id /\ PointOf(pending[i]).val \in Vals
  BY <1>1, <1>2, PoolFacts
<1>5. Line' = Line /\ Hands' = Hands
  <2>1. SamePoints(Queued) /\ SamePoints(Held)
    BY <1>1, <1>2, <1>4 DEF SamePoints
  <2> QED BY <2>1, LineSame, HandsSame DEF PoolReady, Turned
<1>6. SamePoints(Generating \ {i}) /\ SamePoints(Analyzing \ {i})
  BY <1>1, <1>2 DEF SamePoints
<1>7. CASE here > 0 /\ there > 0
  <2>1. Generating' = Generating /\ Analyzing' = Analyzing /\ i \notin Analyzing
    BY <1>1, <1>2, <1>7
  <2>2. Judging' = Judging
    BY <1>6, <2>1, JudgingSame
  <2>3. pending[i].id \in Making /\ Making' = (Making \ {pending[i].id}) \cup {p.id}
    BY <1>1, <1>2, <1>3, <1>6, <1>7, <2>1, MakingOther DEF PoolReady
  <2>4. CASE p.id = pending[i].id
    BY <1>5, <2>2, <2>3, <2>4, PoolStutters
  <2>5. CASE N[strat] <= p.id
    BY <1>2, <1>5, <2>2, <2>3, <2>5, PoolFacts, PoolReplaces
  <2> QED BY <1>2, <2>4, <2>5
<1>8. CASE here > 0 /\ ~(there > 0)
  <2>1. Generating' = Generating \ {i} /\ Analyzing' = Analyzing \cup {i} /\ i \notin Analyzing
    BY <1>1, <1>2, <1>8
  <2>2. Judging' = Judging \cup {p}
    BY <1>2, <1>6, <2>1, JudgingMore
  <2>3. pending[i].id \in Making /\ Making' = Making \ {pending[i].id}
    BY <1>1, <1>2, <1>6, <1>8, <2>1, MakingLess DEF PoolReady
  <2> QED BY <1>2, <1>4, <1>5, <1>8, <2>2, <2>3, PoolSkips
<1>9. CASE ~(here > 0) /\ there > 0
  <2>1. Generating' = Generating \cup {i} /\ Analyzing' = Analyzing \ {i} /\ i \notin Generating
    BY <1>1, <1>2, <1>9
  <2>2. p \in Judging /\ Judging' = Judging \ {p}
    BY <1>1, <1>2, <1>6, <1>9, <2>1, JudgingLess DEF PoolReady
  <2>3. Making' = Making \cup {p.id}
    BY <1>3, <1>6, <2>1, MakingMore
  <2> QED BY <1>5, <2>2, <2>3, PoolRetries
<1>10. CASE ~(here > 0) /\ ~(there > 0)
  <2>1. Generating' = Generating /\ Analyzing' = Analyzing /\ i \notin Generating
    BY <1>1, <1>2, <1>10
  <2>2. SamePoints(Analyzing) /\ SamePoints(Generating)
    BY <1>2, <1>6, <1>10, <2>1 DEF SamePoints
  <2> QED BY <1>5, <2>1, <2>2, MakingSame, JudgingSame, PoolStutters
<1> QED
  BY <1>7, <1>8, <1>9, <1>10

-----------------------------------------------------------------------------
(* The other steps: a trial is generated ...                               *)
LEMMA CreatedSteps ==
  ASSUME NEW N, NEW G, PoolReady(N, G), NEW i, NEW p, Created(N, G, i, p)
  PROVE  PoolStep
<1>1. /\ Generating \subseteq Occupied /\ Analyzing \subseteq Occupied
      /\ Queued \subseteq Occupied /\ Held \subseteq Occupied
      /\ Occupied \subseteq Slots
  BY PoolFacts
<1>2. /\ i \in Slots /\ i \notin Occupied /\ p \in Point /\ N[strat] <= p.id
      /\ InFlow = {} /\ InFlow' = {i} /\ curr_layer' > 0
      /\ UNCHANGED <<ready, ready_head, holder, waiting>>
  BY DEF Created, Occupied, ringVars
<1>3. SamePoints(Slots \ {i}) /\ PointOf(pending[i])' = p
  BY <1>2, PointsWritten DEF Created, PoolReady
<1>4. pending'[i].id = p.id
  BY <1>3 DEF PointOf
<1>5. Generating' = Generating \cup {i} /\ Analyzing' = Analyzing
  <2>1. Waiting' = Waiting /\ WaitingUp' = WaitingUp
    BY <1>2 DEF Waiting, WaitingUp
  <2>2. Generating = WaitingUp /\ Generating' = WaitingUp \cup {i}
    BY <1>2, <2>1, GeneratingIs
  <2>3. Waiting \subseteq Occupied
    BY DEF PoolReady, TrialsAccounted
  <2>4. Analyzing = Waiting \ Generating /\ Analyzing' = (Waiting \cup {i}) \ Generating'
    BY <1>2, <2>1, AnalyzingIs
  <2> QED BY <1>2, <2>2, <2>3, <2>4
<1>6. /\ SamePoints(Generating \ {i}) /\ SamePoints(Analyzing)
      /\ SamePoints(Queued) /\ SamePoints(Held)
  BY <1>1, <1>2, <1>3 DEF SamePoints
<1>7. UNCHANGED <<Line, Hands, Judging>>
  BY <1>2, <1>5, <1>6, LineSame, HandsSame, JudgingSame DEF PoolReady
<1>8. Making' = Making \cup {p.id}
  BY <1>1, <1>2, <1>4, <1>5, <1>6, MakingMore
<1>9. p.id \in PoolIds /\ p.id \notin Pool!Live
  BY <1>2, PoolFacts
<1> QED
  BY <1>7, <1>8, <1>9, PoolGenerates

(* When the points stay the same, so do the places whose slots do.         *)
LEMMA UnmovedSame ==
  ASSUME NEW N, NEW G, PoolReady(N, G), SamePoints(Slots)
  PROVE  /\ SamePoints(Generating) /\ SamePoints(Analyzing)
         /\ Generating' = Generating => Making' = Making
         /\ Analyzing' = Analyzing => Judging' = Judging
         /\ UNCHANGED <<ready, ready_head>> => Line' = Line
         /\ UNCHANGED holder => Hands' = Hands
<1>1. /\ SamePoints(Generating) /\ SamePoints(Analyzing)
      /\ SamePoints(Queued) /\ SamePoints(Held)
  <2>1. /\ Generating \subseteq Slots /\ Analyzing \subseteq Slots
        /\ Queued \subseteq Slots /\ Held \subseteq Slots
    BY PoolFacts
  <2> QED BY <2>1 DEF SamePoints
<1> QED
  BY <1>1, MakingSame, JudgingSame, LineSame, HandsSame DEF PoolReady

LEMMA PendingSame ==
  ASSUME UNCHANGED pending
  PROVE  SamePoints(Slots)
  BY DEF SamePoints, PointOf

(* ... queued ...                                                          *)
LEMMA EnqueuedSteps ==
  ASSUME NEW N, NEW G, PoolReady(N, G), NEW i \in Slots, Enqueued(i)
  PROVE  PoolStep
<1>1. /\ InFlow = {i} /\ InFlow' = {} /\ curr_layer > 0 /\ ready[ready_tail] = NoTrial
      /\ Enqueue(i) /\ UNCHANGED <<ready_head, pending, waiting, holder>>
  BY DEF Enqueued
<1>2. i \in Occupied /\ i \notin Waiting
  BY <1>1 DEF PoolReady, TrialsAccounted
<1>3. i \in Generating /\ Generating' = Generating \ {i} /\ Analyzing' = Analyzing
  <2>1. Waiting' = Waiting /\ WaitingUp' = WaitingUp
    BY <1>1 DEF Waiting, WaitingUp
  <2>2. Generating = WaitingUp \cup {i} /\ Generating' = WaitingUp /\ WaitingUp \subseteq Waiting
    BY <1>1, <2>1, GeneratingIs
  <2>3. Analyzing = (Waiting \cup {i}) \ Generating /\ Analyzing' = Waiting \ Generating'
    BY <1>1, <2>1, AnalyzingIs
  <2> QED BY <1>2, <2>2, <2>3
<1>4. SamePoints(Slots)
  BY <1>1, PendingSame
<1>5. UNCHANGED <<Hands, Judging>>
  BY <1>1, <1>3, <1>4, UnmovedSame
<1>6. pending[i].id \in Making /\ Making' = Making \ {pending[i].id}
  <2>1. Generating \subseteq Occupied /\ SamePoints(Generating \ {i})
    BY <1>4, PoolFacts, UnmovedSame DEF SamePoints
  <2> QED BY <1>3, <2>1, MakingLess DEF PoolReady
<1>7. Line' = Append(Line, PointOf(pending[i]))
  BY <1>1, LineMore DEF PoolReady
<1>8. /\ PointOf(pending[i]) \in Point /\ PointOf(pending[i]).id = pending[i].id
      /\ PointOf(pending[i]).val \in Vals
  BY <1>2, PoolFacts
<1> QED
  BY <1>5, <1>6, <1>7, <1>8, PoolQueues

(* ... judged ...                                                          *)
LEMMA AnalyzedSteps ==
  ASSUME NEW N, NEW G, PoolReady(N, G), NEW i \in Slots, Analyzed(N, G, i)
  PROVE  PoolStep
<1>1. /\ InFlow = {i} /\ InFlow' = {} /\ curr_layer = 0
      /\ pending' = [pending EXCEPT ![i] = FreeTrial]
      /\ UNCHANGED <<ready, ready_head, waiting, holder>>
  BY DEF Analyzed, Release, ringVars
<1>2. i \in Occupied /\ i \notin Waiting /\ i \notin Queued \cup Held
  BY <1>1 DEF PoolReady, TrialsAccounted
<1>3. i \in Analyzing /\ Generating' = Generating /\ Analyzing' = Analyzing \ {i}
      /\ i \notin Generating
  <2>1. Waiting' = Waiting /\ WaitingUp' = WaitingUp
    BY <1>1 DEF Waiting, WaitingUp
  <2>2. Generating = WaitingUp /\ WaitingUp \subseteq Waiting
        /\ Generating' = WaitingUp \cup IF curr_layer' > 0 THEN {} ELSE {}
    BY <1>1, <2>1, GeneratingIs
  <2>3. Analyzing = (Waiting \cup {i}) \ Generating /\ Analyzing' = Waiting \ Generating'
    BY <1>1, <2>1, AnalyzingIs
  <2> QED BY <1>2, <2>2, <2>3
<1>4. /\ Generating \subseteq Slots /\ Analyzing \subseteq Slots
      /\ Queued \subseteq Slots /\ Held \subseteq Slots /\ Analyzing \subseteq Occupied
  BY PoolFacts
<1>5. \A j \in Slots \ {i} : pending'[j] = pending[j]
  BY <1>1 DEF PoolReady, SlotTypes
<1>6. /\ SamePoints(Generating) /\ SamePoints(Analyzing \ {i})
      /\ SamePoints(Queued) /\ SamePoints(Held)
  BY <1>2, <1>3, <1>4, <1>5 DEF SamePoints, PointOf
<1>7. UNCHANGED <<Making, Line, Hands>>
  BY <1>1, <1>3, <1>6, MakingSame, LineSame, HandsSame DEF PoolReady
<1>8. PointOf(pending[i]) \in Judging /\ Judging' = Judging \ {PointOf(pending[i])}
  BY <1>3, <1>4, <1>6, JudgingLess DEF PoolReady
<1> QED
  BY <1>7, <1>8, PoolJudges

(* ... handed to a client ...                                              *)
LEMMA FetchedSteps ==
  ASSUME NEW N, NEW G, PoolReady(N, G), NEW c \in Clients, NEW i \in Slots, Fetched(c, i)
  PROVE  PoolStep
<1>1. /\ InFlow = {} /\ InFlow' = {} /\ i = ready[ready_head] /\ Dequeue
      /\ holder' = [holder EXCEPT ![i] = c] /\ UNCHANGED <<pending, waiting>>
  BY DEF Fetched
<1>2. ready[ready_head] # NoTrial
  BY <1>1 DEF PoolReady, SlotTypes
<1>3. i \notin Held
  <2>1. i \in Queued
    BY <1>1, <1>2 DEF Queued, PoolReady, SlotTypes
  <2> QED BY <2>1 DEF PoolReady, TrialsAccounted
<1>4. SamePoints(Slots)
  BY <1>1, PendingSame
<1>5. Generating' = Generating /\ Analyzing' = Analyzing
  <2>1. Waiting' = Waiting /\ WaitingUp' = WaitingUp
    BY <1>1 DEF Waiting, WaitingUp
  <2>2. Generating' = Generating
    BY <1>1, <2>1, GeneratingIs
  <2> QED BY <1>1, <2>1, <2>2, AnalyzingIs
<1>6. UNCHANGED <<Making, Judging>>
  BY <1>4, <1>5, UnmovedSame
<1>7. Line # <<>> /\ Head(Line) = PointOf(pending[i]) /\ Line' = Tail(Line)
  BY <1>1, <1>2, LineLess DEF PoolReady
<1>8. Hands' = [Hands EXCEPT ![c] = @ \cup {PointOf(pending[i])}]
  BY <1>1, <1>3, <1>4, HandsMore DEF PoolReady
<1> QED
  BY <1>6, <1>7, <1>8, PoolFetches

(* ... or reported by it.                                                  *)
LEMMA ReportedSteps ==
  ASSUME NEW N, NEW G, PoolReady(N, G), NEW c \in Clients, NEW i \in Slots, NEW perf,
         Reported(c, i, perf)
  PROVE  PoolStep
<1>1. /\ InFlow = {} /\ InFlow' = {i} /\ curr_layer' <= 0 /\ holder[i] = c
      /\ pending' = [pending EXCEPT ![i].perf = perf]
      /\ holder' = [holder EXCEPT ![i] = NoClient]
      /\ UNCHANGED <<ready, ready_head, waiting>>
  BY DEF Reported, ringVars
<1>2. i \in Held /\ i \in Occupied /\ i \notin Waiting
  <2>1. i \in Held
    BY <1>1, SessionAssumption DEF Held
  <2> QED BY <2>1 DEF PoolReady, TrialsAccounted
<1>3. SamePoints(Slots)
  BY <1>1 DEF PoolReady, SlotTypes, SamePoints, PointOf, Trials
<1>4. Generating' = Generating /\ Analyzing' = Analyzing \cup {i}
  <2>1. Waiting' = Waiting /\ WaitingUp' = WaitingUp
    BY <1>1 DEF Waiting, WaitingUp
  <2>2. Generating' = WaitingUp /\ Generating = WaitingUp /\ WaitingUp \subseteq Waiting
    <3>1. ~(curr_layer' > 0)
      BY <1>1 DEF PoolReady
    <3> QED BY <1>1, <2>1, <3>1, GeneratingIs
  <2>3. Analyzing = Waiting \ Generating /\ Analyzing' = (Waiting \cup {i}) \ Generating'
    BY <1>1, <2>1, AnalyzingIs
  <2> QED BY <1>2, <2>2, <2>3
<1>5. UNCHANGED <<Making, Line>>
  BY <1>1, <1>3, <1>4, UnmovedSame
<1>6. Judging' = Judging \cup {PointOf(pending[i])}
  <2>1. SamePoints(Analyzing) /\ PointOf(pending[i])' = PointOf(pending[i])
    BY <1>3, UnmovedSame DEF SamePoints
  <2> QED BY <1>4, <2>1, JudgingMore
<1>7. /\ PointOf(pending[i]) \in Hands[c]
      /\ Hands' = [Hands EXCEPT ![c] = @ \ {PointOf(pending[i])}]
  BY <1>1, <1>3, HandsLess, PoolFacts DEF PoolReady
<1> QED
  BY <1>5, <1>6, <1>7, PoolReports

-----------------------------------------------------------------------------
LEMMA LineStarts ==
  ASSUME NEW S, NEW L, NEW N, NEW G, TrialContract(S, L, N, G), Init
  PROVE  Line = <<>>
<1>1. SlotTypes /\ RingShape
  BY TrialInit, InvFacts DEF TrialInv, RingInv
<1>2. Queued = {}
  BY <1>1 DEF Queued, Init, SessionInit, SlotTypes
<1>3. Line \in Seq(Point) /\ Len(Line) = Len(ReadyQueue)
      /\ \A n \in 1 .. Len(ReadyQueue) : ReadyQueue[n] \in Queued
  BY <1>1, LineIs, QueueIs
<1>4. Line # <<>> => Len(Line) \in Nat \ {0}
  BY <1>3, EmptySeq
<1>5. Len(Line) \in Nat \ {0} => 1 \in 1 .. Len(Line)
  OBVIOUS
<1> QED
  BY <1>2, <1>3, <1>4, <1>5

LEMMA PoolInitial ==
  ASSUME NEW S, NEW L, NEW N, NEW G, TrialContract(S, L, N, G), Init
  PROVE  Pool!PoolInit
<1>1. SlotTypes /\ waiting = {} /\ at = "select" /\ \A i \in Slots : holder[i] = NoClient
  <2>1. SlotTypes
    BY TrialInit, InvFacts
  <2> QED BY <2>1 DEF Init, SessionInit, SlotTypes
<1>2. Generating = {} /\ Analyzing = {}
  BY <1>1 DEF Generating, Analyzing, Waiting, InFlow
<1>3. Making = {} /\ Judging = {}
  BY <1>2 DEF Making, Judging, TrialPoints
<1>4. Hands = [c \in Clients |-> {}]
  <2>1. \A c \in Clients : HeldOf(c) = {}
    BY <1>1, SessionAssumption DEF HeldOf
  <2> QED BY <2>1 DEF Hands, TrialPoints
<1> QED
  BY <1>3, <1>4, LineStarts DEF Pool!PoolInit, Making, Line, Hands, HeldOf, Judging

LEMMA PoolStepTaken ==
  ASSUME NEW S, NEW L, NEW N, NEW G, TrialContract(S, L, N, G), NoGrowth, Nat \subseteq PoolIds,
         TrialInv(S, L, N, G), TrialInv(S, L, N, G)', [Next]_vars
  PROVE  PoolStep
<1>1. PoolReady(N, G)
  <2>1. /\ SlotTypes /\ N[strat] \in Nat /\ \A x \in LiveIds : x < N[strat]
    BY InvFacts
  <2>2. /\ TypeOK' /\ RingShape /\ UNCHANGED pending_cap
        /\ TrialsAccounted /\ IdsUnique /\ StratKnows(G)
    BY DEF TrialInv, RingInv, TypeInv
  <2>3. Slots' = Slots /\ curr_layer' \in Int
    BY <2>2, SessionAssumption DEF Slots, TypeOK
  <2> QED BY <2>1, <2>2, <2>3 DEF PoolReady
<1>2. TrialStep(N, G) \/ UNCHANGED sessionVars
  BY TrialStepKept
<1>3. SlotTypes /\ TrialsAccounted /\ TrialsAccounted'
  BY <1>1 DEF PoolReady, TrialInv
<1>4. ASSUME NEW i \in Slots, NEW p \in Point, Created(N, G, i, p) PROVE PoolStep
  BY <1>1, <1>4, CreatedSteps
<1>5. ASSUME NEW i \in Slots, NEW p \in Point, NEW perf, Passed(N, G, i, p, perf)
      PROVE  PoolStep
  BY <1>1, <1>3, <1>5, PassedTurns, TurnedSteps
<1>6. ASSUME NEW i \in Slots, NEW layer, NEW perf, Parked(i, layer, perf) PROVE PoolStep
  BY <1>1, <1>3, <1>6, ParkedTurns, TurnedSteps
<1>7. ASSUME NEW i \in Slots, NEW layer, NEW p \in Point, Resumed(N, G, i, layer, p)
      PROVE  PoolStep
  BY <1>1, <1>3, <1>7, ResumedTurns, TurnedSteps
<1>8. ASSUME NEW i \in Slots, Enqueued(i) PROVE PoolStep
  BY <1>1, <1>8, EnqueuedSteps
<1>9. ASSUME NEW i \in Slots, Analyzed(N, G, i) PROVE PoolStep
  BY <1>1, <1>9, AnalyzedSteps
<1>10. ASSUME NEW c \in Clients, NEW i \in Slots, Fetched(c, i) PROVE PoolStep
  BY <1>1, <1>10, FetchedSteps
<1>11. ASSUME NEW c \in Clients, NEW i \in Slots, NEW perf, Reported(c, i, perf) PROVE PoolStep
  BY <1>1, <1>11, ReportedSteps
<1>12. CASE Still(N, G)
  <2>1. /\ InFlow = {} /\ InFlow' = {}
        /\ UNCHANGED <<pending, ready, ready_head, waiting, holder>>
    BY <1>12 DEF Still, ringVars
  <2>2. Generating' = Generating /\ Analyzing' = Analyzing
    <3>1. Waiting' = Waiting /\ WaitingUp' = WaitingUp
      BY <2>1 DEF Waiting, WaitingUp
    <3>2. Generating' = Generating
      BY <2>1, <3>1, GeneratingIs
    <3> QED BY <2>1, <3>1, <3>2, AnalyzingIs
  <2> QED BY <1>1, <2>1, <2>2, PendingSame, UnmovedSame, PoolStutters
<1>13. CASE UNCHANGED sessionVars
  <2>1. UNCHANGED <<pending, ready, ready_head, waiting, holder, at, curr_layer, trial_idx>>
    BY <1>13 DEF sessionVars, trialVars, ringVars, plugVars, flowVars
  <2>2. Generating' = Generating /\ Analyzing' = Analyzing
    <3>1. Generating' = Generating /\ Waiting' = Waiting /\ InFlow' = InFlow
      BY <2>1 DEF Generating, Waiting, InFlow
    <3> QED BY <3>1, AnalyzingIs
  <2> QED BY <1>1, <2>1, <2>2, PendingSame, UnmovedSame, PoolStutters
<1> QED
  BY <1>2, <1>4, <1>5, <1>6, <1>7, <1>8, <1>9, <1>10, <1>11, <1>12, <1>13 DEF TrialStep

(* PoolSpec: the slots, the ring, the wait lists and the messages together *)
(* do nothing to a trial that TrialPool does not allow: it is handed out   *)
(* in turn, judged only on the report of the client that was handed it,    *)
(* and never lost.                                                         *)
THEOREM PoolCorrect ==
  ASSUME NEW S, NEW L, NEW N, NEW G, TrialContract(S, L, N, G), NoGrowth, Nat \subseteq PoolIds
  PROVE  Spec => PoolSpec
<1>1. Init => TrialInv(S, L, N, G) /\ Pool!PoolInit
  BY TrialInit, PoolInitial
<1>2. TrialInv(S, L, N, G) /\ [Next]_vars => TrialInv(S, L, N, G)'
  BY TrialStepKept
<1>3. TrialInv(S, L, N, G) /\ TrialInv(S, L, N, G)' /\ [Next]_vars
        => [Pool!PoolNext]_(Pool!poolVars)
  BY PoolStepTaken DEF PoolStep
<1> QED
  BY <1>1, <1>2, <1>3, PTL DEF Spec, PoolSpec, Pool!Spec

-----------------------------------------------------------------------------
(***************************************************************************)
(* The session outlives the requests of a client that has it for itself.   *)
(*                                                                         *)
(* A report with an id that no trial has ends the session, unless it is    *)
(* the id of the best point last sent.  One client is always given trials  *)
(* whose ids lie above the best point's and below those of all that are    *)
(* queued behind it; so while it measures one no other can become the best *)
(* point, and while it measures the best point again that stays the best.  *)
(***************************************************************************)
BestId == StrategyBest(strat).id

Rises(line)     == \A m, n \in 1 .. Len(line) : m < n => line[m].id < line[n].id
After(id, line) == \A n \in 1 .. Len(line) : id < line[n].id
Up(line, id)    == \A n \in 1 .. Len(line) : line[n].id < id

(* Beyond what TrialContract asks: the best point only changes into one    *)
(* that is analyzed, in particular not by a restart; ...                   *)
BestIsReported(S) ==
  /\ \A s \in StrategyInit : -1 <= StrategyBest(s).id
  /\ \A s \in S :
       /\ \A o \in StrategyGenerate(s) : StrategyBest(o.next).id = StrategyBest(s).id
       /\ \A p \in Point : \A h \in Hints : \A o \in StrategyRejected(s, p, h) :
            StrategyBest(o.next).id = StrategyBest(s).id
       /\ \A t \in Trials : \A next \in StrategyAnalyze(s, t) :
            StrategyBest(next).id \in {StrategyBest(s).id, t.id}
       /\ StrategyBest(StrategyRestart(s)).id = StrategyBest(s).id

(* ... no layer makes a trial wait, sends it straight to the analysis or   *)
(* has it tried again, so trials are analyzed in the order of their ids;   *)
Straight(L) ==
  \A k \in 1 .. LstackLen : \A s \in L[k] : \A t \in Trials :
    /\ \A b \in BOOLEAN : \A o \in LayerGenerate(k, s, t, b) :
         o.status \in {"ACCEPT", "REJECT", "ERROR"}
    /\ \A o \in LayerAnalyze(k, s, t) : o.status = "ACCEPT"

(* ... and the client is alone and describes its own session.              *)
LoneContract(S, L, N, G) ==
  /\ TrialContract(S, L, N, G)
  /\ BestIsReported(S)
  /\ Straight(L)
  /\ SigMatch \subseteq {TRUE}
  /\ \A c, d \in Clients : c = d

(* What a client may be about to report: a trial that is older than all    *)
(* that have not reached it yet, or the best point last sent.              *)
Awaited(id) ==
  /\ id \in LiveIds /\ BestId < id /\ After(id, Line)
  /\ at = "workflow" /\ caller # "report" => id < pending[trial_idx].id

Resent(id) == id = BestId /\ id = paused_id

ClientTurn(c) ==
  /\ Requested(c, "JOIN") => wire[c].flag
  /\ hdesc[c].best.id <= BestId
  /\ wire[c].status = "BUSY" => Resent(wire[c].point.id)
  /\ wire[c].type = "BEST" /\ wire[c].status = "OK" => wire[c].point.id <= BestId
  /\ wire[c].type = "FETCH" /\ wire[c].status = "OK" => Awaited(wire[c].point.id)
  /\ hdesc[c].state = "TESTING" /\ ~(wire[c].type = "REPORT" /\ wire[c].status = "OK")
       => Awaited(hdesc[c].curr.id) \/ Resent(hdesc[c].curr.id)

(* The trial in the workflow is the newest, on its way to the queue, or    *)
(* the oldest, on its way to the strategy.                                 *)
FlowTurn ==
  at = "workflow" =>
    /\ BestId < pending[trial_idx].id
    /\ IF caller = "report"
         THEN curr_layer <= 0 /\ After(pending[trial_idx].id, Line)
         ELSE curr_layer > 0 /\ Up(Line, pending[trial_idx].id)

LoneInv(S, L, N, G) ==
  /\ TrialInv(S, L, N, G)
  /\ at # "exit" /\ waiting = {}
  /\ -1 <= BestId
  /\ Rises(Line) /\ After(BestId, Line)
  /\ FlowTurn
  /\ \A c \in Clients : ClientTurn(c)

(* A queue in the order of its ids stays so.                               *)
LEMMA RisesAppended ==
  ASSUME NEW line \in Seq(Point), NEW p \in Point, Rises(line), Up(line, p.id)
  PROVE  /\ Rises(Append(line, p))
         /\ \A id \in Int : After(id, line) /\ id < p.id => After(id, Append(line, p))
<1> DEFINE long == Append(line, p)
           k    == Len(line)
<1>1. /\ k \in Nat /\ Len(long) = k + 1 /\ long[k + 1] = p
      /\ \A n \in 1 .. k : long[n] = line[n]
  BY AppendProperties
<1>2. \A n \in 1 .. k + 1 : n = k + 1 \/ n \in 1 .. k
  BY <1>1
<1> HIDE DEF long, k
<1>3. Rises(long)
  <2> SUFFICES ASSUME NEW m \in 1 .. k + 1, NEW n \in 1 .. k + 1, m < n
               PROVE  long[m].id < long[n].id
    BY <1>1 DEF Rises
  <2>1. m \in 1 .. k
    BY <1>1
  <2>2. CASE n = k + 1
    BY <1>1, <2>1, <2>2 DEF Up, k
  <2>3. CASE n \in 1 .. k
    BY <1>1, <2>1, <2>3 DEF Rises, k
  <2> QED BY <1>2, <2>2, <2>3
<1>4. ASSUME NEW id \in Int, After(id, line), id < p.id PROVE After(id, long)
  <2> SUFFICES ASSUME NEW n \in 1 .. k + 1 PROVE id < long[n].id
    BY <1>1 DEF After
  <2> QED BY <1>1, <1>2, <1>4 DEF After, k
<1> QED
  BY <1>3, <1>4 DEF long

LEMMA RisesTaken ==
  ASSUME NEW line \in Seq(Point), line # <<>>, Rises(line)
  PROVE  /\ Rises(Tail(line)) /\ After(Head(line).id, Tail(line))
         /\ \A id \in Int : After(id, line) => id < Head(line).id /\ After(id, Tail(line))
<1> DEFINE rest == Tail(line)
           k    == Len(line)
<1>1. /\ k \in Nat \ {0} /\ Head(line) = line[1] /\ Len(rest) = k - 1
      /\ \A n \in 1 .. k - 1 : rest[n] = line[n + 1]
  BY HeadTailProperties, EmptySeq
<1>2. 1 \in 1 .. k /\ \A n \in 1 .. k - 1 : n + 1 \in 1 .. k /\ 1 < n + 1
  BY <1>1
<1> HIDE DEF rest
<1>3. Rises(rest)
  <2> SUFFICES ASSUME NEW m \in 1 .. k - 1, NEW n \in 1 .. k - 1, m < n
               PROVE  rest[m].id < rest[n].id
    BY <1>1 DEF Rises
  <2>1. m + 1 \in 1 .. k /\ n + 1 \in 1 .. k /\ m + 1 < n + 1
    BY <1>1
  <2> QED BY <1>1, <2>1 DEF Rises
<1>4. After(line[1].id, rest)
  BY <1>1, <1>2 DEF After, Rises
<1>5. ASSUME NEW id \in Int, After(id, line) PROVE id < line[1].id /\ After(id, rest)
  BY <1>1, <1>2, <1>5 DEF After
<1> QED
  BY <1>1, <1>3, <1>4, <1>5 DEF rest

(* What the steps below use of the invariant.                              *)
LEMMA LoneFacts ==
  ASSUME NEW S, NEW L, NEW N, NEW G, LoneContract(S, L, N, G), LoneInv(S, L, N, G)
  PROVE  /\ TrialContract(S, L, N, G) /\ TrialInv(S, L, N, G)
         /\ SlotTypes /\ RingShape /\ TrialsAccounted /\ TypeOK /\ strat \in S
         /\ BestId \in Int /\ BestId < N[strat] /\ BestId \notin LiveIds
         /\ N[strat] \in Nat /\ LiveIds \in SUBSET Nat /\ \A x \in LiveIds : x < N[strat]
         /\ Line \in Seq(Point) /\ \A n \in 1 .. Len(Line) : Line[n].id \in LiveIds
         /\ wire \in [Clients -> Mesg]
         /\ hdesc \in [Clients -> [state : ClientStates, curr : Point, best : Point,
                                 ptr : Vals \cup {NoVal}]]
<1>1. TrialContract(S, L, N, G) /\ TrialInv(S, L, N, G)
  BY DEF LoneContract, LoneInv
<1>2. /\ SlotTypes /\ TypeOK /\ strat \in S
      /\ RingShape /\ TrialsAccounted
      /\ BestId < N[strat] /\ BestId \notin LiveIds
      /\ N[strat] \in Nat /\ LiveIds \in SUBSET Nat /\ \A x \in LiveIds : x < N[strat]
  BY <1>1, InvFacts DEF TrialInv, RingInv, BestId
<1>3. BestId \in Int
  BY <1>1, <1>2 DEF TrialContract, StrategyContract, BestId, Point
<1>4. Line \in Seq(Point) /\ \A n \in 1 .. Len(Line) : Line[n].id \in LiveIds
  <2>1. /\ Line \in Seq(Point) /\ Len(Line) = Len(ReadyQueue)
        /\ \A n \in 1 .. Len(ReadyQueue) :
             ReadyQueue[n] \in Queued /\ Line[n] = PointOf(pending[ReadyQueue[n]])
    BY <1>2, QueueIs, LineIs
  <2>2. Queued \subseteq Occupied
    BY <1>2 DEF TrialsAccounted
  <2>3. ASSUME NEW n \in 1 .. Len(Line) PROVE Line[n].id \in LiveIds
    <3>1. ReadyQueue[n] \in Occupied /\ Line[n] = PointOf(pending[ReadyQueue[n]])
      BY <2>1, <2>2
    <3>2. Line[n].id = pending[ReadyQueue[n]].id
      BY <3>1 DEF PointOf
    <3> QED BY <3>1, <3>2 DEF LiveIds
  <2> QED BY <2>1, <2>3
<1>5. /\ wire \in [Clients -> Mesg]
      /\ hdesc \in [Clients -> [state : ClientStates, curr : Point, best : Point,
                                 ptr : Vals \cup {NoVal}]]
  BY <1>2 DEF TypeOK
<1> QED
  BY <1>1, <1>2, <1>3, <1>4, <1>5

(* Writing to a slot that is not queued leaves the line as it is.          *)
LEMMA LineUntouched ==
  ASSUME SlotTypes, RingShape, UNCHANGED <<ready, ready_head, pending_cap>>,
         NEW i, i \notin Queued, NEW t, pending' = [pending EXCEPT ![i] = t]
  PROVE  Line' = Line
<1>1. \A j \in Queued : pending'[j] = pending[j]
  BY DEF Queued, SlotTypes
<1> QED
  BY <1>1, LineSame DEF SamePoints, PointOf

(* A step that the client does not notice leaves its turn as it was ...    *)
LEMMA TurnKept ==
  ASSUME NEW c \in Clients, ClientTurn(c), wire'[c] = wire[c], hdesc'[c] = hdesc[c],
         UNCHANGED BestId, UNCHANGED paused_id,
         \A id \in Int : Awaited(id) => Awaited(id)',
         wire[c] \in Mesg, hdesc[c].curr \in Point
  PROVE  ClientTurn(c)'
<1>1. \A id \in Int : Resent(id) => Resent(id)'
  BY DEF Resent
<1>2. wire[c].point.id \in Int /\ hdesc[c].curr.id \in Int
  BY DEF Mesg, Point
<1>3. /\ Requested(c, "JOIN")' => Requested(c, "JOIN")
  BY DEF Requested
<1> QED
  BY <1>1, <1>2, <1>3 DEF ClientTurn

(* ... and so does an answer that fits.                                    *)
LEMMA TurnAnswered ==
  ASSUME NEW c \in Clients, ClientTurn(c), CallSound(c), hdesc'[c] = hdesc[c],
         wire[c].status = "REQ", wire'[c].type = wire[c].type, wire'[c].status \in {"OK", "BUSY"},
         BestId \in Int, BestId' \in Int, BestId <= BestId',
         hdesc[c].best.id \in Int, hdesc[c].curr.id \in Int,
         wire'[c].status = "BUSY" => Resent(wire[c].point.id)' /\ wire[c].type = "FETCH",
         wire[c].type = "BEST" => wire'[c].point.id = BestId',
         wire[c].type = "FETCH" /\ wire'[c].status = "OK" => Awaited(wire[c].point.id)',
         wire[c].type \notin {"FETCH", "REPORT"} =>
           UNCHANGED <<BestId, paused_id>> /\ \A id \in Int : Awaited(id) => Awaited(id)'
  PROVE  ClientTurn(c)'
<1>1. ~Requested(c, "JOIN")'
  BY DEF Requested
<1>2. hdesc'[c].best.id <= BestId'
  BY DEF ClientTurn
<1>3. wire[c].type = "BEST" => wire'[c].point.id <= BestId'
  OBVIOUS
<1>4. ASSUME hdesc[c].state = "TESTING", ~(wire'[c].type = "REPORT" /\ wire'[c].status = "OK")
      PROVE  Awaited(hdesc[c].curr.id)' \/ Resent(hdesc[c].curr.id)'
  <2>1. wire[c].type \notin {"FETCH", "REPORT"}
    BY <1>4 DEF CallSound
  <2>2. Awaited(hdesc[c].curr.id) \/ Resent(hdesc[c].curr.id)
    BY <1>4 DEF ClientTurn
  <2>3. \A id \in Int : (Awaited(id) => Awaited(id)') /\ (Resent(id) => Resent(id)')
    BY <2>1 DEF Resent
  <2> QED BY <2>2, <2>3
<1> QED
  BY <1>1, <1>2, <1>3, <1>4 DEF ClientTurn

LEMMA LoneUnnoticed ==
  ASSUME NEW S, NEW L, NEW N, NEW G, LoneContract(S, L, N, G), LoneInv(S, L, N, G),
         TrialInv(S, L, N, G)', at' # "exit",
         UNCHANGED <<waiting, hdesc, wire, paused_id>>, UNCHANGED BestId, UNCHANGED Line,
         FlowTurn', \A id \in Int : Awaited(id) => Awaited(id)'
  PROVE  LoneInv(S, L, N, G)'
<1>1. ASSUME NEW c \in Clients PROVE ClientTurn(c)'
  <2>1. ClientTurn(c) /\ wire'[c] = wire[c] /\ hdesc'[c] = hdesc[c]
    BY DEF LoneInv
  <2>2. wire[c] \in Mesg /\ hdesc[c].curr \in Point
    BY LoneFacts
  <2> QED BY <2>1, <2>2, TurnKept
<1> QED
  BY <1>1 DEF LoneInv

-----------------------------------------------------------------------------
(* The generation loop: a new trial has the highest id of all.             *)
LEMMA LoneGenerates ==
  ASSUME NEW S, NEW L, NEW N, NEW G, LoneContract(S, L, N, G), LoneInv(S, L, N, G),
         TrialInv(S, L, N, G)', Slots' = Slots, UNCHANGED hdesc,
         StartGenerate \/ EndGenerate \/ generate_trial
  PROVE  LoneInv(S, L, N, G)'
<1>1. /\ SlotTypes /\ RingShape /\ TrialsAccounted /\ strat \in S
      /\ BestId \in Int /\ BestId < N[strat]
      /\ N[strat] \in Nat /\ LiveIds \in SUBSET Nat /\ \A x \in LiveIds : x < N[strat]
      /\ Line \in Seq(Point) /\ \A n \in 1 .. Len(Line) : Line[n].id \in LiveIds
      /\ TrialContract(S, L, N, G) /\ TrialInv(S, L, N, G)
  BY LoneFacts
<1>2. UNCHANGED <<pending_cap, ready, ready_head, waiting, wire, paused_id>> /\ at # "workflow"
  BY DEF StartGenerate, EndGenerate, generate_trial, trialVars, ringVars, plugVars
<1>3. ASSUME UNCHANGED pending, UNCHANGED BestId, at' \in {"select", "generate"}
      PROVE  LoneInv(S, L, N, G)'
  <2>1. UNCHANGED Line /\ UNCHANGED LiveIds
    BY <1>2, <1>3 DEF Line, ReadyQueue, LiveIds, Occupied, Slots
  <2>2. FlowTurn' /\ \A id \in Int : Awaited(id) => Awaited(id)'
    BY <1>3, <2>1 DEF FlowTurn, Awaited
  <2> QED BY <1>2, <1>3, <2>1, <2>2, LoneUnnoticed
<1>4. CASE StartGenerate \/ EndGenerate
  BY <1>3, <1>4 DEF StartGenerate, EndGenerate, trialVars, plugVars, BestId
<1>5. CASE generate_trial
  <2>1. PICK o \in StrategyGenerate(strat) :
          /\ strat' = o.next
          /\ IF o.status = "WAIT"
               THEN UNCHANGED <<pending, at>>
               ELSE /\ trial_idx' = First(SlotsWith(-1))
                    /\ pending' = [pending EXCEPT ![trial_idx'] = Trial(o.point, Infinity)]
                    /\ curr_layer' = 1
                    /\ at' = "workflow"
                    /\ caller' = "generate"
    BY <1>5 DEF generate_trial
  <2>2. UNCHANGED BestId
    BY <1>1, <2>1 DEF LoneContract, BestIsReported, BestId
  <2>3. CASE o.status = "WAIT"
    BY <1>3, <1>5, <2>1, <2>2, <2>3 DEF generate_trial
  <2>4. CASE o.status # "WAIT"
    <3> DEFINE i == First(SlotsWith(-1))
               t == Trial(o.point, Infinity)
    <3>1. i \in Slots /\ pending[i].id = -1
      <4>1. SlotsWith(-1) \in SUBSET Nat /\ SlotsWith(-1) # {}
        BY <1>1, <1>5 DEF generate_trial, SlotsWith, SlotTypes, Cells
      <4>2. i \in SlotsWith(-1)
        BY <4>1, FirstType
      <4> QED BY <4>2 DEF SlotsWith
    <3>2. N[strat] <= o.point.id
      BY <1>1, <2>1, <2>4, InvFacts DEF TrialContract, IssuesIds
    <3>3. o.point.id \in Int /\ t.id = o.point.id
      <4>1. o \in [next : S, status : {"ACCEPT", "WAIT"}, point : Point]
        BY <1>1, <2>1 DEF TrialContract, StrategyContract
      <4> QED BY <4>1 DEF Point, Trial
    <3> HIDE DEF i, t
    <3>4. /\ pending' = [pending EXCEPT ![i] = t] /\ trial_idx' = i
          /\ at' = "workflow" /\ caller' = "generate" /\ curr_layer' = 1
      BY <2>1, <2>4 DEF i, t
    <3>5. pending'[i] = t /\ \A j \in Slots \ {i} : pending'[j] = pending[j]
      BY <1>1, <3>1, <3>4 DEF SlotTypes
    <3>6. UNCHANGED Line
      <4>1. i \notin Queued
        BY <1>1, <3>1 DEF TrialsAccounted, Occupied
      <4> QED BY <1>1, <1>2, <3>4, <4>1, LineUntouched
    <3>7. LiveIds \subseteq LiveIds'
      <4>1. \A j \in Occupied : j \in Occupied' /\ pending'[j].id = pending[j].id
        BY <3>1, <3>5 DEF Occupied
      <4> QED BY <4>1 DEF LiveIds
    <3>8. \A id \in LiveIds \cup {BestId} : id < o.point.id
      BY <1>1, <3>2, <3>3
    <3>9. FlowTurn'
      <4>1. Up(Line', o.point.id)
        BY <1>1, <3>6, <3>8 DEF Up
      <4> QED BY <2>2, <3>3, <3>4, <3>5, <3>8, <4>1 DEF FlowTurn
    <3>10. ASSUME NEW id \in Int, Awaited(id) PROVE Awaited(id)'
      BY <2>2, <3>3, <3>4, <3>5, <3>6, <3>7, <3>8, <3>10 DEF Awaited
    <3> QED BY <1>2, <2>2, <3>4, <3>6, <3>9, <3>10, LoneUnnoticed
  <2> QED BY <2>3, <2>4
<1> QED
  BY <1>4, <1>5

(* What a layer without detours does to the trial.                         *)
LEMMA StraightTurn ==
  ASSUME NEW S, NEW L, NEW N, NEW G, LoneContract(S, L, N, G), LoneInv(S, L, N, G),
         NEW i \in Occupied, NEW layer \in (-LstackLen .. LstackLen) \ {0},
         NEW o, o.status \in {"ACCEPT", "REJECT"},
         o.status = "REJECT" => layer > 0 /\ ReplacesRejected(S, N, G) /\ o.hint \in Hints,
         NEW t \in workflow_transition(i, layer, o)
  PROVE  /\ t.ret = 0 /\ t.waiting = waiting
         /\ StrategyBest(t.strat).id = BestId
         /\ IF o.status = "ACCEPT"
              THEN t.layer = layer + 1 /\ t.point = PointOf(pending[i])
              ELSE /\ t.layer = 1
                   /\ t.point.id = pending[i].id \/ N[strat] <= t.point.id
                   /\ t.point.id \in Int
<1> DEFINE p == PointOf(pending[i])
           stay == [ret |-> 0, layer |-> layer, strat |-> strat, waiting |-> waiting,
                    point |-> p, pollstate |-> pollstate]
<1>1. /\ p \in Point /\ p.id = pending[i].id /\ p.id \in LiveIds
      /\ LiveIds \in SUBSET Nat /\ <<strat, LiveIds>> \in G /\ strat \in S
      /\ TrialContract(S, L, N, G)
  <2>1. TrialContract(S, L, N, G) /\ TrialInv(S, L, N, G)
    BY LoneFacts
  <2> QED BY <2>1, InvFacts DEF PointOf, Point, Trials
<1>2. CASE o.status = "ACCEPT"
  <2>1. t = [stay EXCEPT !.layer = layer + 1]
    BY <1>2 DEF workflow_transition
  <2> QED BY <1>2, <2>1 DEF BestId
<1>3. CASE o.status = "REJECT"
  <2>1. layer > 0 /\ ~(layer < 0) /\ ReplacesRejected(S, N, G) /\ o.hint \in Hints
    BY <1>3, SessionAssumption
  <2>2. t \in handle_reject(i, layer, o.hint, stay)
    BY <1>3 DEF workflow_transition
  <2>3. PICK r \in StrategyRejected(strat, p, o.hint) :
          /\ t.ret = CASE r.status = "ERROR" -> -1 [] r.status = "WAIT" -> 1 [] OTHER -> 0
          /\ t.layer = IF r.status = "ACCEPT" THEN 1 ELSE layer
          /\ t.strat = r.next
          /\ t.waiting = waiting
          /\ t.point = r.point
    BY <2>1, <2>2 DEF handle_reject
  <2>4. r.status = "ACCEPT" /\ (r.point.id = p.id \/ N[strat] <= r.point.id)
    BY <1>1, <2>1, <2>3 DEF ReplacesRejected
  <2>5. r.point \in Point
    BY <1>1, <2>1, <2>3 DEF TrialContract, StrategyContract, Hints
  <2>6. StrategyBest(r.next).id = BestId
    BY <1>1, <2>1, <2>3 DEF LoneContract, BestIsReported, BestId
  <2> QED BY <1>1, <1>3, <2>3, <2>4, <2>5, <2>6 DEF Point
<1> QED
  BY <1>2, <1>3

(* A turn of the loop in plugin_workflow(): the trial goes on the way it   *)
(* goes, and if it is replaced the new one is newer still.                 *)
LEMMA LoneLayers ==
  ASSUME NEW S, NEW L, NEW N, NEW G, LoneContract(S, L, N, G), LoneInv(S, L, N, G),
         TrialInv(S, L, N, G)', Slots' = Slots, UNCHANGED hdesc, LayerStep
  PROVE  LoneInv(S, L, N, G)'
<1> DEFINE k == IF curr_layer < 0 THEN -curr_layer ELSE curr_layer
           i == trial_idx
<1>1. /\ SlotTypes /\ RingShape /\ TrialsAccounted /\ IdsUnique
      /\ BestId \in Int /\ BestId < N[strat]
      /\ N[strat] \in Nat /\ LiveIds \in SUBSET Nat /\ \A x \in LiveIds : x < N[strat]
      /\ Line \in Seq(Point) /\ \A n \in 1 .. Len(Line) : Line[n].id \in LiveIds
      /\ TrialContract(S, L, N, G) /\ TrialInv(S, L, N, G)
  <2>1. IdsUnique
    BY DEF LoneInv, TrialInv
  <2> QED BY <2>1, LoneFacts
<1>2. /\ at = "workflow" /\ InFlow = {i} /\ i \in Slots /\ i \in Occupied
      /\ pending[i] \in Trials /\ pending[i].id \in LiveIds
  BY <1>1, InvFacts DEF LayerStep
<1>3. /\ k \in 1 .. LstackLen /\ curr_layer \in (-LstackLen .. LstackLen) \ {0}
      /\ curr_layer = k \/ curr_layer = -k
      /\ lstate[k] \in L[k]
  <2>1. curr_layer # 0 /\ curr_layer <= LstackLen
    BY DEF LayerStep
  <2>2. curr_layer \in -LstackLen .. LstackLen + 1 /\ LstackLen \in Nat
    BY <1>1, InvFacts, SessionAssumption DEF TypeOK
  <2>3. /\ k \in 1 .. LstackLen /\ curr_layer \in (-LstackLen .. LstackLen) \ {0}
        /\ curr_layer = k \/ curr_layer = -k
    BY <2>1, <2>2
  <2>4. lstate[k] \in L[k]
    BY <1>1, <2>3 DEF TrialInv, RingInv, TypeInv, LstateIn
  <2> QED BY <2>3, <2>4
<1>4. PICK o \in IF curr_layer < 0
                   THEN LayerAnalyze(k, lstate[k], pending[i])
                   ELSE LayerGenerate(k, lstate[k], pending[i], StrategyConverged(strat)) :
        \E t \in workflow_transition(i, curr_layer, o) :
          /\ waiting' = t.waiting
          /\ Take(t, i, o.perf)
          /\ IF t.ret = 0
               THEN UNCHANGED <<at, wire, caller, from, trial_idx>>
               ELSE Return(t.ret = 1)
  BY DEF LayerStep
<1>5. PICK t \in workflow_transition(i, curr_layer, o) :
        /\ waiting' = t.waiting
        /\ Take(t, i, o.perf)
        /\ IF t.ret = 0
             THEN UNCHANGED <<at, wire, caller, from, trial_idx>>
             ELSE Return(t.ret = 1)
  BY <1>4
<1>6. UNCHANGED <<pending_cap, ready, ready_head, paused_id>>
  BY DEF LayerStep, ringVars
<1> HIDE DEF k, i
<1>7. /\ o.status \in FlowStatuses
      /\ o.status = "REJECT" => curr_layer > 0 /\ ReplacesRejected(S, N, G) /\ o.hint \in Hints
  BY <1>1, <1>2, <1>3, VerdictIs
<1>8. o.status \in {"ACCEPT", "REJECT"} /\ (curr_layer < 0 => o.status = "ACCEPT")
  <2>1. StrategyConverged(strat) \in BOOLEAN
    <3>1. strat \in S
      BY LoneFacts
    <3> QED BY <1>1, <3>1, Zenon DEF TrialContract, StrategyContract
  <2>2. CASE curr_layer < 0
    BY <1>2, <1>3, <2>2 DEF LoneContract, Straight
  <2>3. CASE ~(curr_layer < 0)
    <3>1. o.status \in {"ACCEPT", "REJECT", "ERROR"}
      BY <1>2, <1>3, <2>1, <2>3 DEF LoneContract, Straight
    <3> QED BY <1>7, <2>3, <3>1 DEF FlowStatuses
  <2> QED BY <2>2, <2>3
<1>9. /\ t.ret = 0 /\ t.waiting = waiting
      /\ StrategyBest(t.strat).id = BestId
      /\ IF o.status = "ACCEPT"
           THEN t.layer = curr_layer + 1 /\ t.point = PointOf(pending[i])
           ELSE /\ t.layer = 1
                /\ t.point.id = pending[i].id \/ N[strat] <= t.point.id
                /\ t.point.id \in Int
  BY <1>2, <1>3, <1>7, <1>8, StraightTurn
<1> DEFINE u == Trial(t.point, o.perf)
<1>10. /\ strat' = t.strat /\ curr_layer' = t.layer /\ pending' = [pending EXCEPT ![i] = u]
       /\ UNCHANGED <<at, wire, caller, from, trial_idx, waiting>>
  BY <1>5, <1>9 DEF Take
<1>11. /\ u.id = t.point.id /\ u.id \in Int
       /\ u.id = pending[i].id \/ (N[strat] <= u.id /\ curr_layer > 0)
       /\ curr_layer < 0 => curr_layer' <= 0 /\ u.id = pending[i].id
       /\ ~(curr_layer < 0) => curr_layer' > 0
  <2>1. /\ u.id = t.point.id /\ PointOf(pending[i]).id = pending[i].id
        /\ pending[i].id \in Int /\ curr_layer \in Int /\ curr_layer # 0
    BY <1>2, <1>3, SessionAssumption DEF Trial, PointOf, Trials
  <2>2. CASE o.status = "ACCEPT"
    BY <1>9, <1>10, <2>1, <2>2
  <2>3. CASE o.status = "REJECT"
    BY <1>7, <1>8, <1>9, <1>10, <2>1, <2>3
  <2> QED BY <1>8, <2>2, <2>3
<1> HIDE DEF u
<1>12. pending'[i] = u /\ \A j \in Slots \ {i} : pending'[j] = pending[j]
  BY <1>1, <1>2, <1>10 DEF SlotTypes
<1>13. UNCHANGED BestId
  BY <1>9, <1>10 DEF BestId
<1>14. UNCHANGED Line
  <2>1. i \notin Queued
    BY <1>1, <1>2 DEF TrialsAccounted
  <2> QED BY <1>1, <1>6, <1>10, <2>1, LineUntouched
<1>15. LiveIds \ {pending[i].id} \subseteq LiveIds' /\ u.id \in LiveIds'
  <2>1. \A j \in Occupied \ {i} : j \in Occupied' /\ pending'[j].id = pending[j].id
    BY <1>12 DEF Occupied
  <2>2. i \in Occupied'
    <3>1. u.id # -1
      BY <1>1, <1>2, <1>11
    <3> QED BY <1>2, <1>12, <3>1 DEF Occupied
  <2> QED BY <1>12, <2>1, <2>2 DEF LiveIds
<1>16. pending[i].id <= u.id /\ pending[i].id \in Int
  <2>1. ASSUME NEW x \in LiveIds PROVE x \in Int /\ x < N[strat] /\ N[strat] \in Int
    BY <1>1
  <2>2. pending[i].id \in LiveIds
    BY <1>2
  <2> QED BY <1>11, <2>1, <2>2
<1>17. FlowTurn /\ (caller = "report" <=> curr_layer < 0)
  <2>1. FlowTurn
    BY DEF LoneInv
  <2>2. curr_layer \in Int /\ curr_layer # 0
    BY <1>3, SessionAssumption
  <2> QED BY <1>2, <2>1, <2>2 DEF FlowTurn
<1>18. FlowTurn'
  <2>1. BestId < pending[i].id
    BY <1>2, <1>17 DEF FlowTurn, i
  <2>2. BestId' < pending'[i].id
    BY <1>1, <1>11, <1>12, <1>13, <1>16, <2>1
  <2>3. CASE caller = "report"
    <3>1. After(pending[i].id, Line) /\ pending'[i].id = pending[i].id /\ curr_layer' <= 0
      BY <1>2, <1>11, <1>12, <1>17, <2>3 DEF FlowTurn, i
    <3> QED BY <1>10, <1>14, <2>2, <2>3, <3>1 DEF FlowTurn, i
  <2>4. CASE caller # "report"
    <3>1. Up(Line, pending[i].id) /\ curr_layer' > 0
      BY <1>2, <1>11, <1>17, <2>4 DEF FlowTurn, i
    <3>2. ASSUME NEW n \in 1 .. Len(Line) PROVE Line[n].id < u.id
      <4>1. Line[n].id \in LiveIds /\ \A x \in LiveIds : x \in Int
        BY <1>1
      <4>2. Line[n].id < pending[i].id
        BY <3>1 DEF Up
      <4>3. Line[n].id \in Int
        BY <4>1
      <4>4. pending[i].id \in Int /\ u.id \in Int /\ pending[i].id <= u.id
        BY <1>11, <1>16
      <4> QED BY <4>2, <4>3, <4>4
    <3>3. Up(Line', pending'[i].id)
      BY <1>12, <1>14, <3>2 DEF Up
    <3> QED BY <1>10, <2>2, <2>4, <3>1, <3>3 DEF FlowTurn, i
  <2> QED BY <2>3, <2>4
<1>19. ASSUME NEW id \in Int, Awaited(id) PROVE Awaited(id)'
  <2>1. id \in LiveIds'
    <3>1. CASE caller = "report"
      BY <1>11, <1>15, <1>17, <1>19, <3>1 DEF Awaited
    <3>2. CASE caller # "report"
      <4>1. id # pending[i].id
        BY <1>2, <1>16, <1>19, <3>2 DEF Awaited, i
      <4> QED BY <1>15, <1>19, <4>1 DEF Awaited
    <3> QED BY <3>1, <3>2
  <2>2. caller # "report" => id < pending'[i].id
    BY <1>2, <1>11, <1>12, <1>16, <1>19 DEF Awaited, i
  <2> QED BY <1>10, <1>13, <1>14, <1>19, <2>1, <2>2 DEF Awaited, i
<1> QED
  BY <1>2, <1>6, <1>10, <1>13, <1>14, <1>18, <1>19, LoneUnnoticed

-----------------------------------------------------------------------------
(* The client gets its answer and the loop goes on.                        *)
LEMMA LoneAnswers ==
  ASSUME NEW S, NEW L, NEW N, NEW G, LoneContract(S, L, N, G), LoneInv(S, L, N, G),
         TrialInv(S, L, N, G)', at' \notin {"exit", "workflow"}, UNCHANGED <<waiting, hdesc>>,
         BestId <= BestId', Rises(Line)', After(BestId, Line)',
         NEW c \in Clients, wire[c].status = "REQ",
         wire'[c].type = wire[c].type, wire'[c].status \in {"OK", "BUSY"},
         wire'[c].status = "BUSY" => Resent(wire[c].point.id)' /\ wire[c].type = "FETCH",
         wire[c].type = "BEST" => wire'[c].point.id = BestId',
         wire[c].type = "FETCH" /\ wire'[c].status = "OK" => Awaited(wire[c].point.id)',
         wire[c].type \notin {"FETCH", "REPORT"} =>
           UNCHANGED <<BestId, paused_id>> /\ \A id \in Int : Awaited(id) => Awaited(id)'
  PROVE  LoneInv(S, L, N, G)'
<1>1. BestId \in Int /\ -1 <= BestId /\ waiting = {}
  BY LoneFacts DEF LoneInv
<1>2. BestId' \in Int
  <2>1. strat' \in S
    BY DEF TrialInv, RingInv, TypeInv
  <2> QED BY <2>1 DEF LoneContract, TrialContract, StrategyContract, BestId, Point
<1>3. hdesc[c].best.id \in Int /\ hdesc[c].curr.id \in Int
  BY LoneFacts DEF Point
<1>4. ClientTurn(c) /\ CallSound(c)
  BY DEF LoneInv, TrialInv, ClientSound
<1>5. ClientTurn(c)'
  BY <1>1, <1>2, <1>3, <1>4, TurnAnswered
<1>6. \A d \in Clients : d = c
  BY DEF LoneContract
<1>7. -1 <= BestId'
  BY <1>1, <1>2
<1>8. FlowTurn'
  BY DEF FlowTurn
<1> QED
  BY <1>1, <1>5, <1>6, <1>7, <1>8 DEF LoneInv

(* The trial of the report becomes the best point, or does not.            *)
LEMMA LoneAnalyzes ==
  ASSUME NEW S, NEW L, NEW N, NEW G, LoneContract(S, L, N, G), LoneInv(S, L, N, G),
         TrialInv(S, L, N, G)', Slots' = Slots, UNCHANGED hdesc, WorkflowAnalyze
  PROVE  LoneInv(S, L, N, G)'
<1> DEFINE i == trial_idx
           p == pending[i]
<1>1. /\ SlotTypes /\ RingShape /\ TrialsAccounted /\ strat \in S /\ TypeOK
      /\ BestId \in Int
      /\ N[strat] \in Nat /\ LiveIds \in SUBSET Nat
      /\ Line \in Seq(Point)
      /\ TrialContract(S, L, N, G) /\ TrialInv(S, L, N, G)
  BY LoneFacts
<1>2. /\ at = "workflow" /\ InFlow = {i} /\ i \in Slots /\ i \in Occupied
      /\ p \in Trials /\ p.id \in LiveIds /\ <<strat, LiveIds>> \in G
  BY <1>1, InvFacts DEF WorkflowAnalyze
<1> HIDE DEF i, p
<1>3. caller = "report" /\ BestId < p.id /\ After(p.id, Line)
  BY <1>2 DEF WorkflowAnalyze, LoneInv, FlowTurn, i, p
<1>4. from \in Clients /\ Requested(from, "REPORT")
  BY <1>3 DEF LoneInv, TrialInv, FlowSound
<1>5. StrategyAnalyze(strat, p) # {}
  BY <1>1, <1>2 DEF TrialContract, IssuesIds
<1>6. /\ strat' \in StrategyAnalyze(strat, p) /\ Release(i) /\ Return(TRUE)
      /\ UNCHANGED <<pending_cap, ready, ready_head, waiting>>
  BY <1>5 DEF WorkflowAnalyze, i, p, ringVars
<1>7. /\ pending' = [pending EXCEPT ![i] = FreeTrial]
      /\ at' = "generate"
      /\ wire' = [wire EXCEPT ![from] = [wire[from] EXCEPT !.status = "OK"]]
  BY <1>3, <1>6 DEF Release, Return, Reply
<1>8. UNCHANGED Line
  <2>1. i \notin Queued
    BY <1>1, <1>2 DEF TrialsAccounted
  <2> QED BY <1>1, <1>6, <1>7, <2>1, LineUntouched
<1>9. BestId' \in {BestId, p.id}
  BY <1>1, <1>2, <1>6 DEF LoneContract, BestIsReported, BestId
<1>10. BestId <= BestId'
  BY <1>1, <1>2, <1>3, <1>9 DEF Trials
<1>11. Rises(Line)' /\ After(BestId, Line)'
  <2>1. Rises(Line) /\ After(BestId, Line)
    BY DEF LoneInv
  <2> QED BY <1>3, <1>8, <1>9, <2>1 DEF Rises, After
<1>12. /\ wire[from].status = "REQ" /\ wire[from].type = "REPORT"
       /\ wire'[from].type = "REPORT" /\ wire'[from].status = "OK"
  <2>1. wire \in [Clients -> Mesg]
    BY LoneFacts
  <2>2. wire[from] \in Mesg /\ wire'[from] = [wire[from] EXCEPT !.status = "OK"]
    BY <1>4, <1>7, <2>1
  <2> QED BY <1>4, <2>2 DEF Requested, Mesg
<1> QED
  BY <1>4, <1>6, <1>7, <1>10, <1>11, <1>12, LoneAnswers

(* The trial joins the queue, behind all that are older.                   *)
LEMMA LoneEnqueues ==
  ASSUME NEW S, NEW L, NEW N, NEW G, LoneContract(S, L, N, G), LoneInv(S, L, N, G),
         TrialInv(S, L, N, G)', Slots' = Slots, UNCHANGED hdesc, WorkflowEnqueue
  PROVE  LoneInv(S, L, N, G)'
<1> DEFINE i == trial_idx
           p == PointOf(pending[i])
<1>1. /\ SlotTypes /\ RingShape /\ TrialsAccounted /\ TypeOK
      /\ BestId \in Int /\ Line \in Seq(Point)
      /\ TrialContract(S, L, N, G) /\ TrialInv(S, L, N, G)
  BY LoneFacts
<1>2. /\ at = "workflow" /\ InFlow = {i} /\ i \in Slots /\ i \in Occupied
      /\ p \in Point /\ p.id = pending[i].id
  BY <1>1, InvFacts DEF WorkflowEnqueue, PointOf, Point, Trials
<1> HIDE DEF i, p
<1>3. ready[ready_tail] = NoTrial
  <2>1. i \notin Queued /\ QueuedOnce
    BY <1>1, <1>2, AccountedIs DEF TrialsAccounted
  <2> QED BY <1>1, <1>2, <2>1, TailIsFree
<1>4. /\ Enqueue(i) /\ Return(TRUE)
      /\ UNCHANGED <<ready_head, pending, pending_cap, strat, waiting, paused_id>>
  BY <1>3 DEF WorkflowEnqueue, i, trialVars, plugVars
<1>5. caller # "report" /\ BestId < p.id /\ Up(Line, p.id)
  <2>1. ~(curr_layer <= 0)
    BY <1>1, SessionAssumption DEF WorkflowEnqueue, TypeOK
  <2> QED BY <1>2, <2>1 DEF LoneInv, FlowTurn, i
<1>6. at' \in {"select", "generate"} /\ UNCHANGED wire
  BY <1>4, <1>5 DEF Return
<1>7. Line' = Append(Line, p)
  BY <1>1, <1>2, <1>3, <1>4, LineMore DEF p
<1>8. /\ Rises(Line)'
      /\ \A id \in Int : After(id, Line) /\ id < p.id => After(id, Line')
  BY <1>1, <1>2, <1>5, <1>7, RisesAppended DEF LoneInv
<1>9. UNCHANGED BestId /\ UNCHANGED LiveIds
  BY <1>4 DEF BestId, LiveIds, Occupied, Slots
<1>10. After(BestId, Line)'
  BY <1>1, <1>5, <1>8, <1>9 DEF LoneInv
<1>11. ASSUME NEW id \in Int, Awaited(id) PROVE Awaited(id)'
  <2>1. id < p.id
    BY <1>2, <1>5, <1>11 DEF Awaited, i
  <2>2. After(id, Line')
    BY <1>8, <1>11, <2>1 DEF Awaited
  <2> QED BY <1>6, <1>9, <1>11, <2>2 DEF Awaited
<1>12. ASSUME NEW c \in Clients PROVE ClientTurn(c)'
  <2>1. ClientTurn(c) /\ wire'[c] = wire[c] /\ hdesc'[c] = hdesc[c]
    BY <1>6 DEF LoneInv
  <2>2. wire[c] \in Mesg /\ hdesc[c].curr \in Point
    BY LoneFacts
  <2> QED BY <1>4, <1>9, <1>11, <2>1, <2>2, TurnKept
<1>13. FlowTurn'
  BY <1>6 DEF FlowTurn
<1> QED
  BY <1>4, <1>6, <1>8, <1>9, <1>10, <1>12, <1>13 DEF LoneInv

-----------------------------------------------------------------------------
(* Messages that leave the trials and the best point alone.                *)
LEMMA LoneStill ==
  ASSUME UNCHANGED <<pending, pending_cap, ready, ready_head>>, UNCHANGED BestId, at' # "workflow"
  PROVE  /\ UNCHANGED Line /\ UNCHANGED LiveIds
         /\ FlowTurn'
         /\ \A id \in Int : Awaited(id) => Awaited(id)'
<1>1. UNCHANGED Line /\ UNCHANGED LiveIds
  BY DEF Line, ReadyQueue, LiveIds, Occupied, Slots
<1> QED
  BY <1>1 DEF FlowTurn, Awaited

(* The client joins the session that it described; ...                    *)
LEMMA LoneJoins ==
  ASSUME NEW S, NEW L, NEW N, NEW G, LoneContract(S, L, N, G), LoneInv(S, L, N, G),
         TrialInv(S, L, N, G)', UNCHANGED hdesc, NEW c \in Clients, handle_join(c)
  PROVE  LoneInv(S, L, N, G)'
<1>1. Requested(c, "JOIN") /\ wire[c].flag
  BY DEF handle_join, LoneInv, ClientTurn
<1>2. /\ extend_lists((num_clients + 1) * PerClient)
      /\ Reply(c, [wire[c] EXCEPT !.status = "OK"])
      /\ UNCHANGED <<plugVars, paused_id>>
  BY <1>1 DEF handle_join
<1>3. UNCHANGED <<trialVars, ringVars>>
  <2>1. TrialContract(S, L, N, G) /\ TrialInv(S, L, N, G) /\ RingInv(S, L)'
    BY DEF LoneContract, LoneInv, TrialInv
  <2> QED BY <1>2, <2>1, ListsStay
<1>4. UNCHANGED BestId /\ UNCHANGED waiting /\ at' = "generate"
  BY <1>2 DEF plugVars, BestId, Reply
<1>5. UNCHANGED Line /\ \A id \in Int : Awaited(id) => Awaited(id)'
  BY <1>3, <1>4, LoneStill DEF trialVars, ringVars
<1>6. Rises(Line)' /\ After(BestId, Line)' /\ BestId <= BestId'
  <2>1. Rises(Line) /\ After(BestId, Line) /\ BestId \in Int
    BY LoneFacts DEF LoneInv
  <2> QED BY <1>4, <1>5, <2>1
<1>7. /\ wire[c].status = "REQ" /\ wire[c].type = "JOIN"
      /\ wire'[c].type = "JOIN" /\ wire'[c].status = "OK"
  <2>1. wire \in [Clients -> Mesg]
    BY LoneFacts
  <2>2. wire[c] \in Mesg /\ wire'[c] = [wire[c] EXCEPT !.status = "OK"]
    BY <1>2, <2>1 DEF Reply
  <2> QED BY <1>1, <2>2 DEF Requested, Mesg
<1>8. UNCHANGED paused_id
  BY <1>2
<1> QED
  BY <1>4, <1>5, <1>6, <1>7, <1>8, LoneAnswers

(* ... it asks whether the search is over, or for the best point.         *)
LEMMA LoneQueries ==
  ASSUME NEW S, NEW L, NEW N, NEW G, LoneContract(S, L, N, G), LoneInv(S, L, N, G),
         TrialInv(S, L, N, G)', UNCHANGED hdesc, NEW c \in Clients,
         handle_getcfg(c) \/ handle_best(c)
  PROVE  LoneInv(S, L, N, G)'
<1>1. /\ UNCHANGED <<pending, pending_cap, ready, ready_head, strat, waiting, paused_id>>
      /\ at' = "generate"
  BY DEF handle_getcfg, handle_best, Reply, trialVars, ringVars, plugVars
<1>2. UNCHANGED BestId
  BY <1>1 DEF BestId
<1>3. UNCHANGED Line /\ \A id \in Int : Awaited(id) => Awaited(id)'
  BY <1>1, <1>2, LoneStill
<1>4. Rises(Line)' /\ After(BestId, Line)' /\ BestId <= BestId'
  <2>1. Rises(Line) /\ After(BestId, Line) /\ BestId \in Int
    BY LoneFacts DEF LoneInv
  <2> QED BY <1>2, <1>3, <2>1
<1>5. wire \in [Clients -> Mesg] /\ wire[c] \in Mesg
  BY LoneFacts
<1>6. CASE handle_getcfg(c)
  <2>1. wire'[c] = [wire[c] EXCEPT !.status = "OK", !.flag = StrategyConverged(strat)]
    BY <1>5, <1>6 DEF handle_getcfg, Reply
  <2>2. /\ wire[c].status = "REQ" /\ wire[c].type = "GETCFG"
        /\ wire'[c].type = "GETCFG" /\ wire'[c].status = "OK"
    BY <1>5, <1>6, <2>1 DEF handle_getcfg, Requested, Mesg
  <2> QED BY <1>1, <1>2, <1>3, <1>4, <2>2, LoneAnswers
<1>7. CASE handle_best(c)
  <2>1. wire'[c] = [wire[c] EXCEPT !.status = "OK", !.point = StrategyBest(strat)]
    BY <1>5, <1>7 DEF handle_best, Reply
  <2>2. /\ wire[c].status = "REQ" /\ wire[c].type = "BEST"
        /\ wire'[c].type = "BEST" /\ wire'[c].status = "OK"
        /\ wire'[c].point = StrategyBest(strat)
    BY <1>5, <1>7, <2>1 DEF handle_best, Requested, Mesg
  <2>3. wire'[c].point.id = BestId'
    BY <1>2, <2>2 DEF BestId
  <2> QED BY <1>1, <1>2, <1>3, <1>4, <2>2, <2>3, LoneAnswers
<1> QED
  BY <1>6, <1>7

(* Pausing and resuming; and a restart, which keeps the best point.        *)
LEMMA LoneHttp ==
  ASSUME NEW S, NEW L, NEW N, NEW G, LoneContract(S, L, N, G), LoneInv(S, L, N, G),
         TrialInv(S, L, N, G)', UNCHANGED hdesc, HttpRequest
  PROVE  LoneInv(S, L, N, G)'
<1>1. /\ UNCHANGED <<pending, pending_cap, ready, ready_head, waiting, paused_id, wire>>
      /\ at' = "generate"
  BY DEF HttpRequest, handle_setcfg, handle_restart, trialVars, ringVars, plugVars
<1>2. UNCHANGED BestId
  <2>1. strat' = strat \/ strat' = StrategyRestart(strat)
    BY DEF HttpRequest, handle_setcfg, handle_restart, plugVars
  <2>2. strat \in S
    BY LoneFacts
  <2> QED BY <2>1, <2>2 DEF BestId, LoneContract, BestIsReported
<1>3. UNCHANGED Line /\ FlowTurn' /\ \A id \in Int : Awaited(id) => Awaited(id)'
  BY <1>1, <1>2, LoneStill
<1> QED
  BY <1>1, <1>2, <1>3, LoneUnnoticed

(* It fetches: the oldest trial of the queue or, if there is none, the best*)
(* point, whose id the session keeps for the report.                       *)
LEMMA LoneFetches ==
  ASSUME NEW S, NEW L, NEW N, NEW G, LoneContract(S, L, N, G), LoneInv(S, L, N, G),
         TrialInv(S, L, N, G)', Slots' = Slots, UNCHANGED hdesc,
         NEW c \in Clients, handle_fetch(c)
  PROVE  LoneInv(S, L, N, G)'
<1> DEFINE idx == ready[ready_head]
<1>1. /\ SlotTypes /\ RingShape /\ BestId \in Int
      /\ LiveIds \in SUBSET Nat /\ Line \in Seq(Point)
      /\ \A n \in 1 .. Len(Line) : Line[n].id \in LiveIds
      /\ wire \in [Clients -> Mesg]
      /\ Rises(Line) /\ After(BestId, Line)
  BY LoneFacts DEF LoneInv
<1>2. /\ wire[c].status = "REQ" /\ wire[c].type = "FETCH" /\ wire[c] \in Mesg
      /\ at' = "generate" /\ UNCHANGED <<pending, pending_cap, strat, waiting>>
  BY <1>1 DEF handle_fetch, Requested, Reply, plugVars
<1>3. UNCHANGED BestId /\ UNCHANGED LiveIds
  BY <1>2 DEF BestId, LiveIds, Occupied, Slots
<1>4. CASE ~paused /\ idx >= 0
  <2>1. /\ wire' = [wire EXCEPT ![c] = [wire[c] EXCEPT !.status = "OK",
                                                       !.point = PointOf(pending[idx])]]
        /\ Dequeue
    BY <1>4 DEF handle_fetch, Reply
  <2>2. ready[ready_head] # NoTrial
    BY <1>4 DEF NoTrial
  <2>3. Line # <<>> /\ Head(Line) = PointOf(pending[idx]) /\ Line' = Tail(Line)
    BY <1>1, <1>2, <2>1, <2>2, LineLess
  <2> HIDE DEF idx
  <2>4. /\ wire'[c].type = "FETCH" /\ wire'[c].status = "OK"
        /\ wire'[c].point = Head(Line)
    <3>1. wire'[c] = [wire[c] EXCEPT !.status = "OK", !.point = PointOf(pending[idx])]
      BY <1>1, <2>1
    <3> QED BY <1>2, <2>3, <3>1 DEF Mesg
  <2>5. /\ Rises(Line)' /\ After(Head(Line).id, Line')
        /\ BestId < Head(Line).id /\ After(BestId, Line')
    BY <1>1, <2>3, RisesTaken
  <2>6. Head(Line).id \in LiveIds
    <3>1. Head(Line) = Line[1] /\ 1 \in 1 .. Len(Line)
      BY <1>1, <2>3, HeadTailProperties, EmptySeq
    <3> QED BY <1>1, <3>1
  <2>7. Awaited(wire[c].point.id)'
    BY <1>2, <1>3, <2>4, <2>5, <2>6 DEF Awaited
  <2>8. After(BestId, Line)' /\ BestId <= BestId'
    BY <1>1, <1>3, <2>5
  <2> QED BY <1>2, <2>4, <2>5, <2>7, <2>8, LoneAnswers
<1>5. CASE ~(~paused /\ idx >= 0)
  <2>1. /\ wire' = [wire EXCEPT ![c] = [wire[c] EXCEPT !.status = "BUSY",
                                                       !.point = StrategyBest(strat)]]
        /\ paused_id' = StrategyBest(strat).id
        /\ UNCHANGED <<ready, ready_head>>
    BY <1>5 DEF handle_fetch, Reply
  <2>2. UNCHANGED Line
    BY <1>2, <1>3, <2>1, LoneStill
  <2>3. /\ wire'[c].type = "FETCH" /\ wire'[c].status = "BUSY"
        /\ wire'[c].point = StrategyBest(strat)
    <3>1. wire'[c] = [wire[c] EXCEPT !.status = "BUSY", !.point = StrategyBest(strat)]
      BY <1>1, <2>1
    <3> QED BY <1>2, <3>1 DEF Mesg
  <2>4. Resent(wire[c].point.id)'
    BY <1>3, <2>1, <2>3 DEF Resent, BestId
  <2>5. Rises(Line)' /\ After(BestId, Line)' /\ BestId <= BestId'
    BY <1>1, <1>3, <2>2
  <2> QED BY <1>2, <2>3, <2>4, <2>5, LoneAnswers
<1> QED
  BY <1>4, <1>5

(* It reports: the trial it was given is still there, or it measured the   *)
(* point that is still the best.                                           *)
LEMMA LoneReports ==
  ASSUME NEW S, NEW L, NEW N, NEW G, LoneContract(S, L, N, G), LoneInv(S, L, N, G),
         TrialInv(S, L, N, G)', Slots' = Slots, UNCHANGED hdesc,
         NEW c \in Clients, handle_report(c)
  PROVE  LoneInv(S, L, N, G)'
<1> DEFINE found == SlotsWith(wire[c].point.id)
           idx   == First(found)
<1>1. /\ SlotTypes /\ RingShape /\ TrialsAccounted /\ BestId \in Int /\ BestId \notin LiveIds
      /\ wire \in [Clients -> Mesg] /\ hdesc[c].curr.id \in Int
      /\ Rises(Line) /\ After(BestId, Line)
      /\ TrialContract(S, L, N, G) /\ TrialInv(S, L, N, G)
  BY LoneFacts DEF LoneInv, Point
<1>2. /\ at = "select" /\ Requested(c, "REPORT")
      /\ wire[c].status = "REQ" /\ wire[c].type = "REPORT" /\ wire[c] \in Mesg
      /\ UNCHANGED <<pending_cap, ready, ready_head, strat, waiting>>
  BY <1>1 DEF handle_report, Requested, ringVars, plugVars
<1>3. UNCHANGED BestId
  BY <1>2 DEF BestId
<1>4. /\ wire[c].point.id = hdesc[c].curr.id
      /\ Awaited(hdesc[c].curr.id) \/ Resent(hdesc[c].curr.id)
      /\ ClientTurn(c)
  <2>1. ClientTurn(c) /\ CallSound(c)
    BY DEF LoneInv, TrialInv, ClientSound
  <2> QED BY <1>2, <2>1 DEF CallSound, ClientTurn
<1>5. \A d \in Clients : d = c
  BY DEF LoneContract
<1> HIDE DEF found
<1>6. CASE found # {}
  <2>1. /\ pending' = [pending EXCEPT ![idx].perf = wire[c].perf]
        /\ paused_id' = 0 /\ trial_idx' = idx /\ curr_layer' = -LstackLen
        /\ caller' = "report" /\ at' = "workflow" /\ UNCHANGED wire
    BY <1>6 DEF handle_report, found
  <2>2. /\ idx \in Occupied /\ holder[idx] = c
        /\ hdesc[c].curr = PointOf(pending[idx])
    BY <1>1, <1>2, <1>6, ReportFinds DEF found
  <2> HIDE DEF idx
  <2>3. idx \in Slots /\ pending[idx] \in Trials /\ pending[idx].id = hdesc[c].curr.id
    BY <1>1, <2>2 DEF Occupied, SlotTypes, PointOf
  <2>4. /\ pending' = [pending EXCEPT ![idx] = [pending[idx] EXCEPT !.perf = wire[c].perf]]
        /\ \A j \in Slots : pending'[j].id = pending[j].id
    BY <1>1, <2>1, <2>3 DEF SlotTypes, Trials
  <2>5. UNCHANGED Line
    <3>1. idx \notin Queued
      BY <1>1, <2>2, <2>3, SessionAssumption DEF TrialsAccounted, Held
    <3> QED BY <1>1, <1>2, <2>4, <3>1, LineUntouched
  <2>6. UNCHANGED LiveIds
    <3>1. Occupied' = Occupied
      BY <2>4 DEF Occupied
    <3>2. \A j \in Occupied : pending'[j].id = pending[j].id
      BY <2>4 DEF Occupied
    <3> QED BY <3>1, <3>2 DEF LiveIds
  <2>7. Awaited(hdesc[c].curr.id)
    <3>1. hdesc[c].curr.id \in LiveIds
      BY <2>2, <2>3 DEF LiveIds
    <3> QED BY <1>1, <1>4, <3>1 DEF Resent
  <2>8. Awaited(hdesc[c].curr.id)'
    BY <1>3, <2>1, <2>5, <2>6, <2>7 DEF Awaited
  <2>9. FlowTurn'
    <3>1. BestId < hdesc[c].curr.id /\ After(hdesc[c].curr.id, Line)
      BY <2>7 DEF Awaited
    <3>2. curr_layer' <= 0
      BY <2>1, SessionAssumption
    <3>3. pending'[trial_idx'].id = hdesc[c].curr.id
      BY <2>1, <2>3, <2>4
    <3> QED BY <1>3, <2>1, <2>5, <3>1, <3>2, <3>3 DEF FlowTurn
  <2>10. ClientTurn(c)'
    BY <1>2, <1>3, <1>4, <2>1, <2>8 DEF ClientTurn, Requested
  <2> QED BY <1>1, <1>2, <1>3, <1>5, <2>1, <2>5, <2>9, <2>10 DEF LoneInv
<1>7. CASE found = {}
  <2>1. hdesc[c].curr.id \notin LiveIds
    BY <1>4, <1>7 DEF found, SlotsWith, LiveIds, Occupied
  <2>2. wire[c].point.id = paused_id
    BY <1>4, <2>1 DEF Awaited, Resent
  <2>3. /\ Reply(c, [wire[c] EXCEPT !.status = "OK"])
        /\ UNCHANGED <<paused_id, pending>>
    BY <1>7, <2>2 DEF handle_report, found
  <2>4. wire'[c].type = "REPORT" /\ wire'[c].status = "OK" /\ at' = "generate"
    <3>1. wire'[c] = [wire[c] EXCEPT !.status = "OK"]
      BY <1>1, <2>3 DEF Reply
    <3> QED BY <1>2, <2>3, <3>1 DEF Mesg, Reply
  <2>5. UNCHANGED Line
    BY <1>2, <1>3, <2>3, <2>4, LoneStill
  <2>6. Rises(Line)' /\ After(BestId, Line)' /\ BestId <= BestId'
    BY <1>1, <1>3, <2>5
  <2> QED BY <1>2, <2>4, <2>6, LoneAnswers
<1> QED
  BY <1>6, <1>7

-----------------------------------------------------------------------------
(* What the client does by itself.                                         *)
SameTurns ==
  /\ BestId' = BestId
  /\ \A id : (Awaited(id)' <=> Awaited(id)) /\ (Resent(id)' <=> Resent(id))

LEMMA LoneMoves ==
  ASSUME NEW S, NEW L, NEW N, NEW G, LoneContract(S, L, N, G), LoneInv(S, L, N, G),
         TrialInv(S, L, N, G)', UNCHANGED sessionVars, NEW c \in Clients,
         SameTurns => ClientTurn(c)'
  PROVE  LoneInv(S, L, N, G)'
<1>1. UNCHANGED <<pending, pending_cap, ready, ready_head, waiting, strat, paused_id,
                  at, caller, trial_idx, curr_layer>>
  BY DEF sessionVars, trialVars, ringVars, plugVars, flowVars
<1>2. UNCHANGED BestId
  BY <1>1 DEF BestId
<1>3. UNCHANGED Line /\ UNCHANGED LiveIds
  BY <1>1 DEF Line, ReadyQueue, LiveIds, Occupied, Slots
<1>4. SameTurns
  BY <1>1, <1>2, <1>3 DEF SameTurns, Awaited, Resent, After
<1>5. FlowTurn' /\ Rises(Line)' /\ After(BestId, Line)'
  BY <1>1, <1>2, <1>3 DEF LoneInv, FlowTurn, After, Up, Rises
<1>6. \A d \in Clients : d = c
  BY DEF LoneContract
<1> QED
  BY <1>1, <1>2, <1>4, <1>5, <1>6 DEF LoneInv

(* What the client asks for ...                                            *)
LEMMA LoneCalls ==
  ASSUME NEW S, NEW L, NEW N, NEW G, LoneContract(S, L, N, G), LoneInv(S, L, N, G),
         TrialInv(S, L, N, G)', UNCHANGED sessionVars, NEW c \in Clients,
         CallJoin(c) \/ ClientCall(c)
  PROVE  LoneInv(S, L, N, G)'
<1> SUFFICES ASSUME SameTurns PROVE ClientTurn(c)'
  BY LoneMoves
<1> USE DEF SameTurns
<1>1. /\ ClientTurn(c) /\ -1 <= BestId
      /\ wire \in [Clients -> Mesg]
      /\ hdesc \in [Clients -> [state : ClientStates, curr : Point, best : Point,
                                 ptr : Vals \cup {NoVal}]]
      /\ BestId \in Int
  BY LoneFacts DEF LoneInv
<1>2. wire[c].status = "NONE"
  BY DEF CallJoin, ClientCall, CallFetch, CallReport, CallBest, CallConverged,
         harmony_leave, Idle
<1>3. hdesc[c].state = "TESTING" => Awaited(hdesc[c].curr.id) \/ Resent(hdesc[c].curr.id)
  BY <1>1, <1>2 DEF ClientTurn
<1>4. ASSUME wire'[c].status = "REQ", UNCHANGED hdesc,
             wire'[c].type = "JOIN" => wire'[c].flag
      PROVE  ClientTurn(c)'
  <2>1. (Requested(c, "JOIN") => wire[c].flag)'
    BY <1>4 DEF Requested
  <2>2. hdesc[c].best.id <= BestId
    BY <1>1 DEF ClientTurn
  <2> QED BY <1>3, <1>4, <2>1, <2>2 DEF ClientTurn
<1>5. ASSUME NEW type, NEW mesg \in Mesg, Request(c, type, mesg)
      PROVE  /\ wire'[c].status = "REQ" /\ wire'[c].type = type
             /\ wire'[c].flag = mesg.flag
  <2>1. wire'[c] = [mesg EXCEPT !.type = type, !.status = "REQ"]
    BY <1>1, <1>5 DEF Request
  <2> QED BY <2>1 DEF Mesg
<1>6. HMESG_INITIALIZER \in Mesg
  BY MesgAssumption DEF HMESG_INITIALIZER, HPOINT_INITIALIZER, Mesg, MesgTypes, MesgStatuses, Point
<1>7. CASE CallJoin(c)
  <2>1. PICK match \in SigMatch : Request(c, "JOIN", [HMESG_INITIALIZER EXCEPT !.flag = match])
    BY <1>7 DEF CallJoin
  <2> DEFINE mesg == [HMESG_INITIALIZER EXCEPT !.flag = match]
  <2>2. match = TRUE
    BY DEF LoneContract
  <2>3. mesg \in Mesg /\ mesg.flag = TRUE
    BY <1>6, <2>2 DEF Mesg
  <2> HIDE DEF mesg
  <2>4. wire'[c].status = "REQ" /\ wire'[c].flag = TRUE
    BY <1>5, <2>1, <2>3 DEF mesg
  <2> QED BY <1>4, <1>7, <2>4 DEF CallJoin
<1>8. CASE CallReport(c)
  <2>1. PICK p \in Perfs :
          Request(c, "REPORT", [HMESG_INITIALIZER EXCEPT !.point.id = hdesc[c].curr.id, !.perf = p])
    BY <1>8 DEF CallReport
  <2>2. [HMESG_INITIALIZER EXCEPT !.point.id = hdesc[c].curr.id, !.perf = p] \in Mesg
    <3>1. hdesc[c].curr.id \in Int
      BY <1>1 DEF Point
    <3> QED BY <1>6, <3>1 DEF Mesg, Point
  <2>3. wire'[c].status = "REQ" /\ wire'[c].type = "REPORT"
    BY <1>5, <2>1, <2>2
  <2> QED BY <1>4, <1>8, <2>3 DEF CallReport
<1>9. CASE CallFetch(c) \/ CallBest(c) \/ CallConverged(c)
  <2>1. wire'[c].status = "REQ" /\ wire'[c].type # "JOIN" /\ UNCHANGED hdesc
    BY <1>5, <1>6, <1>9 DEF CallFetch, CallBest, CallConverged
  <2> QED BY <1>4, <2>1
<1>10. CASE harmony_leave(c)
  <2>1. hdesc'[c] = [hdesc[c] EXCEPT !.state = "INIT", !.best.id = -1] /\ UNCHANGED wire
    BY <1>1, <1>10 DEF harmony_leave
  <2>2. hdesc'[c].state = "INIT" /\ hdesc'[c].best.id = -1
    BY <1>1, <2>1 DEF Point
  <2> QED BY <1>1, <1>2, <2>1, <2>2 DEF ClientTurn, Requested
<1> QED
  BY <1>7, <1>8, <1>9, <1>10 DEF ClientCall

(* ... and what it makes of the reply.                                     *)
LEMMA LoneReceives ==
  ASSUME NEW S, NEW L, NEW N, NEW G, LoneContract(S, L, N, G), LoneInv(S, L, N, G),
         TrialInv(S, L, N, G)', UNCHANGED sessionVars, NEW c \in Clients, ClientRecv(c)
  PROVE  LoneInv(S, L, N, G)'
<1> SUFFICES ASSUME SameTurns PROVE ClientTurn(c)'
  BY LoneMoves
<1> USE DEF SameTurns
<1> DEFINE h == hdesc[c]
           m == wire[c]
<1>1. /\ ClientTurn(c) /\ CallSound(c)
      /\ wire \in [Clients -> Mesg] /\ m \in Mesg
      /\ hdesc \in [Clients -> [state : ClientStates, curr : Point, best : Point,
                                 ptr : Vals \cup {NoVal}]]
      /\ h \in [state : ClientStates, curr : Point, best : Point,
                                 ptr : Vals \cup {NoVal}]
      /\ BestId \in Int
  BY LoneFacts DEF LoneInv, TrialInv, ClientSound
<1>2. m.status \in {"OK", "BUSY"} /\ Done(c)
  BY DEF ClientRecv, RecvJoin, RecvFetch, RecvReport, RecvBest, RecvConverged, Answered
<1>3. wire'[c].status = "NONE"
  BY <1>1, <1>2 DEF Done, HMESG_INITIALIZER
<1>4. ASSUME hdesc'[c].best.id <= BestId,
             hdesc'[c].state = "TESTING" => \/ Awaited(hdesc'[c].curr.id)
                                            \/ Resent(hdesc'[c].curr.id)
      PROVE  ClientTurn(c)'
  BY <1>3, <1>4 DEF ClientTurn, Requested
<1>5. h.best.id <= BestId /\ h.best.id \in Int /\ m.point.id \in Int
  BY <1>1 DEF ClientTurn, Point, Mesg
<1>6. CASE RecvJoin(c) \/ RecvReport(c)
  <2>1. hdesc'[c] = [h EXCEPT !.state = "READY"]
    BY <1>1, <1>6 DEF RecvJoin, RecvReport
  <2>2. hdesc'[c].state = "READY" /\ hdesc'[c].best = h.best
    BY <1>1, <2>1
  <2> QED BY <1>4, <1>5, <2>2
<1>7. CASE RecvConverged(c)
  <2>1. hdesc'[c] = [h EXCEPT !.state = IF m.flag THEN "CONVERGED" ELSE @]
    BY <1>1, <1>7 DEF RecvConverged
  <2>2. /\ hdesc'[c].best = h.best /\ hdesc'[c].curr = h.curr
        /\ hdesc'[c].state \in {"CONVERGED", h.state}
    BY <1>1, <2>1
  <2>3. m.type = "GETCFG"
    BY <1>7 DEF RecvConverged, Answered
  <2> QED BY <1>1, <1>4, <1>5, <2>2, <2>3 DEF ClientTurn
<1>8. CASE RecvBest(c)
  <2>1. /\ m.type = "BEST"
        /\ hdesc'[c].best = update_best(h.best, m.point)
        /\ hdesc'[c].curr = h.curr /\ hdesc'[c].state = h.state
    BY <1>1, <1>8 DEF RecvBest, Answered
  <2>2. /\ hdesc'[c].best \in {h.best, m.point} /\ hdesc'[c].curr = h.curr
        /\ hdesc'[c].state = h.state
    BY <1>1, <2>1 DEF update_best
  <2>3. m.point.id <= BestId
    BY <1>1, <1>2, <1>5, <2>1 DEF ClientTurn, Resent
  <2> QED BY <1>1, <1>4, <1>5, <2>1, <2>2, <2>3 DEF ClientTurn
<1>9. CASE RecvFetch(c)
  <2> DEFINE busy == m.status = "BUSY"
             best == IF busy THEN update_best(h.best, m.point) ELSE h.best
             none == busy /\ best.id = -1
             curr == IF busy THEN best ELSE m.point
  <2>1. hdesc'[c] = [state |-> IF none \/ curr.val = NoVal THEN h.state ELSE "TESTING",
                     curr  |-> IF none THEN h.curr ELSE curr,
                     best  |-> best,
                     ptr   |-> IF none \/ curr.val = NoVal THEN h.ptr ELSE curr.val]
    BY <1>1, <1>9 DEF RecvFetch
  <2>2. m.type = "FETCH" /\ h.state # "TESTING"
    BY <1>1, <1>9 DEF RecvFetch, Answered, CallSound
  <2>3. /\ hdesc'[c].best = best
        /\ hdesc'[c].state = "TESTING" => hdesc'[c].curr = curr
    BY <2>1, <2>2
  <2>4. CASE busy
    <3>1. Resent(m.point.id) /\ m.point.id = BestId
      BY <1>1, <2>4 DEF ClientTurn, Resent
    <3>2. best.id = BestId
      BY <1>1, <1>5, <2>4, <3>1 DEF update_best
    <3>3. best.id <= BestId /\ curr = best /\ Resent(curr.id)
      BY <1>1, <2>4, <3>1, <3>2
    <3> HIDE DEF best, curr
    <3> QED BY <1>4, <2>3, <3>3
  <2>5. CASE ~busy
    <3>1. Awaited(m.point.id)
      BY <1>1, <1>2, <2>2, <2>5 DEF ClientTurn
    <3> QED BY <1>4, <1>5, <2>3, <2>5, <3>1
  <2> QED BY <2>4, <2>5
<1> QED
  BY <1>6, <1>7, <1>8, <1>9 DEF ClientRecv

-----------------------------------------------------------------------------
LEMMA LoneInit ==
  ASSUME NEW S, NEW L, NEW N, NEW G, LoneContract(S, L, N, G), Init
  PROVE  LoneInv(S, L, N, G)
<1>1. TrialContract(S, L, N, G)
  BY DEF LoneContract
<1>2. TrialInv(S, L, N, G) /\ Line = <<>>
  BY <1>1, TrialInit, LineStarts
<1>3. at = "select" /\ waiting = {} /\ -1 <= BestId
  BY DEF Init, SessionInit, LoneContract, BestIsReported, BestId
<1>4. Rises(Line) /\ After(BestId, Line) /\ FlowTurn
  BY <1>2, <1>3 DEF Rises, After, FlowTurn
<1>5. ASSUME NEW c \in Clients PROVE ClientTurn(c)
  <2>1. /\ wire[c].status = "NONE"
        /\ hdesc[c].state = "INIT" /\ hdesc[c].best.id = -1
    BY DEF Init, WireInit, ClientInit, HMESG_INITIALIZER, HPOINT_INITIALIZER
  <2> QED BY <1>3, <2>1 DEF ClientTurn, Requested
<1> QED
  BY <1>2, <1>3, <1>4, <1>5 DEF LoneInv

LEMMA LoneStepKept ==
  ASSUME NEW S, NEW L, NEW N, NEW G, LoneContract(S, L, N, G), NoGrowth,
         LoneInv(S, L, N, G), [Next]_vars
  PROVE  LoneInv(S, L, N, G)'
<1>1. TrialInv(S, L, N, G)'
  BY TrialStepKept DEF LoneContract, LoneInv
<1>2. Slots' = Slots
  BY <1>1 DEF LoneInv, TrialInv, RingInv, Slots
<1>3. CASE SessionStep
  <2>1. UNCHANGED hdesc
    BY <1>3 DEF SessionStep
  <2>2. CASE SessionWork
    <3>1. ASSUME NEW i \in 1 .. Len(Callbacks) PROVE ~handle_callback(i)
      BY DEF handle_callback, LoneInv
    <3> QED BY <1>1, <1>2, <2>1, <2>2, <3>1, LoneLayers, LoneAnalyzes, LoneEnqueues,
               LoneGenerates DEF SessionWork
  <2>3. CASE HttpRequest
    BY <1>1, <2>1, <2>3, LoneHttp
  <2>4. CASE \E c \in Clients : HandleMessage(c)
    BY <1>1, <1>2, <2>1, <2>4, LoneJoins, LoneQueries, LoneFetches, LoneReports
       DEF HandleMessage
  <2> QED BY <1>3, <2>2, <2>3, <2>4 DEF SessionStep
<1>4. CASE \E c \in Clients : ClientStep(c)
  BY <1>1, <1>4, LoneCalls, LoneReceives DEF ClientStep
<1>5. CASE UNCHANGED vars
  <2>1. UNCHANGED <<pending, pending_cap, ready, ready_head, strat, waiting, at, caller,
                    trial_idx, curr_layer, paused_id, wire, hdesc>>
    BY <1>5 DEF vars, sessionVars, trialVars, ringVars, plugVars, flowVars
  <2>2. UNCHANGED BestId /\ UNCHANGED Line /\ UNCHANGED LiveIds
    BY <2>1 DEF BestId, Line, ReadyQueue, LiveIds, Occupied, Slots
  <2>3. FlowTurn' /\ \A id \in Int : Awaited(id) => Awaited(id)'
    BY <2>1, <2>2 DEF LoneInv, FlowTurn, After, Up, Awaited
  <2>4. at' # "exit"
    BY <2>1 DEF LoneInv
  <2> QED BY <1>1, <2>1, <2>2, <2>3, <2>4, LoneUnnoticed
<1> QED
  BY <1>3, <1>4, <1>5 DEF Next

(* SessionAlive: whatever a client that has the session for itself asks,   *)
(* with the HTTP interface pausing, resuming and restarting the search in  *)
(* between, no request of its own makes the session exit: each report is   *)
(* about a trial still pending or about the best point sent last.          *)
THEOREM LoneClientCorrect ==
  ASSUME NEW S, NEW L, NEW N, NEW G, LoneContract(S, L, N, G), NoGrowth
  PROVE  Spec => []SessionAlive
<1>1. Init => LoneInv(S, L, N, G)
  BY LoneInit
<1>2. LoneInv(S, L, N, G) /\ [Next]_vars => LoneInv(S, L, N, G)'
  BY LoneStepKept
<1>3. LoneInv(S, L, N, G) => SessionAlive
  BY DEF LoneInv, SessionAlive
<1> QED
  BY <1>1, <1>2, <1>3, PTL DEF Spec

=============================================================================
