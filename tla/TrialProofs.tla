---------------------------- MODULE TrialProofs ----------------------------
(***************************************************************************)
(* The trials of a session are accounted for, through every interleaving   *)
(* of the workflow, the layers' callbacks and the clients' requests: each  *)
(* is in one place, their ids differ, and a report finds the trial that    *)
(* its sender was handed.  The theorem holds for every number of clients,  *)
(* for every list size that the joins do not outgrow, and for every        *)
(* strategy and stack of layers that keep the promises below.              *)
(***************************************************************************)
EXTENDS HarmonyProofs, FiniteSetTheorems

-----------------------------------------------------------------------------
(***************************************************************************)
(* What is asked of the plug-ins beyond the types.  N[s] is an id above    *)
(* all those the strategy has used when it is in state s, and the pairs    *)
(* <<s, X>> of G are the states it may be in while the ids of the pending  *)
(* trials are X: what it remembers of them is right, which it need only be *)
(* if each of them is reported at most once.                               *)
(***************************************************************************)

(* A hint is absent or has values.                                         *)
Hints == {h \in Point : h.id # -1 => h.val \in Vals}

(* The state after a step: no id is forgotten, and X are the pending ids.  *)
Leads(N, G, s, next, X) == N[s] <= N[next] /\ <<next, X>> \in G

(* New trials get new ids; the trial that is analyzed is forgotten.        *)
IssuesIds(S, N, G) ==
  /\ N \in [S -> Nat]
  /\ \A s \in StrategyInit : <<s, {}>> \in G
  /\ \A s \in S : \A X \in SUBSET Nat : <<s, X>> \in G =>
       /\ \A x \in X : x < N[s]
       /\ StrategyBest(s).id < N[s] /\ StrategyBest(s).id \notin X
       /\ \A o \in StrategyGenerate(s) :
            IF o.status = "WAIT"
              THEN Leads(N, G, s, o.next, X)
              ELSE /\ N[s] <= o.point.id /\ o.point.val \in Vals
                   /\ Leads(N, G, s, o.next, X \cup {o.point.id})
       /\ \A t \in Trials : t.id \in X =>
            /\ StrategyAnalyze(s, t) # {}
            /\ \A next \in StrategyAnalyze(s, t) : Leads(N, G, s, next, X \ {t.id})
       /\ MaxRestarts > 0 => Leads(N, G, s, StrategyRestart(s), X)

(* A rejected trial is replaced, under its own id or a new one.            *)
ReplacesRejected(S, N, G) ==
  \A s \in S : \A X \in SUBSET Nat : <<s, X>> \in G =>
    \A p \in Point : \A h \in Hints : p.id \in X =>
      \A o \in StrategyRejected(s, p, h) :
        /\ o.status = "ACCEPT"
        /\ o.point.id = p.id \/ N[s] <= o.point.id
        /\ o.point.val \in Vals
        /\ Leads(N, G, s, o.next, (X \ {p.id}) \cup {o.point.id})

(* Once the search has converged no trial is pending.                      *)
EndsEmpty(S, G) ==
  \A s \in S : \A X \in SUBSET Nat : <<s, X>> \in G /\ StrategyConverged(s) => X = {}

(* The layers do not reject.                                               *)
NeverReject(L) ==
  \A k \in 1 .. LstackLen : \A s \in L[k] :
    /\ \A t \in Trials : \A b \in BOOLEAN :
         \A o \in LayerGenerate(k, s, t, b) : o.status # "REJECT"
    /\ \A D \in SUBSET Nat : \A f \in [D -> Trials] :
         \A o \in LayerCallback(k, s, f) : o.status # "REJECT"

(* The layers do not fail before, or not even after, the search converges, *)
(* have no complaint about a trial that was measured, and give hints with  *)
(* values.                                                                 *)
NeverFail(L, late) ==
  \A k \in 1 .. LstackLen : \A s \in L[k] :
    /\ \A t \in Trials :
         /\ \A b \in BOOLEAN : \A o \in LayerGenerate(k, s, t, b) :
              o.hint \in Hints /\ (late \/ ~b => o.status # "ERROR")
         /\ \A o \in LayerAnalyze(k, s, t) : o.status \notin {"ERROR", "REJECT"}
    /\ \A D \in SUBSET Nat : \A f \in [D -> Trials] :
         \A o \in LayerCallback(k, s, f) : o.hint \in Hints

TrialContract(S, L, N, G) ==
  /\ StrategyContract(S)
  /\ LayerContract(L)
  /\ IssuesIds(S, N, G)
  /\ NeverReject(L) \/ ReplacesRejected(S, N, G)
  /\ NeverFail(L, TRUE) \/ (NeverFail(L, FALSE) /\ EndsEmpty(S, G))

-----------------------------------------------------------------------------
(* The inductive invariant.                                                *)
LiveIds == {pending[i].id : i \in Occupied}

(* An id of the past: used, and no trial has it.                           *)
Past(N, id) == id < N[strat] /\ id \notin LiveIds

(* The strategy's memory fits the pending trials, which have values.       *)
StratKnows(G) ==
  /\ LiveIds \in SUBSET Nat /\ <<strat, LiveIds>> \in G
  /\ \A i \in Occupied : pending[i].val \in Vals

(* plugin_workflow() runs on behalf of a report exactly while its sender   *)
(* waits for the reply.                                                    *)
FlowSound ==
  IF caller = "report"
    THEN at = "workflow" /\ from \in Clients /\ Requested(from, "REPORT")
    ELSE from = NoClient

(* A client fetches when it has nothing to test, and reports what it tests;*)
(* between calls no message is on its connection.                          *)
CallSound(c) ==
  /\ Idle(c) => wire[c].type = "NONE"
  /\ wire[c].type = "FETCH" => hdesc[c].state # "TESTING"
  /\ wire[c].type = "REPORT" =>
       /\ hdesc[c].state = "TESTING"
       /\ wire[c].status = "REQ" => wire[c].point.id = hdesc[c].curr.id

(* The best points that a client knows of are of the past.                 *)
BestPast(N, c) ==
  /\ Past(N, hdesc[c].best.id)
  /\ wire[c].status = "BUSY" \/ (wire[c].type = "BEST" /\ wire[c].status = "OK")
       => Past(N, wire[c].point.id)

(* The trial in the reply to a fetch is still the client's, if it is       *)
(* pending, with the values in the reply.                                  *)
ReplySound(N, c) ==
  wire[c].type = "FETCH" /\ wire[c].status = "OK" =>
    /\ wire[c].point.id # -1 /\ wire[c].point.id < N[strat]
    /\ \A i \in Occupied : pending[i].id = wire[c].point.id =>
         holder[i] = c /\ pending[i].val = wire[c].point.val

(* What a client tests has an id the session gave out, and if it is the id *)
(* of a pending trial that trial is the client's own.                      *)
TestSound(N, c) ==
  hdesc[c].state = "TESTING" => hdesc[c].curr.id # -1 /\ hdesc[c].curr.id < N[strat]

OwnTrial(c) ==
  \A i \in Occupied :
    (hdesc[c].state = "TESTING" /\ hdesc[c].curr.id = pending[i].id)
      => \/ holder[i] = c /\ hdesc[c].curr.val = pending[i].val
         \/ i \in InFlow /\ from = c
         \/ wire[c].type = "REPORT" /\ wire[c].status = "OK"

(* The application measures its current point, or the best it knows.       *)
VarsSound(c) ==
  /\ hdesc[c].best.id >= -1
  /\ hdesc[c].state = "TESTING" => hdesc[c].ptr \in {hdesc[c].curr.val, hdesc[c].best.val}

ClientSound(N, c) ==
  /\ CallSound(c)
  /\ BestPast(N, c)
  /\ ReplySound(N, c)
  /\ TestSound(N, c)
  /\ OwnTrial(c)
  /\ VarsSound(c)

TrialInv(S, L, N, G) ==
  /\ RingInv(S, L)
  /\ TrialsAccounted
  /\ PendingCounted
  /\ IdsUnique
  /\ StratKnows(G)
  /\ FlowSound
  /\ at # "exit" => \A c \in Clients : ClientSound(N, c)

-----------------------------------------------------------------------------
(***************************************************************************)
(* What the steps do to the trials.  Each step of the session is one of    *)
(* these, or leaves the trials where they are; the lemmas that follow show *)
(* what each does to the places of trials, to their ids and to what the    *)
(* clients know.                                                           *)
(***************************************************************************)

(* p may stand in for the trial of slot i.                                 *)
Replaces(N, G, i, p) ==
  /\ p \in Point
  /\ p.id = pending[i].id \/ N[strat] <= p.id
  /\ p.val \in Vals
  /\ Leads(N, G, strat, strat', (LiveIds \ {pending[i].id}) \cup {p.id})

(* On the way from one layer to another only a trial that is prepared, and *)
(* goes on being prepared, may become another.                             *)
Redirects(i, p, here, there) == p = PointOf(pending[i]) \/ (here > 0 /\ there > 0)

(* Point p is generated, in free slot i.                                   *)
Created(N, G, i, p) ==
  /\ i \in Slots /\ pending[i].id = -1
  /\ InFlow = {} /\ InFlow' = {i} /\ curr_layer' > 0
  /\ p \in Point /\ N[strat] <= p.id /\ p.val \in Vals
  /\ Leads(N, G, strat, strat', LiveIds \cup {p.id})
  /\ pending' = [pending EXCEPT ![i] = Trial(p, Infinity)]
  /\ pending_len' = pending_len + 1
  /\ UNCHANGED <<ringVars, waiting, holder>>

(* A layer passes the trial in the workflow on, as p.                      *)
Passed(N, G, i, p, perf) ==
  /\ InFlow = {i} /\ InFlow' = {i}
  /\ Replaces(N, G, i, p) /\ Redirects(i, p, curr_layer, curr_layer')
  /\ pending' = [pending EXCEPT ![i] = Trial(p, perf)]
  /\ UNCHANGED <<pending_len, ringVars, waiting, holder>>

(* A layer makes it wait.                                                  *)
Parked(i, layer, perf) ==
  /\ InFlow = {i} /\ InFlow' = {} /\ layer = curr_layer
  /\ waiting' = waiting \cup {<<layer, i>>}
  /\ pending' = [pending EXCEPT ![i] = Trial(PointOf(pending[i]), perf)]
  /\ UNCHANGED <<pending_len, ringVars, holder, strat>>

(* A layer's callback takes the waiting trial up again, as p.              *)
Resumed(N, G, i, layer, p) ==
  /\ InFlow = {} /\ InFlow' = {i}
  /\ <<layer, i>> \in waiting
  /\ waiting' = waiting \ {<<layer, i>>}
  /\ Replaces(N, G, i, p) /\ Redirects(i, p, layer, curr_layer')
  /\ pending' = [pending EXCEPT ![i] = Trial(p, pending[i].perf)]
  /\ UNCHANGED <<pending_len, ringVars, holder>>

(* It has passed generation, and is queued.                                *)
Enqueued(i) ==
  /\ InFlow = {i} /\ InFlow' = {} /\ curr_layer > 0
  /\ ready[ready_tail] = NoTrial
  /\ Enqueue(i)
  /\ UNCHANGED <<ready_head, pending, pending_len, waiting, holder, strat>>

(* It has passed analysis, and is gone.                                    *)
Analyzed(N, G, i) ==
  /\ InFlow = {i} /\ InFlow' = {} /\ curr_layer = 0
  /\ Leads(N, G, strat, strat', LiveIds \ {pending[i].id})
  /\ Release(i)
  /\ UNCHANGED <<ringVars, waiting, holder>>

(* Client c is handed the trial at the head of the ready queue.            *)
Fetched(c, i) ==
  /\ InFlow = {} /\ InFlow' = {}
  /\ i = ready[ready_head] /\ i \in Slots
  /\ Dequeue
  /\ holder' = [holder EXCEPT ![i] = c]
  /\ UNCHANGED <<ready_tail, pending, pending_len, waiting, strat>>

(* Client c reports the trial it holds.                                    *)
Reported(c, i, perf) ==
  /\ InFlow = {} /\ InFlow' = {i} /\ curr_layer' <= 0
  /\ i \in Slots /\ holder[i] = c
  /\ pending' = [pending EXCEPT ![i].perf = perf]
  /\ holder' = [holder EXCEPT ![i] = NoClient]
  /\ UNCHANGED <<pending_len, ringVars, waiting, strat>>

(* Nothing happens to the trials.                                          *)
Still(N, G) ==
  /\ InFlow = {} /\ InFlow' = {}
  /\ Leads(N, G, strat, strat', LiveIds)
  /\ UNCHANGED <<pending, pending_len, ringVars, waiting, holder>>

-----------------------------------------------------------------------------
(* The five places of TrialsAccounted share out the pending trials.        *)
Apart(occupied, queued, parked, held, flow) ==
  /\ occupied = queued \cup parked \cup held \cup flow
  /\ queued \cap parked = {} /\ queued \cap held = {} /\ queued \cap flow = {}
  /\ parked \cap held = {} /\ parked \cap flow = {} /\ held \cap flow = {}

QueuedOnce == \A p, q \in Slots : ready[p] = ready[q] /\ ready[p] # NoTrial => p = q

ParkedOnce == \A v, w \in waiting : v[2] = w[2] => v = w

LEMMA AccountedIs ==
  TrialsAccounted <=> /\ Apart(Occupied, Queued, Waiting, Held, InFlow)
                      /\ QueuedOnce
                      /\ ParkedOnce
  BY DEF TrialsAccounted, Apart, QueuedOnce, ParkedOnce

(* The ranges that the lemmas on places need, from TypeOK.                 *)
SlotTypes ==
  /\ pending_cap \in Nat \ {0}
  /\ Slots = Cells(pending_cap)
  /\ pending \in [Slots -> Trials]
  /\ ready \in [Slots -> Slots \cup {NoTrial}]
  /\ ready_head \in Slots /\ ready_tail \in Slots
  /\ waiting \subseteq ((-LstackLen .. LstackLen) \X Slots)
  /\ holder \in [Slots -> Clients \cup {NoClient}]
  /\ NoTrial \notin Slots

LEMMA SlotTypesHold ==
  ASSUME TypeOK
  PROVE  SlotTypes
  BY DEF TypeOK, SlotTypes, Slots, Cells, NoTrial

(* A slot that is given a trial is occupied from then on, or as long as    *)
(* the trial has an id.                                                    *)
LEMMA OccupiedStep ==
  ASSUME pending \in [Slots -> Trials], Slots' = Slots, NEW i \in Slots, NEW t,
         pending' = [pending EXCEPT ![i] = t]
  PROVE  Occupied' = IF t.id = -1 THEN Occupied \ {i} ELSE Occupied \cup {i}
  BY DEF Occupied

(* Queueing a trial that is not queued.                                    *)
LEMMA QueuedStep ==
  ASSUME SlotTypes, Slots' = Slots, QueuedOnce, NEW i \in Slots, i \notin Queued,
         ready[ready_tail] = NoTrial, Enqueue(i)
  PROVE  Queued' = Queued \cup {i} /\ QueuedOnce'
<1>1. \A p \in Slots : ready'[p] = IF p = ready_tail THEN i ELSE ready[p]
  BY DEF SlotTypes, Enqueue
<1>2. i # NoTrial /\ ready_tail \in Slots
  BY DEF SlotTypes
<1>3. Queued' = Queued \cup {i}
  <2>1. \A x : x \in Queued' <=> x # NoTrial /\ \E p \in Slots : x = ready'[p]
    BY DEF Queued
  <2>2. \A x : x \in Queued <=> x # NoTrial /\ \E p \in Slots : x = ready[p]
    BY DEF Queued
  <2> QED BY <1>1, <1>2, <2>1, <2>2
<1>4. \A p \in Slots : ready[p] # i
  BY <1>2 DEF Queued
<1>5. QueuedOnce'
  <2> SUFFICES ASSUME NEW p \in Slots, NEW q \in Slots,
                      ready'[p] = ready'[q], ready'[p] # NoTrial
               PROVE  p = q
    BY DEF QueuedOnce
  <2> QED BY <1>1, <1>4 DEF QueuedOnce
<1> QED
  BY <1>3, <1>5

(* Taking the trial at head off the queue.                                 *)
LEMMA UnqueuedStep ==
  ASSUME SlotTypes, Slots' = Slots, QueuedOnce, ready[ready_head] # NoTrial, Dequeue
  PROVE  /\ Queued' = Queued \ {ready[ready_head]}
         /\ ready[ready_head] \in Queued
         /\ QueuedOnce'
<1>1. \A p \in Slots : ready'[p] = IF p = ready_head THEN NoTrial ELSE ready[p]
  BY DEF SlotTypes, Dequeue
<1>2. ready_head \in Slots
  BY DEF SlotTypes
<1>3. /\ \A x : x \in Queued' <=> x # NoTrial /\ \E p \in Slots : x = ready'[p]
      /\ \A x : x \in Queued <=> x # NoTrial /\ \E p \in Slots : x = ready[p]
  BY DEF Queued
<1>4. Queued' = Queued \ {ready[ready_head]}
  BY <1>1, <1>2, <1>3 DEF QueuedOnce
<1>5. QueuedOnce'
  BY <1>1 DEF QueuedOnce
<1> QED
  BY <1>2, <1>3, <1>4, <1>5

(* Entering and leaving a wait list.                                       *)
LEMMA ParkedStep ==
  ASSUME ParkedOnce, NEW i, NEW layer, i \notin Waiting,
         waiting' = waiting \cup {<<layer, i>>}
  PROVE  Waiting' = Waiting \cup {i} /\ ParkedOnce'
<1>1. <<layer, i>>[2] = i
  OBVIOUS
<1>2. \A w \in waiting : w[2] # i
  BY DEF Waiting
<1>3. Waiting' = Waiting \cup {i}
  BY <1>1 DEF Waiting
<1>4. ParkedOnce'
  BY <1>1, <1>2 DEF ParkedOnce
<1> QED
  BY <1>3, <1>4

LEMMA UnparkedStep ==
  ASSUME ParkedOnce, NEW i, NEW layer, <<layer, i>> \in waiting,
         waiting' = waiting \ {<<layer, i>>}
  PROVE  Waiting' = Waiting \ {i} /\ i \in Waiting /\ ParkedOnce'
<1>1. <<layer, i>>[2] = i
  OBVIOUS
<1>2. \A w \in waiting : w[2] = i => w = <<layer, i>>
  BY <1>1 DEF ParkedOnce
<1>3. Waiting' = Waiting \ {i} /\ i \in Waiting
  BY <1>1, <1>2 DEF Waiting
<1>4. ParkedOnce'
  BY DEF ParkedOnce
<1> QED
  BY <1>3, <1>4

(* Being handed to a client and coming back.                               *)
LEMMA HeldStep ==
  ASSUME SlotTypes, Slots' = Slots, NEW i \in Slots, NEW c \in Clients \cup {NoClient},
         holder' = [holder EXCEPT ![i] = c]
  PROVE  Held' = IF c = NoClient THEN Held \ {i} ELSE Held \cup {i}
  BY DEF SlotTypes, Held

-----------------------------------------------------------------------------
(* The steps that concern the trials.                                      *)
TrialStep(N, G) ==
  \/ \E i \in Slots, p \in Point : Created(N, G, i, p)
  \/ \E i \in Slots, p \in Point, perf \in Perfs \cup {Infinity} : Passed(N, G, i, p, perf)
  \/ \E i \in Slots, layer \in -LstackLen .. LstackLen, perf \in Perfs \cup {Infinity} :
       Parked(i, layer, perf)
  \/ \E i \in Slots, layer \in -LstackLen .. LstackLen, p \in Point :
       Resumed(N, G, i, layer, p)
  \/ \E i \in Slots : Enqueued(i)
  \/ \E i \in Slots : Analyzed(N, G, i)
  \/ \E c \in Clients, i \in Slots : Fetched(c, i)
  \/ \E c \in Clients, i \in Slots, perf \in Perfs \cup {Infinity} : Reported(c, i, perf)
  \/ Still(N, G)

(* Each keeps every trial in one place.                                    *)
LEMMA PlacesKept ==
  ASSUME NEW N, NEW G, SlotTypes, Slots' = Slots, N[strat] \in Nat,
         TrialsAccounted, TrialStep(N, G)
  PROVE  TrialsAccounted'
<1> DEFINE Accounted ==
             /\ Apart(Occupied, Queued, Waiting, Held, InFlow)
             /\ QueuedOnce
             /\ ParkedOnce
<1>1. Accounted
  BY AccountedIs
<1> SUFFICES Accounted'
  <2>1. TrialsAccounted' <=> Accounted'
    BY DEF TrialsAccounted, Apart, QueuedOnce, ParkedOnce
  <2> QED BY <2>1
<1> USE DEF SlotTypes
<1>2. \A i \in InFlow : i \in Occupied /\ pending[i].id # -1
  BY <1>1 DEF Apart, Occupied
<1>3. /\ UNCHANGED ringVars => Queued' = Queued /\ QueuedOnce'
      /\ UNCHANGED waiting => Waiting' = Waiting /\ ParkedOnce'
      /\ UNCHANGED holder => Held' = Held
      /\ UNCHANGED pending => Occupied' = Occupied
  BY <1>1 DEF ringVars, Queued, QueuedOnce, Waiting, ParkedOnce, Held, Occupied
<1>4. ASSUME NEW i \in Slots, NEW p \in Point, Created(N, G, i, p) PROVE Accounted'
  <2>1. Trial(p, Infinity).id # -1
    BY <1>4 DEF Created, Trial, Point
  <2>2. Occupied' = Occupied \cup {i}
    BY <1>4, <2>1, OccupiedStep DEF Created
  <2>3. i \notin Occupied
    BY <1>4 DEF Created, Occupied
  <2> QED BY <1>1, <1>3, <1>4, <2>2, <2>3 DEF Created, Apart
<1>5. ASSUME NEW i \in Slots, NEW p \in Point, NEW perf,
             pending' = [pending EXCEPT ![i] = Trial(p, perf)],
             i \in Occupied, p.id = pending[i].id \/ N[strat] <= p.id
      PROVE  Occupied' = Occupied
  <2>1. Trial(p, perf).id # -1
    BY <1>5 DEF Trial, Point, Occupied
  <2>2. Occupied' = Occupied \cup {i}
    BY <1>5, <2>1, OccupiedStep
  <2> QED BY <1>5, <2>2
<1>6. ASSUME NEW i \in Slots, NEW p \in Point, NEW perf, Passed(N, G, i, p, perf)
      PROVE  Accounted'
  <2>1. Occupied' = Occupied
    BY <1>2, <1>5, <1>6 DEF Passed, Replaces
  <2> QED BY <1>1, <1>3, <1>6, <2>1 DEF Passed
<1>7. ASSUME NEW i \in Slots, NEW layer, NEW perf, Parked(i, layer, perf) PROVE Accounted'
  <2>1. Occupied' = Occupied
    <3>1. PointOf(pending[i]) \in Point /\ PointOf(pending[i]).id = pending[i].id
      BY DEF PointOf, Point, Trials
    <3> QED BY <1>2, <1>5, <1>7, <3>1 DEF Parked
  <2>2. i \notin Waiting
    BY <1>1, <1>7 DEF Parked, Apart
  <2>3. Waiting' = Waiting \cup {i} /\ ParkedOnce'
    BY <1>1, <1>7, <2>2, ParkedStep DEF Parked
  <2> QED BY <1>1, <1>3, <1>7, <2>1, <2>3 DEF Parked, Apart
<1>8. ASSUME NEW i \in Slots, NEW layer, NEW p \in Point, Resumed(N, G, i, layer, p)
      PROVE  Accounted'
  <2>1. Waiting' = Waiting \ {i} /\ i \in Waiting /\ ParkedOnce'
    BY <1>1, <1>8, UnparkedStep DEF Resumed
  <2>2. Occupied' = Occupied
    <3>1. i \in Occupied
      BY <1>1, <2>1 DEF Apart
    <3> QED BY <1>5, <1>8, <3>1 DEF Resumed, Replaces
  <2> QED BY <1>1, <1>3, <1>8, <2>1, <2>2 DEF Resumed, Apart
<1>9. ASSUME NEW i \in Slots, Enqueued(i) PROVE Accounted'
  <2>1. i \notin Queued
    BY <1>1, <1>9 DEF Enqueued, Apart
  <2>2. Queued' = Queued \cup {i} /\ QueuedOnce'
    BY <1>1, <1>9, <2>1, QueuedStep DEF Enqueued
  <2> QED BY <1>1, <1>3, <1>9, <2>2 DEF Enqueued, Apart
<1>10. ASSUME NEW i \in Slots, Analyzed(N, G, i) PROVE Accounted'
  <2>1. Occupied' = Occupied \ {i}
    <3>1. FreeTrial.id = -1
      BY DEF FreeTrial
    <3> QED BY <1>10, <3>1, OccupiedStep DEF Analyzed, Release
  <2> QED BY <1>1, <1>3, <1>10, <2>1 DEF Analyzed, Apart
<1>11. ASSUME NEW c \in Clients, NEW i \in Slots, Fetched(c, i) PROVE Accounted'
  <2>1. Queued' = Queued \ {i} /\ i \in Queued /\ QueuedOnce'
    BY <1>1, <1>11, UnqueuedStep DEF Fetched
  <2>2. Held' = Held \cup {i}
    BY <1>11, HeldStep, SessionAssumption DEF Fetched
  <2> QED BY <1>1, <1>3, <1>11, <2>1, <2>2 DEF Fetched, Apart
<1>12. ASSUME NEW c \in Clients, NEW i \in Slots, NEW perf, Reported(c, i, perf)
       PROVE  Accounted'
  <2>1. Held' = Held \ {i} /\ i \in Held
    BY <1>12, HeldStep, SessionAssumption DEF Reported, Held
  <2>2. Occupied' = Occupied
    <3>1. /\ pending[i] \in Trials
          /\ pending' = [pending EXCEPT ![i] = [pending[i] EXCEPT !.perf = perf]]
          /\ [pending[i] EXCEPT !.perf = perf].id = pending[i].id
      BY <1>12 DEF Reported, Trials
    <3>2. pending[i].id # -1 /\ i \in Occupied
      BY <1>1, <2>1 DEF Apart, Occupied
    <3>3. Occupied' = Occupied \cup {i}
      <4> DEFINE t == [pending[i] EXCEPT !.perf = perf]
      <4>1. pending' = [pending EXCEPT ![i] = t] /\ t.id # -1
        BY <3>1, <3>2
      <4> HIDE DEF t
      <4> QED BY <4>1, OccupiedStep
    <3> QED BY <3>2, <3>3
  <2> QED BY <1>1, <1>3, <1>12, <2>1, <2>2 DEF Reported, Apart
<1>13. CASE Still(N, G)
  BY <1>1, <1>3, <1>13 DEF Still
<1> QED
  BY <1>4, <1>6, <1>7, <1>8, <1>9, <1>10, <1>11, <1>12, <1>13 DEF TrialStep

-----------------------------------------------------------------------------
(* What a step does to the points of the pending trials: one is added, one *)
(* is replaced, one is removed, or none changes.                           *)
SamePoints(X) == \A j \in X : PointOf(pending[j])' = PointOf(pending[j])

PointAdded(N, G, i, p) ==
  /\ i \notin Occupied /\ Occupied' = Occupied \cup {i}
  /\ SamePoints(Occupied) /\ PointOf(pending[i])' = p
  /\ N[strat] <= p.id /\ p.val \in Vals
  /\ Leads(N, G, strat, strat', LiveIds \cup {p.id})
  /\ pending_len' = pending_len + 1

PointReplaced(N, G, i, p) ==
  /\ i \in Occupied /\ Occupied' = Occupied
  /\ SamePoints(Occupied \ {i}) /\ PointOf(pending[i])' = p
  /\ Replaces(N, G, i, p)
  /\ UNCHANGED pending_len

PointRemoved(N, G, i) ==
  /\ i \in Occupied /\ Occupied' = Occupied \ {i}
  /\ SamePoints(Occupied \ {i})
  /\ Leads(N, G, strat, strat', LiveIds \ {pending[i].id})
  /\ pending_len' = pending_len - 1

PointsSame(N, G) ==
  /\ Occupied' = Occupied
  /\ SamePoints(Occupied)
  /\ Leads(N, G, strat, strat', LiveIds)
  /\ UNCHANGED pending_len

PointsStep(N, G) ==
  \/ \E i \in Slots, p \in Point : PointAdded(N, G, i, p)
  \/ \E i \in Slots, p \in Point : PointReplaced(N, G, i, p)
  \/ \E i \in Slots : PointRemoved(N, G, i)
  \/ PointsSame(N, G)

LEMMA PointsChange ==
  ASSUME NEW N, NEW G, SlotTypes, Slots' = Slots, N[strat] \in Nat,
         TrialsAccounted, StratKnows(G), TrialStep(N, G)
  PROVE  PointsStep(N, G)
<1> USE DEF SlotTypes
<1>1. \A i \in InFlow \cup Waiting \cup Held : i \in Occupied /\ pending[i].id # -1
  BY DEF TrialsAccounted, Occupied
<1>2. ASSUME NEW i \in Slots, NEW t, pending' = [pending EXCEPT ![i] = t], t.id # -1
      PROVE  /\ Occupied' = Occupied \cup {i}
             /\ SamePoints(Occupied \ {i})
             /\ PointOf(pending[i])' = [id |-> t.id, val |-> t.val]
  <2>1. Occupied' = Occupied \cup {i}
    BY <1>2, OccupiedStep
  <2>2. \A j \in Slots : pending'[j] = IF j = i THEN t ELSE pending[j]
    BY <1>2
  <2> QED BY <2>1, <2>2 DEF SamePoints, PointOf, Occupied
<1>3. ASSUME NEW p \in Point, NEW perf
      PROVE  /\ Trial(p, perf).id = p.id
             /\ [id |-> Trial(p, perf).id, val |-> Trial(p, perf).val] = p
  BY DEF Trial, Point
<1>4. \A i \in Slots : PointOf(pending[i]) \in Point /\ PointOf(pending[i]).id = pending[i].id
  BY DEF PointOf, Point, Trials
<1>5. UNCHANGED strat => Leads(N, G, strat, strat', LiveIds)
  BY DEF Leads, StratKnows
<1>6. ASSUME NEW i \in Slots, NEW p \in Point, Created(N, G, i, p) PROVE PointsStep(N, G)
  <2>1. i \notin Occupied /\ Occupied \ {i} = Occupied /\ p.id # -1
    BY <1>6 DEF Created, Occupied, Point
  <2>2. PointAdded(N, G, i, p)
    <3> DEFINE t == Trial(p, Infinity)
    <3>1. pending' = [pending EXCEPT ![i] = t] /\ t.id # -1 /\ [id |-> t.id, val |-> t.val] = p
      BY <1>3, <1>6, <2>1 DEF Created
    <3> HIDE DEF t
    <3>2. /\ Occupied' = Occupied \cup {i} /\ SamePoints(Occupied)
          /\ PointOf(pending[i])' = p
      BY <1>2, <2>1, <3>1
    <3> QED BY <1>6, <2>1, <3>2 DEF Created, PointAdded
  <2> QED BY <2>2 DEF PointsStep
<1>7. ASSUME NEW i \in Slots, NEW p \in Point, NEW perf, i \in Occupied,
             pending' = [pending EXCEPT ![i] = Trial(p, perf)],
             Replaces(N, G, i, p), UNCHANGED pending_len
      PROVE  PointsStep(N, G)
  <2>1. p.id # -1 /\ Occupied \cup {i} = Occupied
    BY <1>7 DEF Replaces, Point, Occupied
  <2>2. PointReplaced(N, G, i, p)
    BY <1>2, <1>3, <1>7, <2>1 DEF PointReplaced
  <2> QED BY <2>2 DEF PointsStep
<1>8. ASSUME NEW i \in Slots, NEW p \in Point, NEW perf, Passed(N, G, i, p, perf)
      PROVE  PointsStep(N, G)
  BY <1>1, <1>7, <1>8 DEF Passed
<1>9. ASSUME NEW i \in Slots, NEW layer, NEW p \in Point, Resumed(N, G, i, layer, p)
      PROVE  PointsStep(N, G)
  <2>1. i \in Waiting
    <3>1. <<layer, i>>[2] = i
      OBVIOUS
    <3> QED BY <1>9, <3>1 DEF Resumed, Waiting
  <2> QED BY <1>1, <1>7, <1>9, <2>1 DEF Resumed
<1>10. ASSUME NEW i \in Slots, NEW t, i \in Occupied, pending' = [pending EXCEPT ![i] = t],
              t.id = pending[i].id, t.val = pending[i].val, UNCHANGED <<pending_len, strat>>
       PROVE  PointsStep(N, G)
  <2>1. t.id # -1 /\ Occupied \cup {i} = Occupied
    BY <1>10 DEF Occupied
  <2>2. PointOf(pending[i])' = PointOf(pending[i])
    BY <1>2, <1>10, <2>1 DEF PointOf
  <2>3. Occupied' = Occupied /\ SamePoints(Occupied)
    BY <1>2, <1>10, <2>1, <2>2 DEF SamePoints
  <2> QED BY <1>5, <1>10, <2>3 DEF PointsStep, PointsSame
<1>11. ASSUME NEW i \in Slots, NEW layer, NEW perf, Parked(i, layer, perf)
       PROVE  PointsStep(N, G)
  <2> DEFINE t == Trial(PointOf(pending[i]), perf)
  <2>1. t.id = pending[i].id /\ t.val = pending[i].val
    BY DEF Trial, PointOf
  <2>2. pending' = [pending EXCEPT ![i] = t] /\ i \in InFlow /\ UNCHANGED <<pending_len, strat>>
    BY <1>11 DEF Parked
  <2> HIDE DEF t
  <2> QED BY <1>1, <1>10, <2>1, <2>2
<1>12. ASSUME NEW c \in Clients, NEW i \in Slots, NEW perf, Reported(c, i, perf)
       PROVE  PointsStep(N, G)
  <2> DEFINE t == [pending[i] EXCEPT !.perf = perf]
  <2>1. t.id = pending[i].id /\ t.val = pending[i].val
    BY DEF Trials
  <2>2. pending' = [pending EXCEPT ![i] = t] /\ i \in Held /\ UNCHANGED <<pending_len, strat>>
    BY <1>12, SessionAssumption DEF Reported, Held
  <2> HIDE DEF t
  <2> QED BY <1>1, <1>10, <2>1, <2>2
<1>13. UNCHANGED pending => Occupied' = Occupied /\ SamePoints(Occupied)
  BY DEF Occupied, SamePoints, PointOf
<1>14. ASSUME NEW i \in Slots, Analyzed(N, G, i) PROVE PointsStep(N, G)
  <2>1. FreeTrial.id = -1
    BY DEF FreeTrial
  <2>2. Occupied' = Occupied \ {i}
    BY <1>14, <2>1, OccupiedStep DEF Analyzed, Release
  <2>3. SamePoints(Occupied \ {i})
    BY <1>14 DEF Analyzed, Release, SamePoints, PointOf, Occupied
  <2>4. PointRemoved(N, G, i)
    BY <1>1, <1>14, <2>2, <2>3 DEF Analyzed, Release, PointRemoved
  <2> QED BY <2>4 DEF PointsStep
<1>15. ASSUME NEW i \in Slots, Enqueued(i) PROVE PointsStep(N, G)
  BY <1>5, <1>13, <1>15 DEF Enqueued, PointsStep, PointsSame
<1>16. ASSUME NEW c \in Clients, NEW i \in Slots, Fetched(c, i) PROVE PointsStep(N, G)
  BY <1>5, <1>13, <1>16 DEF Fetched, PointsStep, PointsSame
<1>17. CASE Still(N, G)
  BY <1>13, <1>17 DEF Still, PointsStep, PointsSame
<1> QED
  BY <1>6, <1>8, <1>9, <1>11, <1>12, <1>14, <1>15, <1>16, <1>17 DEF TrialStep

(* The ids of the pending trials stay different, their number is counted,  *)
(* and the strategy is told of all that happens to them.                   *)
LEMMA IdsKept ==
  ASSUME NEW N, NEW G, SlotTypes, Slots' = Slots, N[strat] \in Nat, pending_len \in Int,
         PendingCounted, IdsUnique, StratKnows(G), \A x \in LiveIds : x < N[strat],
         PointsStep(N, G)
  PROVE  PendingCounted' /\ IdsUnique' /\ StratKnows(G)'
<1> USE DEF SlotTypes
<1>1. IsFiniteSet(Occupied) /\ Occupied \subseteq Slots
  <2>1. IsFiniteSet(Slots)
    BY FS_Interval DEF Cells
  <2>2. Occupied \in SUBSET Slots
    BY DEF Occupied
  <2> QED BY <2>1, <2>2, FS_Subset
<1>2. \A i \in Occupied : /\ pending[i].id \in LiveIds
                          /\ pending[i].id \in Nat /\ pending[i].id < N[strat]
  BY DEF LiveIds, StratKnows
<1>3. \A j : /\ PointOf(pending[j]).id = pending[j].id /\ PointOf(pending[j]).val = pending[j].val
             /\ PointOf(pending[j])'.id = pending[j]'.id
             /\ PointOf(pending[j])'.val = pending[j]'.val
  BY DEF PointOf
<1>4. ASSUME NEW X \in SUBSET Occupied, SamePoints(X)
      PROVE  \A j \in X : pending[j]'.id = pending[j].id /\ pending[j]'.val = pending[j].val
  BY <1>3, <1>4 DEF SamePoints
<1>5. /\ LiveIds' = {pending[j]'.id : j \in Occupied'}
      /\ LiveIds = {pending[j].id : j \in Occupied}
      /\ \A j \in Occupied : pending[j].val \in Vals
      /\ LiveIds \in SUBSET Nat
  BY DEF LiveIds, StratKnows
<1>6. ASSUME LiveIds' \in SUBSET Nat, <<strat', LiveIds'>> \in G,
             \A j \in Occupied' : pending[j]'.val \in Vals
      PROVE  StratKnows(G)'
  BY <1>6 DEF StratKnows
<1>7. ASSUME NEW i \in Slots, NEW p \in Point, PointAdded(N, G, i, p)
      PROVE  PendingCounted' /\ IdsUnique' /\ StratKnows(G)'
  <2>1. /\ i \notin Occupied /\ Occupied' = Occupied \cup {i}
        /\ \A j \in Occupied : pending[j]'.id = pending[j].id /\ pending[j]'.val = pending[j].val
        /\ pending[i]'.id = p.id /\ pending[i]'.val = p.val
        /\ p.id \in Int /\ N[strat] <= p.id /\ p.val \in Vals
        /\ pending_len' = pending_len + 1
    BY <1>3, <1>4, <1>7 DEF PointAdded, Point
  <2>2. PendingCounted'
    BY <1>1, <2>1, FS_AddElement DEF PendingCounted
  <2>3. IdsUnique'
    BY <1>2, <2>1 DEF IdsUnique
  <2>4. LiveIds' = LiveIds \cup {p.id}
    BY <1>5, <2>1
  <2>5. p.id \in Nat
    BY <2>1
  <2>6. LiveIds' \in SUBSET Nat /\ <<strat', LiveIds'>> \in G
    BY <1>5, <1>7, <2>4, <2>5 DEF PointAdded, Leads
  <2>7. \A j \in Occupied' : pending[j]'.val \in Vals
    BY <1>5, <2>1
  <2>8. StratKnows(G)'
    BY <1>6, <2>6, <2>7
  <2> QED BY <2>2, <2>3, <2>8
<1>8. ASSUME NEW i \in Slots, NEW p \in Point, PointReplaced(N, G, i, p)
      PROVE  PendingCounted' /\ IdsUnique' /\ StratKnows(G)'
  <2>1. /\ i \in Occupied /\ Occupied' = Occupied
        /\ \A j \in Occupied \ {i} : /\ pending[j]'.id = pending[j].id
                                     /\ pending[j]'.val = pending[j].val
        /\ pending[i]'.id = p.id /\ pending[i]'.val = p.val
        /\ p.id \in Int /\ p.val \in Vals
        /\ p.id = pending[i].id \/ N[strat] <= p.id
        /\ pending_len' = pending_len
    BY <1>3, <1>4, <1>8 DEF PointReplaced, Replaces, Point
  <2>2. PendingCounted'
    BY <2>1 DEF PendingCounted
  <2>3. IdsUnique'
    <3> SUFFICES ASSUME NEW j \in Occupied, NEW k \in Occupied, j # k
                 PROVE  pending[j]'.id # pending[k]'.id
      BY <2>1 DEF IdsUnique
    <3>1. pending[j].id # pending[k].id
      BY DEF IdsUnique
    <3> QED BY <1>2, <2>1, <3>1
  <2>4. LiveIds' = (LiveIds \ {pending[i].id}) \cup {p.id}
    <3>1. \A j \in Occupied \ {i} : pending[j].id # pending[i].id
      BY <2>1 DEF IdsUnique
    <3> QED BY <1>5, <2>1, <3>1
  <2>5. p.id \in Nat
    BY <1>2, <2>1
  <2>6. StratKnows(G)'
    BY <1>5, <1>6, <1>8, <2>1, <2>4, <2>5 DEF PointReplaced, Replaces, Leads
  <2> QED BY <2>2, <2>3, <2>6
<1>9. ASSUME NEW i \in Slots, PointRemoved(N, G, i)
      PROVE  PendingCounted' /\ IdsUnique' /\ StratKnows(G)'
  <2>1. /\ i \in Occupied /\ Occupied' = Occupied \ {i}
        /\ \A j \in Occupied \ {i} : /\ pending[j]'.id = pending[j].id
                                     /\ pending[j]'.val = pending[j].val
        /\ pending_len' = pending_len - 1
    BY <1>4, <1>9 DEF PointRemoved
  <2>2. PendingCounted'
    BY <1>1, <2>1, FS_RemoveElement DEF PendingCounted
  <2>3. IdsUnique'
    BY <2>1 DEF IdsUnique
  <2>4. LiveIds' = LiveIds \ {pending[i].id}
    <3>1. \A j \in Occupied \ {i} : pending[j].id # pending[i].id
      BY <2>1 DEF IdsUnique
    <3> QED BY <1>5, <2>1, <3>1
  <2>5. StratKnows(G)'
    BY <1>5, <1>6, <1>9, <2>1, <2>4 DEF PointRemoved, Leads
  <2> QED BY <2>2, <2>3, <2>5
<1>10. CASE PointsSame(N, G)
  <2>1. /\ Occupied' = Occupied
        /\ \A j \in Occupied : pending[j]'.id = pending[j].id /\ pending[j]'.val = pending[j].val
        /\ pending_len' = pending_len
    BY <1>4, <1>10 DEF PointsSame
  <2>2. LiveIds' = LiveIds
    BY <1>5, <2>1
  <2>3. StratKnows(G)'
    BY <1>5, <1>6, <1>10, <2>1, <2>2 DEF PointsSame, Leads
  <2> QED BY <2>1, <2>3 DEF PendingCounted, IdsUnique
<1> QED
  BY <1>7, <1>8, <1>9, <1>10 DEF PointsStep

-----------------------------------------------------------------------------
(***************************************************************************)
(* What the clients know survives the steps of others.                     *)
(***************************************************************************)

(* Every trial that is pending after a step has a new id, or was pending   *)
(* with the id it has.                                                     *)
IdsOld(N) ==
  /\ N[strat] \in Nat /\ N[strat'] \in Nat /\ N[strat] <= N[strat']
  /\ \A i \in Occupied' : N[strat] <= pending'[i].id
                          \/ (i \in Occupied /\ pending'[i].id = pending[i].id)

(* A trial that client c holds stays with it as it is.                     *)
StaysHeld(c) ==
  \A i \in Slots : holder[i] = c =>
    holder'[i] = c /\ pending'[i].id = pending[i].id /\ pending'[i].val = pending[i].val

(* The state of a client's connection and descriptor that a reply leaves:  *)
(* nothing changes, or the request under way is answered.                  *)
Answers(N, c) ==
  /\ wire[c].status = "REQ" /\ wire'[c].type = wire[c].type
  /\ wire'[c].status \in {"OK", "BUSY"}
  /\ wire'[c].status = "BUSY" \/ wire[c].type = "BEST" =>
       wire'[c].point.id < N[strat'] /\ wire'[c].point.id \notin LiveIds'
  /\ wire[c].type = "FETCH" /\ wire'[c].status = "OK" =>
       /\ wire'[c].point.id # -1 /\ wire'[c].point.id < N[strat']
       /\ \A i \in Occupied' : pending'[i].id = wire'[c].point.id =>
            holder'[i] = c /\ pending'[i].val = wire'[c].point.val

(* The trial under analysis on behalf of c, if any, stays there or is      *)
(* answered for.                                                           *)
StaysInFlow(c) ==
  from = c => \/ from' = c /\ InFlow' = InFlow
              \/ wire'[c].type = "REPORT" /\ wire'[c].status = "OK"

LEMMA ClientKept ==
  ASSUME NEW N, NEW c \in Clients, TypeOK, Slots' = Slots, ClientSound(N, c),
         IdsOld(N), StaysHeld(c), StaysInFlow(c),
         UNCHANGED hdesc, wire'[c] = wire[c] \/ Answers(N, c)
  PROVE  ClientSound(N, c)'
<1>1. /\ hdesc[c].best.id \in Int /\ wire[c].point.id \in Int /\ hdesc[c].curr.id \in Int
      /\ hdesc'[c] = hdesc[c]
      /\ N[strat] \in Nat /\ N[strat'] \in Nat /\ N[strat] <= N[strat']
  BY DEF TypeOK, Mesg, Point, IdsOld
<1>2. CallSound(c)'
  <2>1. CallSound(c)
    BY DEF ClientSound
  <2> QED BY <1>1, <2>1 DEF CallSound, Answers, Idle
<1>3. BestPast(N, c)'
  <2>1. BestPast(N, c)
    BY DEF ClientSound
  <2>2. Past(N, hdesc[c].best.id)'
    <3>1. hdesc[c].best.id < N[strat'] /\ hdesc[c].best.id \notin LiveIds'
      BY <1>1, <2>1 DEF BestPast, Past, IdsOld, LiveIds
    <3> QED BY <1>1, <3>1 DEF Past
  <2>3. ASSUME wire'[c].status = "BUSY" \/ (wire'[c].type = "BEST" /\ wire'[c].status = "OK")
        PROVE  Past(N, wire[c].point.id)'
    <3>1. CASE wire'[c] = wire[c]
      <4>1. Past(N, wire[c].point.id)
        BY <2>1, <2>3, <3>1 DEF BestPast
      <4>2. wire'[c].point.id < N[strat'] /\ wire'[c].point.id \notin LiveIds'
        <5> DEFINE id == wire[c].point.id
        <5>1. id < N[strat'] /\ id \notin LiveIds'
          BY <1>1, <4>1 DEF Past, IdsOld, LiveIds
        <5> QED BY <3>1, <5>1
      <4> QED BY <4>2 DEF Past
    <3>2. CASE Answers(N, c)
      BY <2>3, <3>2 DEF Past, Answers
    <3> QED BY <3>1, <3>2
  <2> QED BY <2>2, <2>3 DEF BestPast
<1>4. ReplySound(N, c)'
  <2>1. ReplySound(N, c)
    BY DEF ClientSound
  <2>2. CASE wire'[c] = wire[c]
    <3> SUFFICES ASSUME wire[c].type = "FETCH", wire[c].status = "OK"
                 PROVE  /\ wire[c].point.id # -1 /\ wire[c].point.id < N[strat']
                        /\ \A i \in Occupied' : pending'[i].id = wire[c].point.id =>
                             holder'[i] = c /\ pending'[i].val = wire[c].point.val
      BY <2>2 DEF ReplySound
    <3>1. wire[c].point.id # -1 /\ wire[c].point.id < N[strat]
      BY <2>1 DEF ReplySound
    <3>2. ASSUME NEW i \in Occupied', pending'[i].id = wire[c].point.id
          PROVE  holder'[i] = c /\ pending'[i].val = wire[c].point.val
      <4>1. i \in Occupied /\ pending[i].id = wire[c].point.id
        BY <1>1, <3>1, <3>2 DEF IdsOld
      <4>2. i \in Slots /\ holder[i] = c /\ pending[i].val = wire[c].point.val
        BY <2>1, <4>1 DEF ReplySound, Occupied
      <4> QED BY <4>2 DEF StaysHeld
    <3> QED BY <1>1, <3>1, <3>2
  <2> QED BY <2>2 DEF ReplySound, Answers
<1>5. TestSound(N, c)'
  <2>1. TestSound(N, c)
    BY DEF ClientSound
  <2> QED BY <1>1, <2>1 DEF TestSound
<1>6. OwnTrial(c)'
  <2>1. OwnTrial(c) /\ TestSound(N, c)
    BY DEF ClientSound
  <2> SUFFICES ASSUME NEW i \in Occupied', hdesc[c].state = "TESTING",
                      hdesc[c].curr.id = pending'[i].id
               PROVE  \/ holder'[i] = c /\ hdesc[c].curr.val = pending'[i].val
                      \/ i \in InFlow' /\ from' = c
                      \/ wire'[c].type = "REPORT" /\ wire'[c].status = "OK"
    BY <1>1 DEF OwnTrial
  <2>2. i \in Occupied /\ pending[i].id = hdesc[c].curr.id
    BY <1>1, <2>1 DEF IdsOld, TestSound
  <2>3. i \in Slots
    BY <2>2 DEF Occupied
  <2>4. CASE holder[i] = c /\ hdesc[c].curr.val = pending[i].val
    BY <2>3, <2>4 DEF StaysHeld
  <2>5. CASE i \in InFlow /\ from = c
    BY <2>5 DEF StaysInFlow
  <2>6. CASE wire[c].type = "REPORT" /\ wire[c].status = "OK"
    BY <2>6 DEF Answers
  <2> QED BY <2>1, <2>2, <2>4, <2>5, <2>6 DEF OwnTrial
<1>7. VarsSound(c)'
  <2>1. VarsSound(c)
    BY DEF ClientSound
  <2> QED BY <1>1, <2>1 DEF VarsSound
<1> QED
  BY <1>2, <1>3, <1>4, <1>5, <1>6, <1>7 DEF ClientSound

(* What a step does to the trials leaves the others' knowledge true.       *)
LEMMA IdsStayOld ==
  ASSUME NEW N, NEW G, SlotTypes, N[strat] \in Nat, N[strat'] \in Nat, PointsStep(N, G)
  PROVE  IdsOld(N)
<1> USE DEF SlotTypes
<1>1. N[strat] <= N[strat']
  BY DEF PointsStep, PointAdded, PointReplaced, PointRemoved, PointsSame, Replaces, Leads
<1>2. \A j : PointOf(pending[j]).id = pending[j].id /\ PointOf(pending[j])'.id = pending'[j].id
  BY DEF PointOf
<1>3. ASSUME NEW X \in SUBSET Occupied, SamePoints(X)
      PROVE  \A j \in X : j \in Occupied /\ pending'[j].id = pending[j].id
  BY <1>2, <1>3 DEF SamePoints
<1>4. ASSUME NEW i \in Slots, NEW p \in Point, PointAdded(N, G, i, p) PROVE IdsOld(N)
  <2>1. /\ Occupied' = Occupied \cup {i} /\ pending'[i].id = p.id /\ N[strat] <= p.id
        /\ SamePoints(Occupied)
    BY <1>2, <1>4 DEF PointAdded
  <2> QED BY <1>1, <1>3, <2>1 DEF IdsOld
<1>5. ASSUME NEW i \in Slots, NEW p \in Point, PointReplaced(N, G, i, p) PROVE IdsOld(N)
  <2>1. /\ Occupied' = Occupied /\ i \in Occupied /\ pending'[i].id = p.id
        /\ p.id = pending[i].id \/ N[strat] <= p.id
        /\ SamePoints(Occupied \ {i})
    BY <1>2, <1>5 DEF PointReplaced, Replaces
  <2> QED BY <1>1, <1>3, <2>1 DEF IdsOld
<1>6. ASSUME NEW i \in Slots, PointRemoved(N, G, i) PROVE IdsOld(N)
  <2>1. Occupied' = Occupied \ {i} /\ SamePoints(Occupied \ {i})
    BY <1>6 DEF PointRemoved
  <2> QED BY <1>1, <1>3, <2>1 DEF IdsOld
<1>7. CASE PointsSame(N, G)
  BY <1>1, <1>3, <1>7 DEF PointsSame, IdsOld
<1> QED
  BY <1>4, <1>5, <1>6, <1>7 DEF PointsStep

LEMMA HoldersStay ==
  ASSUME NEW N, NEW G, SlotTypes, Slots' = Slots, TrialsAccounted, TrialStep(N, G),
         NEW c \in Clients,
         \A i \in Slots : \A perf \in Perfs \cup {Infinity} : ~Reported(c, i, perf)
  PROVE  StaysHeld(c)
<1> USE DEF SlotTypes
<1>1. \A j \in Slots : holder[j] = c => j \in Held
  BY SessionAssumption DEF Held
<1>2. Held \subseteq Occupied /\ Held \cap (Queued \cup Waiting \cup InFlow) = {}
  BY DEF TrialsAccounted
<1>3. ASSUME NEW i \in Slots, NEW t, i \notin Held, pending' = [pending EXCEPT ![i] = t],
             UNCHANGED holder
      PROVE  StaysHeld(c)
  BY <1>1, <1>3 DEF StaysHeld
<1>4. UNCHANGED <<pending, holder>> => StaysHeld(c)
  BY DEF StaysHeld
<1>5. ASSUME NEW i \in Slots, NEW p \in Point, Created(N, G, i, p) PROVE StaysHeld(c)
  <2> DEFINE t == Trial(p, Infinity)
  <2>1. pending' = [pending EXCEPT ![i] = t] /\ UNCHANGED holder /\ i \notin Held
    BY <1>2, <1>5 DEF Created, Occupied
  <2> HIDE DEF t
  <2> QED BY <1>3, <2>1
<1>6. ASSUME NEW i \in Slots, NEW p \in Point, NEW perf, Passed(N, G, i, p, perf)
      PROVE  StaysHeld(c)
  <2> DEFINE t == Trial(p, perf)
  <2>1. pending' = [pending EXCEPT ![i] = t] /\ UNCHANGED holder /\ i \notin Held
    BY <1>2, <1>6 DEF Passed
  <2> HIDE DEF t
  <2> QED BY <1>3, <2>1
<1>7. ASSUME NEW i \in Slots, NEW layer, NEW perf, Parked(i, layer, perf) PROVE StaysHeld(c)
  <2> DEFINE t == Trial(PointOf(pending[i]), perf)
  <2>1. pending' = [pending EXCEPT ![i] = t] /\ UNCHANGED holder /\ i \notin Held
    BY <1>2, <1>7 DEF Parked
  <2> HIDE DEF t
  <2> QED BY <1>3, <2>1
<1>8. ASSUME NEW i \in Slots, NEW layer, NEW p \in Point, Resumed(N, G, i, layer, p)
      PROVE  StaysHeld(c)
  <2> DEFINE t == Trial(p, pending[i].perf)
  <2>1. i \in Waiting
    <3>1. <<layer, i>>[2] = i
      OBVIOUS
    <3> QED BY <1>8, <3>1 DEF Resumed, Waiting
  <2>2. pending' = [pending EXCEPT ![i] = t] /\ UNCHANGED holder /\ i \notin Held
    BY <1>2, <1>8, <2>1 DEF Resumed
  <2> HIDE DEF t
  <2> QED BY <1>3, <2>2
<1>9. ASSUME NEW i \in Slots, Analyzed(N, G, i) PROVE StaysHeld(c)
  BY <1>2, <1>3, <1>9 DEF Analyzed, Release
<1>10. ASSUME NEW i \in Slots, Enqueued(i) PROVE StaysHeld(c)
  BY <1>4, <1>10 DEF Enqueued
<1>11. ASSUME NEW d \in Clients, NEW i \in Slots, Fetched(d, i) PROVE StaysHeld(c)
  <2>1. i \in Queued
    BY <1>11 DEF Fetched, Queued
  <2> QED BY <1>1, <1>2, <1>11, <2>1 DEF Fetched, StaysHeld
<1>12. ASSUME NEW d \in Clients, NEW i \in Slots, NEW perf \in Perfs \cup {Infinity},
              Reported(d, i, perf)
       PROVE  StaysHeld(c)
  <2>1. d # c
    BY <1>12
  <2>2. \A j \in Slots : j # i => pending'[j] = pending[j] /\ holder'[j] = holder[j]
    BY <1>12 DEF Reported
  <2> QED BY <1>12, <2>1, <2>2 DEF Reported, StaysHeld
<1>13. CASE Still(N, G)
  BY <1>4, <1>13 DEF Still
<1> QED
  BY <1>5, <1>6, <1>7, <1>8, <1>9, <1>10, <1>11, <1>12, <1>13 DEF TrialStep

-----------------------------------------------------------------------------
(* What the lemmas below use of the invariant and of the contract.         *)
LEMMA InvFacts ==
  ASSUME NEW S, NEW L, NEW N, NEW G, TrialContract(S, L, N, G), TrialInv(S, L, N, G)
  PROVE  /\ SlotTypes /\ TypeOK /\ strat \in S
         /\ N[strat] \in Nat /\ \A s \in S : N[s] \in Nat
         /\ LiveIds \in SUBSET Nat /\ <<strat, LiveIds>> \in G
         /\ \A x \in LiveIds : x < N[strat]
         /\ StrategyBest(strat).id < N[strat] /\ StrategyBest(strat).id \notin LiveIds
         /\ \A i \in Occupied : /\ i \in Slots /\ pending[i] \in Trials
                                /\ pending[i].id \in LiveIds /\ pending[i].val \in Vals
         /\ IF at = "workflow"
              THEN InFlow = {trial_idx} /\ trial_idx \in Slots /\ trial_idx \in Occupied
              ELSE InFlow = {}
<1>1. TypeOK /\ strat \in S /\ StratKnows(G) /\ SlotTypes
  BY SlotTypesHold DEF TrialInv, RingInv, TypeInv
<1>2. /\ LiveIds \in SUBSET Nat /\ <<strat, LiveIds>> \in G
      /\ \A i \in Occupied : /\ i \in Slots /\ pending[i] \in Trials
                             /\ pending[i].id \in LiveIds /\ pending[i].val \in Vals
  BY <1>1 DEF StratKnows, LiveIds, Occupied, TypeOK
<1>3. /\ \A s \in S : N[s] \in Nat
      /\ \A x \in LiveIds : x < N[strat]
      /\ StrategyBest(strat).id < N[strat] /\ StrategyBest(strat).id \notin LiveIds
  BY <1>1, <1>2 DEF TrialContract, IssuesIds
<1>4. InFlow \subseteq Occupied
  BY DEF TrialInv, TrialsAccounted
<1> QED
  BY <1>1, <1>2, <1>3, <1>4 DEF InFlow

(* A step that does one of these things to the trials, and nothing to the  *)
(* clients but answer, keeps the invariant.                                *)
LEMMA SessionKept ==
  ASSUME NEW S, NEW L, NEW N, NEW G, TrialContract(S, L, N, G),
         TrialInv(S, L, N, G), RingInv(S, L)', Slots' = Slots, at # "exit",
         TrialStep(N, G), UNCHANGED holder \/ InFlow' = {},
         FlowSound', UNCHANGED hdesc,
         at' # "exit" => \A c \in Clients : /\ StaysInFlow(c)
                                            /\ wire'[c] = wire[c] \/ Answers(N, c)
  PROVE  TrialStep(N, G) /\ TrialInv(S, L, N, G)'
<1>1. /\ SlotTypes /\ TypeOK /\ N[strat] \in Nat /\ \A x \in LiveIds : x < N[strat]
      /\ TrialsAccounted /\ PendingCounted /\ IdsUnique /\ StratKnows(G)
      /\ pending_len \in Int
  BY InvFacts DEF TrialInv, TypeOK
<1>2. N[strat'] \in Nat
  BY InvFacts DEF RingInv, TypeInv
<1>3. TrialsAccounted'
  BY <1>1, PlacesKept
<1>4. PointsStep(N, G)
  BY <1>1, PointsChange
<1>5. PendingCounted' /\ IdsUnique' /\ StratKnows(G)'
  BY <1>1, <1>4, IdsKept
<1>6. IdsOld(N)
  BY <1>1, <1>2, <1>4, IdsStayOld
<1>7. ASSUME at' # "exit", NEW c \in Clients PROVE ClientSound(N, c)'
  <2>1. StaysHeld(c)
    <3>1. ASSUME NEW i \in Slots, NEW perf \in Perfs \cup {Infinity}, Reported(c, i, perf)
          PROVE  FALSE
      BY <1>1, <3>1, SessionAssumption DEF Reported, SlotTypes
    <3> QED BY <1>1, <3>1, HoldersStay
  <2>2. ClientSound(N, c)
    BY DEF TrialInv
  <2> QED BY <1>1, <1>6, <1>7, <2>1, <2>2, ClientKept
<1> QED
  BY <1>3, <1>5, <1>7 DEF TrialInv

(* plugin_workflow() returns without an error.                             *)
LEMMA ReturnKept ==
  ASSUME NEW N, TypeOK, FlowSound, Return(TRUE), N[strat'] \in Nat
  PROVE  /\ FlowSound' /\ at' \notin {"exit", "workflow"}
         /\ \A c \in Clients : StaysInFlow(c) /\ (wire'[c] = wire[c] \/ Answers(N, c))
<1>1. caller' = "none" /\ from' = NoClient
  BY DEF Return
<1>2. CASE caller = "report"
  <2>1. /\ from \in Clients /\ Requested(from, "REPORT")
        /\ wire' = [wire EXCEPT ![from] = [wire[from] EXCEPT !.status = "OK"]]
        /\ at' = "generate"
    BY <1>2 DEF FlowSound, Return, Reply
  <2>2. wire \in [Clients -> Mesg] /\ wire[from] \in Mesg
    BY <2>1 DEF TypeOK
  <2>3. wire'[from].type = "REPORT" /\ wire'[from].status = "OK" /\ wire[from].type = "REPORT"
    BY <2>1, <2>2 DEF Requested, Mesg
  <2>4. Answers(N, from) /\ StaysInFlow(from)
    BY <2>1, <2>3 DEF Answers, StaysInFlow, Requested
  <2>5. \A c \in Clients : c # from => wire'[c] = wire[c] /\ StaysInFlow(c)
    BY <2>1, <2>2 DEF StaysInFlow
  <2> QED BY <1>1, <2>1, <2>4, <2>5 DEF FlowSound
<1>3. CASE caller # "report"
  <2>1. from = NoClient /\ UNCHANGED wire /\ at' \in {"select", "generate"}
    BY <1>3 DEF FlowSound, Return
  <2>2. \A c \in Clients : StaysInFlow(c)
    BY <2>1, SessionAssumption DEF StaysInFlow
  <2> QED BY <1>1, <2>1, <2>2 DEF FlowSound
<1> QED
  BY <1>2, <1>3

-----------------------------------------------------------------------------
(***************************************************************************)
(* Every action keeps the invariant.                                       *)
(***************************************************************************)

(* What a transition does to the trial, when a rejection comes only from   *)
(* where the strategy can answer it.                                       *)
LEMMA TransitionIs ==
  ASSUME NEW S, NEW L, NEW N, NEW G, TrialContract(S, L, N, G), TrialInv(S, L, N, G),
         NEW idx \in Occupied, NEW layer \in (-LstackLen .. LstackLen) \ {0},
         NEW o, o.status \in FlowStatuses,
         o.status = "REJECT" /\ layer > 0 => ReplacesRejected(S, N, G) /\ o.hint \in Hints,
         NEW t \in workflow_transition(idx, layer, o)
  PROVE  \/ /\ t.ret = 0 /\ t.waiting = waiting
            /\ t.point \in Point /\ t.point.val \in Vals
            /\ t.point.id = pending[idx].id \/ N[strat] <= t.point.id
            /\ Leads(N, G, strat, t.strat, (LiveIds \ {pending[idx].id}) \cup {t.point.id})
            /\ Redirects(idx, t.point, layer, t.layer)
         \/ /\ t.ret = 1 /\ t.waiting = handle_wait(idx, layer)
            /\ t.point = PointOf(pending[idx]) /\ t.strat = strat /\ o.status = "WAIT"
         \/ /\ t.ret = -1 /\ t.waiting = waiting
            /\ t.point = PointOf(pending[idx]) /\ t.strat = strat
            /\ o.status = "REJECT" /\ layer < 0
<1> DEFINE p == PointOf(pending[idx])
           stay == [ret |-> 0, layer |-> layer, strat |-> strat, waiting |-> waiting,
                    point |-> p, pollstate |-> pollstate]
<1>1. /\ p \in Point /\ p.id = pending[idx].id /\ p.val \in Vals
      /\ p.id \in LiveIds /\ (LiveIds \ {p.id}) \cup {p.id} = LiveIds
      /\ LiveIds \in SUBSET Nat /\ <<strat, LiveIds>> \in G
      /\ strat \in S /\ N[strat] \in Nat
  BY InvFacts DEF PointOf, Point, Trials
<1>2. Leads(N, G, strat, strat, (LiveIds \ {p.id}) \cup {p.id})
  BY <1>1 DEF Leads
<1>3. CASE o.status = "ACCEPT"
  <2>1. t = [stay EXCEPT !.layer = layer + 1]
    BY <1>3 DEF workflow_transition
  <2>2. t.ret = 0 /\ t.waiting = waiting /\ t.point = p /\ t.strat = strat
    BY <2>1
  <2> QED BY <1>1, <1>2, <2>2 DEF Redirects
<1>4. CASE o.status = "WAIT"
  <2>1. t = [stay EXCEPT !.ret = 1, !.waiting = handle_wait(idx, layer)]
    BY <1>4 DEF workflow_transition
  <2> QED BY <1>4, <2>1
<1>5. CASE o.status \in {"RETURN", "RETRY"}
  <2>1. t = [stay EXCEPT !.layer = -layer]
    BY <1>5 DEF workflow_transition
  <2>2. t.ret = 0 /\ t.waiting = waiting /\ t.point = p /\ t.strat = strat
    BY <2>1
  <2> QED BY <1>1, <1>2, <2>2 DEF Redirects
<1>6. CASE o.status = "REJECT"
  <2>1. t \in handle_reject(idx, layer, o.hint, stay)
    BY <1>6 DEF workflow_transition
  <2>2. CASE layer < 0
    <3>1. t = [stay EXCEPT !.ret = -1]
      BY <2>1, <2>2 DEF handle_reject
    <3> QED BY <1>6, <2>2, <3>1
  <2>3. CASE ~(layer < 0)
    <3>1. PICK r \in StrategyRejected(strat, p, o.hint) :
            /\ t.ret = CASE r.status = "ERROR" -> -1 [] r.status = "WAIT" -> 1 [] OTHER -> 0
            /\ t.layer = IF r.status = "ACCEPT" THEN 1 ELSE layer
            /\ t.strat = r.next
            /\ t.waiting = waiting
            /\ t.point = r.point
      BY <2>1, <2>3 DEF handle_reject
    <3>2. ReplacesRejected(S, N, G) /\ o.hint \in Hints /\ layer > 0
      <4>1. layer > 0
        BY <2>3, SessionAssumption
      <4> QED BY <1>6, <4>1
    <3>3. /\ r.status = "ACCEPT"
          /\ r.point.id = p.id \/ N[strat] <= r.point.id
          /\ r.point.val \in Vals
          /\ Leads(N, G, strat, r.next, (LiveIds \ {p.id}) \cup {r.point.id})
      BY <1>1, <3>1, <3>2 DEF ReplacesRejected
    <3>4. r.point \in Point
      BY <1>1, <3>1, <3>2 DEF TrialContract, StrategyContract, Hints
    <3>5. t.ret = 0 /\ t.layer = 1
      BY <3>1, <3>3
    <3> QED BY <1>1, <3>1, <3>2, <3>3, <3>4, <3>5 DEF Redirects
  <2> QED BY <2>2, <2>3
<1> QED
  BY <1>3, <1>4, <1>5, <1>6 DEF FlowStatuses

(* The generation loop.                                                    *)
LEMMA GenerateKept ==
  ASSUME NEW S, NEW L, NEW N, NEW G, TrialContract(S, L, N, G),
         TrialInv(S, L, N, G), RingInv(S, L)', Slots' = Slots,
         StartGenerate \/ EndGenerate \/ generate_trial, UNCHANGED hdesc
  PROVE  TrialStep(N, G) /\ TrialInv(S, L, N, G)'
<1>1. /\ at \in {"select", "generate"} /\ at' # "exit"
      /\ from' = from /\ wire' = wire /\ UNCHANGED holder
      /\ caller' = caller \/ caller' = "generate"
  BY DEF StartGenerate, EndGenerate, generate_trial, trialVars
<1>2. caller # "report" /\ from = NoClient
  BY <1>1 DEF TrialInv, FlowSound
<1>3. FlowSound'
  BY <1>1, <1>2 DEF FlowSound
<1>4. \A c \in Clients : StaysInFlow(c) /\ wire'[c] = wire[c]
  BY <1>1, <1>2, SessionAssumption DEF StaysInFlow
<1>5. InFlow = {}
  BY <1>1 DEF InFlow
<1>6. TrialStep(N, G)
  <2>1. CASE StartGenerate \/ EndGenerate
    <3>1. InFlow' = {} /\ UNCHANGED <<pending, pending_len, ringVars, waiting, holder, strat>>
      BY <2>1 DEF StartGenerate, EndGenerate, InFlow, trialVars, plugVars
    <3>2. Leads(N, G, strat, strat', LiveIds)
      BY <3>1, InvFacts DEF Leads
    <3> QED BY <1>5, <3>1, <3>2 DEF TrialStep, Still
  <2>2. CASE generate_trial
    <3>1. PICK o \in StrategyGenerate(strat) :
            /\ strat' = o.next
            /\ IF o.status = "WAIT"
                 THEN UNCHANGED <<pending, pending_len, at>>
                 ELSE /\ trial_idx' = First(SlotsWith(-1))
                      /\ pending' = [pending EXCEPT ![trial_idx'] = Trial(o.point, Infinity)]
                      /\ pending_len' = pending_len + 1
                      /\ curr_layer' = 1
                      /\ at' = "workflow"
      BY <2>2 DEF generate_trial
    <3>2. IF o.status = "WAIT"
            THEN Leads(N, G, strat, o.next, LiveIds)
            ELSE /\ N[strat] <= o.point.id /\ o.point.val \in Vals
                 /\ Leads(N, G, strat, o.next, LiveIds \cup {o.point.id})
      BY InvFacts DEF TrialContract, IssuesIds
    <3>3. UNCHANGED <<ringVars, waiting, holder>> /\ SlotsWith(-1) # {} /\ at = "generate"
      BY <2>2 DEF generate_trial
    <3>4. CASE o.status = "WAIT"
      BY <1>5, <3>1, <3>2, <3>3, <3>4 DEF TrialStep, Still, InFlow
    <3>5. CASE o.status # "WAIT"
      <4> DEFINE i == First(SlotsWith(-1))
      <4>1. i \in Slots /\ pending[i].id = -1
        <5>1. SlotsWith(-1) \in SUBSET Nat
          BY InvFacts DEF SlotsWith, Slots, TypeOK
        <5>2. i \in SlotsWith(-1)
          BY <3>3, <5>1, FirstType
        <5> QED BY <5>2 DEF SlotsWith
      <4> HIDE DEF i
      <4>2. o.point \in Point
        <5>1. o \in [next : S, status : {"ACCEPT", "WAIT"}, point : Point]
          BY InvFacts DEF TrialContract, StrategyContract
        <5> QED BY <5>1
      <4>3. InFlow' = {i} /\ curr_layer' > 0
        BY <3>1, <3>5 DEF InFlow, i
      <4>4. Created(N, G, i, o.point)
        BY <1>5, <3>1, <3>2, <3>3, <3>5, <4>1, <4>2, <4>3 DEF Created, i
      <4> QED BY <4>1, <4>2, <4>4 DEF TrialStep
    <3> QED BY <3>4, <3>5
  <2> QED BY <2>1, <2>2
<1> QED
  BY <1>1, <1>3, <1>4, <1>6, SessionKept

(* A layer's verdict on a trial: in the workflow it is not an error, and a *)
(* rejection is one that the strategy can answer.                          *)
LEMMA VerdictIs ==
  ASSUME NEW S, NEW L, NEW N, NEW G, TrialContract(S, L, N, G), TrialInv(S, L, N, G),
         NEW k \in 1 .. LstackLen, lstate[k] \in L[k], NEW i \in Occupied,
         NEW layer, layer = k \/ layer = -k,
         NEW o \in IF layer < 0
                     THEN LayerAnalyze(k, lstate[k], pending[i])
                     ELSE LayerGenerate(k, lstate[k], pending[i], StrategyConverged(strat))
  PROVE  /\ o.status \in FlowStatuses /\ o.perf \in Perfs \cup {Infinity}
         /\ o.status = "REJECT" => layer > 0 /\ ReplacesRejected(S, N, G) /\ o.hint \in Hints
<1>1. /\ k \in Nat /\ k > 0 /\ (layer < 0 <=> layer = -k) /\ (layer > 0 <=> layer = k)
      /\ pending[i] \in Trials /\ StrategyConverged(strat) \in BOOLEAN
  <2>1. k \in Nat /\ k > 0 /\ layer \in Int
    BY SessionAssumption
  <2>2. (layer < 0 <=> layer = -k) /\ (layer > 0 <=> layer = k)
    BY <2>1
  <2>3. pending[i] \in Trials /\ strat \in S
    BY InvFacts
  <2>4. StrategyConverged(strat) \in BOOLEAN
    BY <2>3, Zenon DEF TrialContract, StrategyContract
  <2> QED BY <2>1, <2>2, <2>3, <2>4
<1>2. o.status \in LayerStatuses /\ o.perf \in Perfs \cup {Infinity}
  <2>1. o \in LayerGenerate(k, lstate[k], pending[i], StrategyConverged(strat))
                \cup LayerAnalyze(k, lstate[k], pending[i])
    OBVIOUS
  <2>2. o \in [next : L[k], status : LayerStatuses, hint : Point, perf : Perfs \cup {Infinity}]
    BY <1>1, <2>1 DEF TrialContract, LayerContract
  <2> QED BY <2>2
<1>3. ASSUME NEW late \in BOOLEAN, NeverFail(L, late), late \/ ~StrategyConverged(strat)
      PROVE  IF layer < 0
               THEN o.status \notin {"ERROR", "REJECT"}
               ELSE o.status # "ERROR" /\ o.hint \in Hints
  <2>1. CASE layer < 0
    BY <1>1, <1>3, <2>1 DEF NeverFail
  <2>2. CASE ~(layer < 0)
    <3>1. o \in LayerGenerate(k, lstate[k], pending[i], StrategyConverged(strat))
      BY <2>2
    <3> QED BY <1>1, <1>3, <2>2, <3>1 DEF NeverFail
  <2> QED BY <2>1, <2>2
<1>4. IF layer < 0
        THEN o.status \notin {"ERROR", "REJECT"}
        ELSE o.status # "ERROR" /\ o.hint \in Hints
  <2>1. CASE NeverFail(L, TRUE)
    BY <1>3, <2>1
  <2>2. CASE NeverFail(L, FALSE) /\ EndsEmpty(S, G)
    <3>1. LiveIds # {} /\ LiveIds \in SUBSET Nat /\ <<strat, LiveIds>> \in G /\ strat \in S
      BY InvFacts
    <3>2. ~StrategyConverged(strat)
      BY <2>2, <3>1 DEF EndsEmpty
    <3> QED BY <1>3, <2>2, <3>2
  <2> QED BY <2>1, <2>2 DEF TrialContract
<1>5. ASSUME ~(layer < 0), o.status = "REJECT" PROVE ReplacesRejected(S, N, G)
  <2>1. o \in LayerGenerate(k, lstate[k], pending[i], StrategyConverged(strat))
    BY <1>5
  <2>2. ~NeverReject(L)
    BY <1>1, <1>5, <2>1 DEF NeverReject
  <2> QED BY <2>2 DEF TrialContract
<1> QED
  BY <1>1, <1>2, <1>4, <1>5 DEF LayerStatuses

(* A turn of the loop in plugin_workflow().                                *)
LEMMA LayerKept ==
  ASSUME NEW S, NEW L, NEW N, NEW G, TrialContract(S, L, N, G),
         TrialInv(S, L, N, G), RingInv(S, L)', Slots' = Slots,
         LayerStep, UNCHANGED hdesc
  PROVE  TrialStep(N, G) /\ TrialInv(S, L, N, G)'
<1> DEFINE k == IF curr_layer < 0 THEN -curr_layer ELSE curr_layer
           i == trial_idx
<1>1. /\ k \in 1 .. LstackLen /\ curr_layer \in (-LstackLen .. LstackLen) \ {0}
      /\ curr_layer = k \/ curr_layer = -k
      /\ lstate[k] \in L[k]
      /\ i \in Occupied /\ i \in Slots
      /\ InFlow = {i} /\ at = "workflow"
  <2>1. curr_layer # 0 /\ curr_layer <= LstackLen /\ at = "workflow"
    BY DEF LayerStep
  <2>2. curr_layer \in -LstackLen .. LstackLen + 1 /\ LstackLen \in Nat
    BY InvFacts, SessionAssumption DEF TypeOK
  <2>3. /\ k \in 1 .. LstackLen /\ curr_layer \in (-LstackLen .. LstackLen) \ {0}
        /\ curr_layer = k \/ curr_layer = -k
    BY <2>1, <2>2
  <2>4. lstate[k] \in L[k]
    BY <2>3 DEF TrialInv, RingInv, TypeInv, LstateIn
  <2> QED BY <2>1, <2>3, <2>4, InvFacts
<1>2. PICK o \in IF curr_layer < 0
                   THEN LayerAnalyze(k, lstate[k], pending[i])
                   ELSE LayerGenerate(k, lstate[k], pending[i], StrategyConverged(strat)) :
        \E t \in workflow_transition(i, curr_layer, o) :
          /\ waiting' = t.waiting
          /\ Take(t, i, o.perf)
          /\ IF t.ret = 0
               THEN UNCHANGED <<at, wire, caller, from, trial_idx>>
               ELSE Return(t.ret = 1)
  BY DEF LayerStep
<1>3. PICK t \in workflow_transition(i, curr_layer, o) :
        /\ waiting' = t.waiting
        /\ Take(t, i, o.perf)
        /\ IF t.ret = 0
             THEN UNCHANGED <<at, wire, caller, from, trial_idx>>
             ELSE Return(t.ret = 1)
  BY <1>2
<1>4. UNCHANGED <<pending_len, ringVars, holder>>
  BY DEF LayerStep
<1> HIDE DEF k
<1>5. /\ o.status \in FlowStatuses /\ o.perf \in Perfs \cup {Infinity}
      /\ o.status = "REJECT" => curr_layer > 0 /\ ReplacesRejected(S, N, G) /\ o.hint \in Hints
  BY <1>1, VerdictIs
<1> HIDE DEF i
<1>6. \/ /\ t.ret = 0 /\ t.waiting = waiting
         /\ t.point \in Point /\ t.point.val \in Vals
         /\ t.point.id = pending[i].id \/ N[strat] <= t.point.id
         /\ Leads(N, G, strat, t.strat, (LiveIds \ {pending[i].id}) \cup {t.point.id})
         /\ Redirects(i, t.point, curr_layer, t.layer)
      \/ /\ t.ret = 1 /\ t.waiting = handle_wait(i, curr_layer)
         /\ t.point = PointOf(pending[i]) /\ t.strat = strat
  <2>1. ~(o.status = "REJECT" /\ curr_layer < 0)
    BY <1>1, <1>5, SessionAssumption
  <2>2. /\ i \in Occupied /\ curr_layer \in (-LstackLen .. LstackLen) \ {0}
        /\ o.status \in FlowStatuses /\ t \in workflow_transition(i, curr_layer, o)
    BY <1>1, <1>3, <1>5
  <2>3. o.status = "REJECT" /\ curr_layer > 0 => ReplacesRejected(S, N, G) /\ o.hint \in Hints
    BY <1>5
  <2>4. \/ /\ t.ret = 0 /\ t.waiting = waiting
           /\ t.point \in Point /\ t.point.val \in Vals
           /\ t.point.id = pending[i].id \/ N[strat] <= t.point.id
           /\ Leads(N, G, strat, t.strat, (LiveIds \ {pending[i].id}) \cup {t.point.id})
           /\ Redirects(i, t.point, curr_layer, t.layer)
        \/ /\ t.ret = 1 /\ t.waiting = handle_wait(i, curr_layer)
           /\ t.point = PointOf(pending[i]) /\ t.strat = strat /\ o.status = "WAIT"
        \/ o.status = "REJECT" /\ curr_layer < 0
    BY <2>2, <2>3, TransitionIs
  <2> QED BY <2>1, <2>4
<1>7. /\ strat' = t.strat /\ curr_layer' = t.layer
      /\ pending' = [pending EXCEPT ![i] = Trial(t.point, o.perf)]
  BY <1>3 DEF Take
<1>8. CASE t.ret = 0
  <2>1. UNCHANGED <<at, wire, caller, from, trial_idx, waiting>> /\ InFlow' = {i}
    BY <1>1, <1>3, <1>6, <1>8 DEF InFlow
  <2>2. Passed(N, G, i, t.point, o.perf)
    BY <1>1, <1>4, <1>6, <1>7, <1>8, <2>1 DEF Passed, Replaces
  <2>3. TrialStep(N, G)
    BY <1>1, <1>5, <1>6, <1>8, <2>2 DEF TrialStep
  <2>4. FlowSound'
    BY <2>1 DEF TrialInv, FlowSound, Requested
  <2>5. \A c \in Clients : StaysInFlow(c) /\ wire'[c] = wire[c]
    BY <1>1, <2>1 DEF StaysInFlow
  <2> QED BY <1>1, <1>4, <2>1, <2>3, <2>4, <2>5, SessionKept
<1>9. CASE t.ret = 1
  <2>1. Return(TRUE)
    BY <1>3, <1>9 DEF Return
  <2>2. /\ FlowSound' /\ at' \notin {"exit", "workflow"}
        /\ \A c \in Clients : StaysInFlow(c) /\ (wire'[c] = wire[c] \/ Answers(N, c))
    <3>1. N[strat'] \in Nat
      BY InvFacts DEF RingInv, TypeInv
    <3> QED BY <2>1, <3>1, InvFacts, ReturnKept DEF TrialInv
  <2>3. InFlow' = {}
    BY <2>2 DEF InFlow
  <2>4. Parked(i, curr_layer, o.perf)
    <3>1. /\ waiting' = waiting \cup {<<curr_layer, i>>} /\ UNCHANGED strat
          /\ t.point = PointOf(pending[i])
      BY <1>3, <1>6, <1>7, <1>9 DEF handle_wait
    <3>2. pending' = [pending EXCEPT ![i] = Trial(PointOf(pending[i]), o.perf)]
      BY <1>7, <3>1
    <3> QED BY <1>1, <1>4, <2>3, <3>1, <3>2 DEF Parked
  <2>5. TrialStep(N, G)
    BY <1>1, <1>5, <2>4 DEF TrialStep
  <2> QED BY <1>1, <2>2, <2>3, <2>5, SessionKept
<1> QED
  BY <1>6, <1>8, <1>9

(* The trial passes to the strategy.                                       *)
LEMMA AnalyzeKept ==
  ASSUME NEW S, NEW L, NEW N, NEW G, TrialContract(S, L, N, G),
         TrialInv(S, L, N, G), RingInv(S, L)', Slots' = Slots,
         WorkflowAnalyze, UNCHANGED hdesc
  PROVE  TrialStep(N, G) /\ TrialInv(S, L, N, G)'
<1> DEFINE i == trial_idx
<1>1. at = "workflow" /\ curr_layer = 0 /\ UNCHANGED <<holder, ringVars, waiting>>
  BY DEF WorkflowAnalyze
<1>2. /\ i \in Occupied /\ i \in Slots /\ InFlow = {i}
      /\ pending[i] \in Trials /\ pending[i].id \in LiveIds
      /\ LiveIds \in SUBSET Nat /\ <<strat, LiveIds>> \in G /\ strat \in S
  BY <1>1, InvFacts
<1>3. /\ StrategyAnalyze(strat, pending[i]) # {}
      /\ \A next \in StrategyAnalyze(strat, pending[i]) :
           Leads(N, G, strat, next, LiveIds \ {pending[i].id})
  BY <1>2 DEF TrialContract, IssuesIds
<1>4. strat' \in StrategyAnalyze(strat, pending[i]) /\ Release(i) /\ Return(TRUE)
  BY <1>3 DEF WorkflowAnalyze
<1>5. /\ FlowSound' /\ at' \notin {"exit", "workflow"}
      /\ \A c \in Clients : StaysInFlow(c) /\ (wire'[c] = wire[c] \/ Answers(N, c))
  <2>1. N[strat'] \in Nat
    BY InvFacts DEF RingInv, TypeInv
  <2> QED BY <1>4, <2>1, InvFacts, ReturnKept DEF TrialInv
<1>6. InFlow' = {}
  BY <1>5 DEF InFlow
<1> HIDE DEF i
<1>7. Analyzed(N, G, i)
  BY <1>1, <1>2, <1>3, <1>4, <1>6 DEF Analyzed
<1>8. TrialStep(N, G)
  BY <1>2, <1>7 DEF TrialStep
<1> QED
  BY <1>1, <1>5, <1>6, <1>8, SessionKept

(* While some trial is not queued the ring has a free cell, and it is the  *)
(* one at tail.                                                            *)
LEMMA TailIsFree ==
  ASSUME SlotTypes, RingShape, QueuedOnce, NEW i \in Slots, i \notin Queued
  PROVE  ready[ready_tail] = NoTrial
<1> USE DEF SlotTypes
<1> SUFFICES ASSUME ready[ready_tail] # NoTrial
             PROVE  FALSE
  OBVIOUS
<1>1. ready_head = ready_tail
  <2>1. /\ ready_tail \in Cells(pending_cap) /\ ready_head \in Int /\ ready_tail \in Int
        /\ WellShaped(ready, ready_head, ready_tail, pending_cap)
    BY DEF RingShape, Cells
  <2> QED BY <2>1 DEF WellShaped
<1>2. \A p \in Slots : ready[p] \in Slots
  BY <1>1 DEF RingShape, WellShaped
<1>3. ready \in Injection(Slots, Slots)
  BY <1>2 DEF Injection, IsInjective, QueuedOnce
<1>4. IsFiniteSet(Slots)
  BY FS_Interval DEF Cells
<1>5. ready \in Surjection(Slots, Slots)
  BY <1>3, <1>4, FS_Injection
<1>6. i \in Queued
  BY <1>5 DEF Surjection, Queued
<1> QED
  BY <1>6

(* The trial is queued: the ring is never full, so this cannot fail.       *)
LEMMA EnqueueKept ==
  ASSUME NEW S, NEW L, NEW N, NEW G, TrialContract(S, L, N, G),
         TrialInv(S, L, N, G), RingInv(S, L)', Slots' = Slots,
         WorkflowEnqueue, UNCHANGED hdesc
  PROVE  TrialStep(N, G) /\ TrialInv(S, L, N, G)'
<1> DEFINE i == trial_idx
<1>1. /\ at = "workflow" /\ curr_layer > LstackLen /\ curr_layer > 0
      /\ UNCHANGED <<trialVars, waiting, strat>>
  <2>1. curr_layer \in Int
    BY InvFacts DEF TypeOK
  <2> QED BY <2>1, SessionAssumption DEF WorkflowEnqueue, plugVars
<1>2. i \in Slots /\ InFlow = {i} /\ SlotTypes
  BY <1>1, InvFacts
<1>3. ready[ready_tail] = NoTrial
  <2>1. i \notin Queued /\ QueuedOnce
    BY <1>2 DEF TrialInv, TrialsAccounted, QueuedOnce
  <2> QED BY <1>2, <2>1, TailIsFree DEF TrialInv, RingInv
<1>4. Enqueue(i) /\ UNCHANGED ready_head /\ Return(TRUE)
  BY <1>3 DEF WorkflowEnqueue, Return
<1>5. /\ FlowSound' /\ at' \notin {"exit", "workflow"}
      /\ \A c \in Clients : StaysInFlow(c) /\ (wire'[c] = wire[c] \/ Answers(N, c))
  <2>1. N[strat'] \in Nat
    BY InvFacts DEF RingInv, TypeInv
  <2> QED BY <1>4, <2>1, InvFacts, ReturnKept DEF TrialInv
<1>6. InFlow' = {}
  BY <1>5 DEF InFlow
<1> HIDE DEF i
<1>7. TrialStep(N, G)
  BY <1>1, <1>2, <1>3, <1>4, <1>6 DEF TrialStep, Enqueued, trialVars
<1> QED
  BY <1>1, <1>5, <1>6, <1>7, SessionKept

(* A layer's callback takes up a trial that waits for it, or leaves it.    *)
LEMMA CallbackKept ==
  ASSUME NEW S, NEW L, NEW N, NEW G, TrialContract(S, L, N, G),
         TrialInv(S, L, N, G), RingInv(S, L)', Slots' = Slots,
         NEW n \in 1 .. Len(Callbacks), handle_callback(n), UNCHANGED hdesc
  PROVE  TrialStep(N, G) /\ TrialInv(S, L, N, G)'
<1> DEFINE layer == Callbacks[n]
           k     == IF layer < 0 THEN -layer ELSE layer
           list  == {s \in Slots : <<layer, s>> \in waiting}
           trials == [s \in list |-> pending[s]]
<1>1. /\ layer \in (-LstackLen .. LstackLen) \ {0}
      /\ k \in 1 .. LstackLen
      /\ lstate[k] \in L[k]
      /\ list \in SUBSET Nat
      /\ list \subseteq Occupied
      /\ trials \in [list -> Trials]
      /\ \A s \in list : <<layer, s>> \in waiting /\ s \in Slots
  <2>1. layer \in (-LstackLen .. LstackLen) \ {0}
    BY SessionAssumption
  <2> HIDE DEF layer
  <2>2. k \in 1 .. LstackLen
    BY <2>1, SessionAssumption
  <2>3. list \in SUBSET Nat /\ \A s \in list : <<layer, s>> \in waiting /\ s \in Slots
    <3>1. TypeOK
      BY InvFacts
    <3>2. Slots \subseteq Nat
      BY <3>1 DEF Slots, TypeOK
    <3> QED BY <3>2
  <2>4. list \subseteq Occupied
    <3>1. \A s : <<layer, s>>[2] = s
      OBVIOUS
    <3>2. Waiting \subseteq Occupied
      BY DEF TrialInv, TrialsAccounted
    <3> QED BY <2>3, <3>1, <3>2 DEF Waiting
  <2>5. lstate[k] \in L[k]
    BY <2>2 DEF TrialInv, RingInv, TypeInv, LstateIn
  <2> HIDE DEF k, list
  <2> QED BY <2>1, <2>2, <2>3, <2>4, <2>5, InvFacts DEF TypeOK
<1>2. PICK o \in LayerCallback(k, lstate[k], trials) :
        \E t \in workflow_transition(o.slot, layer, o) :
          /\ waiting' = IF t.ret = 0 THEN Unpark(t.waiting, layer, o.slot) ELSE t.waiting
          /\ Take(t, o.slot, pending[o.slot].perf)
          /\ IF t.ret = 0
               THEN at' = "workflow" /\ caller' = "callback" /\ trial_idx' = o.slot
               ELSE UNCHANGED <<at, caller, trial_idx>>
  BY DEF handle_callback
<1>3. PICK t \in workflow_transition(o.slot, layer, o) :
        /\ waiting' = IF t.ret = 0 THEN Unpark(t.waiting, layer, o.slot) ELSE t.waiting
        /\ Take(t, o.slot, pending[o.slot].perf)
        /\ IF t.ret = 0
             THEN at' = "workflow" /\ caller' = "callback" /\ trial_idx' = o.slot
             ELSE UNCHANGED <<at, caller, trial_idx>>
  BY <1>2
<1>4. o.status \in FlowStatuses /\ o.slot \in list /\ o.hint \in Hints
      /\ (o.status = "REJECT" => ReplacesRejected(S, N, G))
  <2> HIDE DEF list, trials, k, layer
  <2>1. LayerCallback(k, lstate[k], trials)
          \subseteq [next : L[k], status : FlowStatuses, hint : Point, slot : list]
    BY <1>1 DEF TrialContract, LayerContract
  <2>2. o.hint \in Hints
    BY <1>1, <1>2 DEF TrialContract, NeverFail
  <2>3. ASSUME NeverReject(L) PROVE o.status # "REJECT"
    BY <1>1, <1>2, <2>3 DEF NeverReject
  <2>4. NeverReject(L) \/ ReplacesRejected(S, N, G)
    BY DEF TrialContract
  <2> QED BY <1>2, <2>1, <2>2, <2>3, <2>4
<1> DEFINE i == o.slot
<1>5. i \in Occupied /\ i \in Slots /\ <<layer, i>> \in waiting /\ pending[i] \in Trials
  BY <1>1, <1>4, InvFacts
<1> HIDE DEF list, trials, k, layer, i
<1>6. \/ /\ t.ret = 0 /\ t.waiting = waiting
         /\ t.point \in Point /\ t.point.val \in Vals
         /\ t.point.id = pending[i].id \/ N[strat] <= t.point.id
         /\ Leads(N, G, strat, t.strat, (LiveIds \ {pending[i].id}) \cup {t.point.id})
         /\ Redirects(i, t.point, layer, t.layer)
      \/ /\ t.ret # 0 /\ t.waiting \in {waiting, handle_wait(i, layer)}
         /\ t.point = PointOf(pending[i]) /\ t.strat = strat
  <2>1. t \in workflow_transition(i, layer, o)
    BY DEF i
  <2>2. \/ /\ t.ret = 0 /\ t.waiting = waiting
           /\ t.point \in Point /\ t.point.val \in Vals
           /\ t.point.id = pending[i].id \/ N[strat] <= t.point.id
           /\ Leads(N, G, strat, t.strat, (LiveIds \ {pending[i].id}) \cup {t.point.id})
           /\ Redirects(i, t.point, layer, t.layer)
        \/ /\ t.ret = 1 /\ t.waiting = handle_wait(i, layer)
           /\ t.point = PointOf(pending[i]) /\ t.strat = strat /\ o.status = "WAIT"
        \/ /\ t.ret = -1 /\ t.waiting = waiting
           /\ t.point = PointOf(pending[i]) /\ t.strat = strat
           /\ o.status = "REJECT" /\ layer < 0
    BY <1>1, <1>4, <1>5, <2>1, TransitionIs
  <2> QED BY <2>2
<1>7. /\ strat' = t.strat /\ curr_layer' = t.layer
      /\ pending' = [pending EXCEPT ![i] = Trial(t.point, pending[i].perf)]
      /\ UNCHANGED <<pending_len, ringVars, holder, wire, from>>
      /\ at = "select" /\ InFlow = {}
  BY <1>3 DEF Take, handle_callback, InFlow, i
<1>8. caller # "report" /\ from = NoClient
  BY <1>7 DEF TrialInv, FlowSound
<1>9. \A c \in Clients : StaysInFlow(c) /\ wire'[c] = wire[c]
  BY <1>7, <1>8, SessionAssumption DEF StaysInFlow
<1>10. CASE t.ret = 0
  <2>1. /\ waiting' = waiting \ {<<layer, i>>} /\ InFlow' = {i}
        /\ at' = "workflow" /\ caller' = "callback"
    BY <1>3, <1>6, <1>10 DEF Unpark, InFlow, i
  <2>2. Resumed(N, G, i, layer, t.point)
    BY <1>5, <1>6, <1>7, <1>10, <2>1 DEF Resumed, Replaces
  <2>3. TrialStep(N, G)
    BY <1>1, <1>5, <1>6, <1>10, <2>2 DEF TrialStep
  <2>4. FlowSound'
    BY <1>7, <1>8, <2>1 DEF FlowSound
  <2> QED BY <1>7, <1>9, <2>1, <2>3, <2>4, SessionKept
<1>11. CASE t.ret # 0
  <2>1. UNCHANGED <<at, caller, strat, waiting>> /\ InFlow' = {}
    BY <1>3, <1>5, <1>6, <1>7, <1>11 DEF handle_wait, InFlow
  <2>2. UNCHANGED pending
    <3>1. t.point = PointOf(pending[i])
      BY <1>6, <1>11
    <3>2. Trial(PointOf(pending[i]), pending[i].perf) = pending[i]
      BY <1>5 DEF Trial, PointOf, Trials
    <3> QED BY <1>5, <1>7, <3>1, <3>2, InvFacts DEF TypeOK
  <2>3. TrialStep(N, G)
    BY <1>7, <2>1, <2>2, InvFacts DEF TrialStep, Still, Leads
  <2>4. FlowSound'
    BY <1>7, <1>8, <2>1 DEF FlowSound
  <2> QED BY <1>7, <1>9, <2>1, <2>3, <2>4, SessionKept
<1> QED
  BY <1>10, <1>11

(* A message is handled without entering the workflow.                     *)
LEMMA MessageKept ==
  ASSUME NEW S, NEW L, NEW N, NEW G, TrialContract(S, L, N, G),
         TrialInv(S, L, N, G), RingInv(S, L)', Slots' = Slots,
         at = "select", at' \in {"generate", "exit"}, UNCHANGED <<caller, from, hdesc>>,
         TrialStep(N, G),
         at' # "exit" => \A c \in Clients : wire'[c] = wire[c] \/ Answers(N, c)
  PROVE  TrialStep(N, G) /\ TrialInv(S, L, N, G)'
<1>1. caller # "report" /\ from = NoClient
  BY DEF TrialInv, FlowSound
<1>2. FlowSound' /\ InFlow' = {}
  BY <1>1 DEF FlowSound, InFlow
<1>3. \A c \in Clients : StaysInFlow(c)
  BY <1>1, SessionAssumption DEF StaysInFlow
<1> QED
  BY <1>2, <1>3, SessionKept

(* Leaving the trials alone.                                               *)
LEMMA StillStep ==
  ASSUME NEW S, NEW L, NEW N, NEW G, TrialContract(S, L, N, G), TrialInv(S, L, N, G),
         at # "workflow", at' # "workflow",
         UNCHANGED <<pending, pending_len, ringVars, waiting, holder, strat>>
  PROVE  TrialStep(N, G)
<1>1. Leads(N, G, strat, strat', LiveIds)
  BY InvFacts DEF Leads
<1> QED
  BY <1>1 DEF TrialStep, Still, InFlow

(* A join that the lists have room for leaves them alone.                  *)
LEMMA ListsStay ==
  ASSUME NEW S, NEW L, NEW N, NEW G, TrialContract(S, L, N, G),
         TrialInv(S, L, N, G), RingInv(S, L)',
         extend_lists((num_clients + 1) * PerClient)
  PROVE  UNCHANGED <<trialVars, ringVars>>
<1>1. /\ pending_cap \in Nat /\ (num_clients + 1) * PerClient \in Int
      /\ pending_cap' = pending_cap
  BY InvFacts, SessionAssumption DEF TypeOK, TrialInv, RingInv
<1>2. CASE pending_cap >= (num_clients + 1) * PerClient
  BY <1>2 DEF extend_lists
<1>3. CASE ~(pending_cap >= (num_clients + 1) * PerClient)
  <2>1. pending_cap' = array_grow((num_clients + 1) * PerClient)
    BY <1>3 DEF extend_lists
  <2>2. array_grow((num_clients + 1) * PerClient) >= (num_clients + 1) * PerClient
        /\ array_grow((num_clients + 1) * PerClient) \in Nat
    BY <1>1, GrowType
  <2> QED BY <1>1, <1>3, <2>1, <2>2
<1> QED
  BY <1>2, <1>3

LEMMA JoinKept ==
  ASSUME NEW S, NEW L, NEW N, NEW G, TrialContract(S, L, N, G),
         TrialInv(S, L, N, G), RingInv(S, L)', Slots' = Slots,
         NEW c \in Clients, handle_join(c), UNCHANGED hdesc
  PROVE  TrialStep(N, G) /\ TrialInv(S, L, N, G)'
<1>1. /\ at = "select" /\ wire[c].type = "JOIN" /\ wire[c].status = "REQ"
      /\ UNCHANGED <<waiting, strat, caller, from>>
      /\ wire \in [Clients -> Mesg] /\ wire[c] \in Mesg
  BY InvFacts DEF handle_join, Requested, TypeOK, plugVars
<1>2. CASE wire[c].flag
  <2>1. /\ extend_lists((num_clients + 1) * PerClient)
        /\ Reply(c, [wire[c] EXCEPT !.status = "OK"])
    BY <1>2 DEF handle_join
  <2>2. UNCHANGED <<trialVars, ringVars>>
    BY <2>1, ListsStay
  <2>3. at' = "generate" /\ wire'[c].type = "JOIN" /\ wire'[c].status = "OK"
    BY <1>1, <2>1 DEF Reply, Mesg
  <2>4. \A d \in Clients : d # c => wire'[d] = wire[d]
    BY <1>1, <2>1 DEF Reply
  <2>5. Answers(N, c)
    BY <1>1, <2>3 DEF Answers
  <2>6. TrialStep(N, G)
    BY <1>1, <2>2, <2>3, StillStep DEF trialVars
  <2> QED BY <1>1, <2>3, <2>4, <2>5, <2>6, MessageKept
<1>3. CASE ~wire[c].flag
  <2>1. at' = "exit" /\ UNCHANGED <<trialVars, ringVars>>
    BY <1>3 DEF handle_join, Fail
  <2>2. TrialStep(N, G)
    BY <1>1, <2>1, StillStep DEF trialVars
  <2> QED BY <1>1, <2>1, <2>2, MessageKept
<1> QED
  BY <1>2, <1>3

(* The requests that only read the session.                                *)
LEMMA QueryKept ==
  ASSUME NEW S, NEW L, NEW N, NEW G, TrialContract(S, L, N, G),
         TrialInv(S, L, N, G), RingInv(S, L)', Slots' = Slots,
         NEW c \in Clients, handle_getcfg(c) \/ handle_best(c), UNCHANGED hdesc
  PROVE  TrialStep(N, G) /\ TrialInv(S, L, N, G)'
<1>1. /\ at = "select" /\ wire[c].status = "REQ" /\ at' = "generate"
      /\ UNCHANGED <<trialVars, ringVars, waiting, strat, caller, from>>
      /\ wire \in [Clients -> Mesg] /\ wire[c] \in Mesg
  BY InvFacts DEF handle_getcfg, handle_best, Requested, Reply, TypeOK, plugVars
<1>2. TrialStep(N, G)
  BY <1>1, StillStep DEF trialVars
<1>3. LiveIds' = LiveIds
  BY <1>1 DEF LiveIds, Occupied, trialVars
<1>4. Answers(N, c) /\ \A d \in Clients : d # c => wire'[d] = wire[d]
  <2>1. CASE handle_getcfg(c)
    <3>1. wire[c].type = "GETCFG" /\ wire'[c].type = "GETCFG" /\ wire'[c].status = "OK"
      BY <1>1, <2>1 DEF handle_getcfg, Requested, Reply, Mesg
    <3> QED BY <1>1, <2>1, <3>1 DEF Answers, handle_getcfg, Reply
  <2>2. CASE handle_best(c)
    <3>1. /\ wire[c].type = "BEST" /\ wire'[c].type = "BEST" /\ wire'[c].status = "OK"
          /\ wire'[c].point = StrategyBest(strat)
      BY <1>1, <2>2 DEF handle_best, Requested, Reply, Mesg
    <3>2. wire'[c].point.id < N[strat'] /\ wire'[c].point.id \notin LiveIds'
      BY <1>1, <1>3, <3>1, InvFacts
    <3>3. Answers(N, c)
      BY <1>1, <3>1, <3>2 DEF Answers
    <3> QED BY <1>1, <2>2, <3>3 DEF handle_best, Reply
  <2> QED BY <2>1, <2>2
<1> QED
  BY <1>1, <1>2, <1>4, MessageKept

(* Pausing, resuming and restarting.                                       *)
LEMMA HttpKept ==
  ASSUME NEW S, NEW L, NEW N, NEW G, TrialContract(S, L, N, G),
         TrialInv(S, L, N, G), RingInv(S, L)', Slots' = Slots,
         HttpRequest, UNCHANGED hdesc
  PROVE  TrialStep(N, G) /\ TrialInv(S, L, N, G)'
<1>1. /\ at = "select" /\ at' = "generate"
      /\ UNCHANGED <<trialVars, ringVars, waiting, wire, caller, from>>
      /\ InFlow = {} /\ InFlow' = {}
  BY DEF HttpRequest, handle_setcfg, handle_restart, plugVars, InFlow
<1>2. Leads(N, G, strat, strat', LiveIds)
  <2>1. CASE strat' = strat
    BY <2>1, InvFacts DEF Leads
  <2>2. CASE handle_restart
    <3>1. MaxRestarts > 0 /\ strat' = StrategyRestart(strat)
      <4>1. restarts \in Nat /\ restarts < MaxRestarts
        BY <2>2, InvFacts DEF handle_restart, TypeOK
      <4> QED BY <2>2, <4>1, SessionAssumption DEF handle_restart
    <3> QED BY <3>1, InvFacts DEF TrialContract, IssuesIds
  <2> QED BY <2>1, <2>2 DEF HttpRequest, handle_setcfg, plugVars
<1>3. TrialStep(N, G)
  BY <1>1, <1>2 DEF TrialStep, Still, trialVars
<1> QED
  BY <1>1, <1>3, MessageKept

(* A client fetches a trial, or learns of the best point.                  *)
LEMMA FetchKept ==
  ASSUME NEW S, NEW L, NEW N, NEW G, TrialContract(S, L, N, G),
         TrialInv(S, L, N, G), RingInv(S, L)', Slots' = Slots,
         NEW c \in Clients, handle_fetch(c), UNCHANGED hdesc
  PROVE  TrialStep(N, G) /\ TrialInv(S, L, N, G)'
<1> DEFINE i == ready[ready_head]
<1>1. /\ at = "select" /\ wire[c].status = "REQ" /\ wire[c].type = "FETCH"
      /\ UNCHANGED <<pending, pending_len, ready_tail, waiting, strat, caller, from>>
      /\ wire \in [Clients -> Mesg] /\ wire[c] \in Mesg
      /\ i \in Slots \cup {NoTrial} /\ SlotTypes
  BY InvFacts DEF handle_fetch, Requested, TypeOK, plugVars
<1>2. InFlow = {} /\ (at' = "generate" => InFlow' = {})
  BY <1>1 DEF InFlow
<1>3. CASE ~paused /\ i >= 0
  <2>1. /\ Reply(c, [wire[c] EXCEPT !.status = "OK", !.point = PointOf(pending[i])])
        /\ Dequeue
        /\ holder' = [holder EXCEPT ![i] = c]
    BY <1>3 DEF handle_fetch
  <2>2. i \in Slots /\ i \in Queued
    BY <1>1, <1>3 DEF NoTrial, SlotTypes, Queued
  <2>3. i \in Occupied
    BY <2>2 DEF TrialInv, TrialsAccounted
  <2>4. /\ pending[i].id \in LiveIds /\ pending[i].id # -1 /\ pending[i].id < N[strat]
    BY <2>3, InvFacts DEF Occupied
  <2> HIDE DEF i
  <2>5. /\ at' = "generate" /\ wire'[c].type = "FETCH" /\ wire'[c].status = "OK"
        /\ wire'[c].point = PointOf(pending[i])
        /\ \A d \in Clients : d # c => wire'[d] = wire[d]
    BY <1>1, <2>1 DEF Reply, Mesg
  <2>6. Fetched(c, i)
    BY <1>1, <1>2, <2>1, <2>2, <2>5 DEF Fetched, i
  <2>7. TrialStep(N, G)
    BY <2>2, <2>6 DEF TrialStep
  <2>8. Answers(N, c)
    <3>1. wire'[c].point.id = pending[i].id /\ wire'[c].point.val = pending[i].val
      BY <2>5 DEF PointOf
    <3>2. ASSUME NEW j \in Occupied', pending'[j].id = wire'[c].point.id
          PROVE  holder'[j] = c /\ pending'[j].val = wire'[c].point.val
      <4>1. j \in Occupied /\ pending[j].id = pending[i].id
        BY <1>1, <3>1, <3>2 DEF Occupied
      <4>2. j = i
        BY <2>3, <4>1 DEF TrialInv, IdsUnique
      <4> QED BY <1>1, <2>1, <2>2, <3>1, <4>2 DEF SlotTypes
    <3> QED BY <1>1, <2>4, <2>5, <3>1, <3>2 DEF Answers
  <2> QED BY <1>1, <2>5, <2>7, <2>8, MessageKept
<1>4. CASE ~(~paused /\ i >= 0)
  <2>1. /\ Reply(c, [wire[c] EXCEPT !.status = "BUSY", !.point = StrategyBest(strat)])
        /\ UNCHANGED <<ready, ready_head, holder>>
    BY <1>4 DEF handle_fetch
  <2>2. /\ at' = "generate" /\ wire'[c].type = "FETCH" /\ wire'[c].status = "BUSY"
        /\ wire'[c].point = StrategyBest(strat)
        /\ \A d \in Clients : d # c => wire'[d] = wire[d]
    BY <1>1, <2>1 DEF Reply, Mesg
  <2>3. LiveIds' = LiveIds
    BY <1>1 DEF LiveIds, Occupied
  <2>4. wire'[c].point.id < N[strat'] /\ wire'[c].point.id \notin LiveIds'
    BY <1>1, <2>2, <2>3, InvFacts
  <2>5. Answers(N, c)
    BY <1>1, <2>2, <2>4 DEF Answers
  <2>6. TrialStep(N, G)
    BY <1>1, <2>1, <2>2, StillStep DEF ringVars
  <2> QED BY <1>1, <2>2, <2>5, <2>6, MessageKept
<1> QED
  BY <1>3, <1>4

(* A client's report finds the trial that was handed to it.                *)
LEMMA ReportFinds ==
  ASSUME NEW S, NEW L, NEW N, NEW G, TrialContract(S, L, N, G), TrialInv(S, L, N, G),
         NEW c \in Clients, at = "select", Requested(c, "REPORT"),
         NEW found, found = SlotsWith(wire[c].point.id), found # {}
  PROVE  /\ First(found) \in Occupied /\ holder[First(found)] = c
         /\ hdesc[c].curr = PointOf(pending[First(found)])
         /\ hdesc[c].state = "TESTING"
<1> DEFINE i == First(found)
<1>1. hdesc[c].state = "TESTING" /\ wire[c].point.id = hdesc[c].curr.id /\ hdesc[c].curr.id # -1
  BY DEF TrialInv, ClientSound, CallSound, TestSound, Requested
<1>2. i \in Slots /\ pending[i].id = hdesc[c].curr.id
  <2>1. SlotsWith(wire[c].point.id) \in SUBSET Nat
    BY InvFacts DEF SlotsWith, Slots, TypeOK
  <2>2. i \in SlotsWith(wire[c].point.id)
    BY <2>1, FirstType
  <2> QED BY <1>1, <2>2 DEF SlotsWith
<1> HIDE DEF i
<1>3. i \in Occupied
  BY <1>1, <1>2 DEF Occupied
<1>4. OwnTrial(c)
  BY DEF TrialInv, ClientSound
<1>5. holder[i] = c /\ hdesc[c].curr.val = pending[i].val
  BY <1>1, <1>2, <1>3, <1>4 DEF OwnTrial, InFlow, Requested
<1>6. hdesc[c].curr = PointOf(pending[i])
  <2>1. hdesc[c].curr \in Point
    BY InvFacts DEF TypeOK
  <2> QED BY <1>2, <1>5, <2>1 DEF PointOf, Point
<1> QED
  BY <1>1, <1>3, <1>5, <1>6 DEF i

LEMMA ReportKept ==
  ASSUME NEW S, NEW L, NEW N, NEW G, TrialContract(S, L, N, G),
         TrialInv(S, L, N, G), RingInv(S, L)', Slots' = Slots,
         NEW c \in Clients, handle_report(c), UNCHANGED hdesc
  PROVE  TrialStep(N, G) /\ TrialInv(S, L, N, G)'
<1> DEFINE found == SlotsWith(wire[c].point.id)
           i     == First(found)
<1>1. /\ at = "select" /\ Requested(c, "REPORT")
      /\ UNCHANGED <<pending_len, ringVars, waiting, strat>>
      /\ wire \in [Clients -> Mesg] /\ wire[c] \in Mesg
      /\ SlotTypes /\ InFlow = {}
  BY InvFacts DEF handle_report, Requested, TypeOK, plugVars, InFlow
<1>2. CASE found = {}
  <2>1. /\ UNCHANGED <<pending, holder, caller, from>>
        /\ Reply(c, [wire[c] EXCEPT !.status = "OK"]) \/ Fail(c)
    BY <1>2 DEF handle_report
  <2>2. at' \in {"generate", "exit"}
    BY <2>1 DEF Reply, Fail
  <2>3. TrialStep(N, G)
    BY <1>1, <2>1, <2>2, StillStep
  <2>4. ASSUME at' # "exit", NEW d \in Clients PROVE wire'[d] = wire[d] \/ Answers(N, d)
    <3>1. Reply(c, [wire[c] EXCEPT !.status = "OK"])
      BY <2>1, <2>4 DEF Fail
    <3>2. wire[c].type = "REPORT" /\ wire[c].status = "REQ"
      BY <1>1 DEF Requested
    <3>3. /\ wire'[c].type = "REPORT" /\ wire'[c].status = "OK"
          /\ d # c => wire'[d] = wire[d]
      BY <1>1, <3>1, <3>2 DEF Reply, Mesg
    <3> QED BY <3>2, <3>3 DEF Answers
  <2> QED BY <1>1, <2>1, <2>2, <2>3, <2>4, MessageKept
<1>3. CASE found # {}
  <2>1. /\ pending' = [pending EXCEPT ![i].perf = wire[c].perf]
        /\ holder' = [holder EXCEPT ![i] = NoClient]
        /\ trial_idx' = i
        /\ curr_layer' = -LstackLen
        /\ caller' = "report" /\ from' = c
        /\ at' = "workflow"
        /\ UNCHANGED wire
    BY <1>3 DEF handle_report
  <2>2. i \in Occupied /\ i \in Slots /\ holder[i] = c /\ hdesc[c].curr.id = pending[i].id
    <3>1. found = SlotsWith(wire[c].point.id)
      OBVIOUS
    <3> HIDE DEF found
    <3>2. /\ First(found) \in Occupied /\ holder[First(found)] = c
          /\ hdesc[c].curr = PointOf(pending[First(found)])
      BY <1>1, <1>3, <3>1, ReportFinds
    <3> HIDE DEF i
    <3>3. i \in Occupied /\ holder[i] = c /\ hdesc[c].curr = PointOf(pending[i])
      BY <3>2 DEF i
    <3> QED BY <3>3 DEF Occupied, PointOf
  <2> HIDE DEF i, found
  <2>3. Reported(c, i, wire[c].perf) /\ wire[c].perf \in Perfs \cup {Infinity}
    <3>1. InFlow' = {i} /\ curr_layer' <= 0
      BY <2>1, SessionAssumption DEF InFlow
    <3>2. wire[c].perf \in Perfs \cup {Infinity}
      BY <1>1 DEF Mesg
    <3> QED BY <1>1, <2>1, <2>2, <3>1, <3>2 DEF Reported
  <2>4. TrialStep(N, G)
    BY <2>2, <2>3 DEF TrialStep
  <2>5. /\ N[strat] \in Nat /\ \A x \in LiveIds : x < N[strat]
        /\ TrialsAccounted /\ PendingCounted /\ IdsUnique /\ StratKnows(G)
        /\ pending_len \in Int /\ TypeOK
    BY InvFacts DEF TrialInv, TypeOK
  <2>6. PointsStep(N, G)
    BY <1>1, <2>4, <2>5, PointsChange
  <2>7. TrialsAccounted' /\ PendingCounted' /\ IdsUnique' /\ StratKnows(G)' /\ IdsOld(N)
    BY <1>1, <2>4, <2>5, <2>6, PlacesKept, IdsKept, IdsStayOld
  <2>8. FlowSound'
    BY <1>1, <2>1 DEF FlowSound, Requested
  <2>9. \A d \in Clients : d # from
    BY <1>1, SessionAssumption DEF TrialInv, FlowSound
  <2>10. ASSUME NEW d \in Clients, d # c PROVE ClientSound(N, d)'
    <3>1. ASSUME NEW j \in Slots, NEW perf \in Perfs \cup {Infinity}, Reported(d, j, perf)
          PROVE  FALSE
      <4>1. holder[j] = d /\ holder'[j] = NoClient
        BY <1>1, <3>1 DEF Reported, SlotTypes
      <4> QED BY <1>1, <2>1, <2>2, <2>10, <4>1, SessionAssumption DEF SlotTypes
    <3>2. StaysHeld(d)
      BY <1>1, <2>4, <2>5, <3>1, HoldersStay
    <3>3. StaysInFlow(d)
      BY <2>9 DEF StaysInFlow
    <3>4. ClientSound(N, d)
      BY <1>1 DEF TrialInv
    <3> QED BY <2>1, <2>5, <2>7, <3>2, <3>3, <3>4, ClientKept
  <2>11. ClientSound(N, c)'
    <3>1. ClientSound(N, c) /\ wire'[c] = wire[c] /\ wire[c].type = "REPORT" /\ wire[c].status = "REQ"
      BY <1>1, <2>1 DEF TrialInv, Requested
    <3>2. /\ \A j \in Slots : pending'[j].id = pending[j].id
          /\ Occupied' = Occupied /\ LiveIds' = LiveIds
      <4>1. \A j \in Slots : pending'[j].id = pending[j].id
        BY <1>1, <2>1, <2>2 DEF SlotTypes, Trials
      <4> QED BY <4>1 DEF Occupied, LiveIds
    <3>3. CallSound(c)' /\ BestPast(N, c)' /\ TestSound(N, c)' /\ ReplySound(N, c)'
      BY <1>1, <3>1, <3>2 DEF ClientSound, CallSound, Idle, BestPast, Past, TestSound, ReplySound
    <3>4. OwnTrial(c)'
      <4> SUFFICES ASSUME NEW j \in Occupied, hdesc[c].curr.id = pending'[j].id
                   PROVE  j \in InFlow' /\ from' = c
        BY <3>2 DEF OwnTrial
      <4>1. j \in Slots /\ pending[j].id = pending[i].id
        BY <2>2, <3>2 DEF Occupied
      <4>2. j = i
        BY <2>2, <2>5, <4>1 DEF IdsUnique
      <4> QED BY <2>1, <4>2 DEF InFlow
    <3>5. VarsSound(c)'
      BY <3>1 DEF ClientSound, VarsSound
    <3> QED BY <3>3, <3>4, <3>5 DEF ClientSound
  <2> QED BY <2>4, <2>7, <2>8, <2>10, <2>11 DEF TrialInv
<1> QED
  BY <1>2, <1>3

(* What a client does leaves the session alone, and a client that is in    *)
(* the middle of a call has the wire to itself.                            *)
LEMMA ClientMoves ==
  ASSUME NEW S, NEW L, NEW N, NEW G, TrialInv(S, L, N, G),
         RingInv(S, L)', NEW c \in Clients, UNCHANGED sessionVars,
         ~Requested(c, "REPORT"),
         \A d \in Clients : d # c => wire'[d] = wire[d] /\ hdesc'[d] = hdesc[d],
         at # "exit" => ClientSound(N, c)'
  PROVE  TrialInv(S, L, N, G)'
<1>1. /\ UNCHANGED <<pending, pending_len, pending_cap, holder, ready, waiting, strat,
                     at, caller, from, trial_idx>>
  BY DEF sessionVars, trialVars, ringVars, plugVars, flowVars
<1>2. /\ UNCHANGED <<Slots, Occupied, Queued, Waiting, Held, InFlow, LiveIds>>
  BY <1>1 DEF Slots, Occupied, Queued, Waiting, Held, InFlow, LiveIds
<1>3. TrialsAccounted' /\ PendingCounted' /\ IdsUnique' /\ StratKnows(G)'
  <2>1. TrialsAccounted /\ PendingCounted /\ IdsUnique /\ StratKnows(G)
    BY DEF TrialInv
  <2>2. TrialsAccounted'
    BY <1>1, <1>2, <2>1 DEF TrialsAccounted
  <2>3. PendingCounted' /\ IdsUnique' /\ StratKnows(G)'
    BY <1>1, <1>2, <2>1 DEF PendingCounted, IdsUnique, StratKnows
  <2> QED BY <2>2, <2>3
<1>4. FlowSound'
  <2>1. FlowSound
    BY DEF TrialInv
  <2> QED BY <1>1, <2>1 DEF FlowSound, Requested
<1>5. ASSUME at # "exit", NEW d \in Clients, d # c PROVE ClientSound(N, d)'
  <2>1. ClientSound(N, d)
    BY <1>5 DEF TrialInv
  <2>2. wire'[d] = wire[d] /\ hdesc'[d] = hdesc[d]
    BY <1>5
  <2>3. CallSound(d)' /\ BestPast(N, d)' /\ TestSound(N, d)'
    BY <1>1, <1>2, <2>1, <2>2 DEF ClientSound, CallSound, Idle, BestPast, Past, TestSound
  <2>4. ReplySound(N, d)' /\ OwnTrial(d)'
    BY <1>1, <1>2, <2>1, <2>2 DEF ClientSound, ReplySound, OwnTrial
  <2>5. VarsSound(d)'
    BY <2>1, <2>2 DEF ClientSound, VarsSound
  <2> QED BY <2>3, <2>4, <2>5 DEF ClientSound
<1>6. at' # "exit" => \A d \in Clients : ClientSound(N, d)'
  BY <1>1, <1>5
<1> QED
  BY <1>3, <1>4, <1>6 DEF TrialInv

(* A call sends its request.                                               *)
LEMMA CallKept ==
  ASSUME NEW S, NEW L, NEW N, NEW G, TrialContract(S, L, N, G), TrialInv(S, L, N, G),
         RingInv(S, L)', NEW c \in Clients, UNCHANGED sessionVars,
         CallJoin(c) \/ ClientCall(c)
  PROVE  TrialInv(S, L, N, G)'
<1>1. /\ wire \in [Clients -> Mesg] /\ Idle(c)
      /\ hdesc \in [Clients -> [state : ClientStates, curr : Point, best : Point,
                                 ptr : Vals \cup {NoVal}]]
      /\ LiveIds \in SUBSET Nat /\ N[strat] \in Nat
  BY InvFacts DEF TypeOK, CallJoin, ClientCall, CallFetch, CallReport, CallBest, CallConverged,
     harmony_leave
<1>2. UNCHANGED <<pending, pending_cap, holder, strat, at, from, trial_idx>>
  BY DEF sessionVars, trialVars, plugVars, flowVars
<1>3. UNCHANGED <<Slots, Occupied, InFlow, LiveIds>>
  BY <1>2 DEF Slots, Occupied, InFlow, LiveIds
<1>4. ~Requested(c, "REPORT")
  BY <1>1 DEF Idle, Requested
<1>5. CASE harmony_leave(c)
  <2>1. /\ wire' = wire
        /\ hdesc'[c].state = "INIT" /\ hdesc'[c].best.id = -1
        /\ \A d \in Clients : d # c => hdesc'[d] = hdesc[d]
    BY <1>1, <1>5 DEF harmony_leave, Point
  <2>2. ASSUME at # "exit" PROVE ClientSound(N, c)'
    <3>1. ClientSound(N, c)
      BY <2>2 DEF TrialInv
    <3>2. Past(N, -1)'
      BY <1>1, <1>2, <1>3 DEF Past
    <3>3. wire'[c].status = "NONE" /\ wire'[c].type = "NONE"
      BY <1>1, <2>1, <3>1 DEF ClientSound, CallSound, Idle
    <3>4. CallSound(c)' /\ BestPast(N, c)'
      BY <2>1, <3>2, <3>3 DEF CallSound, BestPast, Past
    <3>5. ReplySound(N, c)' /\ TestSound(N, c)' /\ OwnTrial(c)'
      BY <2>1, <3>3 DEF ReplySound, TestSound, OwnTrial
    <3>6. VarsSound(c)'
      BY <2>1 DEF VarsSound
    <3> QED BY <3>4, <3>5, <3>6 DEF ClientSound
  <2> QED BY <1>4, <2>1, <2>2, ClientMoves
<1>6. CASE CallJoin(c) \/ CallFetch(c) \/ CallReport(c) \/ CallBest(c) \/ CallConverged(c)
  <2>1. /\ hdesc' = hdesc /\ wire'[c].status = "REQ"
        /\ wire'[c].type = "FETCH" => hdesc[c].state # "TESTING"
        /\ wire'[c].type = "REPORT" => /\ hdesc[c].state = "TESTING"
                                       /\ wire'[c].point.id = hdesc[c].curr.id
        /\ \A d \in Clients : d # c => wire'[d] = wire[d]
    <3>1. CASE CallJoin(c)
      BY <1>1, <3>1 DEF CallJoin, Request, HMESG_INITIALIZER
    <3>2. CASE CallFetch(c)
      BY <1>1, <3>2 DEF CallFetch, Request, HMESG_INITIALIZER
    <3>3. CASE CallReport(c)
      BY <1>1, <3>3 DEF CallReport, Request, HMESG_INITIALIZER, HPOINT_INITIALIZER
    <3>4. CASE CallBest(c) \/ CallConverged(c)
      BY <1>1, <3>4 DEF CallBest, CallConverged, Request, HMESG_INITIALIZER
    <3> QED BY <1>6, <3>1, <3>2, <3>3, <3>4
  <2>2. ASSUME at # "exit" PROVE ClientSound(N, c)'
    <3>1. ClientSound(N, c)
      BY <2>2 DEF TrialInv
    <3>2. CallSound(c)'
      BY <2>1 DEF CallSound, Idle
    <3>3. BestPast(N, c)' /\ ReplySound(N, c)' /\ TestSound(N, c)'
      BY <1>2, <1>3, <2>1, <3>1 DEF ClientSound, BestPast, Past, ReplySound, TestSound
    <3>4. OwnTrial(c)'
      BY <1>1, <1>2, <1>3, <2>1, <3>1 DEF ClientSound, OwnTrial, Idle
    <3>5. VarsSound(c)'
      BY <2>1, <3>1 DEF ClientSound, VarsSound
    <3> QED BY <3>2, <3>3, <3>4, <3>5 DEF ClientSound
  <2> QED BY <1>4, <2>1, <2>2, ClientMoves
<1> QED
  BY <1>5, <1>6 DEF ClientCall

(* A reply is taken in and the call returns.                               *)
LEMMA RecvKept ==
  ASSUME NEW S, NEW L, NEW N, NEW G, TrialContract(S, L, N, G), TrialInv(S, L, N, G),
         RingInv(S, L)', NEW c \in Clients, UNCHANGED sessionVars, ClientRecv(c)
  PROVE  TrialInv(S, L, N, G)'
<1>1. /\ wire \in [Clients -> Mesg] /\ wire[c] \in Mesg
      /\ hdesc \in [Clients -> [state : ClientStates, curr : Point, best : Point,
                                 ptr : Vals \cup {NoVal}]]
      /\ hdesc[c] \in [state : ClientStates, curr : Point, best : Point,
                                 ptr : Vals \cup {NoVal}]
  BY InvFacts DEF TypeOK
<1>2. UNCHANGED <<pending, pending_cap, holder, strat, at, from, trial_idx>>
  BY DEF sessionVars, trialVars, plugVars, flowVars
<1>3. UNCHANGED <<Slots, Occupied, InFlow, LiveIds>>
  BY <1>2 DEF Slots, Occupied, InFlow, LiveIds
<1>4. wire[c].status \in {"OK", "BUSY"} /\ Done(c)
  BY DEF ClientRecv, RecvJoin, RecvFetch, RecvReport, RecvBest, RecvConverged, Answered
<1>5. /\ wire'[c].type = "NONE" /\ wire'[c].status = "NONE"
      /\ \A d \in Clients : d # c => wire'[d] = wire[d]
  BY <1>1, <1>4 DEF Done, HMESG_INITIALIZER
<1>6. \A d \in Clients : d # c => hdesc'[d] = hdesc[d]
  BY <1>1 DEF ClientRecv, RecvJoin, RecvFetch, RecvReport, RecvBest, RecvConverged
<1>7. ~Requested(c, "REPORT")
  BY <1>4 DEF Requested
<1>8. CallSound(c)' /\ ReplySound(N, c)'
  BY <1>5 DEF CallSound, Idle, ReplySound
<1>9. ASSUME Past(N, hdesc'[c].best.id) PROVE BestPast(N, c)'
  BY <1>2, <1>3, <1>5, <1>9 DEF BestPast, Past
<1>10. ASSUME Past(N, hdesc[c].best.id), Past(N, wire[c].point.id)
       PROVE  Past(N, update_best(hdesc[c].best, wire[c].point).id)
  BY <1>10 DEF update_best
<1>11. ASSUME at # "exit" PROVE ClientSound(N, c)'
  <2>1. ClientSound(N, c)
    BY <1>11 DEF TrialInv
  <2>2. /\ BestPast(N, c) /\ CallSound(c) /\ TestSound(N, c) /\ ReplySound(N, c) /\ OwnTrial(c)
        /\ VarsSound(c)
    BY <2>1 DEF ClientSound
  <2>3. ASSUME hdesc'[c].curr = hdesc[c].curr, Past(N, hdesc'[c].best.id), VarsSound(c)',
               hdesc'[c].state = "TESTING" => hdesc[c].state = "TESTING" /\ wire[c].type # "REPORT"
        PROVE  ClientSound(N, c)'
    <3>1. TestSound(N, c)' /\ OwnTrial(c)'
      BY <1>2, <1>3, <2>2, <2>3 DEF TestSound, OwnTrial
    <3> QED BY <1>8, <1>9, <2>3, <3>1 DEF ClientSound
  <2>4. CASE RecvJoin(c) \/ RecvReport(c)
    <3>1. hdesc' = [hdesc EXCEPT ![c].state = "READY"]
      BY <2>4 DEF RecvJoin, RecvReport
    <3>2. /\ hdesc'[c].state = "READY"
          /\ hdesc'[c].curr = hdesc[c].curr /\ hdesc'[c].best = hdesc[c].best
      BY <1>1, <3>1
    <3>3. VarsSound(c)'
      BY <2>2, <3>2 DEF VarsSound
    <3> QED BY <2>2, <2>3, <3>2, <3>3 DEF BestPast
  <2>5. CASE RecvConverged(c)
    <3>1. /\ hdesc'[c].state \in {"CONVERGED", hdesc[c].state}
          /\ hdesc'[c].curr = hdesc[c].curr /\ hdesc'[c].best = hdesc[c].best
          /\ hdesc'[c].ptr = hdesc[c].ptr
          /\ wire[c].type = "GETCFG"
      BY <1>1, <2>5 DEF RecvConverged, Answered
    <3>2. VarsSound(c)'
      BY <2>2, <3>1 DEF VarsSound
    <3> QED BY <2>2, <2>3, <3>1, <3>2 DEF BestPast
  <2>6. CASE RecvBest(c)
    <3> DEFINE best == update_best(hdesc[c].best, wire[c].point)
    <3>1. /\ hdesc'[c].state = hdesc[c].state /\ hdesc'[c].curr = hdesc[c].curr
          /\ hdesc'[c].best = best
          /\ hdesc'[c].ptr = IF best.id < 0 THEN hdesc[c].ptr ELSE best.val
          /\ wire[c].type = "BEST"
      BY <1>1, <2>6 DEF RecvBest, Answered
    <3>2. Past(N, hdesc[c].best.id) /\ Past(N, wire[c].point.id)
      BY <1>4, <2>2, <3>1 DEF BestPast
    <3>3. VarsSound(c)'
      <4>1. hdesc[c].best.id \in Int /\ wire[c].point.id \in Int
        BY <1>1 DEF Mesg, Point
      <4>2. best.id >= -1 /\ (best.id < 0 => best = hdesc[c].best)
        BY <2>2, <4>1 DEF VarsSound, update_best
      <4> HIDE DEF best
      <4> QED BY <2>2, <3>1, <4>2 DEF VarsSound
    <3> QED BY <1>10, <2>3, <3>1, <3>2, <3>3
  <2>7. CASE RecvFetch(c) /\ wire[c].status = "BUSY"
    <3> DEFINE best == update_best(hdesc[c].best, wire[c].point)
    <3>1. Past(N, best.id)
      BY <1>10, <2>2, <2>7 DEF BestPast
    <3>2. hdesc[c].state # "TESTING"
      BY <2>2, <2>7 DEF RecvFetch, Answered, CallSound
    <3>3. /\ hdesc'[c].best = best
          /\ \/ hdesc'[c].state = hdesc[c].state
             \/ /\ hdesc'[c].state = "TESTING" /\ hdesc'[c].curr = best /\ best.id # -1
                /\ hdesc'[c].ptr = best.val
      BY <1>1, <2>7 DEF RecvFetch
    <3>4. best.id >= -1
      <4>1. hdesc[c].best.id \in Int /\ wire[c].point.id \in Int
        BY <1>1 DEF Mesg, Point
      <4> QED BY <2>2, <4>1 DEF VarsSound, update_best
    <3> HIDE DEF best
    <3>5. BestPast(N, c)'
      BY <1>9, <3>1, <3>3
    <3>6. VarsSound(c)'
      BY <3>2, <3>3, <3>4 DEF VarsSound
    <3>7. CASE hdesc'[c].state = hdesc[c].state
      BY <1>8, <3>2, <3>5, <3>6, <3>7 DEF ClientSound, TestSound, OwnTrial
    <3>8. CASE hdesc'[c].state = "TESTING" /\ hdesc'[c].curr = best /\ best.id # -1
      <4>1. TestSound(N, c)'
        BY <1>2, <3>1, <3>8 DEF TestSound, Past
      <4>2. OwnTrial(c)'
        BY <1>2, <1>3, <3>1, <3>8 DEF OwnTrial, Past, LiveIds
      <4> QED BY <1>8, <3>5, <3>6, <4>1, <4>2 DEF ClientSound
    <3> QED BY <3>3, <3>7, <3>8
  <2>8. CASE RecvFetch(c) /\ wire[c].status = "OK"
    <3>1. hdesc[c].state # "TESTING" /\ wire[c].type = "FETCH"
      BY <2>2, <2>8 DEF RecvFetch, Answered, CallSound
    <3>2. /\ hdesc'[c].best = hdesc[c].best /\ hdesc'[c].curr = wire[c].point
          /\ \/ hdesc'[c].state = hdesc[c].state
             \/ hdesc'[c].ptr = wire[c].point.val
      BY <1>1, <2>8 DEF RecvFetch
    <3>3. BestPast(N, c)'
      BY <1>9, <2>2, <3>2 DEF BestPast
    <3>4. TestSound(N, c)' /\ OwnTrial(c)'
      BY <1>2, <1>3, <2>2, <2>8, <3>1, <3>2 DEF TestSound, OwnTrial, ReplySound
    <3>5. VarsSound(c)'
      BY <2>2, <3>1, <3>2 DEF VarsSound
    <3> QED BY <1>8, <3>3, <3>4, <3>5 DEF ClientSound
  <2> QED BY <1>4, <2>4, <2>5, <2>6, <2>7, <2>8 DEF ClientRecv
<1> QED
  BY <1>5, <1>6, <1>7, <1>11, ClientMoves

-----------------------------------------------------------------------------
LEMMA TrialInit ==
  ASSUME NEW S, NEW L, NEW N, NEW G, TrialContract(S, L, N, G), Init
  PROVE  TrialInv(S, L, N, G)
<1>1. RingInv(S, L)
  BY InitShape DEF TrialContract
<1>2. /\ SlotTypes /\ strat \in StrategyInit /\ strat \in S
  <2>1. TypeOK /\ strat \in S
    BY <1>1 DEF RingInv, TypeInv
  <2> QED BY <2>1, SlotTypesHold DEF Init, SessionInit
<1>3. /\ Slots = Cells(InitCap) /\ waiting = {} /\ at = "select"
      /\ caller = "none" /\ from = NoClient /\ pending_len = 0
      /\ \A i \in Slots : pending[i] = FreeTrial /\ ready[i] = NoTrial /\ holder[i] = NoClient
  BY <1>2 DEF Init, SessionInit, SlotTypes
<1>4. Occupied = {} /\ Queued = {} /\ Waiting = {} /\ Held = {} /\ InFlow = {} /\ LiveIds = {}
  BY <1>3 DEF Occupied, Queued, Waiting, Held, InFlow, LiveIds, FreeTrial
<1>5. TrialsAccounted /\ IdsUnique
  BY <1>3, <1>4 DEF TrialsAccounted, IdsUnique
<1>6. PendingCounted
  BY <1>3, <1>4, FS_EmptySet DEF PendingCounted
<1>7. StratKnows(G) /\ FlowSound
  BY <1>2, <1>3, <1>4 DEF StratKnows, FlowSound, TrialContract, IssuesIds
<1>8. ASSUME NEW c \in Clients PROVE ClientSound(N, c)
  <2>1. /\ wire[c].type = "NONE" /\ wire[c].status = "NONE"
        /\ hdesc[c].state = "INIT" /\ hdesc[c].best.id = -1
    BY DEF Init, WireInit, ClientInit, HMESG_INITIALIZER, HPOINT_INITIALIZER
  <2>2. N[strat] \in Nat
    BY <1>2 DEF TrialContract, IssuesIds
  <2> QED
    BY <1>4, <2>1, <2>2 DEF ClientSound, CallSound, Idle, BestPast, Past, ReplySound, TestSound,
       OwnTrial, VarsSound
<1> QED
  BY <1>1, <1>5, <1>6, <1>7, <1>8 DEF TrialInv

LEMMA TrialStepKept ==
  ASSUME NEW S, NEW L, NEW N, NEW G, TrialContract(S, L, N, G), NoGrowth,
         TrialInv(S, L, N, G), [Next]_vars
  PROVE  /\ TrialInv(S, L, N, G)'
         /\ TrialStep(N, G) \/ UNCHANGED sessionVars
<1>1. RingInv(S, L)'
  BY StepShape DEF TrialInv, TrialContract
<1>2. Slots' = Slots
  BY <1>1 DEF TrialInv, RingInv, Slots
<1>3. CASE SessionStep
  <2>1. UNCHANGED hdesc
    BY <1>3 DEF SessionStep
  <2>2. CASE SessionWork
    BY <1>1, <1>2, <2>1, <2>2, LayerKept, AnalyzeKept, EnqueueKept, GenerateKept, CallbackKept
       DEF SessionWork
  <2>3. CASE HttpRequest
    BY <1>1, <1>2, <2>1, <2>3, HttpKept
  <2>4. CASE \E c \in Clients : HandleMessage(c)
    BY <1>1, <1>2, <2>1, <2>4, JoinKept, QueryKept, FetchKept, ReportKept DEF HandleMessage
  <2> QED BY <1>3, <2>2, <2>3, <2>4 DEF SessionStep
<1>4. CASE \E c \in Clients : ClientStep(c)
  BY <1>1, <1>4, CallKept, RecvKept DEF ClientStep
<1>5. CASE UNCHANGED vars
  <2>1. UNCHANGED <<pending, pending_len, pending_cap, holder, ready, waiting, strat,
                    at, caller, from, trial_idx, wire, hdesc>>
    BY <1>5 DEF vars, sessionVars, trialVars, ringVars, plugVars, flowVars
  <2>2. UNCHANGED <<Occupied, Queued, Waiting, Held, InFlow, LiveIds>>
    BY <1>2, <2>1 DEF Occupied, Queued, Waiting, Held, InFlow, LiveIds
  <2>3. /\ TrialsAccounted /\ PendingCounted /\ IdsUnique /\ StratKnows(G) /\ FlowSound
        /\ at # "exit" => \A c \in Clients : ClientSound(N, c)
    BY DEF TrialInv
  <2>4. TrialsAccounted' /\ PendingCounted' /\ IdsUnique' /\ StratKnows(G)' /\ FlowSound'
    BY <1>2, <2>1, <2>2, <2>3 DEF TrialsAccounted, PendingCounted, IdsUnique, StratKnows,
       FlowSound, Requested
  <2>5. ASSUME NEW c \in Clients, ClientSound(N, c) PROVE ClientSound(N, c)'
    BY <2>1, <2>2, <2>5 DEF ClientSound, CallSound, Idle, BestPast, Past, ReplySound, TestSound,
       OwnTrial, VarsSound
  <2> QED BY <1>1, <1>5, <2>1, <2>3, <2>4, <2>5 DEF TrialInv, vars
<1> QED
  BY <1>3, <1>4, <1>5 DEF Next

(* TrialsAccounted: no step of the session loses a trial or puts it in two *)
(* places, in whatever order layers, callbacks and clients get their turn. *)
THEOREM TrialsCorrect ==
  ASSUME NEW S, NEW L, NEW N, NEW G, TrialContract(S, L, N, G), NoGrowth
  PROVE  Spec => []TrialsAccounted
<1>1. Init => TrialInv(S, L, N, G)
  BY TrialInit
<1>2. TrialInv(S, L, N, G) /\ [Next]_vars => TrialInv(S, L, N, G)'
  BY TrialStepKept
<1>3. TrialInv(S, L, N, G) => TrialsAccounted
  BY DEF TrialInv
<1> QED
  BY <1>1, <1>2, <1>3, PTL DEF Spec

(* PendingCounted: pending_len, which gates generation, never drifts from  *)
(* the number of slots in use.                                             *)
THEOREM CountCorrect ==
  ASSUME NEW S, NEW L, NEW N, NEW G, TrialContract(S, L, N, G), NoGrowth
  PROVE  Spec => []PendingCounted
<1>1. Init => TrialInv(S, L, N, G)
  BY TrialInit
<1>2. TrialInv(S, L, N, G) /\ [Next]_vars => TrialInv(S, L, N, G)'
  BY TrialStepKept
<1>3. TrialInv(S, L, N, G) => PendingCounted
  BY DEF TrialInv
<1> QED
  BY <1>1, <1>2, <1>3, PTL DEF Spec

(* IdsUnique: trials that are pending together have different ids, also    *)
(* after the layers had some of them replaced.                             *)
THEOREM IdsCorrect ==
  ASSUME NEW S, NEW L, NEW N, NEW G, TrialContract(S, L, N, G), NoGrowth
  PROVE  Spec => []IdsUnique
<1>1. Init => TrialInv(S, L, N, G)
  BY TrialInit
<1>2. TrialInv(S, L, N, G) /\ [Next]_vars => TrialInv(S, L, N, G)'
  BY TrialStepKept
<1>3. TrialInv(S, L, N, G) => IdsUnique
  BY DEF TrialInv
<1> QED
  BY <1>1, <1>2, <1>3, PTL DEF Spec

(* ReportsOwnTrial: the trial that a client reports is the one it was      *)
(* handed, its current point is the one on record, and what it measured is *)
(* that point or, after harmony_best(), the best it knows, whatever else   *)
(* has been fetched, reported, replaced, restarted or paused in between.   *)
THEOREM ReportsCorrect ==
  ASSUME NEW S, NEW L, NEW N, NEW G, TrialContract(S, L, N, G), NoGrowth
  PROVE  Spec => []ReportsOwnTrial
<1>1. Init => TrialInv(S, L, N, G)
  BY TrialInit
<1>2. TrialInv(S, L, N, G) /\ [Next]_vars => TrialInv(S, L, N, G)'
  BY TrialStepKept
<1>3. TrialInv(S, L, N, G) => ReportsOwnTrial
  BY DEF TrialInv, ClientSound, OwnTrial, VarsSound, ReportsOwnTrial
<1> QED
  BY <1>1, <1>2, <1>3, PTL DEF Spec

-----------------------------------------------------------------------------
(***************************************************************************)
(* Generation does not fall asleep for good.  The strategy may ask for a   *)
(* pause only while trials are out, or when it is done.                    *)
(***************************************************************************)
WaitsForTrials(S, G) ==
  \A s \in S : \A X \in SUBSET Nat : <<s, X>> \in G =>
    \A o \in StrategyGenerate(s) :
      o.status = "WAIT" => X # {} \/ StrategyConverged(o.next)

PauseInv == ~pollstate => Occupied # {} \/ StrategyConverged(strat)

(* Only the end of an analysis takes the last trial away.                  *)
LEMMA SomeAreLeft ==
  ASSUME NEW S, NEW L, NEW N, NEW G, TrialContract(S, L, N, G),
         TrialInv(S, L, N, G), TrialInv(S, L, N, G)', TrialStep(N, G)
  PROVE  \/ Occupied' # {}
         \/ \E i \in Slots : Analyzed(N, G, i)
         \/ Still(N, G)
<1>1. TrialsAccounted /\ TrialsAccounted'
  BY DEF TrialInv
<1>2. InFlow' \cup Waiting' \subseteq Occupied' /\ InFlow \cup Queued \subseteq Occupied
  BY <1>1 DEF TrialsAccounted
<1>3. UNCHANGED Slots
  BY DEF TrialInv, RingInv, Slots
<1>4. ASSUME NEW i \in Slots, NEW layer, NEW perf, Parked(i, layer, perf) PROVE Occupied' # {}
  <2>1. <<layer, i>> \in waiting' /\ <<layer, i>>[2] = i
    BY <1>4 DEF Parked
  <2>2. i \in Waiting'
    BY <2>1 DEF Waiting
  <2> QED BY <1>2, <2>2
<1>5. UNCHANGED pending => Occupied' = Occupied
  BY <1>3 DEF Occupied
<1>6. ASSUME NEW i \in Slots, Enqueued(i) PROVE Occupied' # {}
  BY <1>2, <1>5, <1>6 DEF Enqueued
<1>7. ASSUME NEW c \in Clients, NEW i \in Slots, Fetched(c, i) PROVE Occupied' # {}
  <2>1. i \in Queued
    BY <1>7, InvFacts DEF Fetched, Queued, SlotTypes
  <2> QED BY <1>2, <1>5, <1>7, <2>1 DEF Fetched
<1>8. InFlow' # {} => Occupied' # {}
  BY <1>2
<1>9. /\ \A i, p : Created(N, G, i, p) => InFlow' # {}
      /\ \A i, p, perf : Passed(N, G, i, p, perf) => InFlow' # {}
      /\ \A i, layer, p : Resumed(N, G, i, layer, p) => InFlow' # {}
      /\ \A c, i, perf : Reported(c, i, perf) => InFlow' # {}
  BY DEF Created, Passed, Resumed, Reported
<1> QED
  BY <1>4, <1>6, <1>7, <1>8, <1>9 DEF TrialStep

LEMMA PauseKept ==
  ASSUME NEW S, NEW L, NEW N, NEW G, TrialContract(S, L, N, G), WaitsForTrials(S, G),
         MaxRestarts = 0, TrialInv(S, L, N, G), TrialInv(S, L, N, G)',
         TrialStep(N, G) \/ UNCHANGED sessionVars, [Next]_vars, PauseInv
  PROVE  PauseInv'
<1>1. UNCHANGED <<pollstate, strat, Occupied>> => PauseInv'
  BY DEF PauseInv
<1>2. UNCHANGED Slots
  BY DEF TrialInv, RingInv, Slots
<1>3. CASE UNCHANGED sessionVars
  BY <1>1, <1>2, <1>3 DEF sessionVars, trialVars, plugVars, Occupied
<1>4. CASE (\E i \in Slots : Analyzed(N, G, i)) /\ ~UNCHANGED sessionVars
  <2>1. at = "workflow" /\ curr_layer = 0
    BY <1>4 DEF Analyzed, InFlow
  <2>2. WorkflowAnalyze
    BY <1>4, <2>1, SessionAssumption DEF Next, SessionStep, SessionWork, HttpRequest,
       HandleMessage, LayerStep, WorkflowEnqueue, StartGenerate, EndGenerate, generate_trial,
       handle_callback, handle_join, handle_getcfg, handle_best, handle_fetch, handle_report,
       handle_setcfg, handle_restart, ClientStep, vars
  <2>3. trial_idx \in Occupied /\ <<strat, LiveIds>> \in G /\ strat \in S /\ LiveIds \in SUBSET Nat
        /\ pending[trial_idx] \in Trials /\ pending[trial_idx].id \in LiveIds
    BY <2>1, InvFacts
  <2>4. StrategyAnalyze(strat, pending[trial_idx]) # {}
    BY <2>3 DEF TrialContract, IssuesIds
  <2>5. pollstate' = TRUE
    BY <2>2, <2>4 DEF WorkflowAnalyze, Release
  <2> QED BY <2>5 DEF PauseInv
<1>5. CASE Still(N, G) /\ ~UNCHANGED sessionVars
  <2>1. at # "workflow" /\ at' # "workflow" /\ UNCHANGED pending
    BY <1>5 DEF Still, InFlow
  <2>2. UNCHANGED Occupied
    BY <1>2, <2>1 DEF Occupied
  <2>3. CASE generate_trial
    <3>1. PICK o \in StrategyGenerate(strat) : o.status = "WAIT" /\ strat' = o.next
      BY <2>1, <2>3 DEF generate_trial
    <3>2. <<strat, LiveIds>> \in G /\ strat \in S /\ LiveIds \in SUBSET Nat
      BY InvFacts
    <3>3. LiveIds # {} \/ StrategyConverged(strat')
      BY <3>1, <3>2 DEF WaitsForTrials
    <3>4. LiveIds # {} => Occupied # {}
      BY DEF LiveIds
    <3> QED BY <2>2, <3>3, <3>4 DEF PauseInv
  <2>4. ASSUME NEW n \in 1 .. Len(Callbacks), handle_callback(n) PROVE PauseInv'
    <3>1. PICK s \in Slots : <<Callbacks[n], s>> \in waiting
      BY <2>4 DEF handle_callback
    <3>2. <<Callbacks[n], s>>[2] = s
      OBVIOUS
    <3>3. s \in Waiting
      BY <3>1, <3>2 DEF Waiting
    <3>4. Occupied # {}
      BY <3>3 DEF TrialInv, TrialsAccounted
    <3> QED BY <2>2, <3>4 DEF PauseInv
  <2>5. CASE UNCHANGED plugVars
    BY <1>1, <2>2, <2>5 DEF plugVars
  <2>6. ~LayerStep /\ ~WorkflowAnalyze /\ ~WorkflowEnqueue
    <3>1. LayerStep => at = "workflow"
      BY DEF LayerStep
    <3>2. WorkflowAnalyze => at = "workflow"
      BY DEF WorkflowAnalyze
    <3>3. WorkflowEnqueue => at = "workflow"
      BY DEF WorkflowEnqueue
    <3> QED BY <2>1, <3>1, <3>2, <3>3
  <2>7. ~handle_restart
    <3>1. TypeOK
      BY InvFacts
    <3>2. restarts \in Nat
      BY <3>1 DEF TypeOK
    <3> QED BY <3>2 DEF handle_restart
  <2>8. \/ generate_trial \/ UNCHANGED plugVars
        \/ \E n \in 1 .. Len(Callbacks) : handle_callback(n)
    BY <1>5, <2>6, <2>7 DEF Next, SessionStep, SessionWork, HttpRequest, HandleMessage,
       StartGenerate, EndGenerate, handle_join, handle_getcfg, handle_best, handle_fetch,
       handle_report, handle_setcfg, ClientStep, vars
  <2> QED BY <2>3, <2>4, <2>5, <2>8
<1>6. CASE Occupied' # {}
  BY <1>6 DEF PauseInv
<1> QED
  BY <1>3, <1>4, <1>5, <1>6, SomeAreLeft

(* PauseHasWaker: without restarts, whenever the session sleeps with       *)
(* generation paused, a trial is out whose analysis wakes it up, or the    *)
(* search is over.                                                         *)
THEOREM PauseCorrect ==
  ASSUME NEW S, NEW L, NEW N, NEW G, TrialContract(S, L, N, G), WaitsForTrials(S, G),
         MaxRestarts = 0, NoGrowth
  PROVE  Spec => []PauseHasWaker
<1> DEFINE Inv == TrialInv(S, L, N, G) /\ PauseInv
<1>1. Init => Inv
  BY TrialInit DEF Init, SessionInit, PauseInv
<1>2. Inv /\ [Next]_vars => Inv'
  BY TrialStepKept, PauseKept
<1>3. Inv => PauseHasWaker
  <2> SUFFICES ASSUME TrialInv(S, L, N, G), Occupied # {} PROVE pending_len > 0
    BY DEF PauseInv, PauseHasWaker
  <2>1. SlotTypes /\ PendingCounted
    BY InvFacts DEF TrialInv
  <2>2. IsFiniteSet(Slots) /\ Occupied \subseteq Slots
    BY <2>1, FS_Interval DEF SlotTypes, Cells, Occupied
  <2>3. IsFiniteSet(Occupied)
    BY <2>2, FS_Subset
  <2>4. Cardinality(Occupied) \in Nat /\ Cardinality(Occupied) # 0
    BY <2>3, FS_CardinalityType, FS_EmptySet
  <2> QED BY <2>1, <2>4 DEF PendingCounted
<1> QED
  BY <1>1, <1>2, <1>3, PTL DEF Spec

=============================================================================
