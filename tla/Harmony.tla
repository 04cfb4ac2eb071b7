------------------------------ MODULE Harmony ------------------------------
(***************************************************************************)
(* A tuning session and its clients: SessionCore and HClient over the      *)
(* connections of HMesg.  The server between them (hserver.c) forwards     *)
(* messages unchanged and in order; each client has one request under way, *)
(* so requests of different clients reach the session in any order.        *)
(***************************************************************************)
EXTENDS SessionCore, HClient

CONSTANT PoolIds     \* the ids of trials, for the abstract specification

vars == <<sessionVars, wire, hdesc>>

Init == SessionInit /\ WireInit /\ ClientInit

ClientStep(c) == (CallJoin(c) \/ ClientCall(c) \/ ClientRecv(c)) /\ UNCHANGED sessionVars

SessionStep ==
  /\ SessionWork \/ HttpRequest \/ \E c \in Clients : HandleMessage(c)
  /\ UNCHANGED hdesc

Next == SessionStep \/ \E c \in Clients : ClientStep(c)

Spec == Init /\ [][Next]_vars

(***************************************************************************)
(* Fairness.  The session process keeps running, and it reads requests in  *)
(* the order of its socket, so no request is passed over forever although  *)
(* the process is often busy elsewhere (strong fairness).  A client that   *)
(* got its reply returns from the call, and the tuning loop of an          *)
(* application goes on fetching and reporting whatever else it calls.      *)
(***************************************************************************)
Fairness ==
  /\ WF_vars(SessionWork /\ UNCHANGED hdesc)
  /\ \A i \in 1 .. Len(Callbacks) : SF_vars(handle_callback(i) /\ UNCHANGED hdesc)
  /\ \A c \in Clients :
       /\ SF_vars(HandleMessage(c) /\ UNCHANGED hdesc)
       /\ WF_vars(ClientRecv(c) /\ UNCHANGED sessionVars)
       /\ WF_vars(CallJoin(c) /\ UNCHANGED sessionVars)
       /\ SF_vars(CallFetch(c) /\ UNCHANGED sessionVars)
       /\ SF_vars(CallReport(c) /\ UNCHANGED sessionVars)

FairSpec == Spec /\ Fairness

-----------------------------------------------------------------------------
(* Every variable has its type.                                            *)
TypeOK ==
  /\ pending_cap \in Nat \ {0}
  /\ pending \in [Slots -> Trials]
  /\ pending_len \in Int
  /\ ready \in [Slots -> Slots \cup {NoTrial}]
  /\ ready_head \in Slots /\ ready_tail \in Slots
  /\ waiting \subseteq ((-LstackLen .. LstackLen) \X Slots)
  /\ pollstate \in BOOLEAN /\ paused \in BOOLEAN
  /\ paused_id \in Int
  /\ num_clients \in Nat /\ restarts \in Nat
  /\ at \in {"select", "workflow", "generate", "exit"}
  /\ caller \in {"none", "generate", "report", "callback"}
  /\ from \in Clients \cup {NoClient}
  /\ trial_idx \in Slots
  /\ curr_layer \in -LstackLen .. LstackLen + 1
  /\ cb_next \in Nat \ {0}
  /\ holder \in [Slots -> Clients \cup {NoClient}]
  /\ wire \in [Clients -> Mesg]
  /\ hdesc \in [Clients -> [state : ClientStates, curr : Point, best : Point, ptr : Vals \cup {NoVal}]]

-----------------------------------------------------------------------------
(* Where trials are.                                                       *)
Occupied == {i \in Slots : pending[i].id # -1}
Queued   == {ready[p] : p \in Slots} \ {NoTrial}
Waiting  == {w[2] : w \in waiting}
Held     == {i \in Slots : holder[i] # NoClient}
InFlow   == IF at = "workflow" THEN {trial_idx} ELSE {}

(* Every pending trial is in exactly one place: queued for a fetch, parked *)
(* at one layer, held by the client that fetched it, or in the workflow    *)
(* that is running; and a free slot is in none (session-core.c moves       *)
(* trials between pending, ready and the wait lists by index only, and     *)
(* nothing else would notice a trial that is in two lists or in no list).  *)
TrialsAccounted ==
  /\ Occupied = Queued \cup Waiting \cup Held \cup InFlow
  /\ Queued \cap Waiting = {} /\ Queued \cap Held = {} /\ Queued \cap InFlow = {}
  /\ Waiting \cap Held = {} /\ Waiting \cap InFlow = {} /\ Held \cap InFlow = {}
  /\ \A p, q \in Slots : ready[p] = ready[q] /\ ready[p] # NoTrial => p = q
  /\ \A v, w \in waiting : v[2] = w[2] => v = w

(* pending_len, which gates generation, is the number of pending trials.   *)
PendingCounted == pending_len = Cardinality(Occupied)

(* The ring's free cells are those from tail up to head: the next enqueue  *)
(* finds a free cell while any slot is unqueued, and the next fetch finds  *)
(* the oldest trial.                                                       *)
RingShape == WellShaped(ready, ready_head, ready_tail, pending_cap)

(* Pending trials have different ids, so that a report (handle_report      *)
(* takes the first slot with the reported id) finds the trial it is about. *)
IdsUnique == \A i, j \in Occupied : pending[i].id = pending[j].id => i = j

(* While the session runs, whoever is testing or reporting a pending trial *)
(* is the client it was handed to: no report can land on a trial of        *)
(* another client or on one that is queued or parked.  Its current point   *)
(* is the one on record, and what it measures, the values of its           *)
(* variables, are those of that point or, since harmony_best() may be      *)
(* called in the middle of a test, of the best point it knows; no other    *)
(* reply, late or meant for a call before, gets into them.  (Once the      *)
(* report is in, the layers may have the trial tried again with other      *)
(* values.)                                                                *)
ReportsOwnTrial ==
  at # "exit" =>
    \A c \in Clients : \A i \in Occupied :
      (hdesc[c].state = "TESTING" /\ hdesc[c].curr.id = pending[i].id)
        => \/ /\ holder[i] = c /\ hdesc[c].curr.val = pending[i].val
              /\ hdesc[c].ptr \in {hdesc[c].curr.val, hdesc[c].best.val}
           \/ i \in InFlow /\ from = c
           \/ wire[c].type = "REPORT" /\ wire[c].status = "OK"

(* "Sends a complete performance report regarding the current              *)
(* configuration": the values the application has in its variables when it *)
(* reports are those of the trial the report is for.  (harmony_best() in   *)
(* the middle of a test changes the former and not the latter.)            *)
ReportsWhatItMeasured ==
  \A c \in Clients : \A i \in Occupied :
    Requested(c, "REPORT") /\ wire[c].point.id = pending[i].id
      => hdesc[c].ptr = pending[i].val

(* Generation pauses only while a trial is out whose analysis will wake it *)
(* up (plugin_workflow sets pollstate again), or once the search is over.  *)
PauseHasWaker ==
  at = "select" /\ ~pollstate => pending_len > 0 \/ StrategyConverged(strat)

(* The session outlives its clients' requests.                             *)
SessionAlive == at # "exit"

-----------------------------------------------------------------------------
(* The trials waiting for a fetch, oldest first.                           *)
ReadyQueue == Contents(ready, ready_head, pending_cap)

(* Growing the lists for a new client keeps the ready queue as it is.      *)
GrowthKeepsQueue == [][pending_cap' # pending_cap => ReadyQueue' = ReadyQueue]_vars

(* The ready queue is first in, first out: a step leaves it alone, appends *)
(* one trial or removes the oldest.                                        *)
QueueIsFifo ==
  [][\/ ReadyQueue' = ReadyQueue
     \/ \E i \in Slots : ReadyQueue' = Append(ReadyQueue, i)
     \/ ReadyQueue # <<>> /\ ReadyQueue' = Tail(ReadyQueue)]_vars

-----------------------------------------------------------------------------
(***************************************************************************)
(* The abstraction to TrialPool: where a trial is tells what stage it is   *)
(* in.  A trial at a layer is on its way to the ready queue when the layer *)
(* number is positive, and to the strategy otherwise.                      *)
(***************************************************************************)
TrialPoints(S) == {PointOf(pending[i]) : i \in S}

Generating ==
  {w[2] : w \in {v \in waiting : v[1] > 0}}
    \cup IF at = "workflow" /\ curr_layer > 0 THEN {trial_idx} ELSE {}

Analyzing == (Waiting \cup InFlow) \ Generating

Pool == INSTANCE TrialPool WITH
  Ids     <- PoolIds,
  Values  <- Vals,
  making  <- {pending[i].id : i \in Generating},
  line    <- [n \in 1 .. Len(ReadyQueue) |-> PointOf(pending[ReadyQueue[n]])],
  held    <- [c \in Clients |-> TrialPoints({i \in Slots : holder[i] = c})],
  judging <- TrialPoints(Analyzing)

(* The session and its clients implement the abstract pool: every step is  *)
(* a step of a trial's life cycle or none, whatever rings, slots and wait  *)
(* lists it moves the trial through.                                       *)
PoolSpec == Pool!Spec

-----------------------------------------------------------------------------
(* A fetch is always answered.                                             *)
FetchAnswered ==
  \A c \in Clients : Requested(c, "FETCH") ~> ~Requested(c, "FETCH")

(* Every trial that is generated is analyzed in the end.                   *)
TrialsReturn ==
  \A i \in Cells(InitCap) : (i \in Occupied) ~> (i \notin Occupied)

(* The search comes to an end, and comes to an end again after a restart.  *)
SearchConverges == []<>StrategyConverged(strat)

=============================================================================
