------------------------------ MODULE HClient ------------------------------
(***************************************************************************)
(* The client library (hclient.c).  hdesc[c] is client c's descriptor:     *)
(* the state of its state machine, the point under test, the best point it *)
(* knows, and ptr, the values that the application's variables have.  A    *)
(* library call is two actions, the request and the reply, with the        *)
(* session's work in between.                                              *)
(*                                                                         *)
(* The application calls the library as the tuning loop of the manual and  *)
(* of example.c does: join; then converged, fetch and report in turn; best *)
(* and leave when it likes.  The descriptor of a call that failed because  *)
(* the session is gone is left as it is: the application gives up.         *)
(***************************************************************************)
EXTENDS HMesg

CONSTANTS SigMatch,    \* outcomes of the signature test a join may meet
          MayLeave     \* whether a client may leave, even in mid-test

ASSUME ClientAssumption ==
  /\ SigMatch \subseteq BOOLEAN
  /\ MayLeave \in BOOLEAN

VARIABLE hdesc

(* harmony_state_t, in order; CONNECTED is passed through inside join.     *)
ClientStates == {"INIT", "READY", "TESTING", "CONVERGED"}

ClientInit ==
  hdesc = [c \in Clients |->
             [state |-> "INIT", curr |-> HPOINT_INITIALIZER, best |-> HPOINT_INITIALIZER,
              ptr |-> NoVal]]

Request(c, type, mesg) ==
  wire' = [wire EXCEPT ![c] = [mesg EXCEPT !.type = type, !.status = "REQ"]]

(* The reply has been consumed and the call returns.                       *)
Done(c) == wire' = [wire EXCEPT ![c] = HMESG_INITIALIZER]

(* update_best(): a point is kept only if its id is above the known one.   *)
update_best(best, point) == IF best.id >= point.id THEN best ELSE point

-----------------------------------------------------------------------------
(* harmony_join(): connects and registers.  The request for the number of  *)
(* performance values that follows changes nothing and is left out.        *)
CallJoin(c) ==
  /\ Idle(c)
  /\ hdesc[c].state = "INIT"
  /\ \E match \in SigMatch : Request(c, "JOIN", [HMESG_INITIALIZER EXCEPT !.flag = match])
  /\ UNCHANGED hdesc

RecvJoin(c) ==
  /\ Answered(c, "JOIN")
  /\ hdesc' = [hdesc EXCEPT ![c].state = "READY"]
  /\ Done(c)

(* harmony_leave(): the socket is closed; the session is not told.         *)
harmony_leave(c) ==
  /\ MayLeave
  /\ Idle(c)
  /\ hdesc[c].state # "INIT"
  /\ hdesc' = [hdesc EXCEPT ![c].state = "INIT", ![c].best.id = -1]
  /\ UNCHANGED wire

CallFetch(c) ==
  /\ Idle(c)
  /\ hdesc[c].state \in {"READY", "CONVERGED"}
  /\ Request(c, "FETCH", HMESG_INITIALIZER)
  /\ UNCHANGED hdesc

(* The rest of harmony_fetch().  No best point yet: the call returns 0 and *)
(* nothing changes.  A point without values makes set_values() fail.       *)
RecvFetch(c) ==
  /\ Answered(c, "FETCH")
  /\ LET busy == wire[c].status = "BUSY"
         best == IF busy THEN update_best(hdesc[c].best, wire[c].point) ELSE hdesc[c].best
         none == busy /\ best.id = -1
         curr == IF busy THEN best ELSE wire[c].point
     IN  hdesc' = [hdesc EXCEPT ![c] =
                     [state |-> IF none \/ curr.val = NoVal THEN @.state ELSE "TESTING",
                      curr  |-> IF none THEN @.curr ELSE curr,
                      best  |-> best,
                      ptr   |-> IF none \/ curr.val = NoVal THEN @.ptr ELSE curr.val]]
  /\ Done(c)

(* harmony_report(): the measured performance of the current point.        *)
CallReport(c) ==
  /\ Idle(c)
  /\ hdesc[c].state = "TESTING"
  /\ \E p \in Perfs : Request(c, "REPORT", [HMESG_INITIALIZER EXCEPT
                                              !.point.id = hdesc[c].curr.id, !.perf = p])
  /\ UNCHANGED hdesc

RecvReport(c) ==
  /\ Answered(c, "REPORT")
  /\ hdesc' = [hdesc EXCEPT ![c].state = "READY"]
  /\ Done(c)

CallBest(c) ==
  /\ Idle(c)
  /\ hdesc[c].state # "INIT"
  /\ Request(c, "BEST", HMESG_INITIALIZER)
  /\ UNCHANGED hdesc

(* The rest of harmony_best().  The application's variables become the     *)
(* best point known, also in the middle of a test: the state and the       *)
(* current point, under whose id the report will go out, stay.  A best     *)
(* point without an id is an error; one with an id has its values, so that *)
(* set_values() does not fail.                                             *)
RecvBest_SetsReply(c) ==
  /\ Answered(c, "BEST")
  /\ LET best == update_best(hdesc[c].best, wire[c].point)
     IN  hdesc' = [hdesc EXCEPT ![c].best = best,
                                ![c].ptr  = IF best.id < 0 THEN @ ELSE wire[c].point.val]
  /\ Done(c)

RecvBest(c) ==
  /\ Answered(c, "BEST")
  /\ LET best == update_best(hdesc[c].best, wire[c].point)
     IN  hdesc' = [hdesc EXCEPT ![c].best = best,
                                ![c].ptr  = IF best.id < 0 THEN @ ELSE best.val]
  /\ Done(c)

(* harmony_converged(): asks for CFGKEY_STRATEGY_CONVERGED.                *)
CallConverged(c) ==
  /\ Idle(c)
  /\ hdesc[c].state \in {"READY", "CONVERGED"}
  /\ Request(c, "GETCFG", HMESG_INITIALIZER)
  /\ UNCHANGED hdesc

RecvConverged(c) ==
  /\ Answered(c, "GETCFG")
  /\ hdesc' = [hdesc EXCEPT ![c].state = IF wire[c].flag THEN "CONVERGED" ELSE @]
  /\ Done(c)

-----------------------------------------------------------------------------
ClientRecv(c) ==
  \/ RecvJoin(c)
  \/ RecvFetch(c)
  \/ RecvReport(c)
  \/ RecvBest(c)
  \/ RecvConverged(c)

ClientCall(c) ==
  \/ CallFetch(c)
  \/ CallReport(c)
  \/ CallBest(c)
  \/ CallConverged(c)
  \/ harmony_leave(c)

=============================================================================
