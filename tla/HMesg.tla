------------------------------- MODULE HMesg -------------------------------
(***************************************************************************)
(* The messages (hmesg_t) that tuning clients and a session exchange, and  *)
(* the connection each client has to the session.                          *)
(*                                                                         *)
(* A client call is synchronous: it sends one request and blocks until the *)
(* reply (send_request in hclient.c), so a connection holds at most one    *)
(* message, and wire[c] is that message.  The status field says whose turn *)
(* it is: "REQ" is for the session, "OK", "BUSY" and "FAIL" are for the    *)
(* client, "NONE" is an idle connection and "CLOSED" one whose session has *)
(* exited.                                                                 *)
(***************************************************************************)
EXTENDS Integers

CONSTANTS Clients,    \* the tuning clients
          Vals,       \* the values a configuration can have
          NoVal,      \* the value of a point that was never set
          Perfs,      \* the performance values a client can measure
          Infinity    \* hperf_reset(): worse than every measured performance

ASSUME MesgAssumption ==
  /\ NoVal \notin Vals
  /\ Perfs \subseteq Nat
  /\ Infinity \in Nat
  /\ \A p \in Perfs : p < Infinity

VARIABLE wire         \* wire[c]: the message on client c's connection

(* hpoint_t: an identifier and the values of the tuning variables.         *)
Point == [id : Int, val : Vals \cup {NoVal}]

HPOINT_INITIALIZER == [id |-> -1, val |-> NoVal]

MesgTypes    == {"NONE", "JOIN", "GETCFG", "BEST", "FETCH", "REPORT"}
MesgStatuses == {"NONE", "REQ", "OK", "BUSY", "FAIL", "CLOSED"}

(* hmesg_t.  point is the payload of BEST and FETCH replies and carries    *)
(* the candidate's id in a REPORT; flag is the outcome of the signature    *)
(* comparison in a JOIN, and the value of CFGKEY_STRATEGY_CONVERGED in the *)
(* reply to a GETCFG.                                                      *)
Mesg == [type : MesgTypes, status : MesgStatuses, point : Point,
         perf : Perfs \cup {Infinity}, flag : BOOLEAN]

HMESG_INITIALIZER ==
  [type |-> "NONE", status |-> "NONE", point |-> HPOINT_INITIALIZER,
   perf |-> Infinity, flag |-> FALSE]

ClosedMesg == [HMESG_INITIALIZER EXCEPT !.status = "CLOSED"]

Idle(c) == wire[c].status = "NONE"

Requested(c, type) == wire[c].status = "REQ" /\ wire[c].type = type

(* A reply has come back for a request of this type (send_request's last   *)
(* two tests: the type matches and the status is not FAIL).                *)
Answered(c, type) == wire[c].status \in {"OK", "BUSY"} /\ wire[c].type = type

WireInit == wire = [c \in Clients |-> HMESG_INITIALIZER]

=============================================================================
