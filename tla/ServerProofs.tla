---------------------------- MODULE ServerProofs ----------------------------
(***************************************************************************)
(* The server keeps its tables sound and takes requests and replies where  *)
(* they belong, for every number of clients, browsers and sessions, also   *)
(* when session processes die.  Clients leave between two of their calls:  *)
(* the run CrashMisroutes shows what happens otherwise.                    *)
(***************************************************************************)
EXTENDS HServer, FiniteSetTheorems, SequenceTheorems, NaturalsInduction,
        WellFoundedInduction, TLAPS

-----------------------------------------------------------------------------
(* The descriptors of the peers: one of each, watched and in one table.    *)
FdsSound ==
  /\ \A f \in Fds : owner[f] \in Peers => link[owner[f]] \in {"open", "gone"} /\ f \in listen_fds
  /\ \A f, g \in Fds : owner[f] \in Peers /\ owner[f] = owner[g] => f = g
  /\ unk_fds \cup client_fds \cup http_fds = {f \in Fds : owner[f] \in Peers}
  /\ unk_fds \cap client_fds = {} /\ unk_fds \cap http_fds = {} /\ client_fds \cap http_fds = {}
  /\ \A f \in client_fds : owner[f] \in Clients
  /\ \A f \in http_fds : owner[f] \in Browsers

(* The sessions have processes and names of their own, and clients that    *)
(* have no other session.                                                  *)
SlotsSound ==
  /\ \A i \in Slots : Open(i) => slist[i].fd \in Fds /\ owner[slist[i].fd] = Session
  /\ \A i \in Slots : ~Open(i) => slist[i].client = {}
  /\ \A i \in Slots : slist[i].client \subseteq client_fds
  /\ \A i, j \in Slots : Open(i) /\ Open(j) /\ i # j =>
       slist[i].fd # slist[j].fd /\ slist[i].name # slist[j].name
  /\ \A i, j \in Slots : i # j => slist[i].client \cap slist[j].client = {}

(* The connection of client c, while there is one, is on the list of the   *)
(* session in slot i, whose process is at g.                               *)
Member(c, i, g) ==
  /\ i \in Slots
  /\ \A f \in Fds : owner[f] = c => Open(i) /\ slist[i].fd = g /\ f \in slist[i].client

(* A client makes one call after another, and none of a session before it  *)
(* has joined.                                                             *)
CallSound(c) ==
  LET h == hd[c]
  IN  /\ link[c] \in {"new", "backlog"} => h.state = "idle" /\ s2c[c] = <<>>
      /\ link[c] = "new" => h.asked = "NONE"
      /\ h.asked = "NONE" => c2s[c] = NoReq /\ s2c[c] = <<>>
      /\ h.asked # "NONE" => link[c] \in {"backlog", "open", "closed"}
      /\ h.asked = "SESSION" => h.state = "idle"
      /\ h.asked = "JOIN" => h.state \in {"idle", "launched"}
      /\ h.asked = "FETCH" => h.state = "joined"
      /\ c2s[c] # NoReq =>
           /\ c2s[c].type = h.asked
           /\ h.asked = "SESSION" => c2s[c].name \in Names
           /\ h.asked = "FETCH" => c2s[c].dest = h.dest
      /\ h.state = "joined" => Member(c, h.dest, h.session)

(* A client that has not asked to join is on no list.                      *)
Outside(c) ==
  hd[c].state \in {"idle", "launched"} /\ ~(hd[c].asked = "JOIN" /\ c2s[c] = NoReq) =>
    \A i \in Slots : \A f \in slist[i].client : owner[f] # c

(* What a client has to read is the answer to its call.                    *)
ReplySound(c) ==
  s2c[c] # <<>> =>
    LET m == s2c[c][1]
    IN  /\ Len(s2c[c]) = 1
        /\ c2s[c] = NoReq
        /\ m.type = hd[c].asked /\ m.from = c
        /\ m.type # "SESSION" /\ m.status # "FAIL" => Member(c, m.dest, m.session)

(* A client's descriptor is reported only when there is something to do.   *)
ReadySound ==
  \A f \in ready \cap client_fds : c2s[owner[f]] # NoReq \/ link[owner[f]] = "gone"

PeersSound ==
  /\ \A b \in Browsers : hd[b].asked = "NONE" /\ s2c[b] = <<>>
  /\ \A c \in Clients : CallSound(c) /\ Outside(c) /\ ReplySound(c)
  /\ ReadySound

(* The calls that the process at g has under way: answered, then not yet.  *)
LineOf(procs, g) == procs[g].out \o procs[g].in

Line(g) == LineOf(proc, g)

(* Message m, under way in the session of slot i, is a client's only call. *)
Token(i, m) ==
  /\ m.from \in Clients /\ m.dest \in client_fds /\ owner[m.dest] = m.from
  /\ m.type # "NONE" /\ m.type = hd[m.from].asked
  /\ c2s[m.from] = NoReq /\ s2c[m.from] = <<>>
  /\ m.type # "SESSION" => m.dest \in slist[i].client

TokensSound ==
  \A i \in Slots : Open(i) =>
    \A k \in DOMAIN Line(slist[i].fd) :
      Line(slist[i].fd)[k].dest # NoFd => Token(i, Line(slist[i].fd)[k])

TokensUnique ==
  \A i, j \in Slots : Open(i) /\ Open(j) =>
    \A k \in DOMAIN Line(slist[i].fd) : \A l \in DOMAIN Line(slist[j].fd) :
      /\ Line(slist[i].fd)[k].dest # NoFd
      /\ Line(slist[i].fd)[k].dest = Line(slist[j].fd)[l].dest
      => i = j /\ k = l

LinesSound == TokensSound /\ TokensUnique

(* Processes are asked by clients that joined them, and sign their answers. *)
Signed ==
  \A f \in Fds :
    /\ \A k \in DOMAIN proc[f].in : proc[f].in[k].type = "FETCH" => proc[f].in[k].session = f
    /\ \A k \in DOMAIN proc[f].out : proc[f].out[k].session = f

(* There are descriptors enough: each client launches one session at most. *)
SessionFds == {f \in Fds : owner[f] = Session}

Launchers ==
  {c \in Clients : (hd[c].state = "idle" /\ hd[c].asked = "NONE") \/ c2s[c].type = "SESSION"}

FdsEnough == Cardinality(SessionFds) + Cardinality(Launchers) <= Cardinality(Clients)

ServerInv ==
  TypeOK /\ FdsSound /\ SlotsSound /\ PeersSound /\ LinesSound /\ Signed /\ FdsEnough

-----------------------------------------------------------------------------
(* What the types of the variables say of their parts.                     *)
LEMMA HandleTypes ==
  ASSUME TypeOK
  PROVE  \A p \in Peers :
           /\ hd[p] \in Handles
           /\ hd[p].asked \in Calls \cup {"NONE"}
           /\ s2c[p] \in Seq(Message)
           /\ c2s[p] \in Requests
           /\ c2s[p] # NoReq => c2s[p].type \in Calls \cup {"kill", "pause"}
           /\ c2s[p] = NoReq <=> c2s[p].type = "NONE"
<1> SUFFICES ASSUME NEW p \in Peers
             PROVE  /\ hd[p] \in Handles
                    /\ hd[p].asked \in Calls \cup {"NONE"}
                    /\ s2c[p] \in Seq(Message)
                    /\ c2s[p] \in Requests
                    /\ c2s[p] # NoReq => c2s[p].type \in Calls \cup {"kill", "pause"}
                    /\ c2s[p] = NoReq <=> c2s[p].type = "NONE"
  OBVIOUS
<1>1. hd[p] \in Handles /\ s2c[p] \in Seq(Message) /\ c2s[p] \in Requests
  BY DEF TypeOK
<1>2. hd[p].asked \in Calls \cup {"NONE"}
  BY <1>1 DEF Handles
<1>3. c2s[p] # NoReq => c2s[p].type \in Calls \cup {"kill", "pause"}
  BY <1>1 DEF Requests, Calls
<1>4. NoReq.type = "NONE" /\ "NONE" \notin Calls \cup {"kill", "pause"}
  BY DEF NoReq, Calls
<1> QED
  BY <1>1, <1>2, <1>3, <1>4

LEMMA TableTypes ==
  ASSUME TypeOK
  PROVE  /\ \A i \in Slots : /\ slist[i] = [name |-> slist[i].name, fd |-> slist[i].fd,
                                            client |-> slist[i].client]
                             /\ slist[i].name \in Names \cup {NoName}
                             /\ slist[i].fd \in Fds \cup {NoFd}
                             /\ slist[i].client \in SUBSET Fds
         /\ \A f \in Fds : /\ proc[f] = [alive |-> proc[f].alive, in |-> proc[f].in,
                                         out |-> proc[f].out]
                           /\ proc[f].alive \in BOOLEAN
                           /\ proc[f].in \in Seq(Message) /\ proc[f].out \in Seq(Message)
                           /\ owner[f] \in Peers \cup {Session, Free}
         /\ \A p \in Peers : link[p] \in {"new", "backlog", "open", "closed", "gone", "over"}
         /\ unk_fds \subseteq Fds /\ client_fds \subseteq Fds /\ http_fds \subseteq Fds
         /\ listen_fds \subseteq Fds
<1>1. \A i \in Slots :
        slist[i] \in [name : Names \cup {NoName}, fd : Fds \cup {NoFd}, client : SUBSET Fds]
  BY DEF TypeOK, TablesTyped
<1>2. \A f \in Fds : proc[f] \in Processes /\ owner[f] \in Peers \cup {Session, Free}
  BY DEF TypeOK, TablesTyped
<1>3. \A p \in Peers : link[p] \in {"new", "backlog", "open", "closed", "gone", "over"}
  BY DEF TypeOK, TablesTyped
<1>4. /\ unk_fds \subseteq Fds /\ client_fds \subseteq Fds /\ http_fds \subseteq Fds
      /\ listen_fds \subseteq Fds
  BY DEF TypeOK, TablesTyped
<1> QED
  BY <1>1, <1>2, <1>3, <1>4 DEF Processes

LEMMA Constants ==
  /\ NoFd \notin Fds /\ Fds \subseteq Nat /\ Slots \subseteq Nat
  /\ Clients \subseteq Peers /\ Browsers \subseteq Peers /\ Clients \cap Browsers = {}
  /\ Free \notin Peers /\ Session \notin Peers /\ Free # Session
  /\ NoName \notin Names
BY ServerAssumption DEF NoFd, Fds, Slots, Peers, Free, Session

-----------------------------------------------------------------------------
(* The elements of a line.                                                 *)
LEMMA CatIs ==
  ASSUME NEW S, NEW a \in Seq(S), NEW b \in Seq(S)
  PROVE  /\ a \o b \in Seq(S) /\ Len(a \o b) = Len(a) + Len(b)
         /\ Len(a) \in Nat /\ Len(b) \in Nat
         /\ DOMAIN (a \o b) = 1 .. Len(a) + Len(b)
         /\ \A k \in 1 .. Len(a) : (a \o b)[k] = a[k]
         /\ \A k \in 1 .. Len(b) : (a \o b)[Len(a) + k] = b[k]
OBVIOUS

LEMMA CatDomain == \A a, b : DOMAIN (a \o b) \subseteq Int
OBVIOUS

(* m and n are the same call, answered or not.                             *)
Same(m, n) == m.from = n.from /\ m.dest = n.dest /\ m.type = n.type

(* A line is what is left of another one: nothing came, the first one      *)
(* perhaps left, and some of the last ones were lost.                      *)
LeftOf(new, old) ==
  \E d \in {0, 1} : \A k \in DOMAIN new : k + d \in DOMAIN old /\ Same(new[k], old[k + d])

LEMMA LeftOfItself ==
  ASSUME NEW s \in Seq(Message)
  PROVE  LeftOf(s, s)
<1>1. \A k \in DOMAIN s : k + 0 \in DOMAIN s /\ Same(s[k], s[k + 0])
  BY DEF Same
<1> QED
  BY <1>1 DEF LeftOf

(* The calls of processes that nothing was added to are still different.   *)
LEMMA UniqueLeft ==
  ASSUME TokensUnique,
         \A i \in Slots : Open(i)' =>
           /\ Open(i) /\ slist'[i].fd = slist[i].fd
           /\ LeftOf(LineOf(proc', slist[i].fd), LineOf(proc, slist[i].fd))
  PROVE  TokensUnique'
<1> SUFFICES ASSUME NEW i \in Slots, NEW j \in Slots, Open(i)', Open(j)',
                    NEW k \in DOMAIN LineOf(proc', slist'[i].fd),
                    NEW l \in DOMAIN LineOf(proc', slist'[j].fd),
                    LineOf(proc', slist'[i].fd)[k].dest # NoFd,
                    LineOf(proc', slist'[i].fd)[k].dest = LineOf(proc', slist'[j].fd)[l].dest
             PROVE  i = j /\ k = l
  BY DEF TokensUnique, Line
<1> DEFINE new(n) == LineOf(proc', slist[n].fd)
           old(n) == LineOf(proc, slist[n].fd)
<1>1. /\ Open(i) /\ Open(j)
      /\ k \in DOMAIN new(i) /\ l \in DOMAIN new(j)
      /\ new(i)[k].dest # NoFd /\ new(i)[k].dest = new(j)[l].dest
      /\ LeftOf(new(i), old(i)) /\ LeftOf(new(j), old(j))
  OBVIOUS
<1>2. \A k2 \in DOMAIN old(i) : \A l2 \in DOMAIN old(j) :
        old(i)[k2].dest # NoFd /\ old(i)[k2].dest = old(j)[l2].dest => i = j /\ k2 = l2
  BY <1>1 DEF TokensUnique, Line
<1> HIDE DEF new, old
<1>3. PICK d \in {0, 1} : \A k2 \in DOMAIN new(i) :
        k2 + d \in DOMAIN old(i) /\ Same(new(i)[k2], old(i)[k2 + d])
  BY <1>1 DEF LeftOf
<1>4. PICK e \in {0, 1} :
        /\ i = j => e = d
        /\ \A l2 \in DOMAIN new(j) :
             l2 + e \in DOMAIN old(j) /\ Same(new(j)[l2], old(j)[l2 + e])
  BY <1>1, <1>3 DEF LeftOf
<1>5. /\ k + d \in DOMAIN old(i) /\ l + e \in DOMAIN old(j)
      /\ old(i)[k + d].dest = new(i)[k].dest /\ old(j)[l + e].dest = new(j)[l].dest
  BY <1>1, <1>3, <1>4 DEF Same
<1>6. i = j /\ k + d = l + e
  BY <1>1, <1>2, <1>5
<1>7. k \in Int /\ l \in Int
  BY CatDomain DEF LineOf
<1> QED
  BY <1>4, <1>6, <1>7

LEMMA LineTypes ==
  ASSUME NEW P \in [Fds -> Processes], NEW g \in Fds
  PROVE  /\ P[g].in \in Seq(Message) /\ P[g].out \in Seq(Message)
         /\ LineOf(P, g) \in Seq(Message)
         /\ DOMAIN LineOf(P, g) = 1 .. Len(P[g].out) + Len(P[g].in)
         /\ Len(P[g].out) \in Nat /\ Len(P[g].in) \in Nat
         /\ \A k \in 1 .. Len(P[g].out) : LineOf(P, g)[k] = P[g].out[k]
         /\ \A k \in 1 .. Len(P[g].in) : LineOf(P, g)[Len(P[g].out) + k] = P[g].in[k]
<1>1. P[g].in \in Seq(Message) /\ P[g].out \in Seq(Message)
  BY DEF Processes
<1> DEFINE a == P[g].out
           b == P[g].in
<1>2. LineOf(P, g) = a \o b
  BY DEF LineOf
<1>3. a \in Seq(Message) /\ b \in Seq(Message)
  BY <1>1
<1> HIDE DEF a, b
<1>4. /\ a \o b \in Seq(Message) /\ DOMAIN (a \o b) = 1 .. Len(a) + Len(b)
      /\ Len(a) \in Nat /\ Len(b) \in Nat
      /\ \A k \in 1 .. Len(a) : (a \o b)[k] = a[k]
      /\ \A k \in 1 .. Len(b) : (a \o b)[Len(a) + k] = b[k]
  BY <1>3, CatIs
<1>5. /\ LineOf(P, g) \in Seq(Message) /\ DOMAIN LineOf(P, g) = 1 .. Len(a) + Len(b)
      /\ \A k \in 1 .. Len(a) : LineOf(P, g)[k] = a[k]
      /\ \A k \in 1 .. Len(b) : LineOf(P, g)[Len(a) + k] = b[k]
  BY <1>2, <1>4
<1> QED
  BY <1>3, <1>4, <1>5 DEF a, b

LEMMA TokenSame ==
  ASSUME NEW i, NEW m, NEW n, Same(m, n), Token(i, m)
  PROVE  Token(i, n)
BY DEF Token, Same

-----------------------------------------------------------------------------
(* The client of a call that is under way waits for it, at the descriptor  *)
(* that the call names, which no other session has on its list.            *)
LEMMA TokenFacts ==
  ASSUME ServerInv, NEW i \in Slots, NEW m, Open(i), Token(i, m)
  PROVE  /\ m.from \in Clients /\ m.dest \in Fds
         /\ hd[m.from].asked # "NONE" /\ link[m.from] = "open"
         /\ \A f \in Fds : owner[f] = m.from => f = m.dest
         /\ \A j \in Slots \ {i} : m.dest \notin slist[j].client
<1>1. /\ m.from \in Clients /\ m.from \in Peers /\ m.dest \in client_fds /\ m.dest \in Fds
      /\ owner[m.dest] = m.from /\ c2s[m.from] = NoReq
      /\ m.type # "NONE" /\ m.type = hd[m.from].asked
  BY Constants, TableTypes DEF Token, ServerInv
<1>2. CallSound(m.from) /\ Outside(m.from)
  BY <1>1 DEF ServerInv, PeersSound
<1>3. link[m.from] = "open"
  <2>1. link[m.from] \in {"open", "gone"}
    BY <1>1 DEF ServerInv, FdsSound
  <2>2. link[m.from] \in {"backlog", "open", "closed"}
    BY <1>1, <1>2 DEF CallSound
  <2> QED BY <2>1, <2>2
<1>4. \A f \in Fds : owner[f] = m.from => f = m.dest
  BY <1>1 DEF ServerInv, FdsSound
<1>5. \A j \in Slots \ {i} : m.dest \notin slist[j].client
  <2>1. CASE m.type = "SESSION"
    <3>1. hd[m.from].state = "idle" /\ hd[m.from].asked = "SESSION"
      BY <1>1, <1>2, <2>1 DEF CallSound
    <3>2. \A j \in Slots : \A f \in slist[j].client : owner[f] # m.from
      BY <1>2, <3>1 DEF Outside
    <3> QED BY <1>1, <3>2
  <2>2. CASE m.type # "SESSION"
    <3>1. m.dest \in slist[i].client
      BY <2>2 DEF Token
    <3>2. \A j \in Slots : i # j => slist[i].client \cap slist[j].client = {}
      BY DEF ServerInv, SlotsSound
    <3> QED BY <3>1, <3>2
  <2> QED BY <2>1, <2>2
<1> QED
  BY <1>1, <1>3, <1>4, <1>5

LEMMA UniqueKept ==
  ASSUME ServerInv, proc' = proc,
         \A i \in Slots : Open(i)' => Open(i) /\ slist'[i].fd = slist[i].fd
  PROVE  TokensUnique'
<1>1. \A i \in Slots : Open(i) => LineOf(proc, slist[i].fd) \in Seq(Message)
  BY LineTypes DEF ServerInv, SlotsSound, TypeOK
<1>2. \A i \in Slots : Open(i)' =>
        /\ Open(i) /\ slist'[i].fd = slist[i].fd
        /\ LeftOf(LineOf(proc', slist[i].fd), LineOf(proc, slist[i].fd))
  BY <1>1, LeftOfItself
<1> QED
  BY <1>2, UniqueLeft DEF ServerInv, LinesSound

(* A descriptor whose peer has a request to read, or waits for nothing, is *)
(* none that a call under way names.                                       *)
LEMMA NotAwaited ==
  ASSUME ServerInv, NEW f \in Fds,
         \/ f \notin client_fds
         \/ c2s[owner[f]] # NoReq
         \/ hd[owner[f]].asked = "NONE"
  PROVE  \A i \in Slots : \A m : Open(i) /\ Token(i, m) => m.dest # f
<1> SUFFICES ASSUME NEW i \in Slots, NEW m, Open(i), Token(i, m), m.dest = f
             PROVE  FALSE
  OBVIOUS
<1>1. hd[m.from].asked # "NONE"
  BY TokenFacts
<1>2. f \in client_fds /\ owner[f] = m.from /\ c2s[owner[f]] = NoReq
  BY DEF Token
<1> QED
  BY <1>1, <1>2

-----------------------------------------------------------------------------
(* The connections at the descriptors in X and the sessions in the slots   *)
(* in K are closed, and the descriptors in W are not watched any more.     *)
Closes(X, W, K) ==
  /\ owner' = [f \in Fds |-> IF f \in X THEN Free ELSE owner[f]]
  /\ link' = [p \in Peers |-> IF \E f \in X : owner[f] = p
                                THEN IF link[p] = "gone" THEN "over" ELSE "closed" ELSE link[p]]
  /\ listen_fds' = listen_fds \ (X \cup W)
  /\ unk_fds' = unk_fds \ X /\ client_fds' = client_fds \ X /\ http_fds' = http_fds \ X
  /\ slist' = [i \in Slots |-> [name |-> IF i \in K THEN NoName ELSE slist[i].name,
                                fd |-> slist[i].fd, client |-> slist[i].client \ X]]

(* The request of client c was read, and answered with FAIL or not at all, *)
(* and its connection is among those that are closed.                      *)
Refused(c, X) ==
  /\ \E f \in X : owner[f] = c
  /\ c2s[c] # NoReq /\ c2s'[c] = NoReq
  /\ \/ s2c'[c] = s2c[c]
     \/ \E m \in Message : /\ s2c'[c] = Append(s2c[c], m)
                           /\ m.type = hd[c].asked /\ m.from = c /\ m.status = "FAIL"

(* What a handler that closes may do to the requests and replies.          *)
ClosingCalls(X) ==
  /\ c2s' \in [Peers -> Requests] /\ s2c' \in [Peers -> Seq(Message)]
  /\ \A c \in Clients : (c2s'[c] = c2s[c] /\ s2c'[c] = s2c[c]) \/ Refused(c, X)
  /\ \A b \in Browsers : s2c'[b] = s2c[b]

(* The sets of a closing handler.                                          *)
Closable(X, W, K) ==
  /\ X \subseteq Fds /\ \A f \in X : owner[f] \in Peers
  /\ W \subseteq Fds /\ \A f \in W : owner[f] \notin Peers
  /\ K \subseteq Slots /\ \A i \in K : slist[i].client \subseteq X
  /\ \A i \in Slots \ K : \A m : Open(i) /\ Token(i, m) => m.dest \notin X

LEMMA ClosesPoints ==
  ASSUME TypeOK, NEW X, NEW W, NEW K, Closes(X, W, K)
  PROVE  /\ \A f \in Fds : owner'[f] = IF f \in X THEN Free ELSE owner[f]
         /\ \A p \in Peers : (\A f \in X : owner[f] # p) => link'[p] = link[p]
         /\ \A p \in Peers : (\E f \in X : owner[f] = p) =>
              link'[p] = IF link[p] = "gone" THEN "over" ELSE "closed"
         /\ \A i \in Slots : /\ slist'[i].fd = slist[i].fd
                             /\ slist'[i].client = slist[i].client \ X
                             /\ slist'[i].name = IF i \in K THEN NoName ELSE slist[i].name
                             /\ Open(i)' <=> i \notin K /\ Open(i)
BY DEF Closes, Open

LEMMA ClosesTypes ==
  ASSUME TypeOK, NEW X, NEW W, NEW K, Closes(X, W, K), ClosingCalls(X),
         phase' \in 1 .. 5, ready' \subseteq ready, UNCHANGED <<proc, hd>>
  PROVE  TypeOK'
<1>1. owner' \in [Fds -> Peers \cup {Session, Free}]
  BY DEF Closes, TypeOK, TablesTyped
<1>2. link' \in [Peers -> {"new", "backlog", "open", "closed", "gone", "over"}]
  BY DEF Closes, TypeOK, TablesTyped
<1>3. slist' \in [Slots -> [name : Names \cup {NoName}, fd : Fds \cup {NoFd}, client : SUBSET Fds]]
  <2>1. \A i \in Slots : /\ slist[i].name \in Names \cup {NoName}
                         /\ slist[i].fd \in Fds \cup {NoFd} /\ slist[i].client \ X \in SUBSET Fds
    BY TableTypes
  <2> QED BY <2>1 DEF Closes
<1>4. /\ listen_fds' \subseteq Fds
      /\ unk_fds' \subseteq Fds /\ client_fds' \subseteq Fds /\ http_fds' \subseteq Fds
  BY TableTypes DEF Closes
<1>5. ready' \subseteq Fds \cup {Listener}
  BY DEF TypeOK, TablesTyped
<1> QED
  BY <1>1, <1>2, <1>3, <1>4, <1>5 DEF TypeOK, TablesTyped, ClosingCalls

LEMMA ClosesTables ==
  ASSUME TypeOK, FdsSound, SlotsSound,
         NEW X, NEW W, NEW K, Closes(X, W, K), Closable(X, W, K)
  PROVE  FdsSound' /\ SlotsSound'
<1>1. /\ \A f \in Fds : owner'[f] = IF f \in X THEN Free ELSE owner[f]
      /\ \A p \in Peers : (\A f \in X : owner[f] # p) => link'[p] = link[p]
      /\ \A i \in Slots : /\ slist'[i].fd = slist[i].fd
                          /\ slist'[i].client = slist[i].client \ X
                          /\ slist'[i].name = IF i \in K THEN NoName ELSE slist[i].name
                          /\ Open(i)' <=> i \notin K /\ Open(i)
  BY ClosesPoints
<1>2. \A f \in Fds : owner'[f] \in Peers => f \notin X /\ owner'[f] = owner[f]
  BY <1>1, Constants
<1>3. \A f \in Fds : owner'[f] \in Peers => link'[owner'[f]] \in {"open", "gone"} /\ f \in listen_fds'
  <2> SUFFICES ASSUME NEW f \in Fds, owner'[f] \in Peers
               PROVE  link'[owner'[f]] \in {"open", "gone"} /\ f \in listen_fds'
    OBVIOUS
  <2>1. f \notin X /\ owner'[f] = owner[f] /\ owner[f] \in Peers
    BY <1>2
  <2>2. link[owner[f]] \in {"open", "gone"} /\ f \in listen_fds
    BY <2>1 DEF FdsSound
  <2>3. \A g \in X : owner[g] # owner[f]
    BY <2>1 DEF FdsSound, Closable
  <2>4. f \notin W
    BY <2>1 DEF Closable
  <2> QED BY <1>1, <2>1, <2>2, <2>3, <2>4 DEF Closes
<1>4. \A f, g \in Fds : owner'[f] \in Peers /\ owner'[f] = owner'[g] => f = g
  BY <1>2 DEF FdsSound
<1>5. unk_fds' \cup client_fds' \cup http_fds' = {f \in Fds : owner'[f] \in Peers}
  <2>1. {f \in Fds : owner'[f] \in Peers} = {f \in Fds : owner[f] \in Peers} \ X
    BY <1>1, <1>2
  <2> QED BY <2>1 DEF FdsSound, Closes
<1>6. /\ unk_fds' \cap client_fds' = {} /\ unk_fds' \cap http_fds' = {}
      /\ client_fds' \cap http_fds' = {}
      /\ \A f \in client_fds' : owner'[f] \in Clients
      /\ \A f \in http_fds' : owner'[f] \in Browsers
  BY <1>1, TableTypes DEF FdsSound, Closes
<1>7. FdsSound'
  BY <1>3, <1>4, <1>5, <1>6 DEF FdsSound
<1>8. \A i \in Slots : Open(i)' => slist'[i].fd \in Fds /\ owner'[slist'[i].fd] = Session
  <2> SUFFICES ASSUME NEW i \in Slots, Open(i)'
               PROVE  slist'[i].fd \in Fds /\ owner'[slist'[i].fd] = Session
    OBVIOUS
  <2>1. Open(i) /\ slist'[i].fd = slist[i].fd
    BY <1>1
  <2>2. slist[i].fd \in Fds /\ owner[slist[i].fd] = Session
    BY <2>1 DEF SlotsSound
  <2>3. slist[i].fd \notin X
    BY <2>2, Constants DEF Closable
  <2> QED BY <1>1, <2>1, <2>2, <2>3
<1>9. \A i \in Slots : ~Open(i)' => slist'[i].client = {}
  BY <1>1 DEF SlotsSound, Closable
<1>10. \A i \in Slots : slist'[i].client \subseteq client_fds'
  BY <1>1 DEF SlotsSound, Closes
<1>11. \A i, j \in Slots : Open(i)' /\ Open(j)' /\ i # j =>
         slist'[i].fd # slist'[j].fd /\ slist'[i].name # slist'[j].name
  BY <1>1 DEF SlotsSound
<1>12. \A i, j \in Slots : i # j => slist'[i].client \cap slist'[j].client = {}
  BY <1>1 DEF SlotsSound
<1>13. SlotsSound'
  BY <1>8, <1>9, <1>10, <1>11, <1>12 DEF SlotsSound
<1> QED
  BY <1>7, <1>13

LEMMA ClosesPeers ==
  ASSUME ServerInv, NEW X, NEW W, NEW K, Closes(X, W, K), Closable(X, W, K), ClosingCalls(X),
         ready' \subseteq ready, UNCHANGED hd
  PROVE  PeersSound'
<1>1. /\ \A f \in Fds : owner'[f] = IF f \in X THEN Free ELSE owner[f]
      /\ \A p \in Peers : (\A f \in X : owner[f] # p) => link'[p] = link[p]
      /\ \A p \in Peers : (\E f \in X : owner[f] = p) =>
           link'[p] = IF link[p] = "gone" THEN "over" ELSE "closed"
      /\ \A i \in Slots : /\ slist'[i].fd = slist[i].fd
                          /\ slist'[i].client = slist[i].client \ X
                          /\ Open(i)' <=> i \notin K /\ Open(i)
  BY ClosesPoints DEF ServerInv
<1>2. \A c \in Clients : \A i, g : Member(c, i, g) => Member(c, i, g)'
  <2> SUFFICES ASSUME NEW c \in Clients, NEW i \in Slots, NEW g, Member(c, i, g),
                      NEW f \in Fds, owner'[f] = c
               PROVE  Open(i)' /\ slist'[i].fd = g /\ f \in slist'[i].client
    BY DEF Member
  <2>1. f \notin X /\ owner[f] = c
    BY <1>1, Constants
  <2>2. Open(i) /\ slist[i].fd = g /\ f \in slist[i].client
    BY <2>1 DEF Member
  <2>3. i \notin K
    BY <2>1, <2>2 DEF Closable
  <2> QED BY <1>1, <2>1, <2>2, <2>3
<1>3. ASSUME NEW c \in Clients
      PROVE  CallSound(c)' /\ Outside(c)' /\ ReplySound(c)'
  <2>1. CallSound(c) /\ Outside(c) /\ ReplySound(c) /\ c \in Peers
    BY Constants DEF ServerInv, PeersSound
  <2>2. \/ link'[c] = link[c]
        \/ link'[c] = "over" /\ link[c] = "gone"
        \/ link'[c] = "closed" /\ link[c] # "gone"
    BY <1>1, <2>1
  <2>3. \A i \in Slots : \A f \in slist'[i].client :
          f \in slist[i].client /\ (owner[f] # c => owner'[f] # c)
    <3>1. \A i \in Slots : \A f \in slist[i].client : f \in Fds
      BY TableTypes DEF ServerInv
    <3> QED BY <1>1, <3>1, <2>1, Constants
  <2>4. CASE c2s'[c] = c2s[c] /\ s2c'[c] = s2c[c]
    <3>1. CallSound(c)'
      BY <1>2, <2>1, <2>2, <2>4 DEF CallSound
    <3>2. Outside(c)'
      BY <2>1, <2>3, <2>4 DEF Outside
    <3>3. ReplySound(c)'
      BY <1>2, <2>1, <2>4 DEF ReplySound
    <3> QED BY <3>1, <3>2, <3>3
  <2>5. CASE Refused(c, X)
    <3>1. c2s[c] # NoReq /\ c2s'[c] = NoReq /\ hd[c].asked # "NONE" /\ hd'[c] = hd[c]
      BY <2>1, <2>5 DEF Refused, CallSound
    <3>2. s2c[c] = <<>>
      BY <2>1, <3>1 DEF ReplySound
    <3>3. link'[c] = "closed"
      <4>1. link[c] # "gone"
        BY <2>1, <3>1 DEF CallSound
      <4> QED BY <1>1, <2>1, <2>5, <4>1 DEF Refused
    <3>4. CallSound(c)'
      BY <1>2, <2>1, <3>1, <3>3 DEF CallSound
    <3>5. Outside(c)'
      BY <2>1, <2>3, <3>1 DEF Outside
    <3>6. ReplySound(c)'
      <4>1. CASE s2c'[c] = s2c[c]
        BY <3>2, <4>1 DEF ReplySound
      <4>2. CASE \E m \in Message : /\ s2c'[c] = Append(s2c[c], m)
                                    /\ m.type = hd[c].asked /\ m.from = c /\ m.status = "FAIL"
        <5>1. PICK m \in Message : /\ s2c'[c] = <<m>> /\ m.type = hd[c].asked
                                   /\ m.from = c /\ m.status = "FAIL"
          BY <3>2, <4>2
        <5>2. Len(s2c'[c]) = 1 /\ s2c'[c][1] = m
          BY <5>1
        <5> QED BY <3>1, <5>1, <5>2 DEF ReplySound
      <4> QED BY <2>5, <4>1, <4>2 DEF Refused
    <3> QED BY <3>4, <3>5, <3>6
  <2> QED BY <2>4, <2>5 DEF ClosingCalls
<1>4. \A b \in Browsers : hd'[b].asked = "NONE" /\ s2c'[b] = <<>>
  BY DEF ClosingCalls, ServerInv, PeersSound
<1>5. ReadySound'
  <2> SUFFICES ASSUME NEW f \in ready' \cap client_fds'
               PROVE  c2s'[owner'[f]] # NoReq \/ link'[owner'[f]] = "gone"
    BY DEF ReadySound
  <2>1. f \in client_fds /\ f \in ready /\ f \notin X /\ f \in Fds
    BY TableTypes DEF Closes, ServerInv
  <2>2. owner'[f] = owner[f] /\ owner[f] \in Clients /\ owner[f] \in Peers
    BY <1>1, <2>1, Constants DEF ServerInv, FdsSound
  <2>3. \A g \in X : owner[g] # owner[f]
    BY <2>1, <2>2 DEF ServerInv, FdsSound, Closable
  <2>4. link'[owner[f]] = link[owner[f]] /\ c2s'[owner[f]] = c2s[owner[f]]
    <3>1. ~Refused(owner[f], X)
      BY <2>3 DEF Refused
    <3> QED BY <1>1, <2>2, <2>3, <3>1 DEF ClosingCalls
  <2>5. c2s[owner[f]] # NoReq \/ link[owner[f]] = "gone"
    BY <2>1 DEF ServerInv, PeersSound, ReadySound
  <2> QED BY <2>2, <2>4, <2>5
<1> QED
  BY <1>3, <1>4, <1>5 DEF PeersSound

LEMMA ClosesLines ==
  ASSUME ServerInv, NEW X, NEW W, NEW K, Closes(X, W, K), Closable(X, W, K), ClosingCalls(X),
         UNCHANGED <<proc, hd>>
  PROVE  LinesSound'
<1>1. /\ \A f \in Fds : owner'[f] = IF f \in X THEN Free ELSE owner[f]
      /\ \A i \in Slots : /\ slist'[i].fd = slist[i].fd
                          /\ slist'[i].client = slist[i].client \ X
                          /\ Open(i)' <=> i \notin K /\ Open(i)
  BY ClosesPoints DEF ServerInv
<1>2. \A i \in Slots : \A m : Open(i)' /\ Token(i, m) => Token(i, m)'
  <2> SUFFICES ASSUME NEW i \in Slots, NEW m, Open(i)', Token(i, m)
               PROVE  Token(i, m)'
    OBVIOUS
  <2>1. i \notin K /\ Open(i) /\ m.dest \notin X
    BY <1>1 DEF Closable
  <2>2. m.from \in Clients /\ m.dest \in Fds /\ \A f \in Fds : owner[f] = m.from => f = m.dest
    BY <2>1, TokenFacts
  <2>3. \A f \in X : owner[f] # m.from
    BY <2>1, <2>2 DEF Closable
  <2>4. c2s'[m.from] = c2s[m.from] /\ s2c'[m.from] = s2c[m.from]
    <3>1. ~Refused(m.from, X)
      BY <2>3 DEF Refused
    <3> QED BY <2>2, <3>1 DEF ClosingCalls
  <2>5. owner'[m.dest] = owner[m.dest] /\ (m.dest \in client_fds => m.dest \in client_fds')
    BY <1>1, <2>1, <2>2 DEF Closes
  <2> QED BY <1>1, <2>1, <2>4, <2>5 DEF Token
<1>3. TokensSound'
  BY <1>1, <1>2 DEF TokensSound, ServerInv, LinesSound, Line
<1>4. TokensUnique'
  BY <1>1, UniqueKept
<1> QED
  BY <1>3, <1>4 DEF LinesSound

-----------------------------------------------------------------------------
LEMMA CountSets ==
  /\ IsFiniteSet(SessionFds) /\ Cardinality(SessionFds) \in Nat
  /\ IsFiniteSet(Launchers) /\ Cardinality(Launchers) \in Nat
  /\ Cardinality(Clients) \in Nat /\ Cardinality(Browsers) \in Nat
  /\ IsFiniteSet(Fds) /\ Cardinality(Fds) = MaxFd
<1>1. IsFiniteSet(Fds) /\ Cardinality(Fds) = MaxFd
  BY ServerAssumption, FS_Interval DEF Fds
<1>2. SessionFds \in SUBSET Fds
  BY DEF SessionFds
<1>3. IsFiniteSet(Clients) /\ IsFiniteSet(Browsers)
  BY ServerAssumption
<1>4. Launchers \in SUBSET Clients
  BY DEF Launchers
<1>5. IsFiniteSet(SessionFds) /\ Cardinality(SessionFds) \in Nat
  BY <1>1, <1>2, FS_Subset, FS_CardinalityType
<1>6. IsFiniteSet(Launchers) /\ Cardinality(Launchers) \in Nat
  BY <1>3, <1>4, FS_Subset, FS_CardinalityType
<1>7. Cardinality(Clients) \in Nat /\ Cardinality(Browsers) \in Nat
  BY <1>3, FS_CardinalityType
<1> QED
  BY <1>1, <1>5, <1>6, <1>7

LEMMA CountKept ==
  ASSUME FdsEnough, NEW A, NEW B, A = SessionFds, B \in SUBSET Launchers
  PROVE  Cardinality(A) + Cardinality(B) <= Cardinality(Clients)
<1>1. /\ IsFiniteSet(Launchers) /\ Cardinality(Launchers) \in Nat
      /\ Cardinality(SessionFds) \in Nat /\ Cardinality(Clients) \in Nat
  BY CountSets
<1>2. IsFiniteSet(B) /\ Cardinality(B) <= Cardinality(Launchers)
  BY <1>1, FS_Subset
<1>3. Cardinality(B) \in Nat
  BY <1>2, FS_CardinalityType
<1> QED
  BY <1>1, <1>2, <1>3 DEF FdsEnough

LEMMA Closing ==
  ASSUME ServerInv, NEW X, NEW W, NEW K, Closes(X, W, K), Closable(X, W, K), ClosingCalls(X),
         phase' \in 1 .. 5, ready' \subseteq ready, UNCHANGED <<proc, hd>>
  PROVE  ServerInv'
<1>1. TypeOK'
  BY ClosesTypes DEF ServerInv
<1>2. FdsSound' /\ SlotsSound'
  BY ClosesTables DEF ServerInv
<1>3. PeersSound'
  BY ClosesPeers
<1>4. LinesSound'
  BY ClosesLines
<1>5. Signed'
  BY DEF ServerInv, Signed
<1>6. FdsEnough'
  <2>1. SessionFds' = SessionFds
    <3>1. \A f \in X : owner[f] # Session
      BY Constants DEF Closable
    <3>2. \A f \in Fds : owner'[f] = IF f \in X THEN Free ELSE owner[f]
      BY ClosesPoints DEF ServerInv
    <3>3. \A f \in Fds : owner'[f] = Session <=> owner[f] = Session
      BY <3>1, <3>2, Constants
    <3> QED BY <3>3 DEF SessionFds
  <2>2. Launchers' \in SUBSET Launchers
    <3>1. \A c \in Clients : c2s'[c] = c2s[c] \/ c2s'[c] = NoReq
      BY DEF ClosingCalls, Refused
    <3>2. NoReq.type # "SESSION"
      BY DEF NoReq
    <3> QED BY <3>1, <3>2 DEF Launchers
  <2> QED BY <2>1, <2>2, CountKept DEF ServerInv, FdsEnough
<1> QED
  BY <1>1, <1>2, <1>3, <1>4, <1>5, <1>6 DEF ServerInv

(* Connections that are not clients' are on no list.                       *)
LEMMA UnlistedCloses ==
  ASSUME ServerInv, NEW f \in unk_fds \cup http_fds, Shut({f}, {}),
         unk_fds' = unk_fds \ {f}, http_fds' = http_fds \ {f}, UNCHANGED <<client_fds, slist>>
  PROVE  Closes({f}, {}, {}) /\ Closable({f}, {}, {})
<1>1. f \in Fds /\ f \notin client_fds /\ owner[f] \in Peers
  BY TableTypes DEF ServerInv, FdsSound
<1>2. slist' = [i \in Slots |-> [name |-> slist[i].name, fd |-> slist[i].fd,
                                 client |-> slist[i].client \ {f}]]
  <2>1. \A i \in Slots : slist[i] = [name |-> slist[i].name, fd |-> slist[i].fd,
                                     client |-> slist[i].client \ {f}]
    <3>1. \A i \in Slots : slist[i].client \ {f} = slist[i].client
      BY <1>1 DEF ServerInv, SlotsSound
    <3> QED BY <3>1, TableTypes DEF ServerInv
  <2>2. slist = [i \in Slots |-> slist[i]]
    BY DEF ServerInv, TypeOK, TablesTyped
  <2> QED BY <2>1, <2>2
<1>3. client_fds' = client_fds \ {f} /\ listen_fds' = listen_fds \ ({f} \cup {})
  BY <1>1 DEF Shut
<1>4. /\ owner' = [g \in Fds |-> IF g \in {f} THEN Free ELSE owner[g]]
      /\ link' = [p \in Peers |-> IF \E g \in {f} : owner[g] = p
                                    THEN IF link[p] = "gone" THEN "over" ELSE "closed"
                                    ELSE link[p]]
  BY DEF Shut
<1>5. Closes({f}, {}, {})
  BY <1>2, <1>3, <1>4 DEF Closes
<1>6. \A i \in Slots \ {} : \A m : Open(i) /\ Token(i, m) => m.dest \notin {f}
  BY <1>1, NotAwaited
<1> QED
  BY <1>1, <1>5, <1>6 DEF Closable

LEMMA WithoutIs ==
  ASSUME NEW r, r = [name |-> r.name, fd |-> r.fd, client |-> r.client], NEW X
  PROVE  [r EXCEPT !.client = @ \ X] = [name |-> r.name, fd |-> r.fd, client |-> r.client \ X]
<1>1. \A n, d, c, e : [[name |-> n, fd |-> d, client |-> c] EXCEPT !.client = e]
                       = [name |-> n, fd |-> d, client |-> e]
  OBVIOUS
<1>2. [r EXCEPT !.client = @ \ X]
        = [[name |-> r.name, fd |-> r.fd, client |-> r.client] EXCEPT !.client = r.client \ X]
  OBVIOUS
<1> QED
  BY <1>1, <1>2

LEMMA ClientCloses ==
  ASSUME ServerInv, NEW f \in client_fds, client_close({f}), UNCHANGED <<unk_fds, http_fds>>,
         c2s[owner[f]] # NoReq \/ hd[owner[f]].asked = "NONE"
  PROVE  Closes({f}, {}, {}) /\ Closable({f}, {}, {})
<1>1. f \in Fds /\ f \notin unk_fds /\ f \notin http_fds /\ owner[f] \in Peers
  BY TableTypes DEF ServerInv, FdsSound
<1>2. slist' = [i \in Slots |-> [name |-> slist[i].name, fd |-> slist[i].fd,
                                 client |-> slist[i].client \ {f}]]
  <2>1. \A i \in Slots : [slist[i] EXCEPT !.client = @ \ {f}] =
                           [name |-> slist[i].name, fd |-> slist[i].fd,
                            client |-> slist[i].client \ {f}]
    <3>1. \A i \in Slots : slist[i] = [name |-> slist[i].name, fd |-> slist[i].fd,
                                       client |-> slist[i].client]
      BY TableTypes DEF ServerInv
    <3> QED BY <3>1, WithoutIs
  <2> QED BY <2>1 DEF client_close, Without
<1>3. /\ unk_fds' = unk_fds \ {f} /\ http_fds' = http_fds \ {f}
      /\ client_fds' = client_fds \ {f} /\ listen_fds' = listen_fds \ ({f} \cup {})
  BY <1>1 DEF client_close, Shut
<1>4. /\ owner' = [g \in Fds |-> IF g \in {f} THEN Free ELSE owner[g]]
      /\ link' = [p \in Peers |-> IF \E g \in {f} : owner[g] = p
                                    THEN IF link[p] = "gone" THEN "over" ELSE "closed"
                                    ELSE link[p]]
  BY DEF client_close, Shut
<1>5. Closes({f}, {}, {})
  BY <1>2, <1>3, <1>4 DEF Closes
<1>6. \A i \in Slots \ {} : \A m : Open(i) /\ Token(i, m) => m.dest \notin {f}
  BY <1>1, NotAwaited
<1> QED
  BY <1>1, <1>5, <1>6 DEF Closable

(* A session is closed with its clients, and with client f that asked.     *)
LEMMA SessionCloses ==
  ASSUME ServerInv, NEW i \in Slots, Open(i), NEW F \in SUBSET client_fds,
         \A f \in F : c2s[owner[f]] # NoReq,
         NEW G \in SUBSET {slist[i].fd}, session_close(i, F, G), UNCHANGED <<unk_fds, http_fds>>
  PROVE  \E X, W, K : /\ Closes(X, W, K) /\ Closable(X, W, K)
                      /\ X = slist[i].client \cup F
<1> DEFINE X == slist[i].client \cup F
<1>1. /\ X \subseteq client_fds /\ X \subseteq Fds /\ \A f \in X : owner[f] \in Peers
      /\ X \cap unk_fds = {} /\ X \cap http_fds = {}
  <2>1. X \subseteq client_fds /\ client_fds \subseteq Fds
    BY TableTypes DEF ServerInv, SlotsSound
  <2> HIDE DEF X
  <2> QED BY <2>1 DEF ServerInv, FdsSound
<1>2. /\ slist[i].fd \in Fds /\ owner[slist[i].fd] = Session
      /\ G \subseteq Fds /\ \A f \in G : owner[f] \notin Peers
  BY Constants DEF ServerInv, SlotsSound
<1>3. /\ Shut(X, G) /\ client_fds' = client_fds \ X
      /\ slist' = Without([slist EXCEPT ![i].name = NoName], X)
  BY DEF session_close
<1>4. \A j \in Slots : j # i => \A m : Open(j) /\ Token(j, m) => m.dest \notin X
  <2> SUFFICES ASSUME NEW j \in Slots, j # i, NEW m, Open(j), Token(j, m)
               PROVE  m.dest \notin slist[i].client /\ m.dest \notin F
    OBVIOUS
  <2>1. m.dest \notin slist[i].client
    BY TokenFacts
  <2>2. \A f \in F : f \in Fds
    BY <1>1
  <2>3. m.dest \notin F
    BY <2>2, NotAwaited
  <2> QED BY <2>1, <2>3
<1>5. slist[i].client \subseteq X
  OBVIOUS
<1> HIDE DEF X
<1>6. slist' = [j \in Slots |-> [name |-> IF j \in {i} THEN NoName ELSE slist[j].name,
                                 fd |-> slist[j].fd, client |-> slist[j].client \ X]]
  <2>1. \A j \in Slots : [[slist EXCEPT ![i].name = NoName][j] EXCEPT !.client = @ \ X] =
                           [name |-> IF j \in {i} THEN NoName ELSE slist[j].name,
                            fd |-> slist[j].fd, client |-> slist[j].client \ X]
    <3> SUFFICES ASSUME NEW j \in Slots
                 PROVE  [[slist EXCEPT ![i].name = NoName][j] EXCEPT !.client = @ \ X] =
                           [name |-> IF j \in {i} THEN NoName ELSE slist[j].name,
                            fd |-> slist[j].fd, client |-> slist[j].client \ X]
      OBVIOUS
    <3>1. /\ slist[j] = [name |-> slist[j].name, fd |-> slist[j].fd, client |-> slist[j].client]
          /\ DOMAIN slist = Slots
      BY TableTypes DEF ServerInv, TypeOK, TablesTyped
    <3>2. [slist EXCEPT ![i].name = NoName][j] =
            [name |-> IF j \in {i} THEN NoName ELSE slist[j].name, fd |-> slist[j].fd,
             client |-> slist[j].client]
      BY <3>1
    <3> QED BY <3>2
  <2> QED BY <1>3, <2>1 DEF Without
<1>7. /\ unk_fds' = unk_fds \ X /\ http_fds' = http_fds \ X /\ client_fds' = client_fds \ X
  BY <1>1, <1>3
<1>8. Closes(X, G, {i})
  BY <1>3, <1>6, <1>7 DEF Closes, Shut
<1>9. Closable(X, G, {i})
  BY <1>1, <1>2, <1>4, <1>5 DEF Closable
<1> QED
  BY <1>8, <1>9 DEF X

-----------------------------------------------------------------------------
(* The handlers that close.                                                *)
LEMMA Unchanged_ClosingCalls ==
  ASSUME TypeOK, UNCHANGED <<c2s, s2c>>, NEW X
  PROVE  ClosingCalls(X)
BY DEF TypeOK, ClosingCalls

LEMMA ReachType ==
  ASSUME NEW name, Reach(name)
  PROVE  phase' \in 1 .. 5
BY DEF Reach

LEMMA SessionSocketCloses ==
  ASSUME ServerInv, NEW i \in Slots, handle_session_socket(i), proc[slist[i].fd].out = <<>>
  PROVE  ServerInv'
<1>1. /\ Open(i) /\ session_close(i, {}, {slist[i].fd})
      /\ UNCHANGED <<unk_fds, http_fds, c2s, hd, s2c, proc>>
      /\ ready' \subseteq ready
  BY DEF handle_session_socket, Handled
<1>2. phase' \in 1 .. 5
  BY ReachType DEF handle_session_socket
<1>3. PICK X, W, K : Closes(X, W, K) /\ Closable(X, W, K)
  BY <1>1, SessionCloses
<1>4. ClosingCalls(X)
  BY <1>1, Unchanged_ClosingCalls DEF ServerInv
<1> QED
  BY <1>1, <1>2, <1>3, <1>4, Closing

LEMMA UnknownConnectionCloses ==
  ASSUME ServerInv, NEW f \in unk_fds, Shut({f}, {}), unk_fds' = unk_fds \ {f},
         phase' \in 1 .. 5, UNCHANGED <<ready, client_fds, http_fds, slist, c2s, s2c, proc, hd>>
  PROVE  ServerInv'
<1>1. http_fds' = http_fds \ {f}
  BY DEF ServerInv, FdsSound
<1>2. Closes({f}, {}, {}) /\ Closable({f}, {}, {})
  BY <1>1, UnlistedCloses
<1>3. ClosingCalls({f})
  BY Unchanged_ClosingCalls DEF ServerInv
<1> QED
  BY <1>2, <1>3, Closing

LEMMA RefuseIs ==
  ASSUME ServerInv, NEW f \in client_fds, c2s[owner[f]] # NoReq,
         c2s' = [c2s EXCEPT ![owner[f]] = NoReq],
         \/ s2c' = s2c
         \/ s2c' = [s2c EXCEPT ![owner[f]] = Append(@, [Request(f) EXCEPT !.status = "FAIL"])],
         NEW X, f \in X
  PROVE  ClosingCalls(X)
<1> DEFINE p == owner[f]
           m == [Request(f) EXCEPT !.status = "FAIL"]
<1>1. p \in Clients /\ p \in Peers /\ f \in Fds
  BY Constants, TableTypes DEF ServerInv, FdsSound
<1>2. hd[p] \in Handles /\ c2s[p].type = hd[p].asked /\ hd[p].asked \in Calls \cup {"NONE"}
  BY <1>1, HandleTypes DEF ServerInv, PeersSound, CallSound
<1>3. c2s[p].type \in Calls \cup {"kill", "pause"}
  BY <1>1, HandleTypes DEF ServerInv
<1>4. c2s[p].type \in Calls
  BY <1>2, <1>3 DEF Calls
<1>5. m \in Message /\ m.type = hd[p].asked /\ m.from = p /\ m.status = "FAIL"
  <2>1. m = [type |-> c2s[p].type, dest |-> f, status |-> "FAIL", from |-> p,
             session |-> hd[p].session]
    BY DEF Request
  <2>2. hd[p].session \in Fds \cup {NoFd}
    BY <1>2 DEF Handles
  <2>3. f \in Int
    BY <1>1, Constants
  <2> HIDE DEF m
  <2>4. m \in Message
    BY <1>1, <1>4, <2>1, <2>2, <2>3 DEF Message
  <2> QED BY <1>2, <2>1, <2>4
<1> HIDE DEF m
<1>6. c2s' \in [Peers -> Requests] /\ \A q \in Peers : c2s'[q] = IF q = p THEN NoReq ELSE c2s[q]
  BY <1>1 DEF ServerInv, TypeOK, Requests
<1>7. /\ s2c' \in [Peers -> Seq(Message)]
      /\ \A q \in Peers : q # p => s2c'[q] = s2c[q]
      /\ s2c'[p] = s2c[p] \/ s2c'[p] = Append(s2c[p], m)
  <2>1. s2c \in [Peers -> Seq(Message)] /\ s2c[p] \in Seq(Message)
    BY <1>1 DEF ServerInv, TypeOK
  <2>2. s2c' = s2c \/ s2c' = [s2c EXCEPT ![p] = Append(s2c[p], m)]
    BY <1>1, <2>1 DEF m
  <2>3. Append(s2c[p], m) \in Seq(Message)
    BY <1>5, <2>1
  <2> QED BY <1>1, <2>1, <2>2, <2>3
<1>8. Refused(p, X)
  <2>1. \E g \in X : owner[g] = p
    OBVIOUS
  <2>2. c2s[p] # NoReq /\ c2s'[p] = NoReq
    BY <1>1, <1>6
  <2> QED BY <1>5, <1>7, <2>1, <2>2 DEF Refused
<1>9. \A c \in Clients : (c2s'[c] = c2s[c] /\ s2c'[c] = s2c[c]) \/ Refused(c, X)
  <2> SUFFICES ASSUME NEW c \in Clients, c # p
               PROVE  c2s'[c] = c2s[c] /\ s2c'[c] = s2c[c]
    BY <1>8
  <2> QED BY <1>6, <1>7, Constants
<1>10. \A b \in Browsers : s2c'[b] = s2c[b]
  BY <1>1, <1>7, Constants
<1> QED
  BY <1>6, <1>7, <1>9, <1>10 DEF ClosingCalls

LEMMA ClientLeaves ==
  ASSUME ServerInv, NEW f \in client_fds \cap ready, c2s[owner[f]].type = "NONE",
         client_close({f}), c2s' = [c2s EXCEPT ![owner[f]] = NoReq],
         phase' \in 1 .. 5, ready' \subseteq ready,
         UNCHANGED <<s2c, proc, unk_fds, http_fds, hd>>
  PROVE  ServerInv'
<1>1. owner[f] \in Clients /\ owner[f] \in Peers
  BY Constants DEF ServerInv, FdsSound
<1>2. c2s[owner[f]] = NoReq
  BY <1>1, HandleTypes DEF ServerInv
<1>3. c2s' = c2s
  BY <1>2 DEF ServerInv, TypeOK
<1>4. link[owner[f]] = "gone"
  BY <1>2 DEF ServerInv, PeersSound, ReadySound
<1>5. hd[owner[f]].asked = "NONE"
  BY <1>1, <1>4 DEF ServerInv, PeersSound, CallSound
<1>6. Closes({f}, {}, {}) /\ Closable({f}, {}, {})
  BY <1>5, ClientCloses
<1>7. ClosingCalls({f})
  BY <1>3, Unchanged_ClosingCalls DEF ServerInv
<1> QED
  BY <1>6, <1>7, Closing

LEMMA ClientRefused ==
  ASSUME ServerInv, NEW f \in client_fds, c2s[owner[f]] # NoReq,
         Refuse(f), c2s' = [c2s EXCEPT ![owner[f]] = NoReq],
         phase' \in 1 .. 5, ready' \subseteq ready, UNCHANGED <<unk_fds, http_fds, hd>>
  PROVE  ServerInv'
<1>1. Closes({f}, {}, {}) /\ Closable({f}, {}, {})
  BY ClientCloses DEF Refuse
<1>2. ClosingCalls({f})
  BY RefuseIs DEF Refuse
<1> QED
  BY <1>1, <1>2, Closing DEF Refuse

LEMMA ClientFindsNoProcess ==
  ASSUME ServerInv, NEW f \in client_fds, c2s[owner[f]] # NoReq,
         NEW i \in Slots, Open(i), session_close(i, {f}, {slist[i].fd}),
         c2s' = [c2s EXCEPT ![owner[f]] = NoReq],
         phase' \in 1 .. 5, ready' \subseteq ready, UNCHANGED <<s2c, proc, unk_fds, http_fds, hd>>
  PROVE  ServerInv'
<1>1. PICK X, W, K : /\ Closes(X, W, K) /\ Closable(X, W, K)
                     /\ X = slist[i].client \cup {f}
  BY SessionCloses
<1>2. ClosingCalls(X)
  BY <1>1, RefuseIs
<1> QED
  BY <1>1, <1>2, Closing

(* The page of a browser was read: no client is concerned.                 *)
LEMMA PageRead ==
  ASSUME ServerInv, NEW f \in http_fds, c2s' = [c2s EXCEPT ![owner[f]] = NoReq],
         UNCHANGED s2c, NEW X
  PROVE  ClosingCalls(X)
<1>1. owner[f] \in Browsers /\ owner[f] \in Peers /\ owner[f] \notin Clients
  BY Constants DEF ServerInv, FdsSound
<1>2. c2s' \in [Peers -> Requests] /\ \A q \in Peers : q # owner[f] => c2s'[q] = c2s[q]
  BY <1>1 DEF ServerInv, TypeOK, Requests
<1>3. s2c' \in [Peers -> Seq(Message)]
  BY DEF ServerInv, TypeOK
<1> QED
  BY <1>1, <1>2, <1>3, Constants DEF ClosingCalls

LEMMA BrowserLeaves ==
  ASSUME ServerInv, NEW f \in http_fds, Shut({f}, {}), http_fds' = http_fds \ {f},
         c2s' = [c2s EXCEPT ![owner[f]] = NoReq], phase' \in 1 .. 5, ready' \subseteq ready,
         UNCHANGED <<client_fds, slist, proc, unk_fds, s2c, hd>>
  PROVE  ServerInv'
<1>1. unk_fds' = unk_fds \ {f}
  BY DEF ServerInv, FdsSound
<1>2. Closes({f}, {}, {}) /\ Closable({f}, {}, {})
  BY <1>1, UnlistedCloses
<1>3. ClosingCalls({f})
  BY PageRead
<1> QED
  BY <1>2, <1>3, Closing

LEMMA SessionKilled ==
  ASSUME ServerInv, NEW f \in http_fds, NEW i \in Slots, Open(i), session_close(i, {}, {}),
         c2s' = [c2s EXCEPT ![owner[f]] = NoReq], phase' \in 1 .. 5, ready' \subseteq ready,
         UNCHANGED <<http_fds, proc, unk_fds, s2c, hd>>
  PROVE  ServerInv'
<1>1. PICK X, W, K : Closes(X, W, K) /\ Closable(X, W, K)
  BY SessionCloses
<1>2. ClosingCalls(X)
  BY PageRead
<1> QED
  BY <1>1, <1>2, Closing

(* Nothing is closed when a page concerns no session.                      *)
LEMMA NothingCloses ==
  ASSUME TypeOK, UNCHANGED <<owner, link, listen_fds, unk_fds, client_fds, http_fds, slist>>
  PROVE  Closes({}, {}, {}) /\ Closable({}, {}, {})
<1>1. slist' = [i \in Slots |-> [name |-> slist[i].name, fd |-> slist[i].fd,
                                 client |-> slist[i].client]]
  <2>1. slist = [i \in Slots |-> slist[i]]
    BY DEF TypeOK, TablesTyped
  <2> QED BY <2>1, TableTypes
<1>2. owner' = [f \in Fds |-> owner[f]] /\ link' = [p \in Peers |-> link[p]]
  BY DEF TypeOK, TablesTyped
<1>3. \A i \in Slots : slist[i].client \ {} = slist[i].client
  OBVIOUS
<1> QED
  BY <1>1, <1>2, <1>3 DEF Closes, Closable

LEMMA PageIgnored ==
  ASSUME ServerInv, NEW f \in http_fds,
         c2s' = [c2s EXCEPT ![owner[f]] = NoReq], phase' \in 1 .. 5, ready' \subseteq ready,
         UNCHANGED <<owner, link, listen_fds, unk_fds, client_fds, http_fds, slist, proc, s2c, hd>>
  PROVE  ServerInv'
<1>1. Closes({}, {}, {}) /\ Closable({}, {}, {})
  BY NothingCloses DEF ServerInv
<1>2. ClosingCalls({})
  BY PageRead
<1> QED
  BY <1>1, <1>2, Closing

-----------------------------------------------------------------------------
(* A step of one peer, which no call under way can be of unless the step   *)
(* is about the connection only.                                           *)
OtherPeers(p) ==
  \A q \in Peers : q # p => /\ link'[q] = link[q] /\ c2s'[q] = c2s[q]
                            /\ s2c'[q] = s2c[q] /\ hd'[q] = hd[q]

LEMMA PeerKept ==
  ASSUME ServerInv, NEW p \in Peers, UNCHANGED <<loop, tables, proc>>, TypeOK', OtherPeers(p),
         link[p] \in {"open", "gone"} => link'[p] \in {"open", "gone"},
         c2s[p] # NoReq => c2s'[p] # NoReq \/ link[p] = "closed",
         link[p] = "gone" => link'[p] = "gone",
         \/ c2s'[p] = c2s[p] /\ s2c'[p] = s2c[p] /\ hd'[p] = hd[p]
         \/ \A i \in Slots : \A m : Open(i) /\ Token(i, m) => m.from # p,
         p \in Clients => CallSound(p)' /\ Outside(p)' /\ ReplySound(p)',
         p \in Browsers => hd'[p].asked = "NONE" /\ s2c'[p] = <<>>,
         p \in Launchers' => p \in Launchers
  PROVE  ServerInv'
<1>1. /\ slist' = slist /\ owner' = owner /\ ready' = ready /\ client_fds' = client_fds
      /\ unk_fds' = unk_fds /\ http_fds' = http_fds /\ listen_fds' = listen_fds
      /\ \A i \in Slots : Open(i)' <=> Open(i)
  BY DEF loop, tables, Open
<1>2. FdsSound'
  <2>1. \A f \in Fds : owner[f] \in Peers => link'[owner[f]] \in {"open", "gone"}
    BY DEF ServerInv, FdsSound, OtherPeers
  <2> QED BY <1>1, <2>1 DEF ServerInv, FdsSound
<1>3. SlotsSound'
  BY <1>1 DEF ServerInv, SlotsSound
<1>4. PeersSound'
  <2>1. \A c \in Clients : \A i, g : Member(c, i, g)' <=> Member(c, i, g)
    BY <1>1 DEF Member
  <2>2. ASSUME NEW c \in Clients, c # p
        PROVE  CallSound(c)' /\ Outside(c)' /\ ReplySound(c)'
    <3>1. CallSound(c) /\ Outside(c) /\ ReplySound(c)
      BY DEF ServerInv, PeersSound
    <3>2. link'[c] = link[c] /\ c2s'[c] = c2s[c] /\ s2c'[c] = s2c[c] /\ hd'[c] = hd[c]
      BY <2>2, Constants DEF OtherPeers
    <3>3. CallSound(c)'
      BY <2>1, <3>1, <3>2 DEF CallSound
    <3>4. Outside(c)'
      BY <1>1, <3>1, <3>2 DEF Outside
    <3>5. ReplySound(c)'
      BY <2>1, <3>1, <3>2 DEF ReplySound
    <3> QED BY <3>3, <3>4, <3>5
  <2>3. \A b \in Browsers : hd'[b].asked = "NONE" /\ s2c'[b] = <<>>
    BY Constants DEF ServerInv, PeersSound, OtherPeers
  <2>4. ReadySound'
    <3> SUFFICES ASSUME NEW f \in ready \cap client_fds
                 PROVE  c2s'[owner[f]] # NoReq \/ link'[owner[f]] = "gone"
      BY <1>1 DEF ReadySound
    <3>1. f \in Fds /\ owner[f] \in Peers /\ link[owner[f]] \in {"open", "gone"}
      BY TableTypes, Constants DEF ServerInv, FdsSound
    <3>2. c2s[owner[f]] # NoReq \/ link[owner[f]] = "gone"
      BY DEF ServerInv, PeersSound, ReadySound
    <3>3. CASE owner[f] = p
      BY <3>1, <3>2, <3>3
    <3>4. CASE owner[f] # p
      BY <3>1, <3>2, <3>4 DEF OtherPeers
    <3> QED BY <3>3, <3>4
  <2> QED BY <2>2, <2>3, <2>4 DEF PeersSound
<1>5. LinesSound'
  <2>1. \A i \in Slots : \A m : Open(i) /\ Token(i, m) => Token(i, m)'
    <3> SUFFICES ASSUME NEW i \in Slots, NEW m, Open(i), Token(i, m)
                 PROVE  Token(i, m)'
      OBVIOUS
    <3>1. m.from \in Clients /\ m.from \in Peers
      BY Constants DEF Token
    <3>2. c2s'[m.from] = c2s[m.from] /\ s2c'[m.from] = s2c[m.from] /\ hd'[m.from] = hd[m.from]
      BY <3>1 DEF OtherPeers
    <3> QED BY <1>1, <3>2 DEF Token
  <2>2. TokensSound'
    BY <1>1, <2>1 DEF ServerInv, LinesSound, TokensSound, Line
  <2>3. TokensUnique'
    BY <1>1, UniqueKept
  <2> QED BY <2>2, <2>3 DEF LinesSound
<1>6. Signed'
  BY DEF ServerInv, Signed
<1>7. FdsEnough'
  <2>1. SessionFds' = SessionFds
    BY <1>1 DEF SessionFds
  <2>2. Launchers' \in SUBSET Launchers
    <3>1. \A c \in Clients : c # p => c2s'[c] = c2s[c] /\ hd'[c] = hd[c]
      BY Constants DEF OtherPeers
    <3>2. \A c \in Clients : c # p /\ c \in Launchers' => c \in Launchers
      BY <3>1 DEF Launchers
    <3>3. Launchers' \subseteq Clients
      BY DEF Launchers
    <3> QED BY <3>2, <3>3
  <2> QED BY <2>1, <2>2, CountKept DEF ServerInv, FdsEnough
<1> QED
  BY <1>2, <1>3, <1>4, <1>5, <1>6, <1>7 DEF ServerInv

-----------------------------------------------------------------------------
(* The steps of the peers.                                                 *)
LEMMA ConnectKept ==
  ASSUME ServerInv, NEW p \in Peers, Connect(p)
  PROVE  ServerInv'
<1>1. /\ link[p] = "new" /\ link' = [link EXCEPT ![p] = "backlog"]
      /\ UNCHANGED <<loop, tables, c2s, s2c, proc, hd>>
  BY DEF Connect
<1>2. TypeOK' /\ link'[p] = "backlog" /\ \A q \in Peers : q # p => link'[q] = link[q]
  BY <1>1 DEF ServerInv, TypeOK, TablesTyped, loop, tables
<1>3. OtherPeers(p)
  BY <1>1, <1>2 DEF OtherPeers
<1>4. p \in Clients => CallSound(p)' /\ Outside(p)' /\ ReplySound(p)'
  <2> SUFFICES ASSUME p \in Clients PROVE CallSound(p)' /\ Outside(p)' /\ ReplySound(p)'
    OBVIOUS
  <2>1. CallSound(p) /\ Outside(p) /\ ReplySound(p)
    BY DEF ServerInv, PeersSound
  <2>2. \A i, g : Member(p, i, g)' <=> Member(p, i, g)
    BY <1>1 DEF Member, tables, Open
  <2>3. CallSound(p)'
    BY <1>1, <1>2, <2>1, <2>2 DEF CallSound
  <2>4. Outside(p)' /\ ReplySound(p)'
    BY <1>1, <2>1, <2>2 DEF Outside, ReplySound, tables
  <2> QED BY <2>3, <2>4
<1>5. p \in Browsers => hd'[p].asked = "NONE" /\ s2c'[p] = <<>>
  BY <1>1 DEF ServerInv, PeersSound
<1>6. p \in Launchers' => p \in Launchers
  BY <1>1 DEF Launchers
<1> QED
  BY <1>1, <1>2, <1>3, <1>4, <1>5, <1>6, PeerKept

LEMMA CallingHandle ==
  ASSUME NEW h \in Handles, NEW a, NEW n
  PROVE  [h EXCEPT !.asked = a, !.name = n] =
           [state |-> h.state, asked |-> a, name |-> n, dest |-> h.dest,
            session |-> h.session, calls |-> h.calls]
<1> DEFINE g == [h EXCEPT !.asked = a]
<1>1. h = [state |-> h.state, asked |-> h.asked, name |-> h.name, dest |-> h.dest,
           session |-> h.session, calls |-> h.calls]
  BY DEF Handles
<1>2. g = [state |-> h.state, asked |-> a, name |-> h.name, dest |-> h.dest,
           session |-> h.session, calls |-> h.calls]
  BY <1>1
<1> HIDE DEF g
<1>3. [g EXCEPT !.name = n] = [state |-> h.state, asked |-> a, name |-> n, dest |-> h.dest,
                               session |-> h.session, calls |-> h.calls]
  BY <1>2
<1>4. [g EXCEPT !.name = n] = [h EXCEPT !.asked = a, !.name = n]
  BY DEF g
<1> QED
  BY <1>3, <1>4

LEMMA CallKept ==
  ASSUME ServerInv, NEW c \in Clients, NEW req \in Requests, req.type \in Calls,
         req.name \in Names \cup {NoName}, NEW state, Call(c, state, req),
         req.type = "SESSION" => state = "idle" /\ req.name \in Names,
         req.type = "JOIN" => state \in {"idle", "launched"},
         req.type = "FETCH" => state = "joined" /\ req.dest = hd[c].dest
  PROVE  ServerInv'
<1>1. /\ hd[c].state = state /\ hd[c].asked = "NONE" /\ link[c] \in {"backlog", "open"}
      /\ c2s' = [c2s EXCEPT ![c] = req]
      /\ hd' = [hd EXCEPT ![c].asked = req.type, ![c].name = req.name]
      /\ UNCHANGED <<loop, tables, link, s2c, proc>>
  BY DEF Call, Ask
<1>2. c \in Peers /\ c \notin Browsers /\ hd[c] \in Handles /\ hd[c].asked = "NONE"
  BY <1>1, Constants, HandleTypes DEF ServerInv
<1>3. /\ hd'[c] = [hd[c] EXCEPT !.asked = req.type, !.name = req.name]
      /\ c2s'[c] = req /\ s2c'[c] = s2c[c] /\ link'[c] = link[c]
      /\ OtherPeers(c)
  <2>1. hd \in [Peers -> Handles] /\ DOMAIN hd = Peers /\ DOMAIN c2s = Peers
    BY DEF ServerInv, TypeOK
  <2>2. /\ hd'[c] = [hd[c] EXCEPT !.asked = req.type, !.name = req.name]
        /\ \A q \in Peers : q # c => hd'[q] = hd[q]
    BY <1>1, <1>2, <2>1
  <2>3. c2s'[c] = req /\ \A q \in Peers : q # c => c2s'[q] = c2s[q]
    BY <1>1, <1>2, <2>1
  <2> QED BY <1>1, <2>2, <2>3 DEF OtherPeers
<1>4. /\ hd'[c].state = state /\ hd'[c].asked = req.type /\ hd'[c].dest = hd[c].dest
      /\ hd'[c].session = hd[c].session /\ hd'[c] \in Handles
  <2>1. [hd[c] EXCEPT !.asked = req.type, !.name = req.name] =
          [state |-> hd[c].state, asked |-> req.type, name |-> req.name, dest |-> hd[c].dest,
           session |-> hd[c].session, calls |-> hd[c].calls]
    BY <1>2, CallingHandle
  <2> QED BY <1>1, <1>2, <1>3, <2>1 DEF Handles
<1>5. TypeOK'
  <2>1. c2s' \in [Peers -> Requests]
    BY <1>1 DEF ServerInv, TypeOK
  <2>2. hd' \in [Peers -> Handles]
    BY <1>1, <1>2, <1>3, <1>4 DEF ServerInv, TypeOK, OtherPeers
  <2> QED BY <1>1, <2>1, <2>2 DEF ServerInv, TypeOK, TablesTyped, loop, tables
<1>6. CallSound(c) /\ Outside(c) /\ ReplySound(c)
  BY DEF ServerInv, PeersSound
<1>7. req.type # "NONE" /\ req # NoReq
  BY DEF Calls, NoReq
<1>8. CallSound(c)'
  <2>1. \A i, g : Member(c, i, g)' <=> Member(c, i, g)
    BY <1>1 DEF Member, tables, Open
  <2>2. \/ req.type = "SESSION" /\ state = "idle" /\ req.name \in Names
        \/ req.type = "JOIN" /\ state \in {"idle", "launched"}
        \/ req.type = "FETCH" /\ state = "joined" /\ req.dest = hd[c].dest
    BY DEF Calls
  <2>3. /\ link'[c] \in {"new", "backlog"} => hd'[c].state = "idle" /\ s2c'[c] = <<>>
        /\ hd'[c].state = "joined" => Member(c, hd[c].dest, hd[c].session)'
    BY <1>1, <1>3, <1>4, <1>6, <2>1 DEF CallSound
  <2> QED BY <1>1, <1>3, <1>4, <1>7, <2>2, <2>3 DEF CallSound
<1>9. Outside(c)'
  BY <1>1, <1>4, <1>6 DEF Outside, tables
<1>10. ReplySound(c)'
  BY <1>1, <1>3, <1>6 DEF CallSound, ReplySound
<1>11. \A i \in Slots : \A m : Open(i) /\ Token(i, m) => m.from # c
  BY <1>1, TokenFacts
<1>12. c \in Launchers' => c \in Launchers
  BY <1>1, <1>3, <1>4, <1>7 DEF Launchers
<1>13. c2s[c] = NoReq
  BY <1>1, <1>6 DEF CallSound
<1> QED
  BY <1>1, <1>2, <1>3, <1>5, <1>8, <1>9, <1>10, <1>11, <1>12, <1>13, PeerKept

LEMMA BrowseKept ==
  ASSUME ServerInv, NEW b \in Browsers, Browse(b)
  PROVE  ServerInv'
<1>1. PICK t \in {"kill", "pause"}, n \in Names : Ask(b, [type |-> t, name |-> n])
  BY DEF Browse
<1>2. /\ c2s[b] = NoReq /\ c2s' = [c2s EXCEPT ![b] = [type |-> t, name |-> n]]
      /\ hd' = [hd EXCEPT ![b].calls = @ + 1]
      /\ UNCHANGED <<loop, tables, link, s2c, proc>>
  BY <1>1 DEF Ask, Browse
<1>3. b \in Peers /\ b \notin Clients /\ hd[b] \in Handles /\ hd[b].asked = "NONE"
  BY Constants, HandleTypes DEF ServerInv, PeersSound
<1>4. [type |-> t, name |-> n] \in Requests
  BY DEF Requests
<1>5. hd'[b] = [hd[b] EXCEPT !.calls = @ + 1] /\ OtherPeers(b)
  BY <1>2, <1>3 DEF OtherPeers, ServerInv, TypeOK
<1>6. hd'[b] \in Handles /\ hd'[b].asked = "NONE"
  <2>1. [hd[b] EXCEPT !.calls = @ + 1] =
          [state |-> hd[b].state, asked |-> hd[b].asked, name |-> hd[b].name,
           dest |-> hd[b].dest, session |-> hd[b].session, calls |-> hd[b].calls + 1]
    BY <1>3 DEF Handles
  <2> QED BY <1>3, <1>5, <2>1 DEF Handles
<1>7. TypeOK'
  <2>1. c2s' \in [Peers -> Requests]
    BY <1>2, <1>4 DEF ServerInv, TypeOK
  <2>2. hd' \in [Peers -> Handles]
    BY <1>2, <1>3, <1>5, <1>6 DEF ServerInv, TypeOK, OtherPeers
  <2> QED BY <1>2, <2>1, <2>2 DEF ServerInv, TypeOK, TablesTyped, loop, tables
<1>8. \A i \in Slots : \A m : Open(i) /\ Token(i, m) => m.from # b
  BY <1>3 DEF Token
<1>9. s2c'[b] = <<>> /\ link'[b] = link[b]
  BY <1>2 DEF ServerInv, PeersSound
<1>10. b \in Launchers' => b \in Launchers
  BY <1>3 DEF Launchers
<1> QED
  BY <1>2, <1>3, <1>5, <1>6, <1>7, <1>8, <1>9, <1>10, PeerKept

LEMMA ClientCallsKept ==
  ASSUME ServerInv, NEW c \in Clients, Launch(c) \/ Join(c) \/ Fetch(c)
  PROVE  ServerInv'
<1>1. hd[c].name \in Names \cup {NoName} /\ hd[c].dest \in Int
  BY Constants, HandleTypes DEF ServerInv, Handles
<1>2. CASE Launch(c)
  <2>1. PICK n \in Names : Call(c, "idle", [type |-> "SESSION", name |-> n])
    BY <1>2 DEF Launch
  <2>2. [type |-> "SESSION", name |-> n] \in Requests /\ "SESSION" \in Calls
    BY DEF Requests, Calls
  <2> QED BY <2>1, <2>2, CallKept
<1>3. CASE Join(c)
  <2>1. PICK n \in Names \cup {NoName}, state \in {"idle", "launched"} :
          Call(c, state, [type |-> "JOIN", name |-> n])
    BY <1>1, <1>3 DEF Join
  <2>2. [type |-> "JOIN", name |-> n] \in Requests /\ "JOIN" \in Calls
    BY DEF Requests, Calls
  <2> QED BY <2>1, <2>2, CallKept
<1>4. CASE Fetch(c)
  <2> DEFINE req == [type |-> "FETCH", name |-> hd[c].name, dest |-> hd[c].dest]
  <2>1. Call(c, "joined", req)
    BY <1>4 DEF Fetch
  <2>2. /\ req \in Requests /\ req.type = "FETCH" /\ req.type \in Calls
        /\ req.name = hd[c].name /\ req.dest = hd[c].dest
    BY <1>1 DEF Requests, Calls
  <2> HIDE DEF req
  <2> QED BY <1>1, <2>1, <2>2, CallKept
<1> QED
  BY <1>2, <1>3, <1>4

LEMMA OverIs ==
  ASSUME NEW state \in {"failed", "left"}
  PROVE  /\ Over(state) \in Handles /\ Over(state).state = state /\ Over(state).asked = "NONE"
BY DEF Over, Handles

(* What a client makes of a reply.                                         *)
LEMMA AfterIs ==
  ASSUME ServerInv, NEW c \in Clients, NEW m \in Message, m.type = hd[c].asked,
         hd[c].asked # "NONE"
  PROVE  /\ After(c, m) \in Handles /\ After(c, m).asked = "NONE"
         /\ \/ After(c, m).state = "failed"
            \/ m.type = "SESSION" /\ After(c, m).state = "launched"
            \/ /\ m.type = "JOIN" /\ m.status # "FAIL" /\ After(c, m).state = "joined"
               /\ After(c, m).dest = m.dest /\ After(c, m).session = m.session
            \/ /\ m.type = "FETCH" /\ m.status # "FAIL" /\ After(c, m).state = hd[c].state
               /\ After(c, m).dest = m.dest /\ After(c, m).session = hd[c].session
<1> DEFINE h == [hd[c] EXCEPT !.asked = "NONE"]
<1>1. hd[c] \in Handles /\ hd[c].asked \in Calls
  BY HandleTypes, Constants DEF ServerInv
<1>2. h = [state |-> hd[c].state, asked |-> "NONE", name |-> hd[c].name, dest |-> hd[c].dest,
           session |-> hd[c].session, calls |-> hd[c].calls]
  BY <1>1 DEF Handles
<1>3. /\ hd[c].state \in {"idle", "launched", "joined", "failed", "left"}
      /\ hd[c].name \in Names \cup {NoName} /\ hd[c].dest \in Int
      /\ hd[c].session \in Fds \cup {NoFd} /\ hd[c].calls \in Nat
      /\ m.dest \in Int /\ m.session \in Fds \cup {NoFd}
  BY <1>1 DEF Handles, Message
<1> HIDE DEF h
<1>4. CASE m.status = "FAIL"
  <2>1. After(c, m) = Over("failed")
    BY <1>4 DEF After
  <2> QED BY <2>1, OverIs
<1>5. CASE m.status # "FAIL" /\ m.type = "SESSION"
  <2>1. After(c, m) = [h EXCEPT !.state = "launched"]
    BY <1>5 DEF After, h
  <2>2. After(c, m) = [state |-> "launched", asked |-> "NONE", name |-> hd[c].name,
                       dest |-> hd[c].dest, session |-> hd[c].session, calls |-> hd[c].calls]
    BY <1>2, <2>1
  <2> QED BY <1>3, <1>5, <2>2 DEF Handles
<1>6. CASE m.status # "FAIL" /\ m.type = "JOIN"
  <2> DEFINE h1 == [h EXCEPT !.state = "joined"]
             h2 == [h1 EXCEPT !.dest = m.dest]
  <2>1. After(c, m) = [h2 EXCEPT !.session = m.session]
    BY <1>6 DEF After, h
  <2>2. h1 = [state |-> "joined", asked |-> "NONE", name |-> hd[c].name,
              dest |-> hd[c].dest, session |-> hd[c].session, calls |-> hd[c].calls]
    BY <1>2
  <2> HIDE DEF h1
  <2>3. h2 = [state |-> "joined", asked |-> "NONE", name |-> hd[c].name,
              dest |-> m.dest, session |-> hd[c].session, calls |-> hd[c].calls]
    BY <2>2
  <2> HIDE DEF h2
  <2>4. After(c, m) = [state |-> "joined", asked |-> "NONE", name |-> hd[c].name,
                       dest |-> m.dest, session |-> m.session, calls |-> hd[c].calls]
    BY <2>1, <2>3
  <2> QED BY <1>3, <1>6, <2>4 DEF Handles
<1>7. CASE m.status # "FAIL" /\ m.type = "FETCH"
  <2> DEFINE h1 == [h EXCEPT !.dest = m.dest]
  <2>1. After(c, m) = [h1 EXCEPT !.calls = @ + 1]
    BY <1>7 DEF After, h
  <2>2. h1 = [state |-> hd[c].state, asked |-> "NONE", name |-> hd[c].name,
              dest |-> m.dest, session |-> hd[c].session, calls |-> hd[c].calls]
    BY <1>2
  <2> HIDE DEF h1
  <2>3. After(c, m) = [state |-> hd[c].state, asked |-> "NONE", name |-> hd[c].name,
                       dest |-> m.dest, session |-> hd[c].session, calls |-> hd[c].calls + 1]
    BY <2>1, <2>2
  <2> QED BY <1>3, <1>7, <2>3 DEF Handles
<1> QED
  BY <1>1, <1>4, <1>5, <1>6, <1>7 DEF Calls

LEMMA OnlyOne ==
  ASSUME NEW S, NEW s \in Seq(S), Len(s) = 1
  PROVE  s[1] \in S /\ Tail(s) = <<>> /\ Head(s) = s[1]
<1>1. s[1] \in S /\ s # <<>>
  OBVIOUS
<1>2. Tail(s) \in Seq(S) /\ Len(Tail(s)) = 0
  BY <1>1
<1>3. Tail(s) = <<>>
  BY <1>2, EmptySeq
<1>4. Head(s) = s[1]
  BY <1>1
<1> QED
  BY <1>1, <1>3, <1>4

LEMMA ReceiveKept ==
  ASSUME ServerInv, NEW c \in Clients, Receive(c)
  PROVE  ServerInv'
<1> DEFINE m == s2c[c][1]
           h == After(c, m)
<1>1. /\ hd[c].asked # "NONE" /\ s2c[c] # <<>>
      /\ s2c' = [s2c EXCEPT ![c] = Tail(@)] /\ hd' = [hd EXCEPT ![c] = h]
      /\ UNCHANGED <<loop, tables, link, c2s, proc>>
  BY DEF Receive
<1>2. c \in Peers /\ c \notin Browsers /\ s2c[c] \in Seq(Message)
  BY Constants, HandleTypes DEF ServerInv
<1>3. CallSound(c) /\ Outside(c) /\ ReplySound(c)
  BY DEF ServerInv, PeersSound
<1>4. /\ Len(s2c[c]) = 1 /\ c2s[c] = NoReq /\ m.type = hd[c].asked /\ m.from = c
      /\ m.type # "SESSION" /\ m.status # "FAIL" => Member(c, m.dest, m.session)
  BY <1>1, <1>3 DEF ReplySound
<1>5. m \in Message /\ Tail(s2c[c]) = <<>>
  BY <1>2, <1>4, OnlyOne
<1> HIDE DEF m
<1>6. /\ h \in Handles /\ h.asked = "NONE"
      /\ \/ h.state = "failed"
         \/ m.type = "SESSION" /\ h.state = "launched"
         \/ /\ m.type = "JOIN" /\ m.status # "FAIL" /\ h.state = "joined"
            /\ h.dest = m.dest /\ h.session = m.session
         \/ /\ m.type = "FETCH" /\ m.status # "FAIL" /\ h.state = hd[c].state
            /\ h.dest = m.dest /\ h.session = hd[c].session
  BY <1>1, <1>4, <1>5, AfterIs
<1> HIDE DEF h
<1>7. hd'[c] = h /\ s2c'[c] = <<>> /\ c2s'[c] = c2s[c] /\ link'[c] = link[c] /\ OtherPeers(c)
  <2>1. DOMAIN hd = Peers /\ DOMAIN s2c = Peers
    BY DEF ServerInv, TypeOK
  <2>2. hd'[c] = h /\ \A q \in Peers : q # c => hd'[q] = hd[q]
    BY <1>1, <1>2, <2>1
  <2>3. s2c'[c] = <<>> /\ \A q \in Peers : q # c => s2c'[q] = s2c[q]
    BY <1>1, <1>2, <1>5, <2>1
  <2> QED BY <1>1, <2>2, <2>3 DEF OtherPeers
<1>8. TypeOK'
  <2>1. hd' \in [Peers -> Handles]
    BY <1>1, <1>6 DEF ServerInv, TypeOK
  <2>2. s2c' \in [Peers -> Seq(Message)]
    BY <1>1, <1>2, <1>5 DEF ServerInv, TypeOK
  <2> QED BY <1>1, <2>1, <2>2 DEF ServerInv, TypeOK, TablesTyped, loop, tables
<1>9. UNCHANGED <<slist, owner>>
  BY <1>1 DEF tables
<1>10. h.state = "joined" => Member(c, h.dest, h.session)
  <2>1. CASE m.type = "JOIN" /\ m.status # "FAIL"
             /\ h.dest = m.dest /\ h.session = m.session
    BY <1>4, <2>1
  <2>2. CASE m.type = "FETCH" /\ m.status # "FAIL"
             /\ h.dest = m.dest /\ h.session = hd[c].session
    <3>1. Member(c, m.dest, m.session) /\ Member(c, hd[c].dest, hd[c].session)
      BY <1>3, <1>4, <2>2 DEF CallSound
    <3>2. \A f \in Fds : owner[f] = c => m.dest = hd[c].dest
      BY <3>1 DEF Member, ServerInv, SlotsSound
    <3>3. Member(c, m.dest, hd[c].session)
      BY <3>1, <3>2 DEF Member
    <3> QED BY <2>2, <3>3
  <2> QED BY <1>6, <2>1, <2>2
<1>11. CallSound(c)'
  <2>1. link[c] \notin {"new", "backlog"}
    BY <1>1, <1>3 DEF CallSound
  <2>2. hd'[c].state = "joined" =>
          /\ hd'[c].dest \in Slots
          /\ \A f \in Fds : owner'[f] = c =>
               /\ slist'[hd'[c].dest].name # NoName /\ slist'[hd'[c].dest].fd = hd'[c].session
               /\ f \in slist'[hd'[c].dest].client
    BY <1>1, <1>7, <1>10 DEF Member, tables, Open
  <2> QED BY <1>4, <1>6, <1>7, <2>1, <2>2 DEF CallSound, Member, Open
<1>12. Outside(c)'
  <2> SUFFICES ASSUME hd'[c].state \in {"idle", "launched"}
               PROVE  \A i \in Slots : \A f \in slist[i].client : owner[f] # c
    BY <1>1 DEF Outside, tables
  <2>1. m.type = "SESSION" \/ (m.type = "FETCH" /\ h.state = hd[c].state)
    BY <1>6, <1>7
  <2>2. hd[c].asked = "SESSION" /\ hd[c].state = "idle"
    BY <1>3, <1>4, <1>7, <2>1 DEF CallSound
  <2> QED BY <1>3, <2>2 DEF Outside
<1>13. ReplySound(c)'
  BY <1>7 DEF ReplySound
<1>14. \A i \in Slots : \A n : Open(i) /\ Token(i, n) => n.from # c
  BY <1>1 DEF Token
<1>15. c \in Launchers' => c \in Launchers
  <2>1. NoReq.type # "SESSION"
    BY DEF NoReq
  <2>2. h.state # "idle"
    <3>1. m.type = "FETCH" => hd[c].state = "joined"
      BY <1>3, <1>4 DEF CallSound
    <3> QED BY <1>6, <3>1
  <2> QED BY <1>4, <1>7, <2>1, <2>2 DEF Launchers
<1> QED
  BY <1>1, <1>2, <1>7, <1>8, <1>11, <1>12, <1>13, <1>14, <1>15, PeerKept

(* A connection that is closed has no descriptor.                          *)
LEMMA ReceiveEofKept ==
  ASSUME ServerInv, NEW p \in Peers, ReceiveEof(p)
  PROVE  ServerInv'
<1>1. /\ link[p] = "closed" /\ link' = [link EXCEPT ![p] = "over"]
      /\ hd' = [hd EXCEPT ![p] = Over("failed")] /\ c2s' = [c2s EXCEPT ![p] = NoReq]
      /\ s2c' = [s2c EXCEPT ![p] = <<>>] /\ UNCHANGED <<loop, tables, proc>>
  BY DEF ReceiveEof
<1>2. Over("failed") \in Handles /\ Over("failed").state = "failed" /\ Over("failed").asked = "NONE"
  BY OverIs
<1>3. /\ hd'[p] = Over("failed") /\ c2s'[p] = NoReq /\ s2c'[p] = <<>> /\ link'[p] = "over"
      /\ OtherPeers(p)
  BY <1>1 DEF ServerInv, TypeOK, TablesTyped, OtherPeers
<1>4. TypeOK'
  <2>1. hd' \in [Peers -> Handles] /\ s2c' \in [Peers -> Seq(Message)] /\ c2s' \in [Peers -> Requests]
    BY <1>1, <1>2 DEF ServerInv, TypeOK, Requests
  <2>2. link' \in [Peers -> {"new", "backlog", "open", "closed", "gone", "over"}]
    BY <1>1 DEF ServerInv, TypeOK, TablesTyped
  <2> QED BY <1>1, <2>1, <2>2 DEF ServerInv, TypeOK, TablesTyped, loop, tables
<1>5. \A i \in Slots : \A m : Open(i) /\ Token(i, m) => m.from # p
  BY <1>1, TokenFacts
<1>6. CallSound(p)' /\ Outside(p)' /\ ReplySound(p)'
  BY <1>2, <1>3 DEF CallSound, Outside, ReplySound
<1>7. p \in Launchers' => p \in Launchers
  <2>1. NoReq.type # "SESSION"
    BY DEF NoReq
  <2> QED BY <1>2, <1>3, <2>1 DEF Launchers
<1> QED
  BY <1>1, <1>2, <1>3, <1>4, <1>5, <1>6, <1>7, PeerKept

(* A client that is not within a call has no call under way.               *)
LEMMA LeaveKept ==
  ASSUME ServerInv, ~MayCrash, NEW p \in Peers, Leave(p)
  PROVE  ServerInv'
<1>1. /\ link[p] = "open" /\ hd[p].asked = "NONE" /\ link' = [link EXCEPT ![p] = "gone"]
      /\ hd' = [hd EXCEPT ![p] = Over("left")] /\ s2c' = [s2c EXCEPT ![p] = <<>>]
      /\ UNCHANGED <<loop, tables, c2s, proc>>
  BY DEF Leave
<1>2. Over("left") \in Handles /\ Over("left").state = "left" /\ Over("left").asked = "NONE"
  BY OverIs
<1>3. /\ hd'[p] = Over("left") /\ c2s'[p] = c2s[p] /\ s2c'[p] = <<>> /\ link'[p] = "gone"
      /\ OtherPeers(p)
  BY <1>1 DEF ServerInv, TypeOK, TablesTyped, OtherPeers
<1>4. TypeOK'
  <2>1. hd' \in [Peers -> Handles] /\ s2c' \in [Peers -> Seq(Message)]
    BY <1>1, <1>2 DEF ServerInv, TypeOK
  <2>2. link' \in [Peers -> {"new", "backlog", "open", "closed", "gone", "over"}]
    BY <1>1 DEF ServerInv, TypeOK, TablesTyped
  <2> QED BY <1>1, <2>1, <2>2 DEF ServerInv, TypeOK, TablesTyped, loop, tables
<1>5. \A i \in Slots : \A m : Open(i) /\ Token(i, m) => m.from # p
  BY <1>1, TokenFacts
<1>6. p \in Clients => CallSound(p)' /\ Outside(p)' /\ ReplySound(p)'
  <2>1. p \in Clients => c2s[p] = NoReq
    BY <1>1 DEF ServerInv, PeersSound, CallSound
  <2> QED BY <1>2, <1>3, <2>1 DEF CallSound, Outside, ReplySound
<1>7. p \in Launchers' => p \in Launchers
  BY <1>1, <1>2, <1>3 DEF Launchers
<1> QED
  BY <1>1, <1>2, <1>3, <1>4, <1>5, <1>6, <1>7, PeerKept

LEMMA PeerStepKept ==
  ASSUME ServerInv, ~MayCrash, NEW p \in Peers, PeerStep(p)
  PROVE  ServerInv'
BY ConnectKept, ClientCallsKept, BrowseKept, ReceiveKept, ReceiveEofKept, LeaveKept DEF PeerStep

-----------------------------------------------------------------------------
(* The loop, and descriptors that change tables.                           *)
LEMMA LinesUntouched ==
  ASSUME ServerInv, UNCHANGED <<proc, slist, c2s, s2c, hd>>,
         \A f \in client_fds : f \in client_fds' /\ owner'[f] = owner[f]
  PROVE  LinesSound'
<1>1. \A i \in Slots : Open(i)' <=> Open(i)
  BY DEF Open
<1>2. \A i \in Slots : \A m : Token(i, m) => Token(i, m)'
  BY DEF Token
<1>3. TokensSound'
  BY <1>1, <1>2 DEF ServerInv, LinesSound, TokensSound, Line
<1>4. TokensUnique'
  BY <1>1, UniqueKept
<1> QED
  BY <1>3, <1>4 DEF LinesSound

LEMMA TablesKept ==
  ASSUME ServerInv, TypeOK', FdsSound', ReadySound', client_fds \subseteq client_fds',
         UNCHANGED <<owner, link, slist, c2s, s2c, proc, hd>>
  PROVE  ServerInv'
<1>1. \A i \in Slots : Open(i)' <=> Open(i)
  BY DEF Open
<1>2. SlotsSound'
  BY <1>1 DEF ServerInv, SlotsSound
<1>3. PeersSound'
  <2>1. \A c \in Clients : \A i, g : Member(c, i, g)' <=> Member(c, i, g)
    BY <1>1 DEF Member
  <2> SUFFICES ASSUME NEW c \in Clients PROVE CallSound(c)' /\ Outside(c)' /\ ReplySound(c)'
    BY DEF ServerInv, PeersSound
  <2>2. CallSound(c) /\ Outside(c) /\ ReplySound(c)
    BY DEF ServerInv, PeersSound
  <2>3. CallSound(c)'
    BY <2>1, <2>2 DEF CallSound
  <2>4. Outside(c)'
    BY <2>2 DEF Outside
  <2>5. ReplySound(c)'
    BY <2>1, <2>2 DEF ReplySound
  <2> QED BY <2>3, <2>4, <2>5
<1>4. LinesSound'
  BY LinesUntouched
<1>5. Signed' /\ FdsEnough'
  BY DEF ServerInv, Signed, FdsEnough, SessionFds, Launchers
<1> QED
  BY <1>2, <1>3, <1>4, <1>5 DEF ServerInv

LEMMA SelectKept ==
  ASSUME ServerInv, Select
  PROVE  ServerInv'
<1>1. /\ ready' = {f \in listen_fds : Readable(f)} \cup (IF Backlog # {} THEN {Listener} ELSE {})
      /\ phase' = 1 /\ UNCHANGED <<tables, link, c2s, s2c, proc, hd>>
  BY DEF Select
<1>2. TypeOK'
  <2>1. ready' \subseteq Fds \cup {Listener}
    BY <1>1, TableTypes DEF ServerInv
  <2> QED BY <1>1, <2>1 DEF ServerInv, TypeOK, TablesTyped, tables
<1>3. FdsSound'
  BY <1>1 DEF ServerInv, FdsSound, tables
<1>4. ReadySound'
  <2> SUFFICES ASSUME NEW f \in ready' \cap client_fds
               PROVE  c2s[owner[f]] # NoReq \/ link[owner[f]] = "gone"
    BY <1>1 DEF ReadySound, tables
  <2>1. f # Listener /\ f \in Fds
    <3>1. Listener \notin Fds
      BY DEF Listener, Fds
    <3> QED BY <3>1, TableTypes DEF ServerInv
  <2>2. Readable(f)
    BY <1>1, <2>1
  <2>3. owner[f] # Session
    BY Constants DEF ServerInv, FdsSound
  <2> QED BY <2>2, <2>3 DEF Readable
<1> QED
  BY <1>1, <1>2, <1>3, <1>4, TablesKept DEF tables

LEMMA UnknownConnectionKept ==
  ASSUME ServerInv, NEW f \in Fds, handle_unknown_connection(f)
  PROVE  ServerInv'
<1>1. /\ f \in unk_fds /\ unk_fds' = unk_fds \ {f} /\ phase' \in 1 .. 5
      /\ UNCHANGED <<ready, slist, c2s, s2c, proc, hd>>
  BY ReachType DEF handle_unknown_connection
<1>2. /\ owner[f] \in Peers /\ f \notin client_fds /\ f \notin http_fds
      /\ unk_fds \cap client_fds = {} /\ unk_fds \cap http_fds = {} /\ client_fds \cap http_fds = {}
  BY <1>1 DEF ServerInv, FdsSound
<1>3. CASE Shut({f}, {}) /\ UNCHANGED <<client_fds, http_fds>>
  BY <1>1, <1>3, UnknownConnectionCloses
<1>4. CASE /\ c2s[owner[f]] # NoReq /\ owner[f] \in Clients /\ client_fds' = client_fds \cup {f}
           /\ UNCHANGED <<http_fds, owner, link, listen_fds>>
  <2>1. TypeOK'
    BY <1>1, <1>4 DEF ServerInv, TypeOK, TablesTyped
  <2>2. FdsSound'
    BY <1>1, <1>2, <1>4 DEF ServerInv, FdsSound
  <2>3. ReadySound'
    BY <1>1, <1>4 DEF ServerInv, PeersSound, ReadySound
  <2> QED BY <1>1, <1>4, <2>1, <2>2, <2>3, TablesKept
<1>5. CASE /\ owner[f] \in Browsers /\ http_fds' = http_fds \cup {f}
           /\ UNCHANGED <<client_fds, owner, link, listen_fds>>
  <2>1. TypeOK'
    BY <1>1, <1>5 DEF ServerInv, TypeOK, TablesTyped
  <2>2. FdsSound'
    BY <1>1, <1>2, <1>5 DEF ServerInv, FdsSound
  <2>3. ReadySound'
    BY <1>1, <1>5 DEF ServerInv, PeersSound, ReadySound
  <2> QED BY <1>1, <1>5, <2>1, <2>2, <2>3, TablesKept
<1> QED
  BY <1>3, <1>4, <1>5 DEF handle_unknown_connection

-----------------------------------------------------------------------------
(* A set of numbers has a lowest one.                                      *)
LEMMA LowestType ==
  ASSUME NEW X \in SUBSET Nat, X # {}
  PROVE  Lowest(X) \in X
<1> DEFINE Lt == {ss \in Nat \X Nat : ss[1] < ss[2]}
<1>1. IsWellFoundedOn(Lt, Nat)
  BY NatLessThanWellFounded, Zenon DEF OpToRel
<1>2. \E x \in X : \A y \in X : ~ (<<y, x>> \in Lt)
  <2> HIDE DEF Lt
  <2> QED BY <1>1, WFMin
<1>3. \A x, y \in Nat : <<y, x>> \notin Lt => x <= y
  OBVIOUS
<1>4. \E x \in X : \A y \in X : x <= y
  BY <1>2, <1>3
<1> QED
  BY <1>4 DEF Lowest

LEMMA PeerCount ==
  /\ IsFiniteSet(Peers)
  /\ Cardinality(Peers) = Cardinality(Clients) + Cardinality(Browsers)
<1>1. IsFiniteSet(Clients) /\ IsFiniteSet(Browsers) /\ Clients \cap Browsers = {}
  BY ServerAssumption
<1>2. Cardinality(Clients) \in Nat /\ Cardinality(Browsers) \in Nat
  BY <1>1, FS_CardinalityType
<1>3. /\ IsFiniteSet(Clients \cup Browsers)
      /\ Cardinality(Clients \cup Browsers) =
           Cardinality(Clients) + Cardinality(Browsers) - Cardinality(Clients \cap Browsers)
  BY <1>1, FS_Union
<1>4. Cardinality(Clients \cap Browsers) = 0
  BY <1>1, FS_EmptySet
<1> QED
  BY <1>2, <1>3, <1>4 DEF Peers

(* A descriptor is free if the peers that may have one, and the sessions,  *)
(* are fewer than the descriptors.                                         *)
LEMMA FdLeft ==
  ASSUME TypeOK, FdsSound, NEW Q \in SUBSET Peers,
         \A f \in Fds : owner[f] \in Peers => owner[f] \in Q,
         Cardinality(Q) + Cardinality(SessionFds) < MaxFd
  PROVE  FreeFds \subseteq Fds /\ Lowest(FreeFds) \in FreeFds
<1> DEFINE P == {f \in Fds : owner[f] \in Peers}
           h == [f \in P |-> owner[f]]
<1>1. IsFiniteSet(Q) /\ Cardinality(Q) \in Nat
  BY PeerCount, FS_Subset, FS_CardinalityType
<1>2. h \in Injection(P, Q)
  <2>1. h \in [P -> Q]
    OBVIOUS
  <2>2. IsInjective(h)
    BY DEF IsInjective, FdsSound
  <2> HIDE DEF P, h
  <2> QED BY <2>1, <2>2 DEF Injection
<1> HIDE DEF h
<1>3. IsFiniteSet(P) /\ Cardinality(P) <= Cardinality(Q) /\ Cardinality(P) \in Nat
  BY <1>1, <1>2, FS_Injection, FS_CardinalityType
<1>4. IsFiniteSet(SessionFds) /\ Cardinality(SessionFds) \in Nat /\ Cardinality(Fds) = MaxFd
  BY CountSets
<1>5. /\ IsFiniteSet(P \cup SessionFds)
      /\ Cardinality(P \cup SessionFds) <= Cardinality(P) + Cardinality(SessionFds)
  <2> HIDE DEF P
  <2>1. IsFiniteSet(P \cap SessionFds)
    BY <1>3, FS_Intersection
  <2>2. Cardinality(P \cap SessionFds) \in Nat
    BY <2>1, FS_CardinalityType
  <2>3. /\ IsFiniteSet(P \cup SessionFds)
        /\ Cardinality(P \cup SessionFds) =
             Cardinality(P) + Cardinality(SessionFds) - Cardinality(P \cap SessionFds)
    BY <1>3, <1>4, FS_Union
  <2> QED BY <1>3, <1>4, <2>2, <2>3
<1>6. P \cup SessionFds # Fds
  <2> SUFFICES ASSUME P \cup SessionFds = Fds PROVE FALSE
    OBVIOUS
  <2> HIDE DEF P
  <2>1. MaxFd <= Cardinality(P) + Cardinality(SessionFds)
    BY <1>4, <1>5
  <2>2. MaxFd \in Nat
    BY ServerAssumption
  <2> QED BY <1>1, <1>3, <1>4, <2>1, <2>2
<1>7. FreeFds = Fds \ (P \cup SessionFds)
  BY TableTypes, Constants DEF FreeFds, SessionFds
<1>8. FreeFds # {} /\ FreeFds \subseteq Fds
  <2>1. P \cup SessionFds \subseteq Fds
    BY DEF SessionFds
  <2> HIDE DEF P
  <2> QED BY <1>6, <1>7, <2>1
<1>9. FreeFds \in SUBSET Nat
  BY <1>8, Constants
<1> QED
  BY <1>8, <1>9, LowestType

LEMMA AcceptFindsFd ==
  ASSUME ServerInv, NEW p \in Backlog
  PROVE  FreeFds \subseteq Fds /\ Lowest(FreeFds) \in FreeFds
<1>1. p \in Peers /\ link[p] = "backlog"
  BY DEF Backlog
<1>2. \A f \in Fds : owner[f] \in Peers => owner[f] \in Peers \ {p}
  BY <1>1 DEF ServerInv, FdsSound
<1>3. /\ IsFiniteSet(Peers) /\ Cardinality(Peers) = Cardinality(Clients) + Cardinality(Browsers)
      /\ Cardinality(Peers \ {p}) = Cardinality(Peers) - 1
  BY <1>1, PeerCount, FS_RemoveElement
<1>4. /\ Cardinality(Clients) \in Nat /\ Cardinality(Browsers) \in Nat
      /\ Cardinality(SessionFds) \in Nat /\ Cardinality(Launchers) \in Nat
  BY CountSets
<1>5. Cardinality(SessionFds) <= Cardinality(Clients)
  BY <1>4 DEF ServerInv, FdsEnough
<1>6. Cardinality(Peers \ {p}) + Cardinality(SessionFds) < MaxFd
  BY <1>3, <1>4, <1>5, ServerAssumption
<1> QED
  BY <1>2, <1>6, FdLeft DEF ServerInv

LEMMA NewConnectionKept ==
  ASSUME ServerInv, handle_new_connection
  PROVE  ServerInv'
<1> DEFINE f == Lowest(FreeFds)
<1>1. PICK p \in Backlog :
        /\ owner' = [owner EXCEPT ![f] = p] /\ link' = [link EXCEPT ![p] = "open"]
        /\ unk_fds' = unk_fds \cup {f} /\ listen_fds' = listen_fds \cup {f}
  BY DEF handle_new_connection
<1>2. /\ phase' \in 1 .. 5 /\ ready' = ready \ {Listener}
      /\ UNCHANGED <<client_fds, http_fds, slist, c2s, s2c, proc, hd>>
  BY ReachType DEF handle_new_connection, Handled
<1>3. f \in Fds /\ owner[f] = Free
  BY AcceptFindsFd DEF FreeFds
<1> HIDE DEF f
<1>4. p \in Peers /\ link[p] = "backlog"
  BY DEF Backlog
<1>5. \A g \in Fds : owner[g] # p
  BY <1>4 DEF ServerInv, FdsSound
<1>6. /\ owner'[f] = p /\ \A g \in Fds : g # f => owner'[g] = owner[g]
      /\ link'[p] = "open" /\ \A q \in Peers : q # p => link'[q] = link[q]
  BY <1>1, <1>3, <1>4 DEF ServerInv, TypeOK, TablesTyped
<1>7. TypeOK'
  BY <1>1, <1>2, <1>3, <1>4 DEF ServerInv, TypeOK, TablesTyped
<1>8. f \notin unk_fds \cup client_fds \cup http_fds
  BY <1>3, Constants DEF ServerInv, FdsSound
<1>9. FdsSound'
  <2>1. \A g \in Fds : owner'[g] \in Peers =>
          link'[owner'[g]] \in {"open", "gone"} /\ g \in listen_fds'
    <3>1. \A g \in Fds : owner[g] \in Peers =>
            link[owner[g]] \in {"open", "gone"} /\ g \in listen_fds
      BY DEF ServerInv, FdsSound
    <3> QED BY <1>1, <1>3, <1>5, <1>6, <3>1
  <2>2. \A g, h \in Fds : owner'[g] \in Peers /\ owner'[g] = owner'[h] => g = h
    <3>1. \A g, h \in Fds : owner[g] \in Peers /\ owner[g] = owner[h] => g = h
      BY DEF ServerInv, FdsSound
    <3> QED BY <1>5, <1>6, <3>1
  <2>3. unk_fds' \cup client_fds' \cup http_fds' = {g \in Fds : owner'[g] \in Peers}
    <3>1. {g \in Fds : owner'[g] \in Peers} = {g \in Fds : owner[g] \in Peers} \cup {f}
      BY <1>3, <1>4, <1>6
    <3> QED BY <1>1, <1>2, <3>1 DEF ServerInv, FdsSound
  <2>4. /\ unk_fds' \cap client_fds' = {} /\ unk_fds' \cap http_fds' = {}
        /\ client_fds' \cap http_fds' = {}
    BY <1>1, <1>2, <1>8 DEF ServerInv, FdsSound
  <2>5. /\ \A g \in client_fds' : owner'[g] \in Clients
        /\ \A g \in http_fds' : owner'[g] \in Browsers
    BY <1>2, <1>6, <1>8, TableTypes DEF ServerInv, FdsSound
  <2> QED BY <2>1, <2>2, <2>3, <2>4, <2>5 DEF FdsSound
<1>10. \A i \in Slots : Open(i)' <=> Open(i)
  BY <1>2 DEF Open
<1>11. SlotsSound'
  <2>1. \A i \in Slots : Open(i) => slist[i].fd \in Fds /\ owner'[slist[i].fd] = Session
    BY <1>3, <1>6, Constants DEF ServerInv, SlotsSound
  <2> QED BY <1>2, <1>10, <2>1 DEF ServerInv, SlotsSound
<1>12. ASSUME NEW c \in Clients
       PROVE  CallSound(c)' /\ Outside(c)' /\ ReplySound(c)'
  <2>1. CallSound(c) /\ Outside(c) /\ ReplySound(c) /\ c \in Peers
    BY Constants DEF ServerInv, PeersSound
  <2>2. c # p => \A i, g : Member(c, i, g) => Member(c, i, g)'
    BY <1>2, <1>6, <1>10 DEF Member
  <2>3. c = p => hd[c].state = "idle" /\ s2c[c] = <<>>
    BY <1>4, <2>1 DEF CallSound
  <2>4. CallSound(c)'
    <3>1. CASE c = p
      BY <1>2, <1>4, <1>6, <2>1, <2>3, <3>1 DEF CallSound
    <3>2. CASE c # p
      BY <1>2, <1>6, <2>1, <2>2, <3>2 DEF CallSound
    <3> QED BY <3>1, <3>2
  <2>5. Outside(c)'
    <3>1. \A i \in Slots : \A g \in slist[i].client : g # f /\ g \in Fds
      BY <1>8, TableTypes DEF ServerInv, SlotsSound
    <3> QED BY <1>2, <1>6, <2>1, <3>1 DEF Outside
  <2>6. ReplySound(c)'
    BY <1>2, <2>1, <2>2, <2>3 DEF ReplySound
  <2> QED BY <2>4, <2>5, <2>6
<1>13. ReadySound'
  <2> SUFFICES ASSUME NEW g \in ready \cap client_fds
               PROVE  c2s[owner'[g]] # NoReq \/ link'[owner'[g]] = "gone"
    BY <1>2 DEF ReadySound
  <2>1. g \in Fds /\ g # f /\ owner[g] \in Peers /\ owner[g] # p
    BY <1>5, <1>8, TableTypes, Constants DEF ServerInv, FdsSound
  <2> QED BY <1>6, <2>1 DEF ServerInv, PeersSound, ReadySound
<1>14. PeersSound'
  BY <1>2, <1>12, <1>13 DEF ServerInv, PeersSound
<1>15. LinesSound'
  <2>1. \A g \in client_fds : g \in client_fds' /\ owner'[g] = owner[g]
    BY <1>2, <1>6, <1>8, TableTypes DEF ServerInv
  <2> QED BY <1>2, <2>1, LinesUntouched
<1>16. Signed'
  BY <1>2 DEF ServerInv, Signed
<1>17. FdsEnough'
  <2>1. SessionFds' = SessionFds
    BY <1>3, <1>4, <1>6, Constants DEF SessionFds
  <2>2. Launchers' \in SUBSET Launchers
    BY <1>2 DEF Launchers
  <2> QED BY <2>1, <2>2, CountKept DEF ServerInv, FdsEnough
<1> QED
  BY <1>7, <1>9, <1>11, <1>14, <1>15, <1>16, <1>17 DEF ServerInv

-----------------------------------------------------------------------------
(* The processes, and what the server reads of them.                       *)
LEMMA TokensLeft ==
  ASSUME ServerInv,
         \A i \in Slots : Open(i)' =>
           /\ Open(i) /\ slist'[i].fd = slist[i].fd
           /\ LeftOf(LineOf(proc', slist[i].fd), LineOf(proc, slist[i].fd)),
         \A i \in Slots : \A m :
           /\ Open(i)' /\ Token(i, m)
           /\ \E k \in DOMAIN LineOf(proc', slist[i].fd) : m = LineOf(proc', slist[i].fd)[k]
           => Token(i, m)'
  PROVE  LinesSound'
<1>1. TokensUnique'
  BY UniqueLeft DEF ServerInv, LinesSound
<1>2. TokensSound'
  <2> SUFFICES ASSUME NEW i \in Slots, Open(i)', NEW k \in DOMAIN LineOf(proc', slist'[i].fd),
                      NEW x, x = LineOf(proc', slist'[i].fd)[k], x.dest # NoFd
               PROVE  /\ x.from \in Clients /\ x.dest \in client_fds' /\ owner'[x.dest] = x.from
                      /\ x.type # "NONE" /\ x.type = hd'[x.from].asked
                      /\ c2s'[x.from] = NoReq /\ s2c'[x.from] = <<>>
                      /\ x.type # "SESSION" => x.dest \in slist'[i].client
    BY DEF TokensSound, Line, Token
  <2> DEFINE new == LineOf(proc', slist[i].fd)
             old == LineOf(proc, slist[i].fd)
  <2>1. /\ Open(i) /\ slist'[i].fd = slist[i].fd /\ LeftOf(new, old)
        /\ k \in DOMAIN new /\ new[k] = x
    OBVIOUS
  <2>2. \A l \in DOMAIN old : old[l].dest # NoFd => Token(i, old[l])
    BY <2>1 DEF ServerInv, LinesSound, TokensSound, Line
  <2> HIDE DEF new, old
  <2>3. PICK l \in DOMAIN old : Same(x, old[l])
    BY <2>1 DEF LeftOf
  <2>4. Token(i, old[l]) /\ Same(old[l], x)
    BY <2>2, <2>3 DEF Same
  <2>5. Token(i, x)
    BY <2>4, TokenSame
  <2>6. Token(i, x)'
    <3>1. \E k2 \in DOMAIN LineOf(proc', slist[i].fd) : x = LineOf(proc', slist[i].fd)[k2]
      BY <2>1 DEF new
    <3> QED BY <2>5, <3>1
  <2> QED BY <2>6 DEF Token
<1> QED
  BY <1>1, <1>2 DEF LinesSound

LEMMA ProcKept ==
  ASSUME ServerInv, UNCHANGED <<tables, link, s2c, hd>>, ready' \subseteq ready, phase' \in 1 .. 5,
         c2s' \in [Peers -> Requests], \A c \in Clients : c2s'[c] = c2s[c],
         proc' \in [Fds -> Processes], Signed', LinesSound'
  PROVE  ServerInv'
<1>1. TypeOK'
  BY DEF ServerInv, TypeOK, TablesTyped, tables
<1>2. \A i \in Slots : Open(i)' <=> Open(i)
  BY DEF Open, tables
<1>3. FdsSound' /\ SlotsSound'
  BY <1>2 DEF ServerInv, FdsSound, SlotsSound, tables
<1>4. PeersSound'
  <2>1. \A c \in Clients : \A i, g : Member(c, i, g)' <=> Member(c, i, g)
    BY <1>2 DEF Member, tables
  <2>2. ASSUME NEW c \in Clients PROVE CallSound(c)' /\ Outside(c)' /\ ReplySound(c)'
    <3>1. CallSound(c) /\ Outside(c) /\ ReplySound(c) /\ c2s'[c] = c2s[c]
      BY DEF ServerInv, PeersSound
    <3>2. CallSound(c)'
      BY <2>1, <3>1 DEF CallSound
    <3>3. Outside(c)'
      BY <3>1 DEF Outside, tables
    <3>4. ReplySound(c)'
      BY <2>1, <3>1 DEF ReplySound
    <3> QED BY <3>2, <3>3, <3>4
  <2>3. ReadySound'
    <3>1. \A f \in client_fds : owner[f] \in Clients
      BY DEF ServerInv, FdsSound
    <3> QED BY <3>1 DEF ServerInv, PeersSound, ReadySound, tables
  <2> QED BY <2>2, <2>3 DEF ServerInv, PeersSound
<1>5. FdsEnough'
  <2>1. SessionFds' = SessionFds
    BY DEF SessionFds, tables
  <2>2. Launchers' \in SUBSET Launchers
    BY DEF Launchers
  <2> QED BY <2>1, <2>2, CountKept DEF ServerInv, FdsEnough
<1> QED
  BY <1>1, <1>3, <1>4, <1>5 DEF ServerInv

(* A process took or lost calls, and nobody else was concerned.            *)
LEMMA ProcessKept ==
  ASSUME ServerInv, UNCHANGED <<tables, link, c2s, s2c, hd>>, ready' \subseteq ready,
         phase' \in 1 .. 5, NEW f \in Fds, NEW r \in Processes, proc' = [proc EXCEPT ![f] = r],
         LeftOf(r.out \o r.in, LineOf(proc, f)),
         \A k \in DOMAIN r.in : r.in[k].type = "FETCH" => r.in[k].session = f,
         \A k \in DOMAIN r.out : r.out[k].session = f
  PROVE  ServerInv'
<1>1. proc' \in [Fds -> Processes] /\ proc'[f] = r /\ \A g \in Fds : g # f => proc'[g] = proc[g]
  BY DEF ServerInv, TypeOK
<1>2. Signed'
  BY <1>1 DEF ServerInv, Signed
<1>3. LinesSound'
  <2>1. \A i \in Slots : Open(i) => slist[i].fd \in Fds
    BY DEF ServerInv, SlotsSound
  <2>2. \A g \in Fds : LineOf(proc, g) \in Seq(Message)
    BY LineTypes DEF ServerInv, TypeOK
  <2>3. \A g \in Fds : LeftOf(LineOf(proc', g), LineOf(proc, g))
    <3> SUFFICES ASSUME NEW g \in Fds PROVE LeftOf(LineOf(proc', g), LineOf(proc, g))
      OBVIOUS
    <3>1. CASE g = f
      BY <1>1, <3>1 DEF LineOf
    <3>2. CASE g # f
      <4>1. LineOf(proc', g) = LineOf(proc, g)
        BY <1>1, <3>2 DEF LineOf
      <4> QED BY <2>2, <4>1, LeftOfItself
    <3> QED BY <3>1, <3>2
  <2>4. \A i \in Slots : Open(i)' <=> Open(i)
    BY DEF Open, tables
  <2>5. \A i \in Slots : \A m : Token(i, m) => Token(i, m)'
    BY DEF Token, tables
  <2>6. slist' = slist
    BY DEF tables
  <2> QED BY <2>1, <2>3, <2>4, <2>5, <2>6, TokensLeft
<1>4. c2s' \in [Peers -> Requests]
  BY DEF ServerInv, TypeOK
<1> QED
  BY <1>1, <1>2, <1>3, <1>4, ProcKept

LEMMA AnswerLeft ==
  ASSUME NEW a \in Seq(Message), NEW b \in Seq(Message), b # <<>>,
         NEW n \in Message, Same(n, b[1])
  PROVE  LeftOf(Append(a, n) \o Tail(b), a \o b)
<1> DEFINE a1 == Append(a, n)
           b1 == Tail(b)
<1>1. /\ Len(a) \in Nat /\ Len(b) \in Nat /\ Len(b) > 0
      /\ a1 \in Seq(Message) /\ Len(a1) = Len(a) + 1
      /\ \A k \in 1 .. Len(a) : a1[k] = a[k]
      /\ a1[Len(a) + 1] = n
      /\ b1 \in Seq(Message) /\ Len(b1) = Len(b) - 1
      /\ \A k \in 1 .. Len(b1) : b1[k] = b[k + 1]
  OBVIOUS
<1> HIDE DEF a1, b1
<1>2. /\ DOMAIN (a1 \o b1) = 1 .. Len(a1) + Len(b1)
      /\ \A k \in 1 .. Len(a1) : (a1 \o b1)[k] = a1[k]
      /\ \A k \in 1 .. Len(b1) : (a1 \o b1)[Len(a1) + k] = b1[k]
  <2>1. a1 \in Seq(Message) /\ b1 \in Seq(Message)
    BY <1>1
  <2> QED BY <2>1, CatIs
<1>3. /\ DOMAIN (a \o b) = 1 .. Len(a) + Len(b)
      /\ \A k \in 1 .. Len(a) : (a \o b)[k] = a[k]
      /\ \A k \in 1 .. Len(b) : (a \o b)[Len(a) + k] = b[k]
  BY CatIs
<1> DEFINE new == a1 \o b1
           old == a \o b
<1>4. \A k \in DOMAIN new : k + 0 \in DOMAIN old /\ Same(new[k], old[k + 0])
  <2>0. DOMAIN new = 1 .. Len(a) + Len(b) /\ DOMAIN old = 1 .. Len(a) + Len(b)
    BY <1>1, <1>2, <1>3
  <2> HIDE DEF new, old
  <2> SUFFICES ASSUME NEW k \in 1 .. Len(a) + Len(b)
               PROVE  Same(new[k], old[k])
    BY <2>0
  <2> USE DEF new, old
  <2>1. CASE k \in 1 .. Len(a)
    BY <1>1, <1>2, <1>3, <2>1 DEF Same
  <2>2. CASE k = Len(a) + 1
    <3>1. new[k] = n
      BY <1>1, <1>2, <2>2
    <3>2. old[k] = b[1]
      BY <1>1, <1>3, <2>2
    <3> QED BY <3>1, <3>2
  <2>3. CASE k > Len(a) + 1
    <3>1. PICK l \in 1 .. Len(b1) : k = Len(a1) + l
      <4>1. k - Len(a1) \in 1 .. Len(b1) /\ k = Len(a1) + (k - Len(a1))
        BY <1>1, <2>3
      <4> QED BY <4>1
    <3>2. new[k] = b[l + 1]
      BY <1>1, <1>2, <3>1
    <3>3. l + 1 \in 1 .. Len(b) /\ k = Len(a) + (l + 1)
      BY <1>1, <3>1
    <3>4. old[k] = b[l + 1]
      BY <1>3, <3>3
    <3> QED BY <3>2, <3>4 DEF Same
  <2> QED BY <1>1, <2>1, <2>2, <2>3
<1> HIDE DEF new, old
<1>5. LeftOf(new, old)
  BY <1>4 DEF LeftOf
<1> QED
  BY <1>5 DEF new, old, a1, b1

LEMMA TailCatIs ==
  ASSUME NEW a \in Seq(Message), NEW b \in Seq(Message), a # <<>>
  PROVE  /\ Head(a) \in Message /\ Head(a) = a[1] /\ Head(a) = (a \o b)[1]
         /\ 1 \in DOMAIN a /\ 1 \in DOMAIN (a \o b) /\ Tail(a) \in Seq(Message)
         /\ \A k \in DOMAIN Tail(a) : k + 1 \in DOMAIN a /\ Tail(a)[k] = a[k + 1]
         /\ \A k \in DOMAIN (Tail(a) \o b) :
              k + 1 \in DOMAIN (a \o b) /\ (Tail(a) \o b)[k] = (a \o b)[k + 1]
<1> DEFINE a1 == Tail(a)
<1>1. /\ Len(a) \in Nat /\ Len(b) \in Nat /\ Len(a) > 0 /\ DOMAIN a = 1 .. Len(a)
      /\ a1 \in Seq(Message) /\ Len(a1) = Len(a) - 1 /\ DOMAIN a1 = 1 .. Len(a1)
      /\ \A k \in 1 .. Len(a1) : a1[k] = a[k + 1]
      /\ Head(a) = a[1] /\ a[1] \in Message
  OBVIOUS
<1> HIDE DEF a1
<1>2. /\ DOMAIN (a1 \o b) = 1 .. Len(a1) + Len(b)
      /\ \A k \in 1 .. Len(a1) : (a1 \o b)[k] = a1[k]
      /\ \A k \in 1 .. Len(b) : (a1 \o b)[Len(a1) + k] = b[k]
  <2>1. a1 \in Seq(Message)
    BY <1>1
  <2> QED BY <2>1, CatIs
<1>3. /\ DOMAIN (a \o b) = 1 .. Len(a) + Len(b)
      /\ \A k \in 1 .. Len(a) : (a \o b)[k] = a[k]
      /\ \A k \in 1 .. Len(b) : (a \o b)[Len(a) + k] = b[k]
  BY CatIs
<1> DEFINE new == a1 \o b
           old == a \o b
<1>4. \A k \in DOMAIN new : k + 1 \in DOMAIN old /\ new[k] = old[k + 1]
  <2> SUFFICES ASSUME NEW k \in 1 .. Len(a1) + Len(b)
               PROVE  k + 1 \in DOMAIN old /\ new[k] = old[k + 1]
    BY <1>2
  <2>1. CASE k \in 1 .. Len(a1)
    BY <1>1, <1>2, <1>3, <2>1
  <2>2. CASE k > Len(a1)
    <3>1. PICK l \in 1 .. Len(b) : k = Len(a1) + l
      <4>1. k - Len(a1) \in 1 .. Len(b) /\ k = Len(a1) + (k - Len(a1))
        BY <1>1, <2>2
      <4> QED BY <4>1
    <3>2. new[k] = b[l] /\ k + 1 = Len(a) + l
      BY <1>1, <1>2, <3>1
    <3> QED BY <1>1, <1>3, <3>1, <3>2
  <2> QED BY <1>1, <2>1, <2>2
<1>5. Head(a) = old[1] /\ 1 \in DOMAIN old /\ 1 \in DOMAIN a
  BY <1>1, <1>3
<1>6. \A k \in DOMAIN a1 : k + 1 \in DOMAIN a /\ a1[k] = a[k + 1]
  BY <1>1
<1> HIDE DEF new, old
<1>7. /\ Head(a) \in Message /\ Head(a) = a[1] /\ Head(a) = old[1]
      /\ 1 \in DOMAIN a /\ 1 \in DOMAIN old /\ a1 \in Seq(Message)
      /\ \A k \in DOMAIN a1 : k + 1 \in DOMAIN a /\ a1[k] = a[k + 1]
      /\ \A k \in DOMAIN new : k + 1 \in DOMAIN old /\ new[k] = old[k + 1]
  BY <1>1, <1>4, <1>5, <1>6
<1> QED
  BY <1>7 DEF new, old, a1

LEMMA FirstPartLeft ==
  ASSUME NEW a \in Seq(Message), NEW b \in Seq(Message)
  PROVE  LeftOf(a \o <<>>, a \o b)
<1>1. a \o <<>> = a
  BY ConcatEmptySeq
<1>2. /\ DOMAIN a = 1 .. Len(a) /\ Len(a) \in Nat /\ Len(b) \in Nat
      /\ DOMAIN (a \o b) = 1 .. Len(a) + Len(b)
      /\ \A k \in 1 .. Len(a) : (a \o b)[k] = a[k]
  BY CatIs
<1>3. \A k \in DOMAIN a : k + 0 \in DOMAIN (a \o b) /\ Same(a[k], (a \o b)[k + 0])
  BY <1>2 DEF Same
<1>4. LeftOf(a, a \o b)
  BY <1>3 DEF LeftOf
<1> QED
  BY <1>1, <1>4

LEMMA SessionAnswerKept ==
  ASSUME ServerInv, NEW f \in Fds, SessionAnswer(f)
  PROVE  ServerInv'
<1> DEFINE a == proc[f].out
           b == proc[f].in
           m == Head(proc[f].in)
<1>1. PICK status \in {"OK", "FAIL"} :
        proc' = [proc EXCEPT ![f] = [alive |-> status = "OK", in |-> Tail(b),
                                     out |-> Append(a, [m EXCEPT !.status = status,
                                                                 !.session = f])]]
  BY DEF SessionAnswer, ServerInv, TypeOK
<1>2. b # <<>> /\ UNCHANGED <<loop, tables, link, c2s, s2c, hd>>
  BY DEF SessionAnswer
<1>3. a \in Seq(Message) /\ b \in Seq(Message)
  BY TableTypes DEF ServerInv
<1>4. m = b[1] /\ m \in Message /\ Len(b) \in Nat /\ Len(b) > 0
  BY <1>2, <1>3
<1> DEFINE n == [m EXCEPT !.status = status, !.session = f]
           r == [alive |-> status = "OK", in |-> Tail(b), out |-> Append(a, n)]
<1>5. n \in Message /\ Same(n, b[1]) /\ n.session = f
  <2> HIDE DEF m
  <2>1. m = [type |-> m.type, dest |-> m.dest, status |-> m.status, from |-> m.from,
             session |-> m.session]
    BY <1>4 DEF Message
  <2> DEFINE n1 == [m EXCEPT !.status = status]
  <2>2. n1 = [type |-> m.type, dest |-> m.dest, status |-> status, from |-> m.from,
              session |-> m.session]
    BY <2>1
  <2>3. n = [n1 EXCEPT !.session = f]
    OBVIOUS
  <2> HIDE DEF n1, n
  <2>4. n = [type |-> m.type, dest |-> m.dest, status |-> status, from |-> m.from, session |-> f]
    BY <2>2, <2>3
  <2> QED BY <1>4, <2>4 DEF Message, Same
<1>6. proc' = [proc EXCEPT ![f] = r]
  BY <1>1
<1>7. \A k \in DOMAIN b : b[k].type = "FETCH" => b[k].session = f
  BY DEF ServerInv, Signed
<1>8. \A k \in DOMAIN a : a[k].session = f
  BY DEF ServerInv, Signed
<1>9. LineOf(proc, f) = a \o b
  BY DEF LineOf
<1> HIDE DEF a, b, m, n
<1>10. LeftOf(Append(a, n) \o Tail(b), a \o b)
  BY <1>2, <1>3, <1>5, AnswerLeft
<1>11. Append(a, n) \in Seq(Message) /\ Tail(b) \in Seq(Message)
  BY <1>2, <1>3, <1>5
<1>12. r \in Processes
  BY <1>11 DEF Processes
<1>13. \A k \in DOMAIN Tail(b) : Tail(b)[k].type = "FETCH" => Tail(b)[k].session = f
  <2>1. \A k \in DOMAIN Tail(b) : k + 1 \in DOMAIN b /\ Tail(b)[k] = b[k + 1]
    BY <1>2, <1>3
  <2> QED BY <1>7, <2>1
<1>14. \A k \in DOMAIN Append(a, n) : Append(a, n)[k].session = f
  <2>1. \A k \in DOMAIN Append(a, n) :
          (k \in DOMAIN a /\ Append(a, n)[k] = a[k]) \/ Append(a, n)[k] = n
    BY <1>3
  <2> QED BY <1>5, <1>8, <2>1
<1>15. /\ r.in = Tail(b) /\ r.out = Append(a, n)
       /\ UNCHANGED <<tables, link, c2s, s2c, hd>> /\ ready' \subseteq ready /\ phase' \in 1 .. 5
  BY <1>2 DEF loop, ServerInv, TypeOK, TablesTyped
<1> HIDE DEF r
<1> QED
  BY <1>6, <1>9, <1>10, <1>12, <1>13, <1>14, <1>15, ProcessKept

LEMMA SessionDiesKept ==
  ASSUME ServerInv, NEW f \in Fds, SessionDies(f)
  PROVE  ServerInv'
<1> DEFINE a == proc[f].out
           r == [alive |-> FALSE, in |-> <<>>, out |-> a]
<1>1. /\ proc' = [proc EXCEPT ![f] = [alive |-> FALSE, in |-> <<>>, out |-> @.out]]
      /\ UNCHANGED <<loop, tables, link, c2s, s2c, hd>>
  BY DEF SessionDies
<1>2. /\ a \in Seq(Message) /\ proc[f].in \in Seq(Message)
      /\ proc[f] = [alive |-> proc[f].alive, in |-> proc[f].in, out |-> a]
  BY TableTypes DEF ServerInv
<1>3. proc' = [proc EXCEPT ![f] = r]
  BY <1>1
<1>4. r \in Processes
  BY <1>2 DEF Processes
<1>5. LeftOf(r.out \o r.in, LineOf(proc, f))
  BY <1>2, FirstPartLeft DEF LineOf
<1>6. \A k \in DOMAIN r.in : r.in[k].type = "FETCH" => r.in[k].session = f
  OBVIOUS
<1>7. \A k \in DOMAIN r.out : r.out[k].session = f
  BY DEF ServerInv, Signed
<1>8. ready' \subseteq ready /\ phase' \in 1 .. 5
  BY <1>1 DEF loop, ServerInv, TypeOK, TablesTyped
<1> HIDE DEF r
<1> QED
  BY <1>1, <1>3, <1>4, <1>5, <1>6, <1>7, <1>8, ProcessKept

(* The server takes the first answer of a process off its line.            *)
LEMMA TakenIs ==
  ASSUME ServerInv, NEW f \in Fds, proc[f].out # <<>>,
         proc' = [proc EXCEPT ![f] = [alive |-> @.alive, in |-> @.in, out |-> Tail(@.out)]]
  PROVE  /\ proc' \in [Fds -> Processes] /\ Signed'
         /\ \A g \in Fds : g # f => LineOf(proc', g) = LineOf(proc, g)
         /\ LeftOf(LineOf(proc', f), LineOf(proc, f))
         /\ Head(proc[f].out) = LineOf(proc, f)[1] /\ 1 \in DOMAIN LineOf(proc, f)
         /\ Head(proc[f].out) \in Message /\ Head(proc[f].out).session = f
         /\ \A k \in DOMAIN LineOf(proc', f) :
              k + 1 \in DOMAIN LineOf(proc, f) /\ LineOf(proc', f)[k] = LineOf(proc, f)[k + 1]
<1> DEFINE a == proc[f].out
           b == proc[f].in
           r == [alive |-> proc[f].alive, in |-> b, out |-> Tail(a)]
<1>1. a \in Seq(Message) /\ b \in Seq(Message) /\ proc[f].alive \in BOOLEAN /\ a # <<>>
  BY TableTypes DEF ServerInv
<1>2. proc' = [proc EXCEPT ![f] = r]
  OBVIOUS
<1>3. \A k \in DOMAIN b : b[k].type = "FETCH" => b[k].session = f
  BY DEF ServerInv, Signed
<1>4. \A k \in DOMAIN a : a[k].session = f
  BY DEF ServerInv, Signed
<1>5. LineOf(proc, f) = a \o b
  BY DEF LineOf
<1> HIDE DEF a, b
<1>6. /\ Head(a) \in Message /\ Head(a) = a[1] /\ Head(a) = (a \o b)[1]
      /\ 1 \in DOMAIN a /\ 1 \in DOMAIN (a \o b) /\ Tail(a) \in Seq(Message)
      /\ \A k \in DOMAIN Tail(a) : k + 1 \in DOMAIN a /\ Tail(a)[k] = a[k + 1]
      /\ \A k \in DOMAIN (Tail(a) \o b) :
           k + 1 \in DOMAIN (a \o b) /\ (Tail(a) \o b)[k] = (a \o b)[k + 1]
  BY <1>1, TailCatIs
<1>7. r \in Processes /\ r.in = b /\ r.out = Tail(a)
  BY <1>1, <1>6 DEF Processes
<1> HIDE DEF r
<1>8. proc' \in [Fds -> Processes] /\ proc'[f] = r /\ \A g \in Fds : g # f => proc'[g] = proc[g]
  <2>1. proc \in [Fds -> Processes]
    BY DEF ServerInv, TypeOK
  <2> HIDE DEF Processes
  <2> QED BY <1>2, <1>7, <2>1
<1>9. LineOf(proc', f) = Tail(a) \o b
  BY <1>7, <1>8 DEF LineOf
<1>10. Signed'
  <2>1. \A k \in DOMAIN Tail(a) : Tail(a)[k].session = f
    BY <1>4, <1>6
  <2>2. proc'[f].in = b /\ proc'[f].out = Tail(a)
    BY <1>7, <1>8
  <2>3. /\ \A k \in DOMAIN proc'[f].in : proc'[f].in[k].type = "FETCH" => proc'[f].in[k].session = f
        /\ \A k \in DOMAIN proc'[f].out : proc'[f].out[k].session = f
    BY <1>3, <2>1, <2>2
  <2>4. \A g \in Fds : g # f => proc'[g] = proc[g]
    BY <1>8
  <2> QED BY <2>3, <2>4 DEF ServerInv, Signed
<1>11. LeftOf(LineOf(proc', f), LineOf(proc, f))
  <2>1. \A k \in DOMAIN (Tail(a) \o b) :
          k + 1 \in DOMAIN (a \o b) /\ Same((Tail(a) \o b)[k], (a \o b)[k + 1])
    BY <1>6 DEF Same
  <2>2. LeftOf(Tail(a) \o b, a \o b)
    BY <2>1 DEF LeftOf
  <2> QED BY <1>5, <1>9, <2>2
<1>12. \A g \in Fds : g # f => LineOf(proc', g) = LineOf(proc, g)
  BY <1>8 DEF LineOf
<1>13. Head(a).session = f
  BY <1>4, <1>6
<1> QED
  BY <1>5, <1>6, <1>8, <1>9, <1>10, <1>11, <1>12, <1>13 DEF a

-----------------------------------------------------------------------------
(* The server serves client p, and nobody else: the others keep their      *)
(* connections, requests, replies and sessions.                            *)
Served(p) ==
  /\ UNCHANGED <<link, hd, unk_fds, client_fds, http_fds>>
  /\ listen_fds \subseteq listen_fds' /\ ready' \subseteq ready
  /\ \A f \in Fds : owner'[f] = owner[f] \/ (owner[f] \notin Peers /\ owner'[f] \notin Peers)
  /\ \A i \in Slots : Open(i) => /\ Open(i)' /\ slist'[i].fd = slist[i].fd
                                 /\ slist[i].client \subseteq slist'[i].client
  /\ \A i \in Slots : \A f \in slist'[i].client :
       f \in slist[i].client \/ (f \in Fds /\ owner[f] = p)
  /\ \A q \in Clients : q # p => c2s'[q] = c2s[q] /\ s2c'[q] = s2c[q]
  /\ \A b \in Browsers : s2c'[b] = s2c[b]
  /\ \A f \in ready' \cap client_fds : owner[f] = p => c2s'[p] = c2s[p]

LEMMA ServedOwners ==
  ASSUME NEW p, Served(p)
  PROVE  \A f \in Fds : \A q \in Peers : owner'[f] = q <=> owner[f] = q
BY DEF Served

LEMMA ServedMember ==
  ASSUME NEW p, Served(p), NEW c \in Clients, NEW i, NEW g, Member(c, i, g)
  PROVE  Member(c, i, g)'
<1>1. i \in Slots /\ c \in Peers
  BY Constants DEF Member
<1>2. \A f \in Fds : owner'[f] = c <=> owner[f] = c
  BY <1>1, ServedOwners
<1>3. Open(i) => Open(i)' /\ slist'[i].fd = slist[i].fd /\ slist[i].client \subseteq slist'[i].client
  BY <1>1 DEF Served
<1> QED
  BY <1>1, <1>2, <1>3 DEF Member

LEMMA ServedToken ==
  ASSUME ServerInv, NEW p, Served(p),
         NEW i \in Slots, NEW m, Open(i), Token(i, m), m.from # p
  PROVE  Token(i, m)'
<1>1. m.from \in Clients /\ m.from \in Peers /\ m.dest \in client_fds /\ m.dest \in Fds
  BY Constants, TableTypes DEF Token, ServerInv
<1>2. owner'[m.dest] = m.from
  BY <1>1, ServedOwners DEF Token
<1>3. c2s'[m.from] = c2s[m.from] /\ s2c'[m.from] = s2c[m.from]
  BY <1>1 DEF Served
<1>4. slist[i].client \subseteq slist'[i].client /\ client_fds' = client_fds /\ hd' = hd
  BY DEF Served
<1> QED
  BY <1>1, <1>2, <1>3, <1>4 DEF Token

LEMMA ServedPeers ==
  ASSUME ServerInv, NEW p \in Clients, Served(p), CallSound(p)', Outside(p)', ReplySound(p)'
  PROVE  FdsSound' /\ PeersSound'
<1>1. /\ link' = link /\ hd' = hd /\ unk_fds' = unk_fds /\ client_fds' = client_fds
      /\ http_fds' = http_fds /\ listen_fds \subseteq listen_fds' /\ ready' \subseteq ready
  BY DEF Served
<1>2. \A f \in Fds : \A q \in Peers : owner'[f] = q <=> owner[f] = q
  BY ServedOwners
<1>3. \A f \in Fds : owner'[f] \in Peers \/ owner[f] \in Peers => owner'[f] = owner[f]
  BY <1>2
<1>4. FdsSound'
  <2>1. \A f \in Fds : owner'[f] \in Peers =>
          link[owner'[f]] \in {"open", "gone"} /\ f \in listen_fds'
    BY <1>1, <1>3 DEF ServerInv, FdsSound
  <2>2. \A f, g \in Fds : owner'[f] \in Peers /\ owner'[f] = owner'[g] => f = g
    BY <1>3 DEF ServerInv, FdsSound
  <2>3. {f \in Fds : owner'[f] \in Peers} = {f \in Fds : owner[f] \in Peers}
    BY <1>3
  <2>4. /\ \A f \in client_fds : owner'[f] \in Clients
        /\ \A f \in http_fds : owner'[f] \in Browsers
    BY <1>3, TableTypes, Constants DEF ServerInv, FdsSound
  <2> QED BY <1>1, <2>1, <2>2, <2>3, <2>4 DEF ServerInv, FdsSound
<1>5. ASSUME NEW c \in Clients, c # p
      PROVE  CallSound(c)' /\ Outside(c)' /\ ReplySound(c)'
  <2>1. CallSound(c) /\ Outside(c) /\ ReplySound(c)
    BY DEF ServerInv, PeersSound
  <2>2. c2s'[c] = c2s[c] /\ s2c'[c] = s2c[c]
    BY <1>5 DEF Served
  <2>3. \A i, g : Member(c, i, g) => Member(c, i, g)'
    BY ServedMember
  <2>4. CallSound(c)'
    BY <1>1, <2>1, <2>2, <2>3 DEF CallSound
  <2>5. Outside(c)'
    <3> SUFFICES ASSUME NEW i \in Slots, NEW f \in slist'[i].client,
                        hd[c].state \in {"idle", "launched"} /\ ~(hd[c].asked = "JOIN" /\ c2s[c] = NoReq)
                 PROVE  owner'[f] # c
      BY <1>1, <2>2 DEF Outside
    <3>1. f \in slist[i].client \/ (f \in Fds /\ owner[f] = p)
      BY DEF Served
    <3>2. f \in Fds
      BY <3>1, TableTypes DEF ServerInv
    <3>3. owner[f] # c
      BY <1>5, <2>1, <3>1 DEF Outside
    <3> QED BY <1>2, <3>2, <3>3, Constants
  <2>6. ReplySound(c)'
    BY <1>1, <2>1, <2>2, <2>3 DEF ReplySound
  <2> QED BY <2>4, <2>5, <2>6
<1>6. \A b \in Browsers : hd'[b].asked = "NONE" /\ s2c'[b] = <<>>
  BY <1>1 DEF ServerInv, PeersSound, Served
<1>7. ReadySound'
  <2> SUFFICES ASSUME NEW f \in ready' \cap client_fds
               PROVE  c2s'[owner'[f]] # NoReq \/ link[owner'[f]] = "gone"
    BY <1>1 DEF ReadySound
  <2>1. f \in Fds /\ owner[f] \in Clients /\ owner'[f] = owner[f]
    BY <1>3, TableTypes, Constants DEF ServerInv, FdsSound
  <2>2. c2s[owner[f]] # NoReq \/ link[owner[f]] = "gone"
    BY <1>1 DEF ServerInv, PeersSound, ReadySound
  <2>3. c2s'[owner[f]] = c2s[owner[f]]
    BY <2>1 DEF Served
  <2> QED BY <2>1, <2>2, <2>3
<1> QED
  BY <1>4, <1>5, <1>6, <1>7 DEF PeersSound

(* A handler took the first answer of the process of slot i: the lines of  *)
(* the sessions are what is left.                                          *)
LEMMA TakenLeft ==
  ASSUME ServerInv, NEW i \in Slots, Open(i), NEW f, f = slist[i].fd, UNCHANGED slist,
         \A g \in Fds : g # f => LineOf(proc', g) = LineOf(proc, g),
         LeftOf(LineOf(proc', f), LineOf(proc, f))
  PROVE  \A j \in Slots : Open(j)' =>
           /\ Open(j) /\ slist'[j].fd = slist[j].fd
           /\ LeftOf(LineOf(proc', slist[j].fd), LineOf(proc, slist[j].fd))
<1> SUFFICES ASSUME NEW j \in Slots, Open(j)'
             PROVE  /\ Open(j) /\ slist'[j].fd = slist[j].fd
                    /\ LeftOf(LineOf(proc', slist[j].fd), LineOf(proc, slist[j].fd))
  OBVIOUS
<1>1. Open(j) /\ slist'[j].fd = slist[j].fd
  BY DEF Open
<1>2. slist[j].fd \in Fds
  BY <1>1 DEF ServerInv, SlotsSound
<1>3. LineOf(proc, slist[j].fd) \in Seq(Message)
  BY <1>2, LineTypes DEF ServerInv, TypeOK
<1>4. CASE slist[j].fd = f
  BY <1>1, <1>4
<1>5. CASE slist[j].fd # f
  BY <1>1, <1>2, <1>3, <1>5, LeftOfItself
<1> QED
  BY <1>4, <1>5

(* A message that no client waits for is dropped.                          *)
LEMMA AnswerDropped ==
  ASSUME ServerInv, NEW i \in Slots, handle_session_socket(i), proc[slist[i].fd].out # <<>>,
         Head(proc[slist[i].fd].out).dest = NoFd
  PROVE  ServerInv'
<1> DEFINE f == slist[i].fd
<1>1. /\ Open(i) /\ ready' \subseteq ready
      /\ proc' = [proc EXCEPT ![f] = [alive |-> @.alive, in |-> @.in, out |-> Tail(@.out)]]
      /\ UNCHANGED <<s2c, owner, link, listen_fds, client_fds, slist, unk_fds, http_fds, c2s, hd>>
  BY DEF handle_session_socket, Handled
<1>2. phase' \in 1 .. 5
  BY ReachType DEF handle_session_socket
<1>3. f \in Fds
  BY <1>1 DEF ServerInv, SlotsSound
<1>4. proc[f].out # <<>>
  OBVIOUS
<1> HIDE DEF f
<1>5. /\ proc' \in [Fds -> Processes] /\ Signed'
      /\ \A g \in Fds : g # f => LineOf(proc', g) = LineOf(proc, g)
      /\ LeftOf(LineOf(proc', f), LineOf(proc, f))
  BY <1>1, <1>3, <1>4, TakenIs
<1>6. \A j \in Slots : Open(j)' =>
        /\ Open(j) /\ slist'[j].fd = slist[j].fd
        /\ LeftOf(LineOf(proc', slist[j].fd), LineOf(proc, slist[j].fd))
  BY <1>1, <1>5, TakenLeft DEF f
<1>7. LinesSound'
  <2>1. \A j \in Slots : \A m : Token(j, m) => Token(j, m)'
    BY <1>1 DEF Token
  <2> QED BY <1>6, <2>1, TokensLeft
<1>8. UNCHANGED tables /\ c2s' \in [Peers -> Requests]
  BY <1>1 DEF tables, ServerInv, TypeOK
<1> QED
  BY <1>1, <1>2, <1>5, <1>7, <1>8, ProcKept

(* A message with its destination replaced.                                *)
LEMMA Readdressed ==
  ASSUME NEW m \in Message, NEW i \in Int
  PROVE  /\ [m EXCEPT !.dest = i] \in Message /\ [m EXCEPT !.dest = i].dest = i
         /\ [m EXCEPT !.dest = i].type = m.type /\ [m EXCEPT !.dest = i].from = m.from
         /\ [m EXCEPT !.dest = i].status = m.status /\ [m EXCEPT !.dest = i].session = m.session
BY DEF Message

LEMMA OneMessage ==
  ASSUME NEW S, NEW n \in S
  PROVE  /\ Append(<<>>, n) = <<n>> /\ <<n>> \in Seq(S) /\ <<n>> # <<>>
         /\ Len(<<n>>) = 1 /\ <<n>>[1] = n /\ DOMAIN <<n>> = {1}
OBVIOUS

(* m, first on the line at f, goes as n to client p.                       *)
Delivers(i, f, m, p, n) ==
  /\ Open(i) /\ f = slist[i].fd
  /\ m \in Message /\ m.session = f /\ m.dest # NoFd /\ p = m.from
  /\ m = LineOf(proc, f)[1] /\ 1 \in DOMAIN LineOf(proc, f)
  /\ n = [m EXCEPT !.dest = i] /\ SendTo(m.dest, n)
  /\ proc' \in [Fds -> Processes] /\ Signed'
  /\ \A g \in Fds : g # f => LineOf(proc', g) = LineOf(proc, g)
  /\ LeftOf(LineOf(proc', f), LineOf(proc, f))
  /\ \A k \in DOMAIN LineOf(proc', f) :
       k + 1 \in DOMAIN LineOf(proc, f) /\ LineOf(proc', f)[k] = LineOf(proc, f)[k + 1]
  /\ phase' \in 1 .. 5 /\ ready' \subseteq ready /\ UNCHANGED <<unk_fds, http_fds, c2s, hd>>

(* The answer that is first on a line reaches the client that asked.       *)
LEMMA AnswerDelivered ==
  ASSUME ServerInv, NEW i \in Slots, NEW f, NEW m, NEW p, NEW n, Delivers(i, f, m, p, n)
  PROVE  ServerInv'
<1>1. /\ Open(i) /\ f = slist[i].fd
      /\ m \in Message /\ m.session = f /\ m.dest # NoFd /\ p = m.from
      /\ m = LineOf(proc, f)[1] /\ 1 \in DOMAIN LineOf(proc, f)
      /\ n = [m EXCEPT !.dest = i] /\ SendTo(m.dest, n)
      /\ phase' \in 1 .. 5 /\ ready' \subseteq ready /\ UNCHANGED <<unk_fds, http_fds, c2s, hd>>
  BY DEF Delivers
<1>2. /\ proc' \in [Fds -> Processes] /\ Signed'
      /\ \A g \in Fds : g # f => LineOf(proc', g) = LineOf(proc, g)
      /\ LeftOf(LineOf(proc', f), LineOf(proc, f))
      /\ \A k \in DOMAIN LineOf(proc', f) :
           k + 1 \in DOMAIN LineOf(proc, f) /\ LineOf(proc', f)[k] = LineOf(proc, f)[k + 1]
  BY DEF Delivers
<1>3. f \in Fds /\ \A j \in Slots : Open(j) /\ slist[j].fd = f => j = i
  BY <1>1 DEF ServerInv, SlotsSound
<1>4. Token(i, m)
  <2>1. \A k \in DOMAIN Line(slist[i].fd) :
          Line(slist[i].fd)[k].dest # NoFd => Token(i, Line(slist[i].fd)[k])
    BY <1>1 DEF ServerInv, LinesSound, TokensSound
  <2> QED BY <1>1, <2>1 DEF Line
<1>5. /\ p \in Clients /\ p \in Peers /\ m.dest \in Fds /\ owner[m.dest] = p
      /\ hd[p].asked # "NONE" /\ link[p] = "open"
      /\ \A g \in Fds : owner[g] = p => g = m.dest
      /\ m.type = hd[p].asked /\ c2s[p] = NoReq /\ s2c[p] = <<>>
      /\ m.type # "SESSION" => m.dest \in slist[i].client
  BY <1>1, <1>4, TokenFacts, Constants DEF Token
<1>6. /\ n \in Message /\ n.dest = i /\ n.type = m.type /\ n.from = p
      /\ n.status = m.status /\ n.session = f
  <2>1. i \in Int
    BY Constants
  <2> QED BY <1>1, <2>1, Readdressed
<1>7. /\ s2c' = [s2c EXCEPT ![p] = Append(@, n)]
      /\ UNCHANGED <<owner, link, listen_fds, client_fds, slist>>
  BY <1>1, <1>5, Constants DEF SendTo
<1>8. s2c \in [Peers -> Seq(Message)]
  BY DEF ServerInv, TypeOK
<1>9. /\ s2c' \in [Peers -> Seq(Message)] /\ s2c'[p] = <<n>>
       /\ \A q \in Peers : q # p => s2c'[q] = s2c[q]
  <2>1. Append(s2c[p], n) = <<n>> /\ <<n>> \in Seq(Message)
    BY <1>5, <1>6, OneMessage
  <2>2. s2c' = [s2c EXCEPT ![p] = <<n>>]
    BY <1>5, <1>7, <1>8, <2>1
  <2> QED BY <1>5, <1>8, <2>1, <2>2
<1>10. \A j \in Slots : Open(j)' <=> Open(j)
  BY <1>7 DEF Open
<1>11. Served(p)
  <2>1. \A q \in Clients : q # p => s2c'[q] = s2c[q]
    BY <1>9, Constants
  <2>2. \A b \in Browsers : s2c'[b] = s2c[b]
    BY <1>5, <1>9, Constants
  <2> QED BY <1>1, <1>7, <1>10, <2>1, <2>2 DEF Served
<1>12. CallSound(p) /\ Outside(p)
  BY <1>1, <1>5 DEF ServerInv, PeersSound
<1>13. CallSound(p)'
  <2>1. \A j, g : Member(p, j, g) => Member(p, j, g)'
    BY <1>5, <1>11, ServedMember
  <2> QED BY <1>1, <1>5, <1>7, <1>12, <2>1 DEF CallSound
<1>14. Outside(p)'
  BY <1>1, <1>7, <1>12 DEF Outside
<1>15. ReplySound(p)'
  <2>1. m.type # "SESSION" => Member(p, i, f)
    BY <1>1, <1>3, <1>5 DEF Member
  <2>2. m.type # "SESSION" => Member(p, i, f)'
    BY <1>5, <1>11, <2>1, ServedMember
  <2>3. Len(s2c'[p]) = 1 /\ s2c'[p][1] = n
    BY <1>6, <1>9, OneMessage
  <2> QED BY <1>1, <1>5, <1>6, <2>2, <2>3 DEF ReplySound
<1>16. FdsSound' /\ PeersSound'
  BY <1>5, <1>11, <1>13, <1>14, <1>15, ServedPeers
<1>17. SlotsSound'
  BY <1>7, <1>10 DEF ServerInv, SlotsSound
<1>18. \A j \in Slots : Open(j)' =>
         /\ Open(j) /\ slist'[j].fd = slist[j].fd
         /\ LeftOf(LineOf(proc', slist[j].fd), LineOf(proc, slist[j].fd))
  BY <1>1, <1>2, <1>7, TakenLeft
<1>19. ASSUME NEW j \in Slots, NEW x, Open(j), Token(j, x),
              NEW k \in DOMAIN LineOf(proc', slist[j].fd), x = LineOf(proc', slist[j].fd)[k]
       PROVE  x.from # p
  <2> SUFFICES ASSUME x.from = p PROVE FALSE
    OBVIOUS
  <2>1. x.dest = m.dest /\ x.dest # NoFd
    <3>1. x.dest \in Fds /\ owner[x.dest] = p
      BY <1>19, TokenFacts DEF Token
    <3> QED BY <1>5, <3>1, Constants
  <2>2. \A l \in DOMAIN LineOf(proc, slist[j].fd) :
          x = LineOf(proc, slist[j].fd)[l] => j = i /\ l = 1
    <3>1. \A k2 \in DOMAIN Line(f) : \A l \in DOMAIN Line(slist[j].fd) :
            Line(f)[k2].dest # NoFd /\ Line(f)[k2].dest = Line(slist[j].fd)[l].dest => i = j /\ k2 = l
      <4>1. \A k2 \in DOMAIN Line(slist[i].fd) : \A l \in DOMAIN Line(slist[j].fd) :
              /\ Line(slist[i].fd)[k2].dest # NoFd
              /\ Line(slist[i].fd)[k2].dest = Line(slist[j].fd)[l].dest
              => i = j /\ k2 = l
        BY <1>1, <1>19 DEF ServerInv, LinesSound, TokensUnique
      <4> QED BY <1>1, <4>1
    <3>2. 1 \in DOMAIN Line(f) /\ Line(f)[1] = m
      BY <1>1, <1>2 DEF Line
    <3> QED BY <1>1, <1>2, <2>1, <3>1, <3>2 DEF Line
  <2>3. CASE j = i
    <3>1. k \in DOMAIN LineOf(proc', f) /\ x = LineOf(proc', f)[k]
      BY <1>1, <1>19, <2>3
    <3>2. k + 1 \in DOMAIN LineOf(proc, f) /\ x = LineOf(proc, f)[k + 1]
      BY <1>2, <3>1
    <3>3. k + 1 = 1
      BY <1>1, <2>2, <2>3, <3>2
    <3>4. LineOf(proc', f) \in Seq(Message)
      BY <1>2, <1>3, LineTypes
    <3>5. k \in 1 .. Len(LineOf(proc', f))
      BY <3>1, <3>4
    <3> QED BY <3>3, <3>5
  <2>4. CASE j # i
    <3>1. slist[j].fd \in Fds /\ slist[j].fd # f
      BY <1>1, <1>3, <1>19, <2>4 DEF ServerInv, SlotsSound
    <3>2. LineOf(proc', slist[j].fd) = LineOf(proc, slist[j].fd)
      BY <1>2, <3>1
    <3> QED BY <1>2, <1>19, <2>2, <2>4, <3>2
  <2> QED BY <1>2, <2>3, <2>4
<1>20. LinesSound'
  <2>1. \A j \in Slots : \A x :
          /\ Open(j)' /\ Token(j, x)
          /\ \E k \in DOMAIN LineOf(proc', slist[j].fd) : x = LineOf(proc', slist[j].fd)[k]
          => Token(j, x)'
    BY <1>10, <1>11, <1>19, ServedToken
  <2> QED BY <1>18, <2>1, TokensLeft
<1>21. TypeOK'
  BY <1>1, <1>2, <1>7, <1>9 DEF ServerInv, TypeOK, TablesTyped
<1>22. FdsEnough'
  BY <1>1, <1>7 DEF ServerInv, FdsEnough, SessionFds, Launchers
<1> QED
  BY <1>2, <1>16, <1>17, <1>20, <1>21, <1>22 DEF ServerInv

(* The server reads one answer of a process.                               *)
LEMMA SessionSocketKept ==
  ASSUME ServerInv, NEW i \in Slots, handle_session_socket(i)
  PROVE  ServerInv'
<1> DEFINE f == slist[i].fd
           m == Head(proc[f].out)
<1>1. CASE proc[f].out = <<>>
  BY <1>1, SessionSocketCloses
<1>2. CASE proc[f].out # <<>> /\ m.dest = NoFd
  BY <1>2, AnswerDropped
<1>3. CASE proc[f].out # <<>> /\ m.dest # NoFd
  <2>1. /\ Open(i) /\ ready' \subseteq ready
        /\ proc' = [proc EXCEPT ![f] = [alive |-> @.alive, in |-> @.in, out |-> Tail(@.out)]]
        /\ SendTo(m.dest, [m EXCEPT !.dest = i]) /\ UNCHANGED <<unk_fds, http_fds, c2s, hd>>
    BY <1>3 DEF handle_session_socket, Handled
  <2>2. phase' \in 1 .. 5
    BY ReachType DEF handle_session_socket
  <2>3. f \in Fds
    BY <2>1 DEF ServerInv, SlotsSound
  <2> HIDE DEF f
  <2>4. /\ proc' \in [Fds -> Processes] /\ Signed'
        /\ \A g \in Fds : g # f => LineOf(proc', g) = LineOf(proc, g)
        /\ LeftOf(LineOf(proc', f), LineOf(proc, f))
        /\ m = LineOf(proc, f)[1] /\ 1 \in DOMAIN LineOf(proc, f)
        /\ m \in Message /\ m.session = f
        /\ \A k \in DOMAIN LineOf(proc', f) :
             k + 1 \in DOMAIN LineOf(proc, f) /\ LineOf(proc', f)[k] = LineOf(proc, f)[k + 1]
    BY <1>3, <2>1, <2>3, TakenIs
  <2> HIDE DEF m
  <2>5. f = slist[i].fd
    BY DEF f
  <2>6. Delivers(i, f, m, m.from, [m EXCEPT !.dest = i])
    <3>1. /\ Open(i) /\ ready' \subseteq ready /\ UNCHANGED <<unk_fds, http_fds, c2s, hd>>
          /\ m.dest # NoFd /\ SendTo(m.dest, [m EXCEPT !.dest = i])
      BY <1>3, <2>1
    <3> QED BY <2>2, <2>4, <2>5, <3>1 DEF Delivers
  <2> QED BY <2>6, AnswerDelivered
<1> QED
  BY <1>1, <1>2, <1>3

-----------------------------------------------------------------------------
(* A request joins a line.  Position k of the session in slot i has a call *)
(* that was there before the step, at the same place.                      *)
Older(i, k) ==
  /\ Open(i) /\ slist'[i].fd = slist[i].fd
  /\ k \in DOMAIN LineOf(proc, slist[i].fd)
  /\ LineOf(proc', slist'[i].fd)[k] = LineOf(proc, slist[i].fd)[k]

(* Request r is new, at place K of slot n, and its descriptor is named by  *)
(* no other call.                                                          *)
Adds(n, K, r) ==
  /\ \A i \in Slots : Open(i)' =>
       \A k \in DOMAIN LineOf(proc', slist'[i].fd) :
         Older(i, k) \/ (i = n /\ k = K /\ LineOf(proc', slist'[i].fd)[k] = r)
  /\ \A i \in Slots : \A m : Open(i) /\ Open(i)' /\ Token(i, m) => Token(i, m)'
  /\ r.dest # NoFd => Token(n, r)'
  /\ \A i \in Slots : \A m : Open(i) /\ Token(i, m) => m.dest # r.dest

LEMMA TokensAdded ==
  ASSUME ServerInv, NEW n \in Slots, NEW K, NEW r, Adds(n, K, r)
  PROVE  LinesSound'
<1>0. /\ \A i \in Slots : Open(i)' =>
           \A k \in DOMAIN LineOf(proc', slist'[i].fd) :
             Older(i, k) \/ (i = n /\ k = K /\ LineOf(proc', slist'[i].fd)[k] = r)
      /\ \A i \in Slots : \A m : Open(i) /\ Open(i)' /\ Token(i, m) => Token(i, m)'
      /\ r.dest # NoFd => Token(n, r)'
      /\ \A i \in Slots : \A m : Open(i) /\ Token(i, m) => m.dest # r.dest
  BY DEF Adds
<1>1. \A i \in Slots : Open(i) =>
        \A k \in DOMAIN LineOf(proc, slist[i].fd) :
          LineOf(proc, slist[i].fd)[k].dest # NoFd => Token(i, LineOf(proc, slist[i].fd)[k])
  BY DEF ServerInv, LinesSound, TokensSound, Line
<1>2. ASSUME NEW i \in Slots, Open(i)', NEW k \in DOMAIN LineOf(proc', slist'[i].fd),
             NEW x, x = LineOf(proc', slist'[i].fd)[k], x.dest # NoFd
      PROVE  \/ /\ Open(i) /\ slist'[i].fd = slist[i].fd
                /\ k \in DOMAIN LineOf(proc, slist[i].fd) /\ x = LineOf(proc, slist[i].fd)[k]
                /\ Token(i, x)
             \/ i = n /\ k = K /\ x = r
  <2>1. CASE Older(i, k)
    <3>1. /\ Open(i) /\ slist'[i].fd = slist[i].fd
          /\ k \in DOMAIN LineOf(proc, slist[i].fd) /\ x = LineOf(proc, slist[i].fd)[k]
      BY <1>2, <2>1 DEF Older
    <3>2. Token(i, x)
      BY <1>1, <1>2, <3>1
    <3> QED BY <3>1, <3>2
  <2>2. CASE i = n /\ k = K /\ LineOf(proc', slist'[i].fd)[k] = r
    BY <1>2, <2>2
  <2> QED BY <1>0, <1>2, <2>1, <2>2
<1>3. TokensSound'
  <2> SUFFICES ASSUME NEW i \in Slots, Open(i)', NEW k \in DOMAIN LineOf(proc', slist'[i].fd),
                      NEW x, x = LineOf(proc', slist'[i].fd)[k], x.dest # NoFd
               PROVE  Token(i, x)'
    BY DEF TokensSound, Line, Token
  <2> QED BY <1>0, <1>2
<1>4. TokensUnique'
  <2> SUFFICES ASSUME NEW i \in Slots, NEW j \in Slots, Open(i)', Open(j)',
                      NEW k \in DOMAIN LineOf(proc', slist'[i].fd),
                      NEW l \in DOMAIN LineOf(proc', slist'[j].fd),
                      NEW x, x = LineOf(proc', slist'[i].fd)[k],
                      NEW y, y = LineOf(proc', slist'[j].fd)[l],
                      x.dest # NoFd, x.dest = y.dest
               PROVE  i = j /\ k = l
    BY DEF TokensUnique, Line
  <2>1. \/ /\ Open(i) /\ k \in DOMAIN LineOf(proc, slist[i].fd)
           /\ x = LineOf(proc, slist[i].fd)[k] /\ Token(i, x)
        \/ i = n /\ k = K /\ x = r
    BY <1>2
  <2>2. \/ /\ Open(j) /\ l \in DOMAIN LineOf(proc, slist[j].fd)
           /\ y = LineOf(proc, slist[j].fd)[l] /\ Token(j, y)
        \/ j = n /\ l = K /\ y = r
    BY <1>2
  <2>3. CASE Open(i) /\ Token(i, x) /\ Open(j) /\ Token(j, y)
             /\ k \in DOMAIN LineOf(proc, slist[i].fd) /\ x = LineOf(proc, slist[i].fd)[k]
             /\ l \in DOMAIN LineOf(proc, slist[j].fd) /\ y = LineOf(proc, slist[j].fd)[l]
    BY <2>3 DEF ServerInv, LinesSound, TokensUnique, Line
  <2>4. CASE Open(i) /\ Token(i, x) /\ y = r
    BY <1>0, <2>4
  <2>5. CASE Open(j) /\ Token(j, y) /\ x = r
    BY <1>0, <2>5
  <2> QED BY <2>1, <2>2, <2>3, <2>4, <2>5
<1> QED
  BY <1>3, <1>4 DEF LinesSound

LEMMA InIs ==
  ASSUME NEW q, q = [alive |-> q.alive, in |-> q.in, out |-> q.out], NEW s
  PROVE  [q EXCEPT !.in = s] = [alive |-> q.alive, in |-> s, out |-> q.out]
OBVIOUS

LEMMA MessageAppended ==
  ASSUME NEW S, NEW s \in Seq(S), NEW r \in S
  PROVE  /\ Append(s, r) \in Seq(S)
         /\ \A k \in DOMAIN Append(s, r) :
              (k \in DOMAIN s /\ Append(s, r)[k] = s[k]) \/ (k = Len(s) + 1 /\ Append(s, r)[k] = r)
OBVIOUS

(* The process at g gets request r.                                        *)
LEMMA AskedIs ==
  ASSUME ServerInv, NEW g \in Fds, NEW r \in Message, r.type = "FETCH" => r.session = g,
         proc' = [proc EXCEPT ![g].in = Append(@, r)]
  PROVE  /\ proc' \in [Fds -> Processes] /\ Signed'
         /\ \A h \in Fds : h # g => LineOf(proc', h) = LineOf(proc, h)
         /\ \A k \in DOMAIN LineOf(proc', g) :
              \/ k \in DOMAIN LineOf(proc, g) /\ LineOf(proc', g)[k] = LineOf(proc, g)[k]
              \/ k = Len(LineOf(proc, g)) + 1 /\ LineOf(proc', g)[k] = r
<1> DEFINE a == proc[g].out
           b == proc[g].in
           b1 == Append(b, r)
           q == [alive |-> proc[g].alive, in |-> b1, out |-> a]
<1>1. /\ a \in Seq(Message) /\ b \in Seq(Message) /\ proc[g].alive \in BOOLEAN
      /\ proc[g] = [alive |-> proc[g].alive, in |-> b, out |-> a]
  BY TableTypes DEF ServerInv
<1>2. /\ b1 \in Seq(Message)
      /\ \A k \in DOMAIN b1 : (k \in DOMAIN b /\ b1[k] = b[k]) \/ (k = Len(b) + 1 /\ b1[k] = r)
  BY <1>1, MessageAppended
<1>3. proc' = [proc EXCEPT ![g] = [proc[g] EXCEPT !.in = b1]]
  OBVIOUS
<1>4. [proc[g] EXCEPT !.in = b1] = q
  BY <1>1, InIs
<1>5. LineOf(proc, g) = a \o b
  BY DEF LineOf
<1>6. /\ \A k \in DOMAIN b : b[k].type = "FETCH" => b[k].session = g
      /\ \A k \in DOMAIN a : a[k].session = g
  BY DEF ServerInv, Signed
<1>7. Len(b1) = Len(b) + 1 /\ b1[Len(b) + 1] = r /\ \A k \in 1 .. Len(b) : b1[k] = b[k]
  BY <1>1
<1>8. q \in Processes /\ q.in = b1 /\ q.out = a
  BY <1>1, <1>2 DEF Processes
<1> HIDE DEF a, b, b1, q
<1>9. proc' = [proc EXCEPT ![g] = q]
  BY <1>3, <1>4
<1>10. /\ proc' \in [Fds -> Processes] /\ proc'[g] = q
       /\ \A h \in Fds : h # g => proc'[h] = proc[h]
  BY <1>8, <1>9 DEF ServerInv, TypeOK
<1>11. Signed'
  <2>1. /\ \A k \in DOMAIN proc'[g].in :
             proc'[g].in[k].type = "FETCH" => proc'[g].in[k].session = g
        /\ \A k \in DOMAIN proc'[g].out : proc'[g].out[k].session = g
    <3>1. \A k \in DOMAIN b1 : b1[k].type = "FETCH" => b1[k].session = g
      BY <1>2, <1>6
    <3> QED BY <1>6, <1>8, <1>10, <3>1
  <2> QED BY <1>10, <2>1 DEF ServerInv, Signed
<1>12. LineOf(proc', g) = a \o b1
  BY <1>8, <1>10 DEF LineOf
<1>13. /\ DOMAIN (a \o b) = 1 .. Len(a) + Len(b) /\ Len(a \o b) = Len(a) + Len(b)
       /\ Len(a) \in Nat /\ Len(b) \in Nat
       /\ \A k \in 1 .. Len(a) : (a \o b)[k] = a[k]
       /\ \A k \in 1 .. Len(b) : (a \o b)[Len(a) + k] = b[k]
  BY <1>1, CatIs
<1>14. /\ DOMAIN (a \o b1) = 1 .. Len(a) + Len(b1)
       /\ \A k \in 1 .. Len(a) : (a \o b1)[k] = a[k]
       /\ \A k \in 1 .. Len(b1) : (a \o b1)[Len(a) + k] = b1[k]
  BY <1>1, <1>2, CatIs
<1> DEFINE new == a \o b1
           old == a \o b
<1>15. \A k \in DOMAIN new :
         (k \in DOMAIN old /\ new[k] = old[k]) \/ (k = Len(old) + 1 /\ new[k] = r)
  <2> SUFFICES ASSUME NEW k \in 1 .. Len(a) + (Len(b) + 1)
               PROVE  (k \in DOMAIN old /\ new[k] = old[k]) \/ (k = Len(old) + 1 /\ new[k] = r)
    BY <1>7, <1>14
  <2>1. CASE k \in 1 .. Len(a)
    BY <1>13, <1>14, <2>1
  <2>2. CASE k \notin 1 .. Len(a)
    <3>1. PICK l \in 1 .. Len(b) + 1 : k = Len(a) + l
      <4>1. k - Len(a) \in 1 .. Len(b) + 1 /\ k = Len(a) + (k - Len(a))
        BY <1>13, <2>2
      <4> QED BY <4>1
    <3>2. new[k] = b1[l]
      BY <1>7, <1>14, <3>1
    <3>3. CASE l = Len(b) + 1
      BY <1>7, <1>13, <3>1, <3>2, <3>3
    <3>4. CASE l \in 1 .. Len(b)
      BY <1>7, <1>13, <3>1, <3>2, <3>4
    <3>5. l = Len(b) + 1 \/ l \in 1 .. Len(b)
      BY <1>13, <3>1
    <3> QED BY <3>3, <3>4, <3>5
  <2> QED BY <2>1, <2>2
<1> HIDE DEF new, old
<1>16. LineOf(proc', g) = new /\ LineOf(proc, g) = old
  BY <1>5, <1>12 DEF new, old
<1>17. \A h \in Fds : h # g => LineOf(proc', h) = LineOf(proc, h)
  BY <1>10 DEF LineOf
<1> QED
  BY <1>10, <1>11, <1>15, <1>16, <1>17

(* A request that waits at a client's descriptor is the client's only call. *)
LEMMA RequestIs ==
  ASSUME ServerInv, NEW f \in client_fds, NEW p, p = owner[f], c2s[p] # NoReq
  PROVE  /\ f \in Fds /\ p \in Clients /\ p \in Peers /\ link[p] = "open" /\ s2c[p] = <<>>
         /\ hd[p].asked \in Calls /\ c2s[p].type = hd[p].asked
         /\ Request(f) \in Message /\ Request(f).type = hd[p].asked /\ Request(f).dest = f
         /\ Request(f).from = p /\ Request(f).session = hd[p].session
         /\ \A g \in Fds : owner[g] = p => g = f
         /\ \A i \in Slots : \A m : Open(i) /\ Token(i, m) => m.dest # f /\ m.from # p
<1>1. p \in Clients /\ p \in Peers /\ f \in Fds
  BY Constants, TableTypes DEF ServerInv, FdsSound
<1>2. CallSound(p) /\ ReplySound(p)
  BY <1>1 DEF ServerInv, PeersSound
<1>3. hd[p] \in Handles /\ hd[p].asked \in Calls \cup {"NONE"}
  BY <1>1, HandleTypes DEF ServerInv
<1>4. hd[p].asked \in Calls /\ c2s[p].type = hd[p].asked
  BY <1>2, <1>3 DEF CallSound
<1>5. link[p] = "open" /\ s2c[p] = <<>>
  <2>1. link[p] \in {"open", "gone"}
    BY <1>1 DEF ServerInv, FdsSound
  <2>2. link[p] \in {"backlog", "open", "closed"}
    BY <1>2 DEF CallSound
  <2>3. s2c[p] = <<>>
    BY <1>2 DEF ReplySound
  <2> QED BY <2>1, <2>2, <2>3
<1>6. Request(f) = [type |-> hd[p].asked, dest |-> f, status |-> "REQ", from |-> p,
                    session |-> hd[p].session]
  BY <1>4 DEF Request
<1>7. hd[p].session \in Fds \cup {NoFd} /\ f \in Int
  BY <1>1, <1>3, Constants DEF Handles
<1>8. Request(f) \in Message
  BY <1>1, <1>4, <1>6, <1>7 DEF Message
<1>9. \A g \in Fds : owner[g] = p => g = f
  BY <1>1 DEF ServerInv, FdsSound
<1>10. \A i \in Slots : \A m : Open(i) /\ Token(i, m) => m.dest # f /\ m.from # p
  <2>1. \A i \in Slots : \A m : Open(i) /\ Token(i, m) => m.dest # f
    BY <1>1, NotAwaited
  <2>2. \A i \in Slots : \A m : Token(i, m) => m.from # p
    BY DEF Token
  <2> QED BY <2>1, <2>2
<1> QED
  BY <1>1, <1>4, <1>5, <1>6, <1>8, <1>9, <1>10

(* The request of client p, at f, is forwarded to the session in slot i.   *)
Forwards(i, f, p, g, r, cl) ==
  /\ Open(i) /\ g = slist[i].fd /\ r = Request(f) /\ p = owner[f] /\ c2s[p] # NoReq
  /\ \/ r.type = "JOIN" /\ cl = slist[i].client \cup {f}
     \/ r.type = "FETCH" /\ cl = slist[i].client /\ c2s[p].dest = i
  /\ proc' = [proc EXCEPT ![g].in = Append(@, r)]
  /\ slist' = [slist EXCEPT ![i].client = cl]
  /\ c2s' = [c2s EXCEPT ![p] = NoReq]
  /\ phase' \in 1 .. 5 /\ ready' = ready \ {f}
  /\ UNCHANGED <<owner, link, listen_fds, client_fds, s2c, unk_fds, http_fds, hd>>

LEMMA ClientIs ==
  ASSUME TypeOK, NEW i \in Slots, NEW cl \in SUBSET Fds, slist' = [slist EXCEPT ![i].client = cl]
  PROVE  /\ slist' \in [Slots -> [name : Names \cup {NoName}, fd : Fds \cup {NoFd},
                                  client : SUBSET Fds]]
         /\ \A j \in Slots : /\ slist'[j].name = slist[j].name /\ slist'[j].fd = slist[j].fd
                             /\ slist'[j].client = IF j = i THEN cl ELSE slist[j].client
                             /\ Open(j)' <=> Open(j)
<1> DEFINE s == [name |-> slist[i].name, fd |-> slist[i].fd, client |-> cl]
<1>1. /\ slist[i] = [name |-> slist[i].name, fd |-> slist[i].fd, client |-> slist[i].client]
      /\ slist[i].name \in Names \cup {NoName} /\ slist[i].fd \in Fds \cup {NoFd}
  BY TableTypes
<1>2. [slist[i] EXCEPT !.client = cl] = s
  BY <1>1
<1>3. slist' = [slist EXCEPT ![i] = [slist[i] EXCEPT !.client = cl]]
  OBVIOUS
<1>4. /\ s.name = slist[i].name /\ s.fd = slist[i].fd /\ s.client = cl
      /\ s \in [name : Names \cup {NoName}, fd : Fds \cup {NoFd}, client : SUBSET Fds]
  BY <1>1
<1> HIDE DEF s
<1>5. slist' = [slist EXCEPT ![i] = s]
  BY <1>2, <1>3
<1>6. slist \in [Slots -> [name : Names \cup {NoName}, fd : Fds \cup {NoFd}, client : SUBSET Fds]]
  BY DEF TypeOK, TablesTyped
<1> QED
  BY <1>4, <1>5, <1>6 DEF Open

LEMMA ForwardKept ==
  ASSUME ServerInv, NEW f \in client_fds, NEW i \in Slots, NEW p, NEW g, NEW r, NEW cl,
         Forwards(i, f, p, g, r, cl)
  PROVE  ServerInv'
<1>1. /\ Open(i) /\ g = slist[i].fd /\ r = Request(f) /\ p = owner[f] /\ c2s[p] # NoReq
      /\ \/ r.type = "JOIN" /\ cl = slist[i].client \cup {f}
         \/ r.type = "FETCH" /\ cl = slist[i].client /\ c2s[p].dest = i
  BY DEF Forwards
<1>2. /\ phase' \in 1 .. 5 /\ ready' = ready \ {f}
      /\ UNCHANGED <<owner, link, listen_fds, client_fds, s2c, unk_fds, http_fds, hd>>
  BY DEF Forwards
<1>3. /\ f \in Fds /\ p \in Clients /\ p \in Peers /\ link[p] = "open" /\ s2c[p] = <<>>
      /\ hd[p].asked \in Calls /\ c2s[p].type = hd[p].asked
      /\ r \in Message /\ r.type = hd[p].asked /\ r.dest = f
      /\ r.from = p /\ r.session = hd[p].session
      /\ \A h \in Fds : owner[h] = p => h = f
      /\ \A j \in Slots : \A m : Open(j) /\ Token(j, m) => m.dest # f /\ m.from # p
  BY <1>1, RequestIs
<1>4. CallSound(p) /\ Outside(p)
  BY <1>3 DEF ServerInv, PeersSound
<1>5. g \in Fds /\ \A j \in Slots : Open(j) /\ slist[j].fd = g => j = i
  BY <1>1 DEF ServerInv, SlotsSound
<1>6. r.type = "FETCH" => r.session = g /\ f \in slist[i].client
  <2> SUFFICES ASSUME r.type = "FETCH" PROVE r.session = g /\ f \in slist[i].client
    OBVIOUS
  <2>1. hd[p].state = "joined" /\ hd[p].dest = i
    BY <1>1, <1>3, <1>4 DEF CallSound
  <2>2. Member(p, i, hd[p].session)
    BY <1>4, <2>1 DEF CallSound
  <2> QED BY <1>1, <1>3, <2>2 DEF Member
<1>7. r.type = "JOIN" => \A j \in Slots : f \notin slist[j].client
  BY <1>1, <1>3, <1>4 DEF CallSound, Outside
<1>8. cl \in SUBSET Fds /\ cl \subseteq client_fds /\ slist[i].client \subseteq cl /\ f \in cl
  <2>1. slist[i].client \subseteq client_fds /\ client_fds \subseteq Fds
    BY TableTypes DEF ServerInv, SlotsSound
  <2> QED BY <1>1, <1>6, <2>1
<1>9. /\ slist' \in [Slots -> [name : Names \cup {NoName}, fd : Fds \cup {NoFd},
                               client : SUBSET Fds]]
      /\ \A j \in Slots : /\ slist'[j].name = slist[j].name /\ slist'[j].fd = slist[j].fd
                          /\ slist'[j].client = IF j = i THEN cl ELSE slist[j].client
                          /\ Open(j)' <=> Open(j)
  <2>1. slist' = [slist EXCEPT ![i].client = cl]
    BY DEF Forwards
  <2> QED BY <1>8, <2>1, ClientIs DEF ServerInv
<1>10. /\ proc' \in [Fds -> Processes] /\ Signed'
       /\ \A h \in Fds : h # g => LineOf(proc', h) = LineOf(proc, h)
       /\ \A k \in DOMAIN LineOf(proc', g) :
            \/ k \in DOMAIN LineOf(proc, g) /\ LineOf(proc', g)[k] = LineOf(proc, g)[k]
            \/ k = Len(LineOf(proc, g)) + 1 /\ LineOf(proc', g)[k] = r
  <2>1. proc' = [proc EXCEPT ![g].in = Append(@, r)]
    BY DEF Forwards
  <2> QED BY <1>3, <1>5, <1>6, <2>1, AskedIs
<1>11. c2s' \in [Peers -> Requests] /\ \A q \in Peers : c2s'[q] = IF q = p THEN NoReq ELSE c2s[q]
  <2>1. c2s' = [c2s EXCEPT ![p] = NoReq]
    BY DEF Forwards
  <2> QED BY <1>3, <2>1 DEF ServerInv, TypeOK, Requests
<1>12. Served(p)
  <2>1. \A j \in Slots : \A x \in slist'[j].client :
          x \in slist[j].client \/ (x \in Fds /\ owner[x] = p)
    BY <1>1, <1>3, <1>9
  <2>2. \A j \in Slots : Open(j) => /\ Open(j)' /\ slist'[j].fd = slist[j].fd
                                    /\ slist[j].client \subseteq slist'[j].client
    BY <1>8, <1>9
  <2>3. \A x \in ready' \cap client_fds : owner[x] # p
    BY <1>2, <1>3, TableTypes DEF ServerInv
  <2>4. \A q \in Clients : q # p => c2s'[q] = c2s[q]
    BY <1>11, Constants
  <2> QED BY <1>2, <2>1, <2>2, <2>3, <2>4 DEF Served
<1>13. CallSound(p)'
  <2>1. \A j, h : Member(p, j, h) => Member(p, j, h)'
    BY <1>3, <1>12, ServedMember
  <2> QED BY <1>2, <1>3, <1>4, <1>11, <2>1 DEF CallSound, Calls
<1>14. Outside(p)'
  <2>1. hd[p].asked = "JOIN" \/ hd[p].state = "joined"
    BY <1>1, <1>3, <1>4 DEF CallSound
  <2> QED BY <1>2, <1>3, <1>11, <2>1 DEF Outside
<1>15. ReplySound(p)'
  BY <1>2, <1>3 DEF ReplySound
<1>16. FdsSound' /\ PeersSound'
  BY <1>3, <1>12, <1>13, <1>14, <1>15, ServedPeers
<1>17. SlotsSound'
  <2>1. /\ \A j \in Slots : Open(j)' => slist'[j].fd \in Fds /\ owner'[slist'[j].fd] = Session
        /\ \A j, k \in Slots : Open(j)' /\ Open(k)' /\ j # k =>
             slist'[j].fd # slist'[k].fd /\ slist'[j].name # slist'[k].name
    BY <1>2, <1>9 DEF ServerInv, SlotsSound
  <2>2. \A j \in Slots : ~Open(j)' => slist'[j].client = {}
    BY <1>1, <1>9 DEF ServerInv, SlotsSound
  <2>3. \A j \in Slots : slist'[j].client \subseteq client_fds'
    BY <1>2, <1>8, <1>9 DEF ServerInv, SlotsSound
  <2>4. \A j, k \in Slots : j # k => slist[j].client \cap slist[k].client = {}
    BY DEF ServerInv, SlotsSound
  <2>5. \A k \in Slots : i # k => cl \cap slist[k].client = {}
    BY <1>1, <1>7, <2>4
  <2>6. \A j, k \in Slots : j # k => slist'[j].client \cap slist'[k].client = {}
    BY <1>9, <2>4, <2>5
  <2> QED BY <2>1, <2>2, <2>3, <2>6 DEF SlotsSound
<1>18. LinesSound'
  <2> DEFINE K == Len(LineOf(proc, g)) + 1
  <2>1. \A j \in Slots : Open(j)' =>
          \A k \in DOMAIN LineOf(proc', slist'[j].fd) :
            Older(j, k) \/ (j = i /\ k = K /\ LineOf(proc', slist'[j].fd)[k] = r)
    <3> SUFFICES ASSUME NEW j \in Slots, Open(j)', NEW k \in DOMAIN LineOf(proc', slist'[j].fd)
                 PROVE  Older(j, k) \/ (j = i /\ k = K /\ LineOf(proc', slist'[j].fd)[k] = r)
      OBVIOUS
    <3>1. Open(j) /\ slist'[j].fd = slist[j].fd /\ slist[j].fd \in Fds
      BY <1>9 DEF ServerInv, SlotsSound
    <3>2. CASE slist[j].fd = g
      BY <1>5, <1>10, <3>1, <3>2 DEF Older
    <3>3. CASE slist[j].fd # g
      BY <1>10, <3>1, <3>3 DEF Older
    <3> QED BY <3>2, <3>3
  <2> HIDE DEF K
  <2>2. \A j \in Slots : \A m : Open(j) /\ Open(j)' /\ Token(j, m) => Token(j, m)'
    BY <1>3, <1>12, ServedToken
  <2>3. Token(i, r)'
    <3>1. c2s'[p] = NoReq /\ s2c'[p] = <<>> /\ hd'[p].asked = r.type /\ r.type # "NONE"
      BY <1>2, <1>3, <1>11 DEF Calls
    <3>2. f \in slist'[i].client /\ f \in client_fds' /\ owner'[f] = p
      BY <1>1, <1>2, <1>8, <1>9
    <3>3. r.from = p /\ r.dest = f /\ p \in Clients
      BY <1>3
    <3> QED BY <3>1, <3>2, <3>3 DEF Token
  <2>4. \A j \in Slots : \A m : Open(j) /\ Token(j, m) => m.dest # r.dest
    BY <1>3
  <2>5. r.dest # NoFd => Token(i, r)'
    BY <2>3
  <2>6. Adds(i, K, r)
    BY <2>1, <2>2, <2>4, <2>5 DEF Adds
  <2> QED BY <2>6, TokensAdded
<1>19. TypeOK'
  BY <1>2, <1>9, <1>10, <1>11 DEF ServerInv, TypeOK, TablesTyped
<1>20. FdsEnough'
  <2>1. SessionFds' = SessionFds
    BY <1>2 DEF SessionFds
  <2>2. Launchers' \in SUBSET Launchers
    <3>1. \A c \in Clients : c2s'[c] = c2s[c] \/ c2s'[c] = NoReq
      BY <1>11, Constants
    <3>2. NoReq.type # "SESSION"
      BY DEF NoReq
    <3> QED BY <1>2, <3>1, <3>2 DEF Launchers
  <2> QED BY <2>1, <2>2, CountKept DEF ServerInv, FdsEnough
<1> QED
  BY <1>10, <1>16, <1>17, <1>18, <1>19, <1>20 DEF ServerInv

(* A browser's pause is added to a line: no client's call is concerned.    *)
LEMMA PauseKept ==
  ASSUME ServerInv, NEW f \in http_fds, NEW i \in Slots, Open(i), NEW g, g = slist[i].fd,
         NEW r \in Message, r.type = "SETCFG", r.dest = NoFd,
         proc' = [proc EXCEPT ![g].in = Append(@, r)],
         c2s' = [c2s EXCEPT ![owner[f]] = NoReq], phase' \in 1 .. 5, ready' \subseteq ready,
         UNCHANGED <<tables, link, s2c, hd>>
  PROVE  ServerInv'
<1>1. g \in Fds /\ \A j \in Slots : Open(j) /\ slist[j].fd = g => j = i
  BY DEF ServerInv, SlotsSound
<1>2. /\ proc' \in [Fds -> Processes] /\ Signed'
      /\ \A h \in Fds : h # g => LineOf(proc', h) = LineOf(proc, h)
      /\ \A k \in DOMAIN LineOf(proc', g) :
           \/ k \in DOMAIN LineOf(proc, g) /\ LineOf(proc', g)[k] = LineOf(proc, g)[k]
           \/ k = Len(LineOf(proc, g)) + 1 /\ LineOf(proc', g)[k] = r
  BY <1>1, AskedIs
<1>3. c2s' \in [Peers -> Requests] /\ \A c \in Clients : c2s'[c] = c2s[c]
  <2>1. owner[f] \in Peers /\ owner[f] \notin Clients
    BY Constants DEF ServerInv, FdsSound
  <2> QED BY <2>1, Constants DEF ServerInv, TypeOK, Requests
<1>4. UNCHANGED <<slist, owner, client_fds>>
  BY DEF tables
<1>5. LinesSound'
  <2> DEFINE K == Len(LineOf(proc, g)) + 1
  <2>1. \A j \in Slots : Open(j)' =>
          \A k \in DOMAIN LineOf(proc', slist'[j].fd) :
            Older(j, k) \/ (j = i /\ k = K /\ LineOf(proc', slist'[j].fd)[k] = r)
    <3> SUFFICES ASSUME NEW j \in Slots, Open(j)', NEW k \in DOMAIN LineOf(proc', slist'[j].fd)
                 PROVE  Older(j, k) \/ (j = i /\ k = K /\ LineOf(proc', slist'[j].fd)[k] = r)
      OBVIOUS
    <3>1. Open(j) /\ slist'[j].fd = slist[j].fd /\ slist[j].fd \in Fds
      BY <1>4 DEF ServerInv, SlotsSound, Open
    <3>2. CASE slist[j].fd = g
      BY <1>1, <1>2, <3>1, <3>2 DEF Older
    <3>3. CASE slist[j].fd # g
      BY <1>2, <3>1, <3>3 DEF Older
    <3> QED BY <3>2, <3>3
  <2> HIDE DEF K
  <2>2. \A j \in Slots : \A m : Open(j) /\ Open(j)' /\ Token(j, m) => Token(j, m)'
    BY <1>3, <1>4 DEF Token
  <2>3. \A j \in Slots : \A m : Open(j) /\ Token(j, m) => m.dest # r.dest
    BY TokenFacts, Constants
  <2>4. r.dest # NoFd => Token(i, r)'
    OBVIOUS
  <2>5. Adds(i, K, r)
    BY <2>1, <2>2, <2>3, <2>4 DEF Adds
  <2> QED BY <2>5, TokensAdded
<1> QED
  BY <1>2, <1>3, <1>5, ProcKept

-----------------------------------------------------------------------------
(* A session is launched.                                                  *)
LEMMA SlotLeft ==
  ASSUME ServerInv, NEW name \in Names, \A i \in Slots : Open(i) => slist[i].name # name
  PROVE  Lowest({i \in Slots : ~Open(i)}) \in {i \in Slots : ~Open(i)}
<1> DEFINE S == {i \in Slots : Open(i)}
           h == [i \in S |-> slist[i].name]
           N == Names \ {name}
<1>1. IsFiniteSet(Names) /\ Cardinality(Names) \in Nat
  BY ServerAssumption, FS_CardinalityType
<1>2. IsFiniteSet(N) /\ Cardinality(N) = Cardinality(Names) - 1
  BY <1>1, FS_RemoveElement
<1>3. h \in Injection(S, N)
  <2>1. h \in [S -> N]
    BY TableTypes DEF ServerInv, Open
  <2>2. IsInjective(h)
    BY DEF IsInjective, ServerInv, SlotsSound
  <2> HIDE DEF S, h, N
  <2> QED BY <2>1, <2>2 DEF Injection
<1> HIDE DEF h, N
<1>4. IsFiniteSet(S) /\ Cardinality(S) <= Cardinality(Names) - 1
  BY <1>2, <1>3, FS_Injection
<1>5. Cardinality(Slots) = Cardinality(Names)
  BY <1>1, FS_Interval DEF Slots
<1>6. S # Slots
  <2> HIDE DEF S
  <2> QED BY <1>1, <1>4, <1>5
<1>7. {i \in Slots : ~Open(i)} # {}
  BY <1>6
<1>8. {i \in Slots : ~Open(i)} \in SUBSET Nat
  BY Constants
<1> QED
  BY <1>7, <1>8, LowestType

LEMMA LaunchFindsFd ==
  ASSUME ServerInv, NEW p \in Launchers
  PROVE  FreeFds \subseteq Fds /\ Lowest(FreeFds) \in FreeFds
<1>1. /\ Cardinality(Clients) \in Nat /\ Cardinality(Browsers) \in Nat
      /\ Cardinality(SessionFds) \in Nat /\ Cardinality(Launchers) \in Nat
      /\ IsFiniteSet(Launchers)
  BY CountSets
<1>2. Cardinality(Launchers) # 0
  BY <1>1, FS_EmptySet
<1>3. Cardinality(SessionFds) < Cardinality(Clients)
  BY <1>1, <1>2 DEF ServerInv, FdsEnough
<1>4. Cardinality(Peers) = Cardinality(Clients) + Cardinality(Browsers)
  BY PeerCount
<1>5. Cardinality(Peers) + Cardinality(SessionFds) < MaxFd
  BY <1>1, <1>3, <1>4, ServerAssumption
<1> QED
  BY <1>5, FdLeft DEF ServerInv

(* The request of client p, at f, launches the session in slot i, whose    *)
(* process is at g.                                                        *)
Launches(i, f, p, g, r) ==
  /\ i \in Slots /\ ~Open(i) /\ g \in Fds /\ owner[g] = Free
  /\ r = Request(f) /\ p = owner[f] /\ c2s[p].type = "SESSION"
  /\ \A j \in Slots : Open(j) => slist[j].name # c2s[p].name
  /\ slist' = [slist EXCEPT ![i] = [name |-> c2s[p].name, fd |-> g, client |-> {}]]
  /\ owner' = [owner EXCEPT ![g] = Session]
  /\ proc' = [proc EXCEPT ![g] = [alive |-> TRUE, in |-> <<r>>, out |-> <<>>]]
  /\ listen_fds' = listen_fds \cup {g}
  /\ c2s' = [c2s EXCEPT ![p] = NoReq]
  /\ phase' \in 1 .. 5 /\ ready' = ready \ {f}
  /\ UNCHANGED <<link, client_fds, s2c, unk_fds, http_fds, hd>>

LEMMA LaunchKept ==
  ASSUME ServerInv, NEW f \in client_fds, NEW i, NEW p, NEW g, NEW r, Launches(i, f, p, g, r)
  PROVE  ServerInv'
<1>1. /\ i \in Slots /\ ~Open(i) /\ g \in Fds /\ owner[g] = Free
      /\ r = Request(f) /\ p = owner[f] /\ c2s[p].type = "SESSION" /\ c2s[p] # NoReq
      /\ \A j \in Slots : Open(j) => slist[j].name # c2s[p].name
  <2>1. NoReq.type # "SESSION"
    BY DEF NoReq
  <2> QED BY <2>1 DEF Launches
<1>2. /\ phase' \in 1 .. 5 /\ ready' = ready \ {f} /\ listen_fds' = listen_fds \cup {g}
      /\ UNCHANGED <<link, client_fds, s2c, unk_fds, http_fds, hd>>
  BY DEF Launches
<1>3. /\ f \in Fds /\ p \in Clients /\ p \in Peers /\ link[p] = "open" /\ s2c[p] = <<>>
      /\ hd[p].asked = "SESSION" /\ r \in Message /\ r.type = "SESSION" /\ r.dest = f
      /\ r.from = p
      /\ \A h \in Fds : owner[h] = p => h = f
      /\ \A j \in Slots : \A m : Open(j) /\ Token(j, m) => m.dest # f /\ m.from # p
  BY <1>1, RequestIs
<1>4. CallSound(p) /\ Outside(p)
  BY <1>3 DEF ServerInv, PeersSound
<1>5. hd[p].state = "idle" /\ c2s[p].name \in Names
  BY <1>1, <1>3, <1>4 DEF CallSound
<1> DEFINE s == [name |-> c2s[p].name, fd |-> g, client |-> {}]
           q == [alive |-> TRUE, in |-> <<r>>, out |-> <<>>]
<1>6. slist' = [slist EXCEPT ![i] = s] /\ proc' = [proc EXCEPT ![g] = q]
  BY DEF Launches
<1>7. /\ s.name = c2s[p].name /\ s.fd = g /\ s.client = {}
      /\ s \in [name : Names \cup {NoName}, fd : Fds \cup {NoFd}, client : SUBSET Fds]
  BY <1>1, <1>5
<1>8. q.in = <<r>> /\ q.out = <<>> /\ q \in Processes
  BY <1>3, OneMessage DEF Processes
<1> HIDE DEF s, q
<1>9. /\ slist' \in [Slots -> [name : Names \cup {NoName}, fd : Fds \cup {NoFd},
                               client : SUBSET Fds]]
      /\ slist'[i] = s /\ \A j \in Slots : j # i => slist'[j] = slist[j]
  BY <1>1, <1>6, <1>7 DEF ServerInv, TypeOK, TablesTyped
<1>10. /\ proc' \in [Fds -> Processes] /\ proc'[g] = q
       /\ \A h \in Fds : h # g => proc'[h] = proc[h]
  BY <1>1, <1>6, <1>8 DEF ServerInv, TypeOK
<1>11. /\ owner' \in [Fds -> Peers \cup {Session, Free}] /\ owner'[g] = Session
       /\ \A h \in Fds : h # g => owner'[h] = owner[h]
  BY <1>1 DEF Launches, ServerInv, TypeOK, TablesTyped
<1>12. c2s' \in [Peers -> Requests] /\ \A x \in Peers : c2s'[x] = IF x = p THEN NoReq ELSE c2s[x]
  BY <1>3 DEF Launches, ServerInv, TypeOK, Requests
<1>13. /\ Open(i)' /\ \A j \in Slots : j # i => (Open(j)' <=> Open(j))
       /\ \A j \in Slots : slist'[j].client = slist[j].client
  <2>1. slist[i].client = {}
    BY <1>1 DEF ServerInv, SlotsSound
  <2> QED BY <1>5, <1>7, <1>9, <2>1, Constants DEF Open
<1>14. \A j \in Slots : Open(j) => slist[j].fd \in Fds /\ owner[slist[j].fd] = Session /\ slist[j].fd # g
  BY <1>1, Constants DEF ServerInv, SlotsSound
<1>15. Served(p)
  <2>1. \A h \in Fds : owner'[h] = owner[h] \/ (owner[h] \notin Peers /\ owner'[h] \notin Peers)
    BY <1>1, <1>11, Constants
  <2>2. \A j \in Slots : Open(j) => /\ Open(j)' /\ slist'[j].fd = slist[j].fd
                                    /\ slist[j].client \subseteq slist'[j].client
    BY <1>1, <1>9, <1>13
  <2>3. \A x \in ready' \cap client_fds : owner[x] # p
    BY <1>2, <1>3, TableTypes DEF ServerInv
  <2>4. \A x \in Clients : x # p => c2s'[x] = c2s[x]
    BY <1>12, Constants
  <2> QED BY <1>2, <1>13, <2>1, <2>2, <2>3, <2>4 DEF Served
<1>16. CallSound(p)' /\ Outside(p)' /\ ReplySound(p)'
  <2>1. CallSound(p)'
    BY <1>2, <1>3, <1>4, <1>5, <1>12 DEF CallSound
  <2>2. Outside(p)'
    <3> SUFFICES ASSUME NEW j \in Slots, NEW x \in slist'[j].client
                 PROVE  owner'[x] # p
      BY DEF Outside
    <3>1. x \in slist[j].client /\ x \in Fds
      BY <1>13, TableTypes DEF ServerInv
    <3>2. owner[x] # p
      BY <1>1, <1>3, <1>4, <1>5, <3>1 DEF Outside
    <3> QED BY <1>3, <1>11, <3>1, <3>2, Constants
  <2>3. ReplySound(p)'
    BY <1>2, <1>3 DEF ReplySound
  <2> QED BY <2>1, <2>2, <2>3
<1>17. FdsSound' /\ PeersSound'
  BY <1>3, <1>15, <1>16, ServedPeers
<1>18. SlotsSound'
  <2>1. \A j \in Slots : Open(j)' => slist'[j].fd \in Fds /\ owner'[slist'[j].fd] = Session
    BY <1>1, <1>7, <1>9, <1>11, <1>13, <1>14
  <2>2. \A j \in Slots : ~Open(j)' => slist'[j].client = {}
    BY <1>13 DEF ServerInv, SlotsSound
  <2>3. \A j \in Slots : slist'[j].client \subseteq client_fds'
    BY <1>2, <1>13 DEF ServerInv, SlotsSound
  <2>4. \A j, k \in Slots : Open(j)' /\ Open(k)' /\ j # k =>
          slist'[j].fd # slist'[k].fd /\ slist'[j].name # slist'[k].name
    <3>1. \A j, k \in Slots : Open(j) /\ Open(k) /\ j # k =>
            slist[j].fd # slist[k].fd /\ slist[j].name # slist[k].name
      BY DEF ServerInv, SlotsSound
    <3>2. \A j \in Slots : Open(j)' /\ j # i =>
            /\ Open(j) /\ slist'[j] = slist[j]
            /\ slist[j].fd # slist'[i].fd /\ slist[j].name # slist'[i].name
      BY <1>1, <1>7, <1>9, <1>13, <1>14
    <3> QED BY <3>1, <3>2
  <2>5. \A j, k \in Slots : j # k => slist'[j].client \cap slist'[k].client = {}
    BY <1>13 DEF ServerInv, SlotsSound
  <2> QED BY <2>1, <2>2, <2>3, <2>4, <2>5 DEF SlotsSound
<1>19. Signed'
  <2>1. /\ \A k \in DOMAIN <<r>> : <<r>>[k].type = "FETCH" => <<r>>[k].session = g
        /\ \A k \in DOMAIN <<>> : <<>>[k].session = g
    BY <1>3, OneMessage
  <2>2. /\ \A k \in DOMAIN proc'[g].in : proc'[g].in[k].type = "FETCH" => proc'[g].in[k].session = g
        /\ \A k \in DOMAIN proc'[g].out : proc'[g].out[k].session = g
    BY <1>8, <1>10, <2>1
  <2> QED BY <1>10, <2>2 DEF ServerInv, Signed
<1>20. LinesSound'
  <2>1. LineOf(proc', g) = <<r>> /\ DOMAIN <<r>> = {1} /\ <<r>>[1] = r
    <3>1. <<>> \o <<r>> = <<r>>
      OBVIOUS
    <3> QED BY <1>3, <1>8, <1>10, <3>1, OneMessage DEF LineOf
  <2>2. \A h \in Fds : h # g => LineOf(proc', h) = LineOf(proc, h)
    BY <1>10 DEF LineOf
  <2>3. \A j \in Slots : Open(j)' =>
          \A k \in DOMAIN LineOf(proc', slist'[j].fd) :
            Older(j, k) \/ (j = i /\ k = 1 /\ LineOf(proc', slist'[j].fd)[k] = r)
    <3> SUFFICES ASSUME NEW j \in Slots, Open(j)', NEW k \in DOMAIN LineOf(proc', slist'[j].fd)
                 PROVE  Older(j, k) \/ (j = i /\ k = 1 /\ LineOf(proc', slist'[j].fd)[k] = r)
      OBVIOUS
    <3>1. CASE j = i
      BY <1>7, <1>9, <2>1, <3>1
    <3>2. CASE j # i
      BY <1>9, <1>13, <1>14, <2>2, <3>2 DEF Older
    <3> QED BY <3>1, <3>2
  <2>4. \A j \in Slots : \A m : Open(j) /\ Open(j)' /\ Token(j, m) => Token(j, m)'
    BY <1>3, <1>15, ServedToken
  <2>5. Token(i, r)'
    <3>1. c2s'[p] = NoReq /\ s2c'[p] = <<>> /\ hd'[p].asked = "SESSION"
      BY <1>2, <1>3, <1>12
    <3>2. f \in client_fds' /\ owner'[f] = p
      BY <1>1, <1>2, <1>3, <1>11, Constants
    <3> QED BY <1>3, <3>1, <3>2 DEF Token
  <2>6. Adds(i, 1, r)
    BY <1>3, <2>3, <2>4, <2>5 DEF Adds
  <2> QED BY <1>1, <2>6, TokensAdded
<1>21. TypeOK'
  <2>1. listen_fds' \subseteq Fds /\ ready' \subseteq Fds \cup {Listener}
    BY <1>1, <1>2 DEF ServerInv, TypeOK, TablesTyped
  <2> QED BY <1>2, <1>9, <1>10, <1>11, <1>12, <2>1 DEF ServerInv, TypeOK, TablesTyped
<1>22. FdsEnough'
  <2>1. /\ IsFiniteSet(SessionFds) /\ Cardinality(SessionFds) \in Nat
        /\ IsFiniteSet(Launchers) /\ Cardinality(Launchers) \in Nat
        /\ Cardinality(Clients) \in Nat
    BY CountSets
  <2>2. SessionFds' = SessionFds \cup {g} /\ g \notin SessionFds
    BY <1>1, <1>11, Constants DEF SessionFds
  <2>3. p \in Launchers
    BY <1>1, <1>3 DEF Launchers
  <2>4. Launchers' \in SUBSET (Launchers \ {p})
    <3>1. NoReq.type # "SESSION"
      BY DEF NoReq
    <3>2. p \notin Launchers'
      BY <1>2, <1>3, <1>12, <3>1 DEF Launchers
    <3>3. \A c \in Clients : c # p => c2s'[c] = c2s[c] /\ hd'[c] = hd[c]
      BY <1>2, <1>12, Constants
    <3> QED BY <3>2, <3>3 DEF Launchers
  <2>5. Cardinality(SessionFds \cup {g}) = Cardinality(SessionFds) + 1
    BY <2>1, <2>2, FS_AddElement
  <2>6. /\ IsFiniteSet(Launchers \ {p})
        /\ Cardinality(Launchers \ {p}) = Cardinality(Launchers) - 1
    BY <2>1, <2>3, FS_RemoveElement
  <2>7. \A B \in SUBSET (Launchers \ {p}) :
          Cardinality(B) <= Cardinality(Launchers) - 1 /\ Cardinality(B) \in Nat
    BY <2>6, FS_Subset, FS_CardinalityType
  <2>8. \A A, B : A = SessionFds \cup {g} /\ B \in SUBSET (Launchers \ {p}) =>
          Cardinality(A) + Cardinality(B) <= Cardinality(Clients)
    BY <2>1, <2>5, <2>7 DEF ServerInv, FdsEnough
  <2> QED BY <2>2, <2>4, <2>8 DEF FdsEnough
<1> QED
  BY <1>17, <1>18, <1>19, <1>20, <1>21, <1>22 DEF ServerInv

-----------------------------------------------------------------------------
(* Requests of clients, and pages.                                         *)
Read(f, p) ==
  /\ f \in client_fds \cap ready /\ p = owner[f] /\ c2s' = [c2s EXCEPT ![p] = NoReq]
  /\ phase' \in 1 .. 5 /\ ready' = ready \ {f} /\ UNCHANGED <<unk_fds, http_fds, hd>>

LEMMA RequestForwarded ==
  ASSUME ServerInv, NEW f, NEW p, NEW i \in Slots, NEW cl,
         Read(f, p), c2s[p] # NoReq, Open(i),
         \/ c2s[p].type = "JOIN" /\ cl = slist[i].client \cup {f}
         \/ c2s[p].type = "FETCH" /\ cl = slist[i].client /\ c2s[p].dest = i,
         Forward(i, f, cl), UNCHANGED s2c
  PROVE  ServerInv'
<1> DEFINE g == slist[i].fd
<1>1. /\ f \in client_fds /\ p = owner[f] /\ c2s' = [c2s EXCEPT ![p] = NoReq]
      /\ phase' \in 1 .. 5 /\ ready' = ready \ {f} /\ ready' \subseteq ready
      /\ UNCHANGED <<unk_fds, http_fds, hd>>
  BY DEF Read
<1>2. CASE proc[g].alive
  <2>1. /\ proc' = [proc EXCEPT ![g].in = Append(@, Request(f))]
        /\ slist' = [slist EXCEPT ![i].client = cl]
        /\ UNCHANGED <<owner, link, listen_fds, client_fds>>
    BY <1>2 DEF Forward
  <2>2. Request(f).type = c2s[p].type
    BY <1>1, RequestIs
  <2>3. \/ Request(f).type = "JOIN" /\ cl = slist[i].client \cup {f}
        \/ Request(f).type = "FETCH" /\ cl = slist[i].client /\ c2s[p].dest = i
    BY <2>2
  <2>4. Forwards(i, f, p, g, Request(f), cl)
    BY <1>1, <2>1, <2>3 DEF Forwards
  <2> QED BY <1>1, <2>4, ForwardKept
<1>3. CASE ~proc[g].alive
  <2>1. session_close(i, {f}, {g}) /\ UNCHANGED proc
    BY <1>3 DEF Forward
  <2> QED BY <1>1, <2>1, ClientFindsNoProcess
<1> QED
  BY <1>2, <1>3

LEMMA RequestLaunches ==
  ASSUME ServerInv, NEW f, NEW p, Read(f, p), c2s[p].type = "SESSION",
         \A i \in Slots : Open(i) => slist[i].name # c2s[p].name,
         session_open(f, c2s[p].name)
  PROVE  ServerInv'
<1> DEFINE i == Lowest({j \in Slots : ~Open(j)})
           g == Lowest(FreeFds)
<1>1. /\ f \in client_fds /\ p = owner[f] /\ c2s' = [c2s EXCEPT ![p] = NoReq]
      /\ phase' \in 1 .. 5 /\ ready' = ready \ {f} /\ UNCHANGED <<unk_fds, http_fds, hd>>
  BY DEF Read
<1>2. c2s[p] # NoReq
  BY DEF NoReq
<1>3. p \in Clients /\ hd[p].asked = "SESSION"
  BY <1>1, <1>2, RequestIs
<1>4. c2s[p].name \in Names
  BY <1>2, <1>3 DEF ServerInv, PeersSound, CallSound
<1>5. i \in Slots /\ ~Open(i)
  BY <1>4, SlotLeft
<1>6. p \in Launchers
  BY <1>3 DEF Launchers
<1>7. g \in Fds /\ owner[g] = Free
  BY <1>6, LaunchFindsFd DEF FreeFds
<1>8. /\ slist' = [slist EXCEPT ![i] = [name |-> c2s[p].name, fd |-> g, client |-> {}]]
      /\ owner' = [owner EXCEPT ![g] = Session]
      /\ proc' = [proc EXCEPT ![g] = [alive |-> TRUE, in |-> <<Request(f)>>, out |-> <<>>]]
      /\ listen_fds' = listen_fds \cup {g}
      /\ UNCHANGED <<link, client_fds, s2c>>
  BY DEF session_open
<1> HIDE DEF i, g
<1>9. Launches(i, f, p, g, Request(f))
  BY <1>1, <1>5, <1>7, <1>8 DEF Launches
<1> QED
  BY <1>1, <1>9, LaunchKept

LEMMA ClientSocketKept ==
  ASSUME ServerInv, NEW f \in Fds, handle_client_socket(f)
  PROVE  ServerInv'
<1> DEFINE p == owner[f]
           m == c2s[p]
           named == {i \in Slots : Open(i) /\ slist[i].name = m.name}
<1>1. Read(f, p)
  BY ReachType DEF handle_client_socket, Handled, Read
<1>2. CASE m.type = "NONE"
  <2>1. client_close({f}) /\ UNCHANGED <<s2c, proc>>
    BY <1>2 DEF handle_client_socket
  <2> QED BY <1>1, <1>2, <2>1, ClientLeaves DEF Read
<1>3. p \in Peers /\ f \in client_fds
  BY <1>1, Constants DEF Read, ServerInv, FdsSound
<1>4. CASE m.type # "NONE" /\ Refuse(f)
  <2>1. c2s[owner[f]] # NoReq
    BY <1>4 DEF NoReq
  <2> QED BY <1>1, <1>3, <1>4, <2>1, ClientRefused DEF Read
<1>5. CASE m.type # "NONE" /\ ~Refuse(f)
  <2>1. m # NoReq
    BY <1>5 DEF NoReq
  <2>2. p \in Clients /\ hd[p].asked \in Calls /\ m.type = hd[p].asked
    BY <1>3, <2>1, RequestIs
  <2>3. CASE m.type = "SESSION"
    <3>1. named = {} /\ session_open(f, m.name)
      BY <1>5, <2>3 DEF handle_client_socket
    <3>2. \A i \in Slots : Open(i) => slist[i].name # m.name
      BY <3>1
    <3> QED BY <1>1, <2>3, <3>1, <3>2, RequestLaunches
  <2>4. CASE m.type = "JOIN"
    <3> DEFINE i == Lowest(named)
    <3>1. /\ named # {} /\ UNCHANGED s2c
          /\ Forward(i, f, slist[i].client \cup {f})
      BY <1>5, <2>4 DEF handle_client_socket
    <3>2. i \in named
      <4>1. named \in SUBSET Nat
        BY Constants
      <4> HIDE DEF named
      <4> QED BY <3>1, <4>1, LowestType
    <3>3. i \in Slots /\ Open(i)
      BY <3>2
    <3> HIDE DEF i, m
    <3> QED BY <1>1, <2>1, <2>4, <3>1, <3>3, RequestForwarded DEF m
  <2>5. CASE m.type = "FETCH"
    <3>1. /\ Open(m.dest) /\ UNCHANGED s2c
          /\ Forward(m.dest, f, slist[m.dest].client)
      BY <1>5, <2>5 DEF handle_client_socket
    <3>2. m.dest \in Slots
      <4>1. CallSound(p) /\ hd[p].asked = "FETCH"
        BY <2>2, <2>5 DEF ServerInv, PeersSound
      <4> QED BY <2>1, <4>1 DEF CallSound, Member
    <3> QED BY <1>1, <2>1, <2>5, <3>1, <3>2, RequestForwarded
  <2> QED BY <2>2, <2>3, <2>4, <2>5 DEF Calls
<1> QED
  BY <1>2, <1>4, <1>5

LEMMA HttpSocketKept ==
  ASSUME ServerInv, NEW f \in Fds, handle_http_socket(f)
  PROVE  ServerInv'
<1> DEFINE m == c2s[owner[f]]
           named == {i \in Slots : Open(i) /\ slist[i].name = m.name}
           k == Lowest(named)
           g == slist[k].fd
           r == [type |-> "SETCFG", dest |-> NoFd, status |-> "REQ", from |-> owner[f],
                 session |-> NoFd]
<1>1. /\ f \in http_fds /\ ready' \subseteq ready
      /\ c2s' = [c2s EXCEPT ![owner[f]] = NoReq] /\ UNCHANGED <<unk_fds, s2c, hd>>
  BY DEF handle_http_socket, Handled
<1>2. phase' \in 1 .. 5
  BY ReachType DEF handle_http_socket
<1>3. named # {} => k \in Slots /\ Open(k)
  <2>1. named \in SUBSET Nat
    BY Constants
  <2>2. named # {} => k \in named
    <3> HIDE DEF named
    <3> QED BY <2>1, LowestType
  <2> QED BY <2>2
<1>4. CASE Shut({f}, {}) /\ http_fds' = http_fds \ {f} /\ UNCHANGED <<client_fds, slist, proc>>
  BY <1>1, <1>2, <1>4, BrowserLeaves
<1>5. CASE UNCHANGED <<owner, link, listen_fds, http_fds, client_fds, slist, proc>>
  BY <1>1, <1>2, <1>5, PageIgnored
<1>6. CASE named # {} /\ session_close(k, {}, {}) /\ UNCHANGED <<http_fds, proc>>
  <2> HIDE DEF k
  <2> QED BY <1>1, <1>2, <1>3, <1>6, SessionKilled
<1>7. CASE /\ named # {} /\ proc' = [proc EXCEPT ![g].in = Append(@, r)]
           /\ UNCHANGED <<owner, link, listen_fds, http_fds, client_fds, slist>>
  <2>1. owner[f] \in Peers
    BY <1>1, Constants DEF ServerInv, FdsSound
  <2>2. r \in Message /\ r.type = "SETCFG" /\ r.dest = NoFd
    BY <2>1 DEF Message, NoFd
  <2>3. UNCHANGED <<tables, link, s2c, hd>>
    BY <1>1, <1>7 DEF tables
  <2> HIDE DEF k, r
  <2> QED BY <1>1, <1>2, <1>3, <1>7, <2>2, <2>3, PauseKept
<1> QED
  <2> HIDE DEF r
  <2> QED BY <1>4, <1>5, <1>6, <1>7 DEF handle_http_socket, r

-----------------------------------------------------------------------------
(* The invariant holds from the start, and every step keeps it.            *)
LEMMA InitInv == Init => ServerInv
<1> SUFFICES ASSUME Init PROVE ServerInv
  OBVIOUS
<1>1. TypeOK
  <2>1. TablesTyped
    <3>1. Closed \in [name : Names \cup {NoName}, fd : Fds \cup {NoFd}, client : SUBSET Fds]
      BY DEF Closed
    <3> QED BY <3>1 DEF Init, TablesTyped
  <2>2. c2s \in [Peers -> Requests] /\ s2c \in [Peers -> Seq(Message)]
    BY DEF Init, Requests
  <2>3. proc \in [Fds -> Processes]
    BY DEF Init, NoProc, Processes
  <2>4. hd \in [Peers -> Handles]
    BY DEF Init, Over, Handles
  <2> QED BY <2>1, <2>2, <2>3, <2>4 DEF TypeOK
<1>2. FdsSound
  BY Constants DEF Init, FdsSound
<1>3. \A i \in Slots : ~Open(i) /\ slist[i].client = {}
  BY DEF Init, Closed, Open
<1>4. SlotsSound
  BY <1>3 DEF SlotsSound
<1>5. PeersSound
  <2>1. \A p \in Peers : /\ hd[p].state = "idle" /\ hd[p].asked = "NONE"
                         /\ c2s[p] = NoReq /\ s2c[p] = <<>> /\ link[p] = "new"
    BY DEF Init, Over
  <2>2. \A c \in Clients : CallSound(c) /\ Outside(c) /\ ReplySound(c)
    BY <1>3, <2>1, Constants DEF CallSound, Outside, ReplySound
  <2>3. ReadySound
    BY DEF Init, ReadySound
  <2> QED BY <2>1, <2>2, <2>3, Constants DEF PeersSound
<1>6. LinesSound
  BY <1>3 DEF LinesSound, TokensSound, TokensUnique
<1>7. Signed
  BY DEF Init, NoProc, Signed
<1>8. FdsEnough
  <2>1. SessionFds = {}
    BY Constants DEF Init, SessionFds
  <2>2. Launchers \in SUBSET Clients
    BY DEF Launchers
  <2>3. IsFiniteSet(Clients) /\ Cardinality(Clients) \in Nat
    BY ServerAssumption, FS_CardinalityType
  <2>4. \A A \in SUBSET Clients : Cardinality(A) \in Nat /\ Cardinality(A) <= Cardinality(Clients)
    BY <2>3, FS_Subset, FS_CardinalityType
  <2>5. Cardinality({}) = 0
    BY FS_EmptySet
  <2>6. Cardinality(Launchers) \in Nat /\ Cardinality(Launchers) <= Cardinality(Clients)
    BY <2>2, <2>4
  <2> QED BY <2>1, <2>5, <2>6 DEF FdsEnough
<1> QED
  BY <1>1, <1>2, <1>4, <1>5, <1>6, <1>7, <1>8 DEF ServerInv

LEMMA StutterInv ==
  ASSUME ServerInv, UNCHANGED vars
  PROVE  ServerInv'
<1>1. UNCHANGED <<phase, ready, unk_fds, client_fds, http_fds, slist, owner, listen_fds, link,
                  c2s, s2c, proc, hd>>
  BY DEF vars, loop, tables
<1>2. TablesTyped' = TablesTyped /\ TypeOK' = TypeOK
  BY <1>1 DEF TypeOK, TablesTyped
<1>3. FdsSound' = FdsSound /\ SlotsSound' = SlotsSound
  BY <1>1 DEF FdsSound, SlotsSound, Open
<1>4. PeersSound' = PeersSound
  BY <1>1 DEF PeersSound, CallSound, Outside, ReplySound, ReadySound, Member, Open
<1>5. LinesSound' = LinesSound /\ Signed' = Signed
  BY <1>1 DEF LinesSound, TokensSound, TokensUnique, Token, Line, LineOf, Open, Signed
<1>6. FdsEnough' = FdsEnough
  BY <1>1 DEF FdsEnough, SessionFds, Launchers
<1> QED
  BY <1>2, <1>3, <1>4, <1>5, <1>6 DEF ServerInv

LEMMA NextInv ==
  ASSUME ServerInv, ~MayCrash, [Next]_vars
  PROVE  ServerInv'
<1>1. CASE ServerStep
  <2>1. CASE Select
    BY <2>1, SelectKept
  <2>2. ASSUME NEW i \in Slots, handle_session_socket(i) PROVE ServerInv'
    BY <2>2, SessionSocketKept
  <2>3. CASE handle_new_connection
    BY <2>3, NewConnectionKept
  <2>4. ASSUME NEW f \in Fds, handle_unknown_connection(f) PROVE ServerInv'
    BY <2>4, UnknownConnectionKept
  <2>5. ASSUME NEW f \in Fds, handle_client_socket(f) PROVE ServerInv'
    BY <2>5, ClientSocketKept
  <2>6. ASSUME NEW f \in Fds, handle_http_socket(f) PROVE ServerInv'
    BY <2>6, HttpSocketKept
  <2> QED BY <1>1, <2>1, <2>2, <2>3, <2>4, <2>5, <2>6 DEF ServerStep
<1>2. ASSUME NEW f \in Fds, SessionAnswer(f) PROVE ServerInv'
  BY <1>2, SessionAnswerKept
<1>3. ASSUME NEW f \in Fds, SessionDies(f) PROVE ServerInv'
  BY <1>3, SessionDiesKept
<1>4. ASSUME NEW p \in Peers, PeerStep(p) PROVE ServerInv'
  BY <1>4, PeerStepKept
<1>5. CASE UNCHANGED vars
  BY <1>5, StutterInv
<1> QED
  BY <1>1, <1>2, <1>3, <1>4, <1>5 DEF Next

(* The tables, the calls under way and their answers stay consistent       *)
(* whatever the server, the sessions and the peers do in whatever order,   *)
(* as long as no client crashes within a call.                             *)
THEOREM ServerInvariant ==
  ASSUME ~MayCrash
  PROVE  Spec => []ServerInv
<1>1. Init => ServerInv
  BY InitInv
<1>2. ServerInv /\ [Next]_vars => ServerInv'
  BY NextInv
<1> QED
  BY <1>1, <1>2, PTL DEF Spec

-----------------------------------------------------------------------------
(* What the invariant says of the properties that the runs check.          *)
LEMMA OneTable ==
  ASSUME NEW f, NEW A, NEW B, NEW C, f \in A \cup B \cup C,
         A \cap B = {}, A \cap C = {}, B \cap C = {}
  PROVE  Cardinality({T \in {<<1, A>>, <<2, B>>, <<3, C>>} : f \in T[2]}) = 1
<1> DEFINE S == {T \in {<<1, A>>, <<2, B>>, <<3, C>>} : f \in T[2]}
<1>1. <<1, A>>[2] = A /\ <<2, B>>[2] = B /\ <<3, C>>[2] = C
  OBVIOUS
<1>2. \E T : S = {T}
  <2>1. CASE f \in A
    <3>1. f \notin B /\ f \notin C
      BY <2>1
    <3>2. S = {<<1, A>>}
      BY <1>1, <2>1, <3>1
    <3> QED BY <3>2
  <2>2. CASE f \in B
    <3>1. f \notin A /\ f \notin C
      BY <2>2
    <3>2. S = {<<2, B>>}
      BY <1>1, <2>2, <3>1
    <3> QED BY <3>2
  <2>3. CASE f \in C
    <3>1. f \notin A /\ f \notin B
      BY <2>3
    <3>2. S = {<<3, C>>}
      BY <1>1, <2>3, <3>1
    <3> QED BY <3>2
  <2> QED BY <2>1, <2>2, <2>3
<1> HIDE DEF S
<1>3. \A T : Cardinality({T}) = 1
  BY FS_Singleton
<1>4. Cardinality(S) = 1
  BY <1>2, <1>3
<1> QED
  BY <1>4 DEF S

LEMMA TablesFromInv == ServerInv => TablesSound
<1> SUFFICES ASSUME ServerInv PROVE TablesSound
  OBVIOUS
<1>1. /\ unk_fds \cup client_fds \cup http_fds = {f \in Fds : owner[f] \in Peers}
      /\ unk_fds \cap client_fds = {} /\ unk_fds \cap http_fds = {} /\ client_fds \cap http_fds = {}
      /\ \A f \in client_fds : owner[f] \in Clients
      /\ \A f \in http_fds : owner[f] \in Browsers
  BY DEF ServerInv, FdsSound
<1>2. ASSUME NEW f \in Fds, owner[f] \in Peers
      PROVE  /\ f \in listen_fds
             /\ Cardinality({T \in {<<1, unk_fds>>, <<2, client_fds>>, <<3, http_fds>>} :
                               f \in T[2]}) = 1
  <2>1. f \in listen_fds
    BY <1>2 DEF ServerInv, FdsSound
  <2>2. f \in unk_fds \cup client_fds \cup http_fds
    BY <1>1, <1>2
  <2> QED BY <1>1, <2>1, <2>2, OneTable
<1>3. \A f \in unk_fds : owner[f] \in Peers
  BY <1>1
<1>4. /\ \A i \in Slots : slist[i].client \subseteq client_fds
      /\ \A i \in Slots : ~Open(i) => slist[i].client = {}
  BY DEF ServerInv, SlotsSound
<1> QED
  BY <1>1, <1>2, <1>3, <1>4 DEF TablesSound

LEMMA RepliesFromInv == ServerInv => ResponseMatches /\ OwnReplies
<1> SUFFICES ASSUME ServerInv PROVE ResponseMatches /\ OwnReplies
  OBVIOUS
<1>1. ASSUME NEW c \in Clients, s2c[c] # <<>>
      PROVE  /\ DOMAIN s2c[c] = {1} /\ Head(s2c[c]) = s2c[c][1]
             /\ s2c[c][1].type = hd[c].asked /\ s2c[c][1].from = c
  <2>1. s2c[c] \in Seq(Message)
    BY Constants, HandleTypes DEF ServerInv
  <2>2. /\ Len(s2c[c]) = 1
        /\ s2c[c][1].type = hd[c].asked /\ s2c[c][1].from = c
    BY <1>1 DEF ServerInv, PeersSound, ReplySound
  <2>3. \A s \in Seq(Message) : Len(s) = 1 => DOMAIN s = {1} /\ Head(s) = s[1]
    OBVIOUS
  <2> QED BY <2>1, <2>2, <2>3
<1>2. ResponseMatches
  BY <1>1 DEF ResponseMatches
<1>3. ASSUME NEW c \in Clients, NEW k \in DOMAIN s2c[c] PROVE s2c[c][k].from = c
  <2>1. CASE s2c[c] = <<>>
    BY <2>1
  <2>2. CASE s2c[c] # <<>>
    BY <1>1, <2>2
  <2> QED BY <2>1, <2>2
<1> QED
  BY <1>2, <1>3 DEF OwnReplies

(* Every variable of the server, of its connections and of its peers has   *)
(* its type.  The proof shows that accept() and session_open() always find *)
(* a free descriptor, and session_open() a free slot: AcceptFindsFd,       *)
(* LaunchFindsFd and SlotLeft.                                             *)
THEOREM ServerTypes ==
  ASSUME ~MayCrash
  PROVE  Spec => []TypeOK
<1>1. ServerInv => TypeOK
  BY DEF ServerInv
<1> QED
  BY <1>1, ServerInvariant, PTL

(* unk_fds, client_fds and http_fds have every open connection once, and a *)
(* session's list only clients that are connected: client_close() and      *)
(* session_close() forget a descriptor everywhere before it is reused.     *)
THEOREM TablesAreSound ==
  ASSUME ~MayCrash
  PROVE  Spec => []TablesSound
BY TablesFromInv, ServerInvariant, PTL

(* A reply that handle_session_socket() sends to a descriptor reaches the  *)
(* client whose request was forwarded under its number.                    *)
THEOREM RepliesReachTheirClient ==
  ASSUME ~MayCrash
  PROVE  Spec => []OwnReplies
BY RepliesFromInv, ServerInvariant, PTL

(* What send_request() of a client reads is of the type it asked for.      *)
THEOREM RepliesMatchRequests ==
  ASSUME ~MayCrash
  PROVE  Spec => []ResponseMatches
BY RepliesFromInv, ServerInvariant, PTL

(* What handle_client_socket() forwards to the session of a slot is from a *)
(* client that joined this session and not an earlier one of the slot.     *)
THEOREM RequestsReachTheirSession ==
  ASSUME ~MayCrash
  PROVE  Spec => []OwnSession
<1>1. ServerInv => OwnSession
  BY DEF ServerInv, Signed, OwnSession
<1> QED
  BY <1>1, ServerInvariant, PTL

=============================================================================
