-------------------------- MODULE CodeServerProofs --------------------------
(***************************************************************************)
(* The code server counts its free generators right, for every number of   *)
(* generators, of requests and of sessions that come one after the other,  *)
(* whatever its files look like when they are read.  That it waits in time *)
(* (NoOverflow), and that each answer goes to its request, is shown of the *)
(* first session: a generator that an initial message made the server      *)
(* forget upsets both.                                                     *)
(***************************************************************************)
EXTENDS CodeServer, FiniteSetTheorems, SequenceTheorems, NaturalsInduction,
        WellFoundedInduction, TLAPS

-----------------------------------------------------------------------------
(* The helper's next message is the first in its inbox, and the requests   *)
(* in the directory are earlier ones.                                      *)
HelperSound ==
  /\ helper.up =>
       /\ layer.session > 0
       /\ helper.next_id + Len(inbox) = layer.sent
       /\ \A k \in 1 .. Len(inbox) :
            inbox[k] = [session |-> layer.session, n |-> helper.next_id + k - 1]
  /\ \A n \in Ids : candidate[n] # NoFile =>
       /\ helper.up /\ n < helper.next_id
       /\ candidate[n].mesg = [session |-> layer.session, n |-> n]

(* The server has not read an initial message yet.                         *)
Fresh ==
  /\ server.num_ready = 0 /\ server.pc \in {"poll", "read"}
  /\ server.pc = "read" => server.id = Init_id
  /\ gen_list = [i \in Slots |-> FreeGen]
  /\ child = [p \in Pids |-> "none"]
  /\ code_complete = NoFiles
  /\ layer.sent = 0 /\ layer.got = <<>>

(* How many initial messages the server can have read: one of each session *)
(* but for that of the present one, while it is on its way.                *)
Initial == candidate[Init_id] # NoFile \/ (helper.up /\ helper.next_id = Init_id)

Inits == IF Initial THEN layer.session - 1 ELSE layer.session

(* The processes that are in no slot any more: at most all that there were *)
(* when the latest initial message was read.                               *)
Forgotten == {p \in Pids : child[p] # "none" /\ \A i \in Slots : gen_list[i].pid # p}

SlotsSound ==
  /\ server.num_ready = Cardinality(Idle)
  /\ server.pc = "read" /\ server.id # Init_id =>
       Idle # {} /\ server.id \in Ids /\ server.id = server.timestep
  /\ server.pc = "reap" => Idle = {}
  /\ \A i \in Slots : gen_list[i].pid # 0 => child[gen_list[i].pid] # "none"
  /\ \A i, j \in Slots : gen_list[i].pid = gen_list[j].pid /\ gen_list[i].pid # 0 => i = j
  /\ Inits > 0
  /\ Cardinality(Forgotten) <= (Inits - 1) * Generators

SlotInv == TypeOK /\ HelperSound /\ (Fresh \/ SlotsSound)

-----------------------------------------------------------------------------
(* Bounds of sums that have a factor in common.                            *)
LEMMA RoomGrows ==
  ASSUME NEW G \in Nat, NEW k \in Int, NEW m \in Int, k <= m
  PROVE  /\ k * G \in Int /\ m * G \in Int
         /\ k * G <= m * G
         /\ k * G = (k - 1) * G + G
         /\ 0 <= k => 0 <= k * G
<1>1. k * G \in Int /\ m * G \in Int
  OBVIOUS
<1>2. k * G <= m * G
  <2>1. (m - k) \in Nat /\ m * G = k * G + (m - k) * G
    OBVIOUS
  <2>2. \A a, b \in Nat : 0 <= a * b
    OBVIOUS
  <2>3. 0 <= (m - k) * G
    BY <2>1, <2>2
  <2> QED BY <1>1, <2>1, <2>3
<1>3. k * G = (k - 1) * G + G
  OBVIOUS
<1>4. 0 <= k => 0 <= k * G
  <2>1. \A a, b \in Nat : 0 <= a * b
    OBVIOUS
  <2> QED BY <2>1
<1> QED
  BY <1>1, <1>2, <1>3, <1>4

(* A set of numbers has a lowest one.                                      *)
LEMMA LowestType ==
  ASSUME NEW X \in SUBSET Nat, X # {}
  PROVE  Lowest(X) \in X
<1> DEFINE Lt == {ss \in Nat \X Nat : ss[1] < ss[2]}
<1>1. IsWellFoundedOn(Lt, Nat)
  BY NatLessThanWellFounded, Zenon DEF OpToRel
<1>2. \E x \in X : \A y \in X : ~ (<<y, x>> \in Lt)
  <2> HIDE DEF Lt
  <2> QED BY <1>1, WFMin
<1>3. \A x, y \in Nat : <<y, x>> \notin Lt => x <= y
  OBVIOUS
<1>4. \E x \in X : \A y \in X : x <= y
  BY <1>2, <1>3
<1> QED
  BY <1>4 DEF Lowest

(* The idle slots and the processes are finitely many.                     *)
LEMMA SlotSets ==
  ASSUME TypeOK
  PROVE  /\ Idle \subseteq Slots /\ Slots \subseteq Nat /\ Pids \subseteq Nat
         /\ IsFiniteSet(Slots) /\ Cardinality(Slots) = Generators
         /\ IsFiniteSet(Pids) /\ Cardinality(Pids) = MaxSessions * Generators
         /\ IsFiniteSet(Idle) /\ Cardinality(Idle) \in 0 .. Generators
         /\ Cardinality(Idle) = 0 <=> Idle = {}
         /\ IsFiniteSet(Forgotten) /\ Cardinality(Forgotten) \in Nat
         /\ Generators \in Nat \ {0}
<1>1. Generators \in Nat \ {0} /\ MaxSessions \in Nat
  BY CodeServerAssumption
<1>2. IsFiniteSet(Slots) /\ Cardinality(Slots) = Generators /\ Slots \subseteq Nat
  BY <1>1, FS_Interval DEF Slots
<1>3. IsFiniteSet(Pids) /\ Cardinality(Pids) = MaxSessions * Generators /\ Pids \subseteq Nat
  <2>1. MaxSessions * Generators \in Nat
    BY <1>1
  <2> HIDE DEF Pids
  <2>2. Pids = 1 .. MaxSessions * Generators
    BY DEF Pids
  <2> QED BY <2>1, <2>2, FS_Interval
<1>4. Idle \subseteq Slots /\ Forgotten \subseteq Pids
  BY DEF Idle, Forgotten
<1>5. IsFiniteSet(Idle) /\ Cardinality(Idle) <= Generators
  BY <1>2, <1>4, FS_Subset
<1>6. IsFiniteSet(Forgotten)
  BY <1>3, <1>4, FS_Subset
<1>7. Cardinality(Idle) \in Nat /\ Cardinality(Forgotten) \in Nat
  BY <1>5, <1>6, FS_CardinalityType
<1>8. Cardinality(Idle) = 0 <=> Idle = {}
  BY <1>5, FS_EmptySet
<1> HIDE DEF Slots, Pids
<1> QED
  BY <1>1, <1>2, <1>3, <1>4, <1>5, <1>6, <1>7, <1>8

(* The processes in the slots are no more than the slots that are taken.   *)
Used == {p \in Pids : child[p] # "none"}

LEMMA UsedBound ==
  ASSUME TypeOK, SlotsSound
  PROVE  /\ IsFiniteSet(Used) /\ Cardinality(Used) \in Nat
         /\ Cardinality(Used) <= Cardinality(Forgotten) + (Generators - Cardinality(Idle))
<1> DEFINE Busy == Slots \ Idle
           Mine == {gen_list[i].pid : i \in Busy}
           f == [i \in Busy |-> gen_list[i].pid]
<1>1. IsFiniteSet(Busy) /\ Cardinality(Busy) = Generators - Cardinality(Idle)
  <2>1. Slots \cap Idle = Idle /\ IsFiniteSet(Slots) /\ Cardinality(Slots) = Generators
    BY SlotSets
  <2>2. IsFiniteSet(Slots \ Idle)
        /\ Cardinality(Slots \ Idle) = Cardinality(Slots) - Cardinality(Slots \cap Idle)
    BY <2>1, FS_Difference
  <2> QED BY <2>1, <2>2
<1>2. f \in Surjection(Busy, Mine)
  BY DEF Surjection
<1>3. IsFiniteSet(Mine) /\ Cardinality(Mine) <= Cardinality(Busy)
  BY <1>1, <1>2, FS_Surjection
<1>4. Used \subseteq Forgotten \cup Mine
  BY DEF Used, Forgotten, TypeOK, Idle, Pids
<1>5. IsFiniteSet(Forgotten \cup Mine)
      /\ Cardinality(Forgotten \cup Mine)
           = Cardinality(Forgotten) + Cardinality(Mine) - Cardinality(Forgotten \cap Mine)
  BY <1>3, SlotSets, FS_Union
<1>6. IsFiniteSet(Forgotten \cap Mine)
  BY SlotSets, FS_Intersection
<1>7. IsFiniteSet(Used) /\ Cardinality(Used) <= Cardinality(Forgotten \cup Mine)
  BY <1>4, <1>5, FS_Subset
<1>8. /\ Cardinality(Forgotten) \in Nat /\ Cardinality(Mine) \in Nat /\ Cardinality(Used) \in Nat
      /\ Cardinality(Forgotten \cap Mine) \in Nat /\ Cardinality(Idle) \in Nat
  BY <1>3, <1>6, <1>7, SlotSets, FS_CardinalityType
<1> HIDE DEF Mine, Busy
<1> QED
  BY <1>1, <1>3, <1>5, <1>7, <1>8, SlotSets

(* So there is a process number left for the next one.                     *)
LEMMA PidLeft ==
  ASSUME TypeOK, SlotsSound, Idle # {}
  PROVE  LET P == {q \in Pids : child[q] = "none"}
         IN  Lowest(P) \in P
<1> DEFINE P == {q \in Pids : child[q] = "none"}
<1>1. Inits \in Int /\ Inits <= MaxSessions
  BY CodeServerAssumption DEF TypeOK, Inits
<1>2. Cardinality(Used) < MaxSessions * Generators
  <2>1. Cardinality(Idle) \in Nat /\ Cardinality(Idle) > 0
    BY SlotSets
  <2>2. Cardinality(Used) <= Cardinality(Forgotten) + (Generators - Cardinality(Idle))
        /\ Cardinality(Used) \in Nat
    BY UsedBound
  <2>3. Cardinality(Forgotten) <= (Inits - 1) * Generators
    BY DEF SlotsSound
  <2>4. (Inits - 1) * Generators + Generators <= MaxSessions * Generators
        /\ (Inits - 1) * Generators \in Int
    <3>1. Generators \in Nat /\ MaxSessions \in Int
      BY CodeServerAssumption
    <3> QED BY <1>1, <3>1, RoomGrows
  <2>5. MaxSessions * Generators \in Int /\ Generators \in Int /\ Cardinality(Forgotten) \in Nat
    BY SlotSets, CodeServerAssumption
  <2> QED BY <2>1, <2>2, <2>3, <2>4, <2>5
<1>3. P # {}
  <2> SUFFICES ASSUME P = {} PROVE FALSE
    OBVIOUS
  <2>1. Used = Pids
    BY DEF Used
  <2> QED BY <1>2, <2>1, SlotSets, UsedBound
<1>4. P \in SUBSET Nat
  BY SlotSets
<1> QED
  BY <1>3, <1>4, LowestType

-----------------------------------------------------------------------------
LEMMA InitSlots ==
  ASSUME Init
  PROVE  SlotInv
<1> USE CodeServerAssumption
<1>1. Init_id \in Int /\ Init_id \in Init_id .. MaxRequests /\ Tries \in 1 .. Tries
      /\ 0 \in 0 .. MaxSessions /\ 0 \in 0 .. MaxRequests /\ 0 \in 0 .. Generators
  BY DEF Init_id
<1>2. NoFile \in [mesg : Mesgs, whole : BOOLEAN] /\ Blank \in Mesgs
  BY <1>1 DEF NoFile, Blank, Mesgs
<1>3. NoFiles \in Files
  BY <1>2 DEF NoFiles, Files
<1>4. <<>> \in Seq(Mesgs)
  OBVIOUS
<1>5. layer \in [session : 0 .. MaxSessions, active : BOOLEAN, sent : 0 .. MaxRequests,
                 got : Seq(Mesgs)]
  BY <1>1, <1>4 DEF Init
<1>6. helper \in [up : BOOLEAN, next_id : Init_id .. MaxRequests,
                  curr_id : Init_id .. MaxRequests, tries : 1 .. Tries]
  BY <1>1 DEF Init
<1>7. server \in [pc : ServerPcs, id : Int, tries : 1 .. Tries, timestep : Nat,
                  num_ready : 0 .. Generators]
  BY <1>1 DEF Init, ServerPcs
<1>8. gen_list \in [Slots -> [pid : Pids \cup {0}, step : Nat, mesg : Mesgs]]
  BY <1>2 DEF Init, FreeGen
<1>9. child \in [Pids -> {"none", "running", "exited"}]
  BY DEF Init
<1>10. TypeOK
  BY <1>3, <1>4, <1>5, <1>6, <1>7, <1>8, <1>9 DEF TypeOK, Init
<1>11. HelperSound
  BY DEF HelperSound, Init, NoFiles
<1>12. Fresh
  BY DEF Fresh, Init
<1> QED
  BY <1>10, <1>11, <1>12 DEF SlotInv

-----------------------------------------------------------------------------
(* The messages read are those of this session and the ones before it.     *)
LEMMA InitsType ==
  ASSUME TypeOK
  PROVE  Inits \in Int /\ Inits <= layer.session
         /\ (Initial => Inits = layer.session - 1) /\ (~Initial => Inits = layer.session)
<1>1. layer.session \in Int
  BY CodeServerAssumption DEF TypeOK
<1>2. Inits = IF Initial THEN layer.session - 1 ELSE layer.session
  BY DEF Inits
<1> QED
  BY <1>1, <1>2

(* Room for as many processes as before stays.                             *)
LEMMA RoomStays ==
  ASSUME TypeOK, SlotsSound, Inits' \in Int, Inits <= Inits'
  PROVE  Inits' > 0 /\ Cardinality(Forgotten) <= (Inits' - 1) * Generators
<1>1. Inits \in Int /\ Inits > 0 /\ Generators \in Nat
  BY InitsType, CodeServerAssumption DEF SlotsSound
<1>2. Inits - 1 \in Int /\ Inits' - 1 \in Int /\ Inits - 1 <= Inits' - 1 /\ Inits' > 0
  <2>1. Inits \in Int /\ Inits > 0
    BY <1>1
  <2>2. Inits' \in Int /\ Inits <= Inits'
    OBVIOUS
  <2>3. \A a, b \in Int : a > 0 /\ a <= b => a - 1 \in Int /\ b - 1 \in Int /\ a - 1 <= b - 1 /\ b > 0
    OBVIOUS
  <2> QED BY <2>1, <2>2, <2>3, Zenon
<1>3. (Inits - 1) * Generators <= (Inits' - 1) * Generators
      /\ (Inits - 1) * Generators \in Int /\ (Inits' - 1) * Generators \in Int
  BY <1>1, <1>2, RoomGrows
<1>4. Cardinality(Forgotten) <= (Inits - 1) * Generators
  BY DEF SlotsSound
<1>5. Cardinality(Forgotten) \in Nat
  BY SlotSets
<1> QED
  BY <1>2, <1>3, <1>4, <1>5

(* What the layer and the helper do does not upset the server's count: it  *)
(* is as if more initial messages were read.                               *)
LEMMA CountStays ==
  ASSUME TypeOK, Fresh \/ SlotsSound, UNCHANGED <<server, gen_list, child>>,
         Fresh => layer'.sent = 0 /\ layer'.got = <<>> /\ code_complete' = NoFiles,
         Inits' \in Int, Inits <= Inits'
  PROVE  Fresh' \/ SlotsSound'
<1>1. CASE Fresh
  BY <1>1 DEF Fresh
<1>2. CASE SlotsSound
  <2>1. Idle' = Idle /\ Forgotten' = Forgotten
    BY DEF Idle, Forgotten
  <2>2. Inits' > 0 /\ Cardinality(Forgotten') <= (Inits' - 1) * Generators
    BY <1>2, <2>1, RoomStays
  <2> QED BY <1>2, <2>1, <2>2 DEF SlotsSound
<1> QED
  BY <1>1, <1>2

(* The files that are or are not there.                                    *)
LEMMA FileTypes ==
  /\ NoFile \in [mesg : Mesgs, whole : BOOLEAN] /\ NoFile.whole /\ NoFile.mesg.session = 0
  /\ NoFiles \in Files /\ \A n \in Ids : NoFiles[n] = NoFile
  /\ \A m \in Mesgs : /\ File(m) \in [mesg : Mesgs, whole : BOOLEAN]
                      /\ File(m).mesg = m /\ ~File(m).whole /\ File(m) # NoFile
  /\ Blank \in Mesgs /\ FreeGen \in [pid : Pids \cup {0}, step : Nat, mesg : Mesgs]
  /\ FreeGen.pid = 0
  /\ Init_id \in Ids /\ Ids \subseteq Int
<1>1. Init_id \in Ids /\ Ids \subseteq Int
  BY CodeServerAssumption DEF Init_id, Ids
<1>2. NoFile \in [mesg : Mesgs, whole : BOOLEAN] /\ NoFile.whole /\ NoFile.mesg.session = 0
      /\ Blank \in Mesgs
  BY <1>1 DEF NoFile, Blank, Mesgs
<1>3. NoFiles \in Files /\ \A n \in Ids : NoFiles[n] = NoFile
  BY <1>2 DEF NoFiles, Files
<1>4. ASSUME NEW m \in Mesgs
      PROVE  File(m) \in [mesg : Mesgs, whole : BOOLEAN]
             /\ File(m).mesg = m /\ ~File(m).whole /\ File(m) # NoFile
  BY <1>2 DEF File
<1>5. FreeGen \in [pid : Pids \cup {0}, step : Nat, mesg : Mesgs] /\ FreeGen.pid = 0
  BY <1>2 DEF FreeGen
<1> QED
  BY <1>1, <1>2, <1>3, <1>4, <1>5

LEMMA LaunchSlots ==
  ASSUME SlotInv, codegen_init
  PROVE  SlotInv'
<1>1. TypeOK /\ HelperSound /\ (Fresh \/ SlotsSound)
  BY DEF SlotInv
<1>2. /\ ~helper.up /\ layer.session < MaxSessions
      /\ layer' = [session |-> layer.session + 1, active |-> TRUE, sent |-> 0, got |-> <<>>]
      /\ inbox' = <<[session |-> layer.session + 1, n |-> Init_id]>>
      /\ helper' = [up |-> TRUE, next_id |-> Init_id, curr_id |-> Init_id, tries |-> Tries]
      /\ UNCHANGED <<candidate, code_complete, server, gen_list, child>>
  BY DEF codegen_init
<1>3. layer.session \in Nat /\ layer.session + 1 \in 0 .. MaxSessions /\ Init_id \in Int
      /\ Tries \in 1 .. Tries /\ 0 \in 0 .. MaxRequests /\ Init_id \in Init_id .. MaxRequests
  <2>1. layer.session \in 0 .. MaxSessions
    BY <1>1 DEF TypeOK
  <2> QED BY <1>2, <2>1, CodeServerAssumption DEF Init_id
<1>4. TypeOK'
  <2>1. [session |-> layer.session + 1, n |-> Init_id] \in Mesgs
    BY <1>3 DEF Mesgs
  <2>2. inbox' \in Seq(Mesgs)
    BY <1>2, <2>1
  <2>3. <<>> \in Seq(Mesgs)
    OBVIOUS
  <2>4. layer' \in [session : 0 .. MaxSessions, active : BOOLEAN, sent : 0 .. MaxRequests,
                    got : Seq(Mesgs)]
    BY <1>2, <1>3, <2>3
  <2>5. helper' \in [up : BOOLEAN, next_id : Init_id .. MaxRequests,
                     curr_id : Init_id .. MaxRequests, tries : 1 .. Tries]
    BY <1>2, <1>3
  <2> QED BY <1>1, <1>2, <2>2, <2>4, <2>5 DEF TypeOK
<1>5. \A n \in Ids : candidate[n] = NoFile
  BY <1>1, <1>2 DEF HelperSound
<1>6. HelperSound'
  <2>1. /\ helper'.up /\ helper'.next_id = Init_id /\ layer'.session = layer.session + 1
        /\ layer'.sent = 0
        /\ Len(inbox') = 1 /\ inbox'[1] = [session |-> layer.session + 1, n |-> Init_id]
    BY <1>2
  <2>2. \A k \in 1 .. 1 : k = 1 /\ Init_id + k - 1 = Init_id
    BY <1>3
  <2>3. Init_id + 1 = 0
    BY DEF Init_id
  <2> QED BY <1>2, <1>3, <1>5, <2>1, <2>2, <2>3 DEF HelperSound
<1>7. Fresh' \/ SlotsSound'
  <2>1. ~Initial /\ Inits = layer.session
    BY <1>1, <1>2, <1>5, FileTypes, InitsType DEF Initial
  <2>2. Initial' /\ Inits' = layer.session
    <3>1. Initial'
      BY <1>2 DEF Initial
    <3>2. layer'.session - 1 = layer.session
      BY <1>2, <1>3
    <3> QED BY <3>1, <3>2 DEF Inits
  <2>3. Fresh => code_complete' = NoFiles
    BY <1>2 DEF Fresh
  <2> QED BY <1>1, <1>2, <1>3, <2>1, <2>2, <2>3, CountStays
<1> QED
  BY <1>4, <1>6, <1>7 DEF SlotInv

LEMMA RequestSlots ==
  ASSUME SlotInv, codegen_generate \/ codegen_fini
  PROVE  SlotInv'
<1>1. TypeOK /\ HelperSound /\ (Fresh \/ SlotsSound)
  BY DEF SlotInv
<1>2. /\ UNCHANGED <<helper, candidate, code_complete, server, gen_list, child>>
      /\ layer'.session = layer.session
  BY <1>1 DEF codegen_generate, codegen_fini, TypeOK
<1>3. CASE codegen_generate
  <2> DEFINE m == [session |-> layer.session, n |-> layer.sent]
  <2>1. /\ layer.got # <<>> /\ layer.sent < MaxRequests
        /\ layer' = [layer EXCEPT !.sent = @ + 1] /\ inbox' = Append(inbox, m)
    BY <1>3 DEF codegen_generate
  <2>2. layer.sent + 1 \in 0 .. MaxRequests /\ m \in Mesgs
    <3>1. layer.sent \in 0 .. MaxRequests /\ layer.session \in 0 .. MaxSessions
      BY <1>1 DEF TypeOK
    <3>2. layer.sent + 1 \in 0 .. MaxRequests
      BY <2>1, <3>1, CodeServerAssumption
    <3>3. layer.session \in Nat /\ layer.sent \in Int
      BY <3>1, CodeServerAssumption
    <3> QED BY <3>2, <3>3 DEF Mesgs
  <2>3. TypeOK'
    <3>1. layer' \in [session : 0 .. MaxSessions, active : BOOLEAN, sent : 0 .. MaxRequests,
                      got : Seq(Mesgs)]
      BY <1>1, <2>1, <2>2 DEF TypeOK
    <3>2. inbox' \in Seq(Mesgs)
      BY <1>1, <2>1, <2>2 DEF TypeOK
    <3> QED BY <1>1, <1>2, <3>1, <3>2 DEF TypeOK
  <2>4. layer'.sent = layer.sent + 1
    BY <1>1, <2>1 DEF TypeOK
  <2>5. HelperSound'
    <3>1. ASSUME helper.up
          PROVE  /\ helper.next_id + Len(inbox') = layer'.sent
                 /\ \A k \in 1 .. Len(inbox') :
                      inbox'[k] = [session |-> layer.session, n |-> helper.next_id + k - 1]
      <4> HIDE DEF m
      <4>1. /\ Len(inbox) \in Nat /\ Len(inbox') = Len(inbox) + 1 /\ inbox'[Len(inbox) + 1] = m
            /\ \A k \in 1 .. Len(inbox) : inbox'[k] = inbox[k]
        BY <1>1, <2>1, <2>2, AppendProperties, LenProperties DEF TypeOK
      <4>2. helper.next_id \in Int /\ layer.sent \in Int /\ helper.next_id + Len(inbox) = layer.sent
        BY <1>1, <3>1 DEF HelperSound, TypeOK, Init_id
      <4>3. \A k \in 1 .. Len(inbox') : k \in 1 .. Len(inbox) \/ k = Len(inbox) + 1
        BY <4>1
      <4>4. helper.next_id + (Len(inbox) + 1) - 1 = layer.sent
        BY <4>1, <4>2
      <4>5. \A k \in 1 .. Len(inbox) :
              inbox[k] = [session |-> layer.session, n |-> helper.next_id + k - 1]
        BY <1>1, <3>1 DEF HelperSound
      <4>6. inbox'[Len(inbox) + 1]
              = [session |-> layer.session, n |-> helper.next_id + (Len(inbox) + 1) - 1]
        BY <4>1, <4>4 DEF m
      <4>7. helper.next_id + Len(inbox') = layer'.sent
        BY <2>4, <4>1, <4>2
      <4>8. ASSUME NEW k \in 1 .. Len(inbox')
            PROVE  inbox'[k] = [session |-> layer.session, n |-> helper.next_id + k - 1]
        <5>1. CASE k \in 1 .. Len(inbox)
          BY <4>1, <4>5, <5>1
        <5>2. CASE k = Len(inbox) + 1
          BY <4>6, <5>2
        <5> QED BY <4>3, <5>1, <5>2
      <4> QED BY <4>7, <4>8
    <3> QED BY <1>1, <1>2, <3>1 DEF HelperSound
  <2>6. Inits' = Inits
    BY <1>2 DEF Inits, Initial
  <2>7. ~Fresh
    BY <2>1 DEF Fresh
  <2>8. Fresh' \/ SlotsSound'
    BY <1>1, <1>2, <2>6, <2>7, InitsType, CountStays
  <2> QED BY <2>3, <2>5, <2>8 DEF SlotInv
<1>4. CASE codegen_fini
  <2>1. layer' = [layer EXCEPT !.active = FALSE] /\ UNCHANGED inbox
    BY <1>4 DEF codegen_fini
  <2>2. layer'.sent = layer.sent /\ layer'.got = layer.got /\ TypeOK'
    BY <1>1, <1>2, <2>1 DEF TypeOK
  <2>3. HelperSound'
    BY <1>1, <1>2, <2>1, <2>2 DEF HelperSound
  <2>4. Inits' = Inits
    BY <1>2 DEF Inits, Initial
  <2>5. Fresh => layer'.sent = 0 /\ layer'.got = <<>> /\ code_complete' = NoFiles
    BY <1>2, <2>2 DEF Fresh
  <2>6. Fresh' \/ SlotsSound'
    BY <1>1, <1>2, <2>4, <2>5, InitsType, CountStays
  <2> QED BY <2>2, <2>3, <2>6 DEF SlotInv
<1> QED
  BY <1>3, <1>4

(* What becomes of a directory when one of its files is put there, removed *)
(* or written to its end.                                                  *)
Put(F, n, f) == [F EXCEPT ![n] = f]

Whole(F, n) == [F EXCEPT ![n].whole = TRUE]

LEMMA PutFile ==
  ASSUME NEW F \in Files, NEW n \in Ids, NEW f \in [mesg : Mesgs, whole : BOOLEAN]
  PROVE  /\ Put(F, n, f) \in Files /\ Put(F, n, f)[n] = f
         /\ \A k \in Ids : k # n => Put(F, n, f)[k] = F[k]
<1>1. DOMAIN F = Ids
  BY DEF Files
<1> QED
  BY <1>1 DEF Files, Put

LEMMA WholeFile ==
  ASSUME NEW F \in Files, NEW n \in Ids
  PROVE  /\ Whole(F, n) \in Files
         /\ \A k \in Ids : Whole(F, n)[k].mesg = F[k].mesg
                            /\ (k # n => Whole(F, n)[k] = F[k])
<1>1. F[n] \in [mesg : Mesgs, whole : BOOLEAN]
  BY DEF Files
<1>2. [F[n] EXCEPT !.whole = TRUE] \in [mesg : Mesgs, whole : BOOLEAN]
      /\ [F[n] EXCEPT !.whole = TRUE].mesg = F[n].mesg
  BY <1>1
<1>3. Whole(F, n) = [F EXCEPT ![n] = [F[n] EXCEPT !.whole = TRUE]]
  BY DEF Whole
<1>4. DOMAIN F = Ids
  BY DEF Files
<1> QED
  BY <1>2, <1>3, <1>4 DEF Files

LEMMA WrittenSlots ==
  ASSUME SlotInv, Written
  PROVE  SlotInv'
<1>1. TypeOK /\ HelperSound /\ (Fresh \/ SlotsSound)
  BY DEF SlotInv
<1>2. CASE /\ \E n \in Partial(candidate) : candidate' = [candidate EXCEPT ![n].whole = TRUE]
           /\ UNCHANGED <<layer, inbox, helper, code_complete, server, gen_list, child>>
  <2>1. PICK n \in Ids : ~candidate[n].whole /\ candidate' = Whole(candidate, n)
    BY <1>2 DEF Partial, Whole
  <2>2. candidate \in Files
    BY <1>1 DEF TypeOK
  <2>3. /\ candidate' \in Files
        /\ \A k \in Ids : candidate'[k].mesg = candidate[k].mesg
                          /\ (k # n => candidate'[k] = candidate[k])
    BY <2>1, <2>2, WholeFile
  <2>4. candidate[n] # NoFile
    BY <2>1, FileTypes
  <2>5. candidate[n].mesg = [session |-> layer.session, n |-> n] /\ layer.session > 0
    BY <1>1, <2>4 DEF HelperSound
  <2>6. candidate'[n].mesg.session > 0
    BY <2>3, <2>5
  <2>7. candidate'[n] # NoFile
    BY <2>6, FileTypes
  <2>8. \A k \in Ids : candidate'[k] # NoFile <=> candidate[k] # NoFile
    BY <2>3, <2>4, <2>7
  <2>9. TypeOK'
    BY <1>1, <1>2, <2>3 DEF TypeOK
  <2>10. HelperSound'
    BY <1>1, <1>2, <2>3, <2>8 DEF HelperSound
  <2>11. Inits' = Inits
    BY <1>2, <2>8, FileTypes DEF Inits, Initial
  <2>12. Fresh => layer'.sent = 0 /\ layer'.got = <<>> /\ code_complete' = NoFiles
    BY <1>2 DEF Fresh
  <2>13. Inits' \in Int /\ Inits <= Inits'
    BY <1>1, <2>11, InitsType
  <2>14. Fresh' \/ SlotsSound'
    BY <1>1, <1>2, <2>12, <2>13, CountStays
  <2> QED BY <2>9, <2>10, <2>14 DEF SlotInv
<1>3. CASE /\ \E n \in Partial(code_complete) :
                code_complete' = [code_complete EXCEPT ![n].whole = TRUE]
           /\ UNCHANGED <<layer, inbox, helper, candidate, server, gen_list, child>>
  <2>1. PICK n \in Ids : ~code_complete[n].whole
                         /\ code_complete' = Whole(code_complete, n)
    BY <1>3 DEF Partial, Whole
  <2>2. code_complete \in Files
    BY <1>1 DEF TypeOK
  <2>3. code_complete' \in Files
    BY <2>1, <2>2, WholeFile
  <2>4. ~Fresh
    BY <2>1, FileTypes DEF Fresh
  <2>5. TypeOK'
    BY <1>1, <1>3, <2>3 DEF TypeOK
  <2>6. HelperSound'
    BY <1>1, <1>3 DEF HelperSound
  <2>7. Inits' = Inits
    BY <1>3 DEF Inits, Initial
  <2>8. Inits' \in Int /\ Inits <= Inits'
    BY <1>1, <2>7, InitsType
  <2>9. Fresh' \/ SlotsSound'
    BY <1>1, <1>3, <2>4, <2>8, CountStays
  <2> QED BY <2>5, <2>6, <2>9 DEF SlotInv
<1> QED
  BY <1>2, <1>3 DEF Written

(* The helper exits.                                                       *)
LEMMA CleanupSlots ==
  ASSUME SlotInv, Cleanup, UNCHANGED <<layer, server, gen_list, child>>
  PROVE  SlotInv'
<1>1. TypeOK /\ HelperSound /\ (Fresh \/ SlotsSound)
  BY DEF SlotInv
<1>2. /\ helper' = [helper EXCEPT !.up = FALSE] /\ inbox' = <<>>
      /\ candidate' = NoFiles /\ code_complete' = NoFiles
  BY DEF Cleanup
<1>3. helper' \in [up : BOOLEAN, next_id : Init_id .. MaxRequests,
                   curr_id : Init_id .. MaxRequests, tries : 1 .. Tries] /\ ~helper'.up
  BY <1>1, <1>2 DEF TypeOK
<1>4. inbox' \in Seq(Mesgs)
  BY <1>2
<1>5. TypeOK'
  BY <1>1, <1>2, <1>3, <1>4, FileTypes DEF TypeOK
<1>6. HelperSound'
  BY <1>2, <1>3, FileTypes DEF HelperSound
<1>7. Inits' \in Int /\ Inits <= Inits'
  <2>1. ~Initial'
    BY <1>2, <1>3, FileTypes DEF Initial
  <2>2. Inits' = layer.session /\ layer.session \in Int
    BY <1>1, <2>1, CodeServerAssumption DEF Inits, TypeOK
  <2> QED BY <1>1, <2>2, InitsType
<1>8. Fresh => layer'.sent = 0 /\ layer'.got = <<>> /\ code_complete' = NoFiles
  BY <1>2 DEF Fresh
<1>9. Fresh' \/ SlotsSound'
  BY <1>1, <1>7, <1>8, CountStays
<1> QED
  BY <1>5, <1>6, <1>9 DEF SlotInv

LEMMA ForwardSlots ==
  ASSUME SlotInv, HelperForward
  PROVE  SlotInv'
<1>1. TypeOK /\ HelperSound /\ (Fresh \/ SlotsSound)
  BY DEF SlotInv
<1>2. /\ helper.up /\ inbox # <<>>
      /\ candidate' = Put(candidate, helper.next_id, File(Head(inbox)))
      /\ helper' = [helper EXCEPT !.next_id = @ + 1]
      /\ inbox' = Tail(inbox)
      /\ UNCHANGED <<layer, code_complete, server, gen_list, child>>
  BY DEF HelperForward, HelperIdle, Put
<1>3. /\ Len(inbox) \in Nat \ {0} /\ inbox' \in Seq(Mesgs) /\ Len(inbox') = Len(inbox) - 1
      /\ Head(inbox) = inbox[1] /\ Head(inbox) \in Mesgs
      /\ \A k \in 1 .. Len(inbox) - 1 : inbox'[k] = inbox[k + 1]
  BY <1>1, <1>2, HeadTailProperties, LenProperties, EmptySeq DEF TypeOK
<1>4. /\ layer.session > 0 /\ helper.next_id + Len(inbox) = layer.sent
      /\ \A k \in 1 .. Len(inbox) :
           inbox[k] = [session |-> layer.session, n |-> helper.next_id + k - 1]
  BY <1>1, <1>2 DEF HelperSound
<1>5. helper.next_id \in Init_id .. MaxRequests /\ layer.sent \in 0 .. MaxRequests
  BY <1>1 DEF TypeOK
<1>6. helper.next_id \in Ids /\ helper.next_id + 1 \in Init_id .. MaxRequests
      /\ helper.next_id \in Int
  BY <1>3, <1>4, <1>5, CodeServerAssumption DEF Ids, Init_id
<1>7. inbox[1] = [session |-> layer.session, n |-> helper.next_id]
  <2>1. 1 \in 1 .. Len(inbox) /\ helper.next_id + 1 - 1 = helper.next_id
    BY <1>3, <1>6
  <2> QED BY <1>4, <2>1
<1>8. File(Head(inbox)) \in [mesg : Mesgs, whole : BOOLEAN] /\ File(Head(inbox)) # NoFile
      /\ File(Head(inbox)).mesg = inbox[1]
  BY <1>3, FileTypes
<1>9. /\ candidate' \in Files /\ candidate'[helper.next_id] = File(Head(inbox))
      /\ \A k \in Ids : k # helper.next_id => candidate'[k] = candidate[k]
  <2>1. candidate \in Files
    BY <1>1 DEF TypeOK
  <2> QED BY <1>2, <1>6, <1>8, <2>1, PutFile
<1>10. /\ helper' \in [up : BOOLEAN, next_id : Init_id .. MaxRequests,
                       curr_id : Init_id .. MaxRequests, tries : 1 .. Tries]
       /\ helper'.up = helper.up /\ helper'.next_id = helper.next_id + 1
  BY <1>1, <1>2, <1>6 DEF TypeOK
<1>11. TypeOK'
  BY <1>1, <1>2, <1>3, <1>9, <1>10 DEF TypeOK
<1>12. HelperSound'
  <2>1. helper'.next_id + Len(inbox') = layer'.sent
    BY <1>2, <1>3, <1>4, <1>6, <1>10
  <2>2. ASSUME NEW k \in 1 .. Len(inbox')
        PROVE  inbox'[k] = [session |-> layer'.session, n |-> helper'.next_id + k - 1]
    <3>1. k \in Int /\ k \in 1 .. Len(inbox) - 1 /\ k + 1 \in 1 .. Len(inbox)
      BY <1>3
    <3>2. inbox'[k] = [session |-> layer.session, n |-> helper.next_id + (k + 1) - 1]
      BY <1>3, <1>4, <3>1
    <3>3. helper.next_id + (k + 1) - 1 = helper'.next_id + k - 1
      BY <1>6, <1>10, <3>1
    <3> QED BY <1>2, <3>2, <3>3
  <2>3. ASSUME NEW n \in Ids, candidate'[n] # NoFile
        PROVE  n < helper'.next_id
               /\ candidate'[n].mesg = [session |-> layer'.session, n |-> n]
    <3>1. CASE n = helper.next_id
      BY <1>2, <1>6, <1>7, <1>8, <1>9, <1>10, <3>1
    <3>2. CASE n # helper.next_id
      <4>1. candidate[n] # NoFile /\ candidate'[n] = candidate[n]
        BY <1>9, <2>3, <3>2
      <4>2. n < helper.next_id /\ candidate[n].mesg = [session |-> layer.session, n |-> n]
        BY <1>1, <4>1 DEF HelperSound
      <4>3. n < helper.next_id + 1
        BY <1>6, <4>2, FileTypes
      <4> QED BY <1>2, <1>10, <4>1, <4>2, <4>3
    <3> QED BY <3>1, <3>2
  <2> QED BY <1>2, <1>4, <1>10, <2>1, <2>2, <2>3 DEF HelperSound
<1>13. Inits' = Inits
  <2>1. CASE helper.next_id = Init_id
    <3>1. Initial /\ Initial'
      BY <1>2, <1>8, <1>9, <2>1 DEF Initial
    <3> QED BY <1>2, <3>1 DEF Inits
  <2>2. CASE helper.next_id # Init_id
    <3>1. candidate'[Init_id] = candidate[Init_id]
      BY <1>9, <2>2, FileTypes
    <3>2. helper'.next_id # Init_id
      BY <1>5, <1>6, <1>10 DEF Init_id
    <3> QED BY <1>2, <2>2, <3>1, <3>2 DEF Inits, Initial
  <2> QED BY <2>1, <2>2
<1>14. Inits' \in Int /\ Inits <= Inits'
  BY <1>1, <1>13, InitsType
<1>15. Fresh => layer'.sent = 0 /\ layer'.got = <<>> /\ code_complete' = NoFiles
  BY <1>2 DEF Fresh
<1>16. Fresh' \/ SlotsSound'
  BY <1>1, <1>2, <1>14, <1>15, CountStays
<1> QED
  BY <1>11, <1>12, <1>16 DEF SlotInv

LEMMA AnswerSlots ==
  ASSUME SlotInv, HelperRead
  PROVE  SlotInv'
<1>1. TypeOK /\ HelperSound /\ (Fresh \/ SlotsSound)
  BY DEF SlotInv
<1> DEFINE n == helper.curr_id
           f == code_complete[n]
<1>2. n \in Ids /\ f # NoFile /\ UNCHANGED <<server, gen_list, child>>
  BY DEF HelperRead
<1>3. f \in [mesg : Mesgs, whole : BOOLEAN] /\ n + 1 \in Init_id .. MaxRequests
  <2>1. f \in [mesg : Mesgs, whole : BOOLEAN]
    BY <1>1, <1>2 DEF TypeOK, Files
  <2>2. n + 1 \in Init_id .. MaxRequests
    <3> HIDE DEF n
    <3> QED BY <1>2, CodeServerAssumption DEF Ids, Init_id
  <2> QED BY <2>1, <2>2
<1>4. ~Fresh
  BY <1>2, FileTypes DEF Fresh
<1>5. CASE /\ layer' = [layer EXCEPT !.got = Append(@, f.mesg)]
           /\ helper' = [helper EXCEPT !.curr_id = @ + 1, !.tries = Tries]
           /\ code_complete' = [code_complete EXCEPT ![n] = NoFile]
           /\ UNCHANGED <<inbox, candidate>>
  <2>1. /\ layer' \in [session : 0 .. MaxSessions, active : BOOLEAN, sent : 0 .. MaxRequests,
                       got : Seq(Mesgs)]
        /\ layer'.session = layer.session /\ layer'.sent = layer.sent
    <3>1. f.mesg \in Mesgs /\ layer.got \in Seq(Mesgs)
      BY <1>1, <1>3 DEF TypeOK
    <3>2. Append(layer.got, f.mesg) \in Seq(Mesgs)
      BY <3>1, AppendProperties
    <3> HIDE DEF f
    <3> QED BY <1>1, <1>5, <3>2 DEF TypeOK
  <2>2. /\ helper' \in [up : BOOLEAN, next_id : Init_id .. MaxRequests,
                        curr_id : Init_id .. MaxRequests, tries : 1 .. Tries]
        /\ helper'.up = helper.up /\ helper'.next_id = helper.next_id
    <3>1. Tries \in 1 .. Tries
      BY CodeServerAssumption
    <3> QED BY <1>1, <1>3, <1>5, <3>1 DEF TypeOK
  <2>3. code_complete' \in Files
    <3>1. code_complete' = Put(code_complete, n, NoFile) /\ code_complete \in Files
      BY <1>1, <1>5 DEF Put, TypeOK
    <3> HIDE DEF n
    <3> QED BY <1>2, <3>1, PutFile, FileTypes
  <2>4. TypeOK'
    BY <1>1, <1>2, <1>5, <2>1, <2>2, <2>3 DEF TypeOK
  <2>5. HelperSound'
    BY <1>1, <1>5, <2>1, <2>2 DEF HelperSound
  <2>6. Inits' = Inits
    BY <1>5, <2>1, <2>2 DEF Inits, Initial
  <2>7. Inits' \in Int /\ Inits <= Inits'
    BY <1>1, <2>6, InitsType
  <2>8. Fresh' \/ SlotsSound'
    BY <1>1, <1>2, <1>4, <2>7, CountStays
  <2> QED BY <2>4, <2>5, <2>8 DEF SlotInv
<1>6. CASE /\ helper.tries > 1 /\ helper' = [helper EXCEPT !.tries = @ - 1]
           /\ UNCHANGED <<layer, inbox, candidate, code_complete>>
  <2>1. /\ helper' \in [up : BOOLEAN, next_id : Init_id .. MaxRequests,
                        curr_id : Init_id .. MaxRequests, tries : 1 .. Tries]
        /\ helper'.up = helper.up /\ helper'.next_id = helper.next_id
    <3>1. helper.tries - 1 \in 1 .. Tries
      <4>1. helper.tries \in 1 .. Tries
        BY <1>1 DEF TypeOK
      <4> QED BY <1>6, <4>1, CodeServerAssumption
    <3> QED BY <1>1, <1>6, <3>1 DEF TypeOK
  <2>2. TypeOK'
    BY <1>1, <1>2, <1>6, <2>1 DEF TypeOK
  <2>3. HelperSound'
    BY <1>1, <1>6, <2>1 DEF HelperSound
  <2>4. Inits' = Inits
    BY <1>6, <2>1 DEF Inits, Initial
  <2>5. Inits' \in Int /\ Inits <= Inits'
    BY <1>1, <2>4, InitsType
  <2>6. Fresh' \/ SlotsSound'
    BY <1>1, <1>2, <1>4, <2>5, CountStays
  <2> QED BY <2>2, <2>3, <2>6 DEF SlotInv
<1>7. CASE Cleanup /\ UNCHANGED layer
  BY <1>2, <1>7, CleanupSlots
<1> QED
  BY <1>5, <1>6, <1>7 DEF HelperRead

-----------------------------------------------------------------------------
(* The server sees a file; that it is to make code for one while all its   *)
(* generators are busy, it finds out at once.                              *)
LEMMA SeeSlots ==
  ASSUME SlotInv, See
  PROVE  SlotInv'
<1>1. TypeOK /\ HelperSound /\ (Fresh \/ SlotsSound)
  BY DEF SlotInv
<1>2. PICK n \in {Init_id, server.timestep} \cap Ids :
        /\ candidate[n] # NoFile
        /\ candidate[Init_id] # NoFile => n = Init_id
        /\ server' = [server EXCEPT !.id = n, !.tries = Tries,
                        !.pc = IF n # Init_id /\ Idle = {} THEN "overflow" ELSE "read"]
  BY DEF See
<1>3. UNCHANGED <<layer, inbox, helper, candidate, code_complete, gen_list, child>>
  BY DEF See
<1>4. Tries \in 1 .. Tries /\ n \in Ids /\ n \in Int
  BY <1>2, CodeServerAssumption, FileTypes
<1>5. /\ server' \in [pc : ServerPcs, id : Int, tries : 1 .. Tries, timestep : Nat,
                      num_ready : 0 .. Generators]
      /\ server'.id = n /\ server'.timestep = server.timestep
      /\ server'.num_ready = server.num_ready
      /\ server'.pc = IF n # Init_id /\ Idle = {} THEN "overflow" ELSE "read"
  BY <1>1, <1>2, <1>4 DEF TypeOK, ServerPcs
<1>6. TypeOK'
  BY <1>1, <1>3, <1>5 DEF TypeOK
<1>7. HelperSound'
  BY <1>1, <1>3 DEF HelperSound
<1>8. Inits' = Inits /\ Idle' = Idle /\ Forgotten' = Forgotten
  BY <1>3 DEF Inits, Initial, Idle, Forgotten
<1>9. CASE Fresh
  <2>1. helper.up /\ n < helper.next_id
    BY <1>1, <1>2, <1>4 DEF HelperSound
  <2>2. helper.next_id + Len(inbox) = 0
    BY <1>1, <1>9, <2>1 DEF HelperSound, Fresh
  <2>3. n = Init_id
    <3>1. Len(inbox) \in Nat /\ helper.next_id \in Int
      BY <1>1, LenProperties, CodeServerAssumption DEF TypeOK, Init_id
    <3>2. n < 0 /\ n >= Init_id
      BY <1>4, <2>1, <2>2, <3>1, CodeServerAssumption DEF Ids, Init_id
    <3> QED BY <1>4, <3>2 DEF Init_id
  <2> QED BY <1>1, <1>3, <1>5, <1>6, <1>7, <1>9, <2>3 DEF Fresh, SlotInv
<1>10. CASE SlotsSound
  <2>1. server'.pc = "read" /\ server'.id # Init_id =>
          Idle' # {} /\ server'.id \in Ids /\ server'.id = server'.timestep
    BY <1>2, <1>4, <1>5, <1>8
  <2>2. server'.pc # "reap"
    BY <1>5
  <2> QED BY <1>3, <1>5, <1>6, <1>7, <1>8, <1>10, <2>1, <2>2 DEF SlotsSound, SlotInv
<1> QED
  BY <1>1, <1>9, <1>10

(* Of a request the server has done with, only the file is gone.           *)
LEMMA RemovedFile ==
  ASSUME TypeOK, HelperSound, UNCHANGED <<layer, inbox, helper>>,
         \/ UNCHANGED candidate
         \/ \E n \in Ids : candidate' = Put(candidate, n, NoFile)
         \/ candidate' = NoFiles
  PROVE  /\ HelperSound' /\ candidate' \in Files
         /\ Inits' \in Int /\ Inits <= Inits'
         /\ (candidate'[Init_id] = candidate[Init_id] => Inits' = Inits)
<1>1. candidate \in Files
  BY DEF TypeOK
<1>2. candidate' \in Files /\ \A n \in Ids : candidate'[n] \in {candidate[n], NoFile}
  <2>1. CASE UNCHANGED candidate
    BY <1>1, <2>1
  <2>2. CASE \E n \in Ids : candidate' = Put(candidate, n, NoFile)
    <3>1. PICK n \in Ids : candidate' = Put(candidate, n, NoFile)
      BY <2>2
    <3>2. NoFile \in [mesg : Mesgs, whole : BOOLEAN]
      BY FileTypes
    <3> QED BY <1>1, <3>1, <3>2, PutFile
  <2>3. CASE candidate' = NoFiles
    BY <2>3, FileTypes
  <2> QED BY <2>1, <2>2, <2>3
<1>3. HelperSound'
  BY <1>2 DEF HelperSound
<1>4. Initial' => Initial
  BY <1>2, FileTypes DEF Initial
<1>5. candidate'[Init_id] = candidate[Init_id] => Inits' = Inits
  BY DEF Initial, Inits
<1>6. Inits' \in Int /\ Inits <= Inits'
  <2>1. layer.session \in Int
    BY CodeServerAssumption DEF TypeOK
  <2>2. Inits' = IF Initial' THEN layer.session - 1 ELSE layer.session
    BY DEF Inits
  <2>3. Inits = IF Initial THEN layer.session - 1 ELSE layer.session
    BY DEF Inits
  <2> HIDE DEF Initial
  <2> QED BY <1>4, <2>1, <2>2, <2>3
<1> QED
  BY <1>2, <1>3, <1>5, <1>6

(* The types after a step of the server.                                   *)
LEMMA ServerTypes ==
  ASSUME TypeOK, UNCHANGED <<layer, inbox, helper>>,
         candidate' \in Files, code_complete' \in Files,
         server' \in [pc : ServerPcs, id : Int, tries : 1 .. Tries, timestep : Nat,
                      num_ready : 0 .. Generators],
         gen_list' \in [Slots -> [pid : Pids \cup {0}, step : Nat, mesg : Mesgs]],
         child' \in [Pids -> {"none", "running", "exited"}]
  PROVE  TypeOK'
  BY DEF TypeOK

(* An initial message makes the server forget the generators that it has.  *)
LEMMA InitRead ==
  ASSUME SlotInv, NEW m \in Mesgs, codeserver_init(m), candidate[Init_id] # NoFile,
         UNCHANGED <<layer, inbox, helper>>
  PROVE  SlotInv'
<1>1. TypeOK /\ HelperSound /\ (Fresh \/ SlotsSound)
  BY DEF SlotInv
<1>2. /\ candidate' = NoFiles /\ gen_list' = [i \in Slots |-> FreeGen]
      /\ code_complete' = Put(code_complete, Init_id, File(m))
      /\ server' = [server EXCEPT !.pc = "poll", !.timestep = 0, !.num_ready = Generators]
      /\ child' = child
  BY DEF codeserver_init, Put
<1>3. HelperSound' /\ candidate' \in Files
  BY <1>1, <1>2, RemovedFile
<1>4. code_complete' \in Files
  BY <1>1, <1>2, PutFile, FileTypes DEF TypeOK
<1>5. /\ server' \in [pc : ServerPcs, id : Int, tries : 1 .. Tries, timestep : Nat,
                      num_ready : 0 .. Generators]
      /\ server'.pc = "poll" /\ server'.num_ready = Generators
  <2>1. Generators \in 0 .. Generators
    BY CodeServerAssumption
  <2> QED BY <1>1, <1>2, <2>1 DEF TypeOK, ServerPcs
<1>6. /\ gen_list' \in [Slots -> [pid : Pids \cup {0}, step : Nat, mesg : Mesgs]]
      /\ \A i \in Slots : gen_list'[i].pid = 0
  BY <1>2, FileTypes
<1>7. TypeOK'
  <2>1. child' \in [Pids -> {"none", "running", "exited"}]
    BY <1>1, <1>2 DEF TypeOK
  <2> QED BY <1>1, <1>3, <1>4, <1>5, <1>6, <2>1, ServerTypes
<1>8. Inits = layer.session - 1 /\ Inits' = layer.session /\ layer.session \in Nat \ {0}
  <2>1. helper.up /\ Init_id < helper.next_id /\ layer.session > 0
    BY <1>1, FileTypes DEF HelperSound
  <2>2. helper.next_id # Init_id /\ layer.session \in Nat
    BY <1>1, <2>1, CodeServerAssumption DEF TypeOK, Init_id
  <2>3. Initial
    BY DEF Initial
  <2>4. ~Initial'
    BY <1>2, <2>2, FileTypes DEF Initial
  <2> QED BY <2>1, <2>2, <2>3, <2>4 DEF Inits
<1>9. Idle' = Slots
  BY <1>6 DEF Idle
<1>10. Forgotten' = Used
  <2>1. \A p \in Pids : p # 0
    BY DEF Pids
  <2> QED BY <1>2, <1>6, <2>1 DEF Forgotten, Used
<1>11. Cardinality(Used) <= (Inits' - 1) * Generators
  <2>1. Inits' - 1 = Inits /\ Inits \in Nat
    BY <1>8
  <2>2. Inits * Generators = (Inits - 1) * Generators + Generators /\ 0 <= Inits * Generators
        /\ (Inits - 1) * Generators \in Int /\ Inits * Generators \in Int
    <3>1. Generators \in Nat /\ Inits \in Int /\ Inits - 1 \in Int
      BY <2>1, CodeServerAssumption
    <3>2. Inits <= Inits /\ Inits - 1 <= Inits - 1
      BY <3>1
    <3> QED BY <2>1, <3>1, <3>2, RoomGrows
  <2>3. CASE Fresh
    <3>1. Used = {}
      BY <2>3 DEF Fresh, Used
    <3> QED BY <2>1, <2>2, <3>1, FS_EmptySet
  <2>4. CASE SlotsSound
    <3>1. Cardinality(Used) <= Cardinality(Forgotten) + (Generators - Cardinality(Idle))
          /\ Cardinality(Used) \in Nat
      BY <1>1, <2>4, UsedBound
    <3>2. Cardinality(Forgotten) <= (Inits - 1) * Generators
      BY <2>4 DEF SlotsSound
    <3>3. Cardinality(Idle) \in Nat /\ Cardinality(Forgotten) \in Nat /\ Generators \in Nat
      BY <1>1, SlotSets
    <3> QED BY <2>1, <2>2, <3>1, <3>2, <3>3
  <2> QED BY <1>1, <2>3, <2>4
<1>12. SlotsSound'
  <2>1. server'.num_ready = Cardinality(Idle')
    BY <1>1, <1>5, <1>9, SlotSets
  <2>2. Inits' > 0 /\ Cardinality(Forgotten') <= (Inits' - 1) * Generators
    BY <1>8, <1>10, <1>11
  <2> QED BY <1>5, <1>6, <2>1, <2>2 DEF SlotsSound
<1> QED
  BY <1>3, <1>7, <1>12 DEF SlotInv

(* A generator starts: it takes an idle slot and a process number that is  *)
(* not in use.                                                             *)
LEMMA StartedGenerator ==
  ASSUME TypeOK, SlotsSound, NEW m \in Mesgs, generator_make(m), Idle # {}
  PROVE  \E i \in Idle, p \in Pids :
           /\ child[p] = "none"
           /\ gen_list' = [gen_list EXCEPT ![i] = [pid |-> p, step |-> server.timestep, mesg |-> m]]
           /\ child' = [child EXCEPT ![p] = "running"]
<1> DEFINE P == {q \in Pids : child[q] = "none"}
<1>1. Lowest(Idle) \in Idle
  <2>1. Idle \in SUBSET Nat
    BY SlotSets
  <2> QED BY <2>1, LowestType
<1>2. Lowest(P) \in P
  BY PidLeft
<1>3. /\ gen_list' = [gen_list EXCEPT ![Lowest(Idle)] =
                         [pid |-> Lowest(P), step |-> server.timestep, mesg |-> m]]
      /\ child' = [child EXCEPT ![Lowest(P)] = "running"]
  BY DEF generator_make
<1>4. Lowest(P) \in Pids /\ child[Lowest(P)] = "none"
  BY <1>2
<1> HIDE DEF P
<1> QED
  BY <1>1, <1>3, <1>4

LEMMA MakeSlots ==
  ASSUME SlotInv, SlotsSound, NEW m \in Mesgs, generator_make(m), Idle # {},
         UNCHANGED <<layer, inbox, helper>>, server.timestep \in Ids
  PROVE  SlotInv'
<1>1. TypeOK /\ HelperSound
  BY DEF SlotInv
<1>2. PICK i \in Idle, p \in Pids :
        /\ child[p] = "none"
        /\ gen_list' = [gen_list EXCEPT ![i] = [pid |-> p, step |-> server.timestep, mesg |-> m]]
        /\ child' = [child EXCEPT ![p] = "running"]
  BY <1>1, StartedGenerator
<1>3. server.timestep \in Nat /\ i \in Slots /\ gen_list[i].pid = 0
  BY <1>1, <1>2 DEF TypeOK, Idle
<1>4. /\ gen_list' \in [Slots -> [pid : Pids \cup {0}, step : Nat, mesg : Mesgs]]
      /\ gen_list'[i].pid = p /\ \A j \in Slots : j # i => gen_list'[j] = gen_list[j]
  <2>1. [pid |-> p, step |-> server.timestep, mesg |-> m] \in [pid : Pids \cup {0}, step : Nat, mesg : Mesgs]
    BY <1>2, <1>3
  <2>2. gen_list \in [Slots -> [pid : Pids \cup {0}, step : Nat, mesg : Mesgs]]
    BY <1>1 DEF TypeOK
  <2>3. gen_list'[i] = [pid |-> p, step |-> server.timestep, mesg |-> m]
    BY <1>2, <1>3, <2>2
  <2>4. gen_list'[i].pid = p
    BY <2>3
  <2> QED BY <1>2, <1>3, <2>1, <2>2, <2>4
<1>5. /\ child' \in [Pids -> {"none", "running", "exited"}]
      /\ child'[p] # "none" /\ \A q \in Pids : q # p => child'[q] = child[q]
  BY <1>1, <1>2 DEF TypeOK
<1>6. /\ server' \in [pc : ServerPcs, id : Int, tries : 1 .. Tries, timestep : Nat,
                      num_ready : 0 .. Generators]
      /\ server'.num_ready = server.num_ready - 1
      /\ server'.pc \in {"poll", "reap"}
      /\ server'.pc = "reap" => server'.num_ready = 0
  <2> DEFINE ready == [server EXCEPT !.num_ready = @ - 1]
  <2>1. server.num_ready > 0
    <3>1. server.num_ready = Cardinality(Idle)
      BY DEF SlotsSound
    <3>2. Cardinality(Idle) \in 0 .. Generators /\ Cardinality(Idle) # 0
      BY <1>1, SlotSets
    <3> QED BY <3>1, <3>2, CodeServerAssumption
  <2>2. server.num_ready - 1 \in 0 .. Generators /\ server.timestep + 1 \in Nat
    <3>1. server.num_ready \in 0 .. Generators
      BY <1>1 DEF TypeOK
    <3> QED BY <1>3, <2>1, <3>1, CodeServerAssumption
  <2>3. /\ ready \in [pc : ServerPcs, id : Int, tries : 1 .. Tries, timestep : Nat,
                      num_ready : 0 .. Generators]
        /\ ready.num_ready = server.num_ready - 1 /\ ready.timestep = server.timestep
    BY <1>1, <2>2 DEF TypeOK
  <2>4. server' = IF ready.num_ready = 0 THEN [ready EXCEPT !.pc = "reap"] ELSE NextStep(ready)
    BY DEF generator_make
  <2> HIDE DEF ready
  <2>5. CASE ready.num_ready = 0
    BY <2>3, <2>4, <2>5 DEF ServerPcs
  <2>6. CASE ready.num_ready # 0
    BY <2>2, <2>3, <2>4, <2>6 DEF ServerPcs, NextStep
  <2> QED BY <2>5, <2>6
<1>7. candidate' = candidate \/ candidate' = Put(candidate, server.timestep, NoFile)
  BY DEF generator_make, Put
<1>8. HelperSound' /\ candidate' \in Files
  BY <1>1, <1>7, RemovedFile
<1>9. code_complete' = code_complete /\ code_complete \in Files
  BY <1>1 DEF generator_make, TypeOK
<1>10. TypeOK'
  BY <1>1, <1>4, <1>5, <1>6, <1>8, <1>9, ServerTypes
<1>11. Inits' = Inits
  <2>1. server.timestep # Init_id
    BY <1>3 DEF Init_id
  <2>2. candidate \in Files
    BY <1>1 DEF TypeOK
  <2>3. candidate'[Init_id] = candidate[Init_id]
    <3>1. NoFile \in [mesg : Mesgs, whole : BOOLEAN] /\ Init_id \in Ids
      BY FileTypes
    <3>2. Put(candidate, server.timestep, NoFile)[Init_id] = candidate[Init_id]
      BY <2>1, <2>2, <3>1, PutFile
    <3> QED BY <1>7, <3>2
  <2> QED BY <1>1, <1>7, <2>3, RemovedFile
<1>12. p # 0 /\ p \in Nat
  BY <1>2 DEF Pids
<1>13. Idle' = Idle \ {i}
  BY <1>3, <1>4, <1>12 DEF Idle
<1>14. Cardinality(Idle') = Cardinality(Idle) - 1
  BY <1>1, <1>2, <1>13, SlotSets, FS_RemoveElement
<1>15. Forgotten' = Forgotten
  <2>1. p \notin Forgotten
    BY <1>2 DEF Forgotten
  <2>2. p \notin Forgotten'
    BY <1>3, <1>4 DEF Forgotten
  <2>3. ASSUME NEW q \in Pids, q # p
        PROVE  q \in Forgotten' <=> q \in Forgotten
    <3>1. q # 0 /\ child'[q] = child[q]
      BY <1>5, <2>3 DEF Pids
    <3>2. (\A j \in Slots : gen_list'[j].pid # q) <=> (\A j \in Slots : gen_list[j].pid # q)
      BY <1>3, <1>4, <2>3, <3>1
    <3> QED BY <3>1, <3>2 DEF Forgotten
  <2>4. Forgotten \subseteq Pids /\ Forgotten' \subseteq Pids
    BY DEF Forgotten
  <2> QED BY <2>1, <2>2, <2>3, <2>4
<1>16. SlotsSound'
  <2>1. server'.num_ready = Cardinality(Idle')
    BY <1>6, <1>14 DEF SlotsSound
  <2>2. server'.pc = "reap" => Idle' = {}
    <3>1. IsFiniteSet(Idle')
      BY <1>1, <1>13, SlotSets, FS_RemoveElement
    <3>2. Cardinality(Idle') = 0 <=> Idle' = {}
      BY <3>1, FS_EmptySet
    <3> QED BY <1>6, <2>1, <3>2
  <2>3. \A j \in Slots : gen_list[j].pid # p
    <3>1. \A j \in Slots : gen_list[j].pid # 0 => child[gen_list[j].pid] # "none"
      BY DEF SlotsSound
    <3> QED BY <1>2, <1>12, <3>1
  <2>4. \A j \in Slots : gen_list'[j].pid # 0 => child'[gen_list'[j].pid] # "none"
    <3>1. ASSUME NEW j \in Slots, gen_list'[j].pid # 0
          PROVE  child'[gen_list'[j].pid] # "none"
      <4>1. CASE j = i
        BY <1>4, <1>5, <4>1
      <4>2. CASE j # i
        <5>1. gen_list'[j].pid = gen_list[j].pid /\ gen_list[j].pid \in Pids
          BY <1>1, <1>4, <3>1, <4>2 DEF TypeOK
        <5>2. child[gen_list[j].pid] # "none" /\ gen_list[j].pid # p
          BY <2>3, <3>1, <5>1 DEF SlotsSound
        <5> QED BY <1>5, <5>1, <5>2
      <4> QED BY <4>1, <4>2
    <3> QED BY <3>1
  <2>5. \A j, k \in Slots : gen_list'[j].pid = gen_list'[k].pid /\ gen_list'[j].pid # 0 => j = k
    <3>1. \A j, k \in Slots : gen_list[j].pid = gen_list[k].pid /\ gen_list[j].pid # 0 => j = k
      BY DEF SlotsSound
    <3> QED BY <1>4, <2>3, <3>1
  <2>6. Inits' > 0 /\ Cardinality(Forgotten') <= (Inits' - 1) * Generators
    BY <1>11, <1>15 DEF SlotsSound
  <2>7. server'.pc # "read"
    BY <1>6
  <2> QED BY <2>1, <2>2, <2>4, <2>5, <2>6, <2>7 DEF SlotsSound
<1> QED
  BY <1>8, <1>10, <1>16 DEF SlotInv

LEMMA ReadSlots ==
  ASSUME SlotInv, Read
  PROVE  SlotInv'
<1>1. TypeOK /\ HelperSound /\ (Fresh \/ SlotsSound)
  BY DEF SlotInv
<1> DEFINE f == candidate[server.id]
<1>2. server.pc = "read" /\ UNCHANGED <<layer, inbox, helper>>
  BY DEF Read, At
<1>3. /\ server.id \in Ids
      /\ server.id # Init_id => SlotsSound /\ Idle # {} /\ server.timestep \in Ids
  BY <1>1, <1>2, FileTypes DEF Fresh, SlotsSound
<1>4. f \in [mesg : Mesgs, whole : BOOLEAN]
  BY <1>1, <1>3 DEF TypeOK, Files
<1>5. CASE f # NoFile /\ (IF server.id = Init_id THEN codeserver_init(f.mesg) ELSE generator_make(f.mesg))
  <2>1. f.mesg \in Mesgs
    BY <1>4
  <2>2. CASE server.id = Init_id
    <3>1. codeserver_init(f.mesg) /\ candidate[Init_id] # NoFile
      BY <1>5, <2>2
    <3> HIDE DEF f
    <3> QED BY <1>2, <2>1, <3>1, InitRead
  <2>3. CASE server.id # Init_id
    <3>1. generator_make(f.mesg)
      BY <1>5, <2>3
    <3> HIDE DEF f
    <3> QED BY <1>2, <1>3, <2>1, <2>3, <3>1, MakeSlots
  <2> QED BY <2>2, <2>3
<1>6. CASE /\ server.tries > 1
           /\ server' = [server EXCEPT !.tries = @ - 1]
           /\ UNCHANGED <<candidate, code_complete, gen_list, child>>
  <2>1. server.tries - 1 \in 1 .. Tries
    <3>1. server.tries \in 1 .. Tries
      BY <1>1 DEF TypeOK
    <3> QED BY <1>6, <3>1, CodeServerAssumption
  <2>2. /\ server' \in [pc : ServerPcs, id : Int, tries : 1 .. Tries, timestep : Nat,
                        num_ready : 0 .. Generators]
        /\ server'.pc = server.pc /\ server'.id = server.id /\ server'.timestep = server.timestep
        /\ server'.num_ready = server.num_ready
    BY <1>1, <1>6, <2>1 DEF TypeOK
  <2>3. TypeOK'
    BY <1>1, <1>2, <1>6, <2>2 DEF TypeOK
  <2>4. HelperSound' /\ Inits' = Inits /\ Idle' = Idle /\ Forgotten' = Forgotten
    BY <1>1, <1>2, <1>6 DEF HelperSound, Inits, Initial, Idle, Forgotten
  <2>5. Fresh => Fresh'
    BY <1>2, <1>6, <2>2 DEF Fresh
  <2>6. SlotsSound => SlotsSound'
    BY <1>6, <2>2, <2>4 DEF SlotsSound
  <2> QED BY <1>1, <2>3, <2>4, <2>5, <2>6 DEF SlotInv
<1>7. CASE server.id = Init_id /\ BadInit
  <2>1. /\ candidate' = Put(candidate, Init_id, NoFile)
        /\ server' = [server EXCEPT !.pc = "poll"]
        /\ UNCHANGED <<code_complete, gen_list, child>>
    BY <1>7 DEF BadInit, Put
  <2>2. HelperSound' /\ candidate' \in Files /\ Inits' \in Int /\ Inits <= Inits'
    BY <1>1, <1>2, <2>1, FileTypes, RemovedFile
  <2>3. /\ server' \in [pc : ServerPcs, id : Int, tries : 1 .. Tries, timestep : Nat,
                        num_ready : 0 .. Generators]
        /\ server'.pc = "poll" /\ server'.num_ready = server.num_ready
    BY <1>1, <2>1 DEF TypeOK, ServerPcs
  <2>4. TypeOK'
    BY <1>1, <1>2, <2>1, <2>2, <2>3 DEF TypeOK
  <2>5. Fresh => Fresh'
    BY <1>2, <2>1, <2>3 DEF Fresh
  <2>6. SlotsSound => SlotsSound'
    <3>1. Idle' = Idle /\ Forgotten' = Forgotten
      BY <2>1 DEF Idle, Forgotten
    <3>2. ASSUME SlotsSound
          PROVE  Inits' > 0 /\ Cardinality(Forgotten') <= (Inits' - 1) * Generators
      BY <1>1, <2>2, <3>1, <3>2, RoomStays
    <3> QED BY <2>1, <2>3, <3>1, <3>2 DEF SlotsSound
  <2> QED BY <1>1, <2>2, <2>4, <2>5, <2>6 DEF SlotInv
<1>8. CASE server.id # Init_id /\ generator_make(Blank)
  BY <1>2, <1>3, <1>8, FileTypes, MakeSlots
<1>9. \/ f # NoFile /\ (IF server.id = Init_id THEN codeserver_init(f.mesg) ELSE generator_make(f.mesg))
      \/ /\ server.tries > 1
         /\ server' = [server EXCEPT !.tries = @ - 1]
         /\ UNCHANGED <<candidate, code_complete, gen_list, child>>
      \/ IF server.id = Init_id THEN BadInit ELSE generator_make(Blank)
  BY DEF Read
<1> QED
  BY <1>5, <1>6, <1>7, <1>8, <1>9

-----------------------------------------------------------------------------
(* What a step that writes an answer leaves of the directory.              *)
LEMMA AnswerPut ==
  ASSUME NEW F \in Files, NEW n, NEW f \in [mesg : Mesgs, whole : BOOLEAN]
  PROVE  Put(F, n, f) \in Files
         /\ \A k \in Ids : Put(F, n, f)[k] = IF k = n THEN f ELSE F[k]
<1>1. DOMAIN F = Ids
  BY DEF Files
<1> QED
  BY <1>1 DEF Files, Put

(* A generator that exits leaves its slot, if it has one.                  *)
LEMMA ReapedSlots ==
  ASSUME TypeOK, SlotsSound, NEW p \in Pids, child[p] = "exited",
         child' = [child EXCEPT ![p] = "none"], slave_complete(p),
         server'.num_ready = Reaped(p).num_ready,
         server'.pc = "poll",
         Inits' \in Int, Inits <= Inits'
  PROVE  /\ SlotsSound' /\ code_complete' \in Files
         /\ gen_list' \in [Slots -> [pid : Pids \cup {0}, step : Nat, mesg : Mesgs]]
         /\ child' \in [Pids -> {"none", "running", "exited"}]
         /\ server'.num_ready \in 0 .. Generators
<1> DEFINE mine == {i \in Slots : gen_list[i].pid = p}
<1>1. /\ child' \in [Pids -> {"none", "running", "exited"}]
      /\ child'[p] = "none" /\ \A q \in Pids : q # p => child'[q] = child[q]
  BY DEF TypeOK
<1>2. p # 0
  BY DEF Pids
<1>3. /\ \A i \in Slots : gen_list[i].pid # 0 => child[gen_list[i].pid] # "none"
      /\ \A i, j \in Slots : gen_list[i].pid = gen_list[j].pid /\ gen_list[i].pid # 0 => i = j
      /\ server.num_ready = Cardinality(Idle)
  BY DEF SlotsSound
<1>4. code_complete \in Files
      /\ gen_list \in [Slots -> [pid : Pids \cup {0}, step : Nat, mesg : Mesgs]]
  BY DEF TypeOK
<1>5. server'.num_ready = IF \E i \in Slots : gen_list[i].pid = p
                            THEN server.num_ready + 1 ELSE server.num_ready
  BY DEF Reaped, TypeOK
<1>6. ASSUME IsFiniteSet(Forgotten), Cardinality(Forgotten) \in Nat, Forgotten' \subseteq Forgotten
      PROVE  Inits' > 0 /\ Cardinality(Forgotten') <= (Inits' - 1) * Generators
  <2>1. Inits' > 0 /\ Cardinality(Forgotten) <= (Inits' - 1) * Generators
    BY RoomStays
  <2>2. Cardinality(Forgotten') <= Cardinality(Forgotten) /\ Cardinality(Forgotten') \in Nat
    BY <1>6, FS_Subset, FS_CardinalityType
  <2>3. (Inits' - 1) * Generators \in Int
    BY CodeServerAssumption
  <2> QED BY <1>6, <2>1, <2>2, <2>3
<1>7. CASE mine = {}
  <2>1. gen_list' = gen_list /\ code_complete' = code_complete /\ server'.num_ready = server.num_ready
    BY <1>5, <1>7 DEF slave_complete
  <2>2. \A i \in Slots : gen_list[i].pid # p
    BY <1>7
  <2>3. Forgotten' \subseteq Forgotten
    BY <1>1, <2>1 DEF Forgotten
  <2>4. \A i \in Slots : gen_list'[i].pid # 0 => child'[gen_list'[i].pid] # "none"
    BY <1>1, <1>3, <1>4, <2>1, <2>2
  <2>5. Idle' = Idle
    BY <2>1 DEF Idle
  <2>6. Inits' > 0 /\ Cardinality(Forgotten') <= (Inits' - 1) * Generators
    BY <1>6, <2>3, SlotSets
  <2>7. SlotsSound'
    BY <1>3, <2>1, <2>4, <2>5, <2>6 DEF SlotsSound
  <2>8. server'.num_ready \in 0 .. Generators
    BY <2>1 DEF TypeOK
  <2> QED BY <1>1, <1>4, <2>1, <2>7, <2>8
<1>8. CASE mine # {}
  <2>1. Lowest(mine) \in mine
    <3>1. mine \in SUBSET Nat
      BY SlotSets
    <3> HIDE DEF mine
    <3> QED BY <1>8, <3>1, LowestType
  <2>2. PICK i \in Slots : /\ gen_list[i].pid = p
                           /\ gen_list' = [gen_list EXCEPT ![i] = FreeGen]
                           /\ code_complete' = Put(code_complete, gen_list[i].step, File(gen_list[i].mesg))
    BY <1>8, <2>1 DEF slave_complete, Put
  <2>3. code_complete' \in Files
    <3>1. gen_list[i].mesg \in Mesgs
      BY <1>4
    <3> QED BY <1>4, <2>2, <3>1, FileTypes, AnswerPut
  <2>4. /\ gen_list' \in [Slots -> [pid : Pids \cup {0}, step : Nat, mesg : Mesgs]]
        /\ gen_list'[i].pid = 0 /\ \A j \in Slots : j # i => gen_list'[j] = gen_list[j]
    BY <1>4, <2>2, FileTypes
  <2>5. Idle' = Idle \cup {i} /\ i \notin Idle
    BY <1>2, <2>2, <2>4 DEF Idle
  <2>6. Cardinality(Idle') = Cardinality(Idle) + 1 /\ IsFiniteSet(Idle') /\ Idle' \subseteq Slots
    <3>1. IsFiniteSet(Idle) /\ Idle \subseteq Slots
      BY SlotSets
    <3>2. IsFiniteSet(Idle \cup {i}) /\ Cardinality(Idle \cup {i}) = Cardinality(Idle) + 1
      BY <2>5, <3>1, FS_AddElement
    <3> QED BY <2>5, <3>1, <3>2
  <2>7. server'.num_ready = Cardinality(Idle') /\ server'.num_ready \in 0 .. Generators
    <3>1. server'.num_ready = server.num_ready + 1
      BY <1>5, <2>2
    <3>2. Cardinality(Idle') <= Generators
      BY <2>6, SlotSets, FS_Subset
    <3>3. Cardinality(Idle) \in Nat /\ Generators \in Nat
      BY SlotSets
    <3> QED BY <1>3, <2>6, <3>1, <3>2, <3>3
  <2>8. \A j \in Slots : j # i => gen_list[j].pid # p
    BY <1>2, <1>3, <2>2
  <2>9. Forgotten' \subseteq Forgotten
    <3>1. ASSUME NEW q \in Pids, child'[q] # "none", \A j \in Slots : gen_list'[j].pid # q
          PROVE  child[q] # "none" /\ \A j \in Slots : gen_list[j].pid # q
      <4>1. q # p /\ child'[q] = child[q]
        BY <1>1, <3>1
      <4> QED BY <2>2, <2>4, <3>1, <4>1
    <3> QED BY <3>1 DEF Forgotten
  <2>10. \A j \in Slots : gen_list'[j].pid # 0 => child'[gen_list'[j].pid] # "none"
    <3>1. ASSUME NEW j \in Slots, gen_list'[j].pid # 0
          PROVE  child'[gen_list'[j].pid] # "none"
      <4>1. j # i /\ gen_list'[j] = gen_list[j]
        BY <2>4, <3>1
      <4>2. gen_list[j].pid \in Pids /\ gen_list[j].pid # p /\ child[gen_list[j].pid] # "none"
        BY <1>3, <1>4, <2>8, <3>1, <4>1
      <4> QED BY <1>1, <4>1, <4>2
    <3> QED BY <3>1
  <2>11. \A j, k \in Slots : gen_list'[j].pid = gen_list'[k].pid /\ gen_list'[j].pid # 0 => j = k
    BY <1>3, <2>4
  <2>12. Inits' > 0 /\ Cardinality(Forgotten') <= (Inits' - 1) * Generators
    BY <1>6, <2>9, SlotSets
  <2>13. SlotsSound'
    BY <2>7, <2>10, <2>11, <2>12 DEF SlotsSound
  <2> QED BY <1>1, <2>3, <2>4, <2>7, <2>13
<1> QED
  BY <1>7, <1>8

LEMMA ReapSlots ==
  ASSUME SlotInv, ReapIdle \/ ReapBusy
  PROVE  SlotInv'
<1>1. TypeOK /\ HelperSound /\ (Fresh \/ SlotsSound)
  BY DEF SlotInv
<1>2. /\ UNCHANGED <<layer, inbox, helper>>
      /\ candidate' = candidate \/ candidate' = Put(candidate, server.timestep, NoFile)
  BY DEF ReapIdle, ReapBusy, Put
<1>3. PICK p \in Pids :
        /\ child[p] = "exited" /\ child' = [child EXCEPT ![p] = "none"] /\ slave_complete(p)
        /\ (server.pc = "poll" /\ server' = Reaped(p)) \/ server' = NextStep(Reaped(p))
  BY DEF ReapIdle, ReapBusy, At
<1>4. SlotsSound
  BY <1>1, <1>3 DEF Fresh
<1>5. /\ HelperSound' /\ candidate' \in Files
      /\ Inits' \in Int /\ Inits <= Inits'
  <2>1. CASE candidate' = candidate
    BY <1>1, <1>2, <2>1, RemovedFile
  <2>2. CASE candidate' # candidate
    <3>1. candidate \in Files
      BY <1>1 DEF TypeOK
    <3>2. candidate' = Put(candidate, server.timestep, NoFile)
      BY <1>2, <2>2
    <3>3. server.timestep \in Ids
      <4>1. ASSUME server.timestep \notin Ids PROVE FALSE
        <5>1. candidate = [n \in Ids |-> candidate[n]]
          BY <3>1 DEF Files
        <5>2. Put(candidate, server.timestep, NoFile) = [n \in Ids |-> candidate[n]]
          <6>1. DOMAIN candidate = Ids
            BY <3>1 DEF Files
          <6> QED BY <4>1, <6>1 DEF Put
        <5> QED BY <2>2, <3>2, <5>1, <5>2
      <4> QED BY <4>1
    <3> QED BY <1>1, <1>2, <3>2, <3>3, RemovedFile
  <2> QED BY <2>1, <2>2
<1>6. /\ server'.num_ready = Reaped(p).num_ready /\ server'.pc = "poll"
      /\ server'.num_ready \in 0 .. Generators =>
           server' \in [pc : ServerPcs, id : Int, tries : 1 .. Tries, timestep : Nat,
                        num_ready : 0 .. Generators]
  <2> DEFINE ready == IF \E i \in Slots : gen_list[i].pid = p
                        THEN server.num_ready + 1 ELSE server.num_ready
  <2>1. Reaped(p) = [server EXCEPT !.num_ready = ready]
    BY DEF Reaped
  <2> HIDE DEF ready
  <2>2. /\ server \in [pc : ServerPcs, id : Int, tries : 1 .. Tries, timestep : Nat,
                       num_ready : 0 .. Generators]
        /\ server.timestep + 1 \in Nat /\ "poll" \in ServerPcs
    BY <1>1 DEF TypeOK, ServerPcs
  <2>3. Reaped(p).num_ready = ready /\ Reaped(p).timestep = server.timestep
    BY <2>1, <2>2
  <2>4. CASE server.pc = "poll" /\ server' = Reaped(p)
    BY <2>1, <2>2, <2>3, <2>4
  <2>5. CASE server' = NextStep(Reaped(p))
    <3>1. server' = [[server EXCEPT !.num_ready = ready] EXCEPT !.pc = "poll", !.timestep = server.timestep + 1]
      BY <2>1, <2>3, <2>5 DEF NextStep
    <3> QED BY <2>2, <2>3, <3>1
  <2> QED BY <1>3, <2>4, <2>5
<1>7. /\ SlotsSound' /\ code_complete' \in Files
      /\ gen_list' \in [Slots -> [pid : Pids \cup {0}, step : Nat, mesg : Mesgs]]
      /\ child' \in [Pids -> {"none", "running", "exited"}]
      /\ server'.num_ready \in 0 .. Generators
  BY <1>1, <1>3, <1>4, <1>5, <1>6, ReapedSlots
<1>8. TypeOK'
  BY <1>1, <1>2, <1>5, <1>6, <1>7, ServerTypes
<1> QED
  BY <1>5, <1>7, <1>8 DEF SlotInv

LEMMA FinishSlots ==
  ASSUME SlotInv, NEW p \in Pids, Finish(p)
  PROVE  SlotInv'
<1>1. TypeOK /\ HelperSound /\ (Fresh \/ SlotsSound)
  BY DEF SlotInv
<1>2. /\ child[p] = "running" /\ child' = [child EXCEPT ![p] = "exited"]
      /\ UNCHANGED <<layer, inbox, helper, candidate, code_complete, server, gen_list>>
  BY DEF Finish
<1>3. /\ child' \in [Pids -> {"none", "running", "exited"}]
      /\ \A q \in Pids : child'[q] = "none" <=> child[q] = "none"
  BY <1>1, <1>2 DEF TypeOK
<1>4. TypeOK' /\ HelperSound' /\ Inits' = Inits /\ Idle' = Idle
  BY <1>1, <1>2, <1>3 DEF TypeOK, HelperSound, Inits, Initial, Idle
<1>5. Forgotten' = Forgotten
  BY <1>2, <1>3 DEF Forgotten
<1>6. SlotsSound
  BY <1>1, <1>2 DEF Fresh
<1>7. \A i \in Slots : gen_list[i].pid # 0 => child'[gen_list[i].pid] # "none"
  <2>1. \A i \in Slots : gen_list[i].pid \in Pids \cup {0}
    BY <1>1 DEF TypeOK
  <2> QED BY <1>3, <1>6, <2>1 DEF SlotsSound
<1>8. SlotsSound'
  BY <1>2, <1>4, <1>5, <1>6, <1>7 DEF SlotsSound
<1> QED
  BY <1>4, <1>8 DEF SlotInv

LEMMA NextSlots ==
  ASSUME SlotInv, [Next]_vars
  PROVE  SlotInv'
<1>1. CASE codegen_init
  BY <1>1, LaunchSlots
<1>2. CASE codegen_generate \/ codegen_fini
  BY <1>2, RequestSlots
<1>3. CASE Written
  BY <1>3, WrittenSlots
<1>4. CASE HelperForward
  BY <1>4, ForwardSlots
<1>5. CASE HelperEof
  BY <1>5, CleanupSlots DEF HelperEof
<1>6. CASE HelperRead
  BY <1>6, AnswerSlots
<1>7. CASE See
  BY <1>7, SeeSlots
<1>8. CASE Read
  BY <1>8, ReadSlots
<1>9. CASE ReapIdle \/ ReapBusy
  BY <1>9, ReapSlots
<1>10. CASE \E p \in Pids : Finish(p)
  BY <1>10, FinishSlots
<1>11. CASE UNCHANGED vars
  <2>1. TypeOK' = TypeOK /\ HelperSound' = HelperSound /\ Fresh' = Fresh
    BY <1>11 DEF TypeOK, HelperSound, Fresh, vars
  <2>2. SlotsSound' = SlotsSound
    BY <1>11 DEF SlotsSound, Inits, Initial, Idle, Forgotten, vars
  <2> QED BY <2>1, <2>2 DEF SlotInv
<1> QED
  BY <1>1, <1>2, <1>3, <1>4, <1>5, <1>6, <1>7, <1>8, <1>9, <1>10, <1>11
     DEF Next, HelperStep, ServerStep

LEMMA SlotInvariant == Spec => []SlotInv
<1>1. Init => SlotInv
  BY InitSlots
<1>2. SlotInv /\ [Next]_vars => SlotInv'
  BY NextSlots
<1> QED
  BY <1>1, <1>2, PTL DEF Spec

-----------------------------------------------------------------------------
(* main() of the code server and the helper keep their variables in range: *)
(* num_ready never passes the number of generators or drops below zero,    *)
(* and a process number in the slave list is that of a process.            *)
THEOREM TypeCorrect == Spec => []TypeOK
<1>1. SlotInv => TypeOK
  BY DEF SlotInv
<1> QED
  BY <1>1, SlotInvariant, PTL

(* num_ready, which codeserver_init() sets and generator_make(), main()    *)
(* and slave_complete() step, is the number of free entries of the slave   *)
(* list from the first initial message on, whatever order generators end   *)
(* in, whichever session they were started for and whatever is misread.    *)
THEOREM CountsCorrect == Spec => []SlotsCounted
<1>1. SlotInv => SlotsCounted
  <2> SUFFICES ASSUME SlotInv PROVE SlotsCounted
    OBVIOUS
  <2>1. CASE Fresh
    BY <2>1 DEF Fresh, SlotsCounted
  <2>2. CASE SlotsSound
    BY <2>2 DEF SlotsSound, SlotsCounted
  <2> QED BY <2>1, <2>2 DEF SlotInv
<1> QED
  BY <1>1, SlotInvariant, PTL

-----------------------------------------------------------------------------
(* The loop looks for work only while a slot is free.  That it finds one   *)
(* free when it has waited needs that every generator is in a slot, which  *)
(* a second initial message would end.                                     *)
Spare == server.pc # "reap" => Idle # {} /\ server.pc # "overflow"

(* In the first session no generator is forgotten.                         *)
LEMMA NoneForgotten ==
  ASSUME MaxSessions <= 1, TypeOK, SlotsSound
  PROVE  Forgotten = {}
<1>1. Inits \in Int /\ Inits > 0 /\ Inits <= layer.session
  BY InitsType DEF SlotsSound
<1>2. layer.session \in 0 .. MaxSessions
  BY DEF TypeOK
<1>3. Inits - 1 = 0
  BY <1>1, <1>2, CodeServerAssumption
<1>4. (Inits - 1) * Generators = 0
  BY <1>3, CodeServerAssumption
<1>5. Cardinality(Forgotten) <= (Inits - 1) * Generators
  BY DEF SlotsSound
<1>6. Cardinality(Forgotten) \in Nat /\ IsFiniteSet(Forgotten)
  BY SlotSets
<1>7. Cardinality(Forgotten) = 0
  BY <1>4, <1>5, <1>6
<1> QED
  BY <1>6, <1>7, FS_EmptySet

LEMMA AllIdle ==
  ASSUME gen_list = [i \in Slots |-> FreeGen]
  PROVE  Idle # {}
<1>1. 1 \in Slots
  BY CodeServerAssumption DEF Slots
<1> QED
  BY <1>1, FileTypes DEF Idle

LEMMA NextSpare ==
  ASSUME MaxSessions <= 1, SlotInv, SlotInv', Spare, [Next]_vars
  PROVE  Spare'
<1>1. TypeOK /\ HelperSound /\ (Fresh \/ SlotsSound)
  BY DEF SlotInv
<1>2. TypeOK' /\ (Fresh' \/ SlotsSound')
  BY DEF SlotInv
<1>3. CASE UNCHANGED <<server, gen_list>>
  BY <1>3 DEF Spare, Idle
<1>4. CASE See
  <2>1. Idle # {}
    BY <1>4 DEF See, At, Spare
  <2>2. Idle' = Idle
    BY <1>4 DEF See, Idle
  <2>3. server'.pc # "overflow"
    BY <1>1, <1>4, <2>1 DEF See, TypeOK
  <2> QED BY <2>1, <2>2, <2>3 DEF Spare
<1>5. CASE Read
  <2>1. server.pc = "read" /\ Idle # {}
    BY <1>5 DEF Read, At, Spare
  <2>2. CASE UNCHANGED gen_list /\ (server' = [server EXCEPT !.pc = "poll"]
                                     \/ server' = [server EXCEPT !.tries = @ - 1])
    <3>1. server'.pc # "overflow"
      BY <1>1, <2>1, <2>2 DEF TypeOK
    <3> QED BY <2>1, <2>2, <3>1 DEF Spare, Idle
  <2>4. CASE /\ gen_list' = [i \in Slots |-> FreeGen]
             /\ server' = [server EXCEPT !.pc = "poll", !.timestep = 0, !.num_ready = Generators]
    <3>1. Idle' # {}
      <4>1. 1 \in Slots
        BY CodeServerAssumption DEF Slots
      <4> QED BY <2>4, <4>1, FileTypes DEF Idle
    <3>2. server'.pc # "overflow"
      BY <1>1, <2>4 DEF TypeOK
    <3> QED BY <3>1, <3>2 DEF Spare
  <2>5. ASSUME NEW m, generator_make(m)
        PROVE  Spare'
    <3> DEFINE ready == [server EXCEPT !.num_ready = @ - 1]
    <3>1. \/ ready.num_ready = 0 /\ server' = [ready EXCEPT !.pc = "reap"]
          \/ ready.num_ready # 0 /\ server' = NextStep(ready)
      BY <2>5 DEF generator_make
    <3>2. \/ server'.pc = "reap"
          \/ server'.pc = "poll" /\ server'.num_ready # 0
      BY <1>1, <3>1 DEF TypeOK, NextStep
    <3>3. ASSUME server'.num_ready # 0 PROVE Idle' # {}
      <4>1. ~Fresh'
        BY <3>3 DEF Fresh
      <4>2. Cardinality(Idle') # 0
        BY <1>2, <3>3, <4>1 DEF SlotsSound
      <4> QED BY <4>2, FS_EmptySet
    <3> QED BY <3>2, <3>3 DEF Spare
  <2>6. \/ UNCHANGED gen_list /\ (server' = [server EXCEPT !.pc = "poll"]
                                     \/ server' = [server EXCEPT !.tries = @ - 1])
        \/ /\ gen_list' = [i \in Slots |-> FreeGen]
           /\ server' = [server EXCEPT !.pc = "poll", !.timestep = 0, !.num_ready = Generators]
        \/ \E m : generator_make(m)
    BY <1>5 DEF Read, codeserver_init, BadInit
  <2> QED BY <2>2, <2>4, <2>5, <2>6
<1>6. CASE ReapIdle \/ ReapBusy
  <2>1. PICK p \in Pids :
          /\ child[p] = "exited" /\ slave_complete(p)
          /\ (server' = Reaped(p) /\ server.pc = "poll") \/ server' = NextStep(Reaped(p))
    BY <1>6 DEF ReapIdle, ReapBusy, At
  <2>2. server'.pc = "poll"
    BY <1>1, <2>1 DEF TypeOK, Reaped, NextStep
  <2>3. SlotsSound
    BY <1>1, <2>1 DEF Fresh
  <2>4. PICK i \in Slots : gen_list[i].pid = p
    <3>1. p \notin Forgotten
      BY <1>1, <2>3, NoneForgotten
    <3> QED BY <2>1, <3>1 DEF Forgotten
  <2> DEFINE mine == {j \in Slots : gen_list[j].pid = p}
  <2>5. Lowest(mine) \in mine
    <3>1. mine \in SUBSET Nat /\ mine # {}
      BY <1>1, <2>4, SlotSets
    <3> HIDE DEF mine
    <3> QED BY <3>1, LowestType
  <2>6. gen_list' = [gen_list EXCEPT ![Lowest(mine)] = FreeGen]
    BY <2>1, <2>4 DEF slave_complete
  <2>7. Lowest(mine) \in Slots
    BY <2>5
  <2>8. gen_list'[Lowest(mine)].pid = 0
    <3> HIDE DEF mine
    <3> QED BY <1>1, <2>6, <2>7, FileTypes DEF TypeOK
  <2>9. Idle' # {}
    BY <2>7, <2>8 DEF Idle
  <2> QED BY <2>2, <2>9 DEF Spare
<1>7. \/ UNCHANGED <<server, gen_list>>
      \/ See \/ Read \/ ReapIdle \/ ReapBusy
  BY DEF Next, vars, codegen_init, codegen_generate, codegen_fini, Written, HelperStep,
         HelperForward, HelperEof, HelperRead, ServerStep, Finish
<1> QED
  BY <1>3, <1>4, <1>5, <1>6, <1>7

(* slave_list_add() never runs into its assertion while one session uses   *)
(* the server: main() waits for a generator to exit when the last one free *)
(* has been given work, and that one's slot is then free.                  *)
THEOREM OverflowCorrect ==
  ASSUME MaxSessions <= 1
  PROVE  Spec => []NoOverflow
<1>1. Init => Spare
  BY AllIdle DEF Init, Spare
<1>2. SlotInv /\ SlotInv' /\ Spare /\ [Next]_vars => Spare'
  BY NextSpare
<1>3. Spare => NoOverflow
  BY DEF Spare, NoOverflow
<1> QED
  BY <1>1, <1>2, <1>3, SlotInvariant, PTL DEF Spec

-----------------------------------------------------------------------------
(* Every file of an answer, and every generator at work, has the request   *)
(* that its number says.                                                   *)
Answers(files) ==
  \A n \in Ids : files[n] # NoFile => files[n].mesg = [session |-> layer.session, n |-> n]

Working ==
  \A i \in Slots : gen_list[i].pid # 0 =>
    gen_list[i].mesg = [session |-> layer.session, n |-> gen_list[i].step]

Got ==
  /\ Len(layer.got) = helper.curr_id + 1
  /\ \A k \in 1 .. Len(layer.got) : layer.got[k] = [session |-> layer.session, n |-> k - 2]

AnswerInv ==
  /\ layer.session = 0 => server.pc = "poll"
  /\ layer.active =>
       /\ helper.up /\ Got /\ Answers(code_complete) /\ Working
       /\ server.pc = "read" => candidate[server.id] # NoFile

(* A step that leaves what it concerns keeps it.                           *)
LEMMA AnswersStay ==
  ASSUME AnswerInv, UNCHANGED <<server, gen_list, code_complete>>,
         layer'.active => layer.active /\ layer'.got = layer.got,
         layer'.session = layer.session,
         helper'.curr_id = helper.curr_id, layer'.active => helper'.up,
         layer'.active /\ server.pc = "read" /\ candidate[server.id] # NoFile =>
           candidate'[server.id] # NoFile
  PROVE  AnswerInv'
  BY DEF AnswerInv, Got, Answers, Working

(* The file the server reads from is in the directory's range.             *)
LEMMA ReadsFile ==
  ASSUME SlotInv, server.pc = "read"
  PROVE  /\ server.id \in Ids
         /\ server.id # Init_id => server.id = server.timestep
  BY FileTypes DEF SlotInv, Fresh, SlotsSound

LEMMA LaunchAnswers ==
  ASSUME MaxSessions <= 1, SlotInv, AnswerInv, codegen_init
  PROVE  AnswerInv'
<1>1. TypeOK /\ HelperSound /\ (Fresh \/ SlotsSound)
  BY DEF SlotInv
<1>2. /\ layer.session < MaxSessions
      /\ layer' = [session |-> layer.session + 1, active |-> TRUE, sent |-> 0, got |-> <<>>]
      /\ helper' = [up |-> TRUE, next_id |-> Init_id, curr_id |-> Init_id, tries |-> Tries]
      /\ UNCHANGED <<candidate, code_complete, server, gen_list, child>>
  BY DEF codegen_init
<1>3. layer.session \in 0 .. MaxSessions
  BY <1>1 DEF TypeOK
<1>4. layer.session = 0 /\ layer'.session = 1
  BY <1>2, <1>3, CodeServerAssumption
<1>5. server.pc = "poll"
  BY <1>4 DEF AnswerInv
<1>6. Fresh
  <2>1. Inits \in Int /\ Inits <= layer.session
    BY <1>1, InitsType
  <2>2. ~(Inits > 0)
    BY <1>4, <2>1
  <2> QED BY <1>1, <2>2 DEF SlotsSound
<1>7. Answers(code_complete)'
  BY <1>2, <1>6, FileTypes DEF Answers, Fresh
<1>8. Working'
  BY <1>2, <1>6, FileTypes DEF Working, Fresh
<1>9. Got'
  <2>1. layer'.got = <<>> /\ helper'.curr_id + 1 = 0
    BY <1>2 DEF Init_id
  <2>2. Len(layer'.got) = 0
    BY <2>1
  <2> QED BY <2>1, <2>2 DEF Got
<1>10. layer'.session # 0 /\ helper'.up /\ server'.pc # "read"
  BY <1>2, <1>4, <1>5
<1> QED
  BY <1>7, <1>8, <1>9, <1>10 DEF AnswerInv

LEMMA WrittenAnswers ==
  ASSUME SlotInv, AnswerInv, Written
  PROVE  AnswerInv'
<1>1. TypeOK /\ HelperSound
  BY DEF SlotInv
<1>2. CASE /\ \E n \in Partial(candidate) : candidate' = [candidate EXCEPT ![n].whole = TRUE]
           /\ UNCHANGED <<layer, inbox, helper, code_complete, server, gen_list, child>>
  <2>1. PICK n \in Ids : ~candidate[n].whole /\ candidate' = Whole(candidate, n)
    BY <1>2 DEF Partial, Whole
  <2>2. candidate \in Files
    BY <1>1 DEF TypeOK
  <2>3. \A k \in Ids : candidate'[k].mesg = candidate[k].mesg
                       /\ (k # n => candidate'[k] = candidate[k])
    BY <2>1, <2>2, WholeFile
  <2>4. candidate[n].mesg = [session |-> layer.session, n |-> n] /\ layer.session > 0
    BY <1>1, <2>1, FileTypes DEF HelperSound
  <2>5. candidate'[n].mesg.session > 0
    BY <2>3, <2>4
  <2>6. candidate'[n] # NoFile
    BY <2>5, FileTypes
  <2>7. server.pc = "read" /\ candidate[server.id] # NoFile => candidate'[server.id] # NoFile
    BY <2>3, <2>6, ReadsFile
  <2>8. layer'.active => helper'.up
    BY <1>2 DEF AnswerInv
  <2> QED BY <1>2, <2>7, <2>8, AnswersStay
<1>3. CASE /\ \E n \in Partial(code_complete) :
                code_complete' = [code_complete EXCEPT ![n].whole = TRUE]
           /\ UNCHANGED <<layer, inbox, helper, candidate, server, gen_list, child>>
  <2>1. PICK n \in Ids : ~code_complete[n].whole
                         /\ code_complete' = Whole(code_complete, n)
    BY <1>3 DEF Partial, Whole
  <2>2. code_complete \in Files
    BY <1>1 DEF TypeOK
  <2>3. \A k \in Ids : code_complete'[k].mesg = code_complete[k].mesg
                       /\ (k # n => code_complete'[k] = code_complete[k])
    BY <2>1, <2>2, WholeFile
  <2>4. code_complete[n] # NoFile
    BY <2>1, FileTypes
  <2>5. Answers(code_complete) => Answers(code_complete)'
    BY <1>3, <2>3, <2>4 DEF Answers
  <2>6. (Got => Got') /\ (Working => Working')
    BY <1>3 DEF Got, Working
  <2> QED BY <1>3, <2>5, <2>6 DEF AnswerInv
<1> QED
  BY <1>2, <1>3 DEF Written

LEMMA AnswerAnswers ==
  ASSUME Prompt, SlotInv, AnswerInv, HelperRead
  PROVE  AnswerInv'
<1>1. TypeOK
  BY DEF SlotInv
<1> DEFINE n == helper.curr_id
           f == code_complete[n]
<1>2. n \in Ids /\ f # NoFile /\ UNCHANGED <<server, gen_list, child>>
  BY DEF HelperRead
<1>3. CASE /\ layer.active
           /\ layer' = [layer EXCEPT !.got = Append(@, f.mesg)]
           /\ helper' = [helper EXCEPT !.curr_id = @ + 1, !.tries = Tries]
           /\ code_complete' = [code_complete EXCEPT ![n] = NoFile]
           /\ UNCHANGED <<inbox, candidate>>
  <2>1. /\ layer'.session = layer.session /\ layer'.active /\ layer'.got = Append(layer.got, f.mesg)
        /\ layer.got \in Seq(Mesgs)
    BY <1>1, <1>3 DEF TypeOK
  <2>2. helper'.up = helper.up /\ helper'.curr_id = n + 1 /\ n \in Int
    BY <1>1, <1>2, <1>3, FileTypes DEF TypeOK
  <2>3. f.mesg = [session |-> layer.session, n |-> n]
    BY <1>2, <1>3 DEF AnswerInv, Answers
  <2>4. /\ Len(layer.got) = n + 1
        /\ \A k \in 1 .. Len(layer.got) : layer.got[k] = [session |-> layer.session, n |-> k - 2]
    BY <1>3 DEF AnswerInv, Got
  <2>5. f.mesg \in Mesgs
    BY <1>1, <1>2 DEF TypeOK, Files
  <2>6. /\ Len(layer.got) \in Nat /\ Len(layer'.got) = Len(layer.got) + 1
        /\ layer'.got[Len(layer.got) + 1] = f.mesg
        /\ \A k \in 1 .. Len(layer.got) : layer'.got[k] = layer.got[k]
    <3> HIDE DEF f
    <3> QED BY <2>1, <2>5, AppendProperties, LenProperties
  <2>7. Got'
    <3> HIDE DEF f, n
    <3>1. Len(layer'.got) = helper'.curr_id + 1
      BY <2>2, <2>4, <2>6
    <3>2. ASSUME NEW k \in 1 .. Len(layer'.got)
          PROVE  layer'.got[k] = [session |-> layer'.session, n |-> k - 2]
      <4>1. CASE k \in 1 .. Len(layer.got)
        BY <2>1, <2>4, <2>6, <4>1
      <4>2. CASE k = Len(layer.got) + 1
        <5>1. k - 2 = n
          BY <2>2, <2>4, <4>2
        <5> QED BY <2>1, <2>3, <2>6, <4>2, <5>1
      <4>3. k \in 1 .. Len(layer.got) \/ k = Len(layer.got) + 1
        BY <2>6
      <4> QED BY <4>1, <4>2, <4>3
    <3> QED BY <3>1, <3>2 DEF Got
  <2>8. Answers(code_complete)'
    <3>1. code_complete' = Put(code_complete, n, NoFile) /\ code_complete \in Files
      BY <1>1, <1>3 DEF Put, TypeOK
    <3>2. \A k \in Ids : code_complete'[k] = IF k = n THEN NoFile ELSE code_complete[k]
      <4> HIDE DEF n
      <4> QED BY <3>1, FileTypes, AnswerPut
    <3> QED BY <1>3, <2>1, <3>2 DEF AnswerInv, Answers
  <2>9. Working'
    BY <1>2, <1>3, <2>1 DEF AnswerInv, Working
  <2> QED BY <1>2, <1>3, <2>1, <2>2, <2>7, <2>8, <2>9 DEF AnswerInv
<1>4. CASE /\ helper' = [helper EXCEPT !.tries = @ - 1]
           /\ UNCHANGED <<layer, inbox, candidate, code_complete>>
  <2>1. helper'.up = helper.up /\ helper'.curr_id = helper.curr_id
    BY <1>1, <1>4 DEF TypeOK
  <2>2. layer'.active => helper'.up
    BY <1>4, <2>1 DEF AnswerInv
  <2> QED BY <1>2, <1>4, <2>1, <2>2, AnswersStay
<1>5. CASE ~layer.active /\ UNCHANGED layer
  BY <1>2, <1>5 DEF AnswerInv
<1> QED
  BY <1>3, <1>4, <1>5 DEF HelperRead

LEMMA RequestAnswers ==
  ASSUME SlotInv, AnswerInv,
         \/ codegen_generate \/ codegen_fini \/ HelperEof \/ HelperForward
         \/ \E p \in Pids : Finish(p)
         \/ UNCHANGED vars
  PROVE  AnswerInv'
<1>1. TypeOK /\ HelperSound
  BY DEF SlotInv
<1>2. CASE codegen_generate \/ codegen_fini
  <2>1. /\ UNCHANGED <<helper, candidate, code_complete, server, gen_list>>
        /\ layer'.session = layer.session /\ layer'.got = layer.got
        /\ layer'.active => layer.active
    BY <1>1, <1>2 DEF codegen_generate, codegen_fini, TypeOK
  <2>2. layer'.active => helper'.up
    BY <2>1 DEF AnswerInv
  <2> QED BY <2>1, <2>2, AnswersStay
<1>3. CASE HelperEof
  BY <1>3 DEF HelperEof, AnswerInv
<1>4. CASE HelperForward
  <2>1. /\ UNCHANGED <<layer, code_complete, server, gen_list>> /\ inbox # <<>>
        /\ helper' = [helper EXCEPT !.next_id = @ + 1]
        /\ candidate' = Put(candidate, helper.next_id, File(Head(inbox)))
    BY <1>4 DEF HelperForward, Put
  <2>2. helper'.up = helper.up /\ helper'.curr_id = helper.curr_id
    BY <1>1, <2>1 DEF TypeOK
  <2>3. candidate \in Files /\ Head(inbox) \in Mesgs
    BY <1>1, <2>1, HeadTailProperties DEF TypeOK
  <2>4. \A k \in Ids : candidate'[k] = IF k = helper.next_id THEN File(Head(inbox)) ELSE candidate[k]
    BY <2>1, <2>3, FileTypes, AnswerPut
  <2>5. server.pc = "read" /\ candidate[server.id] # NoFile => candidate'[server.id] # NoFile
    <3>1. File(Head(inbox)) # NoFile
      BY <2>3, FileTypes
    <3> QED BY <2>4, <3>1, ReadsFile
  <2>6. layer'.active => helper'.up
    BY <2>1, <2>2 DEF AnswerInv
  <2> QED BY <2>1, <2>2, <2>5, <2>6, AnswersStay
<1>5. CASE (\E p \in Pids : Finish(p)) \/ UNCHANGED vars
  BY <1>5 DEF Finish, vars, AnswerInv, Got, Answers, Working
<1> QED
  BY <1>2, <1>3, <1>4, <1>5

LEMMA SeeAnswers ==
  ASSUME SlotInv, AnswerInv, See
  PROVE  AnswerInv'
<1>1. TypeOK /\ HelperSound
  BY DEF SlotInv
<1>2. PICK n \in {Init_id, server.timestep} \cap Ids :
        /\ candidate[n] # NoFile
        /\ server' = [server EXCEPT !.id = n, !.tries = Tries,
                        !.pc = IF n # Init_id /\ Idle = {} THEN "overflow" ELSE "read"]
  BY DEF See
<1>3. UNCHANGED <<layer, inbox, helper, candidate, code_complete, gen_list, child>>
  BY DEF See
<1>4. layer.session > 0
  BY <1>1, <1>2 DEF HelperSound
<1>5. layer.session # 0
  <2>1. ~(0 > 0)
    OBVIOUS
  <2> QED BY <1>4, <2>1
<1>6. server'.id = n
  BY <1>1, <1>2 DEF TypeOK
<1>7. (Got => Got') /\ (Answers(code_complete) => Answers(code_complete)') /\ (Working => Working')
  BY <1>3 DEF Got, Answers, Working
<1> QED
  BY <1>2, <1>3, <1>5, <1>6, <1>7 DEF AnswerInv

LEMMA ReadAnswers ==
  ASSUME Prompt, SlotInv, AnswerInv, Read
  PROVE  AnswerInv'
<1>1. TypeOK /\ HelperSound
  BY DEF SlotInv
<1> DEFINE f == candidate[server.id]
<1>2. server.pc = "read" /\ UNCHANGED <<layer, inbox, helper>>
  BY DEF Read, At
<1>3. layer'.session # 0 /\ layer'.session = layer.session
  BY <1>2 DEF AnswerInv
<1>4. ASSUME ~layer.active
      PROVE  AnswerInv'
  BY <1>2, <1>3, <1>4 DEF AnswerInv
<1>5. ASSUME layer.active
      PROVE  AnswerInv'
  <2>1. helper.up /\ Got /\ Answers(code_complete) /\ Working /\ f # NoFile
    BY <1>2, <1>5 DEF AnswerInv
  <2>2. server.id \in Ids /\ (server.id # Init_id => server.id = server.timestep)
    BY <1>2, ReadsFile
  <2>3. f.mesg = [session |-> layer.session, n |-> server.id] /\ f.mesg \in Mesgs
    BY <1>1, <2>1, <2>2 DEF HelperSound, TypeOK, Files
  <2>4. Got'
    BY <1>2, <2>1 DEF Got
  <2>5. CASE /\ server.tries > 1
             /\ server' = [server EXCEPT !.tries = @ - 1]
             /\ UNCHANGED <<candidate, code_complete, gen_list, child>>
    <3>1. server'.id = server.id
      BY <1>1, <2>5 DEF TypeOK
    <3>2. Answers(code_complete)' /\ Working'
      BY <1>2, <2>1, <2>5 DEF Answers, Working
    <3> QED BY <1>2, <1>3, <2>1, <2>4, <2>5, <3>1, <3>2 DEF AnswerInv
  <2>6. CASE server.id = Init_id /\ codeserver_init(f.mesg)
    <3>1. /\ code_complete' = Put(code_complete, Init_id, File(f.mesg))
          /\ gen_list' = [i \in Slots |-> FreeGen]
          /\ server' = [server EXCEPT !.pc = "poll", !.timestep = 0, !.num_ready = Generators]
      BY <2>6 DEF codeserver_init, Put
    <3>2. code_complete \in Files /\ File(f.mesg) \in [mesg : Mesgs, whole : BOOLEAN]
          /\ File(f.mesg).mesg = f.mesg
      <4> HIDE DEF f
      <4> QED BY <1>1, <2>3, FileTypes DEF TypeOK
    <3>3. \A k \in Ids : code_complete'[k] = IF k = Init_id THEN File(f.mesg) ELSE code_complete[k]
      <4> HIDE DEF f
      <4> QED BY <3>1, <3>2, AnswerPut
    <3>4. Answers(code_complete)'
      BY <1>2, <2>1, <2>3, <2>6, <3>2, <3>3 DEF Answers
    <3>5. Working'
      BY <3>1, FileTypes DEF Working
    <3>6. server'.pc = "poll"
      BY <1>1, <3>1 DEF TypeOK
    <3> QED BY <1>2, <1>3, <2>1, <2>4, <3>4, <3>5, <3>6 DEF AnswerInv
  <2>7. CASE server.id # Init_id /\ generator_make(f.mesg)
    <3> DEFINE ready == [server EXCEPT !.num_ready = @ - 1]
               g == [pid |-> Lowest({q \in Pids : child[q] = "none"}),
                     step |-> server.timestep, mesg |-> f.mesg]
    <3>1. /\ code_complete' = code_complete
          /\ gen_list' = [gen_list EXCEPT ![Lowest(Idle)] = g]
          /\ server' = [ready EXCEPT !.pc = "reap"] \/ server' = NextStep(ready)
      BY <2>7 DEF generator_make
    <3>2. server'.pc # "read"
      BY <1>1, <3>1 DEF TypeOK, NextStep
    <3>3. g.mesg = [session |-> layer.session, n |-> g.step]
      BY <2>2, <2>3, <2>7
    <3>4. Working'
      <4> HIDE DEF g
      <4>1. gen_list \in [Slots -> [pid : Pids \cup {0}, step : Nat, mesg : Mesgs]]
        BY <1>1 DEF TypeOK
      <4>2. \A i \in Slots : gen_list'[i] = g \/ gen_list'[i] = gen_list[i]
        BY <3>1, <4>1
      <4> QED BY <1>2, <2>1, <3>3, <4>2 DEF Working
    <3>5. Answers(code_complete)'
      BY <1>2, <2>1, <3>1 DEF Answers
    <3> QED BY <1>2, <1>3, <2>1, <2>4, <3>2, <3>4, <3>5 DEF AnswerInv
  <2>8. \/ /\ server.tries > 1
           /\ server' = [server EXCEPT !.tries = @ - 1]
           /\ UNCHANGED <<candidate, code_complete, gen_list, child>>
        \/ IF server.id = Init_id THEN codeserver_init(f.mesg) ELSE generator_make(f.mesg)
    BY <2>1 DEF Read
  <2> QED BY <2>5, <2>6, <2>7, <2>8
<1> QED
  BY <1>4, <1>5

LEMMA ReapAnswers ==
  ASSUME SlotInv, AnswerInv, ReapIdle \/ ReapBusy
  PROVE  AnswerInv'
<1>1. TypeOK
  BY DEF SlotInv
<1>2. PICK p \in Pids :
        /\ slave_complete(p) /\ UNCHANGED <<layer, inbox, helper>>
        /\ (server' = Reaped(p) /\ server.pc = "poll") \/ server' = NextStep(Reaped(p))
  BY DEF ReapIdle, ReapBusy, At
<1>3. server'.pc = "poll"
  BY <1>1, <1>2 DEF TypeOK, Reaped, NextStep
<1>4. ASSUME layer.active
      PROVE  Answers(code_complete)' /\ Working'
  <2>1. Answers(code_complete) /\ Working
    BY <1>4 DEF AnswerInv
  <2> DEFINE mine == {i \in Slots : gen_list[i].pid = p}
  <2>2. CASE mine = {}
    <3>1. UNCHANGED <<gen_list, code_complete>>
      BY <1>2, <2>2 DEF slave_complete
    <3> QED BY <1>2, <2>1, <3>1 DEF Answers, Working
  <2>3. CASE mine # {}
    <3>1. Lowest(mine) \in mine
      <4>1. mine \in SUBSET Nat
        BY <1>1, SlotSets
      <4> HIDE DEF mine
      <4> QED BY <2>3, <4>1, LowestType
    <3>2. PICK i \in Slots :
            /\ gen_list[i].pid = p /\ gen_list' = [gen_list EXCEPT ![i] = FreeGen]
            /\ code_complete' = Put(code_complete, gen_list[i].step, File(gen_list[i].mesg))
      BY <1>2, <2>3, <3>1 DEF slave_complete, Put
    <3>3. gen_list \in [Slots -> [pid : Pids \cup {0}, step : Nat, mesg : Mesgs]]
          /\ code_complete \in Files
      BY <1>1 DEF TypeOK
    <3>4. /\ File(gen_list[i].mesg) \in [mesg : Mesgs, whole : BOOLEAN]
          /\ File(gen_list[i].mesg).mesg = gen_list[i].mesg
      BY <3>3, FileTypes
    <3>5. \A k \in Ids : code_complete'[k] = IF k = gen_list[i].step THEN File(gen_list[i].mesg)
                                                                     ELSE code_complete[k]
      BY <3>2, <3>3, <3>4, AnswerPut
    <3>6. gen_list[i].mesg = [session |-> layer.session, n |-> gen_list[i].step]
      <4>1. p # 0
        BY DEF Pids
      <4> QED BY <2>1, <3>2, <4>1 DEF Working
    <3>7. Answers(code_complete)'
      BY <1>2, <2>1, <3>4, <3>5, <3>6 DEF Answers
    <3>8. \A j \in Slots : gen_list'[j] = FreeGen \/ gen_list'[j] = gen_list[j]
      BY <3>2, <3>3
    <3>9. Working'
      BY <1>2, <2>1, <3>8, FileTypes DEF Working
    <3> QED BY <3>7, <3>9
  <2> QED BY <2>2, <2>3
<1>5. Got => Got'
  BY <1>2 DEF Got
<1> QED
  BY <1>2, <1>3, <1>4, <1>5 DEF AnswerInv

LEMMA NextAnswers ==
  ASSUME MaxSessions <= 1, Prompt, SlotInv, AnswerInv, [Next]_vars
  PROVE  AnswerInv'
<1>1. CASE codegen_init
  BY <1>1, LaunchAnswers
<1>2. CASE Written
  BY <1>2, WrittenAnswers
<1>3. CASE HelperRead
  BY <1>3, AnswerAnswers
<1>4. CASE See
  BY <1>4, SeeAnswers
<1>5. CASE Read
  BY <1>5, ReadAnswers
<1>6. CASE ReapIdle \/ ReapBusy
  BY <1>6, ReapAnswers
<1>7. CASE \/ codegen_generate \/ codegen_fini \/ HelperEof \/ HelperForward
           \/ \E p \in Pids : Finish(p)
           \/ UNCHANGED vars
  BY <1>7, RequestAnswers
<1> QED
  BY <1>1, <1>2, <1>3, <1>4, <1>5, <1>6, <1>7 DEF Next, HelperStep, ServerStep

(* What codegen_callback() of the layer reads is the answer to the initial *)
(* message and then to its own requests in their order, though generators  *)
(* finish in any order: the helper looks for one number at a time, and a   *)
(* slot keeps the number that its answer is written under.  One session    *)
(* uses the server, and no file stays half written for a helper's last try.*)
THEOREM AnswersCorrect ==
  ASSUME MaxSessions <= 1, Prompt
  PROVE  Spec => []AnswersInOrder
<1>1. Init => AnswerInv
  BY DEF Init, AnswerInv
<1>2. SlotInv /\ AnswerInv /\ [Next]_vars => AnswerInv'
  BY NextAnswers
<1>3. SlotInv /\ AnswerInv => AnswersInOrder
  <2> SUFFICES ASSUME SlotInv, AnswerInv, layer.active
               PROVE  \A k \in DOMAIN layer.got :
                        layer.got[k] = [session |-> layer.session, n |-> k - 2]
    BY DEF AnswersInOrder
  <2>1. layer.got \in Seq(Mesgs)
    BY DEF SlotInv, TypeOK
  <2>2. DOMAIN layer.got = 1 .. Len(layer.got)
    BY <2>1, LenProperties
  <2> QED BY <2>2 DEF AnswerInv, Got
<1> QED
  BY <1>1, <1>2, <1>3, SlotInvariant, PTL DEF Spec

=============================================================================
