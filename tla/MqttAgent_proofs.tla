--------------------------- MODULE MqttAgent_proofs ---------------------------
(***************************************************************************)
(* Proofs about MqttAgent for every set of callers, every length of pool   *)
(* and queue and every other limit: no command slot is lost, shared or     *)
(* used twice, a send to the command queue never waits, commands are       *)
(* executed once and in the order they were accepted, and a successful     *)
(* MqttAgent_Stop means that the agent will do nothing any more.           *)
(***************************************************************************)
EXTENDS MqttAgent, Integers, FiniteSetTheorems, SequenceTheorems, TLAPS

-----------------------------------------------------------------------------
(* Sequences without repetitions.                                          *)

Unique(q) == \A i, j \in DOMAIN q : q[i] = q[j] => i = j

LEMMA EmptyUnique == Contents(<<>>) = {} /\ Unique(<<>>)
BY DEF Contents, Unique

LEMMA AppendUnique ==
  ASSUME NEW S, NEW q \in Seq(S), NEW s \in S, Unique(q), s \notin Contents(q)
  PROVE  /\ Append(q, s) \in Seq(S)
         /\ Unique(Append(q, s))
         /\ Contents(Append(q, s)) = Contents(q) \cup {s}
<1> DEFINE r == Append(q, s)
<1>1. /\ r \in Seq(S) /\ Len(r) = Len(q) + 1 /\ Len(q) \in Nat
      /\ DOMAIN r = 1 .. Len(q) + 1 /\ DOMAIN q = 1 .. Len(q)
      /\ \A i \in 1 .. Len(q) : r[i] = q[i]
      /\ r[Len(q) + 1] = s
  BY AppendProperties
<1> HIDE DEF r
<1>2. Contents(r) = Contents(q) \cup {s}
  BY <1>1 DEF Contents
<1>3. Unique(r)
  <2>1. SUFFICES ASSUME NEW i \in 1 .. Len(q) + 1, NEW j \in 1 .. Len(q) + 1, r[i] = r[j]
                 PROVE  i = j
    BY <1>1 DEF Unique
  <2>2. \A k \in 1 .. Len(q) : r[k] # s
    BY <1>1 DEF Contents
  <2>3. CASE i \in 1 .. Len(q) /\ j \in 1 .. Len(q)
    BY <1>1, <2>1, <2>3 DEF Unique
  <2>4. CASE i = Len(q) + 1 \/ j = Len(q) + 1
    BY <1>1, <2>1, <2>2, <2>4
  <2> QED
    BY <1>1, <2>3, <2>4
<1> QED
  BY <1>1, <1>2, <1>3 DEF r

LEMMA TailUnique ==
  ASSUME NEW S, NEW q \in Seq(S), q # <<>>, Unique(q)
  PROVE  /\ Head(q) \in S /\ Head(q) \in Contents(q)
         /\ Tail(q) \in Seq(S)
         /\ Unique(Tail(q))
         /\ Contents(Tail(q)) = Contents(q) \ {Head(q)}
<1> DEFINE r == Tail(q)
           h == Head(q)
<1>1. /\ r \in Seq(S) /\ Len(r) = Len(q) - 1 /\ Len(q) \in Nat /\ Len(q) > 0
      /\ DOMAIN r = 1 .. Len(q) - 1 /\ DOMAIN q = 1 .. Len(q)
      /\ \A i \in 1 .. Len(q) - 1 : r[i] = q[i + 1]
      /\ h = q[1] /\ h \in S
  BY HeadTailProperties
<1> HIDE DEF r, h
<1>2. h \in Contents(q)
  BY <1>1 DEF Contents
<1>3. Unique(r)
  <2>1. SUFFICES ASSUME NEW i \in 1 .. Len(q) - 1, NEW j \in 1 .. Len(q) - 1, r[i] = r[j]
                 PROVE  i = j
    BY <1>1 DEF Unique
  <2>2. q[i + 1] = q[j + 1] /\ i + 1 \in DOMAIN q /\ j + 1 \in DOMAIN q
    BY <1>1, <2>1
  <2>3. i + 1 = j + 1
    BY <2>2 DEF Unique
  <2> QED
    BY <1>1, <2>3
<1>4. Contents(r) = Contents(q) \ {h}
  <2>1. ASSUME NEW x \in Contents(r) PROVE x \in Contents(q) /\ x # h
    <3>1. PICK i \in 1 .. Len(q) - 1 : x = q[i + 1]
      BY <1>1 DEF Contents
    <3>2. i + 1 \in DOMAIN q /\ 1 \in DOMAIN q /\ i + 1 # 1
      BY <1>1, <3>1
    <3> QED
      BY <1>1, <3>1, <3>2 DEF Contents, Unique
  <2>2. ASSUME NEW x \in Contents(q), x # h PROVE x \in Contents(r)
    <3>1. PICK j \in 1 .. Len(q) : x = q[j]
      BY <1>1 DEF Contents
    <3>2. j # 1
      BY <1>1, <2>2, <3>1
    <3>3. j - 1 \in 1 .. Len(q) - 1 /\ (j - 1) + 1 = j
      BY <1>1, <3>1, <3>2
    <3>4. r[j - 1] = q[j]
      BY <1>1, <3>3
    <3> QED
      BY <1>1, <3>1, <3>3, <3>4 DEF Contents
  <2> QED
    BY <2>1, <2>2
<1> QED
  BY <1>1, <1>2, <1>3, <1>4 DEF r, h

(* A sequence without repetitions that misses a slot is not full. *)
LEMMA UniqueIsShort ==
  ASSUME NEW n \in Nat, NEW q \in Seq(1 .. n), Unique(q),
         NEW s \in 1 .. n, s \notin Contents(q)
  PROVE  Len(q) < n
<1> DEFINE T == (1 .. n) \ {s}
           D == 1 .. Len(q)
<1>1. Len(q) \in Nat /\ DOMAIN q = D
  OBVIOUS
<1>2. IsFiniteSet(1 .. n) /\ Cardinality(1 .. n) = n
  BY FS_Interval
<1>3. IsFiniteSet(T) /\ Cardinality(T) = n - 1
  BY <1>2, FS_RemoveElement
<1>4. IsFiniteSet(D) /\ Cardinality(D) = Len(q)
  <2>1. \A l \in Nat : IsFiniteSet(1 .. l) /\ Cardinality(1 .. l) = l
    BY FS_Interval
  <2> QED
    BY <1>1, <2>1
<1>5. q \in [D -> T]
  <2>1. \A i \in D : q[i] \in T
    BY <1>1 DEF Contents
  <2>2. q = [i \in D |-> q[i]]
    BY <1>1
  <2> QED
    BY <2>1, <2>2
<1>6. SUFFICES ASSUME Len(q) >= n PROVE FALSE
  BY <1>1
<1>7. Cardinality(T) < Cardinality(D)
  BY <1>1, <1>3, <1>4, <1>6
<1>8. PICK x \in D, y \in D : x # y /\ q[x] = q[y]
  BY <1>3, <1>4, <1>5, <1>7, FS_PigeonHole
<1> QED
  BY <1>1, <1>8 DEF Unique

-----------------------------------------------------------------------------
(* The inductive invariant.  Every slot in use has one owner: a call that  *)
(* has not sent it yet, the queue, or the agent that executes it.          *)

Owned ==
  /\ Unique(cmdQueue)
  /\ running \notin Contents(cmdQueue)
  /\ \A c, d \in Clients : held[c] # 0 /\ held[c] = held[d] => c = d
  /\ \A c \in Clients : held[c] \notin Contents(cmdQueue) /\ (held[c] # 0 => held[c] # running)
  /\ \A s \in Slots : IsFree(s) <=> /\ s \notin Contents(cmdQueue)
                                    /\ s # running
                                    /\ \A c \in Clients : held[c] # s

Control ==
  /\ running # 0 <=> at = "exec"
  /\ at = "exec" => count < CmdsPerLoop
  /\ given => waiting # 0 /\ at \in {"ending", "none"}

IInv == AgentTypeOK /\ Owned /\ Control

(* What commands are made of. *)
LEMMA CommandType ==
  /\ Free \notin Command
  /\ \A cmd \in Command :
       /\ cmd.type = "publish" => cmd.of \in Messages
       /\ cmd.type = "subscribe" => cmd.of \in Filters
BY DEF Free, Command

LEMMA CommandMade ==
  ASSUME NEW c \in Clients
  PROVE  /\ \A m \in Messages : [type |-> "publish", of |-> m, by |-> c] \in Command
         /\ \A f \in Filters : [type |-> "subscribe", of |-> f, by |-> c] \in Command
         /\ \A t \in {"status", "stop"} : [type |-> t, of |-> None, by |-> c] \in Command
BY DEF Command

LEMMA InitInv == AgentInit => IInv
<1> SUFFICES ASSUME AgentInit PROVE IInv
  OBVIOUS
<1>1. AgentTypeOK
  <2>1. /\ pool \in [Slots -> Command \cup {Free}]
        /\ held \in [Clients -> 0 .. QueueLen]
        /\ cmdQueue \in Seq(Slots) /\ subs \in Seq(Filters)
        /\ accepted \in Seq(Messages) /\ broker \in Seq(Messages)
    BY QueueLenAssumption DEF AgentInit
  <2>2. /\ retry \in 0 .. MaxRetries /\ running \in 0 .. QueueLen /\ count \in 0 .. CmdsPerLoop
        /\ waiting \in 0 .. QueueLen /\ trouble \in 0 .. MaxTrouble
    BY QueueLenAssumption, CmdsPerLoopAssumption, LimitsAssumption DEF AgentInit
  <2> QED
    BY <2>1, <2>2 DEF AgentInit, AgentTypeOK
<1>2. Owned /\ Control
  BY EmptyUnique DEF AgentInit, Owned, Control, IsFree, Slots
<1> QED
  BY <1>1, <1>2 DEF IInv

-----------------------------------------------------------------------------
(* Owners: what the steps that move a slot do.                             *)

LEMMA OwnedKept ==
  ASSUME IInv, UNCHANGED <<pool, cmdQueue, running, held>> PROVE Owned'
BY DEF IInv, Owned, IsFree

LEMMA TakeSlotOwned ==
  ASSUME IInv, NEW c \in Clients, NEW cmd \in Command, TakeSlot(c, cmd),
         UNCHANGED <<cmdQueue, running>>
  PROVE  /\ Owned'
         /\ pool' \in [Slots -> Command \cup {Free}]
         /\ held' \in [Clients -> 0 .. QueueLen]
<1>1. PICK s \in Slots : /\ LowestFree(s)
                         /\ pool' = [pool EXCEPT ![s] = cmd]
                         /\ held' = [held EXCEPT ![c] = s]
  BY DEF TakeSlot
<1>2. /\ pool \in [Slots -> Command \cup {Free}] /\ held \in [Clients -> 0 .. QueueLen]
      /\ s \in 0 .. QueueLen /\ s # 0 /\ held[c] = 0
  BY QueueLenAssumption DEF IInv, AgentTypeOK, Slots, TakeSlot
<1>3. /\ pool' \in [Slots -> Command \cup {Free}]
      /\ held' \in [Clients -> 0 .. QueueLen]
  BY <1>1, <1>2
<1>4. /\ s \notin Contents(cmdQueue) /\ s # running /\ \A d \in Clients : held[d] # s
  BY <1>1 DEF IInv, Owned, LowestFree
<1>5. /\ held'[c] = s /\ \A d \in Clients : d # c => held'[d] = held[d]
      /\ pool'[s] # Free /\ \A t \in Slots : t # s => pool'[t] = pool[t]
  BY <1>1, <1>2, CommandType
<1>6. Owned'
  <2>1. Unique(cmdQueue') /\ running' \notin Contents(cmdQueue')
    BY DEF IInv, Owned
  <2>2. \A d, e \in Clients : held'[d] # 0 /\ held'[d] = held'[e] => d = e
    BY <1>4, <1>5 DEF IInv, Owned
  <2>3. \A d \in Clients : /\ held'[d] \notin Contents(cmdQueue')
                           /\ held'[d] # 0 => held'[d] # running'
    BY <1>4, <1>5 DEF IInv, Owned
  <2>4. ASSUME NEW t \in Slots
        PROVE  pool'[t] = Free <=> /\ t \notin Contents(cmdQueue')
                                   /\ t # running'
                                   /\ \A d \in Clients : held'[d] # t
    <3>1. pool[t] = Free <=> /\ t \notin Contents(cmdQueue)
                             /\ t # running
                             /\ \A d \in Clients : held[d] # t
      BY DEF IInv, Owned, IsFree
    <3>2. CASE t = s
      BY <1>5, <3>2
    <3>3. CASE t # s
      <4>1. t # 0
        BY DEF Slots
      <4> QED
        BY <1>2, <1>5, <3>1, <3>3, <4>1
    <3> QED
      BY <3>2, <3>3
  <2> QED
    BY <2>1, <2>2, <2>3, <2>4 DEF Owned, IsFree
<1> QED
  BY <1>3, <1>6

LEMMA SendOwned ==
  ASSUME IInv, NEW c \in Clients, Send(c)
  PROVE  /\ Owned'
         /\ cmdQueue' \in Seq(Slots)
         /\ held' \in [Clients -> 0 .. QueueLen]
<1> DEFINE s == held[c]
<1>1. /\ held \in [Clients -> 0 .. QueueLen] /\ cmdQueue \in Seq(Slots)
      /\ s \in Slots /\ s # 0
  BY QueueLenAssumption DEF IInv, AgentTypeOK, Send, Slots
<1>2. /\ held' = [held EXCEPT ![c] = 0]
      /\ cmdQueue' = Append(cmdQueue, s)
      /\ UNCHANGED <<pool, running>>
  BY DEF Send, Enqueued, agentVars
<1> HIDE DEF s
<1>3. Unique(cmdQueue) /\ s \notin Contents(cmdQueue)
  BY DEF IInv, Owned, s
<1>4. /\ cmdQueue' \in Seq(Slots) /\ Unique(cmdQueue')
      /\ Contents(cmdQueue') = Contents(cmdQueue) \cup {s}
  BY <1>1, <1>2, <1>3, AppendUnique
<1>5. /\ held' \in [Clients -> 0 .. QueueLen]
      /\ held'[c] = 0 /\ \A d \in Clients : d # c => held'[d] = held[d] /\ held[d] # s
  <2>1. \A d \in Clients : d # c => held[d] # s
    BY <1>1 DEF IInv, Owned, s
  <2> QED
    BY <1>1, <1>2, <2>1, QueueLenAssumption
<1>6. 0 \notin Contents(cmdQueue) /\ 0 \notin Slots
  <2>1. 0 \notin Slots
    BY DEF Slots
  <2> QED
    BY <1>1, <2>1 DEF Contents
<1>7. Owned'
  <2>1. running' \notin Contents(cmdQueue')
    BY <1>1, <1>2, <1>4 DEF IInv, Owned, s
  <2>2. \A d, e \in Clients : held'[d] # 0 /\ held'[d] = held'[e] => d = e
    BY <1>5 DEF IInv, Owned
  <2>3. \A d \in Clients : /\ held'[d] \notin Contents(cmdQueue')
                           /\ held'[d] # 0 => held'[d] # running'
    BY <1>1, <1>2, <1>4, <1>5, <1>6 DEF IInv, Owned
  <2>4. ASSUME NEW t \in Slots
        PROVE  pool'[t] = Free <=> /\ t \notin Contents(cmdQueue')
                                   /\ t # running'
                                   /\ \A d \in Clients : held'[d] # t
    <3>1. pool[t] = Free <=> /\ t \notin Contents(cmdQueue)
                             /\ t # running
                             /\ \A d \in Clients : held[d] # t
      BY DEF IInv, Owned, IsFree
    <3>2. held[c] = s /\ t # 0
      BY DEF s, Slots
    <3> QED
      BY <1>2, <1>4, <1>5, <3>1, <3>2
  <2> QED
    BY <1>4, <2>1, <2>2, <2>3, <2>4 DEF Owned, IsFree
<1> QED
  BY <1>4, <1>5, <1>7

(* The head of the queue is taken out; it is executed next or freed. *)
LEMMA ReceiveOwned ==
  ASSUME IInv, cmdQueue # <<>>, cmdQueue' = Tail(cmdQueue), running = 0,
         UNCHANGED held,
         \/ running' = Head(cmdQueue) /\ UNCHANGED pool
         \/ UNCHANGED running /\ pool' = [pool EXCEPT ![Head(cmdQueue)] = Free]
  PROVE  /\ Owned'
         /\ Head(cmdQueue) \in Slots
         /\ cmdQueue' \in Seq(Slots)
         /\ pool' \in [Slots -> Command \cup {Free}]
<1> DEFINE h == Head(cmdQueue)
<1>1. /\ cmdQueue \in Seq(Slots) /\ pool \in [Slots -> Command \cup {Free}]
      /\ held \in [Clients -> 0 .. QueueLen] /\ 0 \notin Slots
  BY DEF IInv, AgentTypeOK, Slots
<1>2. Unique(cmdQueue)
  BY DEF IInv, Owned
<1>3. /\ h \in Slots /\ h \in Contents(cmdQueue) /\ cmdQueue' \in Seq(Slots) /\ Unique(cmdQueue')
      /\ Contents(cmdQueue') = Contents(cmdQueue) \ {h}
  BY <1>1, <1>2, TailUnique
<1> HIDE DEF h
<1>4. /\ \A d \in Clients : held[d] # h
      /\ h # 0
  BY <1>1, <1>3 DEF IInv, Owned
<1>5. CASE running' = h /\ UNCHANGED pool
  <2>1. running' \notin Contents(cmdQueue')
    BY <1>3, <1>5
  <2>2. \A d, e \in Clients : held'[d] # 0 /\ held'[d] = held'[e] => d = e
    BY DEF IInv, Owned
  <2>3. \A d \in Clients : /\ held'[d] \notin Contents(cmdQueue')
                           /\ held'[d] # 0 => held'[d] # running'
    BY <1>3, <1>4, <1>5 DEF IInv, Owned
  <2>4. \A t \in Slots : pool'[t] = Free <=> /\ t \notin Contents(cmdQueue')
                                             /\ t # running'
                                             /\ \A d \in Clients : held'[d] # t
    BY <1>1, <1>3, <1>5 DEF IInv, Owned, IsFree
  <2> QED
    BY <1>1, <1>3, <1>5, <2>1, <2>2, <2>3, <2>4 DEF Owned, IsFree, h
<1>6. CASE UNCHANGED running /\ pool' = [pool EXCEPT ![h] = Free]
  <2>1. /\ pool' \in [Slots -> Command \cup {Free}] /\ pool'[h] = Free
        /\ \A t \in Slots : t # h => pool'[t] = pool[t]
    BY <1>1, <1>3, <1>6
  <2>2. running' \notin Contents(cmdQueue')
    BY <1>3, <1>6 DEF IInv, Owned
  <2>3. \A d, e \in Clients : held'[d] # 0 /\ held'[d] = held'[e] => d = e
    BY DEF IInv, Owned
  <2>4. \A d \in Clients : /\ held'[d] \notin Contents(cmdQueue')
                           /\ held'[d] # 0 => held'[d] # running'
    BY <1>3, <1>6 DEF IInv, Owned
  <2>5. \A t \in Slots : pool'[t] = Free <=> /\ t \notin Contents(cmdQueue')
                                             /\ t # running'
                                             /\ \A d \in Clients : held'[d] # t
    BY <1>1, <1>3, <1>4, <1>6, <2>1 DEF IInv, Owned, IsFree
  <2> QED
    BY <1>1, <1>3, <2>1, <2>2, <2>3, <2>4, <2>5 DEF Owned, IsFree, h
<1> QED
  BY <1>5, <1>6 DEF h

(* The command executed is done with. *)
LEMMA FreeSlotOwned ==
  ASSUME IInv, at = "exec", pool' = [pool EXCEPT ![running] = Free], running' = 0,
         UNCHANGED <<cmdQueue, held>>
  PROVE  /\ Owned'
         /\ pool' \in [Slots -> Command \cup {Free}]
<1>1. /\ running \in Slots /\ pool \in [Slots -> Command \cup {Free}] /\ 0 \notin Slots
      /\ cmdQueue \in Seq(Slots) /\ held \in [Clients -> 0 .. QueueLen]
  BY QueueLenAssumption DEF IInv, AgentTypeOK, Control, Slots
<1>2. /\ pool' \in [Slots -> Command \cup {Free}] /\ pool'[running] = Free
      /\ \A t \in Slots : t # running => pool'[t] = pool[t]
  BY <1>1
<1>3. 0 \notin Contents(cmdQueue)
  BY <1>1 DEF Contents
<1>4. \A t \in Slots : pool'[t] = Free <=> /\ t \notin Contents(cmdQueue)
                                           /\ t # 0
                                           /\ \A d \in Clients : held[d] # t
  <2>1. SUFFICES ASSUME NEW t \in Slots
                 PROVE  pool'[t] = Free <=> /\ t \notin Contents(cmdQueue)
                                            /\ t # 0
                                            /\ \A d \in Clients : held[d] # t
    OBVIOUS
  <2>2. CASE t = running
    BY <1>1, <1>2, <2>2 DEF IInv, Owned
  <2>3. CASE t # running
    BY <1>1, <1>2, <2>3 DEF IInv, Owned, IsFree
  <2> QED
    BY <2>2, <2>3
<1>5. Owned'
  BY <1>3, <1>4 DEF IInv, Owned, IsFree
<1> QED
  BY <1>2, <1>5

-----------------------------------------------------------------------------
(* The steps that move no slot.                                            *)

LEMMA CallerWaitsInv ==
  ASSUME IInv, UNCHANGED spoilt, (waiting = 0 /\ MqttAgent_Start) \/ StopReturns \/ StopTimesOut
  PROVE  IInv'
<1>1. CASE waiting = 0 /\ MqttAgent_Start
  <2>1. AgentTypeOK'
    BY <1>1 DEF IInv, AgentTypeOK, MqttAgent_Start, apiVars, netVars, callVars
  <2>2. Owned'
    BY <1>1, OwnedKept DEF MqttAgent_Start, apiVars, callVars
  <2>3. Control'
    BY <1>1 DEF IInv, Control, MqttAgent_Start, callVars
  <2> QED
    BY <2>1, <2>2, <2>3 DEF IInv
<1>2. CASE StopReturns
  <2>1. AgentTypeOK'
    <3>1. waiting' \in 0 .. QueueLen /\ given' = FALSE
      BY <1>2, QueueLenAssumption DEF StopReturns
    <3>2. UNCHANGED <<agentVars, apiVars, netVars, held, accepted>>
      BY <1>2 DEF StopReturns
    <3> QED
      BY <3>1, <3>2 DEF IInv, AgentTypeOK, agentVars, apiVars, netVars
  <2>2. Owned'
    BY <1>2, OwnedKept DEF StopReturns, agentVars, apiVars
  <2>3. Control'
    BY <1>2 DEF IInv, Control, StopReturns, agentVars
  <2> QED
    BY <2>1, <2>2, <2>3 DEF IInv
<1>3. CASE StopTimesOut
  <2>1. AgentTypeOK'
    <3>1. waiting' \in 0 .. QueueLen /\ given' = given
      BY <1>3, QueueLenAssumption DEF StopTimesOut
    <3>2. UNCHANGED <<agentVars, apiVars, netVars, held, accepted>>
      BY <1>3 DEF StopTimesOut
    <3> QED
      BY <3>1, <3>2 DEF IInv, AgentTypeOK, agentVars, apiVars, netVars
  <2>2. Owned'
    BY <1>3, OwnedKept DEF StopTimesOut, agentVars, apiVars
  <2>3. Control'
    BY <1>3 DEF IInv, Control, StopTimesOut, agentVars
  <2> QED
    BY <2>1, <2>2, <2>3 DEF IInv
<1> QED
  BY <1>1, <1>2, <1>3

LEMMA ConnectingInv ==
  ASSUME IInv, UNCHANGED spoilt,
         Entry \/ TryConnect \/ Connected \/ ConnectFails \/ BackoffEnds \/ TaskEnds
  PROVE  IInv'
<1>1. CASE Entry \/ TryConnect \/ BackoffEnds \/ TaskEnds
  <2>1. AgentTypeOK'
    BY <1>1 DEF IInv, AgentTypeOK, Entry, TryConnect, BackoffEnds, TaskEnds, apiVars, netVars,
                callVars
  <2>2. Owned'
    BY <1>1, OwnedKept DEF Entry, TryConnect, BackoffEnds, TaskEnds, apiVars, callVars
  <2>3. Control'
    BY <1>1 DEF IInv, Control, Entry, TryConnect, BackoffEnds, TaskEnds, callVars
  <2> QED
    BY <2>1, <2>2, <2>3 DEF IInv
<1>2. CASE Connected
  <2>1. AgentTypeOK'
    BY <1>2, LimitsAssumption, CmdsPerLoopAssumption
       DEF IInv, AgentTypeOK, Connected, CountAgain, callVars
  <2>2. Owned'
    BY <1>2, OwnedKept DEF Connected, callVars
  <2>3. Control'
    BY <1>2 DEF IInv, Control, Connected, callVars
  <2> QED
    BY <2>1, <2>2, <2>3 DEF IInv
<1>3. CASE ConnectFails
  <2>1. /\ trouble' \in 0 .. MaxTrouble
        /\ retry' \in 0 .. MaxRetries
        /\ at' \in {"ending", "backoff"} /\ s_state' \in {"stopped", s_state}
    <3>1. trouble' \in 0 .. MaxTrouble
      BY <1>3, LimitsAssumption DEF IInv, AgentTypeOK, ConnectFails, NetworkFails
    <3>2. retry' \in 0 .. MaxRetries
      BY <1>3, LimitsAssumption DEF IInv, AgentTypeOK, ConnectFails
    <3>3. at' \in {"ending", "backoff"} /\ s_state' \in {"stopped", s_state}
      BY <1>3 DEF ConnectFails, BecomeStopped
    <3> QED
      BY <3>1, <3>2, <3>3
  <2>2. AgentTypeOK'
    BY <1>3, <2>1 DEF IInv, AgentTypeOK, ConnectFails, apiVars, callVars
  <2>3. Owned'
    BY <1>3, OwnedKept DEF ConnectFails, apiVars, callVars
  <2>4. Control'
    BY <1>3, <2>1 DEF IInv, Control, ConnectFails, callVars
  <2> QED
    BY <2>2, <2>3, <2>4 DEF IInv
<1> QED
  BY <1>1, <1>2, <1>3

LEMMA ProcessInv ==
  ASSUME IInv, UNCHANGED spoilt, ProcessAck \/ ProcessIdle \/ ProcessFails PROVE IInv'
<1>1. CASE ProcessAck
  <2>1. AgentTypeOK'
    BY <1>1, CmdsPerLoopAssumption DEF IInv, AgentTypeOK, ProcessAck, CountAgain, apiVars, callVars
  <2>2. Owned'
    BY <1>1, OwnedKept DEF ProcessAck, apiVars, callVars
  <2>3. Control'
    BY <1>1 DEF IInv, Control, ProcessAck, Drained, callVars
  <2> QED
    BY <2>1, <2>2, <2>3 DEF IInv
<1>2. CASE ProcessIdle
  <2>1. AgentTypeOK'
    BY <1>2, CmdsPerLoopAssumption
       DEF IInv, AgentTypeOK, ProcessIdle, CountAgain, apiVars, netVars, callVars
  <2>2. Owned'
    BY <1>2, OwnedKept DEF ProcessIdle, apiVars, callVars
  <2>3. Control'
    BY <1>2 DEF IInv, Control, ProcessIdle, Drained, callVars
  <2> QED
    BY <2>1, <2>2, <2>3 DEF IInv
<1>3. CASE ProcessFails
  <2>1. AgentTypeOK'
    BY <1>3 DEF IInv, AgentTypeOK, ProcessFails, BecomeStopped, apiVars, callVars
  <2>2. Owned'
    BY <1>3, OwnedKept DEF ProcessFails, apiVars, callVars
  <2>3. Control'
    BY <1>3 DEF IInv, Control, ProcessFails, BecomeStopped, Drained, callVars
  <2> QED
    BY <2>1, <2>2, <2>3 DEF IInv
<1> QED
  BY <1>1, <1>2, <1>3

LEMMA LinkInv ==
  ASSUME IInv, UNCHANGED spoilt, LinkDrops \/ ClosedSeen \/ OpenConnection PROVE IInv'
<1>1. AgentTypeOK'
  <2>1. trouble' \in 0 .. MaxTrouble
    BY LimitsAssumption DEF IInv, AgentTypeOK, LinkDrops, ClosedSeen, OpenConnection
  <2> QED
    BY <2>1 DEF IInv, AgentTypeOK, LinkDrops, ClosedSeen, OpenConnection, agentVars, apiVars,
                callVars
<1>2. UNCHANGED <<pool, cmdQueue, running, held, at, count, given, waiting>>
  BY DEF LinkDrops, ClosedSeen, OpenConnection, agentVars, apiVars, callVars
<1>3. Owned' /\ Control'
  BY <1>2, OwnedKept DEF IInv, Control
<1> QED
  BY <1>1, <1>3 DEF IInv

-----------------------------------------------------------------------------
(* The steps that move one.                                                *)

LEMMA InitCallInv ==
  ASSUME IInv, UNCHANGED spoilt, running = 0, \A c \in Clients : held[c] = 0, MqttAgent_Init
  PROVE  IInv'
<1>1. /\ pool' = [s \in Slots |-> Free] /\ cmdQueue' = <<>> /\ subs' = <<>>
      /\ connSem' = FALSE /\ session' = FALSE /\ records' = {} /\ s_state' = "disconnected"
      /\ UNCHANGED <<at, retry, running, count, net, linkClosed, broker, trouble, held, waiting,
                     given, accepted>>
  BY DEF MqttAgent_Init, RegistryCleared, callVars
<1>3. AgentTypeOK'
  <2>1. pool' \in [Slots -> Command \cup {Free}]
    BY <1>1
  <2>2. cmdQueue' \in Seq(Slots) /\ subs' \in Seq(Filters)
    BY <1>1
  <2> QED
    BY <1>1, <2>1, <2>2 DEF IInv, AgentTypeOK
<1>4. Owned'
  BY <1>1, EmptyUnique DEF Owned, IsFree, Slots
<1>5. Control'
  BY <1>1 DEF IInv, Control
<1> QED
  BY <1>3, <1>4, <1>5 DEF IInv

LEMMA CallInv == ASSUME IInv, UNCHANGED spoilt, NEW c \in Clients, Call(c) PROVE IInv'
<1>1. ASSUME NEW cmd \in Command, TakeSlot(c, cmd),
             UNCHANGED <<agentVars, cmdQueue, subs, connSem, netVars, waiting, given, accepted>>
      PROVE  IInv'
  <2>1. /\ Owned'
        /\ pool' \in [Slots -> Command \cup {Free}]
        /\ held' \in [Clients -> 0 .. QueueLen]
    BY <1>1, TakeSlotOwned DEF agentVars
  <2>2. AgentTypeOK'
    BY <1>1, <2>1 DEF IInv, AgentTypeOK, agentVars, netVars
  <2>3. Control'
    BY <1>1 DEF IInv, Control, agentVars
  <2> QED
    BY <2>1, <2>2, <2>3 DEF IInv
<1>2. ASSUME NEW m \in Messages, PublishAlloc(c, m) PROVE IInv'
  BY <1>1, <1>2, CommandMade DEF PublishAlloc
<1>3. ASSUME NEW f \in Filters, SubscribeAlloc(c, f) PROVE IInv'
  BY <1>1, <1>3, CommandMade DEF SubscribeAlloc
<1>4. CASE StatusAlloc(c)
  BY <1>1, <1>4, CommandMade DEF StatusAlloc
<1>5. CASE StopAlloc(c)
  BY <1>1, <1>5, CommandMade DEF StopAlloc
<1>6. CASE Send(c)
  <2>1. /\ Owned'
        /\ cmdQueue' \in Seq(Slots)
        /\ held' \in [Clients -> 0 .. QueueLen]
    BY <1>6, SendOwned
  <2>2. /\ held[c] \in Slots /\ held[c] \in 0 .. QueueLen /\ held[c] # 0
        /\ pool[held[c]] \in Command
    <3>1. held[c] \in 0 .. QueueLen /\ held[c] # 0
      BY <1>6 DEF IInv, AgentTypeOK, Send
    <3>2. held[c] \in Slots
      BY <3>1, QueueLenAssumption DEF Slots
    <3>3. pool[held[c]] # Free
      BY <3>2 DEF IInv, Owned, IsFree
    <3> QED
      BY <3>1, <3>2, <3>3 DEF IInv, AgentTypeOK
  <2>3. accepted' \in Seq(Messages)
    <3>1. accepted \in Seq(Messages)
      BY DEF IInv, AgentTypeOK
    <3>2. CASE pool[held[c]].type = "publish"
      <4>1. pool[held[c]].of \in Messages
        BY <2>2, <3>2, CommandType
      <4>2. accepted' = Append(accepted, pool[held[c]].of)
        BY <1>6, <3>2 DEF Send
      <4> QED
        BY <3>1, <4>1, <4>2
    <3>3. CASE pool[held[c]].type # "publish"
      BY <1>6, <3>1, <3>3 DEF Send
    <3> QED
      BY <3>2, <3>3
  <2>4. \/ waiting' = held[c] /\ given' = FALSE
        \/ UNCHANGED <<waiting, given>>
    BY <1>6 DEF Send
  <2>5. UNCHANGED <<pool, s_state, at, retry, running, count, subs, connSem, session, records, net,
                    linkClosed, broker, trouble>>
    BY <1>6 DEF Send, agentVars, netVars
  <2>6. AgentTypeOK'
    BY <2>1, <2>2, <2>3, <2>4, <2>5 DEF IInv, AgentTypeOK
  <2>7. Control'
    BY <2>4, <2>5 DEF IInv, Control
  <2> QED
    BY <2>1, <2>6, <2>7 DEF IInv
<1> QED
  BY <1>2, <1>3, <1>4, <1>5, <1>6 DEF Call

LEMMA StopIfRequestedInv == ASSUME IInv, UNCHANGED spoilt, StopIfRequested PROVE IInv'
<1>1. /\ at = "connect" /\ cmdQueue # <<>> /\ cmdQueue' = Tail(cmdQueue)
      /\ pool' = [pool EXCEPT ![Head(cmdQueue)] = Free]
      /\ s_state' = "stopped" /\ at' = "ending"
      /\ given' = IF waiting = Head(cmdQueue) THEN TRUE ELSE given
      /\ UNCHANGED <<retry, running, count, subs, connSem, session, records, net, linkClosed,
                     broker, trouble, held, waiting, accepted>>
  BY DEF StopIfRequested, StopAtHead, BecomeStopped, Give, netVars
<1>2. running = 0
  BY <1>1 DEF IInv, Control
<1>3. /\ Owned' /\ Head(cmdQueue) \in Slots
      /\ cmdQueue' \in Seq(Slots) /\ pool' \in [Slots -> Command \cup {Free}]
  BY <1>1, <1>2, ReceiveOwned
<1>4. given' = TRUE \/ given' = given
  BY <1>1
<1>5. AgentTypeOK'
  BY <1>1, <1>3, <1>4 DEF IInv, AgentTypeOK
<1>6. Control'
  <2>1. Head(cmdQueue) # 0
    BY <1>3 DEF Slots
  <2> QED
    BY <1>1, <1>2, <2>1 DEF IInv, Control
<1> QED
  BY <1>3, <1>5, <1>6 DEF IInv

LEMMA ReceiveInv == ASSUME IInv, UNCHANGED spoilt, Receive PROVE IInv'
<1>1. /\ at = "drain" /\ count < CmdsPerLoop /\ cmdQueue # <<>>
      /\ running' = Head(cmdQueue) /\ cmdQueue' = Tail(cmdQueue) /\ at' = "exec"
      /\ UNCHANGED <<s_state, retry, count, pool, subs, connSem, session, records, net, linkClosed,
                     broker, trouble, held, waiting, given, accepted>>
  BY DEF Receive, MoreThisLoop, netVars, callVars
<1>2. running = 0
  BY <1>1 DEF IInv, Control
<1>3. Owned' /\ Head(cmdQueue) \in Slots /\ cmdQueue' \in Seq(Slots)
  BY <1>1, <1>2, ReceiveOwned
<1>4. running' \in 0 .. QueueLen /\ running' # 0
  BY <1>1, <1>3 DEF Slots
<1>5. AgentTypeOK'
  BY <1>1, <1>3, <1>4 DEF IInv, AgentTypeOK
<1>6. Control'
  BY <1>1, <1>4 DEF IInv, Control
<1> QED
  BY <1>3, <1>5, <1>6 DEF IInv

(* What every command but CMD_STOP has in common. *)
LEMMA ExecutedInv ==
  ASSUME IInv, at = "exec", FreeSlot,
         session' \in BOOLEAN, records' \subseteq Messages, subs' \in Seq(Filters),
         broker' \in Seq(Messages), trouble' \in 0 .. MaxTrouble,
         UNCHANGED <<s_state, retry, cmdQueue, connSem, net, linkClosed, callVars, spoilt>>
  PROVE  IInv'
<1>1. /\ pool' = [pool EXCEPT ![running] = Free] /\ running' = 0 /\ count' = count + 1
      /\ at' = "drain"
      /\ UNCHANGED <<held, waiting, given, accepted>>
  BY DEF FreeSlot, callVars
<1>2. Owned' /\ pool' \in [Slots -> Command \cup {Free}]
  BY <1>1, FreeSlotOwned
<1>3. count' \in 0 .. CmdsPerLoop /\ running' \in 0 .. QueueLen
  BY <1>1, QueueLenAssumption, CmdsPerLoopAssumption DEF IInv, AgentTypeOK, Control
<1>4. AgentTypeOK'
  BY <1>1, <1>2, <1>3 DEF IInv, AgentTypeOK
<1>5. Control'
  BY <1>1 DEF IInv, Control
<1> QED
  BY <1>2, <1>4, <1>5 DEF IInv

LEMMA FailureType ==
  ASSUME IInv, NetworkFails PROVE trouble' \in 0 .. MaxTrouble
BY LimitsAssumption DEF IInv, AgentTypeOK, NetworkFails

(* The command executed is one that was filled by a call. *)
LEMMA RunningIsCommand ==
  ASSUME IInv, at = "exec" PROVE pool[running] \in Command
<1>1. running \in Slots
  BY QueueLenAssumption DEF IInv, AgentTypeOK, Control, Slots
<1>2. pool[running] # Free
  BY <1>1 DEF IInv, Owned, IsFree
<1> QED
  BY <1>1, <1>2 DEF IInv, AgentTypeOK

LEMMA DoPublishInv == ASSUME IInv, UNCHANGED spoilt, DoPublish PROVE IInv'
<1> DEFINE m == pool[running].of
<1>1. at = "exec" /\ m \in Messages
  BY RunningIsCommand, CommandType DEF DoPublish, Executing
<1>2. /\ session \in BOOLEAN /\ records \subseteq Messages /\ subs \in Seq(Filters)
      /\ broker \in Seq(Messages) /\ trouble \in 0 .. MaxTrouble
  BY DEF IInv, AgentTypeOK
<1>3. broker \o Sent(m) \in Seq(Messages)
  <2>1. Sent(m) \in Seq(Messages)
    BY <1>1 DEF Sent
  <2> HIDE DEF m
  <2> QED
    BY <1>2, <2>1
<1>4. /\ session' \in BOOLEAN /\ records' \subseteq Messages
      /\ broker' \in Seq(Messages) /\ trouble' \in 0 .. MaxTrouble
  <2>1. CASE UNCHANGED <<session, records, broker, trouble>>
    BY <1>2, <2>1
  <2>2. CASE /\ records' = records \cup {m}
             /\ broker' = IF net = "up" THEN broker \o Sent(m) ELSE broker
             /\ UNCHANGED <<session, trouble>>
    BY <1>1, <1>2, <1>3, <2>2
  <2>3. CASE NetworkFails /\ session' = FALSE /\ UNCHANGED <<records, broker>>
    BY <1>2, <2>3, FailureType
  <2> QED
    BY <2>1, <2>2, <2>3 DEF DoPublish
<1>5. /\ FreeSlot
      /\ UNCHANGED <<s_state, retry, cmdQueue, subs, connSem, net, linkClosed, callVars>>
  BY DEF DoPublish
<1> QED
  BY <1>1, <1>2, <1>4, <1>5, ExecutedInv

LEMMA DoSubscribeInv == ASSUME IInv, UNCHANGED spoilt, DoSubscribe PROVE IInv'
<1> DEFINE f == pool[running].of
<1>1. at = "exec" /\ f \in Filters
  BY RunningIsCommand, CommandType DEF DoSubscribe, Executing
<1>2. /\ session \in BOOLEAN /\ records \subseteq Messages /\ subs \in Seq(Filters)
      /\ broker \in Seq(Messages) /\ trouble \in 0 .. MaxTrouble
  BY DEF IInv, AgentTypeOK
<1>3. Append(subs, f) \in Seq(Filters)
  BY <1>1, <1>2
<1>4. session' \in BOOLEAN /\ subs' \in Seq(Filters) /\ trouble' \in 0 .. MaxTrouble
  <2>1. CASE /\ subs' = IF Len(subs) < MaxSubs THEN Append(subs, f) ELSE subs
             /\ UNCHANGED <<session, trouble>>
    BY <1>2, <1>3, <2>1
  <2>2. CASE NetworkFails /\ session' = FALSE /\ UNCHANGED subs
    BY <1>2, <2>2, FailureType
  <2>3. CASE UNCHANGED <<session, subs, trouble>>
    BY <1>2, <2>3
  <2> QED
    BY <2>1, <2>2, <2>3 DEF DoSubscribe
<1>5. /\ FreeSlot
      /\ UNCHANGED <<s_state, retry, cmdQueue, connSem, records, net, linkClosed, broker, callVars>>
  BY DEF DoSubscribe
<1> QED
  BY <1>1, <1>2, <1>4, <1>5, ExecutedInv

LEMMA DoStatusInv == ASSUME IInv, UNCHANGED spoilt, DoStatus PROVE IInv'
<1>1. /\ session \in BOOLEAN /\ records \subseteq Messages /\ subs \in Seq(Filters)
      /\ broker \in Seq(Messages) /\ trouble \in 0 .. MaxTrouble
  BY DEF IInv, AgentTypeOK
<1>2. /\ at = "exec" /\ FreeSlot
      /\ UNCHANGED <<s_state, retry, cmdQueue, subs, connSem, session, records, net, linkClosed,
                     broker, trouble, callVars>>
  BY DEF DoStatus, Executing, netVars
<1> QED
  BY <1>1, <1>2, ExecutedInv

LEMMA DoStopInv == ASSUME IInv, UNCHANGED spoilt, DoStop PROVE IInv'
<1>1. /\ at = "exec" /\ session' = FALSE
      /\ given' = IF waiting = running THEN TRUE ELSE given
      /\ pool' = [pool EXCEPT ![running] = Free] /\ running' = 0
      /\ s_state' = "stopped" /\ at' = "ending"
      /\ UNCHANGED <<retry, count, cmdQueue, subs, connSem, records, net, linkClosed, broker,
                     trouble, held, waiting, accepted>>
  BY DEF DoStop, Executing, Give, BecomeStopped
<1>2. Owned' /\ pool' \in [Slots -> Command \cup {Free}]
  BY <1>1, FreeSlotOwned
<1>3. (given' = TRUE \/ given' = given) /\ running' \in 0 .. QueueLen
  BY <1>1, QueueLenAssumption
<1>4. AgentTypeOK'
  BY <1>1, <1>2, <1>3 DEF IInv, AgentTypeOK
<1>5. Control'
  BY <1>1 DEF IInv, Control
<1> QED
  BY <1>2, <1>4, <1>5 DEF IInv

LEMMA AgentStepInv == ASSUME IInv, UNCHANGED spoilt, AgentStep PROVE IInv'
<1>1. CASE Entry \/ TryConnect \/ Connected \/ ConnectFails \/ BackoffEnds \/ TaskEnds
  BY <1>1, ConnectingInv
<1>2. CASE ProcessAck \/ ProcessIdle \/ ProcessFails
  BY <1>2, ProcessInv
<1>3. CASE StopIfRequested \/ Receive
  BY <1>3, StopIfRequestedInv, ReceiveInv
<1>4. CASE DoPublish \/ DoSubscribe \/ DoStatus \/ DoStop
  BY <1>4, DoPublishInv, DoSubscribeInv, DoStatusInv, DoStopInv
<1> QED
  BY <1>1, <1>2, <1>3, <1>4 DEF AgentStep

LEMMA NextInv == ASSUME IInv, [AgentNext]_agentSpecVars PROVE IInv'
<1>1. CASE UNCHANGED agentSpecVars
  <2>1. UNCHANGED <<s_state, at, retry, pool, cmdQueue, running, count, subs, connSem, session,
                    records, net, linkClosed, held, waiting, given, accepted, broker, trouble,
                    spoilt>>
    BY <1>1 DEF agentSpecVars, mqttVars
  <2>2. AgentTypeOK'
    BY <2>1 DEF IInv, AgentTypeOK
  <2>3. Owned' /\ Control'
    BY <2>1, OwnedKept DEF IInv, Control
  <2> QED
    BY <2>2, <2>3 DEF IInv
<1>2. CASE AgentNext
  <2> UNCHANGED spoilt
    BY <1>2 DEF AgentNext
  <2>1. CASE \E c \in Clients : Call(c)
    BY <2>1, CallInv
  <2>2. CASE (waiting = 0 /\ MqttAgent_Start) \/ StopReturns \/ StopTimesOut
    BY <2>2, CallerWaitsInv
  <2>3. CASE Quiet /\ MqttAgent_Init
    BY <2>3, InitCallInv DEF IInv, Control, Quiet
  <2>4. CASE LinkDrops \/ ClosedSeen \/ OpenConnection
    BY <2>4, LinkInv
  <2>5. CASE AgentStep
    BY <2>5, AgentStepInv
  <2> QED
    BY <1>2, <2>1, <2>2, <2>3, <2>4, <2>5 DEF AgentNext
<1> QED
  BY <1>1, <1>2

LEMMA Invariance == AgentSpec => []IInv
BY InitInv, NextInv, PTL DEF AgentSpec

-----------------------------------------------------------------------------
(* What the invariant means.                                               *)

LEMMA InvStops == IInv => StopMeansGone
BY DEF IInv, Control, StopMeansGone

LEMMA InvHasRoom == IInv => SendNeverWaits
<1>1. ASSUME IInv, NEW c \in Clients, held[c] # 0 PROVE Len(cmdQueue) < QueueLen
  <2>1. /\ cmdQueue \in Seq(1 .. QueueLen) /\ held[c] \in 1 .. QueueLen /\ QueueLen \in Nat
    BY <1>1, QueueLenAssumption DEF IInv, AgentTypeOK, Slots
  <2>2. Unique(cmdQueue) /\ held[c] \notin Contents(cmdQueue)
    BY <1>1 DEF IInv, Owned
  <2> QED
    BY <2>1, <2>2, UniqueIsShort
<1> QED
  BY <1>1 DEF SendNeverWaits

LEMMA InvAccounts == IInv => SlotsAccounted
<1>1. ASSUME IInv, NEW s \in Slots, IsFree(s) PROVE Cardinality(Places(s)) = 0
  <2>1. Places(s) = {}
    BY <1>1 DEF IInv, Owned, Places, Contents
  <2> QED
    BY <2>1, FS_EmptySet
<1>2. ASSUME IInv, NEW s \in Slots, ~IsFree(s) PROVE Cardinality(Places(s)) = 1
  <2> DEFINE Holders == {c \in Clients : held[c] = s}
             Queued == {i \in DOMAIN cmdQueue : cmdQueue[i] = s}
             Run == {t \in {<<running>>} : t = <<s>>}
  <2>1. Places(s) = Holders \cup Queued \cup Run
    BY DEF Places
  <2>2. s # 0 /\ (Run = IF s = running THEN {<<s>>} ELSE {})
    BY DEF Slots
  <2>3. s \in Contents(cmdQueue) <=> Queued # {}
    BY DEF Contents
  <2>4. \E p : Places(s) = {p}
    <3>1. CASE s \in Contents(cmdQueue)
      <4>1. PICK i \in DOMAIN cmdQueue : cmdQueue[i] = s
        BY <3>1 DEF Contents
      <4>2. Queued = {i}
        BY <1>2, <4>1 DEF IInv, Owned, Unique
      <4>3. Holders = {} /\ s # running
        BY <1>2, <3>1 DEF IInv, Owned
      <4> QED
        BY <2>1, <2>2, <4>2, <4>3
    <3>2. CASE s = running
      <4>1. Holders = {} /\ Queued = {}
        BY <1>2, <2>2, <2>3, <3>2 DEF IInv, Owned
      <4> QED
        BY <2>1, <2>2, <3>2, <4>1
    <3>3. CASE \E c \in Clients : held[c] = s
      <4>1. PICK c \in Clients : held[c] = s
        BY <3>3
      <4>2. Holders = {c}
        BY <1>2, <2>2, <4>1 DEF IInv, Owned
      <4>3. Queued = {} /\ s # running
        BY <1>2, <2>2, <2>3, <4>1 DEF IInv, Owned
      <4> QED
        BY <2>1, <2>2, <4>2, <4>3
    <3> QED
      BY <1>2, <3>1, <3>2, <3>3 DEF IInv, Owned
  <2> QED
    BY <2>4, FS_Singleton
<1> QED
  BY <1>1, <1>2 DEF SlotsAccounted

-----------------------------------------------------------------------------
(* Messages leave in the order they were accepted.                         *)

(* The commands not yet executed, as the agent and its queue hold them. *)
TodoIsBoth ==
  /\ Todo \in Seq(Slots) /\ Len(Todo) \in Nat /\ DOMAIN Todo = 1 .. Len(Todo)
  /\ Len(cmdQueue) \in Nat
  /\ running = 0 => /\ Len(Todo) = Len(cmdQueue)
                    /\ \A i \in 1 .. Len(cmdQueue) : Todo[i] = cmdQueue[i]
  /\ running # 0 => /\ Len(Todo) = Len(cmdQueue) + 1
                    /\ Todo[1] = running
                    /\ \A i \in 1 .. Len(cmdQueue) : Todo[i + 1] = cmdQueue[i]

LEMMA TodoType == IInv => TodoIsBoth
<1> SUFFICES ASSUME IInv PROVE TodoIsBoth
  OBVIOUS
<1>1. cmdQueue \in Seq(Slots) /\ running \in 0 .. QueueLen
  BY DEF IInv, AgentTypeOK
<1> DEFINE first == IF running = 0 THEN <<>> ELSE <<running>>
<1>2. running # 0 => running \in Slots
  BY <1>1, QueueLenAssumption DEF Slots
<1>3. /\ first \in Seq(Slots)
      /\ running = 0 => Len(first) = 0
      /\ running # 0 => Len(first) = 1 /\ first[1] = running
  BY <1>2
<1> HIDE DEF first
<1>4. Todo = first \o cmdQueue
  BY DEF Todo, first
<1>5. /\ Todo \in Seq(Slots) /\ DOMAIN Todo = 1 .. Len(Todo)
      /\ Len(Todo) = Len(first) + Len(cmdQueue)
      /\ Len(Todo) \in Nat /\ Len(first) \in Nat /\ Len(cmdQueue) \in Nat
      /\ \A i \in 1 .. Len(first) : Todo[i] = first[i]
      /\ \A i \in 1 .. Len(cmdQueue) : Todo[Len(first) + i] = cmdQueue[i]
  BY <1>1, <1>3, <1>4, ConcatProperties
<1>6. CASE running = 0
  BY <1>3, <1>5, <1>6 DEF TodoIsBoth
<1>7. CASE running # 0
  <2>1. Len(first) = 1 /\ first[1] = running
    BY <1>3, <1>7
  <2>2. \A i \in 1 .. Len(cmdQueue) : Todo[i + 1] = cmdQueue[i]
    <3>1. \A i \in 1 .. Len(cmdQueue) : Todo[1 + i] = cmdQueue[i] /\ 1 + i = i + 1
      BY <1>5, <2>1
    <3> QED
      BY <3>1
  <2>3. Len(Todo) = Len(cmdQueue) + 1 /\ Todo[1] = running
    BY <1>5, <2>1
  <2> QED
    BY <1>5, <1>7, <2>2, <2>3 DEF TodoIsBoth
<1> QED
  BY <1>6, <1>7

LEMMA TodoTypeNext == IInv' => TodoIsBoth'
BY TodoType, PTL

LEMMA TodoOwned == ASSUME IInv PROVE Contents(Todo) \subseteq Contents(cmdQueue) \cup {running}
<1>1. SUFFICES ASSUME NEW i \in DOMAIN Todo PROVE Todo[i] \in Contents(cmdQueue) \cup {running}
  BY DEF Contents
<1>2. i \in 1 .. Len(Todo) /\ Len(Todo) \in Nat /\ Len(cmdQueue) \in Nat
  BY <1>1, TodoType DEF TodoIsBoth
<1>3. DOMAIN cmdQueue = 1 .. Len(cmdQueue)
  BY DEF IInv, AgentTypeOK
<1>4. CASE running = 0
  BY <1>2, <1>3, <1>4, TodoType DEF TodoIsBoth, Contents
<1>5. CASE running # 0 /\ i = 1
  BY <1>5, TodoType DEF TodoIsBoth
<1>6. CASE running # 0 /\ i # 1
  <2>1. i - 1 \in 1 .. Len(cmdQueue) /\ (i - 1) + 1 = i
    BY <1>2, <1>6, TodoType DEF TodoIsBoth
  <2>2. Todo[i] = cmdQueue[i - 1]
    BY <1>6, <2>1, TodoType DEF TodoIsBoth
  <2> QED
    BY <1>3, <2>1, <2>2 DEF Contents
<1> QED
  BY <1>4, <1>5, <1>6

LEMMA PrecedesIn ==
  \A m, n, q : Precedes(m, n, q) => m \in Contents(q) /\ n \in Contents(q)
BY DEF Precedes, Contents

LEMMA AppendPrecedes ==
  ASSUME NEW q \in Seq(Messages), NEW s \in Messages
  PROVE  /\ Contents(Append(q, s)) = Contents(q) \cup {s}
         /\ \A m, n : Precedes(m, n, Append(q, s))
                        <=> Precedes(m, n, q) \/ (m \in Contents(q) /\ n = s)
<1> DEFINE r == Append(q, s)
<1>1. /\ Len(q) \in Nat /\ DOMAIN r = 1 .. Len(q) + 1 /\ DOMAIN q = 1 .. Len(q)
      /\ \A i \in 1 .. Len(q) : r[i] = q[i]
      /\ r[Len(q) + 1] = s
  BY AppendProperties
<1> HIDE DEF r
<1>2. Contents(r) = Contents(q) \cup {s}
  BY <1>1 DEF Contents
<1>3. ASSUME NEW m, NEW n, Precedes(m, n, r)
      PROVE  Precedes(m, n, q) \/ (m \in Contents(q) /\ n = s)
  <2>1. PICK i \in 1 .. Len(q) + 1, j \in 1 .. Len(q) + 1 : i < j /\ r[i] = m /\ r[j] = n
    BY <1>1, <1>3 DEF Precedes
  <2>2. i \in 1 .. Len(q) /\ q[i] = m
    BY <1>1, <2>1
  <2>3. CASE j \in 1 .. Len(q)
    BY <1>1, <2>1, <2>2, <2>3 DEF Precedes
  <2>4. CASE j = Len(q) + 1
    BY <1>1, <2>1, <2>2, <2>4 DEF Contents
  <2> QED
    BY <1>1, <2>1, <2>3, <2>4
<1>4. ASSUME NEW m, NEW n, Precedes(m, n, q) PROVE Precedes(m, n, r)
  <2>1. PICK i \in 1 .. Len(q), j \in 1 .. Len(q) : i < j /\ q[i] = m /\ q[j] = n
    BY <1>1, <1>4 DEF Precedes
  <2> QED
    BY <1>1, <2>1 DEF Precedes
<1>5. ASSUME NEW m \in Contents(q) PROVE Precedes(m, s, r)
  <2>1. PICK i \in 1 .. Len(q) : q[i] = m
    BY <1>1 DEF Contents
  <2>2. i \in DOMAIN r /\ Len(q) + 1 \in DOMAIN r /\ i < Len(q) + 1 /\ r[i] = m
    BY <1>1, <2>1
  <2> QED
    BY <1>1, <2>2 DEF Precedes
<1> QED
  BY <1>2, <1>3, <1>4, <1>5 DEF r

(* A call that still has to be sent is about no message accepted before,   *)
(* and no two calls are about the same one.                                *)
Publishing(c) == held[c] # 0 /\ pool[held[c]].type = "publish"
HeldOnce ==
  /\ \A c \in Clients : Publishing(c) => pool[held[c]].of \notin Contents(accepted)
  /\ \A c, d \in Clients :
       Publishing(c) /\ Publishing(d) /\ pool[held[c]].of = pool[held[d]].of => c = d

(* The commands to be executed stay, or the first of them is done with.    *)
LEMMA OrderKept ==
  ASSUME OnceInOrder, IInv, IInv', NEW k \in {0, 1},
         Len(Todo') = Len(Todo) - k,
         \A i \in 1 .. Len(Todo') : Todo'[i] = Todo[i + k] /\ pool'[Todo[i + k]] = pool[Todo[i + k]],
         accepted' = accepted,
         \/ broker' = broker
         \/ k = 1 /\ \E m \in Messages : ToSend(1, m) /\ broker' = Append(broker, m)
  PROVE  OnceInOrder'
<1>1. /\ DOMAIN Todo = 1 .. Len(Todo) /\ Len(Todo) \in Nat
      /\ DOMAIN Todo' = 1 .. Len(Todo') /\ Len(Todo') \in Nat
  BY TodoType, TodoTypeNext DEF TodoIsBoth
<1>2. ASSUME NEW i \in DOMAIN Todo', NEW m PROVE i + k \in DOMAIN Todo /\ (ToSend(i, m)' => ToSend(i + k, m))
  BY <1>1 DEF ToSend
<1>3. Pending' \subseteq Pending
  BY <1>2 DEF Pending
<1>4. /\ Contents(broker') \subseteq Contents(broker) \cup Pending
      /\ \A m, n \in Messages : SentBefore(m, n)' => SentBefore(m, n)
  <2>1. ASSUME NEW m, NEW n, NEW i \in DOMAIN Todo', NEW j \in DOMAIN Todo',
               i < j, ToSend(i, m)', ToSend(j, n)'
        PROVE  SentBefore(m, n)
    <3>1. /\ i + k \in DOMAIN Todo /\ j + k \in DOMAIN Todo /\ i + k < j + k
          /\ ToSend(i + k, m) /\ ToSend(j + k, n)
      BY <1>1, <1>2, <2>1
    <3> QED
      BY <3>1 DEF SentBefore
  <2>2. CASE broker' = broker
    BY <1>3, <2>1, <2>2 DEF SentBefore
  <2>3. CASE k = 1 /\ \E x \in Messages : ToSend(1, x) /\ broker' = Append(broker, x)
    <3>1. PICK x \in Messages : ToSend(1, x) /\ broker' = Append(broker, x)
      BY <2>3
    <3>2. 1 \in DOMAIN Todo
      BY <1>1, <2>3
    <3>3. x \in Pending
      BY <3>1, <3>2 DEF Pending
    <3>4. broker \in Seq(Messages)
      BY DEF IInv, AgentTypeOK
    <3>5. /\ Contents(broker') = Contents(broker) \cup {x}
          /\ \A m, n : Precedes(m, n, broker')
                         <=> Precedes(m, n, broker) \/ (m \in Contents(broker) /\ n = x)
      BY <3>1, <3>4, AppendPrecedes
    <3>6. ASSUME NEW n \in Pending' PROVE SentBefore(x, n)
      <4>1. PICK j \in DOMAIN Todo' : ToSend(j, n)'
        BY DEF Pending
      <4>2. j + 1 \in DOMAIN Todo /\ ToSend(j + 1, n) /\ 1 < j + 1
        BY <1>1, <1>2, <2>3, <4>1
      <4> QED
        BY <3>1, <3>2, <4>2 DEF SentBefore
    <3>7. ASSUME NEW m \in Messages, NEW n \in Messages, SentBefore(m, n)' PROVE SentBefore(m, n)
      <4>1. CASE Precedes(m, n, broker')
        BY <3>3, <3>5, <4>1 DEF SentBefore
      <4>2. CASE m \in Contents(broker') /\ n \in Pending'
        BY <1>3, <3>5, <3>6, <4>2 DEF SentBefore
      <4>3. CASE (\E i, j \in DOMAIN Todo : i < j /\ ToSend(i, m) /\ ToSend(j, n))'
        BY <2>1, <4>3
      <4> QED
        BY <3>7, <4>1, <4>2, <4>3 DEF SentBefore
    <3> QED
      BY <3>3, <3>5, <3>7
  <2> QED
    BY <2>2, <2>3
<1>5. (Contents(broker) \cup Pending)' \subseteq Contents(accepted')
  BY <1>3, <1>4 DEF OnceInOrder
<1> QED
  BY <1>4, <1>5 DEF OnceInOrder

(* A command joins the end of the queue. *)
LEMMA OrderExtended ==
  ASSUME OnceInOrder, IInv, IInv', NEW s \in Slots,
         cmdQueue' = Append(cmdQueue, s), UNCHANGED <<running, broker>>,
         \A t \in Contents(Todo) : pool'[t] = pool[t],
         IF pool'[s].type = "publish"
         THEN accepted' = Append(accepted, pool'[s].of) /\ pool'[s].of \notin Contents(accepted)
         ELSE accepted' = accepted
  PROVE  OnceInOrder'
<1> DEFINE x == pool'[s].of
           publish == pool'[s].type = "publish"
<1>0. PICK l \in Nat : l = Len(Todo) /\ DOMAIN Todo = 1 .. l
  BY TodoType, TodoTypeNext DEF TodoIsBoth
<1>1. /\ DOMAIN Todo = 1 .. l /\ l \in Nat
      /\ DOMAIN Todo' = 1 .. Len(Todo') /\ Len(Todo') \in Nat
  BY <1>0, TodoType, TodoTypeNext DEF TodoIsBoth
<1>2. /\ Len(Todo') = l + 1
      /\ \A i \in 1 .. l : Todo'[i] = Todo[i]
      /\ Todo'[l + 1] = s
  <2>1. /\ Len(cmdQueue') = Len(cmdQueue) + 1 /\ Len(cmdQueue) \in Nat
        /\ \A i \in 1 .. Len(cmdQueue) : cmdQueue'[i] = cmdQueue[i]
        /\ cmdQueue'[Len(cmdQueue) + 1] = s
    <3>1. cmdQueue \in Seq(Slots)
      BY DEF IInv, AgentTypeOK
    <3> QED
      BY <3>1, AppendProperties
  <2>2. CASE running = 0
    <3>1. /\ l = Len(cmdQueue) /\ \A i \in 1 .. Len(cmdQueue) : Todo[i] = cmdQueue[i]
          /\ Len(Todo') = Len(cmdQueue')
          /\ \A i \in 1 .. Len(cmdQueue') : Todo'[i] = cmdQueue'[i]
      BY <1>0, <2>2, TodoType, TodoTypeNext DEF TodoIsBoth
    <3> QED
      BY <2>1, <3>1
  <2>3. CASE running # 0
    <3>1. /\ l = Len(cmdQueue) + 1 /\ Todo[1] = running
          /\ \A i \in 1 .. Len(cmdQueue) : Todo[i + 1] = cmdQueue[i]
          /\ Len(Todo') = Len(cmdQueue') + 1 /\ Todo'[1] = running
          /\ \A i \in 1 .. Len(cmdQueue') : Todo'[i + 1] = cmdQueue'[i]
      BY <1>0, <2>3, TodoType, TodoTypeNext DEF TodoIsBoth
    <3>2. ASSUME NEW i \in 1 .. l PROVE Todo'[i] = Todo[i]
      <4>1. CASE i = 1
        BY <3>1, <4>1
      <4>2. CASE i # 1
        <5>1. i - 1 \in 1 .. Len(cmdQueue) /\ i - 1 \in 1 .. Len(cmdQueue') /\ (i - 1) + 1 = i
          BY <2>1, <3>1, <4>2
        <5> QED
          BY <2>1, <3>1, <5>1
      <4> QED
        BY <4>1, <4>2
    <3>3. l \in 1 .. Len(cmdQueue') /\ l = Len(cmdQueue) + 1 /\ Len(Todo') = l + 1
      BY <2>1, <3>1
    <3> QED
      BY <2>1, <3>1, <3>2, <3>3
  <2> QED
    BY <2>2, <2>3
<1>3. \A i \in 1 .. l : Todo[i] \in Contents(Todo)
  BY <1>1 DEF Contents
<1>4. \A i \in 1 .. l, m \in Messages : ToSend(i, m)' <=> ToSend(i, m)
  BY <1>1, <1>2, <1>3 DEF ToSend
<1>5. \A m \in Messages : ToSend(l + 1, m)' <=> publish /\ m = x
  BY <1>2 DEF ToSend
<1>6. publish => x \in Messages
  <2>1. pool'[s] \in Command \cup {Free}
    BY DEF IInv, AgentTypeOK
  <2> QED
    BY <2>1, CommandType DEF Free
<1>7. accepted \in Seq(Messages)
  BY DEF IInv, AgentTypeOK
<1> HIDE DEF x, publish
<1>8. /\ publish => /\ Contents(accepted') = Contents(accepted) \cup {x}
                    /\ x \notin Contents(accepted)
                    /\ \A m, n : Precedes(m, n, accepted')
                         <=> Precedes(m, n, accepted) \/ (m \in Contents(accepted) /\ n = x)
      /\ ~publish => accepted' = accepted
  <2>1. publish => accepted' = Append(accepted, x) /\ x \notin Contents(accepted)
    BY DEF x, publish
  <2>2. ~publish => accepted' = accepted
    BY DEF publish
  <2>3. x \in Messages =>
          /\ Contents(Append(accepted, x)) = Contents(accepted) \cup {x}
          /\ \A m, n : Precedes(m, n, Append(accepted, x))
                         <=> Precedes(m, n, accepted) \/ (m \in Contents(accepted) /\ n = x)
    BY <1>7, AppendPrecedes
  <2>4. CASE publish
    BY <1>6, <2>1, <2>3, <2>4
  <2> QED
    BY <2>2, <2>4
<1>9. DOMAIN Todo' = (1 .. l) \cup {l + 1}
  BY <1>1, <1>2
<1>10. ASSUME NEW m \in Pending' PROVE m \in Pending \/ (publish /\ m = x)
  <2>1. PICK i \in DOMAIN Todo' : ToSend(i, m)' /\ m \in Messages
    BY DEF Pending
  <2> QED
    BY <1>1, <1>4, <1>5, <1>9, <2>1 DEF Pending
<1>11. ASSUME NEW m \in Messages, NEW n \in Messages, SentBefore(m, n)'
       PROVE  SentBefore(m, n) \/ (publish /\ n = x /\ m \in Contents(accepted))
  <2>1. CASE Precedes(m, n, broker')
    BY <2>1 DEF SentBefore
  <2>2. CASE m \in Contents(broker') /\ n \in Pending'
    BY <1>10, <2>2 DEF SentBefore, OnceInOrder
  <2>3. CASE (\E i, j \in DOMAIN Todo : i < j /\ ToSend(i, m) /\ ToSend(j, n))'
    <3>1. PICK i \in DOMAIN Todo', j \in DOMAIN Todo' : i < j /\ ToSend(i, m)' /\ ToSend(j, n)'
      BY <2>3
    <3>2. i \in 1 .. l /\ ToSend(i, m)
      <4>1. i \in 1 .. l
        BY <1>1, <1>2, <3>1
      <4> QED
        BY <1>4, <1>11, <3>1, <4>1
    <3>3. m \in Contents(accepted)
      BY <1>1, <3>2 DEF Pending, OnceInOrder
    <3>4. CASE j \in 1 .. l
      BY <1>1, <1>4, <3>1, <3>2, <3>4 DEF SentBefore
    <3>5. CASE j = l + 1
      BY <1>5, <3>1, <3>3, <3>5
    <3> QED
      BY <1>9, <3>4, <3>5
  <2> QED
    BY <1>11, <2>1, <2>2, <2>3 DEF SentBefore
<1>12. (Contents(broker) \cup Pending)' \subseteq Contents(accepted')
  BY <1>8, <1>10 DEF OnceInOrder
<1>13. \A m, n \in Messages : SentBefore(m, n)' => Precedes(m, n, accepted')
  BY <1>8, <1>11 DEF OnceInOrder
<1>14. \A m \in Messages : ~Precedes(m, m, accepted')
  BY <1>8 DEF OnceInOrder
<1> QED
  BY <1>12, <1>13, <1>14 DEF OnceInOrder

(* What the agent does with the commands to be executed. *)
LEMMA SameTodo ==
  ASSUME OnceInOrder, IInv, IInv', UNCHANGED <<running, cmdQueue, accepted, broker>>,
         \A t \in Contents(Todo) : pool'[t] = pool[t]
  PROVE  OnceInOrder'
<1>1. Todo' = Todo
  BY DEF Todo
<1>2. /\ DOMAIN Todo = 1 .. Len(Todo) /\ Len(Todo) \in Nat
      /\ \A i \in DOMAIN Todo : Todo[i] \in Contents(Todo)
  BY TodoType DEF TodoIsBoth, Contents
<1>3. /\ Len(Todo') = Len(Todo) - 0
      /\ \A i \in 1 .. Len(Todo') : Todo'[i] = Todo[i + 0] /\ pool'[Todo[i + 0]] = pool[Todo[i + 0]]
  BY <1>1, <1>2
<1> QED
  BY <1>3, OrderKept

LEMMA TodoEmptied ==
  ASSUME OnceInOrder, IInv, IInv', running' = 0, cmdQueue' = <<>>, UNCHANGED <<accepted, broker>>
  PROVE  OnceInOrder'
<1>1. Todo' = <<>>
  BY DEF Todo
<1>2. Pending' = {}
  BY <1>1 DEF Pending
<1>3. \A m, n : SentBefore(m, n)' => SentBefore(m, n)
  BY <1>1, <1>2 DEF SentBefore
<1> QED
  BY <1>2, <1>3 DEF OnceInOrder

LEMMA ReceiveOrder == ASSUME OnceInOrder, IInv, IInv', Receive PROVE OnceInOrder'
<1>1. /\ at = "drain" /\ cmdQueue # <<>> /\ running' = Head(cmdQueue) /\ cmdQueue' = Tail(cmdQueue)
      /\ UNCHANGED <<pool, accepted, broker>>
  BY DEF Receive, netVars, callVars
<1>2. running = 0 /\ running' # 0
  <2>1. cmdQueue \in Seq(Slots) /\ 0 \notin Slots
    BY DEF IInv, AgentTypeOK, Slots
  <2>2. Head(cmdQueue) \in Slots
    BY <1>1, <2>1, HeadTailProperties
  <2> QED
    BY <1>1, <2>1, <2>2 DEF IInv, Control
<1>3. /\ Len(cmdQueue') = Len(cmdQueue) - 1 /\ Len(cmdQueue) \in Nat /\ Len(cmdQueue) > 0
      /\ \A i \in 1 .. Len(cmdQueue) - 1 : cmdQueue'[i] = cmdQueue[i + 1]
      /\ running' = cmdQueue[1]
  <2>1. cmdQueue \in Seq(Slots)
    BY DEF IInv, AgentTypeOK
  <2> QED
    BY <1>1, <2>1, HeadTailProperties
<1>4. TodoIsBoth /\ TodoIsBoth'
  BY TodoType, TodoTypeNext
<1>5. /\ Len(Todo') = Len(Todo) - 0
      /\ \A i \in 1 .. Len(Todo') : Todo'[i] = Todo[i + 0] /\ pool'[Todo[i + 0]] = pool[Todo[i + 0]]
  <2>1. Len(Todo') = Len(cmdQueue) /\ Len(Todo) = Len(cmdQueue)
    <3>1. Len(Todo) = Len(cmdQueue) /\ Len(Todo') = Len(cmdQueue') + 1
      BY <1>2, <1>4 DEF TodoIsBoth
    <3> QED
      BY <1>3, <3>1
  <2>2. ASSUME NEW i \in 1 .. Len(cmdQueue) PROVE Todo'[i] = Todo[i]
    <3>1. Todo[i] = cmdQueue[i]
      BY <1>2, <1>4 DEF TodoIsBoth
    <3>2. CASE i = 1
      BY <1>2, <1>3, <1>4, <3>1, <3>2 DEF TodoIsBoth
    <3>3. CASE i # 1
      <4>1. i - 1 \in 1 .. Len(cmdQueue') /\ i - 1 \in 1 .. Len(cmdQueue) - 1 /\ (i - 1) + 1 = i
        BY <1>3, <3>3
      <4>2. Todo'[(i - 1) + 1] = cmdQueue'[i - 1]
        BY <1>2, <1>4, <4>1 DEF TodoIsBoth
      <4> QED
        BY <1>3, <3>1, <4>1, <4>2
    <3> QED
      BY <3>2, <3>3
  <2> QED
    BY <1>1, <1>3, <2>1, <2>2
<1> QED
  BY <1>1, <1>5, OrderKept

LEMMA StopIfRequestedOrder ==
  ASSUME OnceInOrder, IInv, IInv', StopIfRequested PROVE OnceInOrder'
<1>1. /\ at = "connect" /\ cmdQueue # <<>> /\ cmdQueue' = Tail(cmdQueue)
      /\ pool' = [pool EXCEPT ![Head(cmdQueue)] = Free]
      /\ UNCHANGED <<running, accepted, broker>>
  BY DEF StopIfRequested, StopAtHead, netVars
<1>2. running = 0 /\ running' = 0 /\ cmdQueue \in Seq(Slots) /\ Unique(cmdQueue)
      /\ pool \in [Slots -> Command \cup {Free}]
  BY <1>1 DEF IInv, Control, AgentTypeOK, Owned
<1>3. /\ Len(cmdQueue') = Len(cmdQueue) - 1 /\ Len(cmdQueue) \in Nat /\ Len(cmdQueue) > 0
      /\ \A i \in 1 .. Len(cmdQueue) - 1 : cmdQueue'[i] = cmdQueue[i + 1]
      /\ Head(cmdQueue) = cmdQueue[1]
  BY <1>1, <1>2, HeadTailProperties
<1>4. TodoIsBoth /\ TodoIsBoth'
  BY TodoType, TodoTypeNext
<1>5. /\ Len(Todo') = Len(Todo) - 1 /\ Len(Todo) = Len(cmdQueue) /\ Len(Todo') = Len(cmdQueue')
  BY <1>2, <1>3, <1>4 DEF TodoIsBoth
<1>6. ASSUME NEW i \in 1 .. Len(Todo')
      PROVE  Todo'[i] = Todo[i + 1] /\ pool'[Todo[i + 1]] = pool[Todo[i + 1]]
  <2>1. i \in 1 .. Len(cmdQueue') /\ i \in 1 .. Len(cmdQueue) - 1 /\ i + 1 \in 1 .. Len(cmdQueue)
    BY <1>3, <1>5
  <2>2. Todo'[i] = cmdQueue'[i] /\ Todo[i + 1] = cmdQueue[i + 1]
    BY <1>2, <1>4, <2>1 DEF TodoIsBoth
  <2>3. cmdQueue[i + 1] # cmdQueue[1] /\ cmdQueue[i + 1] \in Slots
    <3>1. i + 1 \in DOMAIN cmdQueue /\ 1 \in DOMAIN cmdQueue /\ i + 1 # 1
      BY <1>2, <1>3, <2>1
    <3> QED
      BY <1>2, <3>1 DEF Unique
  <2> QED
    BY <1>1, <1>2, <1>3, <2>1, <2>2, <2>3
<1> QED
  BY <1>1, <1>5, <1>6, OrderKept

(* A command was executed: what was to be sent was sent, or is lost. *)
LEMMA ExecutedOrder ==
  ASSUME OnceInOrder, IInv, IInv', at = "exec", running' = 0,
         pool' = [pool EXCEPT ![running] = Free], UNCHANGED <<cmdQueue, accepted>>,
         \/ broker' = broker
         \/ \E m \in Messages : /\ pool[running].type = "publish" /\ pool[running].of = m
                                /\ broker' = Append(broker, m)
  PROVE  OnceInOrder'
<1>1. /\ running # 0 /\ cmdQueue \in Seq(Slots) /\ running \notin Contents(cmdQueue)
      /\ pool \in [Slots -> Command \cup {Free}]
  BY DEF IInv, Control, Owned, AgentTypeOK
<1>2. TodoIsBoth /\ TodoIsBoth'
  BY TodoType, TodoTypeNext
<1>3. Len(Todo') = Len(Todo) - 1 /\ Len(Todo') = Len(cmdQueue) /\ Todo[1] = running
  <2>1. /\ Len(Todo) = Len(cmdQueue) + 1 /\ Len(cmdQueue) \in Nat /\ Todo[1] = running
        /\ Len(Todo') = Len(cmdQueue')
    BY <1>1, <1>2 DEF TodoIsBoth
  <2> QED
    BY <2>1
<1>4. ASSUME NEW i \in 1 .. Len(Todo')
      PROVE  Todo'[i] = Todo[i + 1] /\ pool'[Todo[i + 1]] = pool[Todo[i + 1]]
  <2>1. i \in 1 .. Len(cmdQueue)
    BY <1>3
  <2>2. Todo'[i] = cmdQueue[i] /\ Todo[i + 1] = cmdQueue[i]
    BY <1>1, <1>2, <2>1 DEF TodoIsBoth
  <2>3. cmdQueue[i] # running /\ cmdQueue[i] \in Slots
    BY <1>1, <2>1 DEF Contents
  <2> QED
    BY <1>1, <2>2, <2>3
<1>5. ASSUME NEW m, pool[running].type = "publish", pool[running].of = m PROVE ToSend(1, m)
  BY <1>3, <1>5 DEF ToSend
<1> QED
  BY <1>3, <1>4, <1>5, OrderKept

LEMMA DoPublishSends ==
  ASSUME IInv, DoPublish
  PROVE  \/ broker' = broker
         \/ \E m \in Messages : /\ pool[running].type = "publish" /\ pool[running].of = m
                                /\ broker' = Append(broker, m)
<1> DEFINE m == pool[running].of
<1>1. m \in Messages /\ pool[running].type = "publish"
  BY RunningIsCommand, CommandType DEF DoPublish, Executing
<1>2. broker' = broker \/ broker' = broker \o Sent(m)
  BY DEF DoPublish
<1>3. broker \in Seq(Messages)
  BY DEF IInv, AgentTypeOK
<1>4. Sent(m) = <<>> \/ Sent(m) = <<m>>
  BY DEF Sent
<1>5. ASSUME NEW x \in Messages PROVE broker \o <<x>> = Append(broker, x) /\ broker \o <<>> = broker
  BY <1>3
<1> QED
  BY <1>1, <1>2, <1>4, <1>5

LEMMA AgentStepOrder == ASSUME OnceInOrder, IInv, IInv', AgentStep PROVE OnceInOrder'
<1>1. CASE \/ Entry \/ TryConnect \/ Connected \/ ConnectFails \/ BackoffEnds \/ TaskEnds
           \/ ProcessAck \/ ProcessIdle \/ ProcessFails
  <2>1. UNCHANGED <<running, cmdQueue, accepted, broker, pool>>
    BY <1>1 DEF Entry, TryConnect, Connected, ConnectFails, BackoffEnds, TaskEnds, ProcessAck,
                ProcessIdle, ProcessFails, apiVars, netVars, callVars
  <2> QED
    BY <2>1, SameTodo
<1>2. CASE DoPublish
  BY <1>2, DoPublishSends, ExecutedOrder DEF DoPublish, Executing, FreeSlot, callVars
<1>3. CASE DoSubscribe \/ DoStatus \/ DoStop
  BY <1>3, ExecutedOrder DEF DoSubscribe, DoStatus, DoStop, Executing, FreeSlot, netVars, callVars
<1> QED
  BY <1>1, <1>2, <1>3, ReceiveOrder, StopIfRequestedOrder DEF AgentStep

LEMMA LinkOrder ==
  ASSUME OnceInOrder, IInv, IInv', LinkDrops \/ ClosedSeen \/ OpenConnection PROVE OnceInOrder'
<1>1. UNCHANGED <<running, cmdQueue, accepted, broker, pool>>
  BY DEF LinkDrops, ClosedSeen, OpenConnection, agentVars, apiVars, callVars
<1> QED
  BY <1>1, SameTodo

(* The callers. *)
LEMMA HeldApart ==
  ASSUME IInv, NEW c \in Clients, held[c] # 0
  PROVE  held[c] \in Slots /\ held[c] \notin Contents(Todo)
<1>1. held[c] \in Slots
  BY QueueLenAssumption DEF IInv, AgentTypeOK, Slots
<1> QED
  BY <1>1, TodoOwned DEF IInv, Owned

LEMMA SendOrder ==
  ASSUME OnceInOrder, HeldOnce, IInv, IInv', NEW c \in Clients, Send(c)
  PROVE  OnceInOrder' /\ HeldOnce'
<1> DEFINE s == held[c]
<1>1. /\ s # 0 /\ cmdQueue' = Append(cmdQueue, s) /\ held' = [held EXCEPT ![c] = 0]
      /\ UNCHANGED <<pool, running, broker>>
      /\ accepted' = IF pool[s].type = "publish" THEN Append(accepted, pool[s].of) ELSE accepted
  BY DEF Send, Enqueued, agentVars, netVars
<1>2. s \in Slots
  BY <1>1, HeldApart
<1>3. pool[s].type = "publish" => pool[s].of \notin Contents(accepted)
  BY <1>1 DEF HeldOnce, Publishing
<1>4. OnceInOrder'
  <2> HIDE DEF s
  <2> QED
    BY <1>1, <1>2, <1>3, OrderExtended
<1>5. held \in [Clients -> 0 .. QueueLen]
  BY DEF IInv, AgentTypeOK
<1>6. ASSUME NEW d \in Clients, Publishing(d)'
      PROVE  d # c /\ Publishing(d) /\ held'[d] = held[d]
  BY <1>1, <1>5, <1>6 DEF Publishing
<1>7. ASSUME NEW d \in Clients, Publishing(d)' PROVE pool'[held'[d]].of \notin Contents(accepted')
  <2>1. /\ d # c /\ Publishing(d) /\ held'[d] = held[d]
        /\ pool[held[d]].of \notin Contents(accepted)
    BY <1>6, <1>7 DEF HeldOnce
  <2>2. CASE pool[s].type = "publish"
    <3>1. Publishing(c) /\ pool[s].of # pool[held[d]].of
      BY <1>1, <2>1, <2>2 DEF HeldOnce, Publishing
    <3>2. pool[s].of \in Messages
      <4>1. pool[s] \in Command \cup {Free}
        BY <1>2 DEF IInv, AgentTypeOK
      <4> QED
        BY <2>2, <4>1, CommandType DEF Free
    <3>3. accepted \in Seq(Messages)
      BY DEF IInv, AgentTypeOK
    <3>4. Contents(accepted') = Contents(accepted) \cup {pool[s].of}
      BY <1>1, <2>2, <3>2, <3>3, AppendPrecedes
    <3> QED
      BY <1>1, <2>1, <3>1, <3>4
  <2>3. CASE pool[s].type # "publish"
    BY <1>1, <2>1, <2>3
  <2> QED
    BY <2>2, <2>3
<1>8. HeldOnce'
  BY <1>1, <1>6, <1>7 DEF HeldOnce
<1> QED
  BY <1>4, <1>8

LEMMA TakeSlotOrder ==
  ASSUME OnceInOrder, HeldOnce, IInv, IInv', NEW c \in Clients, NEW cmd \in Command,
         TakeSlot(c, cmd), UNCHANGED <<running, cmdQueue, accepted, broker>>,
         cmd.type = "publish" => ~InPool(cmd.of) /\ cmd.of \notin Contents(accepted)
  PROVE  OnceInOrder' /\ HeldOnce'
<1>1. PICK s \in Slots : /\ IsFree(s) /\ pool' = [pool EXCEPT ![s] = cmd]
                         /\ held' = [held EXCEPT ![c] = s]
  BY DEF TakeSlot, LowestFree
<1>2. /\ pool \in [Slots -> Command \cup {Free}] /\ held \in [Clients -> 0 .. QueueLen]
      /\ s # 0
  BY DEF IInv, AgentTypeOK, Slots
<1>3. s \notin Contents(Todo) /\ \A d \in Clients : held[d] # s
  <2>1. s \notin Contents(cmdQueue) /\ s # running /\ \A d \in Clients : held[d] # s
    BY <1>1 DEF IInv, Owned
  <2> QED
    BY <2>1, TodoOwned
<1>4. Contents(Todo) \subseteq Slots
  <2>1. Todo \in Seq(Slots)
    BY TodoType DEF TodoIsBoth
  <2> QED
    BY <2>1 DEF Contents
<1>5. OnceInOrder'
  BY <1>1, <1>2, <1>3, <1>4, SameTodo
<1>6. /\ held'[c] = s /\ pool'[s] = cmd
      /\ \A d \in Clients : d # c => /\ held'[d] = held[d]
                                     /\ held[d] # 0 => pool'[held[d]] = pool[held[d]]
  <2>1. \A d \in Clients : held[d] # 0 => held[d] \in Slots
    BY HeldApart
  <2> QED
    BY <1>1, <1>2, <1>3, <2>1
<1>7. \A d \in Clients : d # c => /\ Publishing(d)' <=> Publishing(d)
                                  /\ Publishing(d) => /\ pool'[held'[d]] = pool[held[d]]
                                                      /\ held[d] \in Slots
  BY <1>6, HeldApart DEF Publishing
<1>8. Publishing(c)' => cmd.type = "publish" /\ pool'[held'[c]].of = cmd.of
  BY <1>6 DEF Publishing
<1>9. ASSUME NEW d \in Clients, Publishing(d)' PROVE pool'[held'[d]].of \notin Contents(accepted')
  BY <1>7, <1>8, <1>9 DEF HeldOnce
<1>10. ASSUME NEW d \in Clients, NEW e \in Clients, Publishing(d)', Publishing(e)',
              pool'[held'[d]].of = pool'[held'[e]].of
       PROVE  d = e
  BY <1>7, <1>8, <1>10 DEF HeldOnce, InPool
<1> QED
  BY <1>5, <1>9, <1>10 DEF HeldOnce

LEMMA CallOrder ==
  ASSUME OnceInOrder, HeldOnce, IInv, IInv', NEW c \in Clients, Call(c)
  PROVE  OnceInOrder' /\ HeldOnce'
<1>1. ASSUME NEW m \in Messages, ~InPool(m), m \notin Contents(accepted), PublishAlloc(c, m)
      PROVE  OnceInOrder' /\ HeldOnce'
  <2> DEFINE cmd == [type |-> "publish", of |-> m, by |-> c]
  <2>1. cmd \in Command /\ cmd.of = m
    BY CommandMade
  <2>2. TakeSlot(c, cmd) /\ UNCHANGED <<running, cmdQueue, accepted, broker>>
    BY <1>1 DEF PublishAlloc, agentVars, netVars
  <2> HIDE DEF cmd
  <2> QED
    BY <1>1, <2>1, <2>2, TakeSlotOrder
<1>2. ASSUME NEW cmd \in Command, cmd.type # "publish", TakeSlot(c, cmd),
             UNCHANGED <<running, cmdQueue, accepted, broker>>
      PROVE  OnceInOrder' /\ HeldOnce'
  BY <1>2, TakeSlotOrder
<1>3. ASSUME NEW f \in Filters, SubscribeAlloc(c, f) PROVE OnceInOrder' /\ HeldOnce'
  BY <1>2, <1>3, CommandMade DEF SubscribeAlloc, agentVars, netVars
<1>4. CASE StatusAlloc(c) \/ StopAlloc(c)
  BY <1>2, <1>4, CommandMade DEF StatusAlloc, StopAlloc, agentVars, netVars
<1> QED
  BY <1>1, <1>3, <1>4, SendOrder DEF Call

(* The steps that are no call leave the calls in progress alone. *)
LEMMA HeldOnceKept ==
  ASSUME HeldOnce, UNCHANGED <<held, accepted>>,
         \A c \in Clients : held[c] # 0 => pool'[held[c]] = pool[held[c]]
  PROVE  HeldOnce'
BY DEF HeldOnce, Publishing

LEMMA AgentStepHeld == ASSUME HeldOnce, IInv, AgentStep PROVE HeldOnce'
<1>1. UNCHANGED <<held, accepted>>
  BY DEF AgentStep, Entry, StopIfRequested, TryConnect, Connected, ConnectFails, BackoffEnds,
         Receive, DoPublish, DoSubscribe, DoStatus, DoStop, ProcessAck, ProcessIdle, ProcessFails,
         TaskEnds, callVars
<1>2. \/ pool' = pool
      \/ pool' = [pool EXCEPT ![running] = Free] /\ at = "exec"
      \/ pool' = [pool EXCEPT ![Head(cmdQueue)] = Free] /\ cmdQueue # <<>>
  BY DEF AgentStep, Entry, StopIfRequested, StopAtHead, TryConnect, Connected, ConnectFails,
         BackoffEnds, Receive, DoPublish, DoSubscribe, DoStatus, DoStop, ProcessAck, ProcessIdle,
         ProcessFails, TaskEnds, FreeSlot, Executing, apiVars
<1>3. ASSUME NEW c \in Clients, held[c] # 0 PROVE pool'[held[c]] = pool[held[c]]
  <2>1. /\ held[c] \in Slots /\ held[c] # running /\ held[c] \notin Contents(cmdQueue)
        /\ pool \in [Slots -> Command \cup {Free}] /\ cmdQueue \in Seq(Slots)
    BY <1>3, HeldApart DEF IInv, Owned, AgentTypeOK
  <2>2. cmdQueue # <<>> => Head(cmdQueue) \in Contents(cmdQueue)
    <3>1. Unique(cmdQueue)
      BY DEF IInv, Owned
    <3> QED
      BY <2>1, <3>1, TailUnique
  <2> QED
    BY <1>2, <2>1, <2>2
<1> QED
  BY <1>1, <1>3, HeldOnceKept

LEMMA NextOrder ==
  ASSUME OnceInOrder, HeldOnce, IInv, IInv', [AgentNext]_agentSpecVars
  PROVE  OnceInOrder' /\ HeldOnce'
<1>1. CASE UNCHANGED agentSpecVars
  BY <1>1, SameTodo, HeldOnceKept DEF agentSpecVars, mqttVars
<1>2. CASE AgentNext
  <2>1. CASE \E c \in Clients : Call(c)
    BY <2>1, CallOrder
  <2>2. CASE (waiting = 0 /\ MqttAgent_Start) \/ StopReturns \/ StopTimesOut
    <3>1. UNCHANGED <<running, cmdQueue, accepted, broker, pool, held>>
      BY <2>2 DEF MqttAgent_Start, StopReturns, StopTimesOut, agentVars, apiVars, netVars, callVars
    <3> QED
      BY <3>1, SameTodo, HeldOnceKept
  <2>3. CASE Quiet /\ MqttAgent_Init
    <3>1. /\ running' = 0 /\ cmdQueue' = <<>> /\ UNCHANGED <<accepted, broker, held>>
          /\ \A c \in Clients : held[c] = 0
      BY <2>3 DEF Quiet, MqttAgent_Init, callVars, IInv, Control
    <3> QED
      BY <3>1, TodoEmptied, HeldOnceKept
  <2>4. CASE LinkDrops \/ ClosedSeen \/ OpenConnection
    <3>1. UNCHANGED <<accepted, pool, held>>
      BY <2>4 DEF LinkDrops, ClosedSeen, OpenConnection, apiVars, callVars
    <3> QED
      BY <2>4, <3>1, LinkOrder, HeldOnceKept
  <2>5. CASE AgentStep
    BY <2>5, AgentStepOrder, AgentStepHeld
  <2> QED
    BY <1>2, <2>1, <2>2, <2>3, <2>4, <2>5 DEF AgentNext
<1> QED
  BY <1>1, <1>2

LEMMA InitOrder == AgentInit => OnceInOrder /\ HeldOnce
<1> SUFFICES ASSUME AgentInit PROVE OnceInOrder /\ HeldOnce
  OBVIOUS
<1>1. /\ Todo = <<>> /\ broker = <<>> /\ accepted = <<>> /\ \A c \in Clients : held[c] = 0
  BY DEF AgentInit, Todo
<1>2. Pending = {} /\ Contents(broker) = {}
  BY <1>1 DEF Pending, Contents
<1>3. /\ \A m, n : ~Precedes(m, n, broker) /\ ~Precedes(m, n, accepted)
      /\ \A m, n : ~SentBefore(m, n)
  BY <1>1, <1>2 DEF Precedes, SentBefore
<1> QED
  BY <1>1, <1>2, <1>3 DEF OnceInOrder, HeldOnce, Publishing

-----------------------------------------------------------------------------
(* The theorems.                                                           *)

(* Every variable of the agent and of its callers keeps its type, for any  *)
(* number of callers and any length of the pool.                           *)
THEOREM TypeCorrect == AgentSpec => []AgentTypeOK
<1>1. IInv => AgentTypeOK
  BY DEF IInv
<1> QED
  BY <1>1, Invariance, PTL

(* MqttAgent_Stop succeeds only when the agent will do nothing more:       *)
(* stop_if_requested and drain_command_queue give the semaphore on the way *)
(* to vTaskDelete, and the agent starts again only when nobody waits.      *)
THEOREM StopIsFinal == AgentSpec => []StopMeansGone
BY InvStops, Invariance, PTL

(* The slot of a call is not in the queue, which has as many places as the *)
(* pool has slots: xQueueSend in MqttAgent_Publish, _Subscribe and _Stop   *)
(* never waits, whatever its timeout.                                      *)
THEOREM RoomForEverySend == AgentSpec => []SendNeverWaits
BY InvHasRoom, Invariance, PTL

(* pool_alloc, the queue of pointers and pool_free lose no slot and give   *)
(* none to two users: every slot in use is in exactly one place.           *)
THEOREM NoSlotLost == AgentSpec => []SlotsAccounted
BY InvAccounts, Invariance, PTL

(* A message that has reached the broker or is still to be sent was        *)
(* accepted, once, and before every one that comes after it, over retries, *)
(* reconnects and restarts: a call of MqttAgent_Publish fills its slot and *)
(* sends it in two steps, the queue of pointers and drain_command_queue    *)
(* keep the order of the second.                                           *)
THEOREM AcceptedOrderKept == AgentSpec => []OnceInOrder
<1> DEFINE OrderInv == IInv /\ OnceInOrder /\ HeldOnce
<1>1. AgentInit => OrderInv
  BY InitInv, InitOrder
<1>2. OrderInv /\ [AgentNext]_agentSpecVars => OrderInv'
  BY NextInv, NextOrder
<1>3. OrderInv => OnceInOrder
  OBVIOUS
<1> QED
  BY <1>1, <1>2, <1>3, PTL DEF AgentSpec
=============================================================================
