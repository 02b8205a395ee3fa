-------------------------- MODULE EventFanoutProofs --------------------------
(***************************************************************************)
(* Proofs about EventFanout, for every number of subscriptions and events  *)
(* and every capacity of the bus and of the sockets.                       *)
(***************************************************************************)
EXTENDS EventFanout, SequenceTheorems, TLAPS

Events == 1..MaxEvents

-----------------------------------------------------------------------------
(* Sequences, element by element. *)
LEMMA AppendElements ==
  ASSUME NEW S, NEW q \in Seq(S), NEW e \in S
  PROVE  /\ Append(q, e) \in Seq(S)
         /\ Len(Append(q, e)) = Len(q) + 1
         /\ Append(q, e)[Len(q) + 1] = e
         /\ \A i \in 1..Len(q) : Append(q, e)[i] = q[i]
  OBVIOUS

LEMMA TailElements ==
  ASSUME NEW S, NEW q \in Seq(S), q # << >>
  PROVE  /\ Len(q) \in Nat \ {0}
         /\ Head(q) \in S /\ Head(q) = q[1]
         /\ Tail(q) \in Seq(S)
         /\ Len(Tail(q)) = Len(q) - 1
         /\ \A i \in 1..Len(Tail(q)) : Tail(q)[i] = q[i + 1]
  OBVIOUS

LEMMA SumsAreNat == \A m, n \in Nat : m + n \in Nat
  OBVIOUS

LEMMA SumsAssociate == \A k, m, n \in Nat : (k + m) + n = k + (m + n)
  OBVIOUS

LEMMA OneMoves == \A k, m, n \in Nat : n # 0 => k + (m + 1) + (n - 1) = k + m + n
  OBVIOUS

LEMMA OneMore == \A k, m, n \in Nat : k + m = n => k + (m + 1) = n + 1
  OBVIOUS

(* The channel after an emit: the new event comes last, and the oldest one  *)
(* is gone when the channel was full.                                      *)
LEMMA EmitShape ==
  ASSUME TypeOK, BusOrder, Emit
  PROVE  /\ bus' \in Seq(Events)
         /\ Len(bus') \in 1..BusCapacity
         /\ bus'[Len(bus')] = emitted + 1
         /\ \/ /\ Len(bus) < BusCapacity /\ Len(bus') = Len(bus) + 1
               /\ \A i \in 1..Len(bus) : bus'[i] = bus[i]
            \/ /\ Len(bus) = BusCapacity /\ Len(bus') = Len(bus)
               /\ \A i \in 1..(Len(bus) - 1) : bus'[i] = bus[i + 1]
  <1>0. emitted + 1 \in Events /\ bus \in Seq(Events) /\ Len(bus) \in Nat /\ Len(bus) <= BusCapacity
    BY Capacities DEF TypeOK, Emit, Events
  <1>1. CASE Len(bus) < BusCapacity
    <2>1. bus' = Append(bus, emitted + 1)
      BY <1>1 DEF Emit
    <2>2. /\ bus' \in Seq(Events) /\ Len(bus') = Len(bus) + 1
          /\ bus'[Len(bus) + 1] = emitted + 1 /\ \A i \in 1..Len(bus) : bus'[i] = bus[i]
      BY <1>0, <2>1, AppendElements
    <2> QED
      BY <1>0, <1>1, <2>2, Capacities
  <1>2. CASE ~(Len(bus) < BusCapacity)
    <2>1. Len(bus) = BusCapacity /\ bus # << >>
      BY <1>0, <1>2, Capacities
    <2>2. bus' = Append(Tail(bus), emitted + 1)
      BY <1>2 DEF Emit
    <2>3. PICK t : t = Tail(bus)
      OBVIOUS
    <2>4. /\ t \in Seq(Events) /\ Len(t) = Len(bus) - 1
          /\ \A i \in 1..Len(t) : t[i] = bus[i + 1]
      BY <1>0, <2>1, <2>3, TailElements
    <2>5. /\ bus' \in Seq(Events) /\ Len(bus') = Len(t) + 1
          /\ bus'[Len(t) + 1] = emitted + 1 /\ \A i \in 1..Len(t) : bus'[i] = t[i]
      BY <1>0, <2>2, <2>3, <2>4, AppendElements
    <2> QED
      BY <1>0, <2>1, <2>4, <2>5, Capacities
  <1> QED
    BY <1>1, <1>2

(* The forwarder moves the oldest event from the channel to what was sent. *)
LEMMA ForwardShape ==
  ASSUME TypeOK, Forward
  PROVE  /\ Len(bus) \in Nat \ {0} /\ bus[1] \in Events
         /\ bus' \in Seq(Events) /\ Len(bus') = Len(bus) - 1
         /\ \A i \in 1..Len(bus') : bus'[i] = bus[i + 1]
         /\ sent' \in Seq(Events) /\ Len(sent') = Len(sent) + 1
         /\ sent'[Len(sent) + 1] = bus[1]
         /\ \A i \in 1..Len(sent) : sent'[i] = sent[i]
         /\ queue' = [s \in Subs |-> IF s \in senders THEN Append(queue[s], bus[1]) ELSE queue[s]]
  <1>1. bus \in Seq(Events) /\ bus # << >> /\ sent \in Seq(Events)
    BY DEF TypeOK, Forward, Events
  <1>2. Len(bus) \in Nat \ {0} /\ Head(bus) \in Events /\ Head(bus) = bus[1]
    BY <1>1, TailElements
  <1>3. bus' \in Seq(Events) /\ Len(bus') = Len(bus) - 1
        /\ \A i \in 1..Len(bus') : bus'[i] = bus[i + 1]
    BY <1>1, TailElements DEF Forward
  <1>4. sent' = Append(sent, bus[1])
    BY <1>2 DEF Forward
  <1>5. /\ sent' \in Seq(Events) /\ Len(sent') = Len(sent) + 1
        /\ sent'[Len(sent) + 1] = bus[1]
        /\ \A i \in 1..Len(sent) : sent'[i] = sent[i]
    BY <1>1, <1>2, <1>4, AppendElements
  <1> QED
    BY <1>2, <1>3, <1>5 DEF Forward

-----------------------------------------------------------------------------
(* The order on the bus is kept. *)
LEMMA EmitKeepsOrder ==
  ASSUME TypeOK, BusOrder, Emit
  PROVE  BusOrder'
  <1>0. /\ emitted \in Nat /\ Len(bus) \in Nat /\ Len(sent) \in Nat
        /\ \A i \in 1..Len(bus) : bus[i] \in Nat
        /\ \A i \in 1..Len(sent) : sent[i] \in Nat
        /\ emitted' = emitted + 1 /\ sent' = sent
    BY Capacities DEF TypeOK, Emit
  <1>1. PICK d \in {0, 1} :
          /\ Len(bus') = Len(bus) + 1 - d
          /\ d = 1 => Len(bus) = BusCapacity
          /\ bus'[Len(bus')] = emitted + 1
          /\ \A i \in 1..(Len(bus') - 1) : i + d \in 1..Len(bus) /\ bus'[i] = bus[i + d]
    <2>1. CASE /\ Len(bus) < BusCapacity /\ Len(bus') = Len(bus) + 1
               /\ \A i \in 1..Len(bus) : bus'[i] = bus[i]
      <3>1. \A i \in 1..(Len(bus') - 1) : i + 0 \in 1..Len(bus) /\ bus'[i] = bus[i + 0]
        BY <1>0, <2>1
      <3> QED
        BY <1>0, <2>1, <3>1, EmitShape
    <2>2. CASE /\ Len(bus) = BusCapacity /\ Len(bus') = Len(bus)
               /\ \A i \in 1..(Len(bus) - 1) : bus'[i] = bus[i + 1]
      <3>1. \A i \in 1..(Len(bus') - 1) : i + 1 \in 1..Len(bus) /\ bus'[i] = bus[i + 1]
        BY <1>0, <2>2
      <3> QED
        BY <1>0, <2>2, <3>1, EmitShape
    <2> QED
      BY <2>1, <2>2, EmitShape
  <1>2. \A i \in 1..Len(bus') : bus'[i] \in Nat /\ bus'[i] <= emitted + 1
    <2> TAKE i \in 1..Len(bus')
    <2>1. CASE i = Len(bus')
      BY <1>0, <1>1, <2>1
    <2>2. CASE i # Len(bus')
      <3>1. i \in 1..(Len(bus') - 1)
        BY <1>0, <1>1, <2>2
      <3> QED
        BY SMTT(20), <1>0, <1>1, <3>1 DEF BusOrder
    <2> QED
      BY <2>1, <2>2
  <1>3. \A i, j \in 1..Len(bus') : i < j => bus'[i] < bus'[j]
    <2> TAKE i, j \in 1..Len(bus')
    <2> HAVE i < j
    <2>1. i \in 1..(Len(bus') - 1)
      BY <1>0, <1>1
    <2>2. bus'[i] \in Nat /\ bus'[i] <= emitted
      BY <1>0, <1>1, <2>1 DEF BusOrder
    <2>3. CASE j = Len(bus')
      BY <1>0, <1>1, <2>2, <2>3
    <2>4. CASE j # Len(bus')
      <3>1. j \in 1..(Len(bus') - 1)
        <4>1. Len(bus') \in Nat /\ j \in 1..Len(bus')
          BY <1>0, <1>1
        <4> QED
          BY <2>4, <4>1
      <3>2. i + d \in 1..Len(bus) /\ j + d \in 1..Len(bus) /\ i + d < j + d
        BY <1>0, <1>1, <2>1, <3>1
      <3>3. bus[i + d] < bus[j + d]
        BY <3>2 DEF BusOrder
      <3> QED
        BY <1>1, <2>1, <3>1, <3>3
    <2> QED
      BY <2>3, <2>4
  <1>4. \A i \in 1..Len(sent), j \in 1..Len(bus') : sent[i] < bus'[j]
    <2> TAKE i \in 1..Len(sent), j \in 1..Len(bus')
    <2>1. CASE j = Len(bus')
      BY <1>0, <1>1, <2>1 DEF BusOrder
    <2>2. CASE j # Len(bus')
      <3>1. j \in 1..(Len(bus') - 1)
        BY <1>0, <1>1, <2>2
      <3> QED
        BY <1>0, <1>1, <3>1 DEF BusOrder
    <2> QED
      BY <2>1, <2>2
  <1>5. Len(sent) + Len(bus') <= emitted + 1
    BY <1>0, <1>1 DEF BusOrder
  <1>6. ASSUME emitted + 1 <= BusCapacity
        PROVE  /\ Len(sent) + Len(bus') = emitted + 1
               /\ \A i \in 1..Len(sent) : sent[i] = i
               /\ \A i \in 1..Len(bus') : bus'[i] = Len(sent) + i
    <2>1. emitted <= BusCapacity /\ Len(sent) + Len(bus) = emitted
      BY <1>0, <1>6, Capacities DEF BusOrder
    <2>2. d = 0
      BY <1>0, <1>1, <1>6, <2>1, Capacities
    <2>3. \A i \in 1..Len(bus') : bus'[i] = Len(sent) + i
      <3> TAKE i \in 1..Len(bus')
      <3>1. CASE i = Len(bus')
        <4>1. bus'[i] = emitted + 1
          BY <1>1, <3>1
        <4>2. i = Len(bus) + 1
          BY <1>0, <1>1, <2>2, <3>1
        <4>3. emitted + 1 = Len(sent) + (Len(bus) + 1)
          BY <1>0, <2>1
        <4> QED
          BY <4>1, <4>2, <4>3
      <3>2. CASE i # Len(bus')
        <4>1. i \in 1..(Len(bus') - 1)
          BY <1>0, <1>1, <3>2
        <4>2. i \in 1..Len(bus) /\ bus'[i] = bus[i]
          BY <1>0, <1>1, <2>2, <4>1
        <4> QED
          BY <2>1, <4>2 DEF BusOrder
      <3> QED
        BY <3>1, <3>2
    <2> QED
      BY <1>0, <1>1, <2>1, <2>2, <2>3 DEF BusOrder
  <1>7. \A i \in 1..Len(sent) : sent[i] <= emitted + 1
    BY <1>0 DEF BusOrder
  <1> QED
    BY <1>0, <1>2, <1>3, <1>4, <1>5, <1>6, <1>7 DEF BusOrder

LEMMA ForwardKeepsOrder ==
  ASSUME TypeOK, BusOrder, Forward
  PROVE  BusOrder'
  <1>0. /\ emitted \in Nat /\ Len(bus) \in Nat \ {0} /\ Len(sent) \in Nat
        /\ \A i \in 1..Len(bus) : bus[i] \in Nat
        /\ \A i \in 1..Len(sent) : sent[i] \in Nat
        /\ emitted' = emitted
    BY SMTT(20), Capacities, ForwardShape DEF TypeOK, Forward
  <1>1. /\ Len(bus') = Len(bus) - 1 /\ Len(sent') = Len(sent) + 1
        /\ \A i \in 1..Len(bus') : i + 1 \in 1..Len(bus) /\ bus'[i] = bus[i + 1]
    BY <1>0, ForwardShape
  <1>2. \A i \in 1..Len(sent') : \/ i = Len(sent) + 1 /\ sent'[i] = bus[1]
                                 \/ i \in 1..Len(sent) /\ sent'[i] = sent[i]
    BY <1>0, ForwardShape
  <1>3. \A i \in 1..Len(bus') : bus'[i] \in Nat /\ bus'[i] <= emitted
    BY <1>0, <1>1 DEF BusOrder
  <1>4. \A i \in 1..Len(sent') : sent'[i] \in Nat /\ sent'[i] <= emitted
    <2> TAKE i \in 1..Len(sent')
    <2>1. CASE i = Len(sent) + 1 /\ sent'[i] = bus[1]
      BY <1>0, <2>1 DEF BusOrder
    <2>2. CASE i \in 1..Len(sent) /\ sent'[i] = sent[i]
      BY <1>0, <2>2 DEF BusOrder
    <2> QED
      BY <1>2, <2>1, <2>2
  <1>5. \A i, j \in 1..Len(sent') : i < j => sent'[i] < sent'[j]
    <2> TAKE i, j \in 1..Len(sent')
    <2> HAVE i < j
    <2>1. i \in 1..Len(sent) /\ sent'[i] = sent[i]
      BY <1>0, <1>1, <1>2
    <2>2. CASE j = Len(sent) + 1 /\ sent'[j] = bus[1]
      BY <1>0, <2>1, <2>2 DEF BusOrder
    <2>3. CASE j \in 1..Len(sent) /\ sent'[j] = sent[j]
      BY <1>0, <2>1, <2>3 DEF BusOrder
    <2> QED
      BY <1>2, <2>2, <2>3
  <1>6. \A i, j \in 1..Len(bus') : i < j => bus'[i] < bus'[j]
    <2> TAKE i, j \in 1..Len(bus')
    <2> HAVE i < j
    <2>1. i + 1 \in 1..Len(bus) /\ j + 1 \in 1..Len(bus) /\ i + 1 < j + 1
      BY <1>0, <1>1
    <2>2. bus[i + 1] < bus[j + 1]
      BY <2>1 DEF BusOrder
    <2> QED
      BY <1>1, <2>2
  <1>7. \A i \in 1..Len(sent'), j \in 1..Len(bus') : sent'[i] < bus'[j]
    <2> TAKE i \in 1..Len(sent'), j \in 1..Len(bus')
    <2>1. j + 1 \in 1..Len(bus) /\ bus'[j] = bus[j + 1] /\ 1 < j + 1 /\ 1 \in 1..Len(bus)
      BY <1>0, <1>1
    <2>2. bus[1] < bus[j + 1]
      BY <2>1 DEF BusOrder
    <2>3. CASE i = Len(sent) + 1 /\ sent'[i] = bus[1]
      BY <2>1, <2>2, <2>3
    <2>4. CASE i \in 1..Len(sent) /\ sent'[i] = sent[i]
      BY <2>1, <2>4 DEF BusOrder
    <2> QED
      BY <1>2, <2>3, <2>4
  <1>8. ASSUME emitted <= BusCapacity
        PROVE  /\ Len(sent') + Len(bus') = emitted
               /\ \A i \in 1..Len(sent') : sent'[i] = i
               /\ \A i \in 1..Len(bus') : bus'[i] = Len(sent') + i
    <2>1. /\ Len(sent) + Len(bus) = emitted
          /\ \A i \in 1..Len(sent) : sent[i] = i
          /\ \A i \in 1..Len(bus) : bus[i] = Len(sent) + i
      BY <1>8 DEF BusOrder
    <2>2. \A i \in 1..Len(bus') : bus'[i] = Len(sent') + i
      <3> TAKE i \in 1..Len(bus')
      <3>1. i + 1 \in 1..Len(bus) /\ bus'[i] = bus[i + 1]
        BY <1>1
      <3>2. bus[i + 1] = Len(sent) + (i + 1)
        BY <2>1, <3>1
      <3> QED
        BY <1>0, <1>1, <3>1, <3>2
    <2>3. \A i \in 1..Len(sent') : sent'[i] = i
      <3> TAKE i \in 1..Len(sent')
      <3>1. bus[1] = Len(sent) + 1
        BY <1>0, <2>1
      <3> QED
        BY <1>0, <1>2, <2>1, <3>1
    <2> QED
      BY <1>0, <1>1, <2>1, <2>2, <2>3
  <1>9. Len(sent') + Len(bus') <= emitted
    BY <1>0, <1>1 DEF BusOrder
  <1> QED
    BY <1>0, <1>3, <1>4, <1>5, <1>6, <1>7, <1>8, <1>9 DEF BusOrder

LEMMA BusOrderStep ==
  ASSUME TypeOK, BusOrder, [Next]_vars
  PROVE  BusOrder'
  <1>1. CASE UNCHANGED <<emitted, bus, sent>>
    BY <1>1 DEF BusOrder
  <1> QED
    BY <1>1, EmitKeepsOrder, ForwardKeepsOrder DEF Next, Subscribe, Serve, Ack, Probe, Push, Leave,
       Receive, Unsubscribe, RestArrives, GoAway, bussed, vars

-----------------------------------------------------------------------------
(* Type correctness is preserved. *)
LEMMA TypeStep ==
  ASSUME TypeOK, BusOrder, [Next]_vars
  PROVE  TypeOK'
  <1> USE DEF TypeOK, Events
  <1>0. Len(sent) \in 0..MaxEvents
    BY Capacities DEF BusOrder
  <1>1. CASE Emit
    <2>1. bus' \in Seq(Events) /\ Len(bus') <= BusCapacity /\ emitted' \in 0..MaxEvents
      BY <1>1, EmitShape, Capacities DEF Emit
    <2> QED
      BY <1>1, <2>1 DEF Emit, peer
  <1>2. CASE Forward
    <2>1. /\ bus' \in Seq(Events) /\ Len(bus') <= BusCapacity
          /\ sent' \in Seq(Events)
      BY <1>2, ForwardShape, Capacities
    <2>2. queue' \in [Subs -> Seq(Events)]
      <3>1. bus[1] \in Events
        BY <1>2, ForwardShape
      <3>2. \A s \in Subs : Append(queue[s], bus[1]) \in Seq(Events)
        BY <3>1, AppendElements
      <3>3. queue' = [s \in Subs |-> IF s \in senders THEN Append(queue[s], bus[1]) ELSE queue[s]]
        BY <1>2, ForwardShape
      <3> QED
        BY <3>2, <3>3
    <2> QED
      BY <1>2, <2>1, <2>2 DEF Forward, peer
  <1>3. ASSUME NEW s \in Subs, Subscribe(s) \/ Ack(s) \/ Probe(s) \/ Leave(s)
        PROVE  TypeOK'
    <2>1. CASE Subscribe(s)
      BY <2>1 DEF Subscribe, Goto, Threads, bussed
    <2>2. CASE Ack(s)
      <3>1. thread' \in [Subs -> Threads]
        BY <2>2 DEF Ack, Goto, Threads
      <3>2. ackedAt' \in [Subs -> 0..MaxEvents]
        BY <1>0, <2>2 DEF Ack
      <3> QED
        BY <2>2, <3>1, <3>2 DEF Ack, bussed, peer
    <2>3. CASE Probe(s)
      BY <2>3 DEF Probe, Goto, Threads, bussed
    <2>4. CASE Leave(s)
      BY <2>4 DEF Leave, Goto, Threads, bussed, peer
    <2> QED
      BY <1>3, <2>1, <2>2, <2>3, <2>4
  <1>4. ASSUME NEW s \in Subs, Push(s) PROVE TypeOK'
    <2>1. thread' \in [Subs -> Threads]
      BY <1>4 DEF Push, Goto, Threads
    <2>2. queue' \in [Subs -> Seq(Events)]
      <3>1. CASE queue[s] = << >>
        BY <1>4, <3>1 DEF Push
      <3>2. CASE queue[s] # << >>
        <4>1. Tail(queue[s]) \in Seq(Events) /\ queue' = [queue EXCEPT ![s] = Tail(@)]
          BY <1>4, <3>2, TailElements DEF Push
        <4> QED
          BY <4>1
      <3> QED
        BY <3>1, <3>2
    <2>3. wire' \in [Subs -> Seq(Events)] /\ \A t \in Subs : Len(wire'[t]) <= SockCapacity
      <3>1. CASE wire' = wire
        BY <3>1
      <3>2. CASE wire' # wire
        <4>1. /\ queue[s] # << >> /\ Len(wire[s]) < SockCapacity
              /\ wire' = [wire EXCEPT ![s] = Append(@, Head(queue[s]))]
          BY <1>4, <3>2 DEF Push
        <4>2. Head(queue[s]) \in Events
          BY <4>1, TailElements
        <4>3. /\ Append(wire[s], Head(queue[s])) \in Seq(Events)
              /\ Len(Append(wire[s], Head(queue[s]))) = Len(wire[s]) + 1
          BY <4>2, AppendElements
        <4>4. wire' \in [Subs -> Seq(Events)]
          BY <4>1, <4>3
        <4>5. Len(wire'[s]) <= SockCapacity
          BY <4>1, <4>3, Capacities
        <4>6. \A t \in Subs : t # s => wire'[t] = wire[t]
          BY <4>1
        <4> QED
          BY <4>4, <4>5, <4>6
      <3> QED
        BY <3>1, <3>2
    <2> QED
      BY <1>4, <2>1, <2>2, <2>3 DEF Push, bussed
  <1>5. ASSUME NEW s \in Subs, Receive(s) PROVE TypeOK'
    <2>1. /\ Head(wire[s]) \in Events /\ Tail(wire[s]) \in Seq(Events)
          /\ Len(Tail(wire[s])) = Len(wire[s]) - 1
      BY <1>5, TailElements DEF Receive
    <2>2. got' \in [Subs -> Seq(Events)]
      BY <1>5, <2>1, AppendElements DEF Receive
    <2>3. wire' = [wire EXCEPT ![s] = Tail(@)]
      BY <1>5 DEF Receive
    <2>4. wire' \in [Subs -> Seq(Events)]
      BY <2>1, <2>3
    <2>5. wire'[s] = Tail(wire[s]) /\ \A t \in Subs : t # s => wire'[t] = wire[t]
      BY <2>3
    <2>6. Len(wire'[s]) <= SockCapacity
      BY <2>1, <2>5, Capacities
    <2> QED
      BY <1>5, <2>2, <2>4, <2>5, <2>6 DEF Receive, bussed
  <1>6. ASSUME NEW s \in Subs, Unsubscribe(s) \/ RestArrives(s) \/ GoAway(s) PROVE TypeOK'
    BY <1>6 DEF Unsubscribe, RestArrives, GoAway, bussed
  <1>7. CASE UNCHANGED vars
    BY <1>7 DEF vars
  <1> QED
    BY <1>1, <1>2, <1>3, <1>4, <1>5, <1>6, <1>7 DEF Next, Serve

-----------------------------------------------------------------------------
(* Segments of what was sent. *)
LEMMA SegmentEmpty ==
  ASSUME NEW log \in Seq(Events), NEW a \in 0..Len(log)
  PROVE  Segment(log, << >>, a)
  BY DEF Segment

(* A longer log has the same segments. *)
LEMMA SegmentGrows ==
  ASSUME NEW log \in Seq(Events), NEW q \in Seq(Events), NEW a \in Nat, Segment(log, q, a),
         NEW e \in Events
  PROVE  Segment(Append(log, e), q, a)
  <1>1. PICK n : n = Append(log, e)
    OBVIOUS
  <1>2. Len(n) = Len(log) + 1 /\ \A i \in 1..Len(log) : n[i] = log[i]
    BY <1>1, AppendElements
  <1>3. Len(q) \in Nat /\ Len(log) \in Nat /\ a + Len(q) <= Len(log)
    BY DEF Segment
  <1>4. \A i \in 1..Len(q) : n[a + i] = q[i]
    <2> TAKE i \in 1..Len(q)
    <2>1. a + i \in 1..Len(log)
      BY <1>3
    <2> QED
      BY <1>2, <2>1 DEF Segment
  <1> QED
    BY <1>1, <1>2, <1>3, <1>4 DEF Segment

(* A segment that reaches the end of the log grows with it. *)
LEMMA SegmentFollows ==
  ASSUME NEW log \in Seq(Events), NEW q \in Seq(Events), NEW a \in Nat, Segment(log, q, a),
         a + Len(q) = Len(log), NEW e \in Events
  PROVE  Segment(Append(log, e), Append(q, e), a)
  <1>1. PICK n, r : n = Append(log, e) /\ r = Append(q, e)
    OBVIOUS
  <1>2. /\ Len(n) = Len(log) + 1 /\ n[Len(log) + 1] = e
        /\ Len(r) = Len(q) + 1 /\ r[Len(q) + 1] = e
        /\ \A i \in 1..Len(q) : r[i] = q[i]
    BY <1>1, AppendElements
  <1>3. Len(q) \in Nat /\ Len(log) \in Nat
    OBVIOUS
  <1>4. \A i \in 1..Len(q) : n[a + i] = q[i]
    BY <1>1, SegmentGrows DEF Segment
  <1>5. \A i \in 1..Len(r) : n[a + i] = r[i]
    <2> TAKE i \in 1..Len(r)
    <2>1. CASE i = Len(q) + 1
      <3>1. a + i = Len(log) + 1
        BY <1>3, <2>1
      <3> QED
        BY <1>2, <2>1, <3>1
    <2>2. CASE i # Len(q) + 1
      <3>1. i \in 1..Len(q)
        BY <1>2, <1>3, <2>2
      <3> QED
        BY <1>2, <1>4, <3>1
    <2> QED
      BY <2>1, <2>2
  <1>6. a + Len(r) <= Len(n)
    BY <1>2, <1>3
  <1> QED
    BY <1>1, <1>5, <1>6 DEF Segment

(* The first event of a segment moves to the end of the segment before it. *)
LEMMA SegmentMoves ==
  ASSUME NEW log \in Seq(Events), NEW q \in Seq(Events), NEW r \in Seq(Events), NEW a \in Nat,
         Segment(log, q, a), Segment(log, r, a + Len(q)), r # << >>
  PROVE  /\ Segment(log, Append(q, Head(r)), a)
         /\ Segment(log, Tail(r), a + Len(Append(q, Head(r))))
         /\ a + Len(q) + 1 \in 1..Len(log)
         /\ log[a + Len(q) + 1] = Head(r)
  <1>1. PICK u, v : u = Append(q, Head(r)) /\ v = Tail(r)
    OBVIOUS
  <1>2. /\ Len(r) \in Nat \ {0} /\ Head(r) \in Events /\ Head(r) = r[1]
        /\ v \in Seq(Events) /\ Len(v) = Len(r) - 1
        /\ \A i \in 1..Len(v) : v[i] = r[i + 1]
    BY <1>1, TailElements
  <1>3. /\ Len(u) = Len(q) + 1 /\ u[Len(q) + 1] = r[1]
        /\ \A i \in 1..Len(q) : u[i] = q[i]
    BY <1>1, <1>2, AppendElements
  <1>4. /\ Len(q) \in Nat /\ Len(log) \in Nat
        /\ a + Len(q) + Len(r) <= Len(log)
        /\ \A i \in 1..Len(q) : log[a + i] = q[i]
        /\ \A i \in 1..Len(r) : log[(a + Len(q)) + i] = r[i]
    <2>1. Len(q) \in Nat /\ Len(log) \in Nat
      OBVIOUS
    <2>2. /\ (a + Len(q)) + Len(r) <= Len(log)
          /\ \A i \in 1..Len(q) : log[a + i] = q[i]
          /\ \A i \in 1..Len(r) : log[(a + Len(q)) + i] = r[i]
      BY Zenon DEF Segment
    <2> QED
      BY <2>1, <2>2, Zenon
  <1>5. log[(a + Len(q)) + 1] = r[1]
    BY <1>2, <1>4
  <1>6. \A i \in 1..Len(u) : log[a + i] = u[i]
    <2> TAKE i \in 1..Len(u)
    <2>1. CASE i = Len(q) + 1
      <3>1. a + i = (a + Len(q)) + 1
        BY <1>4, <2>1
      <3> QED
        BY <1>3, <1>5, <2>1, <3>1
    <2>2. CASE i # Len(q) + 1
      <3>1. i \in 1..Len(q)
        BY <1>3, <1>4, <2>2
      <3> QED
        BY <1>3, <1>4, <3>1
    <2> QED
      BY <2>1, <2>2
  <1>7. \A i \in 1..Len(v) : log[(a + Len(u)) + i] = v[i]
    <2> TAKE i \in 1..Len(v)
    <2>1. i + 1 \in 1..Len(r) /\ (a + Len(q)) + (i + 1) = (a + Len(u)) + i
      BY <1>2, <1>3, <1>4
    <2>2. log[(a + Len(q)) + (i + 1)] = r[i + 1]
      BY <1>4, <2>1
    <2> QED
      BY <1>2, <2>1, <2>2
  <1>8. a + Len(u) <= Len(log) /\ (a + Len(u)) + Len(v) <= Len(log)
    BY <1>2, <1>3, <1>4
  <1>9. Segment(log, u, a) /\ Segment(log, v, a + Len(u))
    BY <1>6, <1>7, <1>8 DEF Segment
  <1>10. a + Len(q) + 1 \in 1..Len(log)
    BY <1>2, <1>4
  <1> QED
    BY <1>1, <1>2, <1>5, <1>9, <1>10

-----------------------------------------------------------------------------
(* StreamOK, one action at a time. *)

(* A subscription that a step does not touch. *)
LEMMA StreamKeeps ==
  ASSUME NEW s \in Subs, StreamOK(s), sent' = sent, s \in senders' <=> s \in senders,
         queue'[s] = queue[s], thread'[s] = thread[s], ackedAt'[s] = ackedAt[s],
         wire'[s] = wire[s], got'[s] = got[s]
  PROVE  StreamOK(s)'
  BY DEF StreamOK, Placed

(* A broadcast reaches every registered sender. *)
LEMMA ForwardKeepsStreams ==
  ASSUME TypeOK, Forward, NEW s \in Subs, StreamOK(s)
  PROVE  StreamOK(s)'
  <1>0. PICK e \in Events :
          /\ sent' = Append(sent, e)
          /\ queue'[s] = IF s \in senders THEN Append(queue[s], e) ELSE queue[s]
    <2>1. bus \in Seq(Events) /\ bus # << >>
      BY DEF TypeOK, Forward, Events
    <2>2. Head(bus) \in Events
      BY <2>1, TailElements
    <2> QED
      BY <2>2 DEF Forward
  <1>1. UNCHANGED <<senders, thread, ackedAt, wire, got>>
    BY DEF Forward, peer
  <1>2. /\ sent \in Seq(Events) /\ queue[s] \in Seq(Events) /\ got[s] \in Seq(Events)
        /\ wire[s] \in Seq(Events) /\ ackedAt[s] \in Nat
    BY DEF TypeOK, Events
  <1>3. /\ Len(sent') = Len(sent) + 1
        /\ Len(sent) \in Nat /\ Len(queue[s]) \in Nat
        /\ Len(got[s]) \in Nat /\ Len(wire[s]) \in Nat
    BY <1>0, <1>2, AppendElements, LenProperties
  <1>4. thread[s] \in {"ack", "probe", "push"} =>
          queue'[s] = Append(queue[s], e) /\ Len(queue'[s]) = Len(queue[s]) + 1
    BY <1>0, <1>2, AppendElements DEF StreamOK
  <1>5. ASSUME thread[s] = "ack"
        PROVE  /\ Len(queue'[s]) <= Len(sent')
               /\ Segment(sent', queue'[s], Len(sent') - Len(queue'[s]))
    <2>0. Len(sent) - Len(queue[s]) \in Nat
      BY <1>3, <1>5 DEF StreamOK
    <2>1. PICK a \in Nat : a = Len(sent) - Len(queue[s])
      BY <2>0
    <2>2. Segment(sent, queue[s], a) /\ a + Len(queue[s]) = Len(sent)
      BY <1>3, <1>5, <2>1 DEF StreamOK
    <2>3. Segment(sent', queue'[s], a)
      BY <1>0, <1>2, <1>4, <1>5, <2>2, SegmentFollows
    <2>4. a = Len(sent') - Len(queue'[s]) /\ Len(queue'[s]) <= Len(sent')
      BY SMTT(20), <1>3, <1>4, <1>5, <2>2
    <2> QED
      BY <2>3, <2>4
  <1>6. PICK a \in 0..ackedAt[s] : Placed(s, a)
    BY DEF StreamOK
  <1>7. a \in Nat /\ a + Len(got[s]) \in Nat /\ a + Len(got[s]) + Len(wire[s]) \in Nat
    <2>1. a \in Nat
      BY <1>2
    <2> QED
      BY <1>3, <2>1, SumsAreNat, Zenon
  <1>8. /\ Segment(sent', got[s], a)
        /\ Segment(sent', wire[s], a + Len(got[s]))
    <2>1. Segment(sent, got[s], a) /\ Segment(sent, wire[s], a + Len(got[s]))
      BY <1>6 DEF Placed
    <2>2. a + Len(got[s]) \in Nat
      BY <1>7
    <2> QED
      BY <1>0, <1>2, <1>7, <2>1, <2>2, SegmentGrows
  <1>9. ASSUME thread[s] \in {"probe", "push"}
        PROVE  /\ Segment(sent', queue'[s], a + Len(got[s]) + Len(wire[s]))
               /\ a + Len(got[s]) + Len(wire[s]) + Len(queue'[s]) = Len(sent')
    <2>1. PICK b \in Nat : b = a + Len(got[s]) + Len(wire[s])
      BY <1>7
    <2>2. Segment(sent, queue[s], b) /\ b + Len(queue[s]) = Len(sent)
      BY <1>6, <1>9, <2>1 DEF Placed
    <2>3. Segment(sent', queue'[s], b)
      BY <1>0, <1>2, <1>4, <1>9, <2>2, SegmentFollows
    <2>4. b + Len(queue'[s]) = Len(sent')
      <3>1. Len(queue'[s]) = Len(queue[s]) + 1
        BY <1>4, <1>9
      <3>2. b + (Len(queue[s]) + 1) = Len(sent) + 1
        BY <1>3, <2>2, OneMore
      <3>3. Len(sent') = Len(sent) + 1
        BY <1>3
      <3> QED
        BY <3>1, <3>2, <3>3, Zenon
    <2> QED
      BY <2>1, <2>3, <2>4
  <1>10. Placed(s, a)'
    BY <1>1, <1>8, <1>9 DEF Placed
  <1>11. thread[s] = "none" => queue'[s] = queue[s]
    BY <1>0 DEF StreamOK
  <1> QED
    BY <1>1, <1>5, <1>6, <1>10, <1>11 DEF StreamOK

LEMMA AckKeepsStream ==
  ASSUME TypeOK, NEW s \in Subs, Ack(s), StreamOK(s)
  PROVE  StreamOK(s)'
  <1>0. /\ sent \in Seq(Events) /\ queue[s] \in Seq(Events) /\ thread[s] = "ack"
        /\ got[s] = << >> /\ wire[s] = << >>
        /\ UNCHANGED <<sent, senders, queue, wire, got>>
        /\ ackedAt[s] \in Nat
    BY DEF TypeOK, Events, Ack, StreamOK, bussed, peer
  <1>1. CASE client[s] = "gone"
    <2>1. thread'[s] = "leave" /\ ackedAt' = ackedAt
      BY <1>1 DEF Ack, Goto, TypeOK
    <2>2. (\E a \in 0..ackedAt[s] : Placed(s, a))'
      BY <1>0, <2>1 DEF StreamOK, Placed
    <2> QED
      BY <1>0, <2>1, <2>2 DEF StreamOK
  <1>2. CASE client[s] # "gone"
    <2>1. thread'[s] = "probe" /\ ackedAt'[s] = Len(sent)
      BY <1>2 DEF Ack, Goto, TypeOK
    <2>2. PICK a \in 0..Len(sent) : a = Len(sent) - Len(queue[s])
      BY <1>0 DEF StreamOK
    <2>3. Segment(sent, queue[s], a) /\ a + Len(queue[s]) = Len(sent)
      BY <1>0, <2>2 DEF StreamOK
    <2>4. Len(got[s]) = 0 /\ Len(wire[s]) = 0
      BY <1>0
    <2>5. Segment(sent, got[s], a) /\ Segment(sent, wire[s], a)
      BY <1>0, <2>2, SegmentEmpty
    <2>6. a + 0 = a /\ a + 0 + 0 = a
      BY <2>2
    <2>7. Placed(s, a)'
      BY <1>0, <2>3, <2>4, <2>5, <2>6 DEF Placed
    <2> QED
      BY <1>0, <2>1, <2>2, <2>7 DEF StreamOK
  <1> QED
    BY <1>1, <1>2

(* An event moves from the queue to the wire, or the stream ends. *)
LEMMA PushKeepsStream ==
  ASSUME TypeOK, NEW s \in Subs, Push(s), StreamOK(s)
  PROVE  StreamOK(s)'
  <1>0. /\ sent \in Seq(Events) /\ queue[s] \in Seq(Events) /\ got[s] \in Seq(Events)
        /\ wire[s] \in Seq(Events) /\ ackedAt[s] \in Nat /\ thread[s] = "push"
        /\ UNCHANGED <<sent, senders, ackedAt, got>>
        /\ s \in senders
    BY DEF TypeOK, Events, Push, StreamOK, bussed
  <1>1. PICK a \in 0..ackedAt[s] : Placed(s, a)
    BY DEF StreamOK
  <1>2. Len(got[s]) \in Nat /\ Len(wire[s]) \in Nat /\ Len(queue[s]) \in Nat
    BY <1>0, LenProperties
  <1>3. a \in Nat
    BY <1>0
  <1>4. a + Len(got[s]) \in Nat /\ a + Len(got[s]) + Len(wire[s]) \in Nat
    BY <1>2, <1>3, SumsAreNat, Zenon
  <1>5. CASE UNCHANGED wire /\ thread'[s] = "leave"
    <2>1. Placed(s, a)'
      BY <1>0, <1>1, <1>5 DEF Placed
    <2> QED
      BY <1>0, <1>5, <2>1 DEF StreamOK
  <1>6. CASE UNCHANGED <<wire, queue>> /\ thread'[s] = "probe"
    <2>1. Placed(s, a)'
      BY <1>0, <1>1, <1>6 DEF Placed
    <2> QED
      BY <1>0, <1>6, <2>1 DEF StreamOK
  <1>7. CASE /\ queue[s] # << >> /\ thread'[s] = "probe"
             /\ queue'[s] = Tail(queue[s]) /\ wire'[s] = Append(wire[s], Head(queue[s]))
    <2>1. PICK b \in Nat : b = a + Len(got[s])
      BY <1>4
    <2>2. /\ Segment(sent, wire[s], b) /\ Segment(sent, queue[s], b + Len(wire[s]))
          /\ b + Len(wire[s]) + Len(queue[s]) = Len(sent)
      BY <1>0, <1>1, <2>1 DEF Placed
    <2>3. Segment(sent, wire'[s], b) /\ Segment(sent, queue'[s], b + Len(wire'[s]))
      <3>1. /\ Segment(sent, Append(wire[s], Head(queue[s])), b)
            /\ Segment(sent, Tail(queue[s]), b + Len(Append(wire[s], Head(queue[s]))))
        BY <1>0, <1>7, <2>2, SegmentMoves
      <3> QED
        BY <1>7, <3>1, Zenon
    <2>4. Len(queue'[s]) = Len(queue[s]) - 1 /\ Len(queue[s]) \in Nat \ {0}
      BY <1>0, <1>7, TailElements
    <2>5. Head(queue[s]) \in Events
      BY <1>0, <1>7, TailElements
    <2>6. Len(wire'[s]) = Len(wire[s]) + 1
      BY <1>0, <1>7, <2>5, AppendElements
    <2>7. b + Len(wire'[s]) + Len(queue'[s]) = Len(sent)
      <3>1. b + (Len(wire[s]) + 1) + (Len(queue[s]) - 1) = b + Len(wire[s]) + Len(queue[s])
        BY <1>2, <2>4, OneMoves
      <3> QED
        BY <2>2, <2>4, <2>6, <3>1, Zenon
    <2>8. Segment(sent, got[s], a)
      BY <1>1 DEF Placed
    <2>9. Placed(s, a)'
      BY <1>0, <2>1, <2>3, <2>7, <2>8 DEF Placed
    <2> QED
      BY <1>0, <1>7, <2>9 DEF StreamOK
  <1> QED
    BY <1>0, <1>5, <1>6, <1>7 DEF Push, Goto, TypeOK

(* An event moves from the wire to the client. *)
LEMMA ReceiveKeepsStream ==
  ASSUME TypeOK, NEW s \in Subs, Receive(s), StreamOK(s)
  PROVE  StreamOK(s)'
  <1>0. /\ sent \in Seq(Events) /\ queue[s] \in Seq(Events) /\ got[s] \in Seq(Events)
        /\ wire[s] \in Seq(Events) /\ ackedAt[s] \in Nat /\ wire[s] # << >>
        /\ thread[s] \notin {"none", "ack"}
        /\ got'[s] = Append(got[s], Head(wire[s])) /\ wire'[s] = Tail(wire[s])
        /\ UNCHANGED <<sent, senders, queue, thread, ackedAt>>
    BY DEF TypeOK, Events, Receive, StreamOK, bussed
  <1>1. PICK a \in 0..ackedAt[s] : Placed(s, a)
    BY DEF StreamOK
  <1>2. Len(got[s]) \in Nat /\ Len(wire[s]) \in Nat /\ Len(queue[s]) \in Nat
    BY <1>0, LenProperties
  <1>3. a \in Nat
    BY <1>0
  <1>4. Segment(sent, got[s], a) /\ Segment(sent, wire[s], a + Len(got[s]))
    BY <1>1 DEF Placed
  <1>5. Segment(sent, got'[s], a) /\ Segment(sent, wire'[s], a + Len(got'[s]))
    <2>1. /\ Segment(sent, Append(got[s], Head(wire[s])), a)
          /\ Segment(sent, Tail(wire[s]), a + Len(Append(got[s], Head(wire[s]))))
      BY <1>0, <1>3, <1>4, SegmentMoves
    <2> QED
      BY <1>0, <2>1, Zenon
  <1>6. Head(wire[s]) \in Events /\ Len(wire'[s]) = Len(wire[s]) - 1
    BY <1>0, TailElements
  <1>7. Len(got'[s]) = Len(got[s]) + 1
    BY <1>0, <1>6, AppendElements
  <1>8. a + Len(got'[s]) + Len(wire'[s]) = a + Len(got[s]) + Len(wire[s])
    <2>1. Len(wire[s]) # 0
      BY <1>0, TailElements
    <2>2. a + (Len(got[s]) + 1) + (Len(wire[s]) - 1) = a + Len(got[s]) + Len(wire[s])
      BY <1>2, <1>3, <2>1, OneMoves
    <2> QED
      BY <1>6, <1>7, <2>2, Zenon
  <1>9. Placed(s, a)'
    BY <1>0, <1>1, <1>5, <1>8 DEF Placed
  <1> QED
    BY <1>0, <1>9 DEF StreamOK

LEMMA StreamStep ==
  ASSUME TypeOK, [Next]_vars, NEW s \in Subs, StreamOK(s)
  PROVE  StreamOK(s)'
  <1> USE DEF TypeOK
  <1>1. CASE Forward
    BY <1>1, ForwardKeepsStreams
  <1>2. ASSUME NEW t \in Subs, Subscribe(t) PROVE StreamOK(s)'
    <2>1. CASE t = s
      <3>1. /\ thread[s] = "none" /\ thread'[s] = "ack" /\ senders' = senders \cup {s}
            /\ UNCHANGED <<sent, queue, ackedAt, wire, got>>
        BY <1>2, <2>1 DEF Subscribe, Goto, bussed
      <3>2. queue[s] = << >> /\ Len(queue[s]) = 0 /\ sent \in Seq(Events) /\ Len(sent) \in Nat
        BY <3>1 DEF StreamOK, Events
      <3>3. Segment(sent, queue[s], Len(sent) - Len(queue[s]))
        BY <3>2, SegmentEmpty
      <3>4. PICK a \in 0..ackedAt[s] : Placed(s, a)
        BY DEF StreamOK
      <3>5. Placed(s, a)'
        BY <3>1, <3>4 DEF Placed
      <3> QED
        BY <3>1, <3>2, <3>3, <3>5 DEF StreamOK
    <2>2. CASE t # s
      BY <1>2, <2>2, StreamKeeps DEF Subscribe, Goto, bussed
    <2> QED
      BY <2>1, <2>2
  <1>3. ASSUME NEW t \in Subs, Ack(t) \/ Push(t) \/ Receive(t) PROVE StreamOK(s)'
    <2>1. CASE t = s
      BY <1>3, <2>1, AckKeepsStream, PushKeepsStream, ReceiveKeepsStream
    <2>2. CASE t # s
      <3>1. CASE Ack(t)
        BY <2>2, <3>1, StreamKeeps DEF Ack, Goto, bussed, peer
      <3>2. CASE Push(t)
        BY <2>2, <3>2, StreamKeeps DEF Push, Goto, bussed
      <3>3. CASE Receive(t)
        BY <2>2, <3>3, StreamKeeps DEF Receive, bussed
      <3> QED
        BY <1>3, <3>1, <3>2, <3>3
    <2> QED
      BY <2>1, <2>2
  <1>4. ASSUME NEW t \in Subs, Probe(t) \/ Leave(t) PROVE StreamOK(s)'
    <2>1. CASE t = s
      <3>1. UNCHANGED <<sent, queue, ackedAt, wire, got>>
        BY <1>4 DEF Probe, Leave, bussed, peer
      <3>2. \/ /\ thread[s] = "probe" /\ thread'[s] \in {"push", "leave"} /\ senders' = senders
            \/ thread[s] = "leave" /\ thread'[s] = "done" /\ senders' = senders \ {s}
        BY <1>4, <2>1 DEF Probe, Leave, Goto
      <3>3. PICK a \in 0..ackedAt[s] : Placed(s, a)
        BY DEF StreamOK
      <3>4. Placed(s, a)'
        BY <3>1, <3>2, <3>3 DEF Placed
      <3> QED
        BY <3>1, <3>2, <3>4 DEF StreamOK
    <2>2. CASE t # s
      BY <1>4, <2>2, StreamKeeps DEF Probe, Leave, Goto, bussed, peer
    <2> QED
      BY <2>1, <2>2
  <1>5. CASE UNCHANGED <<sent, senders, queue, thread, ackedAt, wire, got>>
    BY <1>5, StreamKeeps
  <1> QED
    BY <1>1, <1>2, <1>3, <1>4, <1>5 DEF Next, Serve, Emit, Unsubscribe, RestArrives, GoAway,
       bussed, peer, vars

-----------------------------------------------------------------------------
LEMMA InitIInv == Init => IInv
  <1> SUFFICES ASSUME Init PROVE IInv
    OBVIOUS
  <1> USE DEF Init
  <1>1. TypeOK
    BY Capacities DEF TypeOK, Threads
  <1>2. BusOrder
    BY DEF BusOrder
  <1>3. ASSUME NEW s \in Subs PROVE StreamOK(s)
    <2>1. Placed(s, 0)
      BY DEF Placed, Segment
    <2> QED
      BY <2>1 DEF StreamOK
  <1> QED
    BY <1>1, <1>2, <1>3 DEF IInv

LEMMA IInvStep == IInv /\ [Next]_vars => IInv'
  BY TypeStep, BusOrderStep, StreamStep DEF IInv

(* The strengthening is an invariant of the fan-out. *)
THEOREM IInvHolds == Spec => []IInv
  BY InitIInv, IInvStep, PTL DEF Spec

(* Channels, registry and threads keep their types, and neither the bus nor *)
(* a socket exceeds its capacity.                                          *)
THEOREM TypeCorrect == Spec => []TypeOK
  <1>1. IInv => TypeOK
    BY DEF IInv
  <1> QED
    BY <1>1, IInvHolds, PTL

LEMMA OrderFromIInv == IInv => OrderKept
  <1> SUFFICES ASSUME IInv PROVE OrderKept
    OBVIOUS
  <1>0. sent \in Seq(Events) /\ bus \in Seq(Events) /\ Len(sent) \in Nat /\ Len(bus) \in Nat
        /\ emitted \in Nat
    BY Capacities DEF IInv, TypeOK, Events
  <1>1. PICK c \in Seq(Events) : c = sent \o bus
    <2>1. sent \o bus \in Seq(Events)
      BY <1>0, ConcatProperties
    <2> QED
      BY <2>1
  <1>2. /\ Len(c) = Len(sent) + Len(bus)
        /\ \A i \in 1..Len(sent) + Len(bus) : c[i] = IF i <= Len(sent) THEN sent[i]
                                                    ELSE bus[i - Len(sent)]
    BY <1>0, <1>1, ConcatProperties
  <1>3. \A i \in 1..Len(c) : \/ i \in 1..Len(sent) /\ c[i] = sent[i]
                             \/ /\ i > Len(sent) /\ i - Len(sent) \in 1..Len(bus)
                                /\ c[i] = bus[i - Len(sent)]
    BY <1>0, <1>2
  <1>4. ASSUME NEW i \in 1..Len(c), NEW j \in 1..Len(c), i < j PROVE c[i] < c[j]
    <2>1. CASE j \in 1..Len(sent) /\ c[j] = sent[j]
      <3>1. i \in 1..Len(sent) /\ c[i] = sent[i]
        BY <1>0, <1>3, <1>4, <2>1
      <3> QED
        BY <1>4, <2>1, <3>1 DEF IInv, BusOrder
    <2>2. CASE j - Len(sent) \in 1..Len(bus) /\ c[j] = bus[j - Len(sent)]
      <3>1. CASE i \in 1..Len(sent) /\ c[i] = sent[i]
        BY <2>2, <3>1 DEF IInv, BusOrder
      <3>2. CASE i - Len(sent) \in 1..Len(bus) /\ c[i] = bus[i - Len(sent)]
        <4>1. i - Len(sent) < j - Len(sent)
          BY <1>0, <1>2, <1>4
        <4>2. bus[i - Len(sent)] < bus[j - Len(sent)]
          BY <2>2, <3>2, <4>1 DEF IInv, BusOrder
        <4> QED
          BY <2>2, <3>2, <4>2
      <3> QED
        BY <1>3, <3>1, <3>2
    <2> QED
      BY <1>3, <2>1, <2>2
  <1>5. ASSUME emitted <= BusCapacity PROVE c = [i \in 1..emitted |-> i]
    <2>1. /\ Len(sent) + Len(bus) = emitted
          /\ \A i \in 1..Len(sent) : sent[i] = i
          /\ \A i \in 1..Len(bus) : bus[i] = Len(sent) + i
      BY <1>5 DEF IInv, BusOrder
    <2>2. \A i \in 1..Len(c) : c[i] = i
      <3> TAKE i \in 1..Len(c)
      <3>1. CASE i \in 1..Len(sent) /\ c[i] = sent[i]
        BY <2>1, <3>1
      <3>2. CASE i - Len(sent) \in 1..Len(bus) /\ c[i] = bus[i - Len(sent)]
        <4>1. bus[i - Len(sent)] = Len(sent) + (i - Len(sent))
          BY <2>1, <3>2
        <4> QED
          BY <1>0, <1>2, <3>2, <4>1
      <3> QED
        BY <1>3, <3>1, <3>2
    <2>3. c = [i \in 1..Len(c) |-> c[i]] /\ Len(c) = emitted
      BY <1>1, <1>2, <2>1, LenProperties
    <2> QED
      BY <2>2, <2>3
  <1> QED
    BY <1>1, <1>4, <1>5 DEF OrderKept

(* The forwarder of Daemon::run keeps the order of emission, and skips      *)
(* nothing while the bus never overflowed.                                 *)
THEOREM OrderPreserved == Spec => []OrderKept
  BY OrderFromIInv, IInvHolds, PTL

(* A segment that reaches the end of the log is a suffix of it. *)
LEMMA SegmentIsSuffix ==
  ASSUME NEW log \in Seq(Events), NEW q \in Seq(Events), NEW a \in Nat, Segment(log, q, a),
         a + Len(q) = Len(log)
  PROVE  IsSuffix(q, log)
  <1>0. Len(q) \in Nat /\ Len(log) \in Nat
    BY LenProperties
  <1>1. PICK r, l : r = Reverse(q) /\ l = Reverse(log)
    OBVIOUS
  <1>2. \A i \in 1..Len(q) : (Len(q) - i) + 1 \in 1..Len(q)
    BY <1>0
  <1>3. \A i \in 1..Len(log) : (Len(log) - i) + 1 \in 1..Len(log)
    BY <1>0
  <1>4. r \in Seq(Events) /\ Len(r) = Len(q)
        /\ \A i \in 1..Len(q) : r[i] = q[(Len(q) - i) + 1]
    BY <1>0, <1>1, <1>2 DEF Reverse
  <1>5. l \in Seq(Events) /\ Len(l) = Len(log)
        /\ \A i \in 1..Len(log) : l[i] = log[(Len(log) - i) + 1]
    BY <1>0, <1>1, <1>3 DEF Reverse
  <1>6. Len(q) <= Len(log)
    BY <1>0
  <1>7. \A i \in 1..Len(q) : r[i] = l[i]
    <2> TAKE i \in 1..Len(q)
    <2>1. i \in 1..Len(log)
      BY <1>0, <1>6
    <2>2. PICK k \in 1..Len(q) : k = (Len(q) - i) + 1
      BY <1>2
    <2>3. a + k = (Len(log) - i) + 1
      BY <1>0, <2>2
    <2>4. log[a + k] = q[k]
      BY <2>2 DEF Segment
    <2> QED
      BY <1>4, <1>5, <2>1, <2>2, <2>3, <2>4
  <1>8. SubSeq(r, 1, Len(r)) = SubSeq(l, 1, Len(r))
    BY <1>0, <1>4, <1>5, <1>6, <1>7
  <1> QED
    BY <1>1, <1>4, <1>5, <1>6, <1>8 DEF IsSuffix, IsPrefix

(* Neighbouring segments make up one. *)
LEMMA SegmentJoins ==
  ASSUME NEW log \in Seq(Events), NEW q \in Seq(Events), NEW r \in Seq(Events), NEW a \in Nat,
         Segment(log, q, a), Segment(log, r, a + Len(q))
  PROVE  /\ q \o r \in Seq(Events)
         /\ Len(q \o r) = Len(q) + Len(r)
         /\ Segment(log, q \o r, a)
  <1>0. Len(q) \in Nat /\ Len(r) \in Nat /\ Len(log) \in Nat
    BY LenProperties
  <1>1. PICK c : c = q \o r
    OBVIOUS
  <1>2. /\ c \in Seq(Events) /\ Len(c) = Len(q) + Len(r)
        /\ \A i \in 1..Len(q) + Len(r) : c[i] = IF i <= Len(q) THEN q[i] ELSE r[i - Len(q)]
    BY <1>1, ConcatProperties
  <1>3. /\ (a + Len(q)) + Len(r) <= Len(log)
        /\ \A i \in 1..Len(q) : log[a + i] = q[i]
        /\ \A i \in 1..Len(r) : log[(a + Len(q)) + i] = r[i]
    BY Zenon DEF Segment
  <1>4. \A i \in 1..Len(c) : log[a + i] = c[i]
    <2> TAKE i \in 1..Len(c)
    <2>1. CASE i <= Len(q)
      <3>1. i \in 1..Len(q) /\ c[i] = q[i]
        BY <1>0, <1>2, <2>1
      <3> QED
        BY <1>3, <3>1
    <2>2. CASE ~(i <= Len(q))
      <3>1. PICK j \in 1..Len(r) : j = i - Len(q)
        BY <1>0, <1>2, <2>2
      <3>2. (a + Len(q)) + j = a + i
        BY <1>0, <1>2, <3>1
      <3>3. c[i] = r[j]
        BY <1>0, <1>2, <2>2, <3>1
      <3>4. log[(a + Len(q)) + j] = r[j]
        BY <1>3
      <3> QED
        BY <3>2, <3>3, <3>4
    <2> QED
      BY <2>1, <2>2
  <1>5. a + Len(c) <= Len(log)
    BY <1>0, <1>2, <1>3
  <1> QED
    BY <1>1, <1>2, <1>4, <1>5 DEF Segment

LEMMA NothingMissedFromIInv == IInv => NothingMissed
  <1> SUFFICES ASSUME IInv, NEW s \in Subs, thread[s] \in {"probe", "push"}
               PROVE  /\ IsSuffix(Stream(s), sent)
                      /\ Len(Stream(s)) >= Len(sent) - ackedAt[s]
    BY DEF NothingMissed
  <1>0. /\ sent \in Seq(Events) /\ queue[s] \in Seq(Events) /\ got[s] \in Seq(Events)
        /\ wire[s] \in Seq(Events) /\ ackedAt[s] \in Nat
    BY DEF IInv, TypeOK, Events
  <1>1. PICK a \in 0..ackedAt[s] : Placed(s, a)
    BY DEF IInv, StreamOK
  <1>2. /\ Len(got[s]) \in Nat /\ Len(wire[s]) \in Nat /\ Len(queue[s]) \in Nat
        /\ Len(sent) \in Nat /\ a \in Nat
    BY <1>0, LenProperties
  <1>3. /\ Segment(sent, got[s], a) /\ Segment(sent, wire[s], a + Len(got[s]))
        /\ Segment(sent, queue[s], (a + Len(got[s])) + Len(wire[s]))
        /\ (a + Len(got[s])) + Len(wire[s]) + Len(queue[s]) = Len(sent)
    BY <1>1, Zenon DEF Placed
  <1>4. PICK g : g = got[s] \o wire[s]
    OBVIOUS
  <1>5. g \in Seq(Events) /\ Len(g) = Len(got[s]) + Len(wire[s]) /\ Segment(sent, g, a)
    <2>1. /\ got[s] \o wire[s] \in Seq(Events)
          /\ Len(got[s] \o wire[s]) = Len(got[s]) + Len(wire[s])
          /\ Segment(sent, got[s] \o wire[s], a)
      BY <1>0, <1>2, <1>3, SegmentJoins
    <2> QED
      BY <1>4, <2>1, Zenon
  <1>6. (a + Len(got[s])) + Len(wire[s]) = a + Len(g)
    <2>1. (a + Len(got[s])) + Len(wire[s]) = a + (Len(got[s]) + Len(wire[s]))
      BY <1>2, SumsAssociate
    <2>2. Len(g) = Len(got[s]) + Len(wire[s])
      BY <1>5
    <2> QED
      BY <2>1, <2>2, Zenon
  <1>7. Segment(sent, queue[s], a + Len(g))
    BY <1>3, <1>6, Zenon
  <1>8. PICK q : q = g \o queue[s]
    OBVIOUS
  <1>9. q \in Seq(Events) /\ Len(q) = Len(g) + Len(queue[s]) /\ Segment(sent, q, a)
    <2>1. /\ g \o queue[s] \in Seq(Events) /\ Len(g \o queue[s]) = Len(g) + Len(queue[s])
          /\ Segment(sent, g \o queue[s], a)
      <3>1. PICK h \in Seq(Events) : h = queue[s]
        BY <1>0
      <3>2. g \in Seq(Events) /\ Segment(sent, g, a) /\ Segment(sent, h, a + Len(g))
        BY <1>5, <1>7, <3>1, Zenon
      <3>3. /\ g \o h \in Seq(Events) /\ Len(g \o h) = Len(g) + Len(h) /\ Segment(sent, g \o h, a)
        BY <1>0, <1>2, <3>2, SegmentJoins
      <3> QED
        BY <3>1, <3>3, Zenon
    <2> QED
      BY <1>8, <2>1, Zenon
  <1>10. a + Len(q) = Len(sent)
    <2>1. a + Len(g) + Len(queue[s]) = Len(sent)
      BY <1>3, <1>6, Zenon
    <2>2. Len(g) \in Nat
      BY <1>5, LenProperties
    <2> QED
      BY <1>2, <1>9, <2>1, <2>2
  <1>11. IsSuffix(q, sent)
    BY <1>0, <1>2, <1>9, <1>10, SegmentIsSuffix
  <1>12. Len(q) >= Len(sent) - ackedAt[s]
    <2>1. Len(q) \in Nat /\ a <= ackedAt[s]
      BY <1>0, <1>9, LenProperties
    <2> QED
      BY <1>0, <1>2, <1>10, <2>1
  <1>13. q = Stream(s)
    BY <1>4, <1>8 DEF Stream
  <1> QED
    BY <1>11, <1>12, <1>13, Zenon

(* While run_subscribe serves a connection, what its client read, what is   *)
(* on the wire and what is queued are the last events sent, without a gap, *)
(* back to the acknowledgement or earlier.                                 *)
THEOREM NothingIsMissed == Spec => []NothingMissed
  BY NothingMissedFromIInv, IInvHolds, PTL

-----------------------------------------------------------------------------
(* What the client reads next is due. *)
LEMMA ReceiveHears ==
  ASSUME IInv, NEW s \in Subs, Receive(s)
  PROVE  OD!Hear(s)
  <1>0. /\ sent \in Seq(Events) /\ got[s] \in Seq(Events) /\ wire[s] \in Seq(Events)
        /\ ackedAt[s] \in Nat /\ wire[s] # << >>
        /\ got' = [got EXCEPT ![s] = Append(@, Head(wire[s]))]
        /\ UNCHANGED <<sent, ackedAt>>
    BY DEF IInv, TypeOK, Events, Receive, bussed
  <1>1. PICK a \in 0..ackedAt[s] : Placed(s, a)
    BY DEF IInv, StreamOK
  <1>2. Len(got[s]) \in Nat /\ a \in Nat /\ a <= ackedAt[s]
    BY <1>0, LenProperties
  <1>3. PICK i : i = a + Len(got[s]) + 1
    OBVIOUS
  <1>4. i \in 1..Len(sent) /\ sent[i] = Head(wire[s])
    <2>1. Segment(sent, got[s], a) /\ Segment(sent, wire[s], a + Len(got[s]))
      BY <1>1 DEF Placed
    <2>2. a + Len(got[s]) + 1 \in 1..Len(sent) /\ sent[a + Len(got[s]) + 1] = Head(wire[s])
      <3>1. PICK g \in Seq(Events), w \in Seq(Events) : g = got[s] /\ w = wire[s]
        BY <1>0
      <3>2. Segment(sent, g, a) /\ Segment(sent, w, a + Len(g)) /\ w # << >>
        BY <1>0, <2>1, <3>1, Zenon
      <3>3. a + Len(g) + 1 \in 1..Len(sent) /\ sent[a + Len(g) + 1] = Head(w)
        BY <1>0, <1>2, <3>2, SegmentMoves
      <3> QED
        BY <3>1, <3>3, Zenon
    <2> QED
      BY <1>3, <2>2, Zenon
  <1>5. CASE got[s] = << >>
    <2>1. i <= ackedAt[s] + 1
      BY <1>0, <1>2, <1>3, <1>5
    <2> QED
      BY <1>0, <1>4, <1>5, <2>1 DEF OD!Hear, OD!Due
  <1>6. CASE got[s] # << >>
    <2>1. Len(got[s]) \in 1..Len(got[s])
      BY <1>0, <1>6
    <2>2. i > 1 /\ i - 1 = a + Len(got[s])
      BY <1>2, <1>3, <2>1
    <2>3. sent[a + Len(got[s])] = got[s][Len(got[s])]
      BY <1>1, <2>1 DEF Placed, Segment
    <2>4. sent[i - 1] = got[s][Len(got[s])]
      BY <2>2, <2>3
    <2> QED
      BY <1>0, <1>4, <1>6, <2>2, <2>4 DEF OD!Hear, OD!Due
  <1> QED
    BY <1>5, <1>6

(* The fan-out implements the promise of a subscription: every event a      *)
(* client reads was sent right after the one it read before, the first one *)
(* no later than the acknowledgement.                                      *)
THEOREM Refinement == Spec => Delivers
  <1>1. Init => OD!Init
    BY DEF Init, OD!Init
  <1>2. IInv /\ [Next]_vars => [OD!Next]_(OD!vars)
    <2> SUFFICES ASSUME IInv, [Next]_vars PROVE OD!Next \/ UNCHANGED OD!vars
      OBVIOUS
    <2>1. CASE Forward
      <3>1. bus \in Seq(Events) /\ bus # << >>
        BY <2>1 DEF IInv, TypeOK, Forward, Events
      <3>2. Head(bus) \in 1..MaxEvents
        BY <3>1, TailElements DEF Events
      <3>3. OD!Send(Head(bus))
        BY <2>1 DEF Forward, OD!Send, peer
      <3> QED
        BY <3>2, <3>3 DEF OD!Next
    <2>2. ASSUME NEW s \in Subs, Ack(s) PROVE OD!Next \/ UNCHANGED OD!vars
      BY <2>2 DEF Ack, OD!Next, OD!Acknowledge, OD!vars, bussed, peer
    <2>3. ASSUME NEW s \in Subs, Receive(s) PROVE OD!Next \/ UNCHANGED OD!vars
      BY <2>3, ReceiveHears DEF OD!Next
    <2>4. CASE UNCHANGED <<sent, ackedAt, got>>
      BY <2>4 DEF OD!vars
    <2> QED
      BY <2>1, <2>2, <2>3, <2>4 DEF Next, Serve, Emit, Subscribe, Probe, Push, Leave, Unsubscribe,
         RestArrives, GoAway, bussed, peer, vars
  <1> QED
    BY <1>1, <1>2, IInvHolds, PTL DEF Spec, Delivers, OD!Spec
=============================================================================
