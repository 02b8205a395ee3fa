---------------------------- MODULE EventFanout ----------------------------
(***************************************************************************)
(* From the event bus to the subscribers' sockets: the forwarder task of   *)
(* Daemon::run, the SubscriberRegistry and the threads that serve the      *)
(* `subscribe` calls (handlers/router.rs), with clients that read slowly,  *)
(* unsubscribe or go away.  Events are numbered in the order of their      *)
(* emission; payloads do not matter here.                                  *)
(***************************************************************************)
EXTENDS Naturals, SequencesExt

CONSTANTS
  Subs,          \* subscribe connections
  MaxEvents,     \* bound on the events of one behavior
  BusCapacity,   \* of the tokio broadcast channel
  SockCapacity   \* frames that fit in a socket's buffers

ASSUME Capacities == MaxEvents \in Nat /\ BusCapacity \in Nat \ {0} /\ SockCapacity \in Nat \ {0}

VARIABLES
  emitted,   \* number of events emitted so far
  bus,       \* what the forwarder has not read yet
  sent,      \* history: what the forwarder handed to the registry
  senders,   \* the registry: connections with a sender
  queue,     \* each connection's unbounded mpsc channel
  thread,    \* where the connection's thread is
  ackedAt,   \* history: how many events had been sent when it was acknowledged
  wire,      \* events written to the socket, not yet read
  got,       \* events the client has read
  client,    \* "out", "open" or "gone"
  unsub      \* the client's unsubscribe frame on its way

vars == <<emitted, bus, sent, senders, queue, thread, ackedAt, wire, got, client, unsub>>

bussed == <<emitted, bus, sent>>

peer == <<wire, got, client, unsub>>

-----------------------------------------------------------------------------
Threads == {"none", "ack", "probe", "push", "leave", "done"}

Goto(s, l) == thread' = [thread EXCEPT ![s] = l]

(* EventBus::emit overwrites the oldest event of a full channel.           *)
Emit ==
  /\ emitted < MaxEvents
  /\ emitted' = emitted + 1
  /\ bus' = Append(IF Len(bus) < BusCapacity THEN bus ELSE Tail(bus), emitted + 1)
  /\ UNCHANGED <<sent, senders, queue, thread, ackedAt, peer>>

(* Bug: the newest event first. *)
BugForwardNewest ==
  /\ bus # << >>
  /\ bus' = Front(bus)
  /\ sent' = Append(sent, Last(bus))
  /\ queue' = [s \in Subs |-> IF s \in senders THEN Append(queue[s], Last(bus)) ELSE queue[s]]
  /\ UNCHANGED <<emitted, senders, thread, ackedAt, peer>>

(* The forwarder broadcasts to every registered sender.  No send fails:     *)
(* a thread unregisters before it drops its receiver.                      *)
Forward ==
  /\ bus # << >>
  /\ bus' = Tail(bus)
  /\ sent' = Append(sent, Head(bus))
  /\ queue' = [s \in Subs |-> IF s \in senders THEN Append(queue[s], Head(bus)) ELSE queue[s]]
  /\ UNCHANGED <<emitted, senders, thread, ackedAt, peer>>

(* run_subscribe registers first.  What the client sent right behind the    *)
(* request, a whole unsubscribe frame or the head of one, went away with   *)
(* the BufReader ...                                                       *)
Subscribe(s) ==
  /\ thread[s] = "none"
  /\ Goto(s, "ack")
  /\ senders' = senders \cup {s}
  /\ client' = [client EXCEPT ![s] = "open"]
  /\ \E a \in {"none", "headless", "ignored"} : unsub' = [unsub EXCEPT ![s] = a]
  /\ UNCHANGED <<bussed, queue, ackedAt, wire, got>>

(* ... and acknowledges then.                                              *)
Ack(s) ==
  /\ thread[s] = "ack"
  /\ IF client[s] = "gone" THEN Goto(s, "leave") /\ UNCHANGED ackedAt
     ELSE Goto(s, "probe") /\ ackedAt' = [ackedAt EXCEPT ![s] = Len(sent)]
  /\ UNCHANGED <<bussed, senders, queue, peer>>

(* Bug: end of file is taken for "nothing to read". *)
BugDeafProbe(s) ==
  /\ thread[s] = "probe"
  /\ IF unsub[s] = "full" THEN Goto(s, "leave") ELSE Goto(s, "push")
  /\ UNCHANGED <<bussed, senders, queue, ackedAt, peer>>

(* Bug: what the client sends is not looked at. *)
BugNoUnsubscribe(s) ==
  /\ thread[s] = "probe"
  /\ IF client[s] = "gone" THEN Goto(s, "leave") ELSE Goto(s, "push")
  /\ UNCHANGED <<bussed, senders, queue, ackedAt, peer>>

(* read_line_nonblocking returns whatever has arrived, a whole line or not. *)
(* A fragment of an unsubscribe frame is not one, and is gone.             *)
Probe(s) ==
  /\ thread[s] = "probe"
  /\ IF client[s] = "gone" \/ unsub[s] = "full" THEN Goto(s, "leave") ELSE Goto(s, "push")
  /\ unsub' = [unsub EXCEPT ![s] = CASE @ = "head" -> "headless"
                                     [] @ = "tail" -> "ignored"
                                     [] OTHER      -> @]
  /\ UNCHANGED <<bussed, senders, queue, ackedAt, wire, got, client>>

(* Bug: an event that does not fit is dropped and the stream goes on. *)
BugDropWhenFull(s) ==
  /\ thread[s] = "push"
  /\ Goto(s, "probe")
  /\ queue' = [queue EXCEPT ![s] = IF @ = << >> THEN @ ELSE Tail(@)]
  /\ wire' = [wire EXCEPT ![s] = IF queue[s] = << >> \/ Len(@) = SockCapacity THEN @
                                 ELSE Append(@, Head(queue[s]))]
  /\ UNCHANGED <<bussed, senders, ackedAt, got, client, unsub>>

(* Bug: the event stays in the queue after it was written. *)
BugPushTwice(s) ==
  /\ thread[s] = "push"
  /\ queue[s] # << >>
  /\ Goto(s, "probe")
  /\ Len(wire[s]) < SockCapacity
  /\ wire' = [wire EXCEPT ![s] = Append(@, Head(queue[s]))]
  /\ UNCHANGED <<bussed, senders, queue, ackedAt, got, client, unsub>>

(* One event per turn.  The socket does not block: when its buffers are     *)
(* full, or the client is gone, the write fails and the stream ends.       *)
Push(s) ==
  /\ thread[s] = "push"
  /\ \/ queue[s] = << >> /\ Goto(s, "probe") /\ UNCHANGED <<queue, wire>>
     \/ /\ queue[s] # << >>
        /\ queue' = [queue EXCEPT ![s] = Tail(@)]
        /\ IF client[s] # "gone" /\ Len(wire[s]) < SockCapacity
           THEN Goto(s, "probe") /\ wire' = [wire EXCEPT ![s] = Append(@, Head(queue[s]))]
           ELSE Goto(s, "leave") /\ UNCHANGED wire
  /\ UNCHANGED <<bussed, senders, ackedAt, got, client, unsub>>

Leave(s) ==
  /\ thread[s] = "leave"
  /\ Goto(s, "done")
  /\ senders' = senders \ {s}
  /\ UNCHANGED <<bussed, queue, ackedAt, peer>>

-----------------------------------------------------------------------------
(* The client's side (control_client.rs).                                   *)
Receive(s) ==
  /\ client[s] = "open"
  /\ wire[s] # << >>
  /\ got' = [got EXCEPT ![s] = Append(@, Head(wire[s]))]
  /\ wire' = [wire EXCEPT ![s] = Tail(@)]
  /\ UNCHANGED <<bussed, senders, queue, thread, ackedAt, client, unsub>>

(* An unsubscribe frame arrives in one piece or in two.                     *)
Unsubscribe(s) ==
  /\ client[s] = "open"
  /\ unsub[s] = "none"
  /\ \E a \in {"full", "head"} : unsub' = [unsub EXCEPT ![s] = a]
  /\ UNCHANGED <<bussed, senders, queue, thread, ackedAt, wire, got, client>>

RestArrives(s) ==
  /\ unsub[s] \in {"head", "headless"}
  /\ unsub' = [unsub EXCEPT ![s] = IF @ = "head" THEN "full" ELSE "tail"]
  /\ UNCHANGED <<bussed, senders, queue, thread, ackedAt, wire, got, client>>

GoAway(s) ==
  /\ client[s] = "open"
  /\ client' = [client EXCEPT ![s] = "gone"]
  /\ UNCHANGED <<bussed, senders, queue, thread, ackedAt, wire, got, unsub>>

Init ==
  /\ emitted = 0
  /\ bus = << >>
  /\ sent = << >>
  /\ senders = {}
  /\ queue = [s \in Subs |-> << >>]
  /\ thread = [s \in Subs |-> "none"]
  /\ ackedAt = [s \in Subs |-> 0]
  /\ wire = [s \in Subs |-> << >>]
  /\ got = [s \in Subs |-> << >>]
  /\ client = [s \in Subs |-> "out"]
  /\ unsub = [s \in Subs |-> "none"]

Serve(s) == Ack(s) \/ Probe(s) \/ Push(s) \/ Leave(s)

Next ==
  \/ Emit \/ Forward
  \/ \E s \in Subs : Subscribe(s) \/ Serve(s)
  \/ \E s \in Subs : Receive(s) \/ Unsubscribe(s) \/ RestArrives(s) \/ GoAway(s)

Spec == Init /\ [][Next]_vars

(* The daemon's task and threads run; a frame under way arrives.  Nothing   *)
(* is assumed of the clients.                                              *)
FairSpec ==
  /\ Spec
  /\ WF_vars(Forward)
  /\ \A s \in Subs : WF_vars(Serve(s)) /\ WF_vars(RestArrives(s))

-----------------------------------------------------------------------------
(* Properties. *)

(* Type correctness of the channels, the registry and the threads.         *)
TypeOK ==
  /\ emitted \in 0..MaxEvents
  /\ bus \in Seq(1..MaxEvents) /\ Len(bus) <= BusCapacity
  /\ sent \in Seq(1..MaxEvents)
  /\ senders \subseteq Subs
  /\ queue \in [Subs -> Seq(1..MaxEvents)]
  /\ thread \in [Subs -> Threads]
  /\ ackedAt \in [Subs -> 0..MaxEvents]
  /\ wire \in [Subs -> Seq(1..MaxEvents)]
  /\ \A s \in Subs : Len(wire[s]) <= SockCapacity
  /\ got \in [Subs -> Seq(1..MaxEvents)]
  /\ client \in [Subs -> {"out", "open", "gone"}]
  /\ unsub \in [Subs -> {"none", "full", "head", "headless", "tail", "ignored"}]

(* The forwarder keeps the order of emission, and skips events only when    *)
(* more than BusCapacity of them were waiting for it.                      *)
OrderKept ==
  /\ \A i, j \in 1..Len(sent \o bus) : i < j => (sent \o bus)[i] < (sent \o bus)[j]
  /\ emitted <= BusCapacity => sent \o bus = [i \in 1..emitted |-> i]

(* While a subscription lives, what its client read, what is on the wire    *)
(* and what is queued make up, in order and without a gap, the last events *)
(* that were sent, and they reach back to the acknowledgement: a client    *)
(* that asks for a snapshot after the acknowledgement misses no event.     *)
Stream(s) == got[s] \o wire[s] \o queue[s]

NothingMissed ==
  \A s \in Subs :
    thread[s] \in {"probe", "push"} =>
      /\ IsSuffix(Stream(s), sent)
      /\ Len(Stream(s)) >= Len(sent) - ackedAt[s]

(* What clients read refines the promise of a subscription: the bus may     *)
(* skip events before they are sent and the daemon may end a stream, but   *)
(* no slow client, full socket or late unregistering leaves a hole in one. *)
OD == INSTANCE OrderedDelivery WITH Events <- 1..MaxEvents, heard <- got

Delivers == OD!Spec

(* The inductive invariant.  The bus continues what was sent, in the order  *)
(* of emission ...                                                         *)
BusOrder ==
  /\ Len(sent) + Len(bus) <= emitted
  /\ \A i \in 1..Len(sent) : sent[i] <= emitted
  /\ \A i \in 1..Len(bus) : bus[i] <= emitted
  /\ \A i, j \in 1..Len(sent) : i < j => sent[i] < sent[j]
  /\ \A i, j \in 1..Len(bus) : i < j => bus[i] < bus[j]
  /\ \A i \in 1..Len(sent), j \in 1..Len(bus) : sent[i] < bus[j]
  /\ emitted <= BusCapacity =>
       /\ Len(sent) + Len(bus) = emitted
       /\ \A i \in 1..Len(sent) : sent[i] = i
       /\ \A i \in 1..Len(bus) : bus[i] = Len(sent) + i

(* ... q is what log holds right after position a ...                       *)
Segment(log, q, a) ==
  /\ a + Len(q) <= Len(log)
  /\ \A i \in 1..Len(q) : log[a + i] = q[i]

(* ... what a client read and what is on its wire are neighbours, starting  *)
(* no later than the acknowledgement, and while the stream lives the queue *)
(* continues them to the end of what was sent.                             *)
Placed(s, a) ==
  /\ Segment(sent, got[s], a)
  /\ Segment(sent, wire[s], a + Len(got[s]))
  /\ thread[s] \in {"probe", "push"} =>
       /\ Segment(sent, queue[s], a + Len(got[s]) + Len(wire[s]))
       /\ a + Len(got[s]) + Len(wire[s]) + Len(queue[s]) = Len(sent)

StreamOK(s) ==
  /\ s \in senders <=> thread[s] \in {"ack", "probe", "push", "leave"}
  /\ thread[s] = "none" => queue[s] = << >>
  /\ thread[s] \in {"none", "ack"} => got[s] = << >> /\ wire[s] = << >>
  /\ thread[s] = "ack" =>
       /\ Len(queue[s]) <= Len(sent)
       /\ Segment(sent, queue[s], Len(sent) - Len(queue[s]))
  /\ \E a \in 0..ackedAt[s] : Placed(s, a)

IInv == TypeOK /\ BusOrder /\ \A s \in Subs : StreamOK(s)

(* The registry does not leak: a client that went away is forgotten even if *)
(* no event is ever emitted again (run_subscribe polls the read side).     *)
GoneForgotten == \A s \in Subs : client[s] = "gone" ~> s \notin senders

(* A queued event is written, or the stream ends.                          *)
QueueDrains == \A s \in Subs : queue[s] # << >> ~> (queue[s] = << >> \/ thread[s] = "done")

(* agentd-protocol/src/methods.rs:50: unsubscribe is to "Stop receiving      *)
(* event notifications".  It does when the frame arrives in one piece.     *)
UnsubscribeWorks ==
  \A s \in Subs : (unsub[s] = "full" /\ thread[s] \in {"probe", "push"}) ~> thread[s] = "done"
=============================================================================
