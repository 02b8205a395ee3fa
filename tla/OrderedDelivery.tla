-------------------------- MODULE OrderedDelivery --------------------------
(***************************************************************************)
(* What a subscription promises: its client hears the events in the order  *)
(* in which the daemon sent them, the first one no later than the first    *)
(* after the acknowledgement and each one right after its predecessor,     *)
(* until it hears no more.  (control_client.rs:68-69: the receiver "yields *)
(* every `event` notification the daemon sends".)                          *)
(***************************************************************************)
EXTENDS Naturals, Sequences

CONSTANTS
  Subs,    \* subscriptions
  Events   \* what is sent

VARIABLES
  sent,     \* the events sent so far
  ackedAt,  \* how many of them came before each acknowledgement
  heard     \* what each client heard

vars == <<sent, ackedAt, heard>>

Init ==
  /\ sent = << >>
  /\ ackedAt = [s \in Subs |-> 0]
  /\ heard = [s \in Subs |-> << >>]

Send(e) ==
  /\ sent' = Append(sent, e)
  /\ UNCHANGED <<ackedAt, heard>>

Acknowledge(s) ==
  /\ ackedAt' = [ackedAt EXCEPT ![s] = Len(sent)]
  /\ UNCHANGED <<sent, heard>>

(* The event at position i comes next.                                      *)
Due(s, i) ==
  IF heard[s] = << >> THEN i <= ackedAt[s] + 1
                      ELSE i > 1 /\ sent[i - 1] = heard[s][Len(heard[s])]

Hear(s) ==
  /\ \E i \in 1..Len(sent) :
       Due(s, i) /\ heard' = [heard EXCEPT ![s] = Append(@, sent[i])]
  /\ UNCHANGED <<sent, ackedAt>>

Next ==
  \/ \E e \in Events : Send(e)
  \/ \E s \in Subs : Acknowledge(s) \/ Hear(s)

Spec == Init /\ [][Next]_vars
=============================================================================
