-------------------------- MODULE TuiReplicaProofs --------------------------
(***************************************************************************)
(* Proofs about TuiReplica: the dashboard leaves the daemon alone; what it  *)
(* shows of a session is explained by the session's history, however       *)
(* events are lost, cut off or reordered by handlers that race; and when   *)
(* none of that happened it shows the table as soon as all is quiet.       *)
(***************************************************************************)
EXTENDS TuiReplica, SessionServiceProofs

(* The dashboard takes no step of the daemon and the composition adds none. *)
LEMMA TuiStep == TuiNext => [Next]_vars
  BY DEF TuiNext, Serve, DaemonStops, Push, Cut, Subscribe, Snapshot, Call, Quit, Dashboard,
     ReadFrame, Apply, Answered, Next

-----------------------------------------------------------------------------
(* What lasts of the tables through every step, collections included: an id *)
(* is used for one row only, and a row that is there has all of its        *)
(* history and stays finished.                                             *)
RowKept(id) ==
  sessions[id].status # "absent" =>
    /\ sessions'[id].status # "absent"
    /\ Exists(sessions', id) =>
         /\ Exists(sessions, id)
         /\ \A k, v : Recorded(id, k, v) => Recorded(id, k, v)'
         /\ sessions[id].finished_at # None => sessions'[id].finished_at # None

LEMMA RowsKept ==
  ASSUME IInv, [Next]_vars, NEW id \in Ids
  PROVE  RowKept(id)
  <1>1. Keeps
    BY StepKeeps DEF IInv
  <1>2. CASE Known(id)
    BY <1>1, <1>2, FactsKeep DEF RowKept, Same, Known
  <1> QED
    BY <1>2 DEF RowKept, Known

(* So what an event says stays backed, and what is shown stays explained.   *)
LEMMA BackedKept ==
  ASSUME IInv, [Next]_vars, NEW e, Backed(e)
  PROVE  Backed(e)'
  <1> SUFFICES ASSUME e.kind \notin {"plugin.connected", "daemon.shutting_down"}
               PROVE  Backed(e)'
    BY DEF Backed
  <1>1. e.id \in Ids /\ sessions[e.id].status # "absent"
    BY DEF Backed
  <1>2. RowKept(e.id)
    BY <1>1, RowsKept
  <1> QED
    BY <1>1, <1>2 DEF Backed, RowKept

(* The part of the invariant about one row of the dashboard.                *)
RowExplained(id) ==
  Shows(id) =>
    /\ DOMAIN view[id] = {"status", "display_name", "current_task", "usage"}
    /\ sessions[id].status # "absent"
    /\ Exists(sessions, id) =>
         /\ view[id].status \in {"working", "waiting_for_user", "errored"} =>
              Recorded(id, "session.status_changed", view[id].status)
         /\ view[id].status = "idle" =>
              \/ Recorded(id, "session.status_changed", "idle")
              \/ Recorded(id, "session.status_changed", "errored")
         /\ view[id].current_task # None =>
              Recorded(id, "session.task_changed", view[id].current_task)

LEMMA TuiInvSplit ==
  TuiInv <=> ChannelsBacked /\ DOMAIN view = Ids /\ \A id \in Ids : RowExplained(id)
  BY DEF TuiInv, ViewKnown, ViewExplained, RowExplained

LEMMA ExplainedKept ==
  ASSUME IInv, [Next]_vars, NEW id \in Ids, RowExplained(id), view'[id] = view[id]
  PROVE  RowExplained(id)'
  <1>1. RowKept(id)
    BY RowsKept
  <1> QED
    BY <1>1 DEF RowExplained, RowKept, Shows

LEMMA ViewKept ==
  ASSUME IInv, [Next]_vars, TuiInv, UNCHANGED view
  PROVE  DOMAIN view' = Ids /\ \A id \in Ids : RowExplained(id)'
  BY TuiInvSplit, ExplainedKept

(* A channel whose elements come from a backed one, or are backed, is.      *)
AllBacked(s) == s \in Seq(BusEvent) /\ \A i \in 1..Len(s) : Backed(s[i])

LEMMA ChannelsSplit == ChannelsBacked <=> AllBacked(stream) /\ AllBacked(rx)
  BY DEF ChannelsBacked, AllBacked

LEMMA AllBackedKept ==
  ASSUME IInv, [Next]_vars, NEW s, AllBacked(s)
  PROVE  AllBacked(s)'
  BY BackedKept DEF AllBacked

LEMMA TailBacked ==
  ASSUME NEW s, AllBacked(s), s # << >>
  PROVE  AllBacked(Tail(s)) /\ Backed(Head(s)) /\ Head(s) \in BusEvent
  <1>1. /\ s \in Seq(BusEvent) /\ Len(s) \in Nat \ {0}
        /\ Tail(s) \in Seq(BusEvent) /\ Len(Tail(s)) = Len(s) - 1
        /\ \A i \in 1..Len(Tail(s)) : Tail(s)[i] = s[i + 1]
        /\ Head(s) = s[1] /\ Head(s) \in BusEvent
    BY DEF AllBacked
  <1>2. \A i \in 1..Len(Tail(s)) : i + 1 \in 1..Len(s) /\ 1 \in 1..Len(s)
    BY <1>1
  <1>3. Backed(Head(s))
    BY <1>1 DEF AllBacked
  <1>4. \A i \in 1..Len(Tail(s)) : Backed(Tail(s)[i])
    BY <1>1, <1>2 DEF AllBacked
  <1> QED
    BY <1>1, <1>3, <1>4 DEF AllBacked

LEMMA PrefixBacked ==
  ASSUME NEW s, AllBacked(s), NEW n \in 0..Len(s)
  PROVE  AllBacked(SubSeq(s, 1, n))
  <1>1. /\ SubSeq(s, 1, n) \in Seq(BusEvent) /\ Len(SubSeq(s, 1, n)) = n
        /\ \A i \in 1..n : SubSeq(s, 1, n)[i] = s[i]
        /\ \A i \in 1..n : i \in 1..Len(s)
    BY DEF AllBacked
  <1> QED
    BY <1>1 DEF AllBacked

LEMMA AppendBacked ==
  ASSUME NEW s, AllBacked(s), NEW e \in BusEvent, Backed(e)
  PROVE  AllBacked(Append(s, e))
  <1>1. /\ Append(s, e) \in Seq(BusEvent) /\ Len(Append(s, e)) = Len(s) + 1
        /\ \A i \in 1..Len(s) + 1 : IF i = Len(s) + 1 THEN Append(s, e)[i] = e
                                    ELSE i \in 1..Len(s) /\ Append(s, e)[i] = s[i]
    BY DEF AllBacked
  <1> QED
    BY <1>1 DEF AllBacked

(* What leaves the bus is backed, because it was written first.             *)
LEMMA HeadOfBusBacked ==
  ASSUME IInv, BusInv, bus # << >>
  PROVE  Head(bus) \in BusEvent /\ Backed(Head(bus))
  <1>1. bus \in Seq(BusEvent) /\ 1 \in 1..Len(bus) /\ Head(bus) = bus[1] /\ Head(bus) \in BusEvent
    BY DEF IInv, TypeOK
  <1>2. EventOK(Head(bus))
    BY <1>1, BusSplit DEF BusOK
  <1>3. Exists(sessions, Head(bus).id) => Announced(Head(bus))
    BY <1>2 DEF EventOK, Collected, Gone, Exists, Statuses
  <1>4. Backed(Head(bus))
    BY <1>2, <1>3 DEF EventOK, Known, Backed, Announced
  <1> QED
    BY <1>1, <1>4

-----------------------------------------------------------------------------
(* TuiState::apply_event, one kind of event after the other.                *)
LEMMA ApplyExplained ==
  ASSUME IInv, DOMAIN view = Ids, NEW e \in BusEvent, Backed(e), view' = ApplyEvent(view, e),
         UNCHANGED vars, NEW id \in Ids, RowExplained(id)
  PROVE  RowExplained(id)'
  <1>0. UNCHANGED <<sessions, events>>
    BY DEF vars
  <1>1. CASE view'[id] = view[id]
    BY <1>0, <1>1 DEF RowExplained, Shows, Recorded
  <1>2. CASE e.kind \in {"session.created", "session.discovered"} /\ e.id = id
    <2>0. view' = [view EXCEPT ![e.id] = Shown(NewRow(None, None, e.val))]
      BY <1>2 DEF ApplyEvent, Patching
    <2>1. view'[id] = Shown(NewRow(None, None, e.val))
      BY <1>2, <2>0
    <2>2. /\ DOMAIN view'[id] = {"status", "display_name", "current_task", "usage"}
          /\ view'[id].status = "starting" /\ view'[id].current_task = None
      BY <2>1 DEF Shown, NewRow
    <2>3. sessions[id].status # "absent"
      BY <1>2 DEF Backed
    <2> QED
      BY <1>0, <2>2, <2>3 DEF RowExplained
  <1>3. CASE e.kind \in {"session.killed", "session.finished"} /\ e.id = id
    <2>1. view' = [view EXCEPT ![e.id] = NoView]
      BY <1>3 DEF ApplyEvent, Patching
    <2> QED
      BY <1>3, <2>1 DEF RowExplained, Shows
  <1>4. CASE e.kind \in Patching /\ e.id = id /\ Shows(id)
    <2>0. view' = [view EXCEPT ![e.id] = Patch(view[e.id], e)]
      BY <1>4 DEF ApplyEvent, Patching, Shows
    <2>1. view'[id] = Patch(view[id], e)
      BY <1>4, <2>0
    <2>2. /\ DOMAIN view[id] = {"status", "display_name", "current_task", "usage"}
          /\ sessions[id].status # "absent"
      BY <1>4 DEF RowExplained
    <2>3. DOMAIN view'[id] = DOMAIN view[id]
      BY <1>4, <2>1 DEF Patch, Patching
    <2>4. CASE e.kind = "session.status_changed"
      <3>1. view'[id].status = e.val /\ view'[id].current_task = view[id].current_task
        BY <2>1, <2>2, <2>4 DEF Patch
      <3>2. Exists(sessions, id) => Recorded(id, "session.status_changed", e.val)
        BY <1>4, <2>4 DEF Backed
      <3> QED
        BY <1>0, <1>4, <2>2, <2>3, <3>1, <3>2 DEF RowExplained, Recorded
    <2>5. CASE e.kind = "session.dismissed_error"
      <3>1. view'[id].status = "idle" /\ view'[id].current_task = view[id].current_task
        BY <2>1, <2>2, <2>5 DEF Patch
      <3>2. Exists(sessions, id) => Recorded(id, "session.status_changed", "errored")
        BY <1>4, <2>5 DEF Backed
      <3> QED
        BY <1>0, <1>4, <2>2, <2>3, <3>1, <3>2 DEF RowExplained, Recorded
    <2>6. CASE e.kind = "session.task_changed"
      <3>1. view'[id].status = view[id].status /\ view'[id].current_task = e.val
        BY <2>1, <2>2, <2>6 DEF Patch
      <3>2. Exists(sessions, id) => Recorded(id, "session.task_changed", e.val)
        BY <1>4, <2>6 DEF Backed
      <3> QED
        BY <1>0, <1>4, <2>2, <2>3, <3>1, <3>2 DEF RowExplained, Recorded
    <2>7. CASE e.kind \in {"session.renamed", "session.usage_updated"}
      <3>1. view'[id].status = view[id].status /\ view'[id].current_task = view[id].current_task
        BY <2>1, <2>2, <2>7 DEF Patch
      <3> QED
        BY <1>0, <1>4, <2>2, <2>3, <3>1 DEF RowExplained, Recorded
    <2> QED
      BY <1>4, <2>4, <2>5, <2>6, <2>7 DEF Patching
  <1>5. \/ e.kind \in {"session.created", "session.discovered"} /\ e.id = id
        \/ e.kind \in {"session.killed", "session.finished"} /\ e.id = id
        \/ e.kind \in Patching /\ e.id = id /\ Shows(id)
        \/ view'[id] = view[id]
    BY DEF ApplyEvent, Shows, Patching
  <1> QED
    BY <1>1, <1>2, <1>3, <1>4, <1>5

(* Every step of daemon and dashboard keeps the invariant.                  *)
LEMMA TuiInvStep ==
  ASSUME IInv, BusInv, TuiInv, [TuiNext]_<<vars, tuiVars>>
  PROVE  TuiInv'
  <1>0. [Next]_vars
    BY TuiStep
  <1>1. /\ AllBacked(stream) /\ AllBacked(rx)
        /\ DOMAIN view = Ids /\ \A id \in Ids : RowExplained(id)
    BY TuiInvSplit, ChannelsSplit
  <1>2. ASSUME NEW s, AllBacked(s) PROVE AllBacked(s)'
    BY <1>0, <1>2, AllBackedKept
  <1>3. UNCHANGED view => DOMAIN view' = Ids /\ \A id \in Ids : RowExplained(id)'
    BY <1>0, ViewKept
  <1>4. ASSUME NEW s, s = stream', AllBacked(s)' PROVE AllBacked(stream)'
    BY <1>4 DEF AllBacked
  <1>5. ASSUME NEW s, s = rx', AllBacked(s)' PROVE AllBacked(rx)'
    BY <1>5 DEF AllBacked
  <1> SUFFICES /\ AllBacked(stream)' /\ AllBacked(rx)'
               /\ DOMAIN view' = Ids /\ \A id \in Ids : RowExplained(id)'
    BY DEF TuiInv, ViewKnown, ViewExplained, RowExplained, ChannelsBacked, AllBacked
  <1>6. UNCHANGED stream => AllBacked(stream)'
    BY <1>1, <1>2, <1>4
  <1>7. UNCHANGED rx => AllBacked(rx)'
    BY <1>1, <1>2, <1>5
  <1>8. CASE Serve \/ Subscribe \/ Call \/ Answered \/ UNCHANGED <<vars, tuiVars>>
    BY <1>3, <1>6, <1>7, <1>8 DEF Serve, Subscribe, Call, Answered, tuiVars
  <1>9. CASE DaemonStops \/ Cut
    <2>1. Unlink /\ UNCHANGED <<rx, view>>
      BY <1>9 DEF DaemonStops, Cut
    <2>2. PICK n \in 0..Len(stream) : stream' = SubSeq(stream, 1, n)
      BY <2>1 DEF Unlink
    <2>3. AllBacked(SubSeq(stream, 1, n))
      BY <1>1, PrefixBacked
    <2>4. PICK s : s = SubSeq(stream, 1, n)
      OBVIOUS
    <2>5. AllBacked(s)'
      BY <1>2, <2>3, <2>4
    <2> QED
      BY <1>3, <1>4, <1>7, <2>1, <2>2, <2>4, <2>5
  <1>10. CASE Push
    <2>1. /\ bus # << >> /\ UNCHANGED <<rx, view>>
          /\ stream' = IF linked THEN Append(stream, Head(bus)) ELSE stream
      BY <1>10 DEF Push, Forward
    <2>2. AllBacked(Append(stream, Head(bus)))
      BY <1>1, <2>1, HeadOfBusBacked, AppendBacked
    <2>3. PICK s : s = Append(stream, Head(bus))
      OBVIOUS
    <2>4. AllBacked(s)'
      BY <1>2, <2>2, <2>3
    <2> QED
      BY <1>3, <1>4, <1>6, <1>7, <2>1, <2>3, <2>4
  <1>11. CASE Snapshot
    <2>1. view' = FromSnapshot /\ UNCHANGED <<sessions, events, stream, rx>>
      BY <1>11 DEF Snapshot, vars
    <2>2. ASSUME NEW id \in Ids PROVE RowExplained(id)'
      <3>1. CASE Exists(sessions, id)
        <4>1. view'[id] = Shown(sessions[id])
          BY <2>1, <3>1 DEF FromSnapshot
        <4>2. /\ DOMAIN view'[id] = {"status", "display_name", "current_task", "usage"}
              /\ view'[id].status = sessions[id].status
              /\ view'[id].current_task = sessions[id].current_task
          BY <4>1 DEF Shown
        <4>3. sessions[id].status # "absent"
          BY <3>1 DEF Exists, Statuses
        <4>4. /\ sessions[id].status \in {"working", "waiting_for_user", "errored"} =>
                   Recorded(id, "session.status_changed", sessions[id].status)
              /\ sessions[id].status = "idle" =>
                   \/ Recorded(id, "session.status_changed", "idle")
                   \/ Recorded(id, "session.status_changed", "errored")
              /\ sessions[id].current_task # None =>
                   Recorded(id, "session.task_changed", sessions[id].current_task)
          BY DEF IInv, HistoryExplainsRow
        <4> QED
          BY <2>1, <4>2, <4>3, <4>4 DEF RowExplained, Recorded
      <3>2. CASE ~Exists(sessions, id)
        <4>1. view'[id] = NoView
          BY <2>1, <3>2 DEF FromSnapshot
        <4> QED
          BY <4>1 DEF RowExplained, Shows
      <3> QED
        BY <3>1, <3>2
    <2>3. DOMAIN view' = Ids
      BY <2>1 DEF FromSnapshot
    <2> QED
      BY <1>6, <1>7, <2>1, <2>2, <2>3
  <1>12. CASE ReadFrame
    <2>1. /\ stream # << >> /\ stream' = Tail(stream) /\ UNCHANGED view
          /\ rx' = Append(IF Len(rx) < RxCapacity THEN rx ELSE Tail(rx), Head(stream))
      BY <1>12 DEF ReadFrame
    <2>2. AllBacked(Tail(stream)) /\ Backed(Head(stream)) /\ Head(stream) \in BusEvent
      BY <1>1, <2>1, TailBacked
    <2>3. PICK r : r = IF Len(rx) < RxCapacity THEN rx ELSE Tail(rx)
      OBVIOUS
    <2>4. AllBacked(r)
      <3>1. CASE Len(rx) < RxCapacity
        BY <1>1, <2>3, <3>1
      <3>2. CASE ~(Len(rx) < RxCapacity)
        <4>1. rx # << >>
          BY <3>2, ReplicaBounds
        <4> QED
          BY <1>1, <2>3, <3>2, <4>1, TailBacked
      <3> QED
        BY <3>1, <3>2
    <2>5. AllBacked(Append(r, Head(stream)))
      BY <2>2, <2>4, AppendBacked
    <2>6. PICK s, t : s = Tail(stream) /\ t = Append(r, Head(stream))
      OBVIOUS
    <2>7. AllBacked(s)' /\ AllBacked(t)'
      BY <1>2, <2>2, <2>5, <2>6
    <2> QED
      BY <1>3, <1>4, <1>5, <2>1, <2>3, <2>6, <2>7
  <1>13. CASE Apply
    <2>1. /\ rx # << >> /\ rx' = Tail(rx) /\ view' = ApplyEvent(view, Head(rx))
          /\ UNCHANGED vars /\ UNCHANGED stream
      BY <1>13 DEF Apply
    <2>2. AllBacked(Tail(rx)) /\ Backed(Head(rx)) /\ Head(rx) \in BusEvent
      BY <1>1, <2>1, TailBacked
    <2>3. \A id \in Ids : RowExplained(id)'
      BY <1>1, <2>1, <2>2, ApplyExplained
    <2>4. DOMAIN view' = Ids
      BY <1>1, <2>1 DEF ApplyEvent
    <2>5. PICK s : s = Tail(rx)
      OBVIOUS
    <2>6. AllBacked(s)'
      BY <1>2, <2>2, <2>5
    <2> QED
      BY <1>5, <1>6, <2>1, <2>3, <2>4, <2>5, <2>6
  <1>14. CASE Quit
    <2>1. stream' = << >> /\ rx' = << >> /\ view' = [id \in Ids |-> NoView]
      BY <1>14 DEF Quit
    <2>2. AllBacked(stream)' /\ AllBacked(rx)'
      BY <2>1 DEF AllBacked
    <2>3. DOMAIN view' = Ids /\ \A id \in Ids : RowExplained(id)'
      BY <2>1 DEF RowExplained, Shows
    <2> QED
      BY <2>2, <2>3
  <1> QED
    BY <1>8, <1>9, <1>10, <1>11, <1>12, <1>13, <1>14 DEF TuiNext, Dashboard

-----------------------------------------------------------------------------
(* The dashboard only reads: daemon and dashboard together behave, as far   *)
(* as the daemon is concerned, like the daemon alone (tui/, router.rs), so *)
(* every theorem about the session service holds beside a dashboard.       *)
THEOREM DashboardOnlyReads == TuiSpec => Spec
  <1>1. TuiInit => Init
    BY DEF TuiInit
  <1>2. [TuiNext]_<<vars, tuiVars>> => [Next]_vars
    BY TuiStep
  <1> QED
    BY <1>1, <1>2, PTL DEF TuiSpec, Spec

(* A dashboard beside it, with its races, cuts and restarts, leaves the     *)
(* daemon an implementation of the ledger (tui/, router.rs).               *)
THEOREM LedgerBesideDashboard == TuiSpec => LedgerKept
  BY DashboardOnlyReads, ImplementsLedger, PTL

(* The invariant behind ViewExplained holds throughout.                     *)
THEOREM TuiInvHolds == TuiSpec => []TuiInv
  <1>1. TuiInit => TuiInv
    <2> SUFFICES ASSUME TuiInit PROVE TuiInv
      OBVIOUS
    <2>1. ChannelsBacked
      BY DEF TuiInit, ChannelsBacked
    <2>2. ViewKnown /\ ViewExplained
      BY DEF TuiInit, ViewKnown, ViewExplained, Shows
    <2> QED
      BY <2>1, <2>2 DEF TuiInv
  <1>2. IInv /\ BusInv /\ TuiInv /\ [TuiNext]_<<vars, tuiVars>> => TuiInv'
    BY TuiInvStep
  <1> QED
    BY <1>1, <1>2, DashboardOnlyReads, IInvHolds, BusInvHolds, PTL DEF TuiSpec

(* Whatever races, losses, cuts and restarts do to the dashboard's rows, it *)
(* shows no status and no task that the history of the session does not    *)
(* have (TuiState::apply_event, session_report_event).                     *)
THEOREM ShownIsRecorded == TuiSpec => []ViewExplained
  <1>1. TuiInv => ViewExplained
    BY DEF TuiInv
  <1> QED
    BY <1>1, TuiInvHolds, PTL

-----------------------------------------------------------------------------
(***************************************************************************)
(* Convergence.  For each field of each session the events that set it are *)
(* on their way from the handler that owes them through bus, stream and rx *)
(* to the view; the last of them carries what the table says, and when     *)
(* there is none the view already shows it.                                *)
(***************************************************************************)
ViewFields == {"status", "display_name", "current_task", "usage"}

Births == {"session.created", "session.discovered"}

Deaths == {"session.killed", "session.finished"}

(* The kinds of events that set a field, and the value they give it.        *)
Touching(f) ==
  Births \cup Deaths \cup
    CASE f = "status"       -> {"session.status_changed", "session.dismissed_error"}
      [] f = "display_name" -> {"session.renamed"}
      [] f = "current_task" -> {"session.task_changed"}
      [] f = "usage"        -> {"session.usage_updated"}

Says(e, f) ==
  CASE e.kind \in Births                  -> Shown(NewRow(None, None, e.val))[f]
    [] e.kind = "session.dismissed_error" -> "idle"
    [] e.kind = "session.usage_updated"   -> FieldsOf[e.val]
    [] e.kind \in {"session.status_changed", "session.renamed", "session.task_changed"} -> e.val

Agrees(t, e, f) == e.kind \in Deaths \/ Says(e, f) = Shown(t[e.id])[f]

(* Events of some kinds about a session in a channel, and the last of them. *)
Is(e, K, id) == e.kind \in K /\ e.id = id

Has(s, K, id) == \E i \in 1..Len(s) : Is(s[i], K, id)

LastAgrees(t, s, f, id) ==
  \A i \in 1..Len(s) :
    Is(s[i], Touching(f), id) /\ (\A j \in (i + 1)..Len(s) : ~Is(s[j], Touching(f), id)) =>
      Agrees(t, s[i], f)

(* The event a handler has written and not yet announced; c is the local    *)
(* state of a control thread, d that of a plugin connection.               *)
CtlOwes(c) == c.pc \in {"create_emit", "rename_emit", "dismiss_emit", "kill_emit"}

CtlDebt(c) ==
  [ kind |-> CASE c.pc = "create_emit"  -> "session.created"
               [] c.pc = "rename_emit"  -> "session.renamed"
               [] c.pc = "dismiss_emit" -> "session.dismissed_error"
               [] c.pc = "kill_emit"    -> "session.killed",
    id   |-> c.id,
    val  |-> IF c.pc \in {"create_emit", "rename_emit"} THEN c.name ELSE None ]

ConnOwes(d) == d.pc \in {"discover_emit", "report_emit"}

ConnDebt(d) ==
  IF d.pc = "discover_emit" THEN [kind |-> "session.discovered", id |-> d.id, val |-> d.name]
  ELSE [kind |-> d.report.kind, id |-> d.id, val |-> d.report.val]

Debts ==
  {CtlDebt(ctl[w]) : w \in {v \in Workers : CtlOwes(ctl[v])}}
    \cup {ConnDebt(conn[p]) : p \in {q \in Plugins : ConnOwes(conn[q])}}

Owed(K, id) == \E e \in Debts : Is(e, K, id)

OwedAgree == \A e \in Debts : \A f \in ViewFields : e.kind \in Touching(f) => Agrees(sessions, e, f)

(* Sequences. *)
LEMMA HasAppend ==
  ASSUME NEW s \in Seq(BusEvent), NEW e \in BusEvent, NEW K, NEW id
  PROVE  Has(Append(s, e), K, id) <=> Has(s, K, id) \/ Is(e, K, id)
  <1>1. /\ Len(Append(s, e)) = Len(s) + 1 /\ Len(s) \in Nat
        /\ \A i \in 1..Len(s) : Append(s, e)[i] = s[i]
        /\ Append(s, e)[Len(s) + 1] = e
    OBVIOUS
  <1>2. ASSUME Has(Append(s, e), K, id) PROVE Has(s, K, id) \/ Is(e, K, id)
    <2>1. PICK i \in 1..(Len(s) + 1) : Is(Append(s, e)[i], K, id)
      BY <1>1, <1>2 DEF Has
    <2>2. i \in 1..Len(s) \/ i = Len(s) + 1
      BY <1>1
    <2> QED
      BY <1>1, <2>1, <2>2 DEF Has
  <1>3. ASSUME Has(s, K, id) PROVE Has(Append(s, e), K, id)
    <2>1. PICK i \in 1..Len(s) : Is(s[i], K, id)
      BY <1>3 DEF Has
    <2>2. i \in 1..(Len(s) + 1)
      BY <1>1
    <2> QED
      BY <1>1, <2>1, <2>2 DEF Has
  <1>4. ASSUME Is(e, K, id) PROVE Has(Append(s, e), K, id)
    <2>1. Len(s) + 1 \in 1..(Len(s) + 1)
      BY <1>1
    <2> QED
      BY <1>1, <1>4, <2>1 DEF Has
  <1> QED
    BY <1>2, <1>3, <1>4

LEMMA HasTail ==
  ASSUME NEW s \in Seq(BusEvent), s # << >>, NEW K, NEW id
  PROVE  Has(s, K, id) <=> Is(Head(s), K, id) \/ Has(Tail(s), K, id)
  <1>1. /\ Len(s) \in Nat \ {0} /\ Len(Tail(s)) = Len(s) - 1 /\ Head(s) = s[1]
        /\ \A i \in 1..(Len(s) - 1) : Tail(s)[i] = s[i + 1]
    OBVIOUS
  <1>2. ASSUME Has(s, K, id) PROVE Is(Head(s), K, id) \/ Has(Tail(s), K, id)
    <2>1. PICK i \in 1..Len(s) : Is(s[i], K, id)
      BY <1>2 DEF Has
    <2>2. i = 1 \/ (i - 1 \in 1..(Len(s) - 1) /\ i = (i - 1) + 1)
      BY <1>1
    <2>3. CASE i = 1
      BY <1>1, <2>1, <2>3
    <2>4. CASE i - 1 \in 1..(Len(s) - 1) /\ i = (i - 1) + 1
      <3>1. Tail(s)[i - 1] = s[i]
        BY <1>1, <2>4
      <3> QED
        BY <1>1, <2>1, <2>4, <3>1 DEF Has
    <2> QED
      BY <2>2, <2>3, <2>4
  <1>3. ASSUME Is(Head(s), K, id) PROVE Has(s, K, id)
    BY <1>1, <1>3 DEF Has
  <1>4. ASSUME Has(Tail(s), K, id) PROVE Has(s, K, id)
    <2>1. PICK i \in 1..(Len(s) - 1) : Is(Tail(s)[i], K, id)
      BY <1>1, <1>4 DEF Has
    <2>2. i + 1 \in 1..Len(s) /\ Tail(s)[i] = s[i + 1]
      BY <1>1
    <2> QED
      BY <2>1, <2>2 DEF Has
  <1> QED
    BY <1>2, <1>3, <1>4

LEMMA LastAppend ==
  ASSUME NEW s \in Seq(BusEvent), NEW e \in BusEvent, NEW t, NEW f, NEW id,
         IF Is(e, Touching(f), id) THEN Agrees(t, e, f) ELSE LastAgrees(t, s, f, id)
  PROVE  LastAgrees(t, Append(s, e), f, id)
  <1>1. /\ Len(Append(s, e)) = Len(s) + 1 /\ Len(s) \in Nat
        /\ \A i \in 1..Len(s) : Append(s, e)[i] = s[i]
        /\ Append(s, e)[Len(s) + 1] = e
    OBVIOUS
  <1> DEFINE q == Append(s, e)
  <1> HIDE DEF q
  <1> SUFFICES ASSUME NEW i \in 1..Len(q), Is(q[i], Touching(f), id),
                      \A j \in (i + 1)..Len(q) : ~Is(q[j], Touching(f), id)
               PROVE  Agrees(t, q[i], f)
    BY DEF LastAgrees, q
  <1>2. CASE i = Len(s) + 1
    BY <1>1, <1>2 DEF q
  <1>3. CASE i \in 1..Len(s)
    <2>1. q[i] = s[i] /\ Len(s) + 1 \in (i + 1)..Len(q) /\ q[Len(s) + 1] = e
      BY <1>1, <1>3 DEF q
    <2>2. ~Is(e, Touching(f), id)
      BY <2>1
    <2>3. \A j \in (i + 1)..Len(s) : j \in (i + 1)..Len(q) /\ q[j] = s[j]
      BY <1>1, <1>3 DEF q
    <2>4. \A j \in (i + 1)..Len(s) : ~Is(s[j], Touching(f), id)
      BY <2>3
    <2> QED
      BY <1>3, <2>1, <2>2, <2>4 DEF LastAgrees
  <1> QED
    BY <1>1, <1>2, <1>3 DEF q

LEMMA LastTail ==
  ASSUME NEW s \in Seq(BusEvent), s # << >>, NEW t, NEW f, NEW id, LastAgrees(t, s, f, id)
  PROVE  /\ LastAgrees(t, Tail(s), f, id)
         /\ Is(Head(s), Touching(f), id) /\ ~Has(Tail(s), Touching(f), id) => Agrees(t, Head(s), f)
  <1>1. /\ Len(s) \in Nat \ {0} /\ Len(Tail(s)) = Len(s) - 1 /\ Head(s) = s[1]
        /\ \A i \in 1..(Len(s) - 1) : Tail(s)[i] = s[i + 1]
    OBVIOUS
  <1>2. LastAgrees(t, Tail(s), f, id)
    <2> SUFFICES ASSUME NEW i \in 1..(Len(s) - 1), Is(Tail(s)[i], Touching(f), id),
                        \A j \in (i + 1)..(Len(s) - 1) : ~Is(Tail(s)[j], Touching(f), id)
                 PROVE  Agrees(t, Tail(s)[i], f)
      BY <1>1 DEF LastAgrees
    <2>1. i + 1 \in 1..Len(s) /\ Tail(s)[i] = s[i + 1]
      BY <1>1
    <2>2. ASSUME NEW j \in ((i + 1) + 1)..Len(s) PROVE ~Is(s[j], Touching(f), id)
      <3>1. /\ j - 1 \in (i + 1)..(Len(s) - 1) /\ j - 1 \in 1..(Len(s) - 1)
            /\ (j - 1) + 1 = j
        BY <1>1
      <3>2. Tail(s)[j - 1] = s[j]
        BY <1>1, <3>1
      <3> QED
        BY <3>1, <3>2
    <2> QED
      BY <2>1, <2>2 DEF LastAgrees
  <1>3. ASSUME Is(Head(s), Touching(f), id), ~Has(Tail(s), Touching(f), id)
        PROVE  Agrees(t, Head(s), f)
    <2>1. ASSUME NEW j \in (1 + 1)..Len(s) PROVE ~Is(s[j], Touching(f), id)
      <3>1. j - 1 \in 1..(Len(s) - 1) /\ (j - 1) + 1 = j
        BY <1>1
      <3>2. Tail(s)[j - 1] = s[j]
        BY <1>1, <3>1
      <3> QED
        BY <1>1, <1>3, <3>1, <3>2 DEF Has
    <2>2. 1 \in 1..Len(s)
      BY <1>1
    <2> QED
      BY <1>1, <1>3, <2>1, <2>2 DEF LastAgrees
  <1> QED
    BY <1>2, <1>3

(* Only the row's own field matters. *)
LEMMA LastKept ==
  ASSUME NEW t, NEW u, NEW s, NEW f, NEW id, LastAgrees(t, s, f, id),
         Shown(u[id])[f] = Shown(t[id])[f]
  PROVE  LastAgrees(u, s, f, id)
  BY DEF LastAgrees, Agrees, Is

LEMMA EmptyHasNone ==
  ASSUME NEW K, NEW id
  PROVE  ~Has(<< >>, K, id)
  BY DEF Has

-----------------------------------------------------------------------------
(* What a statement on row j, about to be announced by e, does to the table. *)
Written(t, u, j, e) ==
  /\ \A id \in Ids \ {j} : u[id] = t[id]
  /\ \A f \in ViewFields : IF e.kind \in Touching(f) THEN Agrees(u, e, f)
                           ELSE Shown(u[j])[f] = Shown(t[j])[f]
  /\ e.kind \in Births \/ (Exists(t, j) /\ (u[j].finished_at = None => t[j].finished_at = None))

LEMMA ShownFields ==
  ASSUME NEW r
  PROVE  /\ Shown(r)["status"] = r.status
         /\ Shown(r)["display_name"] = r.display_name
         /\ Shown(r)["current_task"] = r.current_task
         /\ Shown(r)["usage"] = IF r.usage = None THEN NoUsage ELSE FieldsOf[r.usage]
  BY DEF Shown

LEMMA InsertWritten ==
  ASSUME NEW t \in [Ids -> Row], NEW j \in Ids, NEW o, NEW x, NEW n, NEW u,
         u = Insert(t, j, NewRow(o, x, n)), NEW e, e.kind \in Births, e.id = j, e.val = n
  PROVE  Written(t, u, j, e)
  <1>1. u[j] = NewRow(o, x, n) /\ \A id \in Ids \ {j} : u[id] = t[id]
    BY DEF Insert
  <1>2. Shown(NewRow(o, x, n)) = Shown(NewRow(None, None, n))
    BY DEF Shown, NewRow
  <1>3. \A f \in ViewFields : e.kind \in Touching(f) /\ Says(e, f) = Shown(NewRow(None, None, n))[f]
    BY DEF Touching, Says, Births
  <1>4. \A f \in ViewFields : Agrees(u, e, f)
    BY <1>1, <1>2, <1>3 DEF Agrees
  <1> QED
    BY <1>1, <1>3, <1>4 DEF Written

LEMMA FinishWritten ==
  ASSUME NEW t \in [Ids -> Row], NEW j \in Ids, NEW a \in Ages, NEW e,
         e.kind \in Deaths, e.id = j, Exists(t, j)
  PROVE  Written(t, MarkFinished(t, j, a), j, e)
  <1> DEFINE u == MarkFinished(t, j, a)
  <1>1. u[j].finished_at = a /\ \A id \in Ids \ {j} : u[id] = t[id]
    BY DEF MarkFinished, Row
  <1>2. \A f \in ViewFields : e.kind \in Touching(f) /\ Agrees(u, e, f)
    BY DEF Touching, Agrees
  <1>3. a # None
    BY NoneIsNoString
  <1> HIDE DEF u
  <1> QED
    BY <1>1, <1>2, <1>3 DEF Written, u

(* An UPDATE of one field. *)
LEMMA FieldWritten ==
  ASSUME NEW t \in [Ids -> Row], NEW j \in Ids, Exists(t, j), NEW u, NEW e, e.id = j,
         \/ u = UpdateStatus(t, j, e.val) /\ e.kind = "session.status_changed"
         \/ u = UpdateStatus(t, j, "idle") /\ e.kind = "session.dismissed_error"
         \/ u = UpdateTask(t, j, e.val) /\ e.kind = "session.task_changed"
         \/ u = UpdateRename(t, j, e.val) /\ e.kind = "session.renamed"
         \/ u = UpdateUsage(t, j, e.val) /\ e.kind = "session.usage_updated" /\ e.val \in Usages
  PROVE  Written(t, u, j, e)
  <1>1. CASE \/ u = UpdateStatus(t, j, e.val) /\ e.kind = "session.status_changed"
             \/ u = UpdateStatus(t, j, "idle") /\ e.kind = "session.dismissed_error"
    <2>1. /\ \A id \in Ids \ {j} : u[id] = t[id]
          /\ u[j].status = IF e.kind = "session.status_changed" THEN e.val ELSE "idle"
          /\ u[j].display_name = t[j].display_name /\ u[j].current_task = t[j].current_task
          /\ u[j].usage = t[j].usage /\ u[j].finished_at = t[j].finished_at
      BY <1>1 DEF UpdateStatus, Row
    <2>2. Says(e, "status") = u[j].status
      BY <1>1, <2>1 DEF Says, Births
    <2>3. /\ e.kind \notin Births /\ e.kind \in Touching("status") /\ e.kind \notin Touching("display_name")
          /\ e.kind \notin Touching("current_task") /\ e.kind \notin Touching("usage")
      BY <1>1 DEF Touching, Births, Deaths
    <2> QED
      BY <2>1, <2>2, <2>3, ShownFields DEF Written, Agrees, ViewFields
  <1>2. CASE u = UpdateTask(t, j, e.val) /\ e.kind = "session.task_changed"
    <2>1. /\ \A id \in Ids \ {j} : u[id] = t[id]
          /\ u[j].status = t[j].status
          /\ u[j].display_name = t[j].display_name /\ u[j].current_task = e.val
          /\ u[j].usage = t[j].usage /\ u[j].finished_at = t[j].finished_at
      BY <1>2 DEF UpdateTask, Row
    <2>2. Says(e, "current_task") = u[j].current_task
      BY <1>2, <2>1 DEF Says, Births
    <2>3. /\ e.kind \notin Births /\ e.kind \notin Touching("status") /\ e.kind \notin Touching("display_name")
          /\ e.kind \in Touching("current_task") /\ e.kind \notin Touching("usage")
      BY <1>2 DEF Touching, Births, Deaths
    <2> QED
      BY <2>1, <2>2, <2>3, ShownFields DEF Written, Agrees, ViewFields
  <1>3. CASE u = UpdateRename(t, j, e.val) /\ e.kind = "session.renamed"
    <2>1. /\ \A id \in Ids \ {j} : u[id] = t[id]
          /\ u[j].status = t[j].status
          /\ u[j].display_name = e.val /\ u[j].current_task = t[j].current_task
          /\ u[j].usage = t[j].usage /\ u[j].finished_at = t[j].finished_at
      BY <1>3 DEF UpdateRename, Row
    <2>2. Says(e, "display_name") = u[j].display_name
      BY <1>3, <2>1 DEF Says, Births
    <2>3. /\ e.kind \notin Births /\ e.kind \notin Touching("status") /\ e.kind \in Touching("display_name")
          /\ e.kind \notin Touching("current_task") /\ e.kind \notin Touching("usage")
      BY <1>3 DEF Touching, Births, Deaths
    <2> QED
      BY <2>1, <2>2, <2>3, ShownFields DEF Written, Agrees, ViewFields
  <1>4. CASE u = UpdateUsage(t, j, e.val) /\ e.kind = "session.usage_updated" /\ e.val \in Usages
    <2>1. /\ \A id \in Ids \ {j} : u[id] = t[id]
          /\ u[j].status = t[j].status
          /\ u[j].display_name = t[j].display_name /\ u[j].current_task = t[j].current_task
          /\ u[j].usage = e.val /\ e.val # None /\ u[j].finished_at = t[j].finished_at
      BY <1>4, NoneAssumption DEF UpdateUsage, Row
    <2>2. Says(e, "usage") = FieldsOf[e.val]
      BY <1>4, <2>1 DEF Says, Births
    <2>3. /\ e.kind \notin Births /\ e.kind \notin Touching("status") /\ e.kind \notin Touching("display_name")
          /\ e.kind \notin Touching("current_task") /\ e.kind \in Touching("usage")
      BY <1>4 DEF Touching, Births, Deaths
    <2> QED
      BY <2>1, <2>2, <2>3, ShownFields DEF Written, Agrees, ViewFields
  <1> QED
    BY <1>1, <1>2, <1>3, <1>4
-----------------------------------------------------------------------------
(* A step of the daemon, as far as the dashboard can tell, while no handler *)
(* of an earlier process runs and nothing is collected.  It announces      *)
(* nothing the dashboard shows, or writes a row and owes the event, or     *)
(* emits an event it owed.                                                 *)
Put(s, e) == Append(IF Len(s) < BusCapacity THEN s ELSE Tail(s), e)

RowLike(r, q) == Shown(r) = Shown(q) /\ (r.finished_at = None => q.finished_at = None)

Silent ==
  /\ \A id \in Ids : /\ RowLike(sessions'[id], sessions[id])
                     /\ Exists(sessions', id) => Exists(sessions, id)
  /\ Debts' = Debts
  /\ \/ bus' = bus
     \/ \E e \in BusEvent : /\ bus' = Put(bus, e)
                            /\ e.kind \in {"session.jumped", "plugin.connected", "daemon.shutting_down"}

Writes ==
  /\ bus' = bus
  /\ \E e : /\ e.id \in Ids
            /\ Written(sessions, sessions', e.id, e)
            /\ Debts' = Debts \cup {e}
            /\ ~Meet' => \A d \in Debts : d.id # e.id

Emits ==
  /\ UNCHANGED sessions
  /\ \E e \in Debts : /\ e \in BusEvent
                      /\ bus' = Put(bus, e)
                      /\ Debts' \subseteq Debts
                      /\ Debts \subseteq Debts' \cup {e}

LEMMA DebtIs ==
  ASSUME NEW e
  PROVE  e \in Debts <=> \/ \E w \in Workers : CtlOwes(ctl[w]) /\ e = CtlDebt(ctl[w])
                         \/ \E p \in Plugins : ConnOwes(conn[p]) /\ e = ConnDebt(conn[p])
  BY DEF Debts

LEMMA DebtIsNext ==
  ASSUME NEW e
  PROVE  e \in Debts' <=> \/ \E w \in Workers : CtlOwes(ctl'[w]) /\ e = CtlDebt(ctl'[w])
                          \/ \E p \in Plugins : ConnOwes(conn'[p]) /\ e = ConnDebt(conn'[p])
  BY DEF Debts

LEMMA DebtIds ==
  ASSUME IInv, NEW e \in Debts
  PROVE  e.id \in Ids
  <1>1. CASE \E w \in Workers : CtlOwes(ctl[w]) /\ e = CtlDebt(ctl[w])
    BY <1>1 DEF IInv, HandlersInformed, Known, CtlOwes, CtlDebt
  <1>2. CASE \E p \in Plugins : ConnOwes(conn[p]) /\ e = ConnDebt(conn[p])
    <2>1. PICK p \in Plugins : ConnOwes(conn[p]) /\ e = ConnDebt(conn[p])
      BY <1>2
    <2>2. conn[p].id \in Ids
      BY <2>1 DEF IInv, HandlersInformed, Known, ConnOwes
    <2> QED
      BY <2>1, <2>2 DEF ConnDebt
  <1> QED
    BY <1>1, <1>2, DebtIs

(* One handler moves: what it owes is all that changes.                     *)
LEMMA CtlDebts ==
  ASSUME NEW w \in Workers, UNCHANGED conn, \A v \in Workers \ {w} : ctl'[v] = ctl[v]
  PROVE  /\ ~CtlOwes(ctl[w]) /\ ~CtlOwes(ctl'[w]) => Debts' = Debts
         /\ ~CtlOwes(ctl[w]) /\ CtlOwes(ctl'[w]) => Debts' = Debts \cup {CtlDebt(ctl'[w])}
         /\ CtlOwes(ctl[w]) /\ ~CtlOwes(ctl'[w]) =>
              Debts' \subseteq Debts /\ Debts \subseteq Debts' \cup {CtlDebt(ctl[w])}
         /\ ~CtlOwes(ctl[w]) /\ ctl'[w].id \in Ids /\ ~Meet' => \A d \in Debts : d.id # ctl'[w].id
  <1>1. ASSUME ~CtlOwes(ctl[w]), ~CtlOwes(ctl'[w]) PROVE Debts' = Debts
    <2>1. \A e : e \in Debts' <=> e \in Debts
      BY <1>1, DebtIs, DebtIsNext
    <2> QED
      BY <1>1, <2>1
  <1>2. ASSUME ~CtlOwes(ctl[w]), CtlOwes(ctl'[w]) PROVE Debts' = Debts \cup {CtlDebt(ctl'[w])}
    <2>1. \A e : e \in Debts' <=> e \in Debts \cup {CtlDebt(ctl'[w])}
      BY <1>2, DebtIs, DebtIsNext
    <2> QED
      BY <1>2, <2>1
  <1>3. ASSUME CtlOwes(ctl[w]), ~CtlOwes(ctl'[w])
        PROVE  Debts' \subseteq Debts /\ Debts \subseteq Debts' \cup {CtlDebt(ctl[w])}
    BY <1>3, DebtIs, DebtIsNext
  <1>4. ASSUME ~CtlOwes(ctl[w]), ctl'[w].id \in Ids, ~Meet', NEW d \in Debts
        PROVE  d.id # ctl'[w].id
    <2>1. ctl'[w].id # None
      BY <1>4, NoneAssumption
    <2>2. CASE \E v \in Workers : CtlOwes(ctl[v]) /\ d = CtlDebt(ctl[v])
      BY <1>4, <2>1, <2>2 DEF CtlDebt, Meet
    <2>3. CASE \E p \in Plugins : ConnOwes(conn[p]) /\ d = ConnDebt(conn[p])
      BY <1>4, <2>1, <2>3 DEF ConnDebt, Meet
    <2> QED
      BY <2>2, <2>3, DebtIs
  <1> QED
    BY <1>1, <1>2, <1>3, <1>4

LEMMA ConnDebts ==
  ASSUME NEW p \in Plugins, UNCHANGED ctl, \A q \in Plugins \ {p} : conn'[q] = conn[q]
  PROVE  /\ ~ConnOwes(conn[p]) /\ ~ConnOwes(conn'[p]) => Debts' = Debts
         /\ ~ConnOwes(conn[p]) /\ ConnOwes(conn'[p]) => Debts' = Debts \cup {ConnDebt(conn'[p])}
         /\ ConnOwes(conn[p]) /\ ~ConnOwes(conn'[p]) =>
              Debts' \subseteq Debts /\ Debts \subseteq Debts' \cup {ConnDebt(conn[p])}
         /\ ~ConnOwes(conn[p]) /\ conn'[p].id \in Ids /\ ~Meet' => \A d \in Debts : d.id # conn'[p].id
  <1>1. ASSUME ~ConnOwes(conn[p]), ~ConnOwes(conn'[p]) PROVE Debts' = Debts
    <2>1. \A e : e \in Debts' <=> e \in Debts
      BY <1>1, DebtIs, DebtIsNext
    <2> QED
      BY <1>1, <2>1
  <1>2. ASSUME ~ConnOwes(conn[p]), ConnOwes(conn'[p]) PROVE Debts' = Debts \cup {ConnDebt(conn'[p])}
    <2>1. \A e : e \in Debts' <=> e \in Debts \cup {ConnDebt(conn'[p])}
      BY <1>2, DebtIs, DebtIsNext
    <2> QED
      BY <1>2, <2>1
  <1>3. ASSUME ConnOwes(conn[p]), ~ConnOwes(conn'[p])
        PROVE  Debts' \subseteq Debts /\ Debts \subseteq Debts' \cup {ConnDebt(conn[p])}
    BY <1>3, DebtIs, DebtIsNext
  <1>4. ASSUME ~ConnOwes(conn[p]), conn'[p].id \in Ids, ~Meet', NEW d \in Debts
        PROVE  d.id # conn'[p].id
    <2>1. conn'[p].id # None
      BY <1>4, NoneAssumption
    <2>2. CASE \E v \in Workers : CtlOwes(ctl[v]) /\ d = CtlDebt(ctl[v])
      BY <1>4, <2>1, <2>2 DEF CtlDebt, Meet
    <2>3. CASE \E q \in Plugins : ConnOwes(conn[q]) /\ d = ConnDebt(conn[q])
      BY <1>4, <2>1, <2>3 DEF ConnDebt, Meet
    <2> QED
      BY <2>2, <2>3, DebtIs
  <1> QED
    BY <1>1, <1>2, <1>3, <1>4
LEMMA PutTyped ==
  ASSUME bus \in Seq(BusEvent), bus' \in Seq(BusEvent), NEW e, bus' = Put(bus, e)
  PROVE  e \in BusEvent
  <1> DEFINE q == IF Len(bus) < BusCapacity THEN bus ELSE Tail(bus)
  <1>1. q \in Seq(BusEvent)
    <2>1. CASE Len(bus) < BusCapacity
      BY <2>1
    <2>2. CASE ~(Len(bus) < BusCapacity)
      <3>1. bus # << >>
        BY <2>2, BusCapacityAssumption
      <3> QED
        BY <2>2, <3>1
    <2> QED
      BY <2>1, <2>2
  <1>2. bus' = Append(q, e)
    BY DEF Put
  <1> HIDE DEF q
  <1>3. Len(bus') = Len(q) + 1 /\ bus'[Len(q) + 1] = e /\ Len(q) \in Nat
    BY <1>1, <1>2
  <1> QED
    BY <1>3

LEMMA SameRows ==
  ASSUME UNCHANGED sessions
  PROVE  \A id \in Ids : /\ RowLike(sessions'[id], sessions[id])
                         /\ Exists(sessions', id) => Exists(sessions, id)
  BY DEF RowLike

LEMMA CtlShape ==
  ASSUME IInv, IInv', NEW w \in Workers, w \notin late, Control(w)
  PROVE  Silent \/ Writes \/ Emits
  <1>0. /\ sessions \in [Ids -> Row] /\ bus \in Seq(BusEvent) /\ bus' \in Seq(BusEvent)
        /\ ctl \in [Workers -> Ctl]
    BY DEF IInv, TypeOK
  <1>1. CASE SessionCreate(w)
    <2>1. PICK id \in Ids, n \in Names :
            /\ sessions' = Insert(sessions, id, NewRow(None, None, n))
            /\ CtlStart(w, "create_emit", id, n)
      BY <1>1 DEF SessionCreate
    <2>2. /\ ctl'[w] = [pc |-> "create_emit", id |-> id, name |-> n]
          /\ \A v \in Workers \ {w} : ctl'[v] = ctl[v]
          /\ ctl[w].pc = "idle" /\ UNCHANGED <<bus, conn>>
      BY <1>0, <1>1, <2>1 DEF SessionCreate, CtlStart, CtlAt
    <2>3. ~CtlOwes(ctl[w]) /\ CtlOwes(ctl'[w])
      BY <2>2 DEF CtlOwes
    <2>4. CtlDebt(ctl'[w]) = [kind |-> "session.created", id |-> id, val |-> n]
      BY <2>2 DEF CtlDebt
    <2>5. Written(sessions, sessions', id, CtlDebt(ctl'[w]))
      <3>1. /\ CtlDebt(ctl'[w]).kind \in Births
            /\ CtlDebt(ctl'[w]).id = id /\ CtlDebt(ctl'[w]).val = n
        BY <2>4 DEF Births
      <3> QED
        BY <1>0, <2>1, <3>1, InsertWritten
    <2> QED
      BY <2>2, <2>3, <2>4, <2>5, CtlDebts DEF Writes
  <1>2. CASE SessionRename(w)
    <2>1. PICK id \in Ids, n \in Names :
            /\ Exists(sessions, id)
            /\ sessions' = UpdateRename(sessions, id, n)
            /\ CtlStart(w, "rename_emit", id, n)
      BY <1>2 DEF SessionRename
    <2>2. /\ ctl'[w] = [pc |-> "rename_emit", id |-> id, name |-> n]
          /\ \A v \in Workers \ {w} : ctl'[v] = ctl[v]
          /\ ctl[w].pc = "idle" /\ UNCHANGED <<bus, conn>>
      BY <1>0, <1>2, <2>1 DEF SessionRename, CtlStart, CtlAt
    <2>3. ~CtlOwes(ctl[w]) /\ CtlOwes(ctl'[w])
      BY <2>2 DEF CtlOwes
    <2>4. CtlDebt(ctl'[w]) = [kind |-> "session.renamed", id |-> id, val |-> n]
      BY <2>2 DEF CtlDebt
    <2>5. Written(sessions, sessions', id, CtlDebt(ctl'[w]))
      BY <1>0, <2>1, <2>4, FieldWritten
    <2> QED
      BY <2>2, <2>3, <2>4, <2>5, CtlDebts DEF Writes
  <1>3. CASE /\ SessionDismissUpdate(w) \/ SessionKillMark(w)
             /\ Exists(sessions, ctl[w].id)
    <2>1. ctl[w].id \in Ids /\ Exists(sessions, ctl[w].id)
      BY <1>3 DEF SessionDismissUpdate, SessionKillMark, CtlAt, IInv, HandlersInformed, Known
    <2>2. /\ ctl'[w].pc = IF ctl[w].pc = "kill_mark" THEN "kill_emit" ELSE "dismiss_emit"
          /\ ctl'[w].id = ctl[w].id
          /\ \A v \in Workers \ {w} : ctl'[v] = ctl[v]
          /\ ctl[w].pc \in {"dismiss_update", "kill_mark"} /\ UNCHANGED <<bus, conn>>
      BY <1>0, <1>3 DEF SessionDismissUpdate, SessionKillMark, CtlNotFound, CtlGoto, CtlAt, Ctl
    <2>3. ~CtlOwes(ctl[w]) /\ CtlOwes(ctl'[w])
      BY <2>2 DEF CtlOwes
    <2>4. CtlDebt(ctl'[w]) = [kind |-> IF ctl[w].pc = "kill_mark" THEN "session.killed"
                                       ELSE "session.dismissed_error",
                              id |-> ctl[w].id, val |-> None]
      BY <2>2 DEF CtlDebt
    <2>5. Written(sessions, sessions', ctl[w].id, CtlDebt(ctl'[w]))
      <3>1. CASE SessionDismissUpdate(w)
        <4>1. sessions' = UpdateStatus(sessions, ctl[w].id, "idle") /\ ctl[w].pc = "dismiss_update"
          BY <2>1, <3>1 DEF SessionDismissUpdate, CtlNotFound, CtlAt
        <4> QED
          BY <1>0, <2>1, <2>4, <4>1, FieldWritten
      <3>2. CASE SessionKillMark(w)
        <4>1. sessions' = MarkFinished(sessions, ctl[w].id, "recent") /\ ctl[w].pc = "kill_mark"
          BY <2>1, <3>2 DEF SessionKillMark, CtlNotFound, CtlAt
        <4> QED
          BY <1>0, <2>1, <2>4, <4>1, FinishWritten DEF Deaths, Ages
      <3> QED
        BY <1>3, <3>1, <3>2
    <2> QED
      BY <2>1, <2>2, <2>3, <2>4, <2>5, CtlDebts DEF Writes
  <1>4. CASE SessionCreateEmit(w) \/ SessionRenameEmit(w) \/ SessionDismissEmit(w) \/ SessionKillEmit(w)
    <2>1. /\ ctl'[w] = IdleCtl
          /\ \A v \in Workers \ {w} : ctl'[v] = ctl[v]
          /\ UNCHANGED <<sessions, conn>>
      BY <1>0, <1>4 DEF SessionCreateEmit, SessionRenameEmit, SessionDismissEmit, SessionKillEmit,
         CtlReply, db
    <2>2. CtlOwes(ctl[w]) /\ ~CtlOwes(ctl'[w])
      BY <1>4, <2>1 DEF SessionCreateEmit, SessionRenameEmit, SessionDismissEmit, SessionKillEmit,
         CtlOwes, CtlAt, IdleCtl
    <2>3. bus' = Put(bus, CtlDebt(ctl[w]))
      <3>1. CASE SessionCreateEmit(w)
        BY <3>1 DEF SessionCreateEmit, CtlAt, EmitFrom, Emit, Put, CtlDebt
      <3>2. CASE SessionRenameEmit(w)
        BY <3>2 DEF SessionRenameEmit, CtlAt, EmitFrom, Emit, Put, CtlDebt
      <3>3. CASE SessionDismissEmit(w)
        BY <3>3 DEF SessionDismissEmit, CtlAt, EmitFrom, Emit, Put, CtlDebt
      <3>4. CASE SessionKillEmit(w)
        BY <3>4 DEF SessionKillEmit, CtlAt, EmitFrom, Emit, Put, CtlDebt
      <3> QED
        BY <1>4, <3>1, <3>2, <3>3, <3>4
    <2>4. CtlDebt(ctl[w]) \in Debts /\ CtlDebt(ctl[w]) \in BusEvent
      BY <1>0, <2>2, <2>3, DebtIs, PutTyped
    <2> QED
      BY <2>1, <2>2, <2>3, <2>4, CtlDebts DEF Emits
  <1>5. CASE \/ SessionDismissGet(w) \/ SessionJumpGet(w) \/ SessionKillGet(w) \/ SessionKillTmux(w)
             \/ SessionJumpSwitch(w) \/ DaemonShutdown(w)
    <2>1. /\ ctl'[w].pc \in {"dismiss_update", "jump_switch", "kill_tmux", "kill_mark", "idle"}
          /\ \A v \in Workers \ {w} : ctl'[v] = ctl[v]
          /\ ctl[w].pc \in {"idle", "kill_tmux", "jump_switch"}
          /\ UNCHANGED <<sessions, conn>>
      BY <1>0, <1>5 DEF SessionDismissGet, SessionJumpGet, SessionKillGet, SessionKillTmux,
         SessionJumpSwitch, DaemonShutdown, CtlStart, CtlGoto, CtlReply, CtlAt, IdleCtl, Ctl, db
    <2>2. ~CtlOwes(ctl[w]) /\ ~CtlOwes(ctl'[w])
      BY <2>1 DEF CtlOwes
    <2>3. Debts' = Debts
      BY <2>1, <2>2, CtlDebts
    <2>4. \/ bus' = bus
          \/ bus' = Put(bus, [kind |-> "session.jumped", id |-> ctl[w].id, val |-> None])
          \/ bus' = Put(bus, [kind |-> "daemon.shutting_down", id |-> None, val |-> None])
      BY <1>5 DEF SessionDismissGet, SessionJumpGet, SessionKillGet, SessionKillTmux,
         SessionJumpSwitch, DaemonShutdown, EmitFrom, Emit, Put
    <2>5. \/ bus' = bus
          \/ \E e \in BusEvent : /\ bus' = Put(bus, e)
                                 /\ e.kind \in {"session.jumped", "plugin.connected", "daemon.shutting_down"}
      BY <1>0, <2>4, PutTyped
    <2> QED
      BY <2>1, <2>3, <2>5, SameRows DEF Silent
  <1>6. CASE /\ SessionDismissUpdate(w) \/ SessionKillMark(w)
             /\ ~Exists(sessions, ctl[w].id)
    <2>1. /\ ctl'[w] = IdleCtl
          /\ \A v \in Workers \ {w} : ctl'[v] = ctl[v]
          /\ ctl[w].pc \in {"dismiss_update", "kill_mark"}
          /\ UNCHANGED <<sessions, conn, bus>>
      BY <1>0, <1>6 DEF SessionDismissUpdate, SessionKillMark, CtlNotFound, CtlReply, CtlAt
    <2>2. ~CtlOwes(ctl[w]) /\ ~CtlOwes(ctl'[w])
      BY <2>1 DEF CtlOwes, IdleCtl
    <2> QED
      BY <2>1, <2>2, CtlDebts, SameRows DEF Silent
  <1> QED
    BY <1>1, <1>2, <1>3, <1>4, <1>5, <1>6 DEF Control

LEMMA ConnShape ==
  ASSUME IInv, IInv', NEW p \in Plugins, p \notin late, Plugin(p)
  PROVE  Silent \/ Writes \/ Emits
  <1>0. /\ sessions \in [Ids -> Row] /\ bus \in Seq(BusEvent) /\ bus' \in Seq(BusEvent)
        /\ conn \in [Plugins -> Conn]
    BY DEF IInv, TypeOK
  <1>1. CASE SessionDiscover(p)
    <2>1. PICK id \in Ids, pane \in Panes, n \in Names :
            /\ sessions' = Insert(sessions, id, NewRow(p, pane, n))
            /\ ConnStart(p, "discover_emit", id, n, NoReport)
      BY <1>1 DEF SessionDiscover
    <2>2. /\ conn'[p] = [pc |-> "discover_emit", id |-> id, name |-> n, report |-> NoReport]
          /\ \A q \in Plugins \ {p} : conn'[q] = conn[q]
          /\ conn[p].pc = "idle" /\ UNCHANGED <<bus, ctl>>
      BY <1>0, <1>1, <2>1 DEF SessionDiscover, ConnStart, ConnAt
    <2>3. ~ConnOwes(conn[p]) /\ ConnOwes(conn'[p])
      BY <2>2 DEF ConnOwes
    <2>4. ConnDebt(conn'[p]) = [kind |-> "session.discovered", id |-> id, val |-> n]
      BY <2>2 DEF ConnDebt
    <2>5. Written(sessions, sessions', id, ConnDebt(conn'[p]))
      <3>1. /\ ConnDebt(conn'[p]).kind \in Births
            /\ ConnDebt(conn'[p]).id = id /\ ConnDebt(conn'[p]).val = n
        BY <2>4 DEF Births
      <3> QED
        BY <1>0, <2>1, <3>1, InsertWritten
    <2> QED
      BY <2>2, <2>3, <2>4, <2>5, ConnDebts DEF Writes
  <1>2. CASE SessionReportApply(p) /\ ~NoEffect(conn[p].report) /\ Exists(sessions, conn[p].id)
    <2> DEFINE r == conn[p].report
    <2>1. /\ conn[p].id \in Ids /\ Exists(sessions, conn[p].id)
          /\ r \in Reports
      BY <1>2 DEF SessionReportApply, ConnAt, IInv, HandlersInformed, Known
    <2>2. sessions' = Applied(sessions, conn[p].id, r) /\ ConnGoto(p, "report_emit")
      BY <1>2 DEF SessionReportApply
    <2>3. /\ conn'[p].pc = "report_emit" /\ conn'[p].id = conn[p].id /\ conn'[p].report = r
          /\ \A q \in Plugins \ {p} : conn'[q] = conn[q]
          /\ conn[p].pc = "report_apply" /\ UNCHANGED <<bus, ctl>>
      BY <1>0, <1>2, <2>2 DEF SessionReportApply, ConnGoto, ConnAt, Conn
    <2>4. ~ConnOwes(conn[p]) /\ ConnOwes(conn'[p])
      BY <2>3 DEF ConnOwes
    <2>5. ConnDebt(conn'[p]) = [kind |-> r.kind, id |-> conn[p].id, val |-> r.val]
      BY <2>3 DEF ConnDebt
    <2>6. Written(sessions, sessions', conn[p].id, ConnDebt(conn'[p]))
      <3> DEFINE e == ConnDebt(conn'[p])
      <3>1. e.kind = r.kind /\ e.id = conn[p].id /\ e.val = r.val
        BY <2>5
      <3> HIDE DEF e
      <3>2. CASE r.kind \in {"session.status_changed", "session.task_changed"}
        <4>1. \/ sessions' = UpdateStatus(sessions, conn[p].id, e.val) /\ e.kind = "session.status_changed"
              \/ sessions' = UpdateTask(sessions, conn[p].id, e.val) /\ e.kind = "session.task_changed"
          BY <2>2, <3>1, <3>2 DEF Applied
        <4> QED
          BY <1>0, <2>1, <3>1, <4>1, FieldWritten DEF e
      <3>3. CASE r.kind = "session.usage_updated"
        <4>1. r.val \in Usages
          BY <2>1, <3>3, ReportsAssumption DEF StatusReports, TaskReports, UsageReports,
             FinishReports, OtherReports
        <4>2. sessions' = UpdateUsage(sessions, conn[p].id, e.val)
          BY <2>2, <3>1, <3>3 DEF Applied
        <4> QED
          BY <1>0, <2>1, <3>1, <3>3, <4>1, <4>2, FieldWritten DEF e
      <3>4. CASE r.kind = "session.finished"
        <4>1. r.val \in Ages
          BY <2>1, <3>4, ReportsAssumption DEF StatusReports, TaskReports, UsageReports,
             FinishReports, OtherReports
        <4>2. sessions' = MarkFinished(sessions, conn[p].id, r.val)
          BY <2>2, <3>4 DEF Applied
        <4> QED
          BY <1>0, <2>1, <3>1, <3>4, <4>1, <4>2, FinishWritten DEF e, Deaths
      <3> QED
        BY <1>2, <3>2, <3>3, <3>4 DEF NoEffect, Mutating
    <2> QED
      BY <2>1, <2>3, <2>4, <2>5, <2>6, ConnDebts DEF Writes
  <1>3. CASE SessionDiscoverEmit(p) \/ SessionReportEmit(p)
    <2>1. /\ conn'[p] = IdleConn
          /\ \A q \in Plugins \ {p} : conn'[q] = conn[q]
          /\ UNCHANGED <<sessions, ctl>>
      BY <1>0, <1>3 DEF SessionDiscoverEmit, SessionReportEmit, ConnReply, db
    <2>2. ConnOwes(conn[p]) /\ ~ConnOwes(conn'[p])
      BY <1>3, <2>1 DEF SessionDiscoverEmit, SessionReportEmit, ConnOwes, ConnAt, IdleConn
    <2>3. bus' = Put(bus, ConnDebt(conn[p]))
      BY <1>3 DEF SessionDiscoverEmit, SessionReportEmit, ConnAt, EmitFrom, Emit, Put, ConnDebt
    <2>4. ConnDebt(conn[p]) \in Debts /\ ConnDebt(conn[p]) \in BusEvent
      BY <1>0, <2>2, <2>3, DebtIs, PutTyped
    <2> QED
      BY <2>1, <2>2, <2>3, <2>4, ConnDebts DEF Emits
  <1>4. CASE \/ PluginHello(p) \/ PluginHelloTouch(p) \/ PluginHelloEmit(p)
             \/ SessionReport(p) \/ SessionReportInsert(p)
             \/ /\ SessionReportApply(p)
                /\ NoEffect(conn[p].report) \/ ~Exists(sessions, conn[p].id)
    <2>1. /\ conn'[p].pc \in {"hello_touch", "hello_emit", "report_insert", "report_apply", "idle"}
          /\ \A q \in Plugins \ {p} : conn'[q] = conn[q]
          /\ conn[p].pc \in {"idle", "hello_touch", "hello_emit", "report_insert", "report_apply"}
          /\ UNCHANGED <<sessions, ctl>>
      BY <1>0, <1>4 DEF PluginHello, PluginHelloTouch, PluginHelloEmit, SessionReport,
         SessionReportInsert, SessionReportApply, ConnStart, ConnGoto, ConnReply, ConnAt, IdleConn, Conn, db
    <2>2. ~ConnOwes(conn[p]) /\ ~ConnOwes(conn'[p])
      BY <2>1 DEF ConnOwes
    <2>3. Debts' = Debts
      BY <2>1, <2>2, ConnDebts
    <2>4. bus' = bus \/ bus' = Put(bus, [kind |-> "plugin.connected", id |-> None, val |-> p])
      BY <1>4 DEF PluginHello, PluginHelloTouch, PluginHelloEmit, SessionReport,
         SessionReportInsert, SessionReportApply, EmitFrom, Emit, Put
    <2>5. \/ bus' = bus
          \/ \E e \in BusEvent : /\ bus' = Put(bus, e)
                                 /\ e.kind \in {"session.jumped", "plugin.connected", "daemon.shutting_down"}
      BY <1>0, <2>4, PutTyped
    <2> QED
      BY <2>1, <2>3, <2>5, SameRows DEF Silent
  <1> QED
    BY <1>1, <1>2, <1>3, <1>4 DEF Plugin

LEMMA ExpireShape ==
  ASSUME IInv, ThirtyDaysPass
  PROVE  Silent
  <1>1. PICK j \in Ids : sessions[j].finished_at = "recent" /\ sessions' = Expire(sessions, j)
    BY DEF ThirtyDaysPass
  <1>2. sessions \in [Ids -> Row] /\ UNCHANGED <<ctl, conn, bus>>
    BY DEF IInv, TypeOK, ThirtyDaysPass
  <1>3. Debts' = Debts
    BY <1>2 DEF Debts
  <1>4. ASSUME NEW id \in Ids
        PROVE  /\ RowLike(sessions'[id], sessions[id])
               /\ Exists(sessions', id) => Exists(sessions, id)
    <2>1. /\ sessions'[id].status = sessions[id].status
          /\ sessions'[id].display_name = sessions[id].display_name
          /\ sessions'[id].current_task = sessions[id].current_task
          /\ sessions'[id].usage = sessions[id].usage
          /\ sessions'[id].finished_at = None => sessions[id].finished_at = None
      BY <1>1, <1>2, NoneIsNoString DEF Expire, Row, Ages
    <2> QED
      BY <2>1 DEF RowLike, Shown, Exists
  <1> QED
    BY <1>2, <1>3, <1>4 DEF Silent

(* A collection that finds nothing to collect.                             *)
LEMMA SweepShape ==
  ASSUME IInv, StrayGc, phase = "serving", ~Swept
  PROVE  Silent
  <1>1. ASSUME NEW id \in Ids PROVE sessions'[id] = sessions[id]
    <2>1. sessions'[id] = IF Tombstone(sessions[id]) THEN NoRow("gone") ELSE sessions[id]
      BY DEF StrayGc, DeleteTombstones
    <2>2. CASE Tombstone(sessions[id])
      <3>1. Exists(sessions, id)
        BY <2>2, NoneIsNoString DEF Tombstone, IInv, RowsAndReports, Ages
      <3>2. Gone(sessions', id)
        BY <2>1, <2>2 DEF NoRow, Gone
      <3> QED
        BY <3>1, <3>2 DEF Swept
    <2> QED
      BY <2>1, <2>2
  <1>2. Debts' = Debts /\ UNCHANGED bus
    BY DEF Debts, StrayGc
  <1> QED
    BY <1>1, <1>2 DEF Silent, RowLike, Exists
-----------------------------------------------------------------------------
(* What a step of the daemon does to the events under way. *)
BusAgrees(id, f) == ~Owed(Touching(f), id) => LastAgrees(sessions, bus, f, id)

LEMMA PutKeeps ==
  ASSUME bus \in Seq(BusEvent), Len(bus) <= BusCapacity, NEW e \in BusEvent, bus' = Put(bus, e),
         ~Overwritten, NEW K, NEW id
  PROVE  Has(bus, K, id) \/ Is(e, K, id) => Has(bus', K, id)
  <1>1. CASE Len(bus) < BusCapacity
    <2>1. bus' = Append(bus, e)
      BY <1>1 DEF Put
    <2> QED
      BY <2>1, HasAppend
  <1>2. CASE ~(Len(bus) < BusCapacity)
    <2>1. Len(bus) = BusCapacity /\ bus # << >>
      BY <1>2, BusCapacityAssumption
    <2>2. bus' = Append(Tail(bus), e) /\ Tail(bus) \in Seq(BusEvent) /\ Len(Tail(bus)) = Len(bus) - 1
      BY <1>2, <2>1 DEF Put
    <2>3. Len(bus') = BusCapacity
      BY <2>1, <2>2, BusCapacityAssumption
    <2>4. bus' = bus
      BY <2>1, <2>3 DEF Overwritten
    <2>5. Has(bus', K, id) <=> Has(Tail(bus), K, id) \/ Is(e, K, id)
      BY <2>2, HasAppend
    <2> QED
      BY <2>4, <2>5
  <1> QED
    BY <1>1, <1>2

(* Nothing gets lost between the handlers and a bus that is not overwritten. *)
LEMMA PendingMoves ==
  ASSUME IInv, Silent \/ Writes \/ Emits, ~Overwritten, NEW K, NEW id,
         Owed(K, id) \/ Has(bus, K, id)
  PROVE  Owed(K, id)' \/ Has(bus', K, id)
  <1>0. bus \in Seq(BusEvent) /\ Len(bus) <= BusCapacity
    BY DEF IInv, TypeOK
  <1>1. CASE Silent
    <2>1. Owed(K, id) => Owed(K, id)'
      BY <1>1 DEF Silent, Owed
    <2>2. Has(bus, K, id) => Has(bus', K, id)
      BY <1>0, <1>1, PutKeeps DEF Silent
    <2> QED
      BY <2>1, <2>2
  <1>2. CASE Writes
    BY <1>2 DEF Writes, Owed
  <1>3. CASE Emits
    <2>1. PICK e \in Debts : /\ e \in BusEvent /\ bus' = Put(bus, e)
                             /\ Debts \subseteq Debts' \cup {e}
      BY <1>3 DEF Emits
    <2>2. Has(bus, K, id) \/ Is(e, K, id) => Has(bus', K, id)
      BY <1>0, <2>1, PutKeeps
    <2>3. Owed(K, id) => Owed(K, id)' \/ Is(e, K, id)
      BY <2>1 DEF Owed
    <2> QED
      BY <2>2, <2>3
  <1> QED
    BY <1>1, <1>2, <1>3

(* A field changes only when the event that tells of it is owed.            *)
LEMMA FieldMoves ==
  ASSUME Silent \/ Writes \/ Emits, NEW id \in Ids, NEW f \in ViewFields
  PROVE  Owed(Touching(f), id)' \/ Shown(sessions'[id])[f] = Shown(sessions[id])[f]
  <1>1. CASE Silent
    BY <1>1 DEF Silent, RowLike
  <1>2. CASE Writes
    <2>1. PICK e : /\ e.id \in Ids /\ Written(sessions, sessions', e.id, e)
                   /\ Debts' = Debts \cup {e}
      BY <1>2 DEF Writes
    <2>2. CASE e.id = id /\ e.kind \in Touching(f)
      BY <2>1, <2>2 DEF Owed, Is
    <2>3. CASE e.id = id /\ e.kind \notin Touching(f)
      BY <2>1, <2>3 DEF Written
    <2>4. CASE e.id # id
      BY <2>1, <2>4 DEF Written
    <2> QED
      BY <2>2, <2>3, <2>4
  <1>3. CASE Emits
    BY <1>3 DEF Emits
  <1> QED
    BY <1>1, <1>2, <1>3

LEMMA AgreesKept ==
  ASSUME NEW t, NEW u, NEW e, NEW f, Agrees(t, e, f), Shown(u[e.id])[f] = Shown(t[e.id])[f]
  PROVE  Agrees(u, e, f)
  BY DEF Agrees

(* What is owed stays true: only its own handler is on the session.         *)
LEMMA OwedAgreeKept ==
  ASSUME IInv, Silent \/ Writes \/ Emits, ~Meet', OwedAgree
  PROVE  OwedAgree'
  <1> SUFFICES ASSUME NEW d \in Debts', NEW f \in ViewFields, d.kind \in Touching(f)
               PROVE  Agrees(sessions', d, f)
    BY DEF OwedAgree
  <1>1. ASSUME d \in Debts, sessions'[d.id] = sessions[d.id] \/ Shown(sessions'[d.id]) = Shown(sessions[d.id])
        PROVE  Agrees(sessions', d, f)
    <2>1. Agrees(sessions, d, f)
      BY <1>1 DEF OwedAgree
    <2> QED
      BY <1>1, <2>1, AgreesKept
  <1>2. CASE Silent
    <2>1. d \in Debts
      BY <1>2 DEF Silent
    <2>2. d.id \in Ids
      BY <2>1, DebtIds
    <2> QED
      BY <1>1, <1>2, <2>1, <2>2 DEF Silent, RowLike
  <1>3. CASE Writes
    <2>1. PICK e : /\ e.id \in Ids /\ Written(sessions, sessions', e.id, e)
                   /\ Debts' = Debts \cup {e} /\ \A c \in Debts : c.id # e.id
      BY <1>3 DEF Writes
    <2>2. CASE d = e
      BY <2>1, <2>2 DEF Written
    <2>3. CASE d \in Debts
      <3>1. d.id \in Ids /\ d.id # e.id
        BY <2>1, <2>3, DebtIds
      <3>2. sessions'[d.id] = sessions[d.id]
        BY <2>1, <3>1 DEF Written
      <3> QED
        BY <1>1, <2>3, <3>2
    <2> QED
      BY <2>1, <2>2, <2>3
  <1>4. CASE Emits
    BY <1>1, <1>4 DEF Emits
  <1> QED
    BY <1>2, <1>3, <1>4

LEMMA PutAgrees ==
  ASSUME bus \in Seq(BusEvent), Len(bus) <= BusCapacity, NEW e \in BusEvent, bus' = Put(bus, e),
         NEW t, NEW f, NEW id,
         IF Is(e, Touching(f), id) THEN Agrees(t, e, f) ELSE LastAgrees(t, bus, f, id)
  PROVE  LastAgrees(t, bus', f, id)
  <1> DEFINE q == IF Len(bus) < BusCapacity THEN bus ELSE Tail(bus)
  <1>1. q \in Seq(BusEvent) /\ (LastAgrees(t, bus, f, id) => LastAgrees(t, q, f, id))
    <2>1. CASE Len(bus) < BusCapacity
      BY <2>1
    <2>2. CASE ~(Len(bus) < BusCapacity)
      <3>1. bus # << >>
        BY <2>2, BusCapacityAssumption
      <3>2. Tail(bus) \in Seq(BusEvent)
        BY <3>1
      <3> QED
        BY <2>2, <3>1, <3>2, LastTail
    <2> QED
      BY <2>1, <2>2
  <1>2. bus' = Append(q, e)
    BY DEF Put
  <1> HIDE DEF q
  <1> QED
    BY <1>1, <1>2, LastAppend

LEMMA BusAgreesKept ==
  ASSUME IInv, Silent \/ Writes \/ Emits, OwedAgree, NEW id \in Ids, NEW f \in ViewFields,
         BusAgrees(id, f)
  PROVE  BusAgrees(id, f)'
  <1> SUFFICES ASSUME ~Owed(Touching(f), id)' PROVE LastAgrees(sessions', bus', f, id)
    BY DEF BusAgrees
  <1>0. bus \in Seq(BusEvent) /\ Len(bus) <= BusCapacity
    BY DEF IInv, TypeOK
  <1>1. Shown(sessions'[id])[f] = Shown(sessions[id])[f]
    BY FieldMoves
  <1>2. SUFFICES LastAgrees(sessions, bus', f, id)
    BY <1>1, LastKept
  <1>3. CASE Silent
    <2>1. ~Owed(Touching(f), id)
      BY <1>3 DEF Silent, Owed
    <2>2. LastAgrees(sessions, bus, f, id)
      BY <2>1 DEF BusAgrees
    <2>3. CASE bus' = bus
      BY <2>2, <2>3
    <2>4. CASE \E e \in BusEvent : /\ bus' = Put(bus, e)
                                   /\ e.kind \in {"session.jumped", "plugin.connected", "daemon.shutting_down"}
      <3>1. PICK e \in BusEvent : /\ bus' = Put(bus, e)
                                  /\ e.kind \in {"session.jumped", "plugin.connected", "daemon.shutting_down"}
        BY <2>4
      <3>2. ~Is(e, Touching(f), id)
        BY <3>1 DEF Is, Touching, Births, Deaths, ViewFields
      <3> QED
        BY <1>0, <2>2, <3>1, <3>2, PutAgrees
    <2> QED
      BY <1>3, <2>3, <2>4 DEF Silent
  <1>4. CASE Writes
    <2>1. ~Owed(Touching(f), id) /\ bus' = bus
      BY <1>4 DEF Writes, Owed
    <2> QED
      BY <2>1 DEF BusAgrees
  <1>5. CASE Emits
    <2>1. PICK e \in Debts : /\ e \in BusEvent /\ bus' = Put(bus, e)
                             /\ Debts \subseteq Debts' \cup {e}
      BY <1>5 DEF Emits
    <2>2. CASE Is(e, Touching(f), id)
      <3>1. Agrees(sessions, e, f)
        BY <2>2 DEF OwedAgree, Is
      <3> QED
        BY <1>0, <2>1, <2>2, <3>1, PutAgrees
    <2>3. CASE ~Is(e, Touching(f), id)
      <3>1. ~Owed(Touching(f), id)
        BY <2>1, <2>3 DEF Owed
      <3>2. LastAgrees(sessions, bus, f, id)
        BY <3>1 DEF BusAgrees
      <3> QED
        BY <1>0, <2>1, <2>3, <3>2, PutAgrees
    <2> QED
      BY <2>2, <2>3
  <1> QED
    BY <1>3, <1>4, <1>5
-----------------------------------------------------------------------------
(* TuiState::apply_event on the rows.  A row is a record of its four fields. *)
WholeRow(v) ==
  v = [ status |-> v.status, display_name |-> v.display_name,
        current_task |-> v.current_task, usage |-> v.usage ]

(* Reports with all of their fields, so that a usage event replaces what it *)
(* finds.                                                                  *)
UsagesComplete == \A u \in Usages, f \in UsageFields : FieldsOf[u][f] # None

LEMMA ShownIsWhole ==
  ASSUME NEW r
  PROVE  WholeRow(Shown(r)) /\ (r.status # "absent" => Shown(r) # NoView)
  <1>1. WholeRow(Shown(r))
    BY DEF WholeRow, Shown
  <1>2. Shown(r).status = r.status /\ NoView.status = "absent"
    BY DEF Shown, NoView
  <1> QED
    BY <1>1, <1>2

LEMMA WholeEqual ==
  ASSUME NEW v, WholeRow(v), NEW r, \A f \in ViewFields : v[f] = Shown(r)[f]
  PROVE  v = Shown(r)
  <1>1. /\ v.status = Shown(r).status /\ v.display_name = Shown(r).display_name
        /\ v.current_task = Shown(r).current_task /\ v.usage = Shown(r).usage
    BY DEF ViewFields
  <1>2. WholeRow(Shown(r))
    BY ShownIsWhole
  <1> QED
    BY <1>1, <1>2 DEF WholeRow

LEMMA PatchWhole ==
  ASSUME NEW v, WholeRow(v), NEW e, e.kind \in Patching
  PROVE  /\ WholeRow(Patch(v, e)) /\ Patch(v, e) # NoView
         /\ Patch(v, e).status =
              IF e.kind = "session.status_changed" THEN e.val
              ELSE IF e.kind = "session.dismissed_error" THEN "idle" ELSE v.status
         /\ Patch(v, e).display_name = IF e.kind = "session.renamed" THEN e.val ELSE v.display_name
         /\ Patch(v, e).current_task = IF e.kind = "session.task_changed" THEN e.val ELSE v.current_task
         /\ Patch(v, e).usage = IF e.kind = "session.usage_updated" THEN PatchUsage(v.usage, FieldsOf[e.val])
                                ELSE v.usage
  <1> DEFINE D == {"status", "display_name", "current_task", "usage"}
  <1>0. DOMAIN v = D
    BY DEF WholeRow
  <1>1. ASSUME NEW u, WholeRow(u) PROVE u # NoView
    <2>1. DOMAIN u = D /\ DOMAIN NoView = {"status"}
      BY <1>1 DEF WholeRow, NoView
    <2> QED
      BY <2>1
  <1>2. CASE e.kind = "session.renamed"
    <2>1. Patch(v, e) = [v EXCEPT !.display_name = e.val]
      BY <1>2 DEF Patch
    <2> QED
      BY <1>0, <1>1, <1>2, <2>1 DEF WholeRow
  <1>3. CASE e.kind = "session.status_changed"
    <2>1. Patch(v, e) = [v EXCEPT !.status = e.val]
      BY <1>3 DEF Patch
    <2> QED
      BY <1>0, <1>1, <1>3, <2>1 DEF WholeRow
  <1>4. CASE e.kind = "session.dismissed_error"
    <2>1. Patch(v, e) = [v EXCEPT !.status = "idle"]
      BY <1>4 DEF Patch
    <2> QED
      BY <1>0, <1>1, <1>4, <2>1 DEF WholeRow
  <1>5. CASE e.kind = "session.task_changed"
    <2>1. Patch(v, e) = [v EXCEPT !.current_task = e.val]
      BY <1>5 DEF Patch
    <2> QED
      BY <1>0, <1>1, <1>5, <2>1 DEF WholeRow
  <1>6. CASE e.kind = "session.usage_updated"
    <2>1. Patch(v, e) = [v EXCEPT !.usage = PatchUsage(v.usage, FieldsOf[e.val])]
      BY <1>6 DEF Patch
    <2> QED
      BY <1>0, <1>1, <1>6, <2>1 DEF WholeRow
  <1> QED
    BY <1>2, <1>3, <1>4, <1>5, <1>6 DEF Patching
LEMMA ApplyRow ==
  ASSUME NEW v, DOMAIN v = Ids, NEW e, NEW id \in Ids
  PROVE  ApplyEvent(v, e)[id] =
           IF Is(e, Births, id) THEN Shown(NewRow(None, None, e.val))
           ELSE IF Is(e, Deaths, id) THEN NoView
           ELSE IF Is(e, Patching, id) /\ v[id] # NoView THEN Patch(v[id], e)
           ELSE v[id]
  <1>1. CASE e.kind \in Births
    <2>1. ApplyEvent(v, e) = [v EXCEPT ![e.id] = Shown(NewRow(None, None, e.val))]
      BY <1>1 DEF ApplyEvent, Births, Patching
    <2> QED
      BY <1>1, <2>1 DEF Is, Births, Deaths, Patching
  <1>2. CASE e.kind \in Deaths
    <2>1. ApplyEvent(v, e) = [v EXCEPT ![e.id] = NoView]
      BY <1>2 DEF ApplyEvent, Deaths, Patching
    <2> QED
      BY <1>2, <2>1 DEF Is, Births, Deaths, Patching
  <1>3. CASE e.kind \in Patching /\ v[e.id] # NoView
    <2>1. ApplyEvent(v, e) = [v EXCEPT ![e.id] = Patch(v[e.id], e)]
      BY <1>3 DEF ApplyEvent, Patching
    <2> QED
      BY <1>3, <2>1 DEF Is, Births, Deaths, Patching
  <1>4. CASE e.kind \notin Births \cup Deaths /\ ~(e.kind \in Patching /\ v[e.id] # NoView)
    <2>1. ApplyEvent(v, e) = v
      BY <1>4 DEF ApplyEvent, Births, Deaths
    <2> QED
      BY <1>4, <2>1 DEF Is
  <1> QED
    BY <1>1, <1>2, <1>3, <1>4

LEMMA ApplyWhole ==
  ASSUME NEW v, DOMAIN v = Ids, NEW e, NEW id \in Ids, v[id] # NoView => WholeRow(v[id])
  PROVE  ApplyEvent(v, e)[id] # NoView => WholeRow(ApplyEvent(v, e)[id])
  BY ApplyRow, PatchWhole, ShownIsWhole DEF Is

LEMMA UsageReplaced ==
  ASSUME UsagesComplete, NEW u \in Usages, NEW old
  PROVE  PatchUsage(old, FieldsOf[u]) = FieldsOf[u]
  <1>1. FieldsOf[u] = [f \in UsageFields |-> FieldsOf[u][f]]
    BY UsagesHaveFields
  <1>2. \A f \in UsageFields : (IF FieldsOf[u][f] = None THEN old[f] ELSE FieldsOf[u][f]) = FieldsOf[u][f]
    BY DEF UsagesComplete
  <1>3. PatchUsage(old, FieldsOf[u]) = [f \in UsageFields |-> FieldsOf[u][f]]
    BY <1>2 DEF PatchUsage
  <1> QED
    BY <1>1, <1>3

(* An event that sets a field leaves in the row what it says.               *)
LEMMA ApplySets ==
  ASSUME UsagesComplete, NEW v, DOMAIN v = Ids, NEW e, NEW id \in Ids, NEW f \in ViewFields, NEW t,
         v[id] # NoView => WholeRow(v[id]),
         e.kind = "session.usage_updated" => e.val \in Usages,
         Is(e, Touching(f), id), Agrees(t, e, f), ApplyEvent(v, e)[id] # NoView
  PROVE  ApplyEvent(v, e)[id][f] = Shown(t[id])[f]
  <1>1. e.kind \notin Deaths
    BY ApplyRow DEF Is, Deaths, Births
  <1>2. Says(e, f) = Shown(t[id])[f]
    BY <1>1 DEF Agrees, Is
  <1>3. CASE e.kind \in Births
    <2>1. ApplyEvent(v, e)[id] = Shown(NewRow(None, None, e.val))
      BY <1>3, ApplyRow DEF Is
    <2>2. Says(e, f) = Shown(NewRow(None, None, e.val))[f]
      BY <1>3 DEF Says, Births
    <2> QED
      BY <1>2, <2>1, <2>2
  <1>4. CASE e.kind \notin Births
    <2>1. \/ f = "status" /\ e.kind \in {"session.status_changed", "session.dismissed_error"}
          \/ f = "display_name" /\ e.kind = "session.renamed"
          \/ f = "current_task" /\ e.kind = "session.task_changed"
          \/ f = "usage" /\ e.kind = "session.usage_updated"
      BY <1>1, <1>4 DEF Is, Touching, ViewFields
    <2>2. e.kind \in Patching /\ e.id = id
      BY <2>1 DEF Patching, Is
    <2>3. v[id] # NoView /\ ApplyEvent(v, e)[id] = Patch(v[id], e)
      BY <1>1, <1>4, <2>2, ApplyRow DEF Is
    <2>4. CASE f = "usage" /\ e.kind = "session.usage_updated"
      <3>1. Patch(v[id], e)["usage"] = FieldsOf[e.val]
        <4>1. Patch(v[id], e)["usage"] = PatchUsage(v[id].usage, FieldsOf[e.val])
          BY <2>2, <2>3, <2>4, PatchWhole
        <4>2. PatchUsage(v[id].usage, FieldsOf[e.val]) = FieldsOf[e.val]
          BY <2>4, UsageReplaced
        <4> QED
          BY <4>1, <4>2
      <3>2. Says(e, f) = FieldsOf[e.val]
        BY <1>4, <2>4 DEF Says, Births
      <3> QED
        BY <1>2, <2>3, <2>4, <3>1, <3>2
    <2>5. CASE f = "status" /\ e.kind \in {"session.status_changed", "session.dismissed_error"}
      <3>1. Patch(v[id], e)["status"] = IF e.kind = "session.status_changed" THEN e.val ELSE "idle"
        BY <2>2, <2>3, <2>5, PatchWhole
      <3>2. Says(e, f) = IF e.kind = "session.status_changed" THEN e.val ELSE "idle"
        BY <1>4, <2>5 DEF Says, Births
      <3> QED
        BY <1>2, <2>3, <2>5, <3>1, <3>2
    <2>6. CASE f = "display_name" /\ e.kind = "session.renamed"
      <3>1. Patch(v[id], e)["display_name"] = e.val
        BY <2>2, <2>3, <2>6, PatchWhole
      <3>2. Says(e, f) = e.val
        BY <1>4, <2>6 DEF Says, Births
      <3> QED
        BY <1>2, <2>3, <2>6, <3>1, <3>2
    <2>7. CASE f = "current_task" /\ e.kind = "session.task_changed"
      <3>1. Patch(v[id], e)["current_task"] = e.val
        BY <2>2, <2>3, <2>7, PatchWhole
      <3>2. Says(e, f) = e.val
        BY <1>4, <2>7 DEF Says, Births
      <3> QED
        BY <1>2, <2>3, <2>7, <3>1, <3>2
    <2> QED
      BY <2>1, <2>4, <2>5, <2>6, <2>7
  <1> QED
    BY <1>3, <1>4

(* And an event that does not set it leaves the field, and the row, alone.  *)
LEMMA ApplyKeeps ==
  ASSUME NEW v, DOMAIN v = Ids, NEW e, NEW id \in Ids, NEW f \in ViewFields,
         v[id] # NoView => WholeRow(v[id]), ~Is(e, Touching(f), id)
  PROVE  /\ ApplyEvent(v, e)[id] # NoView <=> v[id] # NoView
         /\ v[id] # NoView => ApplyEvent(v, e)[id][f] = v[id][f]
  <1>1. ~Is(e, Births, id) /\ ~Is(e, Deaths, id)
    BY DEF Is, Touching
  <1>2. CASE Is(e, Patching, id) /\ v[id] # NoView
    <2>1. ApplyEvent(v, e)[id] = Patch(v[id], e)
      BY <1>1, <1>2, ApplyRow
    <2>2. /\ f = "status" => e.kind \notin {"session.status_changed", "session.dismissed_error"}
          /\ f = "display_name" => e.kind # "session.renamed"
          /\ f = "current_task" => e.kind # "session.task_changed"
          /\ f = "usage" => e.kind # "session.usage_updated"
      BY <1>2 DEF Is, Touching
    <2>3. /\ Patch(v[id], e) # NoView
          /\ f = "status" => Patch(v[id], e)["status"] = v[id]["status"]
          /\ f = "display_name" => Patch(v[id], e)["display_name"] = v[id]["display_name"]
          /\ f = "current_task" => Patch(v[id], e)["current_task"] = v[id]["current_task"]
          /\ f = "usage" => Patch(v[id], e)["usage"] = v[id]["usage"]
      BY <1>2, <2>2, PatchWhole DEF Is
    <2> QED
      BY <1>2, <2>1, <2>3 DEF ViewFields
  <1>3. CASE ~(Is(e, Patching, id) /\ v[id] # NoView)
    BY <1>1, <1>3, ApplyRow
  <1> QED
    BY <1>2, <1>3
-----------------------------------------------------------------------------
(* The inductive invariant behind Converged. *)
Up == tui \in {"running", "calling"}

ViewAgrees(id, f) == Up /\ Shows(id) => view[id][f] = Shown(sessions[id])[f]

(* The chain from the handlers to the view, for one field of one session.   *)
ChainAgrees(id, f) ==
  ~Owed(Touching(f), id) /\ ~Has(bus, Touching(f), id) =>
    /\ LastAgrees(sessions, stream, f, id)
    /\ ~Has(stream, Touching(f), id) =>
         /\ LastAgrees(sessions, rx, f, id)
         /\ ~Has(rx, Touching(f), id) => ViewAgrees(id, f)

(* A session that has not ended is shown, or its birth is on the way.       *)
BornOrShown(id) ==
  Exists(sessions, id) /\ sessions[id].finished_at = None =>
    \/ Shows(id)
    \/ Owed(Births, id) \/ Has(bus, Births, id)
    \/ Has(stream, Births, id) \/ Has(rx, Births, id)

Connected ==
  /\ linked => phase = "serving"
  /\ tui = "off" => ~linked /\ stream = << >> /\ rx = << >>
  /\ Len(rx) <= RxCapacity
  /\ \A id \in Ids : Shows(id) => WholeRow(view[id])

Orderly ==
  ~raced /\ phase = "serving" =>
    late = {} /\ ~Meet /\ OwedAgree /\ \A id \in Ids, f \in ViewFields : BusAgrees(id, f)

Chained == ~raced /\ ~lost /\ linked => \A id \in Ids, f \in ViewFields : ChainAgrees(id, f)

Born == ~raced /\ ~lost /\ linked /\ Up => \A id \in Ids : BornOrShown(id)

ConvInv == Connected /\ Orderly /\ Chained /\ Born

LEMMA SameHandlers ==
  ASSUME UNCHANGED <<ctl, conn>>
  PROVE  /\ Debts' = Debts /\ (Meet' <=> Meet)
         /\ \A K, id : Owed(K, id)' <=> Owed(K, id)
  <1>1. Debts' = Debts
    BY DEF Debts
  <1>2. Meet' <=> Meet
    BY DEF Meet
  <1> QED
    BY <1>1, <1>2 DEF Owed

LEMMA IdleHandlers ==
  ASSUME \A w \in Workers : ctl'[w] = IdleCtl, \A p \in Plugins : conn'[p] = IdleConn, bus' = << >>
  PROVE  ~Meet' /\ OwedAgree' /\ \A id \in Ids, f \in ViewFields : BusAgrees(id, f)'
  <1>1. ~Meet'
    BY DEF Meet, IdleCtl, IdleConn
  <1>2. \A e : e \notin Debts'
    BY DebtIsNext DEF CtlOwes, ConnOwes, IdleCtl, IdleConn
  <1>3. OwedAgree'
    BY <1>2 DEF OwedAgree
  <1>4. ASSUME NEW id \in Ids, NEW f \in ViewFields PROVE BusAgrees(id, f)'
    BY DEF BusAgrees, LastAgrees
  <1> QED
    BY <1>1, <1>3, <1>4

LEMMA ServeShape ==
  ASSUME IInv, IInv', Serve, phase = "serving", late = {}, ~Swept
  PROVE  Silent \/ Writes \/ Emits
  <1>1. CASE \E w \in Workers : Control(w)
    BY <1>1, CtlShape
  <1>2. CASE \E p \in Plugins : Plugin(p)
    BY <1>2, ConnShape
  <1>3. CASE BootGcEvents \/ BootGcSessions \/ LateEnds
    BY <1>3 DEF BootGcEvents, BootGcSessions, LateEnds
  <1>4. CASE StrayGc
    BY <1>4, SweepShape
  <1>5. CASE ThirtyDaysPass
    BY <1>5, ExpireShape
  <1> QED
    BY <1>1, <1>2, <1>3, <1>4, <1>5 DEF Serve

LEMMA PhaseKept ==
  ASSUME Serve
  PROVE  phase' = phase \/ BootGcEvents \/ BootGcSessions
  <1>1. CASE \E w \in Workers : Control(w)
    BY <1>1 DEF Control, SessionCreate, SessionCreateEmit, SessionRename, SessionRenameEmit,
       SessionDismissGet, SessionDismissUpdate, SessionDismissEmit, SessionJumpGet, SessionJumpSwitch,
       SessionKillGet, SessionKillTmux, SessionKillMark, SessionKillEmit, DaemonShutdown
  <1>2. CASE \E p \in Plugins : Plugin(p)
    BY <1>2 DEF Plugin, PluginHello, PluginHelloTouch, PluginHelloEmit, SessionDiscover,
       SessionDiscoverEmit, SessionReport, SessionReportInsert, SessionReportApply, SessionReportEmit
  <1>3. CASE LateEnds \/ StrayGc \/ ThirtyDaysPass
    BY <1>3 DEF LateEnds, StrayGc, ThirtyDaysPass
  <1> QED
    BY <1>1, <1>2, <1>3 DEF Serve

LEMMA ConnectedStep ==
  ASSUME TuiInv, Connected, [TuiNext]_<<vars, tuiVars>>
  PROVE  Connected'
  <1>0. /\ stream \in Seq(BusEvent) /\ rx \in Seq(BusEvent) /\ DOMAIN view = Ids
    BY DEF TuiInv, ChannelsBacked, ViewKnown
  <1>1. UNCHANGED view => \A id \in Ids : (Shows(id) => WholeRow(view[id]))'
    BY DEF Connected, Shows
  <1>2. CASE Serve
    <2>1. UNCHANGED <<tui, linked, stream, rx, view>>
      BY <1>2 DEF Serve
    <2>2. phase = "serving" => phase' = "serving"
      BY <1>2, PhaseKept DEF BootGcEvents, BootGcSessions
    <2> QED
      BY <1>1, <2>1, <2>2 DEF Connected
  <1>3. CASE DaemonStops \/ Cut
    <2>1. /\ ~linked' /\ UNCHANGED <<tui, rx, view>>
          /\ \E n \in 0..Len(stream) : stream' = SubSeq(stream, 1, n)
      BY <1>3 DEF DaemonStops, Cut, Unlink
    <2>2. stream = << >> => stream' = << >>
      BY <2>1
    <2> QED
      BY <1>1, <2>1, <2>2 DEF Connected
  <1>4. CASE Push
    BY <1>1, <1>4 DEF Push, Forward, Connected
  <1>5. CASE Subscribe \/ Call \/ Answered \/ UNCHANGED <<vars, tuiVars>>
    BY <1>1, <1>5 DEF Subscribe, Call, Answered, vars, tuiVars, Connected
  <1>6. CASE Snapshot
    <2>1. \A id \in Ids : (Shows(id) => WholeRow(view[id]))'
      BY <1>6, ShownIsWhole DEF Snapshot, FromSnapshot, Shows
    <2> QED
      BY <1>6, <2>1 DEF Snapshot, vars, Connected
  <1>7. CASE Quit
    <2>1. \A id \in Ids : (Shows(id) => WholeRow(view[id]))'
      BY <1>7 DEF Quit, Shows
    <2>2. Len(rx') <= RxCapacity
      BY <1>7, ReplicaBounds DEF Quit
    <2> QED
      BY <1>7, <2>1, <2>2 DEF Quit, Connected
  <1>8. CASE ReadFrame
    <2>1. Len(rx') <= RxCapacity
      <3>1. CASE Len(rx) < RxCapacity
        BY <1>0, <1>8, <3>1, ReplicaBounds DEF ReadFrame
      <3>2. CASE ~(Len(rx) < RxCapacity)
        <4>1. rx # << >> /\ Len(rx) = RxCapacity
          BY <1>0, <3>2, ReplicaBounds DEF Connected
        <4>2. rx' = Append(Tail(rx), Head(stream)) /\ Len(Tail(rx)) = Len(rx) - 1 /\ Tail(rx) \in Seq(BusEvent)
          BY <1>0, <1>8, <3>2, <4>1 DEF ReadFrame
        <4> QED
          BY <1>0, <4>1, <4>2
      <3> QED
        BY <3>1, <3>2
    <2>2. tui # "off" /\ UNCHANGED <<phase, tui, linked, view>>
      BY <1>8 DEF ReadFrame, Awaiting, vars
    <2> QED
      BY <1>1, <2>1, <2>2 DEF Connected
  <1>9. CASE Apply
    <2>1. /\ rx # << >> /\ rx' = Tail(rx) /\ view' = ApplyEvent(view, Head(rx))
          /\ tui = "running" /\ UNCHANGED <<phase, tui, linked, stream>>
      BY <1>9 DEF Apply, vars
    <2>2. Len(rx') <= RxCapacity
      BY <1>0, <2>1, ReplicaBounds DEF Connected
    <2>3. ASSUME NEW id \in Ids PROVE (Shows(id) => WholeRow(view[id]))'
      BY <1>0, <2>1, ApplyWhole DEF Connected, Shows
    <2> QED
      BY <2>1, <2>2, <2>3 DEF Connected
  <1> QED
    BY <1>2, <1>3, <1>4, <1>5, <1>6, <1>7, <1>8, <1>9 DEF TuiNext, Dashboard

LEMMA OrderlyStep ==
  ASSUME IInv, IInv', Orderly, [TuiNext]_<<vars, tuiVars>>
  PROVE  Orderly'
  <1> DEFINE Ordered == ~Meet /\ OwedAgree /\ \A id \in Ids, f \in ViewFields : BusAgrees(id, f)
  <1> SUFFICES ASSUME ~raced', phase' = "serving"
               PROVE  late' = {} /\ Ordered'
    BY DEF Orderly
  <1>0. bus \in Seq(BusEvent)
    BY DEF IInv, TypeOK
  <1>1. ASSUME UNCHANGED <<sessions, ctl, conn, phase, late, raced>>,
               bus' = bus \/ (bus # << >> /\ bus' = Tail(bus))
        PROVE  late' = {} /\ Ordered'
    <2>1. late = {} /\ Ordered
      BY <1>1 DEF Orderly
    <2>2. ~Meet' /\ OwedAgree'
      BY <1>1, <2>1, SameHandlers DEF OwedAgree
    <2>3. ASSUME NEW id \in Ids, NEW f \in ViewFields, ~Owed(Touching(f), id)'
          PROVE  LastAgrees(sessions', bus', f, id)
      <3>1. LastAgrees(sessions, bus, f, id)
        BY <1>1, <2>1, <2>3, SameHandlers DEF BusAgrees
      <3>2. LastAgrees(sessions, bus', f, id)
        BY <1>0, <1>1, <3>1, LastTail
      <3> QED
        BY <1>1, <3>2
    <2> QED
      BY <1>1, <2>1, <2>2, <2>3 DEF BusAgrees
  <1>2. CASE Serve
    <2>1. ~raced /\ late' = {} /\ ~Meet' /\ ~Swept
      BY <1>2 DEF Serve, Disturbed
    <2>2. CASE phase = "serving"
      <3>1. late = {} /\ Ordered
        BY <2>1, <2>2 DEF Orderly
      <3>2. Silent \/ Writes \/ Emits
        BY <1>2, <2>1, <2>2, <3>1, ServeShape
      <3> QED
        BY <2>1, <3>1, <3>2, OwedAgreeKept, BusAgreesKept
    <2>3. CASE phase # "serving"
      <3>1. BootGcSessions
        BY <1>2, <2>3, PhaseKept DEF BootGcEvents
      <3>2. /\ late = {} /\ bus' = << >>
            /\ \A w \in Workers : ctl'[w] = IdleCtl
            /\ \A p \in Plugins : conn'[p] = IdleConn
        BY <2>1, <2>3, <3>1 DEF BootGcSessions, IInv, QuietUnlessServing
      <3> QED
        BY <2>1, <3>2, IdleHandlers
    <2> QED
      BY <2>2, <2>3
  <1>3. CASE DaemonStops
    BY <1>3 DEF DaemonStops, Stop
  <1>4. CASE Push
    <2>1. /\ UNCHANGED <<sessions, ctl, conn, phase, late, raced>>
          /\ bus # << >> /\ bus' = Tail(bus)
      BY <1>4 DEF Push, Forward, db
    <2> QED
      BY <1>1, <2>1
  <1>5. CASE \/ Cut \/ Subscribe \/ Snapshot \/ Call \/ Quit \/ Dashboard
             \/ UNCHANGED <<vars, tuiVars>>
    <2>1. UNCHANGED <<sessions, ctl, conn, phase, late, raced, bus>>
      BY <1>5 DEF Cut, Subscribe, Snapshot, Call, Quit, Dashboard, ReadFrame, Apply, Answered, vars, tuiVars
    <2> QED
      BY <1>1, <2>1
  <1> QED
    BY <1>2, <1>3, <1>4, <1>5 DEF TuiNext
(* The chain, link by link. *)
LEMMA ServeChain ==
  ASSUME IInv, Silent \/ Writes \/ Emits, ~Overwritten, UNCHANGED <<tui, stream, rx, view>>,
         NEW id \in Ids, NEW f \in ViewFields, ChainAgrees(id, f)
  PROVE  ChainAgrees(id, f)'
  <1> SUFFICES ASSUME ~Owed(Touching(f), id)', ~Has(bus', Touching(f), id)
               PROVE  /\ LastAgrees(sessions', stream', f, id)
                      /\ ~Has(stream', Touching(f), id) =>
                           /\ LastAgrees(sessions', rx', f, id)
                           /\ ~Has(rx', Touching(f), id) => ViewAgrees(id, f)'
    BY DEF ChainAgrees
  <1>1. ~Owed(Touching(f), id) /\ ~Has(bus, Touching(f), id)
    BY PendingMoves
  <1>2. Shown(sessions'[id])[f] = Shown(sessions[id])[f]
    BY FieldMoves
  <1>3. /\ LastAgrees(sessions, stream, f, id)
        /\ ~Has(stream, Touching(f), id) =>
             /\ LastAgrees(sessions, rx, f, id)
             /\ ~Has(rx, Touching(f), id) => ViewAgrees(id, f)
    BY <1>1 DEF ChainAgrees
  <1>4. ViewAgrees(id, f) => ViewAgrees(id, f)'
    BY <1>2 DEF ViewAgrees, Up, Shows
  <1> QED
    BY <1>2, <1>3, <1>4, LastKept

LEMMA PushChain ==
  ASSUME bus \in Seq(BusEvent), stream \in Seq(BusEvent), bus # << >>, bus' = Tail(bus),
         stream' = Append(stream, Head(bus)),
         UNCHANGED <<sessions, ctl, conn, tui, rx, view>>,
         NEW id \in Ids, NEW f \in ViewFields, BusAgrees(id, f), ChainAgrees(id, f)
  PROVE  ChainAgrees(id, f)'
  <1> DEFINE T == Touching(f)
  <1> HIDE DEF T
  <1> SUFFICES ASSUME ~Owed(T, id)', ~Has(Tail(bus), T, id)
               PROVE  /\ LastAgrees(sessions, stream', f, id)
                      /\ ~Has(stream', T, id) =>
                           /\ LastAgrees(sessions, rx, f, id)
                           /\ ~Has(rx, T, id) => ViewAgrees(id, f)'
    BY DEF ChainAgrees, T
  <1>1. ~Owed(T, id) /\ Head(bus) \in BusEvent
    BY SameHandlers
  <1>2. LastAgrees(sessions, bus, f, id)
    BY <1>1 DEF BusAgrees, T
  <1>3. ViewAgrees(id, f)' <=> ViewAgrees(id, f)
    BY DEF ViewAgrees, Up, Shows
  <1>4. Has(stream', T, id) <=> Has(stream, T, id) \/ Is(Head(bus), T, id)
    BY <1>1, HasAppend
  <1>5. CASE Is(Head(bus), T, id)
    <2>1. Agrees(sessions, Head(bus), f)
      BY <1>2, <1>5, LastTail DEF T
    <2>2. LastAgrees(sessions, stream', f, id)
      BY <1>1, <1>5, <2>1, LastAppend DEF T
    <2> QED
      BY <1>4, <1>5, <2>2
  <1>6. CASE ~Is(Head(bus), T, id)
    <2>1. ~Has(bus, T, id)
      BY <1>6, HasTail
    <2>2. /\ LastAgrees(sessions, stream, f, id)
          /\ ~Has(stream, T, id) =>
               /\ LastAgrees(sessions, rx, f, id)
               /\ ~Has(rx, T, id) => ViewAgrees(id, f)
      BY <1>1, <2>1 DEF ChainAgrees, T
    <2>3. LastAgrees(sessions, stream', f, id)
      BY <1>1, <1>6, <2>2, LastAppend DEF T
    <2> QED
      BY <1>3, <1>4, <2>2, <2>3
  <1> QED
    BY <1>5, <1>6

LEMMA ReadChain ==
  ASSUME stream \in Seq(BusEvent), rx \in Seq(BusEvent), stream # << >>, stream' = Tail(stream),
         rx' = Append(rx, Head(stream)),
         UNCHANGED <<sessions, ctl, conn, bus, tui, view>>,
         NEW id \in Ids, NEW f \in ViewFields, ChainAgrees(id, f)
  PROVE  ChainAgrees(id, f)'
  <1> DEFINE T == Touching(f)
  <1> HIDE DEF T
  <1> SUFFICES ASSUME ~Owed(T, id)', ~Has(bus, T, id)
               PROVE  /\ LastAgrees(sessions, Tail(stream), f, id)
                      /\ ~Has(Tail(stream), T, id) =>
                           /\ LastAgrees(sessions, rx', f, id)
                           /\ ~Has(rx', T, id) => ViewAgrees(id, f)'
    BY DEF ChainAgrees, T
  <1>1. ~Owed(T, id) /\ Head(stream) \in BusEvent
    BY SameHandlers
  <1>2. /\ LastAgrees(sessions, stream, f, id)
        /\ ~Has(stream, T, id) =>
             /\ LastAgrees(sessions, rx, f, id)
             /\ ~Has(rx, T, id) => ViewAgrees(id, f)
    BY <1>1 DEF ChainAgrees, T
  <1>3. ViewAgrees(id, f)' <=> ViewAgrees(id, f)
    BY DEF ViewAgrees, Up, Shows
  <1>4. Has(rx', T, id) <=> Has(rx, T, id) \/ Is(Head(stream), T, id)
    BY <1>1, HasAppend
  <1>5. LastAgrees(sessions, Tail(stream), f, id)
    BY <1>2, LastTail
  <1>6. CASE Is(Head(stream), T, id)
    <2>1. ~Has(Tail(stream), T, id) => Agrees(sessions, Head(stream), f)
      BY <1>2, <1>6, LastTail DEF T
    <2>2. ~Has(Tail(stream), T, id) => LastAgrees(sessions, rx', f, id)
      BY <1>1, <1>6, <2>1, LastAppend DEF T
    <2> QED
      BY <1>4, <1>5, <1>6, <2>2
  <1>7. CASE ~Is(Head(stream), T, id)
    <2>1. Has(stream, T, id) <=> Has(Tail(stream), T, id)
      BY <1>7, HasTail
    <2>2. ~Has(Tail(stream), T, id) => LastAgrees(sessions, rx', f, id)
      BY <1>1, <1>2, <1>7, <2>1, LastAppend DEF T
    <2> QED
      BY <1>2, <1>3, <1>4, <1>5, <2>1, <2>2
  <1> QED
    BY <1>6, <1>7

LEMMA ApplyChain ==
  ASSUME UsagesComplete, TuiInv, Connected, rx # << >>, rx' = Tail(rx),
         view' = ApplyEvent(view, Head(rx)), Up,
         UNCHANGED <<sessions, ctl, conn, bus, tui, stream>>,
         NEW id \in Ids, NEW f \in ViewFields, ChainAgrees(id, f)
  PROVE  ChainAgrees(id, f)'
  <1> DEFINE T == Touching(f)
  <1> HIDE DEF T
  <1>0. /\ rx \in Seq(BusEvent) /\ DOMAIN view = Ids
        /\ view[id] # NoView => WholeRow(view[id])
    BY DEF TuiInv, ChannelsBacked, ViewKnown, Connected, Shows
  <1> SUFFICES ASSUME ~Owed(T, id)', ~Has(bus, T, id)
               PROVE  /\ LastAgrees(sessions, stream, f, id)
                      /\ ~Has(stream, T, id) =>
                           /\ LastAgrees(sessions, Tail(rx), f, id)
                           /\ ~Has(Tail(rx), T, id) => ViewAgrees(id, f)'
    BY DEF ChainAgrees, T
  <1>1. ~Owed(T, id)
    BY SameHandlers
  <1>2. /\ LastAgrees(sessions, stream, f, id)
        /\ ~Has(stream, T, id) =>
             /\ LastAgrees(sessions, rx, f, id)
             /\ ~Has(rx, T, id) => ViewAgrees(id, f)
    BY <1>1 DEF ChainAgrees, T
  <1> SUFFICES ASSUME ~Has(stream, T, id)
               PROVE  /\ LastAgrees(sessions, Tail(rx), f, id)
                      /\ ~Has(Tail(rx), T, id) => ViewAgrees(id, f)'
    BY <1>2
  <1>3. LastAgrees(sessions, Tail(rx), f, id)
    BY <1>0, <1>2, LastTail
  <1>4. ASSUME ~Has(Tail(rx), T, id) PROVE ViewAgrees(id, f)'
    <2> SUFFICES ASSUME view'[id] # NoView PROVE view'[id][f] = Shown(sessions[id])[f]
      BY DEF ViewAgrees, Shows
    <2>1. CASE Is(Head(rx), T, id)
      <3>1. Agrees(sessions, Head(rx), f)
        BY <1>0, <1>2, <1>4, <2>1, LastTail DEF T
      <3>2. Backed(Head(rx))
        BY TailBacked, ChannelsSplit DEF TuiInv
      <3>3. Head(rx).kind = "session.usage_updated" => Head(rx).val \in Usages
        BY <3>2 DEF Backed
      <3> QED
        BY <1>0, <2>1, <3>1, <3>3, ApplySets DEF T
    <2>2. CASE ~Is(Head(rx), T, id)
      <3>1. ~Has(rx, T, id)
        BY <1>0, <1>4, <2>2, HasTail
      <3>2. ViewAgrees(id, f)
        BY <1>2, <3>1
      <3>3. view[id] # NoView /\ view'[id][f] = view[id][f]
        BY <1>0, <2>2, ApplyKeeps DEF T
      <3> QED
        BY <3>2, <3>3 DEF ViewAgrees, Shows
    <2> QED
      BY <2>1, <2>2
  <1> QED
    BY <1>3, <1>4

LEMMA ChainedStep ==
  ASSUME UsagesComplete, IInv, IInv', TuiInv, Connected, Orderly, Chained,
         [TuiNext]_<<vars, tuiVars>>
  PROVE  Chained'
  <1> SUFFICES ASSUME ~raced', ~lost', linked', NEW id \in Ids, NEW f \in ViewFields
               PROVE  ChainAgrees(id, f)'
    BY DEF Chained
  <1>0. /\ bus \in Seq(BusEvent) /\ stream \in Seq(BusEvent) /\ rx \in Seq(BusEvent)
    BY DEF IInv, TypeOK, TuiInv, ChannelsBacked
  <1>1. CASE Serve
    <2>1. /\ ~raced /\ ~lost /\ linked /\ ~Overwritten /\ ~Swept
          /\ UNCHANGED <<tui, stream, rx, view>>
      BY <1>1 DEF Serve
    <2>2. ChainAgrees(id, f) /\ phase = "serving" /\ late = {}
      BY <2>1 DEF Chained, Connected, Orderly
    <2>3. Silent \/ Writes \/ Emits
      BY <1>1, <2>1, <2>2, ServeShape
    <2> QED
      BY <2>1, <2>2, <2>3, ServeChain
  <1>2. CASE DaemonStops \/ Cut \/ Quit
    BY <1>2 DEF DaemonStops, Cut, Quit, Unlink
  <1>3. CASE Push
    <2>1. /\ ~raced /\ ~lost /\ linked /\ bus # << >> /\ bus' = Tail(bus)
          /\ stream' = Append(stream, Head(bus))
          /\ UNCHANGED <<sessions, ctl, conn, tui, rx, view>>
      BY <1>3 DEF Push, Forward, db
    <2>2. BusAgrees(id, f) /\ ChainAgrees(id, f)
      BY <1>3, <2>1 DEF Push, Forward, Orderly, Chained
    <2> QED
      BY <1>0, <2>1, <2>2, PushChain
  <1>4. CASE Subscribe
    <2>1. tui = "off" /\ tui' = "snapshot" /\ UNCHANGED <<stream, rx>>
      BY <1>4 DEF Subscribe
    <2>2. stream' = << >> /\ rx' = << >> /\ ~Up'
      BY <2>1 DEF Connected, Up
    <2> QED
      BY <2>2 DEF ChainAgrees, LastAgrees, ViewAgrees
  <1>5. CASE Snapshot
    <2>1. /\ ~raced /\ ~lost /\ linked /\ view' = FromSnapshot
          /\ UNCHANGED <<sessions, ctl, conn, bus, stream, rx>>
      BY <1>5 DEF Snapshot, vars
    <2>2. ChainAgrees(id, f)
      BY <2>1 DEF Chained
    <2>3. ViewAgrees(id, f)'
      BY <2>1 DEF ViewAgrees, FromSnapshot, Shows
    <2> QED
      BY <2>1, <2>2, <2>3, SameHandlers DEF ChainAgrees
  <1>6. CASE Call \/ Answered \/ UNCHANGED <<vars, tuiVars>>
    <2>0. Up' <=> Up
      BY <1>6 DEF Call, Answered, tuiVars, Up
    <2>1. /\ UNCHANGED <<sessions, ctl, conn, bus, stream, rx, view>>
          /\ UNCHANGED <<linked, lost, raced>>
      BY <1>6 DEF Call, Answered, vars, tuiVars
    <2>2. ChainAgrees(id, f)
      BY <2>1 DEF Chained
    <2>3. ViewAgrees(id, f) <=> ViewAgrees(id, f)'
      BY <2>0, <2>1 DEF ViewAgrees, Shows
    <2> QED
      BY <2>1, <2>2, <2>3, SameHandlers DEF ChainAgrees
  <1>7. CASE ReadFrame
    <2>1. /\ ~raced /\ ~lost /\ linked /\ Len(rx) # RxCapacity
          /\ stream # << >> /\ stream' = Tail(stream)
          /\ rx' = Append(IF Len(rx) < RxCapacity THEN rx ELSE Tail(rx), Head(stream))
          /\ UNCHANGED <<sessions, ctl, conn, bus, tui, view>>
      BY <1>7 DEF ReadFrame, vars
    <2>2. Len(rx) < RxCapacity
      BY <1>0, <2>1, ReplicaBounds DEF Connected
    <2>3. ChainAgrees(id, f) /\ rx' = Append(rx, Head(stream))
      BY <2>1, <2>2 DEF Chained
    <2> QED
      BY <1>0, <2>1, <2>3, ReadChain
  <1>8. CASE Apply
    <2>1. /\ ~raced /\ ~lost /\ linked /\ Up /\ rx # << >> /\ rx' = Tail(rx)
          /\ view' = ApplyEvent(view, Head(rx))
          /\ UNCHANGED <<sessions, ctl, conn, bus, tui, stream>>
      BY <1>8 DEF Apply, vars, Up
    <2>2. ChainAgrees(id, f)
      BY <2>1 DEF Chained
    <2> QED
      BY <2>1, <2>2, ApplyChain
  <1> QED
    BY <1>1, <1>2, <1>3, <1>4, <1>5, <1>6, <1>7, <1>8 DEF TuiNext, Dashboard
(* A session that has not ended is shown, or its birth is on the way. *)
LEMMA NotEndedBefore ==
  ASSUME Silent \/ Writes \/ Emits, NEW id \in Ids, Exists(sessions', id), sessions'[id].finished_at = None
  PROVE  Owed(Births, id)' \/ (Exists(sessions, id) /\ sessions[id].finished_at = None)
  <1>1. CASE Silent
    BY <1>1 DEF Silent, RowLike
  <1>2. CASE Writes
    <2>1. PICK e : /\ e.id \in Ids /\ Written(sessions, sessions', e.id, e)
                   /\ Debts' = Debts \cup {e}
      BY <1>2 DEF Writes
    <2>2. CASE e.id = id /\ e.kind \in Births
      BY <2>1, <2>2 DEF Owed, Is
    <2>3. CASE e.id = id /\ e.kind \notin Births
      BY <2>1, <2>3 DEF Written
    <2>4. CASE e.id # id
      <3>1. sessions'[id] = sessions[id]
        BY <2>1, <2>4 DEF Written
      <3> QED
        BY <3>1 DEF Exists
    <2> QED
      BY <2>2, <2>3, <2>4
  <1>3. CASE Emits
    BY <1>3 DEF Emits
  <1> QED
    BY <1>1, <1>2, <1>3

LEMMA BornStep ==
  ASSUME IInv, IInv', TuiInv, Connected, Orderly, Born, [TuiNext]_<<vars, tuiVars>>
  PROVE  Born'
  <1> SUFFICES ASSUME ~raced', ~lost', linked', Up', NEW id \in Ids,
                      Exists(sessions', id), sessions'[id].finished_at = None
               PROVE  \/ view'[id] # NoView
                      \/ Owed(Births, id)' \/ Has(bus', Births, id)
                      \/ Has(stream', Births, id) \/ Has(rx', Births, id)
    BY DEF Born, BornOrShown, Shows
  <1>0. /\ bus \in Seq(BusEvent) /\ stream \in Seq(BusEvent) /\ rx \in Seq(BusEvent)
        /\ DOMAIN view = Ids
    BY DEF IInv, TypeOK, TuiInv, ChannelsBacked, ViewKnown
  <1>b. ASSUME ~raced, ~lost, linked, Up, Exists(sessions, id), sessions[id].finished_at = None
        PROVE  \/ view[id] # NoView
               \/ Owed(Births, id) \/ Has(bus, Births, id)
               \/ Has(stream, Births, id) \/ Has(rx, Births, id)
    BY <1>b DEF Born, BornOrShown, Shows
  <1>1. CASE Serve
    <2>1. /\ ~raced /\ ~lost /\ linked /\ ~Overwritten /\ ~Swept
          /\ UNCHANGED <<tui, stream, rx, view>>
      BY <1>1 DEF Serve
    <2>2. Up /\ phase = "serving" /\ late = {}
      BY <2>1 DEF Up, Connected, Orderly
    <2>3. Silent \/ Writes \/ Emits
      BY <1>1, <2>1, <2>2, ServeShape
    <2>4. CASE Exists(sessions, id) /\ sessions[id].finished_at = None
      <3>1. Owed(Births, id) \/ Has(bus, Births, id) => Owed(Births, id)' \/ Has(bus', Births, id)
        BY <2>1, <2>3, PendingMoves
      <3> QED
        BY <1>b, <2>1, <2>2, <2>4, <3>1
    <2> QED
      BY <2>3, <2>4, NotEndedBefore
  <1>2. CASE DaemonStops \/ Cut \/ Quit
    BY <1>2 DEF DaemonStops, Cut, Quit, Unlink
  <1>3. CASE Push
    <2>1. /\ ~raced /\ ~lost /\ linked /\ bus # << >> /\ bus' = Tail(bus)
          /\ stream' = Append(stream, Head(bus))
          /\ UNCHANGED <<sessions, ctl, conn, tui, rx, view>>
      BY <1>3 DEF Push, Forward, db
    <2>2. Up /\ (Owed(Births, id)' <=> Owed(Births, id)) /\ Head(bus) \in BusEvent
      BY <1>0, <2>1, SameHandlers DEF Up
    <2>3. Has(bus, Births, id) <=> Is(Head(bus), Births, id) \/ Has(Tail(bus), Births, id)
      BY <1>0, <2>1, HasTail
    <2>4. Has(stream', Births, id) <=> Has(stream, Births, id) \/ Is(Head(bus), Births, id)
      BY <1>0, <2>1, <2>2, HasAppend
    <2> QED
      BY <1>b, <2>1, <2>2, <2>3, <2>4
  <1>4. CASE Subscribe
    BY <1>4 DEF Subscribe, Up
  <1>5. CASE Snapshot
    <2>1. view' = FromSnapshot /\ UNCHANGED sessions
      BY <1>5 DEF Snapshot, vars
    <2>2. view'[id] = Shown(sessions[id]) /\ sessions[id].status # "absent"
      BY <2>1 DEF FromSnapshot, Exists, Statuses
    <2> QED
      BY <2>2, ShownIsWhole
  <1>6. CASE Call \/ Answered \/ UNCHANGED <<vars, tuiVars>>
    <2>1. Up' <=> Up
      BY <1>6 DEF Call, Answered, tuiVars, Up
    <2>2. UNCHANGED <<sessions, ctl, conn, bus, stream, rx, view>> /\ UNCHANGED <<linked, lost, raced>>
      BY <1>6 DEF Call, Answered, vars, tuiVars
    <2>3. Owed(Births, id)' <=> Owed(Births, id)
      BY <2>2, SameHandlers
    <2> QED
      BY <1>b, <2>1, <2>2, <2>3
  <1>7. CASE ReadFrame
    <2>1. /\ ~raced /\ ~lost /\ linked /\ Len(rx) # RxCapacity
          /\ stream # << >> /\ stream' = Tail(stream)
          /\ rx' = Append(IF Len(rx) < RxCapacity THEN rx ELSE Tail(rx), Head(stream))
          /\ UNCHANGED <<sessions, ctl, conn, bus, tui, view>>
      BY <1>7 DEF ReadFrame, vars
    <2>2. Len(rx) < RxCapacity
      BY <1>0, <2>1, ReplicaBounds DEF Connected
    <2>3. Up /\ (Owed(Births, id)' <=> Owed(Births, id)) /\ Head(stream) \in BusEvent
      BY <1>0, <2>1, SameHandlers DEF Up
    <2>4. Has(stream, Births, id) <=> Is(Head(stream), Births, id) \/ Has(Tail(stream), Births, id)
      BY <1>0, <2>1, HasTail
    <2>5. Has(rx', Births, id) <=> Has(rx, Births, id) \/ Is(Head(stream), Births, id)
      BY <1>0, <2>1, <2>2, <2>3, HasAppend
    <2> QED
      BY <1>b, <2>1, <2>3, <2>4, <2>5
  <1>8. CASE Apply
    <2>1. /\ ~raced /\ ~lost /\ linked /\ Up /\ rx # << >> /\ rx' = Tail(rx)
          /\ view' = ApplyEvent(view, Head(rx))
          /\ UNCHANGED <<sessions, ctl, conn, bus, tui, stream>>
      BY <1>8 DEF Apply, vars, Up
    <2>2. Owed(Births, id)' <=> Owed(Births, id)
      BY <2>1, SameHandlers
    <2>3. Has(rx, Births, id) <=> Is(Head(rx), Births, id) \/ Has(Tail(rx), Births, id)
      BY <1>0, <2>1, HasTail
    <2>4. ~Is(Head(rx), Deaths, id)
      <3>1. Backed(Head(rx))
        BY <2>1, TailBacked, ChannelsSplit DEF TuiInv
      <3> QED
        BY <2>1, <3>1 DEF Backed, Is, Deaths
    <2>5. Is(Head(rx), Births, id) => view'[id] # NoView
      <3>1. Is(Head(rx), Births, id) => view'[id] = Shown(NewRow(None, None, Head(rx).val))
        BY <1>0, <2>1, ApplyRow
      <3>2. NewRow(None, None, Head(rx).val).status # "absent"
        BY DEF NewRow
      <3> QED
        BY <3>1, <3>2, ShownIsWhole
    <2>6. view[id] # NoView => view'[id] # NoView
      <3>1. view[id] # NoView => WholeRow(view[id])
        BY DEF Connected, Shows
      <3>2. \/ Is(Head(rx), Births, id) \/ view'[id] = view[id]
            \/ Is(Head(rx), Patching, id) /\ view[id] # NoView /\ view'[id] = Patch(view[id], Head(rx))
        BY <1>0, <2>1, <2>4, ApplyRow
      <3>3. Is(Head(rx), Patching, id) /\ view[id] # NoView => Patch(view[id], Head(rx)) # NoView
        BY <3>1, PatchWhole DEF Is
      <3> QED
        BY <2>5, <3>2, <3>3
    <2> QED
      BY <1>b, <2>1, <2>2, <2>3, <2>5, <2>6
  <1> QED
    BY <1>1, <1>2, <1>3, <1>4, <1>5, <1>6, <1>7, <1>8 DEF TuiNext, Dashboard

LEMMA ConvInit ==
  ASSUME TuiInit
  PROVE  ConvInv
  <1>1. Connected
    BY ReplicaBounds DEF TuiInit, Connected, Shows
  <1>2. ~linked /\ phase # "serving"
    BY DEF TuiInit, Init
  <1> QED
    BY <1>1, <1>2 DEF ConvInv, Orderly, Chained, Born

(* In a quiet state nothing is owed or under way, so what remains of the    *)
(* chain is that the view agrees with the table.                           *)
LEMMA QuietConverged ==
  ASSUME ConvInv
  PROVE  Converged
  <1> SUFFICES ASSUME Quiet, ~raced PROVE ShowsTable
    BY DEF Converged
  <1>1. ~lost /\ linked /\ Up /\ bus = << >> /\ stream = << >> /\ rx = << >>
    BY DEF Quiet, Up
  <1>2. \A K, id : ~Owed(K, id) /\ ~Has(bus, K, id) /\ ~Has(stream, K, id) /\ ~Has(rx, K, id)
    <2>1. \A e : e \notin Debts
      BY DebtIs DEF Quiet, CtlOwes, ConnOwes, IdleCtl, IdleConn
    <2> QED
      BY <1>1, <2>1, EmptyHasNone DEF Owed
  <1>3. ASSUME NEW id \in Ids, Exists(sessions, id), sessions[id].finished_at = None
        PROVE  Shows(id)
    BY <1>1, <1>2, <1>3 DEF ConvInv, Born, BornOrShown
  <1>4. ASSUME NEW id \in Ids, Shows(id)
        PROVE  view[id] = Shown(sessions[id])
    <2>1. \A f \in ViewFields : view[id][f] = Shown(sessions[id])[f]
      BY <1>1, <1>2, <1>4 DEF ConvInv, Chained, ChainAgrees, ViewAgrees
    <2>2. WholeRow(view[id])
      BY <1>4 DEF ConvInv, Connected
    <2> QED
      BY <2>1, <2>2, WholeEqual
  <1> QED
    BY <1>3, <1>4 DEF ShowsTable

(* The dashboard converges: with complete usage reports, whenever the       *)
(* daemon is quiet, nothing was overwritten, no two handlers met on a      *)
(* session and no other process wrote to the tables, it shows the table,   *)
(* whatever was queued between subscription and snapshot                   *)
(* (connect_and_subscribe, TuiState::from_snapshot,                        *)
(* TuiState::apply_event).                                                 *)
THEOREM DashboardConverges ==
  ASSUME UsagesComplete
  PROVE  TuiSpec => []Converged
  <1>1. TuiInit => ConvInv
    BY ConvInit
  <1>2. IInv /\ IInv' /\ TuiInv /\ ConvInv /\ [TuiNext]_<<vars, tuiVars>> => ConvInv'
    BY ConnectedStep, OrderlyStep, ChainedStep, BornStep DEF ConvInv
  <1>3. ConvInv => Converged
    BY QuietConverged
  <1> QED
    BY <1>1, <1>2, <1>3, DashboardOnlyReads, IInvHolds, TuiInvHolds, PTL DEF TuiSpec
=============================================================================
