------------------------ MODULE SessionServiceProofs ------------------------
(***************************************************************************)
(* Proofs about SessionService, for every number of sessions, plugins,     *)
(* panes and control threads and every bus capacity.                       *)
(***************************************************************************)
EXTENDS SessionService, SequenceTheorems, TLAPS

-----------------------------------------------------------------------------
(* Lemmas about the tables of SessionTable. *)

(* The rows handlers build are rows. *)
LEMMA RowTypes ==
  /\ NoRow("absent") \in Row
  /\ NoRow("gone") \in Row
  /\ \A o \in Plugins \cup {None}, x \in Panes \cup {None}, n \in Names :
       NewRow(o, x, n) \in Row
  BY DEF NoRow, NewRow, Row, Statuses

(* Each statement of db/repo.rs maps a table to a table. *)
LEMMA TableTypes ==
  ASSUME NEW t \in [Ids -> Row], NEW id \in Ids
  PROVE  /\ \A r \in Row : Insert(t, id, r) \in [Ids -> Row]
         /\ \A s \in Statuses : UpdateStatus(t, id, s) \in [Ids -> Row]
         /\ \A k \in Tasks : UpdateTask(t, id, k) \in [Ids -> Row]
         /\ \A u \in Usages : UpdateUsage(t, id, u) \in [Ids -> Row]
         /\ \A n \in Names : UpdateRename(t, id, n) \in [Ids -> Row]
         /\ \A a \in Ages : MarkFinished(t, id, a) \in [Ids -> Row]
         /\ Expire(t, id) \in [Ids -> Row]
         /\ DeleteTombstones(t) \in [Ids -> Row]
  <1>1. \A r \in Row : Insert(t, id, r) \in [Ids -> Row]
    BY DEF Insert
  <1>2. \A s \in Statuses : UpdateStatus(t, id, s) \in [Ids -> Row]
    BY DEF UpdateStatus, Row
  <1>3. \A k \in Tasks : UpdateTask(t, id, k) \in [Ids -> Row]
    BY DEF UpdateTask, Row
  <1>4. \A u \in Usages : UpdateUsage(t, id, u) \in [Ids -> Row]
    BY DEF UpdateUsage, Row
  <1>5. \A n \in Names : UpdateRename(t, id, n) \in [Ids -> Row]
    BY DEF UpdateRename, Row
  <1>6. ASSUME NEW a \in Ages PROVE MarkFinished(t, id, a) \in [Ids -> Row]
    <2>1. PICK r : r = [t[id] EXCEPT !.status = "finished", !.finished_at = a]
      OBVIOUS
    <2>2. r \in Row
      BY <2>1 DEF Row, Statuses
    <2>3. MarkFinished(t, id, a) = [t EXCEPT ![id] = r]
      BY <2>1 DEF MarkFinished
    <2> QED
      BY <2>2, <2>3
  <1>7. Expire(t, id) \in [Ids -> Row]
    BY DEF Expire, Row, Ages
  <1>8. DeleteTombstones(t) \in [Ids -> Row]
    BY RowTypes DEF DeleteTombstones
  <1> QED
    BY <1>1, <1>2, <1>3, <1>4, <1>5, <1>6, <1>7, <1>8

(* An emit keeps the channel a sequence of events within its capacity. *)
LEMMA EmitType ==
  ASSUME bus \in Seq(BusEvent), Len(bus) <= BusCapacity,
         NEW k \in BusKinds, NEW i \in Ids \cup {None}, NEW v \in BusVals,
         Emit(k, i, v)
  PROVE  bus' \in Seq(BusEvent) /\ Len(bus') <= BusCapacity
  <1> DEFINE e == [kind |-> k, id |-> i, val |-> v]
  <1>1. e \in BusEvent
    BY DEF BusEvent
  <1>2. CASE Len(bus) < BusCapacity
    BY <1>1, <1>2, BusCapacityAssumption DEF Emit
  <1>3. CASE ~(Len(bus) < BusCapacity)
    <2>1. bus # << >> /\ Len(bus) = BusCapacity
      BY <1>3, BusCapacityAssumption
    <2>2. Tail(bus) \in Seq(BusEvent) /\ Len(Tail(bus)) = Len(bus) - 1
      BY <2>1
    <2>3. bus' = Append(Tail(bus), e)
      BY <1>3 DEF Emit
    <2> QED
      BY <1>1, <2>1, <2>2, <2>3, BusCapacityAssumption
  <1> QED
    BY <1>2, <1>3

-----------------------------------------------------------------------------
(* The handlers' local states and moves. *)
LEMMA LocalTypes ==
  /\ IdleCtl \in Ctl
  /\ IdleConn \in Conn
  BY DEF IdleCtl, IdleConn, Ctl, Conn, CtlPcs, ConnPcs, NoReport

LEMMA CtlMoves ==
  ASSUME ctl \in [Workers -> Ctl], NEW w \in Workers,
         \/ \E pc \in CtlPcs : CtlGoto(w, pc)
         \/ \E pc \in CtlPcs, id \in Ids, n \in Names \cup {None} : CtlStart(w, pc, id, n)
         \/ CtlReply(w)
  PROVE  ctl' \in [Workers -> Ctl]
  BY LocalTypes DEF CtlGoto, CtlStart, CtlReply, Ctl

LEMMA ConnMoves ==
  ASSUME conn \in [Plugins -> Conn], NEW p \in Plugins,
         \/ \E pc \in ConnPcs : ConnGoto(p, pc)
         \/ \E pc \in ConnPcs, id \in Ids \cup {None}, n \in Names \cup {None},
               r \in Reports \cup {NoReport} : ConnStart(p, pc, id, n, r)
         \/ ConnReply(p)
  PROVE  conn' \in [Plugins -> Conn]
  BY LocalTypes DEF ConnGoto, ConnStart, ConnReply, Conn

(* The table a report is applied to stays a table. *)
LEMMA AppliedType ==
  ASSUME NEW t \in [Ids -> Row], NEW id \in Ids, NEW r \in Reports, ~NoEffect(r)
  PROVE  Applied(t, id, r) \in [Ids -> Row]
  <1>1. CASE r.kind = "session.status_changed"
    <2>1. r.val \in Statuses
      BY <1>1, ReportsAssumption DEF NoEffect, StatusReports, TaskReports, UsageReports,
         FinishReports, OtherReports
    <2> QED
      BY <1>1, <2>1, TableTypes DEF Applied
  <1>2. CASE r.kind = "session.task_changed"
    <2>1. r.val \in Tasks
      BY <1>2, ReportsAssumption DEF NoEffect, StatusReports, TaskReports, UsageReports,
         FinishReports, OtherReports
    <2> QED
      BY <1>2, <2>1, TableTypes DEF Applied
  <1>3. CASE r.kind = "session.usage_updated"
    <2>1. r.val \in Usages
      BY <1>3, ReportsAssumption DEF NoEffect, StatusReports, TaskReports, UsageReports,
         FinishReports, OtherReports
    <2> QED
      BY <1>3, <2>1, TableTypes DEF Applied
  <1>4. CASE r.kind = "session.finished"
    <2>1. r.val \in Ages
      BY <1>4, ReportsAssumption DEF NoEffect, StatusReports, TaskReports, UsageReports,
         FinishReports, OtherReports
    <2> QED
      BY <1>4, <2>1, TableTypes DEF Applied
  <1> QED
    BY <1>1, <1>2, <1>3, <1>4 DEF NoEffect, Mutating

-----------------------------------------------------------------------------
(* Type correctness is preserved; it needs to know that a handler in the   *)
(* middle of a request holds an id (HandlersInformed).                     *)
LEMMA CtlTypeStep ==
  ASSUME TypeOK, HandlersInformed, NEW w \in Workers, Control(w)
  PROVE  TypeOK'
  <1> USE DEF TypeOK, db
  <1>0. \A k \in Ids \cup {None} : \A n \in Names \cup {None} :
          k \in Ids \cup {None} /\ n \in BusVals /\ None \in BusVals
    BY DEF BusVals
  <1>1. CASE SessionCreate(w)
    <2>1. PICK id \in Ids, n \in Names :
            /\ sessions' = Insert(sessions, id, NewRow(None, None, n))
            /\ CtlStart(w, "create_emit", id, n)
      BY <1>1 DEF SessionCreate
    <2>2. sessions' \in [Ids -> Row]
      BY <2>1, TableTypes, RowTypes
    <2>3. ctl' \in [Workers -> Ctl]
      BY <2>1, CtlMoves DEF CtlPcs
    <2> QED
      BY <1>1, <2>2, <2>3 DEF SessionCreate
  <1>2. CASE SessionRename(w)
    <2>1. PICK id \in Ids, n \in Names :
            /\ sessions' = UpdateRename(sessions, id, n)
            /\ CtlStart(w, "rename_emit", id, n)
      BY <1>2 DEF SessionRename
    <2>2. sessions' \in [Ids -> Row]
      BY <2>1, TableTypes
    <2>3. ctl' \in [Workers -> Ctl]
      BY <2>1, CtlMoves DEF CtlPcs
    <2> QED
      BY <1>2, <2>2, <2>3 DEF SessionRename
  <1>3. CASE SessionDismissUpdate(w)
    <2>1. ctl[w].id \in Ids
      BY <1>3 DEF SessionDismissUpdate, CtlAt, HandlersInformed, Known
    <2>2. sessions' \in [Ids -> Row]
      <3>1. UpdateStatus(sessions, ctl[w].id, "idle") \in [Ids -> Row]
        BY <2>1, TableTypes DEF Statuses
      <3> QED
        BY <1>3, <3>1 DEF SessionDismissUpdate, CtlNotFound
    <2>3. ctl' \in [Workers -> Ctl]
      BY <1>3, CtlMoves DEF SessionDismissUpdate, CtlNotFound, CtlPcs
    <2> QED
      BY <1>3, <2>2, <2>3 DEF SessionDismissUpdate
  <1>4. CASE SessionKillMark(w)
    <2>1. ctl[w].id \in Ids
      BY <1>4 DEF SessionKillMark, CtlAt, HandlersInformed, Known
    <2>2. sessions' \in [Ids -> Row]
      BY <1>4, <2>1, TableTypes DEF SessionKillMark, CtlNotFound, Ages
    <2>3. ctl' \in [Workers -> Ctl]
      BY <1>4, CtlMoves DEF SessionKillMark, CtlNotFound, CtlPcs
    <2> QED
      BY <1>4, <2>2, <2>3 DEF SessionKillMark
  <1>5. CASE SessionDismissGet(w) \/ SessionJumpGet(w) \/ SessionKillGet(w)
    <2>1. ctl' \in [Workers -> Ctl]
      BY <1>5, CtlMoves DEF SessionDismissGet, SessionJumpGet, SessionKillGet, CtlPcs
    <2> QED
      BY <1>5, <2>1 DEF SessionDismissGet, SessionJumpGet, SessionKillGet
  <1>6. CASE SessionKillTmux(w)
    <2>1. ctl' \in [Workers -> Ctl]
      BY <1>6, CtlMoves DEF SessionKillTmux, CtlPcs
    <2> QED
      BY <1>6, <2>1 DEF SessionKillTmux
  <1>7. CASE \/ SessionCreateEmit(w) \/ SessionRenameEmit(w) \/ SessionDismissEmit(w)
             \/ SessionJumpSwitch(w) \/ SessionKillEmit(w) \/ DaemonShutdown(w)
    <2>1. ctl[w].id \in Ids \cup {None} /\ ctl[w].name \in Names \cup {None}
      BY DEF Ctl
    <2>2. CtlReply(w) /\ UNCHANGED <<sessions, events, plugins, conn, phase, late>>
      BY <1>7 DEF SessionCreateEmit, SessionRenameEmit, SessionDismissEmit,
         SessionJumpSwitch, DaemonShutdown, SessionKillEmit
    <2>3. \/ UNCHANGED bus
          \/ \E k \in BusKinds, i \in Ids \cup {None}, v \in BusVals : Emit(k, i, v)
      BY <1>7, <1>0, <2>1 DEF SessionCreateEmit, SessionRenameEmit, SessionDismissEmit,
         SessionJumpSwitch, DaemonShutdown, SessionKillEmit, EmitFrom, BusKinds
    <2>4. bus' \in Seq(BusEvent) /\ Len(bus') <= BusCapacity
      BY <2>3, EmitType
    <2>5. ctl' \in [Workers -> Ctl]
      BY <2>2, CtlMoves
    <2> QED
      BY <2>2, <2>4, <2>5
  <1> QED
    BY <1>1, <1>2, <1>3, <1>4, <1>5, <1>6, <1>7 DEF Control

(* The values a report carries can travel on the bus. *)
LEMMA ReportVals ==
  ASSUME NEW r \in Reports, ~NoEffect(r)
  PROVE  r.kind \in BusKinds /\ r.val \in BusVals
  BY ReportsAssumption DEF NoEffect, Mutating, BusKinds, BusVals, StatusReports, TaskReports,
     UsageReports, FinishReports, OtherReports

LEMMA PluginTypeStep ==
  ASSUME TypeOK, HandlersInformed, NEW p \in Plugins, Plugin(p)
  PROVE  TypeOK'
  <1> USE DEF TypeOK, db
  <1>1. CASE PluginHello(p) \/ PluginHelloTouch(p)
    <2>1. plugins' \in [Plugins -> {"absent", "known", "connected"}]
      BY <1>1 DEF PluginHello, PluginHelloTouch
    <2>2. conn' \in [Plugins -> Conn]
      BY <1>1, ConnMoves DEF PluginHello, PluginHelloTouch, ConnPcs
    <2> QED
      BY <1>1, <2>1, <2>2 DEF PluginHello, PluginHelloTouch
  <1>2. CASE SessionDiscover(p)
    <2>1. PICK id \in Ids, x \in Panes, n \in Names :
            /\ sessions' = Insert(sessions, id, NewRow(p, x, n))
            /\ ConnStart(p, "discover_emit", id, n, NoReport)
      BY <1>2 DEF SessionDiscover
    <2>2. sessions' \in [Ids -> Row]
      BY <2>1, TableTypes, RowTypes
    <2>3. conn' \in [Plugins -> Conn]
      BY <2>1, ConnMoves DEF ConnPcs
    <2> QED
      BY <1>2, <2>2, <2>3 DEF SessionDiscover
  <1>3. CASE SessionReport(p)
    <2>1. conn' \in [Plugins -> Conn]
      BY <1>3, ConnMoves DEF SessionReport, ConnPcs
    <2> QED
      BY <1>3, <2>1 DEF SessionReport
  <1>4. CASE SessionReportInsert(p)
    <2>1. conn[p].id \in Ids /\ conn[p].report \in Reports
      BY <1>4 DEF SessionReportInsert, ConnAt, HandlersInformed, Known
    <2>2. events' \in SUBSET [id : Ids, report : Reports]
      BY <1>4, <2>1 DEF SessionReportInsert
    <2>3. conn' \in [Plugins -> Conn]
      BY <1>4, ConnMoves DEF SessionReportInsert, ConnPcs
    <2> QED
      BY <1>4, <2>2, <2>3 DEF SessionReportInsert
  <1>5. CASE SessionReportApply(p)
    <2>1. conn[p].id \in Ids /\ conn[p].report \in Reports
      BY <1>5 DEF SessionReportApply, ConnAt, HandlersInformed, Known
    <2>2. sessions' \in [Ids -> Row]
      BY <1>5, <2>1, AppliedType DEF SessionReportApply
    <2>3. conn' \in [Plugins -> Conn]
      BY <1>5, ConnMoves DEF SessionReportApply, ConnPcs
    <2> QED
      BY <1>5, <2>2, <2>3 DEF SessionReportApply
  <1>6. CASE PluginHelloEmit(p) \/ SessionDiscoverEmit(p) \/ SessionReportEmit(p)
    <2>1. conn[p].id \in Ids \cup {None} /\ conn[p].name \in Names \cup {None}
      BY DEF Conn
    <2>2. ConnReply(p) /\ UNCHANGED <<sessions, events, plugins, ctl, phase, late>>
      BY <1>6 DEF PluginHelloEmit, SessionDiscoverEmit, SessionReportEmit
    <2>3. \E k \in BusKinds, i \in Ids \cup {None}, v \in BusVals : EmitFrom(p, k, i, v)
      <3>1. CASE PluginHelloEmit(p)
        BY <3>1 DEF PluginHelloEmit, BusKinds, BusVals
      <3>2. CASE SessionDiscoverEmit(p)
        BY <2>1, <3>2 DEF SessionDiscoverEmit, BusKinds, BusVals
      <3>3. CASE SessionReportEmit(p)
        <4>1. conn[p].report \in Reports /\ ~NoEffect(conn[p].report)
          BY <3>3 DEF SessionReportEmit, ConnAt, HandlersInformed
        <4> QED
          BY <2>1, <3>3, <4>1, ReportVals DEF SessionReportEmit
      <3> QED
        BY <1>6, <3>1, <3>2, <3>3
    <2>4. bus' \in Seq(BusEvent) /\ Len(bus') <= BusCapacity
      BY <2>3, EmitType DEF EmitFrom
    <2>5. conn' \in [Plugins -> Conn]
      BY <2>2, ConnMoves
    <2> QED
      BY <2>2, <2>4, <2>5
  <1> QED
    BY <1>1, <1>2, <1>3, <1>4, <1>5, <1>6 DEF Plugin

LEMMA EndingTypes ==
  ASSUME TypeOK, NEW hs, OnlyRunning(hs)
  PROVE  ctl' \in [Workers -> Ctl] /\ conn' \in [Plugins -> Conn]
  BY LocalTypes DEF OnlyRunning, TypeOK

LEMMA TypeStep ==
  ASSUME TypeOK, HandlersInformed, [Next]_vars
  PROVE  TypeOK'
  <1>1. CASE \E w \in Workers : Control(w)
    BY <1>1, CtlTypeStep
  <1>2. CASE \E p \in Plugins : Plugin(p)
    BY <1>2, PluginTypeStep
  <1>3. CASE Forward
    <2>1. bus' \in Seq(BusEvent) /\ Len(bus') <= BusCapacity
      BY <1>3, BusCapacityAssumption DEF Forward, TypeOK
    <2> QED
      BY <1>3, <2>1 DEF Forward, TypeOK, db
  <1>4. CASE Stop
    <2>1. bus' \in Seq(BusEvent) /\ Len(bus') <= BusCapacity
      BY <1>4, BusCapacityAssumption DEF Stop
    <2>2. PICK left \in SUBSET (Workers \cup Plugins) :
            late' = late \cup left /\ OnlyRunning(late \cup left)
      BY <1>4 DEF Stop
    <2>3. ctl' \in [Workers -> Ctl] /\ conn' \in [Plugins -> Conn]
      BY <2>2, EndingTypes
    <2> QED
      BY <1>4, <2>1, <2>2, <2>3 DEF Stop, TypeOK, db
  <1>5. CASE BootGcEvents
    BY <1>5 DEF BootGcEvents, WithSession, TypeOK
  <1>6. CASE BootGcSessions \/ StrayGc
    <2>1. sessions' \in [Ids -> Row]
      <3>1. CASE Ids = {}
        BY <1>6, <3>1 DEF BootGcSessions, StrayGc, DeleteTombstones, TypeOK
      <3>2. CASE Ids # {}
        BY <1>6, <3>2, TableTypes DEF BootGcSessions, StrayGc, TypeOK
      <3> QED
        BY <3>1, <3>2
    <2> QED
      BY <1>6, <2>1 DEF BootGcSessions, StrayGc, WithSession, TypeOK
  <1>7. CASE ThirtyDaysPass
    BY <1>7, TableTypes DEF ThirtyDaysPass, TypeOK
  <1>8. CASE LateEnds
    <2>1. PICK h \in late :
            late' = late \ {h} /\ OnlyRunning((Workers \cup Plugins) \ {h})
      BY <1>8 DEF LateEnds
    <2>2. ctl' \in [Workers -> Ctl] /\ conn' \in [Plugins -> Conn]
      BY <2>1, EndingTypes
    <2> QED
      BY <1>8, <2>1, <2>2 DEF LateEnds, TypeOK, db
  <1>9. CASE UNCHANGED vars
    BY <1>9 DEF vars, TypeOK
  <1> QED
    BY <1>1, <1>2, <1>3, <1>4, <1>5, <1>6, <1>7, <1>8, <1>9 DEF Next

-----------------------------------------------------------------------------
(* What a row keeps as long as it exists: its owner, its binding and the    *)
(* fact that it was finished once.                                         *)
Same(t, u, j) ==
  /\ u[j].owner = t[j].owner
  /\ u[j].pane = t[j].pane
  /\ t[j].finished_at # None => u[j].finished_at # None

RowLasts(t, u, j) == Exists(u, j) /\ Same(t, u, j)

(* What every step keeps: a session that was inserted never becomes absent  *)
(* or comes back from the dead, a row that is still there is the same one  *)
(* with its history, a plugin that connected once stays marked so.         *)
Keeps ==
  /\ \A id \in Ids : sessions[id].status # "absent" =>
       /\ sessions'[id].status # "absent"
       /\ Exists(sessions', id) => Exists(sessions, id) /\ Same(sessions, sessions', id)
  /\ \A e \in events : Exists(sessions', e.id) => e \in events'
  /\ \A p \in Plugins : plugins[p] = "connected" => plugins'[p] = "connected"

(* Handlers delete nothing.                                                 *)
Grows ==
  /\ \A id \in Ids : Exists(sessions, id) => RowLasts(sessions, sessions', id)
  /\ \A id \in Ids : Gone(sessions, id) => Gone(sessions', id)
  /\ events \subseteq events'
  /\ \A p \in Plugins : plugins[p] = "connected" => plugins'[p] = "connected"

LEMMA GrowsKeeps ==
  ASSUME TypeOK, Grows
  PROVE  Keeps
  BY DEF Grows, Keeps, RowLasts, Gone, Exists, Statuses, TypeOK, Row

(* The statements that update a row keep every row, owner and binding. *)
LEMMA UpdatesKeepRows ==
  ASSUME NEW t \in [Ids -> Row], NEW id \in Ids, Exists(t, id), NEW j \in Ids, Exists(t, j),
         NEW u,
         \/ \E s \in Statuses : u = UpdateStatus(t, id, s)
         \/ \E k \in Tasks : u = UpdateTask(t, id, k)
         \/ \E k \in Usages : u = UpdateUsage(t, id, k)
         \/ \E n \in Names : u = UpdateRename(t, id, n)
         \/ \E a \in Ages : u = MarkFinished(t, id, a)
         \/ u = Expire(t, id)
  PROVE  RowLasts(t, u, j)
  <1> USE DEF Exists, RowLasts, Same
  <1>1. CASE \E s \in Statuses : u = UpdateStatus(t, id, s)
    BY <1>1 DEF UpdateStatus, Row
  <1>2. CASE \E k \in Tasks : u = UpdateTask(t, id, k)
    BY <1>2 DEF UpdateTask, Row
  <1>3. CASE \E k \in Usages : u = UpdateUsage(t, id, k)
    BY <1>3 DEF UpdateUsage, Row
  <1>4. CASE \E n \in Names : u = UpdateRename(t, id, n)
    BY <1>4 DEF UpdateRename, Row
  <1>5. CASE \E a \in Ages : u = MarkFinished(t, id, a)
    <2>1. PICK a \in Ages : u = MarkFinished(t, id, a)
      BY <1>5
    <2>2. /\ u[id].status = "finished" /\ u[id].owner = t[id].owner
          /\ u[id].pane = t[id].pane /\ u[id].finished_at = a
      BY <2>1 DEF MarkFinished, Row
    <2>3. j # id => u[j] = t[j]
      BY <2>1 DEF MarkFinished
    <2> QED
      BY <2>2, <2>3, NoneIsNoString DEF Statuses
  <1>6. CASE u = Expire(t, id)
    BY <1>6, NoneIsNoString DEF Expire, Row, Ages
  <1> QED
    BY <1>1, <1>2, <1>3, <1>4, <1>5, <1>6

(* They touch no other row.                                                 *)
LEMMA UpdatesElsewhere ==
  ASSUME NEW t \in [Ids -> Row], NEW id, NEW j \in Ids, j # id
  PROVE  /\ \A s : UpdateStatus(t, id, s)[j] = t[j]
         /\ \A k : UpdateTask(t, id, k)[j] = t[j]
         /\ \A k : UpdateUsage(t, id, k)[j] = t[j]
         /\ \A n : UpdateRename(t, id, n)[j] = t[j]
         /\ \A a : MarkFinished(t, id, a)[j] = t[j]
         /\ \A r : Insert(t, id, r)[j] = t[j]
         /\ Expire(t, id)[j] = t[j]
  BY DEF UpdateStatus, UpdateTask, UpdateUsage, UpdateRename, MarkFinished, Insert, Expire

LEMMA AppliedElsewhere ==
  ASSUME NEW t \in [Ids -> Row], NEW id, NEW j \in Ids, j # id, NEW r, ~NoEffect(r)
  PROVE  Applied(t, id, r)[j] = t[j]
  <1>1. \/ Applied(t, id, r) = UpdateStatus(t, id, r.val)
        \/ Applied(t, id, r) = UpdateTask(t, id, r.val)
        \/ Applied(t, id, r) = UpdateUsage(t, id, r.val)
        \/ Applied(t, id, r) = MarkFinished(t, id, r.val)
    BY DEF Applied, NoEffect, Mutating
  <1> QED
    BY <1>1 DEF UpdateStatus, UpdateTask, UpdateUsage, MarkFinished

LEMMA AppliedKeepsRows ==
  ASSUME NEW t \in [Ids -> Row], NEW id \in Ids, Exists(t, id), NEW j \in Ids, Exists(t, j),
         NEW r \in Reports, ~NoEffect(r)
  PROVE  RowLasts(t, Applied(t, id, r), j)
  <1>1. \/ \E s \in Statuses : Applied(t, id, r) = UpdateStatus(t, id, s)
        \/ \E k \in Tasks : Applied(t, id, r) = UpdateTask(t, id, k)
        \/ \E k \in Usages : Applied(t, id, r) = UpdateUsage(t, id, k)
        \/ \E a \in Ages : Applied(t, id, r) = MarkFinished(t, id, a)
    BY ReportsAssumption DEF Applied, NoEffect, Mutating, StatusReports, TaskReports,
       UsageReports, FinishReports, OtherReports
  <1> QED
    BY <1>1, UpdatesKeepRows

LEMMA InsertKeepsRows ==
  ASSUME NEW t \in [Ids -> Row], NEW id \in Ids, t[id].status = "absent",
         NEW j \in Ids, Exists(t, j), NEW r \in Row
  PROVE  RowLasts(t, Insert(t, id, r), j)
  BY DEF Exists, Insert, Statuses, RowLasts, Same

LEMMA OneRowGrows ==
  ASSUME NEW id \in Ids, ~Gone(sessions, id),
         \A j \in Ids : j # id => sessions'[j] = sessions[j],
         Exists(sessions, id) => RowLasts(sessions, sessions', id),
         events \subseteq events', plugins' = plugins
  PROVE  Grows
  BY DEF Grows, RowLasts, Same, Exists, Gone

LEMMA NoRowGrows ==
  ASSUME UNCHANGED <<sessions, events>>,
         \A p \in Plugins : plugins[p] = "connected" => plugins'[p] = "connected"
  PROVE  Grows
  BY DEF Grows, RowLasts, Same, Exists, Gone

LEMMA GrowsStep ==
  ASSUME TypeOK, HandlersInformed,
         \/ \E w \in Workers : Control(w)
         \/ \E p \in Plugins : Plugin(p)
         \/ Forward \/ ThirtyDaysPass
  PROVE  Grows
  <1> USE DEF TypeOK, db
  <1>0. \A id \in Ids : (Exists(sessions, id) \/ sessions[id].status = "absent") => ~Gone(sessions, id)
    BY DEF Exists, Gone, Statuses
  <1>1. ASSUME NEW w \in Workers, Control(w) PROVE Grows
    <2>1. CASE SessionCreate(w)
      <3>1. PICK id \in Ids, n \in Names :
              /\ sessions[id].status = "absent"
              /\ sessions' = Insert(sessions, id, NewRow(None, None, n))
        BY <2>1 DEF SessionCreate
      <3>2. ~Exists(sessions, id) /\ events' = events /\ plugins' = plugins
        BY <2>1, <3>1 DEF SessionCreate, Exists, Statuses
      <3>3. \A j \in Ids : j # id => sessions'[j] = sessions[j]
        BY <3>1 DEF Insert
      <3> QED
        BY <1>0, <3>1, <3>2, <3>3, OneRowGrows
    <2>2. CASE SessionRename(w)
      <3>1. PICK id \in Ids, n \in Names :
              Exists(sessions, id) /\ sessions' = UpdateRename(sessions, id, n)
        BY <2>2 DEF SessionRename
      <3>2. events' = events /\ plugins' = plugins
        BY <2>2 DEF SessionRename
      <3>3. RowLasts(sessions, sessions', id)
        BY <3>1, UpdatesKeepRows
      <3>4. \A j \in Ids : j # id => sessions'[j] = sessions[j]
        BY <3>1 DEF UpdateRename
      <3> QED
        BY <1>0, <3>1, <3>2, <3>3, <3>4, OneRowGrows
    <2>3. CASE (SessionDismissUpdate(w) \/ SessionKillMark(w)) /\ ~UNCHANGED sessions
      <3>1. PICK id \in Ids :
              /\ Exists(sessions, id)
              /\ \/ sessions' = UpdateStatus(sessions, id, "idle")
                 \/ sessions' = MarkFinished(sessions, id, "recent")
        BY <2>3 DEF SessionDismissUpdate, SessionKillMark, CtlNotFound, CtlAt, HandlersInformed, Known
      <3>2. events' = events /\ plugins' = plugins
        BY <2>3 DEF SessionDismissUpdate, SessionKillMark
      <3>3. RowLasts(sessions, sessions', id)
        BY <3>1, UpdatesKeepRows DEF Statuses, Ages
      <3>4. \A j \in Ids : j # id => sessions'[j] = sessions[j]
        BY <3>1 DEF UpdateStatus, MarkFinished
      <3> QED
        BY <1>0, <3>1, <3>2, <3>3, <3>4, OneRowGrows
    <2>4. CASE UNCHANGED <<sessions, events, plugins>>
      BY <2>4, NoRowGrows
    <2> QED
      BY <1>1, <2>1, <2>2, <2>3, <2>4 DEF Control, SessionCreateEmit, SessionRenameEmit,
         SessionDismissGet, SessionDismissUpdate, SessionDismissEmit, SessionJumpGet,
         SessionJumpSwitch, DaemonShutdown, SessionKillGet, SessionKillTmux, SessionKillMark,
         SessionKillEmit
  <1>2. ASSUME NEW p \in Plugins, Plugin(p) PROVE Grows
    <2>1. CASE SessionDiscover(p)
      <3>1. PICK id \in Ids, x \in Panes, n \in Names :
              /\ sessions[id].status = "absent"
              /\ sessions' = Insert(sessions, id, NewRow(p, x, n))
        BY <2>1 DEF SessionDiscover
      <3>2. ~Exists(sessions, id) /\ events' = events /\ plugins' = plugins
        BY <2>1, <3>1 DEF SessionDiscover, Exists, Statuses
      <3>3. \A j \in Ids : j # id => sessions'[j] = sessions[j]
        BY <3>1 DEF Insert
      <3> QED
        BY <1>0, <3>1, <3>2, <3>3, OneRowGrows
    <2>2. CASE SessionReportInsert(p)
      <3>1. sessions' = sessions /\ events \subseteq events' /\ plugins' = plugins
        BY <2>2 DEF SessionReportInsert
      <3> QED
        BY <3>1 DEF Grows, RowLasts, Same, Exists, Gone
    <2>3. CASE SessionReportApply(p)
      <3>1. conn[p].id \in Ids /\ conn[p].report \in Reports
        BY <2>3 DEF SessionReportApply, ConnAt, HandlersInformed, Known
      <3>2. events' = events /\ plugins' = plugins
        BY <2>3 DEF SessionReportApply
      <3>3. CASE UNCHANGED sessions
        BY <3>2, <3>3, NoRowGrows
      <3>4. CASE ~UNCHANGED sessions
        <4>1. PICK id \in Ids, r \in Reports :
                /\ Exists(sessions, id) /\ ~NoEffect(r)
                /\ sessions' = Applied(sessions, id, r)
          BY <2>3, <3>1, <3>4 DEF SessionReportApply
        <4>2. RowLasts(sessions, sessions', id)
          BY <4>1, AppliedKeepsRows
        <4>3. \A j \in Ids : j # id => sessions'[j] = sessions[j]
          BY <4>1, AppliedElsewhere
        <4> QED
          BY <1>0, <3>2, <4>1, <4>2, <4>3, OneRowGrows
      <3> QED
        BY <3>3, <3>4
    <2>4. CASE PluginHello(p) \/ PluginHelloTouch(p)
      <3>1. /\ UNCHANGED <<sessions, events>>
            /\ \A q \in Plugins : plugins[q] = "connected" => plugins'[q] = "connected"
        BY <2>4 DEF PluginHello, PluginHelloTouch
      <3> QED
        BY <3>1, NoRowGrows
    <2>5. CASE UNCHANGED <<sessions, events, plugins>>
      BY <2>5, NoRowGrows
    <2> QED
      BY <1>2, <2>1, <2>2, <2>3, <2>4, <2>5 DEF Plugin,
         PluginHelloEmit, SessionDiscoverEmit, SessionReport, SessionReportEmit
  <1>3. CASE Forward
    BY <1>3, NoRowGrows DEF Forward
  <1>4. CASE ThirtyDaysPass
    <2>1. PICK id \in Ids : sessions[id].finished_at = "recent" /\ sessions' = Expire(sessions, id)
      BY <1>4 DEF ThirtyDaysPass
    <2>2. events' = events /\ plugins' = plugins
      BY <1>4 DEF ThirtyDaysPass
    <2>3. \A j \in Ids : j # id => sessions'[j] = sessions[j]
      BY <2>1, UpdatesElsewhere
    <2>4. /\ sessions'[id].status = sessions[id].status
          /\ sessions'[id].owner = sessions[id].owner
          /\ sessions'[id].pane = sessions[id].pane
          /\ sessions'[id].finished_at = "expired"
      BY <2>1 DEF Expire, Row
    <2> QED
      BY <2>2, <2>3, <2>4, NoneIsNoString DEF Grows, RowLasts, Same, Exists, Gone, Ages
  <1> QED
    BY <1>1, <1>2, <1>3, <1>4

(* A collection keeps what stays and drops events only with their session;  *)
(* the end of a process changes no table.                                  *)
LEMMA OthersKeep ==
  ASSUME TypeOK, NoOrphanEvents,
         Stop \/ LateEnds \/ BootGcEvents \/ BootGcSessions \/ StrayGc \/ UNCHANGED vars
  PROVE  Keeps
  <1> USE DEF TypeOK
  <1>1. CASE Stop \/ LateEnds \/ UNCHANGED vars
    <2>1. UNCHANGED <<sessions, events, plugins>>
      BY <1>1 DEF Stop, LateEnds, vars, db
    <2> QED
      BY <2>1, GrowsKeeps, NoRowGrows
  <1>2. CASE BootGcEvents \/ BootGcSessions \/ StrayGc
    <2>1. /\ \A id \in Ids : sessions'[id] = sessions[id] \/ sessions'[id] = NoRow("gone")
          /\ \A id \in Ids : sessions[id].status = "absent" \/ sessions'[id].status # "absent"
          /\ events' = WithSession(events, sessions') /\ plugins' = plugins
      <3>1. CASE BootGcEvents
        BY <3>1 DEF BootGcEvents, WithSession
      <3>2. CASE BootGcSessions \/ StrayGc
        BY <3>2 DEF BootGcSessions, StrayGc, WithSession, DeleteTombstones, Tombstone, NoRow
      <3> QED
        BY <1>2, <3>1, <3>2
    <2> QED
      BY <2>1 DEF Keeps, Same, Exists, Statuses, NoRow, WithSession
  <1> QED
    BY <1>1, <1>2

LEMMA StepKeeps ==
  ASSUME TypeOK, HandlersInformed, NoOrphanEvents, [Next]_vars
  PROVE  Keeps
  BY GrowsStep, GrowsKeeps, OthersKeep DEF Next

-----------------------------------------------------------------------------
(* HandlersInformed, one handler at a time. *)
CtlOK(w) ==
  /\ ctl[w].pc # "idle" => Known(ctl[w].id)
  /\ ctl[w].pc \in {"dismiss_update", "dismiss_emit"} /\ Exists(sessions, ctl[w].id) =>
       Recorded(ctl[w].id, "session.status_changed", "errored")

ConnOK(p) ==
  /\ conn[p].pc \in {"discover_emit", "report_insert", "report_apply", "report_emit"} =>
       Known(conn[p].id)
  /\ conn[p].pc \in {"report_insert", "report_apply", "report_emit"} => conn[p].report \in Reports
  /\ conn[p].pc \in {"report_insert", "report_apply", "report_emit"} /\ Exists(sessions, conn[p].id) =>
       Authoritative(p, conn[p].id, conn[p].report)
  /\ conn[p].pc \in {"report_apply", "report_emit"} /\ Exists(sessions, conn[p].id) =>
       [id |-> conn[p].id, report |-> conn[p].report] \in events
  /\ conn[p].pc = "report_emit" => ~NoEffect(conn[p].report)

HandlersOK == (\A w \in Workers : CtlOK(w)) /\ (\A p \in Plugins : ConnOK(p))

LEMMA HandlersSplit == HandlersInformed <=> HandlersOK
  BY DEF HandlersInformed, HandlersOK, CtlOK, ConnOK

(* What is known of a session stays known, and stays true while it is there.*)
LEMMA FactsKeep ==
  ASSUME Keeps, NEW id, Known(id)
  PROVE  /\ Known(id)'
         /\ Exists(sessions', id) => Exists(sessions, id) /\ Same(sessions, sessions', id)
         /\ \A r : Exists(sessions', id) /\ [id |-> id, report |-> r] \in events =>
              [id |-> id, report |-> r] \in events'
         /\ \A k, v : Exists(sessions', id) /\ Recorded(id, k, v) => Recorded(id, k, v)'
  <1>1. /\ Known(id)'
        /\ Exists(sessions', id) => Exists(sessions, id) /\ Same(sessions, sessions', id)
    BY DEF Keeps, Known
  <1>2. ASSUME NEW r, Exists(sessions', id), [id |-> id, report |-> r] \in events
        PROVE  [id |-> id, report |-> r] \in events'
    <2>1. [id |-> id, report |-> r].id = id
      OBVIOUS
    <2> QED
      BY <1>2, <2>1 DEF Keeps
  <1> QED
    BY <1>1, <1>2 DEF Recorded

(* A handler that does not move keeps what it knows. *)
LEMMA CtlKeeps ==
  ASSUME Keeps, NEW w \in Workers, CtlOK(w), ctl'[w] = ctl[w]
  PROVE  CtlOK(w)'
  <1>1. CASE ctl[w].pc = "idle"
    BY <1>1 DEF CtlOK
  <1>2. CASE ctl[w].pc # "idle"
    <2>1. Known(ctl[w].id)
      BY <1>2 DEF CtlOK
    <2> QED
      BY <2>1, FactsKeep DEF CtlOK
  <1> QED
    BY <1>1, <1>2

LEMMA ConnKeeps ==
  ASSUME Keeps, NEW p \in Plugins, ConnOK(p), conn'[p] = conn[p]
  PROVE  ConnOK(p)'
  <1>1. CASE conn[p].pc \notin {"discover_emit", "report_insert", "report_apply", "report_emit"}
    BY <1>1 DEF ConnOK
  <1>2. CASE conn[p].pc \in {"discover_emit", "report_insert", "report_apply", "report_emit"}
    <2>1. Known(conn[p].id)
      BY <1>2 DEF ConnOK
    <2>2. Exists(sessions', conn[p].id) /\ Authoritative(p, conn[p].id, conn[p].report) =>
            Authoritative(p, conn[p].id, conn[p].report)'
      BY <2>1, FactsKeep DEF Authoritative, Same
    <2> QED
      BY <2>1, <2>2, FactsKeep DEF ConnOK
  <1> QED
    BY <1>1, <1>2

(* The idle handler knows nothing. *)
LEMMA IdleKnows ==
  /\ \A w \in Workers : ctl[w] = IdleCtl => CtlOK(w)
  /\ \A p \in Plugins : conn[p] = IdleConn => ConnOK(p)
  BY DEF IdleCtl, IdleConn, CtlOK, ConnOK

(* A handler moves alone.                                                  *)
LEMMA CtlAlone ==
  ASSUME TypeOK, NEW w \in Workers, Control(w)
  PROVE  conn' = conn /\ \A v \in Workers : v # w => ctl'[v] = ctl[v]
  <1>1. \/ CtlReply(w)
        \/ \E q : CtlGoto(w, q)
        \/ \E q, id, n : CtlStart(w, q, id, n)
    BY DEF Control, SessionCreate, SessionCreateEmit, SessionRename, SessionRenameEmit,
       SessionDismissGet, SessionDismissUpdate, SessionDismissEmit, SessionJumpGet,
       SessionJumpSwitch, DaemonShutdown, SessionKillGet, SessionKillTmux, SessionKillMark,
       SessionKillEmit, CtlNotFound
  <1>2. conn' = conn
    BY DEF Control, SessionCreate, SessionCreateEmit, SessionRename, SessionRenameEmit,
       SessionDismissGet, SessionDismissUpdate, SessionDismissEmit, SessionJumpGet,
       SessionJumpSwitch, DaemonShutdown, SessionKillGet, SessionKillTmux, SessionKillMark,
       SessionKillEmit, CtlNotFound
  <1>3. \A v \in Workers : v # w => ctl'[v] = ctl[v]
    BY <1>1 DEF TypeOK, CtlReply, CtlGoto, CtlStart
  <1> QED
    BY <1>2, <1>3

LEMMA ConnAlone ==
  ASSUME TypeOK, NEW p \in Plugins, Plugin(p)
  PROVE  ctl' = ctl /\ \A q \in Plugins : q # p => conn'[q] = conn[q]
  <1>1. \/ ConnReply(p)
        \/ \E x : ConnGoto(p, x)
        \/ \E x, id, n, r : ConnStart(p, x, id, n, r)
    BY DEF Plugin, PluginHello, PluginHelloTouch, PluginHelloEmit, SessionDiscover,
       SessionDiscoverEmit, SessionReport, SessionReportInsert, SessionReportApply,
       SessionReportEmit
  <1>2. ctl' = ctl
    BY DEF Plugin, PluginHello, PluginHelloTouch, PluginHelloEmit, SessionDiscover,
       SessionDiscoverEmit, SessionReport, SessionReportInsert, SessionReportApply,
       SessionReportEmit
  <1>3. \A q \in Plugins : q # p => conn'[q] = conn[q]
    BY <1>1 DEF TypeOK, ConnReply, ConnGoto, ConnStart
  <1> QED
    BY <1>2, <1>3

LEMMA CtlHandlersStep ==
  ASSUME TypeOK, HandlersOK, HistoryExplainsRow, Keeps, NEW w \in Workers, Control(w)
  PROVE  HandlersOK'
  <1>0. ctl \in [Workers -> Ctl] /\ sessions \in [Ids -> Row]
    BY DEF TypeOK
  <1>1. conn' = conn
    BY CtlAlone
  <1>2. \A v \in Workers : v # w => ctl'[v] = ctl[v]
    BY CtlAlone
  <1>3. CtlOK(w)'
    <2>1. CASE SessionCreate(w)
      <3>1. PICK id \in Ids, n \in Names :
              /\ sessions' = Insert(sessions, id, NewRow(None, None, n))
              /\ CtlStart(w, "create_emit", id, n)
        BY <2>1 DEF SessionCreate
      <3>2. sessions'[id].status = "starting"
        BY <1>0, <3>1 DEF Insert, NewRow
      <3> QED
        BY <1>0, <3>1, <3>2 DEF CtlStart, CtlOK, Known
    <2>2. CASE SessionRename(w) \/ SessionJumpGet(w) \/ SessionKillGet(w)
      <3>1. PICK id \in Ids, n \in Names \cup {None},
                 q \in {"rename_emit", "jump_switch", "kill_tmux", "kill_mark"} :
              Exists(sessions, id) /\ CtlStart(w, q, id, n)
        BY <2>2 DEF SessionRename, SessionJumpGet, SessionKillGet
      <3>2. Known(id)'
        BY <3>1, FactsKeep DEF Known, Exists, Statuses
      <3> QED
        BY <1>0, <3>1, <3>2 DEF CtlStart, CtlOK, Known
    <2>3. CASE SessionDismissGet(w)
      <3>1. PICK id \in Ids : /\ Exists(sessions, id)
                              /\ sessions[id].status = "errored"
                              /\ CtlStart(w, "dismiss_update", id, None)
        BY <2>3 DEF SessionDismissGet
      <3>2. Known(id)
        BY <3>1 DEF Known
      <3>3. Recorded(id, "session.status_changed", "errored")
        BY <3>1 DEF HistoryExplainsRow
      <3>4. Exists(sessions', id) => Recorded(id, "session.status_changed", "errored")'
        BY <3>2, <3>3, FactsKeep
      <3>5. Known(id)'
        BY <3>2, FactsKeep
      <3>6. ctl'[w].id = id
        BY <1>0, <3>1 DEF CtlStart
      <3> QED
        BY <3>4, <3>5, <3>6 DEF CtlOK, Known, Recorded
    <2>4. CASE /\ SessionDismissUpdate(w) \/ SessionKillTmux(w) \/ SessionKillMark(w)
               /\ ~CtlReply(w)
      <3>1. /\ ctl'[w].id = ctl[w].id /\ ctl[w].pc # "idle"
            /\ ctl'[w].pc \in {"dismiss_update", "dismiss_emit"} => ctl[w].pc = "dismiss_update"
        <4>1. /\ ctl[w].pc # "idle"
              /\ \/ CtlGoto(w, "dismiss_emit") /\ ctl[w].pc = "dismiss_update"
                 \/ CtlGoto(w, "kill_mark")
                 \/ CtlGoto(w, "kill_emit")
          BY <2>4 DEF SessionDismissUpdate, SessionKillTmux, SessionKillMark, CtlNotFound, CtlAt
        <4> QED
          BY <1>0, <4>1 DEF CtlGoto, Ctl
      <3>2. Known(ctl[w].id)
        BY <3>1 DEF HandlersOK, CtlOK
      <3>3. ctl[w].pc = "dismiss_update" /\ Exists(sessions', ctl[w].id) =>
              Recorded(ctl[w].id, "session.status_changed", "errored")'
        BY <3>1, <3>2, FactsKeep DEF HandlersOK, CtlOK
      <3> QED
        BY <3>1, <3>2, <3>3, FactsKeep DEF CtlOK, Recorded, Known
    <2>5. CASE CtlReply(w)
      BY <1>0, <2>5 DEF CtlReply, IdleCtl, CtlOK
    <2> QED
      BY <2>1, <2>2, <2>3, <2>4, <2>5 DEF Control, SessionCreateEmit, SessionRenameEmit,
         SessionDismissUpdate, SessionDismissEmit, SessionJumpSwitch, DaemonShutdown,
         SessionKillTmux, SessionKillMark, SessionKillEmit, CtlNotFound
  <1> QED
    BY <1>1, <1>2, <1>3, CtlKeeps, ConnKeeps DEF HandlersOK

LEMMA PluginHandlersStep ==
  ASSUME TypeOK, HandlersOK, Keeps, NEW p \in Plugins, Plugin(p)
  PROVE  HandlersOK'
  <1>0. conn \in [Plugins -> Conn] /\ sessions \in [Ids -> Row]
    BY DEF TypeOK
  <1>1. ctl' = ctl
    BY ConnAlone
  <1>2. \A q \in Plugins : q # p => conn'[q] = conn[q]
    BY ConnAlone
  <1>3. ConnOK(p)'
    <2>1. CASE PluginHello(p)
      BY <1>0, <2>1 DEF PluginHello, ConnStart, ConnOK
    <2>2. CASE PluginHelloTouch(p)
      <3>1. conn'[p].pc = "hello_emit"
        BY <1>0, <2>2 DEF PluginHelloTouch, ConnGoto, Conn
      <3> QED
        BY <3>1 DEF ConnOK
    <2>3. CASE SessionDiscover(p)
      <3>1. PICK id \in Ids, x \in Panes, n \in Names :
              /\ sessions' = Insert(sessions, id, NewRow(p, x, n))
              /\ ConnStart(p, "discover_emit", id, n, NoReport)
        BY <2>3 DEF SessionDiscover
      <3>2. sessions'[id].status = "starting"
        BY <1>0, <3>1 DEF Insert, NewRow
      <3> QED
        BY <1>0, <3>1, <3>2 DEF ConnStart, ConnOK, Known
    <2>4. CASE SessionReport(p)
      <3>1. PICK id \in Ids, r \in Reports :
              /\ Exists(sessions, id) /\ Authoritative(p, id, r)
              /\ ConnStart(p, "report_insert", id, None, r)
        BY <2>4 DEF SessionReport
      <3>2. Known(id) /\ sessions' = sessions
        BY <2>4, <3>1 DEF Known, Exists, Statuses, SessionReport, db
      <3> QED
        BY <1>0, <3>1, <3>2 DEF ConnStart, ConnOK, Known, Authoritative
    <2>5. CASE SessionReportInsert(p) /\ ~ConnReply(p)
      <3>1. /\ conn[p].pc = "report_insert" /\ sessions' = sessions
            /\ Exists(sessions, conn[p].id)
            /\ [id |-> conn[p].id, report |-> conn[p].report] \in events'
            /\ conn'[p].id = conn[p].id /\ conn'[p].report = conn[p].report
            /\ conn'[p].pc = "report_apply"
        BY <1>0, <2>5 DEF SessionReportInsert, ConnAt, ConnGoto, Conn
      <3>2. /\ Known(conn[p].id) /\ conn[p].report \in Reports
            /\ Authoritative(p, conn[p].id, conn[p].report)
        BY <3>1 DEF HandlersOK, ConnOK
      <3> QED
        BY <3>1, <3>2 DEF ConnOK, Known, Authoritative
    <2>6. CASE SessionReportApply(p) /\ ~ConnReply(p)
      <3>1. PICK id \in Ids, r \in Reports : id = conn[p].id /\ r = conn[p].report
        BY <2>6 DEF SessionReportApply, ConnAt, HandlersOK, ConnOK, Known
      <3>2. /\ conn[p].pc = "report_apply" /\ events' = events
            /\ Exists(sessions, id) /\ ~NoEffect(r)
            /\ conn'[p].id = id /\ conn'[p].report = r /\ conn'[p].pc = "report_emit"
        BY <1>0, <2>6, <3>1 DEF SessionReportApply, ConnAt, ConnGoto, Conn
      <3>3. Known(id) /\ Authoritative(p, id, r) /\ [id |-> id, report |-> r] \in events
        BY <3>1, <3>2 DEF HandlersOK, ConnOK
      <3>4. Known(id)' /\ (Exists(sessions', id) => Same(sessions, sessions', id))
        BY <3>3, FactsKeep
      <3>5. Exists(sessions', id) => Authoritative(p, id, r)'
        BY <3>3, <3>4 DEF Authoritative, Same
      <3> QED
        BY <3>2, <3>3, <3>4, <3>5 DEF ConnOK, Known, Authoritative
    <2>7. CASE ConnReply(p)
      BY <1>0, <2>7 DEF ConnReply, IdleConn, ConnOK
    <2> QED
      BY <2>1, <2>2, <2>3, <2>4, <2>5, <2>6, <2>7 DEF Plugin, PluginHelloEmit,
         SessionDiscoverEmit, SessionReportEmit
  <1> QED
    BY <1>1, <1>2, <1>3, CtlKeeps, ConnKeeps DEF HandlersOK

(* The other steps only end handlers.                                       *)
LEMMA OthersHandlersStep ==
  ASSUME TypeOK, HandlersOK, Keeps,
         \/ Forward \/ ThirtyDaysPass \/ UNCHANGED vars
         \/ Stop \/ LateEnds \/ BootGcEvents \/ BootGcSessions \/ StrayGc
  PROVE  HandlersOK'
  <1>1. /\ \A w \in Workers : ctl'[w] = ctl[w] \/ ctl'[w] = IdleCtl
        /\ \A p \in Plugins : conn'[p] = conn[p] \/ conn'[p] = IdleConn
    BY DEF Forward, ThirtyDaysPass, vars, Stop, LateEnds, BootGcEvents, BootGcSessions, StrayGc,
       OnlyRunning
  <1>2. \A w \in Workers : ctl'[w] = IdleCtl => CtlOK(w)'
    BY DEF IdleCtl, CtlOK
  <1>3. \A p \in Plugins : conn'[p] = IdleConn => ConnOK(p)'
    BY DEF IdleConn, ConnOK
  <1> QED
    BY <1>1, <1>2, <1>3, CtlKeeps, ConnKeeps DEF HandlersOK

-----------------------------------------------------------------------------
(* The conjuncts about the tables, one row at a time. *)
RowOK(id) ==
  LET row == sessions[id] IN
    /\ ~Exists(sessions, id) =>
         row.current_task = None /\ row.usage = None /\ row.finished_at = None
    /\ row.status \in {"working", "waiting_for_user", "errored"} =>
         Recorded(id, "session.status_changed", row.status)
    /\ row.status = "idle" =>
         \/ Recorded(id, "session.status_changed", "idle")
         \/ Recorded(id, "session.status_changed", "errored")
    /\ row.current_task # None => Recorded(id, "session.task_changed", row.current_task)
    /\ row.usage # None => Recorded(id, "session.usage_updated", row.usage)
    /\ Exists(sessions, id) /\ row.owner = None =>
         /\ row.status \in {"starting", "finished"}
         /\ row.status = "finished" <=> row.finished_at # None
         /\ row.pane = None /\ row.current_task = None /\ row.usage = None

EventsOwned ==
  \A e \in events : /\ Exists(sessions, e.id)
                    /\ Mutating(e.report.kind) => sessions[e.id].owner # None

TablesOK == (\A id \in Ids : RowOK(id)) /\ EventsOwned

LEMMA TablesSplit ==
  RowsAndReports /\ NoOrphanEvents /\ HistoryExplainsRow /\ UnownedOnlyKilled <=> TablesOK
  BY DEF RowsAndReports, NoOrphanEvents, HistoryExplainsRow, UnownedOnlyKilled, TablesOK,
     RowOK, EventsOwned

(* A row nobody writes stays explained while the history grows. *)
LEMMA RowKeeps ==
  ASSUME NEW id \in Ids, RowOK(id), sessions'[id] = sessions[id], events \subseteq events'
  PROVE  RowOK(id)'
  BY DEF RowOK, Recorded, Exists

LEMMA EventsKeep ==
  ASSUME TypeOK, EventsOwned, Grows, events' = events
  PROVE  EventsOwned'
  BY DEF EventsOwned, Grows, RowLasts, Same, TypeOK

(* A reported row has an owner. *)
LEMMA RecordedOwned ==
  ASSUME TypeOK, EventsOwned, NEW id \in Ids, NEW k, NEW v, Recorded(id, k, v), Mutating(k)
  PROVE  Exists(sessions, id) /\ sessions[id].owner # None
  <1>1. [id |-> id, report |-> [kind |-> k, val |-> v]].id = id
    OBVIOUS
  <1>2. [id |-> id, report |-> [kind |-> k, val |-> v]].report.kind = k
    OBVIOUS
  <1> QED
    BY <1>1, <1>2 DEF EventsOwned, Recorded

LEMMA CtlTablesStep ==
  ASSUME TypeOK, HandlersOK, TablesOK, Grows, NEW w \in Workers, Control(w)
  PROVE  TablesOK'
  <1> USE DEF TypeOK
  <1>1. events' = events
    BY DEF Control, SessionCreate, SessionCreateEmit, SessionRename, SessionRenameEmit,
       SessionDismissGet, SessionDismissUpdate, SessionDismissEmit, SessionJumpGet,
       SessionJumpSwitch, DaemonShutdown, SessionKillGet, SessionKillTmux, SessionKillMark, SessionKillEmit, db
  <1>2. EventsOwned'
    BY <1>1, EventsKeep DEF TablesOK
  <1>3. \A id \in Ids : RowOK(id)'
    <2>1. CASE SessionCreate(w)
      <3>1. PICK id \in Ids, n \in Names :
              sessions' = Insert(sessions, id, NewRow(None, None, n))
        BY <2>1 DEF SessionCreate
      <3>2. sessions'[id] = NewRow(None, None, n)
        BY <3>1 DEF Insert
      <3>3. RowOK(id)'
        BY <3>2 DEF NewRow, RowOK, Exists, Statuses
      <3>4. \A j \in Ids : j # id => sessions'[j] = sessions[j]
        BY <3>1 DEF Insert
      <3> QED
        BY <1>1, <3>3, <3>4, RowKeeps DEF TablesOK
    <2>2. CASE SessionRename(w)
      <3>1. PICK id \in Ids, n \in Names :
              sessions' = UpdateRename(sessions, id, n)
        BY <2>2 DEF SessionRename
      <3>2. sessions'[id] = [sessions[id] EXCEPT !.display_name = n]
        BY <3>1 DEF UpdateRename
      <3>3. RowOK(id)'
        <4>1. /\ sessions'[id].status = sessions[id].status
              /\ sessions'[id].finished_at = sessions[id].finished_at
              /\ sessions'[id].owner = sessions[id].owner
              /\ sessions'[id].pane = sessions[id].pane
              /\ sessions'[id].current_task = sessions[id].current_task
              /\ sessions'[id].usage = sessions[id].usage
          BY <3>2 DEF Row
        <4> QED
          BY <1>1, <4>1 DEF RowOK, Exists, Recorded, TablesOK
      <3>4. \A j \in Ids : j # id => sessions'[j] = sessions[j]
        BY <3>1 DEF UpdateRename
      <3> QED
        BY <1>1, <3>3, <3>4, RowKeeps DEF TablesOK
    <2>3. CASE SessionDismissUpdate(w) /\ ~UNCHANGED sessions
      <3>1. PICK id \in Ids :
              id = ctl[w].id /\ Recorded(id, "session.status_changed", "errored")
        BY <2>3 DEF SessionDismissUpdate, CtlNotFound, CtlAt, HandlersOK, CtlOK, Known
      <3>2. Exists(sessions, id) /\ sessions[id].owner # None
        BY <3>1, RecordedOwned DEF TablesOK, Mutating
      <3>3. sessions'[id] = [sessions[id] EXCEPT !.status = "idle"]
        BY <2>3, <3>1 DEF SessionDismissUpdate, CtlNotFound, UpdateStatus
      <3>4. /\ sessions'[id].status = "idle"
            /\ sessions'[id].owner = sessions[id].owner
            /\ sessions'[id].current_task = sessions[id].current_task
            /\ sessions'[id].usage = sessions[id].usage
        BY <3>1, <3>3 DEF Row
      <3>5. RowOK(id)'
        BY <1>1, <3>1, <3>2, <3>4 DEF RowOK, Exists, Statuses, Recorded, TablesOK
      <3>6. \A j \in Ids : j # id => sessions'[j] = sessions[j]
        BY <2>3, <3>1 DEF SessionDismissUpdate, CtlNotFound, UpdateStatus
      <3> QED
        BY <1>1, <3>5, <3>6, RowKeeps DEF TablesOK
    <2>4. CASE SessionKillMark(w) /\ ~UNCHANGED sessions
      <3>1. PICK id \in Ids : id = ctl[w].id /\ Exists(sessions, id)
        BY <2>4 DEF SessionKillMark, CtlNotFound, CtlAt, HandlersOK, CtlOK, Known
      <3>2. sessions'[id] = [[sessions[id] EXCEPT !.status = "finished"] EXCEPT !.finished_at = "recent"]
        BY <2>4, <3>1 DEF SessionKillMark, CtlNotFound, MarkFinished
      <3>3. /\ sessions'[id].status = "finished"
            /\ sessions'[id].finished_at = "recent"
            /\ sessions'[id].owner = sessions[id].owner
            /\ sessions'[id].pane = sessions[id].pane
            /\ sessions'[id].current_task = sessions[id].current_task
            /\ sessions'[id].usage = sessions[id].usage
        BY <3>1, <3>2 DEF Row
      <3>4. RowOK(id)'
        <4>1. /\ sessions[id].current_task # None =>
                   Recorded(id, "session.task_changed", sessions[id].current_task)
              /\ sessions[id].usage # None =>
                   Recorded(id, "session.usage_updated", sessions[id].usage)
              /\ sessions[id].owner = None =>
                   /\ sessions[id].pane = None
                   /\ sessions[id].current_task = None /\ sessions[id].usage = None
          BY <3>1 DEF RowOK, TablesOK
        <4>2. \A k, v : Recorded(id, k, v) => Recorded(id, k, v)'
          BY <2>4 DEF SessionKillMark, Recorded
        <4>3. Exists(sessions', id) /\ sessions'[id].finished_at # None
          BY <3>3, NoneIsNoString DEF Exists, Statuses, Ages
        <4> QED
          BY <3>3, <4>1, <4>2, <4>3 DEF RowOK
      <3>5. \A j \in Ids : j # id => sessions'[j] = sessions[j]
        BY <2>4, <3>1 DEF SessionKillMark, CtlNotFound, MarkFinished
      <3> QED
        BY <1>1, <3>4, <3>5, RowKeeps DEF TablesOK
    <2>5. CASE UNCHANGED sessions
      BY <1>1, <2>5, RowKeeps DEF TablesOK
    <2> QED
      BY <2>1, <2>2, <2>3, <2>4, <2>5 DEF Control, SessionCreateEmit, SessionRenameEmit,
         SessionDismissGet, SessionDismissEmit, SessionJumpGet, SessionJumpSwitch, DaemonShutdown,
         SessionKillGet, SessionKillTmux, SessionKillEmit, db
  <1> QED
    BY <1>2, <1>3 DEF TablesOK

(* Applying a recorded report by the owner leaves an explained row. *)
LEMMA AppliedRowOK ==
  ASSUME TypeOK, NEW id \in Ids, RowOK(id), Exists(sessions, id), sessions[id].owner # None,
         NEW r \in Reports, ~NoEffect(r), [id |-> id, report |-> r] \in events,
         sessions' = Applied(sessions, id, r), events' = events
  PROVE  RowOK(id)' /\ \A j \in Ids : j # id => sessions'[j] = sessions[j]
  <1> USE DEF TypeOK
  <1>0. r = [kind |-> r.kind, val |-> r.val]
    BY ReportsAssumption DEF StatusReports, TaskReports, UsageReports, FinishReports, OtherReports
  <1>1. Recorded(id, r.kind, r.val)'
    BY <1>0 DEF Recorded
  <1>2. CASE r.kind = "session.status_changed"
    <2>1. r.val \in Statuses
      BY <1>2, ReportsAssumption DEF NoEffect, StatusReports, TaskReports, UsageReports,
         FinishReports, OtherReports
    <2>2. sessions' = UpdateStatus(sessions, id, r.val)
      BY <1>2 DEF Applied
    <2>3. /\ sessions'[id].status = r.val /\ sessions'[id].owner = sessions[id].owner
          /\ sessions'[id].current_task = sessions[id].current_task
          /\ sessions'[id].usage = sessions[id].usage
      BY <2>2 DEF UpdateStatus, Row
    <2>4. RowOK(id)'
      BY <1>1, <1>2, <2>1, <2>3 DEF RowOK, Exists, Recorded
    <2> QED
      BY <2>2, <2>4 DEF UpdateStatus
  <1>3. CASE r.kind = "session.task_changed"
    <2>2. sessions' = UpdateTask(sessions, id, r.val)
      BY <1>3 DEF Applied
    <2>3. /\ sessions'[id].current_task = r.val /\ sessions'[id].owner = sessions[id].owner
          /\ sessions'[id].status = sessions[id].status
          /\ sessions'[id].usage = sessions[id].usage
      BY <2>2 DEF UpdateTask, Row
    <2>4. RowOK(id)'
      BY <1>1, <1>3, <2>3 DEF RowOK, Exists, Recorded
    <2> QED
      BY <2>2, <2>4 DEF UpdateTask
  <1>4. CASE r.kind = "session.usage_updated"
    <2>2. sessions' = UpdateUsage(sessions, id, r.val)
      BY <1>4 DEF Applied
    <2>3. /\ sessions'[id].usage = r.val /\ sessions'[id].owner = sessions[id].owner
          /\ sessions'[id].status = sessions[id].status
          /\ sessions'[id].current_task = sessions[id].current_task
      BY <2>2 DEF UpdateUsage, Row
    <2>4. RowOK(id)'
      BY <1>1, <1>4, <2>3 DEF RowOK, Exists, Recorded
    <2> QED
      BY <2>2, <2>4 DEF UpdateUsage
  <1>5. CASE r.kind = "session.finished"
    <2>2. sessions' = MarkFinished(sessions, id, r.val)
      BY <1>5 DEF Applied
    <2>3. /\ sessions'[id].status = "finished" /\ sessions'[id].owner = sessions[id].owner
          /\ sessions'[id].current_task = sessions[id].current_task
          /\ sessions'[id].usage = sessions[id].usage
      BY <2>2 DEF MarkFinished, Row
    <2>4. RowOK(id)'
      BY <2>3 DEF RowOK, Exists, Recorded, Statuses
    <2> QED
      BY <2>2, <2>4 DEF MarkFinished
  <1> QED
    BY <1>2, <1>3, <1>4, <1>5 DEF NoEffect, Mutating

LEMMA PluginTablesStep ==
  ASSUME TypeOK, HandlersOK, TablesOK, Grows, NEW p \in Plugins, Plugin(p)
  PROVE  TablesOK'
  <1> USE DEF TypeOK
  <1>1. CASE SessionDiscover(p)
    <2>1. PICK id \in Ids, x \in Panes, n \in Names :
            sessions' = Insert(sessions, id, NewRow(p, x, n))
      BY <1>1 DEF SessionDiscover
    <2>2. sessions'[id] = NewRow(p, x, n) /\ events' = events
      BY <1>1, <2>1 DEF Insert, SessionDiscover
    <2>3. RowOK(id)'
      BY <2>2, NoneAssumption DEF NewRow, RowOK, Exists, Statuses
    <2>4. \A j \in Ids : j # id => sessions'[j] = sessions[j]
      BY <2>1 DEF Insert
    <2>5. \A j \in Ids : RowOK(j)'
      BY <2>2, <2>3, <2>4, RowKeeps DEF TablesOK
    <2> QED
      BY <2>2, <2>5, EventsKeep DEF TablesOK
  <1>2. CASE SessionReportInsert(p) /\ ~UNCHANGED events
    <2>1. PICK id \in Ids, r \in Reports :
            /\ id = conn[p].id /\ r = conn[p].report
            /\ Exists(sessions, id) /\ Authoritative(p, id, r)
      BY <1>2 DEF SessionReportInsert, ConnAt, HandlersOK, ConnOK, Known
    <2>2. /\ events' = events \cup {[id |-> id, report |-> r]}
          /\ sessions' = sessions
      BY <1>2, <2>1 DEF SessionReportInsert
    <2>3. \A j \in Ids : RowOK(j)'
      BY <2>2, RowKeeps DEF TablesOK
    <2>4. EventsOwned'
      BY <2>1, <2>2, NoneAssumption DEF TablesOK, EventsOwned, Authoritative
    <2> QED
      BY <2>3, <2>4 DEF TablesOK
  <1>3. CASE SessionReportApply(p) /\ ~UNCHANGED sessions
    <2>1. PICK id \in Ids, r \in Reports :
            /\ id = conn[p].id /\ r = conn[p].report
            /\ Exists(sessions, id) /\ Authoritative(p, id, r)
            /\ [id |-> id, report |-> r] \in events
      BY <1>3 DEF SessionReportApply, ConnAt, HandlersOK, ConnOK, Known
    <2>2. events' = events
      BY <1>3 DEF SessionReportApply
    <2>3. \A j \in Ids : RowOK(j)'
      <3>1. CASE sessions' = sessions
        BY <2>2, <3>1, RowKeeps DEF TablesOK
      <3>2. CASE sessions' = Applied(sessions, id, r) /\ ~NoEffect(r)
        <4>1. sessions[id].owner # None
          BY <2>1, <3>2, NoneAssumption DEF NoEffect, Authoritative
        <4> QED
          BY <2>1, <2>2, <3>2, <4>1, AppliedRowOK, RowKeeps DEF TablesOK
      <3> QED
        BY <1>3, <2>1, <3>1, <3>2 DEF SessionReportApply
    <2> QED
      BY <2>2, <2>3, EventsKeep DEF TablesOK
  <1>4. CASE UNCHANGED <<sessions, events>>
    BY <1>4, RowKeeps, EventsKeep DEF TablesOK
  <1> QED
    BY <1>1, <1>2, <1>3, <1>4 DEF Plugin, PluginHello, PluginHelloTouch, PluginHelloEmit,
       SessionDiscoverEmit, SessionReport, SessionReportInsert, SessionReportApply,
       SessionReportEmit, db

-----------------------------------------------------------------------------
(* The steps no handler makes.  A collection keeps every row that stays,    *)
(* with its events.                                                        *)
LEMMA GcKeepsTables ==
  ASSUME TypeOK, TablesOK, BootGcEvents \/ BootGcSessions \/ StrayGc
  PROVE  TablesOK'
  <1> USE DEF TypeOK
  <1>1. /\ \A id \in Ids : sessions'[id] = sessions[id] \/ sessions'[id] = NoRow("gone")
        /\ events' = WithSession(events, sessions')
        /\ WithSession(events, sessions') \subseteq events
    <2>1. CASE BootGcEvents
      BY <2>1 DEF BootGcEvents, WithSession
    <2>2. CASE BootGcSessions \/ StrayGc
      BY <2>2 DEF BootGcSessions, StrayGc, WithSession, DeleteTombstones
    <2> QED
      BY <2>1, <2>2
  <1>2. \A id \in Ids : Exists(sessions', id) => sessions'[id] = sessions[id]
    BY <1>1 DEF Exists, NoRow, Statuses
  <1>3. EventsOwned'
    <2> SUFFICES ASSUME NEW e \in events'
                 PROVE  /\ Exists(sessions', e.id)
                        /\ Mutating(e.report.kind) => sessions'[e.id].owner # None
      BY DEF EventsOwned
    <2>1. e \in events /\ e.id \in Ids /\ Exists(sessions', e.id)
      BY <1>1 DEF WithSession
    <2>2. Mutating(e.report.kind) => sessions[e.id].owner # None
      BY <2>1 DEF TablesOK, EventsOwned
    <2> QED
      BY <1>2, <2>1, <2>2
  <1>4. ASSUME NEW id \in Ids PROVE RowOK(id)'
    <2>1. CASE Exists(sessions', id)
      <3>1. sessions'[id] = sessions[id] /\ RowOK(id)
        BY <1>2, <2>1 DEF TablesOK
      <3>2. \A k, v : Recorded(id, k, v) => Recorded(id, k, v)'
        <4> SUFFICES ASSUME NEW k, NEW v, Recorded(id, k, v) PROVE Recorded(id, k, v)'
          OBVIOUS
        <4> DEFINE e == [id |-> id, report |-> [kind |-> k, val |-> v]]
        <4>1. e \in events /\ e.id = id
          BY DEF Recorded
        <4> QED
          BY <1>1, <2>1, <4>1 DEF WithSession, Recorded
      <3> QED
        BY <2>1, <3>1, <3>2 DEF RowOK, Exists
    <2>2. CASE ~Exists(sessions', id)
      <3>1. sessions'[id] = NoRow("gone") \/ (sessions'[id] = sessions[id] /\ ~Exists(sessions, id))
        BY <1>1, <2>2 DEF Exists
      <3> QED
        BY <2>2, <3>1 DEF TablesOK, RowOK, Exists, NoRow, Statuses
    <2> QED
      BY <2>1, <2>2
  <1> QED
    BY <1>3, <1>4 DEF TablesOK

LEMMA AgeingKeepsTables ==
  ASSUME TypeOK, TablesOK, ThirtyDaysPass, Grows
  PROVE  TablesOK'
  <1> USE DEF TypeOK
  <1>1. PICK id \in Ids : sessions[id].finished_at = "recent" /\ sessions' = Expire(sessions, id)
    BY DEF ThirtyDaysPass
  <1>2. events' = events /\ \A j \in Ids : j # id => sessions'[j] = sessions[j]
    BY <1>1 DEF ThirtyDaysPass, Expire
  <1>3. sessions'[id] = [sessions[id] EXCEPT !.finished_at = "expired"]
    BY <1>1 DEF Expire
  <1>4. RowOK(id)'
    BY <1>1, <1>2, <1>3, NoneIsNoString DEF TablesOK, RowOK, Exists, Recorded, Row, Ages
  <1> QED
    BY <1>2, <1>4, RowKeeps, EventsKeep DEF TablesOK

(* Outside the serving phase only late handlers run, and the bus stays empty. *)
LEMMA QuietStep ==
  ASSUME TypeOK, QuietUnlessServing, [Next]_vars
  PROVE  QuietUnlessServing'
  <1>1. CASE UNCHANGED <<phase, late>> /\ phase # "serving"
    <2>1. ASSUME NEW w \in Workers, Control(w) PROVE QuietUnlessServing'
      <3>1. w \in late
        BY <1>1, <2>1 DEF Control, SessionCreate, SessionCreateEmit, SessionRename,
           SessionRenameEmit, SessionDismissGet, SessionDismissUpdate, SessionDismissEmit,
           SessionJumpGet, SessionJumpSwitch, DaemonShutdown, SessionKillGet, SessionKillTmux,
           SessionKillMark, SessionKillEmit, CtlAt, Runs
      <3>2. conn' = conn /\ \A v \in Workers \ {w} : ctl'[v] = ctl[v]
        BY <2>1, CtlAlone
      <3>3. bus' = bus
        BY <2>1, <3>1 DEF Control, SessionCreate, SessionCreateEmit, SessionRename,
           SessionRenameEmit, SessionDismissGet, SessionDismissUpdate, SessionDismissEmit,
           SessionJumpGet, SessionJumpSwitch, DaemonShutdown, SessionKillGet, SessionKillTmux,
           SessionKillMark, SessionKillEmit, EmitFrom
      <3> QED
        BY <1>1, <3>1, <3>2, <3>3 DEF QuietUnlessServing
    <2>2. ASSUME NEW p \in Plugins, Plugin(p) PROVE QuietUnlessServing'
      <3>1. p \in late
        BY <1>1, <2>2 DEF Plugin, PluginHello, PluginHelloTouch, PluginHelloEmit,
           SessionDiscover, SessionDiscoverEmit, SessionReport, SessionReportInsert,
           SessionReportApply, SessionReportEmit, ConnAt, Runs
      <3>2. ctl' = ctl /\ \A q \in Plugins \ {p} : conn'[q] = conn[q]
        BY <2>2, ConnAlone
      <3>3. bus' = bus
        BY <2>2, <3>1 DEF Plugin, PluginHello, PluginHelloTouch, PluginHelloEmit,
           SessionDiscover, SessionDiscoverEmit, SessionReport, SessionReportInsert,
           SessionReportApply, SessionReportEmit, EmitFrom
      <3> QED
        BY <1>1, <3>1, <3>2, <3>3 DEF QuietUnlessServing
    <2>3. CASE UNCHANGED <<bus, ctl, conn>>
      BY <1>1, <2>3 DEF QuietUnlessServing
    <2>4. CASE LateEnds
      BY <1>1, <2>4 DEF LateEnds
    <2> QED
      BY <1>1, <2>1, <2>2, <2>3, <2>4 DEF Next, Forward, Stop, BootGcEvents, BootGcSessions,
         StrayGc, ThirtyDaysPass, vars
  <1>2. CASE Stop
    <2>1. PICK hs : late' = hs /\ OnlyRunning(hs)
      BY <1>2 DEF Stop
    <2> QED
      BY <1>2, <2>1 DEF Stop, OnlyRunning, QuietUnlessServing
  <1>3. CASE LateEnds
    <2>1. PICK h \in late : late' = late \ {h} /\ OnlyRunning((Workers \cup Plugins) \ {h})
      BY <1>3 DEF LateEnds
    <2> QED
      BY <1>3, <2>1 DEF LateEnds, OnlyRunning, QuietUnlessServing
  <1>4. CASE BootGcEvents \/ BootGcSessions
    BY <1>4 DEF BootGcEvents, BootGcSessions, QuietUnlessServing
  <1>5. CASE phase' = "serving"
    BY <1>5 DEF QuietUnlessServing
  <1>6. Stop \/ LateEnds \/ BootGcEvents \/ BootGcSessions \/ UNCHANGED <<phase, late>>
    BY DEF Next, Control, SessionCreate, SessionCreateEmit, SessionRename, SessionRenameEmit,
       SessionDismissGet, SessionDismissUpdate, SessionDismissEmit, SessionJumpGet,
       SessionJumpSwitch, DaemonShutdown, SessionKillGet, SessionKillTmux, SessionKillMark,
       SessionKillEmit, Plugin, PluginHello, PluginHelloTouch, PluginHelloEmit, SessionDiscover,
       SessionDiscoverEmit, SessionReport, SessionReportInsert, SessionReportApply,
       SessionReportEmit, Forward, StrayGc, ThirtyDaysPass, vars
  <1> QED
    BY <1>1, <1>2, <1>3, <1>4, <1>5, <1>6

-----------------------------------------------------------------------------
LEMMA InitIInv == Init => IInv
  <1> SUFFICES ASSUME Init PROVE IInv
    OBVIOUS
  <1> USE DEF Init
  <1>1. TypeOK
    BY RowTypes, LocalTypes, BusCapacityAssumption DEF TypeOK
  <1>2. QuietUnlessServing
    BY DEF QuietUnlessServing
  <1>3. HandlersInformed
    BY IdleKnows, HandlersSplit DEF HandlersOK
  <1>4. RowsAndReports /\ NoOrphanEvents /\ HistoryExplainsRow /\ UnownedOnlyKilled
    BY TablesSplit DEF TablesOK, RowOK, EventsOwned, NoRow, Exists, Statuses
  <1> QED
    BY <1>1, <1>2, <1>3, <1>4 DEF IInv

LEMMA IInvStep == IInv /\ [Next]_vars => IInv'
  <1> SUFFICES ASSUME IInv, [Next]_vars PROVE IInv'
    OBVIOUS
  <1>1. TypeOK /\ HandlersOK /\ TablesOK /\ HistoryExplainsRow
    BY HandlersSplit, TablesSplit DEF IInv
  <1>2. TypeOK' /\ QuietUnlessServing'
    BY TypeStep, QuietStep DEF IInv
  <1>3. HandlersOK' /\ TablesOK'
    <2>0. Keeps
      BY StepKeeps DEF IInv
    <2>1. ASSUME NEW w \in Workers, Control(w) PROVE HandlersOK' /\ TablesOK'
      <3>1. Grows
        BY <2>1, GrowsStep DEF IInv
      <3> QED
        <4>1. HandlersOK'
          BY <1>1, <2>0, <2>1, CtlHandlersStep
        <4>2. TablesOK'
          BY <1>1, <2>1, <3>1, CtlTablesStep
        <4> QED
          BY <4>1, <4>2
    <2>2. ASSUME NEW p \in Plugins, Plugin(p) PROVE HandlersOK' /\ TablesOK'
      <3>1. Grows
        BY <2>2, GrowsStep DEF IInv
      <3> QED
        <4>1. HandlersOK'
          BY <1>1, <2>0, <2>2, PluginHandlersStep
        <4>2. TablesOK'
          BY <1>1, <2>2, <3>1, PluginTablesStep
        <4> QED
          BY <4>1, <4>2
    <2>3. CASE \/ Forward \/ ThirtyDaysPass \/ UNCHANGED vars
               \/ Stop \/ LateEnds \/ BootGcEvents \/ BootGcSessions \/ StrayGc
      <3>1. HandlersOK'
        BY <1>1, <2>0, <2>3, OthersHandlersStep
      <3>2. CASE UNCHANGED <<sessions, events>>
        BY <1>1, <3>1, <3>2 DEF TablesOK, RowOK, EventsOwned, Exists, Recorded
      <3>3. CASE BootGcEvents \/ BootGcSessions \/ StrayGc
        BY <1>1, <3>1, <3>3, GcKeepsTables
      <3>4. CASE ThirtyDaysPass
        <4>1. Grows
          BY <3>4, GrowsStep DEF IInv
        <4> QED
          BY <1>1, <3>1, <3>4, <4>1, AgeingKeepsTables
      <3> QED
        BY <2>3, <3>1, <3>2, <3>3, <3>4 DEF Forward, Stop, LateEnds, vars, db
    <2> QED
      BY <2>1, <2>2, <2>3 DEF Next
  <1>4. HandlersInformed'
    BY <1>3, HandlersSplit, PTL
  <1>5. RowsAndReports' /\ NoOrphanEvents' /\ HistoryExplainsRow' /\ UnownedOnlyKilled'
    BY <1>3, TablesSplit, PTL
  <1> QED
    BY <1>2, <1>4, <1>5 DEF IInv

(* The strengthening is an invariant of the service.                       *)
THEOREM IInvHolds == Spec => []IInv
  BY InitIInv, IInvStep, PTL DEF Spec

(* Tables, channel and handlers keep their types; the channel keeps its     *)
(* capacity (event_bus.rs).                                                *)
THEOREM TypeCorrect == Spec => []TypeOK
  <1>1. IInv => TypeOK
    BY DEF IInv
  <1> QED
    BY <1>1, IInvHolds, PTL

(* Every status, task and usage in the sessions table is backed by a row of *)
(* session_events, across crashes (session_report_event inserts first).    *)
THEOREM HistoryComplete == Spec => []HistoryExplainsRow
  <1>1. IInv => HistoryExplainsRow
    BY DEF IInv
  <1> QED
    BY <1>1, IInvHolds, PTL

(* The authority check of session_report_event keeps plugins away from the  *)
(* rows that session.create made.                                          *)
THEOREM UnownedSafe == Spec => []UnownedOnlyKilled
  <1>1. IInv => UnownedOnlyKilled
    BY DEF IInv
  <1> QED
    BY <1>1, IInvHolds, PTL

(* tombstone_gc's orphan sweep finds nothing (ON DELETE CASCADE).           *)
THEOREM NoOrphans == Spec => []NoOrphanEvents
  <1>1. IInv => NoOrphanEvents
    BY DEF IInv
  <1> QED
    BY <1>1, IInvHolds, PTL

-----------------------------------------------------------------------------
(* BusAfterWrite.  An event on the bus, and a handler about to emit, know   *)
(* things about a row that stay true as long as the row is there, whatever *)
(* others write; once a collection took the row they say nothing.          *)
EventOK(e) ==
  /\ e.kind = "plugin.connected" => e.val \in Plugins
  /\ e.kind = "session.usage_updated" => e.val \in Usages
  /\ e.kind \notin {"plugin.connected", "daemon.shutting_down"} => Known(e.id)
  /\ Collected(e) \/ Announced(e)

BusOK == \A i \in 1..Len(bus) : EventOK(bus[i])

CtlWrote(w) ==
  ctl[w].pc # "idle" /\ Exists(sessions, ctl[w].id) =>
    /\ ctl[w].pc = "create_emit" => sessions[ctl[w].id].owner = None
    /\ ctl[w].pc = "jump_switch" => sessions[ctl[w].id].pane # None
    /\ ctl[w].pc = "kill_emit" => sessions[ctl[w].id].finished_at # None

ConnWrote(p) ==
  /\ conn[p].pc = "hello_emit" => plugins[p] = "connected"
  /\ conn[p].pc = "discover_emit" /\ Exists(sessions, conn[p].id) =>
       sessions[conn[p].id].owner # None
  /\ conn[p].pc = "report_emit" /\ Exists(sessions, conn[p].id)
         /\ conn[p].report.kind = "session.finished" =>
       sessions[conn[p].id].finished_at # None

WroteOK == (\A w \in Workers : CtlWrote(w)) /\ (\A p \in Plugins : ConnWrote(p))

LEMMA BusSplit == BusInv <=> WroteOK /\ BusOK
  BY DEF BusInv, HandlersWrote, BusHoldsRows, BusAfterWrite, WroteOK, CtlWrote, ConnWrote,
     BusOK, EventOK

(* A row that was inserted is there or was collected.                      *)
LEMMA HereOrGone ==
  ASSUME NEW t \in [Ids -> Row], NEW id \in Ids, t[id].status # "absent"
  PROVE  Exists(t, id) \/ Gone(t, id)
  BY DEF Row, Exists, Gone

(* What an event announces stays true until its row is collected. *)
LEMMA EventKeeps ==
  ASSUME TypeOK', Keeps, NEW e, EventOK(e)
  PROVE  EventOK(e)'
  <1>1. CASE Collected(e)
    <2>1. e.id \in Ids /\ ~Exists(sessions, e.id) /\ Known(e.id)
      BY <1>1 DEF Collected, Gone, Exists, Statuses, Known
    <2>2. Known(e.id)' /\ ~Exists(sessions', e.id)
      BY <2>1, FactsKeep
    <2>3. Gone(sessions', e.id)
      BY <2>1, <2>2, HereOrGone DEF Known, TypeOK
    <2> QED
      BY <2>1, <2>2, <2>3 DEF EventOK, Collected
  <1>2. CASE Announced(e) /\ e.kind \in {"plugin.connected", "daemon.shutting_down"}
    BY <1>2 DEF EventOK, Announced, Keeps
  <1>3. CASE Announced(e) /\ e.kind \notin {"plugin.connected", "daemon.shutting_down"}
    <2>1. Known(e.id)
      BY <1>3 DEF EventOK
    <2>2. Known(e.id)' /\ e.id \in Ids
      BY <2>1, FactsKeep DEF Known
    <2>3. CASE Exists(sessions', e.id)
      <3>1. Announced(e)'
        BY <1>3, <2>1, <2>3, FactsKeep DEF Announced, Same
      <3> QED
        BY <1>3, <2>2, <3>1 DEF EventOK
    <2>4. CASE ~Exists(sessions', e.id)
      <3>1. Gone(sessions', e.id)
        BY <2>2, <2>4, HereOrGone DEF Known, TypeOK
      <3> QED
        BY <1>3, <2>2, <3>1 DEF EventOK, Collected
    <2> QED
      BY <2>3, <2>4
  <1> QED
    BY <1>1, <1>2, <1>3 DEF EventOK

(* After an emit the channel holds old events and the new one. *)
LEMMA EmitElements ==
  ASSUME bus \in Seq(BusEvent), Len(bus) <= BusCapacity, NEW k, NEW j, NEW v, Emit(k, j, v),
         [kind |-> k, id |-> j, val |-> v] \in BusEvent
  PROVE  \A i \in 1..Len(bus') :
           \/ bus'[i] = [kind |-> k, id |-> j, val |-> v]
           \/ \E n \in 1..Len(bus) : bus'[i] = bus[n]
  <1> DEFINE e == [kind |-> k, id |-> j, val |-> v]
  <1> HIDE DEF e
  <1>0. e \in BusEvent
    BY DEF e
  <1>1. CASE Len(bus) < BusCapacity
    <2>1. bus' = Append(bus, e)
      BY <1>1 DEF Emit, e
    <2>2. \A i \in 1..Len(bus') : bus'[i] = e \/ (i \in 1..Len(bus) /\ bus'[i] = bus[i])
      BY <1>0, <2>1
    <2> QED
      BY <2>2 DEF e
  <1>2. CASE ~(Len(bus) < BusCapacity)
    <2>1. bus # << >> /\ bus' = Append(Tail(bus), e)
      BY <1>2, BusCapacityAssumption DEF Emit, e
    <2>2. /\ Tail(bus) \in Seq(BusEvent) /\ Len(Tail(bus)) = Len(bus) - 1
          /\ \A i \in 1..Len(Tail(bus)) : Tail(bus)[i] = bus[i + 1]
      BY <2>1
    <2>3. PICK t \in Seq(BusEvent) :
            /\ bus' = Append(t, e) /\ Len(t) = Len(bus) - 1
            /\ \A i \in 1..Len(t) : t[i] = bus[i + 1]
      BY <2>1, <2>2, Zenon
    <2>4. \A i \in 1..Len(bus') : bus'[i] = e \/ (i + 1 \in 1..Len(bus) /\ bus'[i] = bus[i + 1])
      BY <1>0, <2>3
    <2> QED
      BY <2>4 DEF e
  <1> QED
    BY <1>1, <1>2

LEMMA EmitKeeps ==
  ASSUME TypeOK, TypeOK', BusOK, Keeps, NEW k, NEW j, NEW v, Emit(k, j, v),
         [kind |-> k, id |-> j, val |-> v] \in BusEvent,
         EventOK([kind |-> k, id |-> j, val |-> v])'
  PROVE  BusOK'
  <1> SUFFICES ASSUME NEW i \in 1..Len(bus') PROVE EventOK(bus[i])'
    BY DEF BusOK
  <1>1. PICK e : e = bus'[i]
    OBVIOUS
  <1>2. e = [kind |-> k, id |-> j, val |-> v] \/ \E n \in 1..Len(bus) : e = bus[n]
    BY <1>1, EmitElements DEF TypeOK
  <1>3. EventOK(e)'
    <2>1. CASE e = [kind |-> k, id |-> j, val |-> v]
      BY <2>1
    <2>2. CASE \E n \in 1..Len(bus) : e = bus[n]
      <3>1. EventOK(e)
        BY <2>2 DEF BusOK
      <3> QED
        BY <3>1, EventKeeps
    <2> QED
      BY <1>2, <2>1, <2>2
  <1> QED
    BY <1>1, <1>3 DEF EventOK, Announced, Collected

LEMMA ChannelKeeps ==
  ASSUME TypeOK', BusOK, Keeps, \A i \in 1..Len(bus') : \E n \in 1..Len(bus) : bus'[i] = bus[n]
  PROVE  BusOK'
  <1> SUFFICES ASSUME NEW i \in 1..Len(bus') PROVE EventOK(bus[i])'
    BY DEF BusOK
  <1>1. PICK e : e = bus'[i] /\ \E n \in 1..Len(bus) : e = bus[n]
    OBVIOUS
  <1>2. EventOK(e)
    BY <1>1 DEF BusOK
  <1>3. EventOK(e)'
    BY <1>2, EventKeeps
  <1> QED
    BY <1>1, <1>3 DEF EventOK, Announced, Collected

(* A handler that does not move keeps what it wrote. *)
LEMMA CtlWroteKeeps ==
  ASSUME Keeps, NEW w \in Workers, CtlOK(w), CtlWrote(w), ctl'[w] = ctl[w]
  PROVE  CtlWrote(w)'
  <1>1. CASE ctl[w].pc = "idle"
    BY <1>1 DEF CtlWrote
  <1>2. CASE ctl[w].pc # "idle"
    <2>1. Known(ctl[w].id)
      BY <1>2 DEF CtlOK
    <2> QED
      BY <2>1, FactsKeep DEF CtlWrote, Same
  <1> QED
    BY <1>1, <1>2

LEMMA ConnWroteKeeps ==
  ASSUME Keeps, NEW p \in Plugins, ConnOK(p), ConnWrote(p), conn'[p] = conn[p]
  PROVE  ConnWrote(p)'
  <1>1. CASE conn[p].pc \in {"discover_emit", "report_emit"}
    <2>1. Known(conn[p].id)
      BY <1>1 DEF ConnOK
    <2> QED
      BY <1>1, <2>1, FactsKeep DEF ConnWrote, Same
  <1>2. CASE conn[p].pc \notin {"discover_emit", "report_emit"}
    BY <1>2 DEF ConnWrote, Keeps
  <1> QED
    BY <1>1, <1>2

(* A control handler emits what it has written.                            *)
LEMMA CtlBusStep ==
  ASSUME TypeOK, TypeOK', HandlersOK, TablesOK, WroteOK, BusOK, Keeps, NEW w \in Workers, Control(w)
  PROVE  WroteOK' /\ BusOK'
  <1> USE DEF TypeOK
  <1>0. CtlOK(w) /\ CtlWrote(w) /\ ctl[w] \in Ctl
    BY DEF HandlersOK, WroteOK
  <1>1. conn' = conn
    BY CtlAlone
  <1>2. \A v \in Workers : v # w => ctl'[v] = ctl[v]
    BY CtlAlone
  <1>3. CtlWrote(w)' => WroteOK'
    BY <1>1, <1>2, CtlWroteKeeps, ConnWroteKeeps DEF WroteOK, HandlersOK
  <1>4. CtlReply(w) => CtlWrote(w)'
    BY DEF CtlReply, IdleCtl, CtlWrote
  <1>5. UNCHANGED bus => BusOK'
    BY ChannelKeeps
  <1>6. CASE SessionCreate(w)
    <2>1. PICK id \in Ids, n \in Names :
            /\ sessions' = Insert(sessions, id, NewRow(None, None, n))
            /\ CtlStart(w, "create_emit", id, n)
      BY <1>6 DEF SessionCreate
    <2>2. CtlWrote(w)'
      BY <2>1 DEF CtlStart, CtlWrote, Insert, NewRow
    <2> QED
      BY <1>3, <1>5, <1>6, <2>2 DEF SessionCreate
  <1>7. CASE SessionRename(w)
    <2>1. CtlWrote(w)'
      BY <1>7 DEF SessionRename, CtlStart, CtlWrote
    <2> QED
      BY <1>3, <1>5, <1>7, <2>1 DEF SessionRename
  <1>8. CASE SessionDismissGet(w) \/ SessionKillGet(w)
    <2>1. CtlWrote(w)'
      BY <1>8 DEF SessionDismissGet, SessionKillGet, CtlStart, CtlWrote
    <2> QED
      BY <1>3, <1>5, <1>8, <2>1 DEF SessionDismissGet, SessionKillGet
  <1>9. CASE SessionJumpGet(w)
    <2>1. CtlWrote(w)'
      BY <1>9 DEF SessionJumpGet, CtlStart, CtlWrote, db
    <2> QED
      BY <1>3, <1>5, <1>9, <2>1 DEF SessionJumpGet
  <1>10. CASE SessionDismissUpdate(w) \/ SessionKillTmux(w)
    <2>1. UNCHANGED bus /\ (CtlReply(w) \/ ctl'[w].pc \in {"dismiss_emit", "kill_mark"})
      BY <1>0, <1>10 DEF SessionDismissUpdate, SessionKillTmux, CtlNotFound, CtlGoto, Ctl
    <2>2. CtlWrote(w)'
      BY <1>4, <2>1 DEF CtlWrote
    <2> QED
      BY <1>3, <1>5, <2>1, <2>2
  <1>11. CASE SessionKillMark(w)
    <2>1. CASE CtlReply(w)
      BY <1>3, <1>4, <1>5, <1>11, <2>1 DEF SessionKillMark
    <2>2. CASE ~CtlReply(w)
      <3>1. /\ ctl'[w].pc = "kill_emit" /\ ctl'[w].id = ctl[w].id /\ ctl[w].id \in Ids
            /\ sessions' = MarkFinished(sessions, ctl[w].id, "recent")
        BY <1>0, <1>11, <2>2 DEF SessionKillMark, CtlNotFound, CtlGoto, Ctl, CtlAt, CtlOK, Known
      <3>2. sessions'[ctl[w].id].finished_at = "recent"
        BY <3>1 DEF MarkFinished, Row
      <3>3. CtlWrote(w)'
        BY <3>1, <3>2, NoneIsNoString DEF CtlWrote, Ages
      <3> QED
        BY <1>3, <1>5, <1>11, <3>3 DEF SessionKillMark
    <2> QED
      BY <2>1, <2>2
  <1>12. CASE \/ SessionCreateEmit(w) \/ SessionRenameEmit(w) \/ SessionDismissEmit(w)
              \/ SessionJumpSwitch(w) \/ SessionKillEmit(w) \/ DaemonShutdown(w)
    <2>1. CtlReply(w) /\ UNCHANGED <<sessions, events, plugins>>
      BY <1>12 DEF SessionCreateEmit, SessionRenameEmit, SessionDismissEmit,
         SessionJumpSwitch, DaemonShutdown, SessionKillEmit, db
    <2>2. CASE UNCHANGED bus
      BY <1>3, <1>4, <1>5, <2>1, <2>2
    <2>3. CASE ~UNCHANGED bus /\ DaemonShutdown(w)
      <3>1. [kind |-> "daemon.shutting_down", id |-> None, val |-> None] \in BusEvent
        BY DEF BusEvent, BusKinds, BusVals
      <3>2. EventOK([kind |-> "daemon.shutting_down", id |-> None, val |-> None])'
        BY DEF EventOK, Announced
      <3>3. BusOK'
        BY <2>3, <3>1, <3>2, EmitKeeps DEF DaemonShutdown, EmitFrom
      <3> QED
        BY <1>3, <1>4, <2>1, <3>3
    <2>4. CASE ~UNCHANGED bus /\ ~DaemonShutdown(w)
      <3>1. PICK k \in {"session.created", "session.renamed", "session.dismissed_error",
                        "session.jumped", "session.killed"},
                 v \in Names \cup {None} :
              /\ Emit(k, ctl[w].id, v)
              /\ ctl[w].pc # "idle"
              /\ k = "session.created" => ctl[w].pc = "create_emit"
              /\ k = "session.dismissed_error" => ctl[w].pc = "dismiss_emit"
              /\ k = "session.jumped" => ctl[w].pc = "jump_switch"
              /\ k = "session.killed" => ctl[w].pc = "kill_emit"
        <4>1. ctl[w].name \in Names \cup {None}
          BY <1>0 DEF Ctl
        <4> QED
          BY <1>12, <2>4, <4>1 DEF SessionCreateEmit, SessionRenameEmit, SessionDismissEmit,
             SessionJumpSwitch, SessionKillEmit, CtlAt, EmitFrom
      <3>2. PICK id \in Ids : id = ctl[w].id
        BY <1>0, <3>1 DEF CtlOK, Known
      <3>3. PICK e : e = [kind |-> k, id |-> id, val |-> v]
        OBVIOUS
      <3>4. e \in BusEvent /\ e.kind = k /\ e.id = id /\ e.val = v
        BY <3>3 DEF BusEvent, BusKinds, BusVals
      <3>5. EventOK(e)
        <4>1. Known(id) /\ (Exists(sessions, id) \/ Gone(sessions, id))
          BY <1>0, <3>1, <3>2, HereOrGone DEF CtlOK, Known
        <4>2. Exists(sessions, id) => Announced(e)
          BY <1>0, <3>1, <3>2, <3>4 DEF Announced, CtlWrote, CtlOK
        <4> QED
          BY <3>4, <4>1, <4>2 DEF EventOK, Collected
      <3>6. EventOK(e)'
        BY <3>5, EventKeeps
      <3>7. BusOK'
        BY <3>1, <3>2, <3>3, <3>4, <3>6, EmitKeeps
      <3> QED
        BY <1>3, <1>4, <2>1, <3>7
    <2> QED
      BY <2>2, <2>3, <2>4
  <1> QED
    BY <1>6, <1>7, <1>8, <1>9, <1>10, <1>11, <1>12 DEF Control

(* A plugin handler emits what it has written.                             *)
LEMMA PluginBusStep ==
  ASSUME TypeOK, TypeOK', HandlersOK, TablesOK, WroteOK, BusOK, Keeps, NEW p \in Plugins, Plugin(p)
  PROVE  WroteOK' /\ BusOK'
  <1> USE DEF TypeOK
  <1>0. ConnOK(p) /\ ConnWrote(p) /\ conn[p] \in Conn
    BY DEF HandlersOK, WroteOK
  <1>1. ctl' = ctl
    BY ConnAlone
  <1>2. \A q \in Plugins : q # p => conn'[q] = conn[q]
    BY ConnAlone
  <1>3. ConnWrote(p)' => WroteOK'
    BY <1>1, <1>2, CtlWroteKeeps, ConnWroteKeeps DEF WroteOK, HandlersOK
  <1>4. ConnReply(p) => ConnWrote(p)'
    BY DEF ConnReply, IdleConn, ConnWrote
  <1>5. UNCHANGED bus => BusOK'
    BY ChannelKeeps
  <1>6. CASE PluginHello(p) \/ SessionReport(p)
    <2>1. ConnWrote(p)'
      BY <1>6 DEF PluginHello, SessionReport, ConnStart, ConnWrote
    <2> QED
      BY <1>3, <1>5, <1>6, <2>1 DEF PluginHello, SessionReport
  <1>7. CASE PluginHelloTouch(p)
    <2>1. conn'[p].pc = "hello_emit" /\ plugins'[p] = "connected"
      BY <1>0, <1>7 DEF PluginHelloTouch, ConnGoto, Conn
    <2>2. ConnWrote(p)'
      BY <2>1 DEF ConnWrote
    <2> QED
      BY <1>3, <1>5, <1>7, <2>2 DEF PluginHelloTouch
  <1>8. CASE SessionDiscover(p)
    <2>1. PICK id \in Ids, x \in Panes, n \in Names :
            /\ sessions' = Insert(sessions, id, NewRow(p, x, n))
            /\ ConnStart(p, "discover_emit", id, n, NoReport)
      BY <1>8 DEF SessionDiscover
    <2>2. ConnWrote(p)'
      BY <2>1, NoneAssumption DEF ConnStart, ConnWrote, Insert, NewRow
    <2> QED
      BY <1>3, <1>5, <1>8, <2>2 DEF SessionDiscover
  <1>9. CASE SessionReportInsert(p)
    <2>1. ConnReply(p) \/ conn'[p].pc = "report_apply"
      BY <1>0, <1>9 DEF SessionReportInsert, ConnGoto, Conn
    <2>2. ConnWrote(p)'
      BY <1>4, <2>1 DEF ConnWrote
    <2> QED
      BY <1>3, <1>5, <1>9, <2>2 DEF SessionReportInsert
  <1>10. CASE SessionReportApply(p)
    <2>1. CASE ConnReply(p)
      BY <1>3, <1>4, <1>5, <1>10, <2>1 DEF SessionReportApply
    <2>2. CASE ~ConnReply(p)
      <3>1. PICK id \in Ids, r \in Reports : id = conn[p].id /\ r = conn[p].report
        BY <1>0, <1>10 DEF SessionReportApply, ConnAt, ConnOK, Known
      <3>2. /\ conn'[p].pc = "report_emit" /\ conn'[p].id = id /\ conn'[p].report = r
            /\ sessions' = Applied(sessions, id, r)
        BY <1>0, <1>10, <2>2, <3>1 DEF SessionReportApply, ConnGoto, Conn
      <3>3. r.kind = "session.finished" => sessions'[id].finished_at # None
        <4>1. CASE r.kind = "session.finished"
          <5>1. r.val \in Ages
            BY <4>1, ReportsAssumption DEF StatusReports, TaskReports, UsageReports,
               FinishReports, OtherReports
          <5>2. sessions' = MarkFinished(sessions, id, r.val)
            BY <3>2, <4>1 DEF Applied
          <5>3. sessions'[id].finished_at = r.val
            BY <5>2 DEF MarkFinished, Row
          <5> QED
            BY <5>1, <5>3, NoneIsNoString
        <4> QED
          BY <4>1
      <3>4. ConnWrote(p)'
        BY <3>2, <3>3 DEF ConnWrote
      <3> QED
        BY <1>3, <1>5, <1>10, <3>4 DEF SessionReportApply
    <2> QED
      BY <2>1, <2>2
  <1>11. CASE /\ UNCHANGED bus
              /\ PluginHelloEmit(p) \/ SessionDiscoverEmit(p) \/ SessionReportEmit(p)
    BY <1>3, <1>4, <1>5, <1>11 DEF PluginHelloEmit, SessionDiscoverEmit, SessionReportEmit
  <1>12. CASE ~UNCHANGED bus /\ PluginHelloEmit(p)
    <2>1. PICK e : e = [kind |-> "plugin.connected", id |-> None, val |-> p]
      OBVIOUS
    <2>2. e \in BusEvent /\ e.kind = "plugin.connected" /\ e.val = p
      BY <2>1 DEF BusEvent, BusKinds, BusVals
    <2>3. plugins[p] = "connected" /\ Emit("plugin.connected", None, p) /\ ConnReply(p)
      BY <1>0, <1>12 DEF PluginHelloEmit, ConnAt, ConnWrote, EmitFrom
    <2>4. EventOK(e)'
      BY <2>2, <2>3, EventKeeps DEF EventOK, Announced
    <2>5. BusOK'
      BY <2>1, <2>2, <2>3, <2>4, EmitKeeps
    <2> QED
      BY <1>3, <1>4, <2>3, <2>5
  <1>13. CASE ~UNCHANGED bus /\ SessionDiscoverEmit(p)
    <2>1. PICK id \in Ids, n \in Names \cup {None} : id = conn[p].id /\ n = conn[p].name
      BY <1>0, <1>13 DEF SessionDiscoverEmit, ConnAt, ConnOK, Conn, Known
    <2>2. PICK e : e = [kind |-> "session.discovered", id |-> id, val |-> n]
      OBVIOUS
    <2>3. e \in BusEvent /\ e.kind = "session.discovered" /\ e.id = id
      BY <2>2 DEF BusEvent, BusKinds, BusVals
    <2>4. /\ Known(id) /\ (Exists(sessions, id) \/ Gone(sessions, id))
          /\ Exists(sessions, id) => sessions[id].owner # None
      BY <1>0, <1>13, <2>1, HereOrGone DEF SessionDiscoverEmit, ConnAt, ConnOK, ConnWrote, Known
    <2>5. EventOK(e)
      BY <2>3, <2>4 DEF EventOK, Announced, Collected
    <2>6. EventOK(e)'
      BY <2>5, EventKeeps
    <2>7. Emit("session.discovered", id, n) /\ ConnReply(p)
      BY <1>13, <2>1 DEF SessionDiscoverEmit, EmitFrom
    <2>8. BusOK'
      BY <2>2, <2>3, <2>6, <2>7, EmitKeeps
    <2> QED
      BY <1>3, <1>4, <2>7, <2>8
  <1>14. CASE ~UNCHANGED bus /\ SessionReportEmit(p)
    <2>1. PICK id \in Ids, r \in Reports :
            /\ id = conn[p].id /\ r = conn[p].report /\ ~NoEffect(r) /\ Known(id)
            /\ Exists(sessions, id) =>
                 /\ [id |-> id, report |-> r] \in events
                 /\ r.kind = "session.finished" => sessions[id].finished_at # None
      BY <1>0, <1>14 DEF SessionReportEmit, ConnAt, ConnOK, ConnWrote, Known
    <2>2. PICK e : e = [kind |-> r.kind, id |-> id, val |-> r.val]
      OBVIOUS
    <2>3. e \in BusEvent /\ e.kind = r.kind /\ e.id = id /\ e.val = r.val
      BY <2>1, <2>2, ReportVals DEF BusEvent
    <2>4. r = [kind |-> r.kind, val |-> r.val]
      BY ReportsAssumption DEF StatusReports, TaskReports, UsageReports, FinishReports,
         OtherReports
    <2>5. Exists(sessions, id) => Recorded(id, r.kind, r.val)
      BY <2>1, <2>4 DEF Recorded
    <2>6. Mutating(r.kind) /\ (Exists(sessions, id) \/ Gone(sessions, id))
      BY <2>1, HereOrGone DEF NoEffect, Known
    <2>7. EventOK(e)
      <3>1. Exists(sessions, id) => Announced(e)
        BY <2>1, <2>3, <2>5, <2>6 DEF Announced, Mutating
      <3>2. r.kind = "session.usage_updated" => r.val \in Usages
        BY ReportsAssumption DEF StatusReports, TaskReports, UsageReports, FinishReports,
           OtherReports
      <3> QED
        BY <2>1, <2>3, <2>6, <3>1, <3>2 DEF EventOK, Collected, Mutating
    <2>8. EventOK(e)'
      BY <2>7, EventKeeps
    <2>9. Emit(r.kind, id, r.val) /\ ConnReply(p)
      BY <1>14, <2>1 DEF SessionReportEmit, EmitFrom
    <2>10. BusOK'
      BY <2>2, <2>3, <2>8, <2>9, EmitKeeps
    <2> QED
      BY <1>3, <1>4, <2>9, <2>10
  <1> QED
    BY <1>6, <1>7, <1>8, <1>9, <1>10, <1>11, <1>12, <1>13, <1>14 DEF Plugin

LEMMA BusInvStep == IInv /\ BusInv /\ [Next]_vars => BusInv'
  <1> SUFFICES ASSUME IInv, BusInv, [Next]_vars PROVE BusInv'
    OBVIOUS
  <1>1. TypeOK /\ HandlersOK /\ TablesOK /\ WroteOK /\ BusOK
    BY HandlersSplit, TablesSplit, BusSplit DEF IInv
  <1>2. TypeOK' /\ Keeps
    BY IInvStep, StepKeeps DEF IInv
  <1>3. WroteOK' /\ BusOK'
    <2>1. CASE \E w \in Workers : Control(w)
      BY <1>1, <1>2, <2>1, CtlBusStep
    <2>2. CASE \E p \in Plugins : Plugin(p)
      BY <1>1, <1>2, <2>2, PluginBusStep
    <2>3. CASE \/ Forward \/ Stop \/ LateEnds \/ BootGcEvents \/ BootGcSessions \/ StrayGc
               \/ ThirtyDaysPass \/ UNCHANGED vars
      <3>1. /\ \A w \in Workers : ctl'[w] = ctl[w] \/ ctl'[w] = IdleCtl
            /\ \A p \in Plugins : conn'[p] = conn[p] \/ conn'[p] = IdleConn
        BY <2>3 DEF Forward, Stop, LateEnds, OnlyRunning, BootGcEvents, BootGcSessions, StrayGc,
           ThirtyDaysPass, vars
      <3>2. WroteOK'
        <4>1. ASSUME NEW w \in Workers PROVE CtlWrote(w)'
          <5>1. ctl'[w] = IdleCtl => CtlWrote(w)'
            BY DEF CtlWrote, IdleCtl
          <5> QED
            BY <1>1, <1>2, <3>1, <5>1, CtlWroteKeeps DEF WroteOK, HandlersOK
        <4>2. ASSUME NEW p \in Plugins PROVE ConnWrote(p)'
          <5>1. conn'[p] = IdleConn => ConnWrote(p)'
            BY DEF ConnWrote, IdleConn
          <5> QED
            BY <1>1, <1>2, <3>1, <5>1, ConnWroteKeeps DEF WroteOK, HandlersOK
        <4> QED
          BY <4>1, <4>2 DEF WroteOK
      <3>3. \A i \in 1..Len(bus') : \E n \in 1..Len(bus) : bus'[i] = bus[n]
        <4>1. CASE Forward
          <5>1. /\ bus \in Seq(BusEvent) /\ bus # << >> /\ bus' = Tail(bus)
            BY <1>1, <4>1 DEF Forward, TypeOK
          <5>2. \A i \in 1..Len(bus') : i + 1 \in 1..Len(bus) /\ bus'[i] = bus[i + 1]
            BY <5>1
          <5> QED
            BY <5>2
        <4>2. CASE Stop
          BY <4>2 DEF Stop
        <4>3. CASE UNCHANGED bus
          BY <4>3
        <4> QED
          BY <2>3, <4>1, <4>2, <4>3 DEF LateEnds, BootGcEvents, BootGcSessions, StrayGc,
             ThirtyDaysPass, vars
      <3> QED
        BY <1>1, <1>2, <3>2, <3>3, ChannelKeeps
    <2> QED
      BY <2>1, <2>2, <2>3 DEF Next
  <1> QED
    BY <1>3, BusSplit, PTL

(* Handlers about to emit have written, and the bus holds only events about *)
(* rows that were inserted, and true of them while they are there          *)
(* (mutate.rs, plugin_handlers.rs).                                        *)
THEOREM BusInvHolds == Spec => []BusInv
  <1>1. Init => BusInv
    BY DEF Init, BusInv, HandlersWrote, BusHoldsRows, BusAfterWrite, IdleCtl, IdleConn
  <1> QED
    BY <1>1, BusInvStep, IInvHolds, PTL DEF Spec

(* An event is on the bus only after the write it announces, and as long as *)
(* it is on the bus no other handler, crash, boot or process that was told *)
(* to stop undoes that write, but for the collection of the whole row      *)
(* (every emit of mutate.rs and plugin_handlers.rs follows its UPDATE).    *)
THEOREM BusFollowsWrites == Spec => []BusAfterWrite
  <1>1. BusInv => BusAfterWrite
    BY DEF BusInv
  <1> QED
    BY <1>1, BusInvHolds, PTL

-----------------------------------------------------------------------------
(* WriteAuthority: what a step does to a row that stays. *)
SameReports(id) ==
  /\ sessions'[id].status = sessions[id].status
  /\ sessions'[id].current_task = sessions[id].current_task
  /\ sessions'[id].usage = sessions[id].usage

LEMMA CtlAuthority ==
  ASSUME TypeOK, HandlersOK, NEW w \in Workers, Control(w), NEW id \in Ids, Exists(sessions, id)
  PROVE  SameReports(id) \/ OwnersWrite(id)
  <1> USE DEF TypeOK
  <1>1. CASE SessionCreate(w)
    <2>1. sessions'[id] = sessions[id]
      BY <1>1 DEF SessionCreate, Insert, Exists, Statuses
    <2> QED
      BY <2>1 DEF SameReports
  <1>2. CASE SessionRename(w)
    BY <1>2 DEF SessionRename, UpdateRename, SameReports, Row
  <1>3. CASE SessionDismissUpdate(w) /\ sessions' # sessions
    <2>1. CASE id = ctl[w].id
      <3>1. /\ ctl[w].pc = "dismiss_update"
            /\ sessions'[id] = [sessions[id] EXCEPT !.status = "idle"]
        BY <1>3, <2>1 DEF SessionDismissUpdate, CtlNotFound, UpdateStatus, CtlAt
      <3> QED
        BY <2>1, <3>1 DEF OwnersWrite
    <2>2. CASE id # ctl[w].id
      BY <1>3, <2>2 DEF SessionDismissUpdate, CtlNotFound, UpdateStatus, SameReports
    <2> QED
      BY <2>1, <2>2
  <1>4. CASE SessionKillMark(w) /\ sessions' # sessions
    <2>1. CASE id = ctl[w].id
      <3>1. /\ ctl[w].pc = "kill_mark"
            /\ sessions'[id] = [sessions[id] EXCEPT !.status = "finished",
                                                    !.finished_at = "recent"]
        BY <1>4, <2>1 DEF SessionKillMark, CtlNotFound, MarkFinished, CtlAt
      <3> QED
        BY <2>1, <3>1 DEF OwnersWrite
    <2>2. CASE id # ctl[w].id
      BY <1>4, <2>2 DEF SessionKillMark, CtlNotFound, MarkFinished, SameReports
    <2> QED
      BY <2>1, <2>2
  <1>5. CASE UNCHANGED sessions
    BY <1>5 DEF SameReports
  <1> QED
    BY <1>1, <1>2, <1>3, <1>4, <1>5 DEF Control, SessionCreateEmit, SessionRenameEmit,
       SessionDismissGet, SessionDismissEmit, SessionJumpGet, SessionJumpSwitch, DaemonShutdown,
       SessionKillGet, SessionKillTmux, SessionKillEmit, db

LEMMA PluginAuthority ==
  ASSUME TypeOK, HandlersOK, NEW p \in Plugins, Plugin(p), NEW id \in Ids, Exists(sessions, id)
  PROVE  SameReports(id) \/ OwnersWrite(id)
  <1> USE DEF TypeOK
  <1>1. CASE SessionDiscover(p)
    <2>1. sessions'[id] = sessions[id]
      BY <1>1 DEF SessionDiscover, Insert, Exists, Statuses
    <2> QED
      BY <2>1 DEF SameReports
  <1>2. CASE SessionReportApply(p)
    <2>1. PICK j \in Ids, r \in Reports :
            /\ j = conn[p].id /\ r = conn[p].report
            /\ conn[p].pc = "report_apply"
            /\ Exists(sessions, j) => Authoritative(p, j, r)
      BY <1>2 DEF SessionReportApply, ConnAt, HandlersOK, ConnOK, Known
    <2>2. CASE sessions' = sessions
      BY <2>2 DEF SameReports
    <2>3. CASE sessions' = Applied(sessions, j, r) /\ ~NoEffect(r) /\ Exists(sessions, j)
      <3>1. Mutating(r.kind) /\ sessions[j].owner = p
        BY <2>1, <2>3 DEF NoEffect, Authoritative
      <3>2. CASE j = id
        BY <2>1, <3>1, <3>2 DEF OwnersWrite
      <3>3. CASE j # id
        <4>1. sessions'[id] = sessions[id]
          BY <2>3, <3>1, <3>3 DEF Applied, Mutating, UpdateStatus, UpdateTask, UpdateUsage,
             MarkFinished
        <4> QED
          BY <4>1 DEF SameReports
      <3> QED
        BY <3>2, <3>3
    <2> QED
      BY <1>2, <2>1, <2>2, <2>3 DEF SessionReportApply
  <1>3. CASE UNCHANGED sessions
    BY <1>3 DEF SameReports
  <1> QED
    BY <1>1, <1>2, <1>3 DEF Plugin, PluginHello, PluginHelloTouch, PluginHelloEmit,
       SessionDiscoverEmit, SessionReport, SessionReportInsert, SessionReportEmit, db

LEMMA AuthorityStep ==
  ASSUME IInv, Next, NEW id \in Ids, Exists(sessions, id), Exists(sessions', id)
  PROVE  /\ sessions'[id].owner = sessions[id].owner
         /\ sessions'[id].pane = sessions[id].pane
         /\ SameReports(id) \/ OwnersWrite(id)
  <1>1. TypeOK /\ HandlersOK
    BY HandlersSplit DEF IInv
  <1>2. sessions'[id].owner = sessions[id].owner /\ sessions'[id].pane = sessions[id].pane
    <2>1. Keeps
      BY StepKeeps DEF IInv
    <2> QED
      BY <2>1 DEF Keeps, Same, Exists, Statuses
  <1>3. CASE \E w \in Workers : Control(w)
    BY <1>1, <1>2, <1>3, CtlAuthority
  <1>4. CASE \E p \in Plugins : Plugin(p)
    BY <1>1, <1>2, <1>4, PluginAuthority
  <1>5. CASE ThirtyDaysPass
    <2>1. SameReports(id)
      BY <1>1, <1>5 DEF ThirtyDaysPass, Expire, SameReports, Row, TypeOK
    <2> QED
      BY <1>2, <2>1
  <1>6. CASE Forward \/ Stop \/ LateEnds \/ BootGcEvents \/ BootGcSessions \/ StrayGc
    <2>1. sessions'[id] = sessions[id]
      BY <1>6 DEF Forward, Stop, LateEnds, BootGcEvents, BootGcSessions, StrayGc,
         DeleteTombstones, NoRow, Exists, Statuses, db
    <2> QED
      BY <2>1 DEF SameReports
  <1> QED
    BY <1>3, <1>4, <1>5, <1>6 DEF Next

(* Nobody but the owning plugin, a kill or a dismissal changes what a row   *)
(* reports, whatever interleaves between the authority check of            *)
(* session_report_event and its UPDATE; owner and binding never change.    *)
THEOREM AuthorityKept == Spec => WriteAuthority
  <1>1. IInv /\ [Next]_vars =>
          [\A id \in Ids :
             Exists(sessions, id) /\ Exists(sessions', id) =>
               /\ sessions'[id].owner = sessions[id].owner
               /\ sessions'[id].pane = sessions[id].pane
               /\ \/ /\ sessions'[id].status = sessions[id].status
                     /\ sessions'[id].current_task = sessions[id].current_task
                     /\ sessions'[id].usage = sessions[id].usage
                  \/ OwnersWrite(id)]_vars
    BY AuthorityStep DEF SameReports
  <1> QED
    BY <1>1, IInvHolds, PTL DEF Spec, WriteAuthority

-----------------------------------------------------------------------------
(* SessionLedger: the table and the history are mapped to themselves, the   *)
(* unapplied report of a plugin to the ledger's pending entry.             *)

(* An insert that the unique index lets through opens a session.           *)
LEMMA LedgerOpen ==
  ASSUME NEW id \in Ids, NEW owner \in Plugins \cup {None}, NEW pane \in Panes \cup {None},
         NEW n \in Names, owner = None <=> pane = None,
         sessions[id].status = "absent", BindingFree(sessions, pane),
         sessions' = Insert(sessions, id, NewRow(owner, pane, n)),
         events' = events, Pending' = Pending
  PROVE  Ledger!Open(id)
  BY DEF Ledger!Open, Ledger!BindingFree, BindingFree, Ledger!Exists, Exists, Ledger!Statuses,
     Statuses, Ledger!Insert, Insert, Ledger!NewRow, NewRow

(* A control handler leaves the plugins' unapplied reports alone, and each  *)
(* of its writes is a step of the ledger at the time of the write.         *)
LEMMA CtlLedger ==
  ASSUME TypeOK, HandlersOK, NEW w \in Workers, Control(w)
  PROVE  [Ledger!Next]_(Ledger!vars)
  <1>1. events' = events /\ Pending' = Pending
    BY DEF Control, SessionCreate, SessionCreateEmit, SessionRename, SessionRenameEmit,
       SessionDismissGet, SessionDismissUpdate, SessionDismissEmit, SessionJumpGet,
       SessionJumpSwitch, DaemonShutdown, SessionKillGet, SessionKillTmux, SessionKillMark,
       SessionKillEmit, Pending, Unapplied, db
  <1>2. CASE SessionCreate(w)
    <2>1. PICK id \in Ids, n \in Names :
            /\ sessions[id].status = "absent"
            /\ sessions' = Insert(sessions, id, NewRow(None, None, n))
      BY <1>2 DEF SessionCreate
    <2>2. Ledger!Open(id)
      BY <1>1, <2>1, LedgerOpen DEF BindingFree
    <2> QED
      BY <2>2 DEF Ledger!Next
  <1>3. CASE SessionRename(w)
    <2>1. PICK id \in Ids, n \in Names :
            Exists(sessions, id) /\ sessions' = UpdateRename(sessions, id, n)
      BY <1>3 DEF SessionRename
    <2>2. Ledger!Rename(id)
      BY <1>1, <2>1 DEF Ledger!Rename, Ledger!Exists, Exists, Ledger!Statuses, Statuses,
         Ledger!UpdateRename, UpdateRename
    <2> QED
      BY <2>2 DEF Ledger!Next
  <1>4. CASE SessionDismissUpdate(w) /\ sessions' # sessions
    <2>1. PICK id \in Ids :
            /\ Exists(sessions, id) /\ Recorded(id, "session.status_changed", "errored")
            /\ sessions' = UpdateStatus(sessions, id, "idle")
      BY <1>4 DEF SessionDismissUpdate, CtlNotFound, CtlAt, HandlersOK, CtlOK,
         Known
    <2>2. Ledger!Dismiss(id)
      BY <1>1, <2>1 DEF Ledger!Dismiss, Ledger!Exists, Exists, Ledger!Statuses, Statuses,
         Ledger!UpdateStatus, UpdateStatus, Recorded
    <2> QED
      BY <2>2 DEF Ledger!Next
  <1>5. CASE SessionKillMark(w) /\ sessions' # sessions
    <2>1. PICK id \in Ids :
            Exists(sessions, id) /\ sessions' = MarkFinished(sessions, id, "recent")
      BY <1>5 DEF SessionKillMark, CtlNotFound, CtlAt, HandlersOK, CtlOK,
         Known
    <2>2. Ledger!Kill(id)
      BY <1>1, <2>1 DEF Ledger!Kill, Ledger!Exists, Exists, Ledger!Statuses, Statuses,
         Ledger!MarkFinished, MarkFinished
    <2> QED
      BY <2>2 DEF Ledger!Next
  <1>6. CASE UNCHANGED sessions
    BY <1>1, <1>6 DEF Ledger!vars
  <1> QED
    BY <1>2, <1>3, <1>4, <1>5, <1>6 DEF Control, SessionCreateEmit, SessionRenameEmit,
       SessionDismissGet, SessionDismissEmit, SessionJumpGet, SessionJumpSwitch, DaemonShutdown,
       SessionKillGet, SessionKillTmux, SessionKillEmit, db

(* The statements on a report mean the same in both modules.               *)
LEMMA LedgerReports ==
  ASSUME NEW t, NEW id \in Ids, NEW r \in Reports
  PROVE  /\ Ledger!Mutating(r.kind) <=> Mutating(r.kind)
         /\ Ledger!NoEffect(r) <=> NoEffect(r)
         /\ Ledger!Exists(t, id) <=> Exists(t, id)
  BY DEF Ledger!Mutating, Mutating, Ledger!NoEffect, NoEffect, Ledger!BadStatus, BadStatus,
     Ledger!Exists, Exists, Ledger!Statuses, Statuses

LEMMA LedgerApplies ==
  ASSUME NEW t, NEW id \in Ids, NEW r \in Reports
  PROVE  Ledger!Applied(t, id, r) = Applied(t, id, r)
  BY DEF Ledger!Applied, Applied, Ledger!UpdateStatus, UpdateStatus, Ledger!UpdateTask,
     UpdateTask, Ledger!UpdateUsage, UpdateUsage, Ledger!MarkFinished, MarkFinished

(* A plugin connection enters a report, gives it its effect, or drops it.  *)
LEMMA PluginLedger ==
  ASSUME TypeOK, HandlersOK, NEW p \in Plugins, Plugin(p)
  PROVE  [Ledger!Next]_(Ledger!vars)
  <1> USE DEF TypeOK
  <1>0. conn[p] \in Conn /\ ConnOK(p)
    BY DEF HandlersOK
  <1>1. \A q \in Plugins : q # p => Unapplied(q)' = Unapplied(q)
    BY DEF Plugin, PluginHello, PluginHelloTouch, PluginHelloEmit, SessionDiscover,
       SessionDiscoverEmit, SessionReport, SessionReportInsert, SessionReportApply,
       SessionReportEmit, ConnGoto, ConnStart, ConnReply, Unapplied
  <1>2. Unapplied(p)' = Unapplied(p) => Pending' = Pending
    BY <1>1 DEF Pending
  <1>3. ASSUME NEW e, Unapplied(p)' = e PROVE Pending' = [Pending EXCEPT ![p] = e]
    BY <1>1, <1>3 DEF Pending
  <1>4. CASE SessionDiscover(p)
    <2>1. PICK id \in Ids, x \in Panes, n \in Names :
            /\ sessions[id].status = "absent" /\ BindingFree(sessions, x)
            /\ sessions' = Insert(sessions, id, NewRow(p, x, n))
      BY <1>4 DEF SessionDiscover
    <2>2. events' = events /\ Pending' = Pending
      BY <1>2, <1>4 DEF SessionDiscover, ConnAt, ConnStart, Unapplied
    <2>3. p # None /\ x # None
      BY NoneAssumption
    <2>4. Ledger!Open(id)
      BY <2>1, <2>2, <2>3, LedgerOpen
    <2> QED
      BY <2>4 DEF Ledger!Next
  <1>5. CASE SessionReportInsert(p) /\ Exists(sessions, conn[p].id)
    <2>1. PICK id \in Ids, r \in Reports :
            /\ id = conn[p].id /\ r = conn[p].report
            /\ Exists(sessions, id) /\ Authoritative(p, id, r)
      BY <1>0, <1>5 DEF SessionReportInsert, ConnAt, ConnOK, Known
    <2>2. Pending[p] = Ledger!Nothing
      BY <1>5 DEF SessionReportInsert, ConnAt, Pending, Unapplied, Ledger!Nothing
    <2>3. Unapplied(p)' = [id |-> id, report |-> r]
      BY <1>0, <1>5, <2>1 DEF SessionReportInsert, ConnGoto, Conn, Unapplied
    <2>4. Pending' = [Pending EXCEPT ![p] = [id |-> id, report |-> r]]
      BY <1>3, <2>3
    <2>5. Ledger!Enter(p)
      BY <1>5, <2>1, <2>2, <2>4, LedgerReports DEF Ledger!Enter, SessionReportInsert, Authoritative
    <2> QED
      BY <2>5 DEF Ledger!Next
  <1>6. CASE SessionReportApply(p)
    <2>1. PICK id \in Ids, r \in Reports :
            /\ id = conn[p].id /\ r = conn[p].report
            /\ Exists(sessions, id) =>
                 Authoritative(p, id, r) /\ [id |-> id, report |-> r] \in events
      BY <1>0, <1>6 DEF SessionReportApply, ConnAt, ConnOK, Known
    <2>2. Pending[p] = [id |-> id, report |-> r]
      BY <1>6, <2>1 DEF SessionReportApply, ConnAt, Pending, Unapplied
    <2>3. Unapplied(p)' = Ledger!Nothing
      BY <1>0, <1>6 DEF SessionReportApply, ConnGoto, ConnReply, IdleConn, Conn, Unapplied,
         Ledger!Nothing
    <2>4. Pending' = [Pending EXCEPT ![p] = Ledger!Nothing]
      BY <1>3, <2>3
    <2>5. CASE NoEffect(r) \/ ~Exists(sessions, id)
      <3>1. Pending' = [q \in Plugins |-> IF q \in {p} THEN Ledger!Nothing ELSE Pending[q]]
        BY <2>4 DEF Pending
      <3>2. Ledger!Forget({p})
        BY <1>6, <2>1, <2>5, <3>1 DEF SessionReportApply, Ledger!Forget
      <3> QED
        BY <3>2 DEF Ledger!Next
    <2>6. CASE ~NoEffect(r) /\ Exists(sessions, id)
      <3>1. sessions' = Ledger!Applied(sessions, id, r)
        BY <1>6, <2>1, <2>6, LedgerApplies DEF SessionReportApply
      <3>2. sessions[id].owner = p
        BY <2>1, <2>6 DEF NoEffect, Authoritative
      <3>3. Pending[p] # Ledger!Nothing
        BY <2>2, NoneAssumption DEF Ledger!Nothing
      <3>4. Ledger!TakeEffect(p)
        BY <1>6, <2>1, <2>2, <2>4, <2>6, <3>1, <3>2, <3>3, LedgerReports
           DEF SessionReportApply, Ledger!TakeEffect
      <3> QED
        BY <3>4 DEF Ledger!Next
    <2> QED
      BY <2>5, <2>6
  <1>7. CASE \/ PluginHello(p) \/ PluginHelloTouch(p) \/ PluginHelloEmit(p)
             \/ SessionDiscoverEmit(p) \/ SessionReport(p) \/ SessionReportEmit(p)
             \/ SessionReportInsert(p) /\ ~Exists(sessions, conn[p].id)
    <2>1. Unapplied(p)' = Unapplied(p)
      BY <1>0, <1>7 DEF PluginHello, PluginHelloTouch, PluginHelloEmit, SessionDiscoverEmit,
         SessionReport, SessionReportEmit, SessionReportInsert, ConnAt, ConnGoto, ConnStart,
         ConnReply, IdleConn, Conn, Unapplied
    <2>2. UNCHANGED <<sessions, events>>
      BY <1>7 DEF PluginHello, PluginHelloTouch, PluginHelloEmit, SessionDiscoverEmit,
         SessionReport, SessionReportEmit, SessionReportInsert, db
    <2> QED
      BY <1>2, <2>1, <2>2 DEF Ledger!vars
  <1> QED
    BY <1>4, <1>5, <1>6, <1>7 DEF Plugin

(* The two statements of tombstone_gc: the sweep of orphans finds none, and *)
(* the deletion takes a session and its events together, whatever report   *)
(* is under way.                                                           *)
LEMMA GcLedger ==
  ASSUME TypeOK, NoOrphanEvents, BootGcEvents \/ BootGcSessions \/ StrayGc
  PROVE  [Ledger!Next]_(Ledger!vars)
  <1>1. Pending' = Pending
    BY DEF BootGcEvents, BootGcSessions, StrayGc, Pending, Unapplied
  <1>2. CASE BootGcEvents
    BY <1>1, <1>2 DEF BootGcEvents, WithSession, NoOrphanEvents, Ledger!vars
  <1>3. CASE BootGcSessions \/ StrayGc
    <2>0. sessions' = DeleteTombstones(sessions) /\ events' = WithSession(events, sessions')
      BY <1>3 DEF BootGcSessions, StrayGc
    <2>1. sessions' = Ledger!DeleteTombstones(sessions)
      BY <2>0 DEF DeleteTombstones, Tombstone, NoRow,
         Ledger!DeleteTombstones, Ledger!Tombstone, Ledger!NoRow
    <2>2. ASSUME NEW e \in events
          PROVE  Exists(sessions', e.id) <=> ~Tombstone(sessions[e.id])
      <3>1. e.id \in Ids /\ Exists(sessions, e.id)
        BY <2>2 DEF NoOrphanEvents, TypeOK
      <3>2. sessions'[e.id] = IF Tombstone(sessions[e.id]) THEN NoRow("gone") ELSE sessions[e.id]
        BY <2>0, <3>1 DEF DeleteTombstones
      <3> QED
        BY <3>1, <3>2 DEF Exists, NoRow, Statuses
    <2>3. events' = {e \in events : ~Tombstone(sessions[e.id])}
      BY <2>0, <2>2 DEF WithSession
    <2>4. Ledger!Collect
      BY <1>1, <2>1, <2>3 DEF Ledger!Collect, Ledger!Tombstone, Tombstone
    <2> QED
      BY <2>4 DEF Ledger!Next
  <1> QED
    BY <1>2, <1>3

(* The handlers that end with a process, or after it, drop their reports.   *)
LEMMA EndLedger ==
  ASSUME Stop \/ LateEnds
  PROVE  [Ledger!Next]_(Ledger!vars)
  <1>1. PICK running : OnlyRunning(running)
    BY DEF Stop, LateEnds
  <1>2. Pending' = [p \in Plugins |-> IF p \in Plugins \ running THEN Ledger!Nothing ELSE Pending[p]]
    BY <1>1 DEF OnlyRunning, Pending, Unapplied, IdleConn, Ledger!Nothing
  <1>3. UNCHANGED <<sessions, events>>
    BY DEF Stop, LateEnds, db
  <1>4. Ledger!Forget(Plugins \ running) /\ Plugins \ running \in SUBSET Plugins
    BY <1>2, <1>3 DEF Ledger!Forget
  <1> QED
    BY <1>4 DEF Ledger!Next

LEMMA LedgerStep ==
  ASSUME IInv, [Next]_vars
  PROVE  [Ledger!Next]_(Ledger!vars)
  <1>1. TypeOK /\ HandlersOK /\ NoOrphanEvents
    BY HandlersSplit DEF IInv
  <1>2. CASE \E w \in Workers : Control(w)
    BY <1>1, <1>2, CtlLedger
  <1>3. CASE \E p \in Plugins : Plugin(p)
    BY <1>1, <1>3, PluginLedger
  <1>4. CASE Stop \/ LateEnds
    BY <1>4, EndLedger
  <1>5. CASE BootGcEvents \/ BootGcSessions \/ StrayGc
    BY <1>1, <1>5, GcLedger
  <1>6. CASE ThirtyDaysPass
    <2>1. PICK id \in Ids : /\ sessions[id].finished_at = "recent"
                            /\ sessions' = Expire(sessions, id)
      BY <1>6 DEF ThirtyDaysPass
    <2>2. events' = events /\ Pending' = Pending
      BY <1>6 DEF ThirtyDaysPass, Pending, Unapplied
    <2>3. Ledger!Age(id)
      BY <2>1, <2>2 DEF Ledger!Age, Ledger!Expire, Expire
    <2> QED
      BY <2>3 DEF Ledger!Next
  <1>7. CASE Forward \/ UNCHANGED vars
    BY <1>7 DEF Forward, vars, db, Ledger!vars, Pending, Unapplied
  <1> QED
    BY <1>2, <1>3, <1>4, <1>5, <1>6, <1>7 DEF Next

(* The handlers with their threads, their lost messages and their crashes   *)
(* implement the ledger: every UPDATE is authorised by what the table and   *)
(* the history hold when it runs, a report takes effect at most once and    *)
(* after its event row, and rows disappear only with their whole history   *)
(* and for good, also under handlers that outlive their daemon             *)
(* (mutate.rs, plugin_handlers.rs, daemon.rs Daemon::run and tombstone_gc). *)
THEOREM ImplementsLedger == Spec => LedgerKept
  <1>1. Init => Ledger!Init
    BY DEF Init, Ledger!Init, Pending, Unapplied, IdleConn, Ledger!NoRow, NoRow, Ledger!Nothing
  <1>2. IInv /\ [Next]_vars => [Ledger!Next]_(Ledger!vars)
    BY LedgerStep
  <1> QED
    BY <1>1, <1>2, IInvHolds, PTL DEF Spec, LedgerKept, Ledger!Spec
=============================================================================
