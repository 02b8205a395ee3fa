------------------------- MODULE TmuxSessionsProofs -------------------------
(***************************************************************************)
(* Proofs about TmuxSessions, for any threads, names, rows and panes and   *)
(* any number of failing commands and crashes.                             *)
(***************************************************************************)
EXTENDS TmuxSessions, TLAPS

-----------------------------------------------------------------------------
(* Moves of a thread. *)
Others(c) == \A d \in Callers \ {c} : job'[d] = job[d]

LEMMA StepMoves ==
  ASSUME job \in [Callers -> Job], NEW c \in Callers, NEW s \in Steps, Step(c, s)
  PROVE  /\ job' \in [Callers -> Job] /\ Others(c)
         /\ job'[c].step = s /\ job'[c].id = job[c].id /\ job'[c].name = job[c].name
         /\ job'[c].pane = job[c].pane /\ job'[c].made = job[c].made
  BY DEF Step, Job, Others

LEMMA ReturnMoves ==
  ASSUME job \in [Callers -> Job], NEW c \in Callers, Return(c)
  PROVE  /\ job' \in [Callers -> Job] /\ Others(c)
         /\ job'[c].step = "idle"
  BY DEF Return, Idle, Job, Others, Steps

LEMMA MadeMoves ==
  ASSUME job \in [Callers -> Job], NEW c \in Callers, NEW m \in Panes,
         job' = [job EXCEPT ![c].step = "list", ![c].made = m]
  PROVE  /\ job' \in [Callers -> Job] /\ Others(c)
         /\ job'[c].step = "list" /\ job'[c].id = job[c].id /\ job'[c].name = job[c].name
         /\ job'[c].pane = job[c].pane /\ job'[c].made = m
  BY DEF Job, Others, Steps

LEMMA FoundMoves ==
  ASSUME job \in [Callers -> Job], NEW c \in Callers, NEW m \in Panes,
         job' = [job EXCEPT ![c].step = "bind", ![c].pane = m]
  PROVE  /\ job' \in [Callers -> Job] /\ Others(c)
         /\ job'[c].step = "bind" /\ job'[c].id = job[c].id /\ job'[c].name = job[c].name
         /\ job'[c].pane = m /\ job'[c].made = job[c].made
  BY DEF Job, Others, Steps

LEMMA InsertMoves ==
  ASSUME job \in [Callers -> Job], NEW c \in Callers, NEW id \in Ids, NEW name \in Names,
         job' = [job EXCEPT ![c] = [Idle EXCEPT !.step = "new", !.id = id, !.name = name]]
  PROVE  /\ job' \in [Callers -> Job] /\ Others(c)
         /\ job'[c].step = "new" /\ job'[c].id = id /\ job'[c].name = name
  BY DEF Job, Others, Steps, Idle

LEMMA KillMoves ==
  ASSUME job \in [Callers -> Job], NEW c \in Callers, NEW id \in Ids, KillGet(c, id),
         sessions \in [Ids -> Row]
  PROVE  /\ job' \in [Callers -> Job] /\ Others(c)
         /\ job'[c].id = id
         /\ \/ job'[c].step = "mark"
            \/ /\ job'[c].step = "take" /\ job'[c].pane = sessions[id].pane
               /\ sessions[id].pane \in Panes /\ job'[c].name = job'[c].pane[1]
               /\ job'[c].name \in Names
  <1>1. CASE sessions[id].pane = None
    <2>1. job' = [job EXCEPT ![c] = [Idle EXCEPT !.step = "mark", !.id = id]]
      BY <1>1 DEF KillGet
    <2> QED
      BY <2>1 DEF Job, Others, Steps, Idle
  <1>2. CASE sessions[id].pane # None
    <2>1. PICK x \in Panes : x = sessions[id].pane
      BY <1>2 DEF Row
    <2>2. x[1] \in Names
      BY TmuxNames
    <2>3. job' = [job EXCEPT ![c] = [Idle EXCEPT !.step = "take", !.id = id, !.name = x[1], !.pane = x]]
      BY <1>2, <2>1 DEF KillGet
    <2> QED
      BY <2>1, <2>2, <2>3 DEF Job, Others, Steps, Idle
  <1> QED
    BY <1>1, <1>2

-----------------------------------------------------------------------------
(* Statements on the table. *)
LEMMA TableFacts ==
  ASSUME sessions \in [Ids -> Row], NEW id \in Ids
  PROVE  /\ \A x \in Panes :
              LET u == UpdateTmux(sessions, id, x) IN
              /\ u \in [Ids -> Row] /\ \A j \in Ids : j # id => u[j] = sessions[j]
              /\ u[id].pane = x /\ u[id].status = sessions[id].status
         /\ LET u == MarkFinished(sessions, id, "recent") IN
              /\ u \in [Ids -> Row] /\ \A j \in Ids : j # id => u[j] = sessions[j]
              /\ u[id].pane = sessions[id].pane /\ u[id].status = "finished"
         /\ LET u == DeleteRow(sessions, id) IN
              /\ u \in [Ids -> Row] /\ \A j \in Ids : j # id => u[j] = sessions[j]
              /\ u[id].status = "gone"
  <1>1. ASSUME NEW x \in Panes
        PROVE LET u == UpdateTmux(sessions, id, x) IN
              /\ u \in [Ids -> Row] /\ \A j \in Ids : j # id => u[j] = sessions[j]
              /\ u[id].pane = x /\ u[id].status = sessions[id].status
    BY DEF UpdateTmux, Row
  <1>2. LET u == MarkFinished(sessions, id, "recent") IN
              /\ u \in [Ids -> Row] /\ \A j \in Ids : j # id => u[j] = sessions[j]
              /\ u[id].pane = sessions[id].pane /\ u[id].status = "finished"
    BY DEF MarkFinished, Row, Statuses, Ages
  <1>3. LET u == DeleteRow(sessions, id) IN
              /\ u \in [Ids -> Row] /\ \A j \in Ids : j # id => u[j] = sessions[j]
              /\ u[id].status = "gone"
    <2>1. NoRow("gone") \in Row
      BY DEF NoRow, Row
    <2> QED
      BY <2>1 DEF DeleteRow, NoRow
  <1> QED
    BY <1>1, <1>2, <1>3

LEMMA InsertFacts ==
  ASSUME sessions \in [Ids -> Row], NEW id \in Ids, NEW p \in Plugins \cup {None},
         NEW x \in Panes \cup {None}, NEW n \in Names,
         sessions' = Insert(sessions, id, NewRow(p, x, n))
  PROVE  /\ sessions' \in [Ids -> Row] /\ \A j \in Ids : j # id => sessions'[j] = sessions[j]
         /\ sessions'[id].pane = x /\ sessions'[id].status = "starting"
  <1>1. NewRow(p, x, n) \in Row
    BY DEF NewRow, Row, Statuses
  <1> QED
    BY <1>1 DEF Insert, NewRow

LEMMA Strings ==
  /\ "starting" \in Statuses /\ "finished" \in Statuses
  /\ "absent" \notin Statuses /\ "gone" \notin Statuses
  /\ "idle" \in Steps /\ "list" \in Steps /\ "bind" \in Steps /\ "kill" \in Steps
  /\ "delete" \in Steps /\ "mark" \in Steps
  BY DEF Statuses, Steps

-----------------------------------------------------------------------------
(* tmux. *)

(* The number of a live pane is a number, and a pane is its name and its   *)
(* number.                                                                 *)
LEMMA PaneFacts ==
  ASSUME NEW x \in Panes
  PROVE  x = <<x[1], x[2]>> /\ x[1] \in Names /\ x[2] \in Numbers /\ x[2] # None /\ x # None
  <1>1. x \in Names \X Numbers
    BY TmuxNames
  <1> QED
    BY <1>1, NoneIsApart, NoneAssumption

LEMMA FaultCounted ==
  ASSUME faults \in 0..MaxFaults, Fault \/ NoFault
  PROVE  faults' \in 0..MaxFaults
  BY TmuxBounds DEF Fault, NoFault

(* Sessions that end take their names with them. *)
LEMMA RemoveFacts ==
  ASSUME TypeOK, NamesStored, NEW names, Remove(names)
  PROVE  live' \in [Names -> Numbers \cup {None}] /\ next' \in Nat /\ NamesStored'
  BY DEF TypeOK, NamesStored, Remove

(* A session is made under the name that tmux stores. *)
LEMMA MakeFacts ==
  ASSUME TypeOK, NamesStored, NEW name \in Names, CanMake(name), Make(name)
  PROVE  /\ live' \in [Names -> Numbers \cup {None}] /\ next' \in Nat /\ NamesStored'
         /\ <<Stored[name], next>> \in Panes
  <1>1. Stored[name] \in Names /\ Stored[Stored[name]] = Stored[name] /\ next \in Numbers
    BY TmuxNames DEF CanMake
  <1>2. live' = [live EXCEPT ![Stored[name]] = next] /\ next' = next + 1
    BY DEF Make
  <1>3. live' \in [Names -> Numbers \cup {None}] /\ next' \in Nat
    BY <1>1, <1>2 DEF TypeOK
  <1>4. NamesStored'
    BY <1>1, <1>2 DEF TypeOK, NamesStored
  <1>5. <<Stored[name], next>> \in Panes
    BY <1>1, TmuxNames
  <1> QED
    BY <1>3, <1>4, <1>5

(* A kill that goes by the name of the session it is for takes no other    *)
(* while that session is there.                                            *)
LEMMA KillFacts ==
  ASSUME TypeOK, NamesStored, KillsOwn, NEW m \in Panes, KillSession(m[1], m)
  PROVE  /\ live' \in [Names -> Numbers \cup {None}] /\ next' \in Nat /\ NamesStored'
         /\ faults' \in 0..MaxFaults /\ wrong' = FALSE
  <1>1. CASE NoFault /\ Remove(Target(m[1]))
    <2>1. ASSUME NEW n \in Target(m[1]), Live(m) PROVE <<n, live[n]>> = m
      <3>1. live[m[1]] = m[2] /\ live[m[1]] # None
        BY <2>1, PaneFacts DEF Live
      <3>2. n = m[1]
        BY <2>1, <3>1 DEF Target
      <3> QED
        BY <3>1, <3>2, PaneFacts
    <2>2. m # None
      BY PaneFacts
    <2>3. ~ \E n \in Target(m[1]) : <<n, live[n]>> # m /\ (m = None \/ Live(m))
      BY <2>1, <2>2
    <2>4. UNCHANGED wrong \/ wrong' = (wrong \/ \E n \in Target(m[1]) :
                                     <<n, live[n]>> # m /\ (m = None \/ Live(m)))
      BY DEF KillSession
    <2>5. wrong' = FALSE
      BY <2>3, <2>4 DEF KillsOwn, TypeOK
    <2> QED
      BY <1>1, <2>5, RemoveFacts, FaultCounted DEF TypeOK
  <1>2. CASE Fault /\ UNCHANGED <<tmux, wrong>>
    <2>1. faults' \in 0..MaxFaults
      BY <1>2, FaultCounted DEF TypeOK
    <2>2. wrong' = FALSE
      BY <1>2 DEF KillsOwn, TypeOK
    <2> QED
      BY <1>2, <2>1, <2>2 DEF TypeOK, NamesStored, tmux
  <1> QED
    BY <1>1, <1>2 DEF KillSession

-----------------------------------------------------------------------------
(* Threads and rows: a step that only moves a thread. *)
Rows == CreatorsHoldRows /\ OneRowAPane /\ Settled

LEMMA MoveKeepsRows ==
  ASSUME Rows, NEW c \in Callers, Others(c), UNCHANGED <<sessions, outcome>>,
         Creating(c)' => Creating(c) /\ job'[c].id = job[c].id
  PROVE  Rows'
  <1>1. \A d \in Callers : Creating(d)' => Creating(d) /\ job'[d].id = job[d].id
    BY DEF Others, Creating
  <1>2. CreatorsHoldRows'
    BY <1>1 DEF Rows, CreatorsHoldRows, Exists
  <1>3. OneRowAPane' /\ Settled'
    BY DEF Rows, OneRowAPane, Settled, Exists
  <1> QED
    BY <1>2, <1>3 DEF Rows

(* Marking a row that is there finished changes neither its pane nor the   *)
(* others.                                                                 *)
LEMMA MarkKeepsRows ==
  ASSUME TypeOK, Rows, NEW id \in Ids, Exists(sessions, id),
         sessions' = MarkFinished(sessions, id, "recent"), UNCHANGED outcome,
         \A d \in Callers : Creating(d)' => Creating(d) /\ job'[d].id = job[d].id,
         JobsAgree
  PROVE  Rows'
  <1>1. /\ \A j \in Ids : j # id => sessions'[j] = sessions[j]
        /\ sessions'[id].pane = sessions[id].pane /\ sessions'[id].status = "finished"
    BY TableFacts DEF TypeOK
  <1>2. \A j \in Ids : /\ Exists(sessions, j) <=> Exists(sessions, j)'
                       /\ sessions'[j].pane = sessions[j].pane
    BY <1>1, Strings DEF Exists
  <1>3. \A d \in Callers : Creating(d) => job[d].id \in Ids
    BY DEF JobsAgree, JobAgrees, Creating
  <1>4. CreatorsHoldRows'
    BY <1>2, <1>3 DEF Rows, CreatorsHoldRows
  <1>5. OneRowAPane'
    BY <1>2 DEF Rows, OneRowAPane
  <1>6. Settled'
    BY <1>1, <1>2, Strings DEF Rows, Settled, Exists
  <1> QED
    BY <1>4, <1>5, <1>6 DEF Rows

(* A fresh row under a pane that is free, or under none. *)
LEMMA InsertKeepsRows ==
  ASSUME TypeOK, Rows, JobsAgree, NEW id \in Ids, NEW p \in Plugins \cup {None},
         NEW x \in Panes \cup {None}, NEW n \in Names,
         sessions[id].status = "absent", BindingFree(sessions, x),
         sessions' = Insert(sessions, id, NewRow(p, x, n)), UNCHANGED outcome,
         \A d \in Callers : Creating(d)' =>
            \/ Creating(d) /\ job'[d].id = job[d].id
            \/ job'[d].id = id /\ \A e \in Callers \ {d} : job'[e] = job[e]
  PROVE  Rows'
  <1>1. /\ \A j \in Ids : j # id => sessions'[j] = sessions[j]
        /\ sessions'[id].pane = x /\ sessions'[id].status = "starting"
    <2>1. sessions \in [Ids -> Row]
      BY DEF TypeOK
    <2> QED
      BY <2>1, InsertFacts
  <1>2. ~Exists(sessions, id) /\ outcome[id] = None
    BY Strings, NoneIsApart DEF Exists, Rows, Settled, TypeOK
  <1>3. \A d \in Callers : Creating(d) =>
           job[d].id \in Ids /\ job[d].id # id /\ sessions'[job[d].id].status \in Statuses
    BY <1>1, <1>2 DEF JobsAgree, JobAgrees, Creating, Rows, CreatorsHoldRows, Exists
  <1>4. CreatorsHoldRows'
    <2> SUFFICES ASSUME NEW c \in Callers, Creating(c)'
                 PROVE  /\ Exists(sessions, job[c].id)' /\ outcome'[job'[c].id] = None
                        /\ \A d \in Callers : Creating(d)' /\ job'[d].id = job'[c].id => d = c
      BY DEF CreatorsHoldRows
    <2>1. CASE Creating(c) /\ job'[c].id = job[c].id
      <3>1. Exists(sessions, job[c].id)' /\ outcome'[job'[c].id] = None
        BY <1>3, <2>1 DEF Rows, CreatorsHoldRows, Exists
      <3>2. ASSUME NEW d \in Callers, Creating(d)', job'[d].id = job'[c].id PROVE d = c
        <4>1. Creating(d) /\ job'[d].id = job[d].id
          BY <1>3, <2>1, <3>2
        <4> QED
          BY <2>1, <3>2, <4>1 DEF Rows, CreatorsHoldRows
      <3> QED
        BY <3>1, <3>2
    <2>2. CASE job'[c].id = id /\ \A e \in Callers \ {c} : job'[e] = job[e]
      <3>1. Exists(sessions, job[c].id)' /\ outcome'[job'[c].id] = None
        BY <1>1, <1>2, <2>2, Strings DEF Exists
      <3>2. ASSUME NEW d \in Callers, d # c, Creating(d)' PROVE job'[d].id # id
        BY <1>3, <2>2, <3>2 DEF Creating
      <3> QED
        BY <2>2, <3>1, <3>2
    <2> QED
      BY <2>1, <2>2
  <1>5. OneRowAPane'
    <2>1. x # None => \A j \in Ids : Exists(sessions, j) => sessions[j].pane # x
      BY DEF BindingFree
    <2> QED
      BY <1>1, <1>2, <2>1 DEF Rows, OneRowAPane, Exists
  <1>6. Settled'
    BY <1>1, <1>2, NoneIsApart DEF Rows, Settled, Exists
  <1> QED
    BY <1>4, <1>5, <1>6 DEF Rows

(* A creation that succeeds binds its row to a free pane. *)
LEMMA BindKeepsRows ==
  ASSUME TypeOK, Rows, JobsAgree, NEW c \in Callers, job[c].step = "bind",
         BindingFree(sessions, job[c].pane),
         sessions' = UpdateTmux(sessions, job[c].id, job[c].pane),
         outcome' = [outcome EXCEPT ![job[c].id] = "ok"], Return(c)
  PROVE  Rows' /\ sessions' \in [Ids -> Row] /\ outcome' \in [Ids -> {None, "ok", "err", "leak"}]
  <1>1. PICK id : id = job[c].id
    OBVIOUS
  <1>2. PICK x : x = job[c].pane
    OBVIOUS
  <1>3. Creating(c)
    BY DEF Creating
  <1>4. id \in Ids /\ x \in Panes /\ x # None
    BY <1>1, <1>2 DEF JobsAgree, JobAgrees, TypeOK, Job
  <1>5. Exists(sessions, id) /\ outcome[id] = None
    BY <1>1, <1>3 DEF Rows, CreatorsHoldRows
  <1>6. /\ sessions' \in [Ids -> Row] /\ \A j \in Ids : j # id => sessions'[j] = sessions[j]
        /\ sessions'[id].pane = x /\ sessions'[id].status = sessions[id].status
    BY <1>1, <1>2, <1>4, TableFacts DEF TypeOK
  <1>7. /\ outcome' \in [Ids -> {None, "ok", "err", "leak"}]
        /\ outcome'[id] = "ok" /\ \A j \in Ids : j # id => outcome'[j] = outcome[j]
    BY <1>1, <1>4 DEF TypeOK
  <1>8. Others(c) /\ ~Creating(c)'
    BY ReturnMoves DEF TypeOK, Creating
  <1>9. \A d \in Callers : Creating(d)' =>
          /\ Creating(d) /\ job'[d].id = job[d].id /\ d # c
          /\ job[d].id \in Ids /\ job[d].id # id
    BY <1>1, <1>3, <1>8 DEF Others, Creating, Rows, CreatorsHoldRows, JobsAgree, JobAgrees
  <1>10. CreatorsHoldRows'
    BY <1>6, <1>7, <1>9 DEF Rows, CreatorsHoldRows, Exists
  <1>11. \A j \in Ids : Exists(sessions, j) => sessions[j].pane # x
    BY <1>2, <1>4 DEF BindingFree
  <1>12. OneRowAPane'
    BY <1>6, <1>11 DEF Rows, OneRowAPane, Exists
  <1>13. Settled'
    BY <1>4, <1>5, <1>6, <1>7 DEF Rows, Settled, Exists
  <1> QED
    BY <1>6, <1>7, <1>10, <1>12, <1>13 DEF Rows

(* A creation that fails takes its own row back. *)
LEMMA UndoKeepsRows ==
  ASSUME TypeOK, Rows, JobsAgree, NEW c \in Callers, CreateUndoRow(c)
  PROVE  Rows' /\ sessions' \in [Ids -> Row] /\ outcome' \in [Ids -> {None, "ok", "err", "leak"}]
  <1>1. PICK id : id = job[c].id
    OBVIOUS
  <1>2. PICK r \in {"err", "leak"} : outcome' = [outcome EXCEPT ![id] = r]
    BY <1>1 DEF CreateUndoRow
  <1>3. Creating(c) /\ id \in Ids
    BY <1>1 DEF CreateUndoRow, Creating, JobsAgree, JobAgrees
  <1>4. /\ sessions' \in [Ids -> Row] /\ \A j \in Ids : j # id => sessions'[j] = sessions[j]
        /\ sessions'[id].status = "gone"
    BY <1>1, <1>3, TableFacts DEF TypeOK, CreateUndoRow
  <1>5. /\ outcome' \in [Ids -> {None, "ok", "err", "leak"}]
        /\ outcome'[id] = r /\ \A j \in Ids : j # id => outcome'[j] = outcome[j]
    BY <1>2, <1>3 DEF TypeOK
  <1>6. Others(c) /\ ~Creating(c)'
    BY ReturnMoves DEF TypeOK, Creating, CreateUndoRow
  <1>7. \A d \in Callers : Creating(d)' =>
          /\ Creating(d) /\ job'[d].id = job[d].id /\ d # c
          /\ job[d].id \in Ids /\ job[d].id # id
    BY <1>1, <1>3, <1>6 DEF Others, Creating, Rows, CreatorsHoldRows, JobsAgree, JobAgrees
  <1>8. CreatorsHoldRows'
    BY <1>4, <1>5, <1>7 DEF Rows, CreatorsHoldRows, Exists
  <1>9. OneRowAPane'
    BY <1>4, Strings DEF Rows, OneRowAPane, Exists
  <1>10. Settled'
    BY <1>4, <1>5 DEF Rows, Settled, Exists
  <1> QED
    BY <1>4, <1>5, <1>8, <1>9, <1>10 DEF Rows

-----------------------------------------------------------------------------
(* One step per action. *)
LEMMA CreateSteps ==
  ASSUME IInv, NEW c \in Callers,
         CreateInsert(c) \/ CreateNew(c) \/ CreateList(c) \/ CreateBind(c)
  PROVE  IInv'
  <1>1. TypeOK /\ Rows /\ JobsAgree /\ NamesStored /\ KillsOwn
    BY DEF IInv, Rows
  <1>2. job \in [Callers -> Job] /\ JobAgrees(job[c])
    BY <1>1 DEF TypeOK, JobsAgree
  <1>3. ASSUME job' \in [Callers -> Job], Others(c), JobAgrees(job'[c])
        PROVE  JobsAgree'
    BY <1>1, <1>3 DEF Others, JobsAgree
  <1>4. CASE CreateInsert(c)
    <2>1. PICK id \in Ids, name \in Valid :
            /\ sessions[id].status = "absent"
            /\ sessions' = Insert(sessions, id, NewRow(None, None, name))
            /\ job' = [job EXCEPT ![c] = [Idle EXCEPT !.step = "new", !.id = id, !.name = name]]
      BY <1>4 DEF CreateInsert
    <2>2. name \in Names
      BY TmuxNames
    <2>3. /\ job' \in [Callers -> Job] /\ Others(c)
          /\ job'[c].step = "new" /\ job'[c].id = id /\ job'[c].name = name
      BY <1>2, <2>1, <2>2, InsertMoves
    <2>4. JobsAgree'
      BY <1>3, <2>2, <2>3 DEF JobAgrees
    <2>5. UNCHANGED <<tmux, outcome, wrong, faults>>
      BY <1>4 DEF CreateInsert
    <2>6. \A d \in Callers : Creating(d)' =>
            \/ Creating(d) /\ job'[d].id = job[d].id
            \/ job'[d].id = id /\ \A e \in Callers \ {d} : job'[e] = job[e]
      BY <2>3 DEF Others, Creating
    <2>7. BindingFree(sessions, None)
      BY DEF BindingFree
    <2>8. Rows'
      BY <1>1, <2>1, <2>2, <2>5, <2>6, <2>7, InsertKeepsRows
    <2>9. sessions' \in [Ids -> Row]
      BY <1>1, <2>1, <2>2, InsertFacts DEF TypeOK
    <2> QED
      BY <1>1, <2>3, <2>4, <2>5, <2>8, <2>9 DEF IInv, Rows, TypeOK, NamesStored, KillsOwn, tmux
  <1>5. CASE CreateNew(c)
    <2>1. UNCHANGED <<sessions, outcome, wrong>> /\ faults' \in 0..MaxFaults
      BY <1>1, <1>5, FaultCounted DEF CreateNew, TypeOK
    <2>2. job[c].step = "new" /\ job[c].name \in Names /\ job[c].id \in Ids /\ Creating(c)
      BY <1>2, <1>5 DEF CreateNew, JobAgrees, Creating
    <2>3. CASE /\ CanMake(job[c].name) /\ Make(job[c].name)
               /\ job' = [job EXCEPT ![c].step = "list", ![c].made = <<Stored[job[c].name], next>>]
      <3>1. PICK m : m = <<Stored[job[c].name], next>>
        OBVIOUS
      <3>2. /\ live' \in [Names -> Numbers \cup {None}] /\ next' \in Nat /\ NamesStored'
            /\ m \in Panes
        BY <1>1, <2>2, <2>3, <3>1, MakeFacts
      <3>3. /\ job' \in [Callers -> Job] /\ Others(c)
            /\ job'[c].step = "list" /\ job'[c].id = job[c].id /\ job'[c].name = job[c].name
            /\ job'[c].pane = job[c].pane /\ job'[c].made = m
        BY <1>2, <2>3, <3>1, <3>2, MadeMoves
      <3>4. m # None /\ m[1] = Stored[job[c].name]
        BY <3>1, <3>2, PaneFacts
      <3>5. JobsAgree'
        BY <1>3, <2>2, <3>3, <3>4 DEF JobAgrees
      <3>6. Rows'
        BY <1>1, <2>1, <2>2, <3>3, MoveKeepsRows
      <3> QED
        BY <1>1, <2>1, <3>2, <3>3, <3>5, <3>6 DEF IInv, Rows, TypeOK, KillsOwn
    <2>4. CASE Step(c, "delete") /\ UNCHANGED tmux
      <3>1. /\ job' \in [Callers -> Job] /\ Others(c)
            /\ job'[c].step = "delete" /\ job'[c].id = job[c].id /\ job'[c].name = job[c].name
        BY <1>2, <2>4, StepMoves, Strings
      <3>2. JobsAgree'
        BY <1>3, <2>2, <3>1 DEF JobAgrees
      <3>3. Rows'
        BY <1>1, <2>1, <2>2, <3>1, MoveKeepsRows
      <3> QED
        BY <1>1, <2>1, <2>4, <3>1, <3>2, <3>3 DEF IInv, Rows, TypeOK, KillsOwn, NamesStored, tmux
    <2> QED
      BY <1>5, <2>3, <2>4 DEF CreateNew
  <1>6. CASE CreateList(c)
    <2>1. UNCHANGED <<tmux, sessions, outcome, wrong>> /\ faults' \in 0..MaxFaults
      BY <1>1, <1>6, FaultCounted DEF CreateList, TypeOK
    <2>2. /\ job[c].step = "list" /\ job[c].name \in Names /\ job[c].id \in Ids /\ Creating(c)
          /\ job[c].made # None /\ job[c].made[1] = Stored[job[c].name]
      BY <1>2, <1>6 DEF CreateList, JobAgrees, Creating
    <2>3. CASE /\ live[job[c].name] # None
               /\ job' = [job EXCEPT ![c].step = "bind", ![c].pane = <<job[c].name, live[job[c].name]>>]
      <3>1. PICK m : m = <<job[c].name, live[job[c].name]>>
        OBVIOUS
      <3>2. m \in Panes /\ m # None
        BY <1>1, <2>2, <2>3, <3>1, TmuxNames, NoneAssumption DEF TypeOK
      <3>3. /\ job' \in [Callers -> Job] /\ Others(c)
            /\ job'[c].step = "bind" /\ job'[c].id = job[c].id /\ job'[c].name = job[c].name
            /\ job'[c].pane = m /\ job'[c].made = job[c].made
        BY <1>2, <2>3, <3>1, <3>2, FoundMoves
      <3>4. Stored[job[c].name] = job[c].name
        BY <1>1, <2>2, <2>3 DEF NamesStored
      <3>5. JobsAgree'
        BY <1>3, <2>2, <3>2, <3>3, <3>4 DEF JobAgrees
      <3>6. Rows'
        BY <1>1, <2>1, <2>2, <3>3, MoveKeepsRows
      <3> QED
        BY <1>1, <2>1, <3>3, <3>5, <3>6 DEF IInv, Rows, TypeOK, KillsOwn, NamesStored, tmux
    <2>4. CASE Step(c, "delete")
      <3>1. /\ job' \in [Callers -> Job] /\ Others(c)
            /\ job'[c].step = "delete" /\ job'[c].id = job[c].id /\ job'[c].name = job[c].name
        BY <1>2, <2>4, StepMoves, Strings
      <3>2. JobsAgree'
        BY <1>3, <2>2, <3>1 DEF JobAgrees
      <3>3. Rows'
        BY <1>1, <2>1, <2>2, <3>1, MoveKeepsRows
      <3> QED
        BY <1>1, <2>1, <3>1, <3>2, <3>3 DEF IInv, Rows, TypeOK, KillsOwn, NamesStored, tmux
    <2> QED
      BY <1>6, <2>3, <2>4 DEF CreateList
  <1>7. CASE CreateBind(c)
    <2>1. UNCHANGED <<tmux, wrong, faults>> /\ job[c].step = "bind"
      BY <1>7 DEF CreateBind
    <2>2. CASE BindingFree(sessions, job[c].pane)
      <3>1. /\ sessions' = UpdateTmux(sessions, job[c].id, job[c].pane)
            /\ outcome' = [outcome EXCEPT ![job[c].id] = "ok"]
            /\ Return(c)
        BY <1>7, <2>2 DEF CreateBind
      <3>2. /\ Rows' /\ sessions' \in [Ids -> Row]
            /\ outcome' \in [Ids -> {None, "ok", "err", "leak"}]
        BY <1>1, <2>1, <2>2, <3>1, BindKeepsRows
      <3>3. job' \in [Callers -> Job] /\ Others(c) /\ job'[c].step = "idle"
        BY <1>2, <3>1, ReturnMoves
      <3>4. JobsAgree'
        BY <1>3, <3>3 DEF JobAgrees
      <3> QED
        BY <1>1, <2>1, <3>2, <3>3, <3>4 DEF IInv, Rows, TypeOK, KillsOwn, NamesStored, tmux
    <2>3. CASE ~BindingFree(sessions, job[c].pane)
      <3>1. Step(c, "kill") /\ UNCHANGED <<sessions, outcome>>
        BY <1>7, <2>3 DEF CreateBind
      <3>2. /\ job' \in [Callers -> Job] /\ Others(c)
            /\ job'[c].step = "kill" /\ job'[c].id = job[c].id /\ job'[c].name = job[c].name
            /\ job'[c].made = job[c].made
        BY <1>2, <3>1, StepMoves, Strings
      <3>3. JobsAgree'
        BY <1>2, <1>3, <2>1, <3>2 DEF JobAgrees
      <3>4. Rows'
        BY <1>1, <2>1, <3>1, <3>2, MoveKeepsRows DEF Creating
      <3> QED
        BY <1>1, <2>1, <3>1, <3>2, <3>3, <3>4 DEF IInv, Rows, TypeOK, KillsOwn, NamesStored, tmux
    <2> QED
      BY <2>2, <2>3
  <1> QED
    BY <1>4, <1>5, <1>6, <1>7

(* A rollback and a kill go by the name of the session they are for. *)
LEMMA KillSteps ==
  ASSUME IInv, NEW c \in Callers,
         CreateUndoTmux(c) \/ CreateUndoRow(c) \/ KillTake(c) \/ KillMark(c)
           \/ (\E id \in Ids : KillGet(c, id))
  PROVE  IInv'
  <1>1. TypeOK /\ Rows /\ JobsAgree /\ NamesStored /\ KillsOwn
    BY DEF IInv, Rows
  <1>2. job \in [Callers -> Job] /\ JobAgrees(job[c])
    BY <1>1 DEF TypeOK, JobsAgree
  <1>3. ASSUME job' \in [Callers -> Job], Others(c), JobAgrees(job'[c])
        PROVE  JobsAgree'
    BY <1>1, <1>3 DEF Others, JobsAgree
  <1>4. CASE CreateUndoTmux(c)
    <2>1. UNCHANGED <<sessions, outcome>> /\ Step(c, "delete") /\ job[c].step = "kill"
      BY <1>4 DEF CreateUndoTmux
    <2>2. PICK m : m = job[c].made
      OBVIOUS
    <2>3. m \in Panes /\ m[1] = job[c].name /\ job[c].id \in Ids /\ job[c].name \in Names
      BY <1>2, <2>1, <2>2 DEF JobAgrees, Job
    <2>4. KillSession(m[1], m)
      BY <1>4, <2>2, <2>3 DEF CreateUndoTmux
    <2>5. /\ live' \in [Names -> Numbers \cup {None}] /\ next' \in Nat /\ NamesStored'
          /\ faults' \in 0..MaxFaults /\ wrong' = FALSE
      BY <1>1, <2>3, <2>4, KillFacts
    <2>6. /\ job' \in [Callers -> Job] /\ Others(c)
          /\ job'[c].step = "delete" /\ job'[c].id = job[c].id /\ job'[c].name = job[c].name
      BY <1>2, <2>1, StepMoves, Strings
    <2>7. JobsAgree'
      BY <1>3, <2>3, <2>6 DEF JobAgrees
    <2>8. Rows'
      BY <1>1, <2>1, <2>6, MoveKeepsRows DEF Creating
    <2> QED
      BY <1>1, <2>1, <2>5, <2>6, <2>7, <2>8 DEF IInv, Rows, TypeOK, KillsOwn
  <1>5. CASE CreateUndoRow(c)
    <2>1. UNCHANGED <<tmux, wrong, faults>> /\ Return(c)
      BY <1>5 DEF CreateUndoRow
    <2>2. /\ Rows' /\ sessions' \in [Ids -> Row]
          /\ outcome' \in [Ids -> {None, "ok", "err", "leak"}]
      BY <1>1, <1>5, UndoKeepsRows
    <2>3. job' \in [Callers -> Job] /\ Others(c) /\ job'[c].step = "idle"
      BY <1>2, <2>1, ReturnMoves
    <2>4. JobsAgree'
      BY <1>3, <2>3 DEF JobAgrees
    <2> QED
      BY <1>1, <2>1, <2>2, <2>3, <2>4 DEF IInv, Rows, TypeOK, KillsOwn, NamesStored, tmux
  <1>6. CASE KillTake(c)
    <2>1. UNCHANGED <<sessions, outcome>> /\ Step(c, "mark") /\ job[c].step = "take"
      BY <1>6 DEF KillTake
    <2>2. PICK m : m = job[c].pane
      OBVIOUS
    <2>3. m \in Panes /\ m[1] = job[c].name /\ job[c].id \in Ids
      BY <1>2, <2>1, <2>2 DEF JobAgrees, Job
    <2>4. KillSession(m[1], m)
      BY <1>6, <2>2, <2>3 DEF KillTake
    <2>5. /\ live' \in [Names -> Numbers \cup {None}] /\ next' \in Nat /\ NamesStored'
          /\ faults' \in 0..MaxFaults /\ wrong' = FALSE
      BY <1>1, <2>3, <2>4, KillFacts
    <2>6. /\ job' \in [Callers -> Job] /\ Others(c)
          /\ job'[c].step = "mark" /\ job'[c].id = job[c].id
      BY <1>2, <2>1, StepMoves, Strings
    <2>7. JobsAgree'
      BY <1>3, <2>3, <2>6 DEF JobAgrees
    <2>8. Rows'
      BY <1>1, <2>1, <2>6, MoveKeepsRows DEF Creating
    <2> QED
      BY <1>1, <2>1, <2>5, <2>6, <2>7, <2>8 DEF IInv, Rows, TypeOK, KillsOwn
  <1>7. CASE KillMark(c)
    <2>1. UNCHANGED <<tmux, outcome, wrong, faults>> /\ Return(c) /\ job[c].step = "mark"
      BY <1>7 DEF KillMark
    <2>2. job' \in [Callers -> Job] /\ Others(c) /\ job'[c].step = "idle"
      BY <1>2, <2>1, ReturnMoves
    <2>3. JobsAgree'
      BY <1>3, <2>2 DEF JobAgrees
    <2>4. PICK id : id = job[c].id
      OBVIOUS
    <2>5. id \in Ids
      BY <1>2, <2>1, <2>4 DEF JobAgrees
    <2>6. Rows' /\ sessions' \in [Ids -> Row]
      <3>1. CASE Exists(sessions, id)
        <4>1. sessions' = MarkFinished(sessions, id, "recent")
          BY <1>7, <2>4, <3>1 DEF KillMark
        <4>2. \A d \in Callers : Creating(d)' => Creating(d) /\ job'[d].id = job[d].id
          BY <2>2 DEF Others, Creating
        <4>3. Rows'
          BY <1>1, <2>1, <2>5, <3>1, <4>1, <4>2, MarkKeepsRows
        <4> QED
          BY <1>1, <2>5, <4>1, <4>3, TableFacts DEF TypeOK
      <3>2. CASE ~Exists(sessions, id)
        <4>1. UNCHANGED <<sessions, outcome>>
          BY <1>7, <2>4, <3>2 DEF KillMark
        <4>2. Rows'
          BY <1>1, <2>2, <4>1, MoveKeepsRows DEF Creating
        <4> QED
          BY <1>1, <4>1, <4>2 DEF TypeOK
      <3> QED
        BY <3>1, <3>2
    <2> QED
      BY <1>1, <2>1, <2>2, <2>3, <2>6 DEF IInv, Rows, TypeOK, KillsOwn, NamesStored, tmux
  <1>8. ASSUME NEW id \in Ids, KillGet(c, id) PROVE IInv'
    <2>1. UNCHANGED <<tmux, sessions, outcome, wrong, faults>>
      BY <1>8 DEF KillGet
    <2>2. /\ job' \in [Callers -> Job] /\ Others(c)
          /\ job'[c].id = id
          /\ \/ job'[c].step = "mark"
             \/ /\ job'[c].step = "take" /\ job'[c].pane = sessions[id].pane
                /\ sessions[id].pane \in Panes /\ job'[c].name = job'[c].pane[1]
                /\ job'[c].name \in Names
      BY <1>1, <1>2, <1>8, KillMoves DEF TypeOK
    <2>3. JobsAgree'
      BY <1>3, <2>2, NoneAssumption DEF JobAgrees
    <2>4. Rows'
      BY <1>1, <2>1, <2>2, MoveKeepsRows DEF Creating
    <2> QED
      BY <1>1, <2>1, <2>2, <2>3, <2>4 DEF IInv, Rows, TypeOK, KillsOwn, NamesStored, tmux
  <1> QED
    BY <1>4, <1>5, <1>6, <1>7, <1>8

(* The plugin, the user at tmux, and the death of the daemon. *)
LEMMA OtherSteps ==
  ASSUME IInv, PluginDiscovers \/ PluginFinishes \/ UserMakes \/ UserEnds \/ Crash
  PROVE  IInv'
  <1>1. TypeOK /\ Rows /\ JobsAgree /\ NamesStored /\ KillsOwn
    BY DEF IInv, Rows
  <1>2. CASE PluginDiscovers
    <2>1. PICK p \in Plugins, id \in Ids, n \in Names :
            /\ live[n] # None
            /\ sessions[id].status = "absent"
            /\ BindingFree(sessions, <<n, live[n]>>)
            /\ sessions' = Insert(sessions, id, NewRow(p, <<n, live[n]>>, n))
      BY <1>2 DEF PluginDiscovers
    <2>2. PICK x : x = <<n, live[n]>>
      OBVIOUS
    <2>3. x \in Panes
      BY <1>1, <2>1, <2>2, TmuxNames DEF TypeOK
    <2>4. UNCHANGED <<tmux, job, outcome, wrong, faults>>
      BY <1>2 DEF PluginDiscovers
    <2>5. Rows'
      BY <1>1, <2>1, <2>2, <2>3, <2>4, InsertKeepsRows DEF Creating
    <2>6. sessions' \in [Ids -> Row]
      BY <1>1, <2>1, <2>2, <2>3, InsertFacts DEF TypeOK
    <2> QED
      BY <1>1, <2>4, <2>5, <2>6 DEF IInv, Rows, TypeOK, KillsOwn, NamesStored, tmux, JobsAgree
  <1>3. CASE PluginFinishes
    <2>1. PICK id \in Ids : Exists(sessions, id) /\ sessions' = MarkFinished(sessions, id, "recent")
      BY <1>1, <1>3 DEF PluginFinishes, NonFinished, TypeOK
    <2>2. UNCHANGED <<tmux, job, outcome, wrong, faults>>
      BY <1>3 DEF PluginFinishes
    <2>3. Rows'
      BY <1>1, <2>1, <2>2, MarkKeepsRows DEF Creating
    <2>4. sessions' \in [Ids -> Row]
      BY <1>1, <2>1, TableFacts DEF TypeOK
    <2> QED
      BY <1>1, <2>2, <2>3, <2>4 DEF IInv, Rows, TypeOK, KillsOwn, NamesStored, tmux, JobsAgree
  <1>4. ASSUME live' \in [Names -> Numbers \cup {None}], next' \in Nat, NamesStored',
               UNCHANGED <<sessions, job, outcome, wrong, faults>>
        PROVE  IInv'
    <2>1. Rows'
      BY <1>1, <1>4 DEF Rows, CreatorsHoldRows, OneRowAPane, Settled, Creating, Exists
    <2> QED
      BY <1>1, <1>4, <2>1 DEF IInv, Rows, TypeOK, KillsOwn, JobsAgree
  <1>5. CASE UserMakes
    <2>1. PICK n \in Names : CanMake(n) /\ Make(n)
      BY <1>5 DEF UserMakes
    <2> QED
      BY <1>1, <1>4, <1>5, <2>1, MakeFacts DEF UserMakes
  <1>6. CASE UserEnds
    BY <1>1, <1>4, <1>6, RemoveFacts DEF UserEnds
  <1>7. CASE Crash
    <2>1. UNCHANGED <<tmux, sessions, outcome, wrong>> /\ faults' \in 0..MaxFaults
      BY <1>1, <1>7, FaultCounted DEF Crash, TypeOK
    <2>2. job' \in [Callers -> Job] /\ \A c \in Callers : job'[c].step = "idle"
      BY <1>7 DEF Crash, Idle, Job, Steps
    <2>3. JobsAgree' /\ CreatorsHoldRows'
      BY <2>2 DEF JobsAgree, JobAgrees, CreatorsHoldRows, Creating
    <2>4. OneRowAPane' /\ Settled'
      BY <1>1, <2>1 DEF Rows, OneRowAPane, Settled, Exists
    <2> QED
      BY <1>1, <2>1, <2>2, <2>3, <2>4 DEF IInv, TypeOK, KillsOwn, NamesStored, tmux
  <1> QED
    BY <1>2, <1>3, <1>5, <1>6, <1>7

-----------------------------------------------------------------------------
LEMMA InitIInv == Init => IInv
  <1> SUFFICES ASSUME Init PROVE IInv
    OBVIOUS
  <1>1. NoRow("absent") \in Row /\ Idle \in Job
    BY DEF NoRow, Row, Idle, Job, Steps
  <1>2. TypeOK
    <2>1. faults \in 0..MaxFaults /\ next \in Nat
      BY TmuxBounds DEF Init
    <2>2. wrong \in BOOLEAN
      BY DEF Init
    <2>3. /\ live \in [Names -> Numbers \cup {None}]
          /\ sessions \in [Ids -> Row]
          /\ job \in [Callers -> Job]
          /\ outcome \in [Ids -> {None, "ok", "err", "leak"}]
      BY <1>1 DEF Init
    <2> QED
      BY <2>1, <2>2, <2>3 DEF TypeOK
  <1>3. NamesStored /\ JobsAgree /\ CreatorsHoldRows
    BY DEF Init, NamesStored, JobsAgree, JobAgrees, CreatorsHoldRows, Creating, Idle
  <1>4. OneRowAPane
    BY Strings DEF Init, OneRowAPane, Exists, NoRow
  <1>5. Settled
    BY NoneIsApart DEF Init, Settled
  <1> QED
    BY <1>2, <1>3, <1>4, <1>5 DEF Init, IInv, KillsOwn

LEMMA IInvStep == IInv /\ [Next]_vars => IInv'
  <1> SUFFICES ASSUME IInv, [Next]_vars PROVE IInv'
    OBVIOUS
  <1>1. CASE UNCHANGED vars
    BY <1>1 DEF vars, tmux, IInv, TypeOK, NamesStored, JobsAgree, CreatorsHoldRows, Creating,
       OneRowAPane, Settled, Exists, KillsOwn
  <1> QED
    BY <1>1, CreateSteps, KillSteps, OtherSteps DEF Next, Work

(* The inductive invariant holds throughout, whatever the plugin, the user *)
(* at tmux and failing commands do between two steps of a thread.          *)
THEOREM IInvHolds == Spec => []IInv
  BY InitIInv, IInvStep, PTL DEF Spec

(* Type correctness of tmux, the table and the threads.                    *)
THEOREM TypeCorrect == Spec => []TypeOK
  <1>1. IInv => TypeOK
    BY DEF IInv
  <1> QED
    BY <1>1, IInvHolds, PTL

(* create_session takes place or leaves no row: a row whose creation       *)
(* failed is gone for good, one whose creation succeeded is bound to a     *)
(* pane of its own (session_create.rs).                                    *)
THEOREM CreationIsAtomic == Spec => []CreateAtomic
  <1>1. IInv => CreateAtomic
    <2> SUFFICES ASSUME IInv PROVE CreateAtomic
      OBVIOUS
    <2>1. \A id \in Ids : outcome[id] \in {"err", "leak"} => ~Exists(sessions, id)
      BY Strings DEF IInv, Settled, Exists
    <2>2. \A id \in Ids : outcome[id] = "ok" =>
            /\ Exists(sessions, id) /\ sessions[id].pane # None
            /\ \A o \in Ids \ {id} : Exists(sessions, o) => sessions[o].pane # sessions[id].pane
      BY DEF IInv, Settled, OneRowAPane
    <2> QED
      BY <2>1, <2>2 DEF CreateAtomic
  <1> QED
    BY <1>1, IInvHolds, PTL

(* Neither session.kill nor the rollback of a creation takes another tmux  *)
(* session than its own while that one is there, although both go by name  *)
(* and tmux takes the beginning of a name for the whole (tmux.rs).         *)
THEOREM KillsTakeTheirOwn == Spec => []KillsOwn
  <1>1. IInv => KillsOwn
    BY DEF IInv
  <1> QED
    BY <1>1, IInvHolds, PTL
=============================================================================
