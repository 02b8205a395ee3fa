----------------------- MODULE OpencodeWatcherProofs -----------------------
(***************************************************************************)
(* Proofs about OpencodeWatcher, for every number of panes, every period   *)
(* of the loop's arms and every number of faults.                          *)
(***************************************************************************)
EXTENDS OpencodeWatcher, TLAPS

-----------------------------------------------------------------------------
(* Facts about slots and rows. *)

(* A slot either holds a session id and a status or is the empty one. *)
LEMMA SlotFacts ==
  ASSUME known \in [Panes -> Slots], NEW p \in Panes
  PROVE  /\ p \in Known => known[p].id \in Ids /\ known[p].status \in Told \cup {"starting"}
         /\ p \in Known <=> known[p].id # None
         /\ \A i \in Ids : known[p].id = i => p \in Known
  BY NoneAssumption DEF Known, Slots, NotKnown

(* What the statements on the table do, row by row. *)
LEMMA Updates ==
  ASSUME sessions \in [Ids -> Row], NEW id \in Ids
  PROVE  /\ \A s \in Statuses :
              LET u == UpdateStatus(sessions, id, s) IN
              /\ u \in [Ids -> Row]
              /\ \A j \in Ids : j # id => u[j] = sessions[j]
              /\ u[id].status = s /\ u[id].pane = sessions[id].pane
              /\ u[id].owner = sessions[id].owner
         /\ LET u == MarkFinished(sessions, id, "recent") IN
              /\ u \in [Ids -> Row]
              /\ \A j \in Ids : j # id => u[j] = sessions[j]
              /\ u[id].status = "finished" /\ u[id].pane = sessions[id].pane
              /\ u[id].owner = sessions[id].owner
  <1>1. ASSUME NEW s \in Statuses
        PROVE  LET u == UpdateStatus(sessions, id, s) IN
              /\ u \in [Ids -> Row]
              /\ \A j \in Ids : j # id => u[j] = sessions[j]
              /\ u[id].status = s /\ u[id].pane = sessions[id].pane
              /\ u[id].owner = sessions[id].owner
    BY DEF UpdateStatus, Row
  <1>2. LET u == MarkFinished(sessions, id, "recent") IN
              /\ u \in [Ids -> Row]
              /\ \A j \in Ids : j # id => u[j] = sessions[j]
              /\ u[id].status = "finished" /\ u[id].pane = sessions[id].pane
              /\ u[id].owner = sessions[id].owner
    <2>1. PICK r : r = [sessions[id] EXCEPT !.status = "finished", !.finished_at = "recent"]
      OBVIOUS
    <2>2. /\ r \in Row /\ r.status = "finished" /\ r.pane = sessions[id].pane
          /\ r.owner = sessions[id].owner
      BY <2>1 DEF Row, Statuses, Ages
    <2>3. MarkFinished(sessions, id, "recent") = [sessions EXCEPT ![id] = r]
      BY <2>1 DEF MarkFinished
    <2> QED
      BY <2>2, <2>3
  <1> QED
    BY <1>1, <1>2

(* The row a discover inserts. *)
LEMMA Inserts ==
  ASSUME sessions \in [Ids -> Row], NEW id \in Ids, NEW p \in Panes
  PROVE  LET u == Insert(sessions, id, NewRow(Plugin, p, Name)) IN
           /\ u \in [Ids -> Row]
           /\ \A j \in Ids : j # id => u[j] = sessions[j]
           /\ u[id].status = "starting" /\ u[id].pane = p /\ u[id].owner = Plugin
  <1>1. NewRow(Plugin, p, Name) \in Row
    BY PluginIsOne DEF NewRow, Row, Statuses
  <1> QED
    BY <1>1 DEF Insert, NewRow

(* A call that is made once is counted at most once. *)
LEMMA CallCount ==
  ASSUME faults \in 0..MaxFaults, CallOk \/ CallFails
  PROVE  faults' \in 0..MaxFaults
  BY Periods DEF CallOk, CallFails

(* With no fault yet no call can have failed. *)
LEMMA NoFaultNoFailure ==
  ASSUME faults \in 0..MaxFaults, faults = 0 => link, faults' = 0, CallOk \/ CallFails
  PROVE  faults = 0 /\ CallOk
  BY Periods DEF CallOk, CallFails

-----------------------------------------------------------------------------
(* Type correctness. *)

(* A discover fills a slot and a row of the right type. *)
LEMMA DiscoverType ==
  ASSUME TypeOK, NEW p \in Panes, Discover(p)
  PROVE  /\ sessions' \in [Ids -> Row] /\ known' \in [Panes -> Slots]
         /\ faults' \in 0..MaxFaults
  <1> USE DEF TypeOK
  <1>1. CallOk \/ CallFails
    BY DEF Discover
  <1>2. faults' \in 0..MaxFaults
    BY <1>1, CallCount
  <1>3. CASE UNCHANGED <<sessions, known>>
    BY <1>2, <1>3
  <1>4. CASE \E id \in Ids :
               /\ sessions' = Insert(sessions, id, NewRow(Plugin, p, Name))
               /\ known' = [known EXCEPT ![p] = [id |-> id, status |-> "starting"]]
    <2>1. PICK id \in Ids :
               /\ sessions' = Insert(sessions, id, NewRow(Plugin, p, Name))
               /\ known' = [known EXCEPT ![p] = [id |-> id, status |-> "starting"]]
      BY <1>4
    <2>2. [id |-> id, status |-> "starting"] \in Slots
      BY DEF Slots
    <2> QED
      BY <1>2, <2>1, <2>2, Inserts
  <1> QED
    BY <1>3, <1>4 DEF Discover

LEMMA TypeStep ==
  ASSUME TypeOK, StagesAgree, RowsBound, [Next]_vars
  PROVE  TypeOK'
  <1> USE DEF TypeOK, tmux, local
  <1>0. ASSUME NoBinary PROVE faults' \in 0..MaxFaults
    BY <1>0, Periods DEF NoBinary
  <1>1. CASE Scan
    BY <1>0, <1>1 DEF Scan
  <1>2. CASE Registered
    BY <1>2, Periods DEF Registered, Arms
  <1>3. CASE Sleep
    <2>1. timer' \in [Arms -> Nat] /\ \A a \in Arms : timer'[a] <= Every[a]
      BY <1>3, Periods DEF Sleep
    <2> QED
      BY <1>3, <2>1 DEF Sleep
  <1>4. CASE PollArm
    BY <1>4, Periods DEF PollArm, Fire, Arms
  <1>5. CASE Report
    <2>1. seen.pane \in Known /\ seen.pane \in Panes /\ seen.status \in Told
      BY <1>5 DEF Report, StagesAgree, Known
    <2>2. known[seen.pane].id \in Ids
      BY <2>1, SlotFacts
    <2>3. seen.status \in Statuses
      BY <2>1 DEF Told, Statuses
    <2>4. sessions' \in [Ids -> Row]
      BY <1>5, <2>2, <2>3, Updates DEF Report
    <2>5. [known[seen.pane] EXCEPT !.status = seen.status] \in Slots
      BY <2>1 DEF Slots, Known
    <2>6. known' \in [Panes -> Slots]
      BY <1>5, <2>1, <2>5 DEF Report
    <2>7. faults' \in 0..MaxFaults
      BY <1>5, CallCount DEF Report
    <2> QED
      BY <1>5, <2>4, <2>6, <2>7 DEF Report
  <1>6. CASE PollDone
    BY <1>6, Periods DEF PollDone, Select, Arms
  <1>7. CASE CheckArm
    <2>1. timer' \in [Arms -> Nat] /\ \A a \in Arms : timer'[a] <= Every[a]
      BY <1>7, Periods DEF CheckArm, Fire, Arms
    <2>2. todo' \subseteq Panes /\ found' \subseteq Panes
      BY <1>7 DEF CheckArm, Known
    <2> QED
      BY <1>0, <1>7, <2>1, <2>2 DEF CheckArm
  <1>8. CASE Finished
    BY <1>8 DEF Finished
  <1>9. CASE CheckDone
    BY <1>9, Periods DEF CheckDone, Select, Arms
  <1>10. CASE BeatArm
    BY <1>10, Periods DEF BeatArm, Fire, Arms
  <1>11. ASSUME NEW p \in Panes, Register(p) \/ DiscoverNew(p) PROVE TypeOK'
    <2>1. Discover(p)
      BY <1>11 DEF Register, DiscoverNew
    <2> QED
      BY <1>11, <2>1, DiscoverType DEF Register, DiscoverNew
  <1>12. ASSUME NEW p \in Panes, Capture(p) PROVE TypeOK'
    BY <1>0, <1>12 DEF Capture, Told
  <1>13. ASSUME NEW p \in Panes, FinishVanished(p) PROVE TypeOK'
    <2>1. known[p].id \in Ids
      BY <1>13, SlotFacts DEF FinishVanished, StagesAgree
    <2>2. sessions' \in [Ids -> Row]
      BY <1>13, <2>1, Updates DEF FinishVanished, Finish
    <2>3. faults' \in 0..MaxFaults
      BY <1>13, CallCount DEF FinishVanished
    <2>4. known' \in [Panes -> Slots]
      BY <1>13 DEF FinishVanished, Slots
    <2> QED
      BY <1>13, <2>2, <2>3, <2>4 DEF FinishVanished
  <1>14. ASSUME NEW p \in Panes, PaneChanges(p) \/ Prints(p) PROVE TypeOK'
    BY <1>14, PrintedTexts DEF PaneChanges, Prints, Told
  <1>15. ASSUME NEW id \in Ids, SessionKill(id) PROVE TypeOK'
    <2>1. sessions' \in [Ids -> Row]
      BY <1>15, Updates DEF SessionKill, Finish
    <2>2. cmd' = cmd \/ cmd' = [cmd EXCEPT ![sessions[id].pane] = "gone"]
      BY <1>15 DEF SessionKill
    <2>3. cmd' \in [Panes -> {"gone", "shell", "opencode", "wrapped"}]
      BY <2>2
    <2> QED
      BY <1>15, <2>1, <2>3 DEF SessionKill
  <1>16. ASSUME NEW id \in Ids, SessionDismiss(id) PROVE TypeOK'
    <2>1. sessions' \in [Ids -> Row]
      BY <1>16, Updates DEF SessionDismiss, Statuses
    <2> QED
      BY <1>16, <2>1 DEF SessionDismiss
  <1>17. CASE LinkLost
    <2>1. faults' \in 0..MaxFaults
      BY <1>17, Periods DEF LinkLost
    <2>2. link' \in BOOLEAN /\ UNCHANGED <<tmux, sessions, pc, local>>
      BY <1>17 DEF LinkLost
    <2> QED
      BY <2>1, <2>2
  <1>18. CASE Respawn
    <2>1. known' \in [Panes -> Slots] /\ faults' \in 0..MaxFaults
      BY <1>18, Periods DEF Respawn, Slots
    <2> QED
      BY <1>18, <2>1 DEF Respawn
  <1>19. CASE UNCHANGED vars
    BY <1>19 DEF vars
  <1> QED
    BY <1>1, <1>2, <1>3, <1>4, <1>5, <1>6, <1>7, <1>8, <1>9, <1>10, <1>11, <1>12, <1>13,
       <1>14, <1>15, <1>16, <1>17, <1>18, <1>19 DEF Next, Watch

-----------------------------------------------------------------------------
(* The stages of the loop. *)
LEMMA StagesStep ==
  ASSUME TypeOK, StagesAgree, [Next]_vars
  PROVE  StagesAgree'
  <1> USE DEF TypeOK, tmux, local, StagesAgree, Known
  <1>1. CASE Scan
    BY <1>1 DEF Scan
  <1>2. CASE Registered \/ Sleep \/ PollArm \/ PollDone \/ CheckDone \/ BeatArm
    BY <1>2 DEF Registered, Sleep, PollArm, PollDone, CheckDone, BeatArm, Fire, Select
  <1>3. CASE Report
    BY <1>3 DEF Report
  <1>4. CASE CheckArm \/ Finished
    BY <1>4 DEF CheckArm, Finished, Fire
  <1>5. ASSUME NEW p \in Panes, Register(p) \/ DiscoverNew(p) PROVE StagesAgree'
    <2>1. \A q \in Panes : q # p => known'[q] = known[q]
      BY <1>5 DEF Register, DiscoverNew, Discover
    <2> QED
      BY <1>5, <2>1 DEF Register, DiscoverNew
  <1>6. ASSUME NEW p \in Panes, Capture(p) PROVE StagesAgree'
    BY <1>6 DEF Capture
  <1>7. ASSUME NEW p \in Panes, FinishVanished(p) PROVE StagesAgree'
    BY <1>7 DEF FinishVanished
  <1>8. ASSUME NEW p \in Panes, PaneChanges(p) \/ Prints(p) PROVE StagesAgree'
    BY <1>8 DEF PaneChanges, Prints
  <1>9. ASSUME NEW id \in Ids, SessionKill(id) \/ SessionDismiss(id) PROVE StagesAgree'
    BY <1>9 DEF SessionKill, SessionDismiss
  <1>10. CASE LinkLost \/ Respawn
    BY <1>10 DEF LinkLost, Respawn
  <1>11. CASE UNCHANGED vars
    BY <1>11 DEF vars
  <1> QED
    BY <1>1, <1>2, <1>3, <1>4, <1>5, <1>6, <1>7, <1>8, <1>9, <1>10, <1>11 DEF Next, Watch

-----------------------------------------------------------------------------
(* The table and the slots. *)
Bindings ==
  /\ RowsBound /\ KnownBound /\ BeliefsHold /\ ActiveIsKnown
  /\ faults = 0 => link

LEMMA Strings == /\ "starting" \in Statuses /\ "starting" # "finished"
                 /\ "absent" \notin Statuses /\ "finished" \in Statuses
                 /\ "idle" \in Statuses /\ "idle" # "finished"
                 /\ \A s \in Told : s \in Statuses /\ s # "finished"
  BY DEF Statuses, Told

(* A discover binds a fresh row to a free pane, and the slot to that row.  *)
LEMMA DiscoverBinds ==
  ASSUME TypeOK, Bindings, NEW p \in Panes, Discover(p), link' = link
  PROVE  Bindings'
  <1> USE DEF TypeOK, Exists
  <1>1. CASE UNCHANGED <<sessions, known>>
    <2>1. CallOk \/ CallFails
      BY DEF Discover
    <2>2. faults' = 0 => faults = 0
      BY <2>1, NoFaultNoFailure DEF Bindings
    <2> QED
      BY <1>1, <2>2 DEF Bindings, RowsBound, KnownBound, BeliefsHold, ActiveIsKnown, Known,
         NonFinished
  <1>2. CASE /\ CallOk
             /\ BindingFree(sessions, p)
             /\ \E id \in Ids :
                  /\ sessions[id].status = "absent"
                  /\ sessions' = Insert(sessions, id, NewRow(Plugin, p, Name))
                  /\ known' = [known EXCEPT ![p] = [id |-> id, status |-> "starting"]]
    <2>1. PICK id \in Ids :
                  /\ sessions[id].status = "absent"
                  /\ sessions' = Insert(sessions, id, NewRow(Plugin, p, Name))
                  /\ known' = [known EXCEPT ![p] = [id |-> id, status |-> "starting"]]
      BY <1>2
    <2>2. /\ \A j \in Ids : j # id => sessions'[j] = sessions[j]
          /\ sessions'[id].status = "starting" /\ sessions'[id].pane = p
          /\ sessions'[id].owner = Plugin
          /\ sessions' \in [Ids -> Row]
      BY <2>1, Inserts
    <2>3. /\ \A q \in Panes : q # p => known'[q] = known[q]
          /\ known'[p].id = id /\ known'[p].status = "starting"
          /\ known' \in [Panes -> Slots]
      BY <2>1, DiscoverType
    <2>4. faults' = faults
      BY <1>2 DEF CallOk
    <2>5. \A j \in Ids : Exists(sessions, j) => j # id /\ sessions[j].pane # p
      BY <1>2, <2>1, Strings, NoneAssumption DEF BindingFree
    <2>6. RowsBound'
      BY <2>2, <2>5, Strings DEF Bindings, RowsBound
    <2>7. \A q \in Panes : q \in Known' => q = p \/ q \in Known
      BY <2>3 DEF Known
    <2>8. \A q \in Panes : q # p /\ q \in Known => known[q].id \in Ids /\ known[q].id # id
      BY <2>5, SlotFacts DEF Bindings, KnownBound
    <2>9. KnownBound'
      BY <2>2, <2>3, <2>7, <2>8, Strings DEF Bindings, KnownBound, Known
    <2>10. BeliefsHold'
      BY <2>2, <2>3, <2>4, <2>7, <2>8 DEF Bindings, BeliefsHold, Known
    <2>11. ActiveIsKnown'
      BY <2>2, <2>3, <2>4, <2>5 DEF Bindings, ActiveIsKnown, NonFinished, RowsBound
    <2> QED
      BY <2>4, <2>6, <2>9, <2>10, <2>11 DEF Bindings
  <1> QED
    BY <1>1, <1>2 DEF Discover

(* A status report reaches the row of its own pane.                        *)
LEMMA ReportBinds ==
  ASSUME TypeOK, StagesAgree, Bindings, Report
  PROVE  Bindings'
  <1> USE DEF TypeOK, Exists
  <1> DEFINE p == seen.pane
             id == known[p].id
  <1>1. p \in Known /\ p \in Panes /\ seen.status \in Told
    BY DEF Report, StagesAgree, Known
  <1>2. id \in Ids /\ Exists(sessions, id) /\ sessions[id].pane = p /\ sessions[id].owner = Plugin
    BY <1>1, SlotFacts DEF Bindings, KnownBound
  <1>3. /\ \A q \in Panes : q # p => known'[q] = known[q]
        /\ known'[p].id = id /\ known'[p].status = seen.status
    BY <1>1 DEF Report, Slots, Known
  <1>4. \A q \in Panes : q \in Known' => q \in Known
    BY <1>1, <1>3 DEF Known
  <1>5. \A q \in Panes : q # p /\ q \in Known => known[q].id \in Ids /\ known[q].id # id
    BY <1>2, SlotFacts DEF Bindings, KnownBound
  <1>6. faults' = 0 => faults = 0 /\ CallOk
    BY NoFaultNoFailure DEF Report, Bindings
  <1>7. link' = link
    BY DEF Report
  <1>8. CASE sessions' = sessions /\ CallFails
    <2>1. faults' # 0
      BY <1>6, <1>8 DEF CallOk, CallFails, Bindings
    <2>2. KnownBound'
      BY <1>3, <1>4, <1>8 DEF Bindings, KnownBound, Known
    <2> QED
      BY <1>8, <2>1, <2>2 DEF Bindings, RowsBound, BeliefsHold, ActiveIsKnown
  <1>9. CASE sessions' = UpdateStatus(sessions, id, seen.status)
    <2>1. /\ \A j \in Ids : j # id => sessions'[j] = sessions[j]
          /\ sessions'[id].status = seen.status /\ sessions'[id].pane = p
          /\ sessions'[id].owner = Plugin
          /\ sessions' \in [Ids -> Row]
      BY <1>1, <1>2, <1>9, Updates, Strings
    <2>2. RowsBound'
      BY <1>1, <1>2, <2>1 DEF Bindings, RowsBound
    <2>3. KnownBound'
      BY <1>1, <1>2, <1>3, <1>4, <1>5, <2>1, Strings DEF Bindings, KnownBound, Known
    <2>4. BeliefsHold'
      BY <1>1, <1>3, <1>4, <1>5, <1>6, <2>1 DEF Bindings, BeliefsHold, Known
    <2>5. ActiveIsKnown'
      BY <1>1, <1>2, <1>3, <1>6, <2>1 DEF Bindings, ActiveIsKnown, NonFinished, RowsBound
    <2> QED
      BY <1>6, <1>7, <2>2, <2>3, <2>4, <2>5 DEF Bindings
  <1> QED
    BY <1>8, <1>9 DEF Report

(* A vanished pane loses its slot, and its row is finished unless the call *)
(* failed.                                                                 *)
LEMMA FinishBinds ==
  ASSUME TypeOK, StagesAgree, Bindings, NEW p \in Panes, FinishVanished(p)
  PROVE  Bindings'
  <1> USE DEF TypeOK, Exists
  <1> DEFINE id == known[p].id
  <1>1. p \in Known
    BY DEF FinishVanished, StagesAgree
  <1>2. id \in Ids /\ Exists(sessions, id) /\ sessions[id].pane = p /\ sessions[id].owner = Plugin
    BY <1>1, SlotFacts DEF Bindings, KnownBound
  <1>3. /\ \A q \in Panes : q # p => known'[q] = known[q]
        /\ known'[p] = NotKnown
    BY DEF FinishVanished
  <1>4. \A q \in Panes : q \in Known' => q # p /\ q \in Known
    BY <1>1, <1>3 DEF Known
  <1>5. \A q \in Panes : q # p /\ q \in Known => known[q].id \in Ids /\ known[q].id # id
    BY <1>2, SlotFacts DEF Bindings, KnownBound
  <1>6. faults' = 0 => faults = 0 /\ CallOk
    BY NoFaultNoFailure DEF FinishVanished, Bindings
  <1>7. link' = link
    BY DEF FinishVanished
  <1>8. CASE sessions' = sessions /\ CallFails
    <2>1. faults' # 0
      BY <1>6, <1>8 DEF CallOk, CallFails, Bindings
    <2>2. KnownBound'
      BY <1>3, <1>4, <1>8 DEF Bindings, KnownBound, Known
    <2> QED
      BY <1>8, <2>1, <2>2 DEF Bindings, RowsBound, BeliefsHold, ActiveIsKnown
  <1>9. CASE sessions' = MarkFinished(sessions, id, "recent")
    <2>1. /\ \A j \in Ids : j # id => sessions'[j] = sessions[j]
          /\ sessions'[id].status = "finished" /\ sessions'[id].pane = p
          /\ sessions'[id].owner = Plugin
          /\ sessions' \in [Ids -> Row]
      BY <1>1, <1>2, <1>9, Updates, Strings
    <2>2. RowsBound'
      BY <1>1, <1>2, <2>1 DEF Bindings, RowsBound
    <2>3. KnownBound'
      BY <1>1, <1>2, <1>3, <1>4, <1>5, <2>1, Strings DEF Bindings, KnownBound, Known
    <2>4. BeliefsHold'
      BY <1>1, <1>3, <1>4, <1>5, <1>6, <2>1 DEF Bindings, BeliefsHold, Known
    <2>5. ActiveIsKnown'
      BY <1>1, <1>2, <1>3, <1>6, <2>1 DEF Bindings, ActiveIsKnown, NonFinished, RowsBound,
         IsTerminal
    <2> QED
      BY <1>6, <1>7, <2>2, <2>3, <2>4, <2>5 DEF Bindings
  <1> QED
    BY <1>8, <1>9 DEF FinishVanished, Finish

(* The user's kill and dismiss change the status of a row that is there.   *)
LEMMA UserBinds ==
  ASSUME TypeOK, Bindings, NEW id \in Ids, SessionKill(id) \/ SessionDismiss(id)
  PROVE  Bindings'
  <1> USE DEF TypeOK, Exists
  <1>1. Exists(sessions, id)
    BY DEF SessionKill, SessionDismiss, NonFinished, Statuses
  <1>2. known' = known /\ faults' = faults /\ link' = link
    BY DEF SessionKill, SessionDismiss, local
  <1>3. /\ \A j \in Ids : j # id => sessions'[j] = sessions[j]
        /\ \/ sessions'[id].status = "finished"
           \/ sessions'[id].status = "idle" /\ sessions[id].status = "errored"
        /\ sessions'[id].pane = sessions[id].pane
        /\ sessions'[id].owner = sessions[id].owner
        /\ sessions' \in [Ids -> Row]
    BY Updates, Strings DEF SessionKill, SessionDismiss, Finish
  <1>4. RowsBound'
    BY <1>1, <1>3 DEF Bindings, RowsBound
  <1>5. Known' = Known /\ \A q \in Known : known[q].id \in Ids
    BY <1>2, SlotFacts DEF Known
  <1>6. KnownBound'
    BY <1>2, <1>3, <1>5, Strings DEF Bindings, KnownBound
  <1>7. BeliefsHold'
    BY <1>2, <1>3, <1>5 DEF Bindings, BeliefsHold
  <1>8. ActiveIsKnown'
    BY <1>1, <1>2, <1>3 DEF Bindings, ActiveIsKnown, NonFinished, IsTerminal
  <1> QED
    BY <1>2, <1>4, <1>6, <1>7, <1>8 DEF Bindings

LEMMA BindingsStep ==
  ASSUME TypeOK, StagesAgree, Bindings, [Next]_vars
  PROVE  Bindings'
  <1>1. CASE /\ UNCHANGED <<sessions, known, link, faults>>
    BY <1>1 DEF Bindings, RowsBound, KnownBound, BeliefsHold, ActiveIsKnown, Known, NonFinished,
       Exists
  <1>0. CASE NoBinary /\ UNCHANGED <<sessions, known, link>>
    <2>1. faults' # 0
      BY <1>0 DEF NoBinary, TypeOK
    <2> QED
      BY <1>0, <2>1 DEF Bindings, RowsBound, KnownBound, BeliefsHold, ActiveIsKnown, Known, Exists
  <1>2. CASE Scan \/ Registered \/ Sleep \/ PollArm \/ PollDone \/ CheckArm \/ Finished
             \/ CheckDone \/ BeatArm
    BY <1>0, <1>1, <1>2 DEF Scan, Registered, Sleep, PollArm, PollDone, CheckArm, Finished,
       CheckDone, BeatArm
  <1>3. ASSUME NEW p \in Panes, Capture(p) \/ PaneChanges(p) \/ Prints(p) PROVE Bindings'
    BY <1>0, <1>1, <1>3 DEF Capture, PaneChanges, Prints, local
  <1>4. ASSUME NEW p \in Panes, Register(p) \/ DiscoverNew(p) PROVE Bindings'
    BY <1>4, DiscoverBinds DEF Register, DiscoverNew
  <1>5. CASE LinkLost \/ Respawn
    <2>1. faults' # 0 /\ sessions' = sessions
      BY <1>5 DEF LinkLost, Respawn, TypeOK
    <2>2. Known' \subseteq Known /\ \A p \in Known' : known'[p] = known[p]
      BY <1>5 DEF LinkLost, Respawn, Known, local
    <2> QED
      BY <2>1, <2>2 DEF Bindings, RowsBound, KnownBound, BeliefsHold, ActiveIsKnown, Exists
  <1>6. CASE UNCHANGED vars
    BY <1>1, <1>6 DEF vars, local
  <1> QED
    BY <1>2, <1>3, <1>4, <1>5, <1>6, ReportBinds, FinishBinds, UserBinds DEF Next, Watch

-----------------------------------------------------------------------------
LEMMA InitIInv == Init => IInv
  <1> SUFFICES ASSUME Init PROVE IInv
    OBVIOUS
  <1>1. NoRow("absent") \in Row
    BY DEF NoRow, Row
  <1>2. TypeOK
    BY <1>1, Periods DEF Init, TypeOK, Slots
  <1>3. Known = {}
    BY DEF Init, Known
  <1>4. \A id \in Ids : ~Exists(sessions, id)
    BY DEF Init, Exists, NoRow, Statuses
  <1> QED
    BY <1>2, <1>3, <1>4 DEF Init, IInv, RowsBound, StagesAgree, KnownBound, BeliefsHold,
       ActiveIsKnown, NonFinished

LEMMA IInvStep == IInv /\ [Next]_vars => IInv'
  BY TypeStep, StagesStep, BindingsStep DEF IInv, Bindings

(* The inductive invariant holds throughout, for any number of panes and   *)
(* any number of faults.                                                   *)
THEOREM IInvHolds == Spec => []IInv
  BY InitIInv, IInvStep, PTL DEF Spec

(* Type correctness of tmux, the daemon's rows and the loop's state.       *)
THEOREM TypeCorrect == Spec => []TypeOK
  <1>1. IInv => TypeOK
    BY DEF IInv
  <1> QED
    BY <1>1, IInvHolds, PTL

(* However panes vanish, come back and change hands, the id in a pane's    *)
(* slot is the id of the row that is bound to that pane (watcher.rs).      *)
THEOREM ReportsReachTheirPane == Spec => []KnownBound
  <1>1. IInv => KnownBound
    BY DEF IInv
  <1> QED
    BY <1>1, IInvHolds, PTL

(* While every call went through, the last status the loop remembers is    *)
(* the one of the row, save for a kill or a dismiss by the user.           *)
THEOREM BeliefsAreRight == Spec => []BeliefsHold
  <1>1. IInv => BeliefsHold
    BY DEF IInv
  <1> QED
    BY <1>1, IInvHolds, PTL

(* While every call went through and the plugin was not restarted, no      *)
(* active row is unknown to the loop.                                      *)
THEOREM NoSessionForgotten == Spec => []ActiveIsKnown
  <1>1. IInv => ActiveIsKnown
    BY DEF IInv
  <1> QED
    BY <1>1, IInvHolds, PTL
=============================================================================
