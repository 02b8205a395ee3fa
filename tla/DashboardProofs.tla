-------------------------- MODULE DashboardProofs --------------------------
(***************************************************************************)
(* Proofs about Dashboard, for any sessions, listings and queries and any  *)
(* order of events and keys.                                               *)
(***************************************************************************)
EXTENDS Dashboard, SequenceTheorems, FiniteSetTheorems, TLAPS

-----------------------------------------------------------------------------
(* What an event does to the list. *)

ListOK ==
  /\ rows \in Seq(Rows) /\ selected \in Nat /\ flash \subseteq Ids
  /\ SelectionValid /\ RowsAgree

(* The index still names the session it named. *)
SameInFront == ~shifted' => ~shifted /\ SelectedSession' = SelectedSession

(* A step that replaces rows in place, keeping their ids. *)
LEMMA InPlace ==
  ASSUME ListOK, DOMAIN rows' = DOMAIN rows, rows' \in Seq(Rows),
         \A i \in DOMAIN rows : rows'[i].id = rows[i].id,
         selected' = selected, counters' = FromSessions(rows)',
         flash' \subseteq Ids, \A id \in flash' : id \in flash \/ Listed(id)
  PROVE  ListOK' /\ SelectedSession' = SelectedSession
  <1>1. Len(rows') = Len(rows) /\ Len(rows) \in Nat /\ DOMAIN rows = 1..Len(rows)
    BY LenProperties DEF ListOK
  <1>2. SelectionValid'
    BY <1>1 DEF ListOK, SelectionValid
  <1>3. RowsAgree'
    BY DEF ListOK, RowsAgree, Listed
  <1>4. SelectedSession' = SelectedSession
    <2>1. CASE selected < Len(rows)
      <3>1. selected + 1 \in DOMAIN rows
        BY <1>1, <2>1 DEF ListOK
      <3> QED
        BY <1>1, <2>1, <3>1 DEF SelectedSession
    <2>2. CASE ~(selected < Len(rows))
      BY <1>1, <2>2 DEF SelectedSession
    <2> QED
      BY <2>1, <2>2
  <1> QED
    BY <1>2, <1>3, <1>4 DEF ListOK

LEMMA StatusKeeps ==
  ASSUME ListOK, NEW id \in Ids, NEW s \in Statuses, RowStatus(id, s)
  PROVE  ListOK' /\ SelectedSession' = SelectedSession /\ shifted' = shifted
  <1>1. \A i \in DOMAIN rows : rows[i] \in Rows
    BY DEF ListOK
  <1>2. \A i \in DOMAIN rows : [rows[i] EXCEPT !.status = s] = [id |-> rows[i].id, status |-> s]
    BY <1>1 DEF Rows
  <1>3. rows' = [i \in DOMAIN rows |->
                   IF rows[i].id = id THEN [id |-> rows[i].id, status |-> s] ELSE rows[i]]
    BY <1>2 DEF RowStatus
  <1>4. /\ DOMAIN rows' = DOMAIN rows /\ \A i \in DOMAIN rows : rows'[i] \in Rows
        /\ \A i \in DOMAIN rows : rows'[i].id = rows[i].id
    BY <1>1, <1>3 DEF Rows
  <1>5. rows' \in Seq(Rows)
    <2>1. DOMAIN rows = 1..Len(rows) /\ Len(rows) \in Nat
      BY LenProperties DEF ListOK
    <2> QED
      BY <1>3, <1>4, <2>1, IsASeq
  <1> QED
    BY <1>4, <1>5, InPlace DEF RowStatus, ListOK

LEMMA ArrivesKeeps ==
  ASSUME ListOK, shifted \in BOOLEAN, NEW id \in Ids, NEW s \in Statuses, RowArrives(id, s)
  PROVE  ListOK' /\ SameInFront
  <1> DEFINE row == [id |-> id, status |-> s]
  <1>1. row \in Rows
    BY DEF Rows
  <1>2. Len(rows) \in Nat /\ DOMAIN rows = 1..Len(rows) /\ rows \in Seq(Rows)
    BY LenProperties DEF ListOK
  <1>3. CASE Listed(id)
    <2>1. rows' = [i \in DOMAIN rows |-> IF rows[i].id = id THEN row ELSE rows[i]]
      BY <1>3 DEF RowArrives
    <2>2. /\ DOMAIN rows' = DOMAIN rows /\ \A i \in DOMAIN rows : rows'[i] \in Rows
          /\ \A i \in DOMAIN rows : rows'[i].id = rows[i].id
      BY <1>1, <1>2, <2>1
    <2>3. rows' \in Seq(Rows)
      BY <1>2, <2>1, <2>2, IsASeq
    <2>4. flash' = flash /\ selected' = selected /\ counters' = FromSessions(rows)'
      BY <1>3 DEF RowArrives
    <2>5. ListOK' /\ SelectedSession' = SelectedSession
      BY <2>2, <2>3, <2>4, InPlace DEF ListOK
    <2>6. ~shifted' => ~shifted
      BY DEF RowArrives
    <2> QED
      BY <2>5, <2>6 DEF SameInFront
  <1>4. CASE ~Listed(id)
    <2>1. rows' = Append(rows, row) /\ flash' = flash \cup {id} /\ selected' = selected
      BY <1>4 DEF RowArrives
    <2>2. /\ rows' \in Seq(Rows) /\ Len(rows') = Len(rows) + 1
          /\ \A i \in 1..Len(rows) : rows'[i] = rows[i]
          /\ rows'[Len(rows) + 1] = row
      BY <1>1, <1>2, <2>1, AppendProperties
    <2>3. DOMAIN rows' = 1..(Len(rows) + 1)
      BY <2>2, LenProperties
    <2>4. SelectionValid'
      BY <1>2, <2>1, <2>2 DEF ListOK, SelectionValid
    <2>5. \A i, j \in DOMAIN rows' : rows'[i].id = rows'[j].id => i = j
      <3>1. \A i \in 1..Len(rows) : rows'[i].id # id
        BY <1>2, <1>4, <2>2 DEF Listed
      <3> QED
        BY <1>2, <2>2, <2>3, <3>1 DEF ListOK, RowsAgree
    <2>6. \A f \in flash' : \E i \in DOMAIN rows' : rows'[i].id = f
      BY <1>2, <2>1, <2>2, <2>3 DEF ListOK, RowsAgree, Listed
    <2>7. RowsAgree'
      BY <2>5, <2>6 DEF RowsAgree, Listed, RowArrives
    <2>8. ASSUME ~shifted' PROVE ~shifted /\ SelectedSession' = SelectedSession
      <3>1. ~shifted /\ rows # << >>
        BY <2>8 DEF RowArrives
      <3>2. selected < Len(rows)
        BY <3>1 DEF ListOK, SelectionValid
      <3> QED
        BY <1>2, <2>1, <2>2, <3>1, <3>2 DEF SelectedSession, ListOK
    <2> QED
      BY <2>1, <2>2, <2>4, <2>7, <2>8 DEF ListOK, SameInFront
  <1> QED
    BY <1>3, <1>4

(* Of a list without repetition one row leaves, and the index follows. *)
LEMMA LeavesKeeps ==
  ASSUME ListOK, shifted \in BOOLEAN, NEW id \in Ids, RowLeaves(id)
  PROVE  ListOK' /\ SameInFront
  <1>1. Len(rows) \in Nat /\ DOMAIN rows = 1..Len(rows) /\ rows \in Seq(Rows)
    BY LenProperties DEF ListOK
  <1>2. CASE ~Listed(id)
    <2>1. rows' = rows /\ flash' \subseteq flash
      BY <1>2 DEF RowLeaves, Without
    <2>2. selected' = selected
      <3>1. ~(selected >= Len(rows)) \/ rows = << >>
        BY <1>1 DEF ListOK, SelectionValid
      <3>2. selected' = IF selected >= Len(rows) /\ rows # << >> THEN Len(rows) - 1 ELSE selected
        BY <2>1 DEF RowLeaves
      <3> QED
        BY <3>1, <3>2
    <2>3. ListOK'
      BY <2>1, <2>2 DEF ListOK, SelectionValid, RowsAgree, Listed, RowLeaves
    <2>4. SameInFront
      BY <2>1, <2>2 DEF SameInFront, SelectedSession, RowLeaves
    <2> QED
      BY <2>3, <2>4
  <1>3. CASE Listed(id)
    <2>1. PICK k \in 1..Len(rows) :
            /\ rows[k].id = id
            /\ rows' = [i \in 1..(Len(rows) - 1) |-> rows[IF i < k THEN i ELSE i + 1]]
      BY <1>1, <1>3 DEF RowLeaves, Without, Listed
    <2>2. PICK n \in Nat : Len(rows) = n + 1
      <3>1. Len(rows) - 1 \in Nat /\ Len(rows) = (Len(rows) - 1) + 1
        BY <1>1, <2>1
      <3> QED
        BY <3>1
    <2>3. /\ \A i \in 1..n : i < k => rows'[i] = rows[i]
          /\ \A i \in 1..n : ~(i < k) => rows'[i] = rows[i + 1]
          /\ DOMAIN rows' = 1..n
      BY <1>1, <2>1, <2>2
    <2>4. \A i \in 1..n : rows'[i] \in Rows
      BY <1>1, <2>2, <2>3
    <2>5. rows' \in Seq(Rows) /\ Len(rows') = n
      <3>1. rows' = [i \in 1..n |-> rows'[i]]
        BY <2>1, <2>2
      <3>2. rows' \in Seq(Rows)
        BY <2>4, <3>1, IsASeq
      <3> QED
        BY <2>3, <3>2, LenProperties
    <2>6. selected < n + 1
      BY <1>1, <2>2 DEF ListOK, SelectionValid
    <2>7. selected' \in Nat /\ SelectionValid'
      <3>1. CASE n = 0
        <4>1. rows' = << >>
          BY <2>5, <3>1, EmptySeq
        <4> QED
          BY <2>6, <3>1, <4>1 DEF RowLeaves, SelectionValid, ListOK
      <3>2. CASE n # 0
        <4>1. rows' # << >>
          BY <2>5, <3>2, EmptySeq
        <4> QED
          BY <2>5, <2>6, <3>2, <4>1 DEF RowLeaves, SelectionValid, ListOK
      <3> QED
        BY <3>1, <3>2
    <2>8. \A i, j \in DOMAIN rows' : rows'[i].id = rows'[j].id => i = j
      BY SMTT(20), <1>1, <2>1, <2>2, <2>3 DEF ListOK, RowsAgree
    <2>9. \A f \in flash' : \E i \in DOMAIN rows' : rows'[i].id = f
      <3> SUFFICES ASSUME NEW f \in flash' PROVE \E i \in DOMAIN rows' : rows'[i].id = f
        OBVIOUS
      <3>1. f \in flash /\ f # id
        BY DEF RowLeaves
      <3>2. PICK j \in 1..Len(rows) : rows[j].id = f
        BY <1>1, <3>1 DEF ListOK, RowsAgree, Listed
      <3>3. CASE j < k
        BY <2>1, <2>2, <2>3, <3>2, <3>3
      <3>4. CASE k < j
        <4>1. j - 1 \in 1..n /\ ~(j - 1 < k) /\ (j - 1) + 1 = j
          BY <2>2, <3>2, <3>4
        <4> QED
          BY <2>3, <3>2, <4>1
      <3> QED
        BY <2>1, <3>1, <3>2, <3>3, <3>4
    <2>10. RowsAgree'
      BY <2>8, <2>9 DEF RowsAgree, Listed, RowLeaves
    <2>11. shifted' = TRUE
      BY <1>3 DEF RowLeaves
    <2> QED
      BY <2>5, <2>7, <2>10, <2>11 DEF ListOK, SameInFront, RowLeaves
  <1> QED
    BY <1>2, <1>3

-----------------------------------------------------------------------------
(* The flag. *)
LEMMA StaleOnly ==
  ASSUME StaleMarked, MarkStale, Visible' = Visible, dirty => dirty'
  PROVE  StaleMarked'
  BY DEF StaleMarked, MarkStale

(* An event, and the end of the drain. *)
LEMMA EventKeeps ==
  ASSUME IInv, ApplyEvent
  PROVE  IInv'
  <1>1. ListOK /\ shifted \in BOOLEAN
    BY DEF IInv, TypeOK, ListOK
  <1>2. ListOK' /\ SameInFront /\ shifted' \in BOOLEAN
    <2>1. ASSUME NEW id \in Ids, NEW s \in Seen, RowArrives(id, s)
          PROVE  ListOK' /\ SameInFront /\ shifted' \in BOOLEAN
      <3>1. s \in Statuses
        BY DashboardInputs
      <3>2. shifted' \in BOOLEAN
        BY <2>1 DEF RowArrives
      <3> QED
        BY <1>1, <2>1, <3>1, <3>2, ArrivesKeeps
    <2>2. ASSUME NEW id \in Ids, NEW s \in Seen, RowStatus(id, s)
          PROVE  ListOK' /\ SameInFront /\ shifted' \in BOOLEAN
      <3>1. s \in Statuses
        BY DashboardInputs
      <3> QED
        BY <1>1, <2>2, <3>1, StatusKeeps DEF SameInFront
    <2>3. ASSUME NEW id \in Ids, RowLeaves(id)
          PROVE  ListOK' /\ SameInFront /\ shifted' \in BOOLEAN
      <3>1. shifted' \in BOOLEAN
        BY <2>3 DEF RowLeaves
      <3> QED
        BY <1>1, <2>3, <3>1, LeavesKeeps
    <2>4. ASSUME NEW id \in Ids, RowText(id)
          PROVE  ListOK' /\ SameInFront /\ shifted' \in BOOLEAN
      BY <1>1, <2>4 DEF RowText, ListOK, SameInFront, SelectionValid, RowsAgree, Listed,
         SelectedSession
    <2>5. CASE NoRow
      BY <1>1, <2>5 DEF NoRow, body, ListOK, SameInFront, SelectionValid, RowsAgree, Listed,
         SelectedSession
    <2> QED
      BY <2>1, <2>2, <2>3, <2>4, <2>5 DEF ApplyEvent
  <1>3. /\ meant' = IF shifted' THEN None ELSE meant
        /\ dirty' = TRUE /\ UNCHANGED <<mode, loop, frame, request>> /\ loop = "events"
    BY DEF ApplyEvent
  <1>4. TypeOK'
    BY <1>2, <1>3 DEF IInv, TypeOK, ListOK
  <1>5. InFront'
    <2>1. ~shifted' => meant' = SelectedSession'
      BY <1>2, <1>3 DEF IInv, InFront, SameInFront
    <2> QED
      BY <1>3, <2>1 DEF InFront
  <1>6. ActsOnSelected' /\ StaleMarked'
    BY <1>3 DEF IInv, ActsOnSelected, StaleMarked
  <1> QED
    BY <1>2, <1>4, <1>5, <1>6 DEF IInv, ListOK

(* Steps that leave the list alone, or only take highlights away. *)
LEMMA ListStays ==
  ASSUME IInv, UNCHANGED <<rows, selected, counters>>, flash' \subseteq flash,
         shifted' = shifted, meant' = meant, loop' = "off" => loop = "off"
  PROVE  SelectionValid' /\ RowsAgree' /\ InFront'
  BY DEF IInv, SelectionValid, RowsAgree, Listed, InFront, SelectedSession

LEMMA LoopKeeps ==
  ASSUME IInv, EventsDone \/ Draw \/ NoKey \/ Answered \/ FramePasses \/ Resize
  PROVE  IInv'
  <1>1. CASE EventsDone
    <2>1. PICK expired \in SUBSET flash :
            flash' = flash \ expired /\ dirty' = (dirty \/ expired # {})
      BY <1>1 DEF EventsDone
    <2>2. UNCHANGED <<rows, selected, counters, mode, rename, new, frame, request, meant, shifted>>
      BY <1>1 DEF EventsDone, modals, history
    <2>3. loop' = "draw" /\ MarkStale
      BY <1>1 DEF EventsDone
    <2>4. TypeOK'
      BY <2>1, <2>2, <2>3 DEF IInv, TypeOK
    <2>5. SelectionValid' /\ RowsAgree' /\ InFront'
      BY <2>1, <2>2, <2>3, ListStays
    <2>6. StaleMarked'
      <3>1. CASE expired = {}
        <4>1. Visible' = Visible
          BY <2>1, <2>2, <3>1 DEF Visible
        <4> QED
          BY <2>1, <2>3, <4>1, StaleOnly DEF IInv
      <3>2. CASE expired # {}
        BY <2>1, <3>2 DEF StaleMarked
      <3> QED
        BY <3>1, <3>2
    <2>7. ActsOnSelected'
      BY <2>2 DEF IInv, ActsOnSelected
    <2> QED
      BY <2>4, <2>5, <2>6, <2>7 DEF IInv
  <1>2. CASE Draw
    <2>1. UNCHANGED <<rows, selected, counters, flash, mode, request>> /\ loop' = "keys"
      BY <1>2 DEF Draw, body
    <2>2. \/ /\ dirty' = FALSE /\ frame' = FALSE /\ stale' = {}
             /\ meant' = SelectedSession /\ shifted' = FALSE
          \/ UNCHANGED <<dirty, frame, stale, meant, shifted>>
      BY <1>2 DEF Draw, history
    <2>3. ActsOnSelected' /\ SelectionValid' /\ RowsAgree'
      BY <2>1 DEF IInv, ActsOnSelected, SelectionValid, RowsAgree, Listed
    <2>4. SelectedSession' = SelectedSession
      BY <2>1 DEF SelectedSession
    <2>5. SelectedSession \in Ids \cup {None}
      <3>1. Len(rows) \in Nat /\ DOMAIN rows = 1..Len(rows) /\ rows \in Seq(Rows)
        BY LenProperties DEF IInv, TypeOK
      <3>2. CASE selected < Len(rows)
        <4>1. rows[selected + 1] \in Rows
          BY <3>1, <3>2 DEF IInv, TypeOK
        <4> QED
          BY <3>2, <4>1 DEF SelectedSession, Rows
      <3>3. CASE ~(selected < Len(rows))
        BY <3>3 DEF SelectedSession
      <3> QED
        BY <3>2, <3>3
    <2>6. CASE /\ dirty' = FALSE /\ frame' = FALSE /\ stale' = {}
               /\ meant' = SelectedSession /\ shifted' = FALSE
      <3>1. TypeOK'
        BY <2>1, <2>5, <2>6 DEF IInv, TypeOK
      <3>2. InFront' /\ StaleMarked'
        BY <2>1, <2>4, <2>6 DEF InFront, StaleMarked
      <3> QED
        BY <2>3, <3>1, <3>2 DEF IInv
    <2>7. CASE UNCHANGED <<dirty, frame, stale, meant, shifted>>
      <3>1. TypeOK'
        BY <2>1, <2>7 DEF IInv, TypeOK
      <3>2. InFront' /\ StaleMarked'
        BY <2>1, <2>4, <2>7 DEF IInv, InFront, StaleMarked
      <3> QED
        BY <2>3, <3>1, <3>2 DEF IInv
    <2> QED
      BY <2>2, <2>6, <2>7
  <1>3. CASE NoKey \/ Answered \/ FramePasses
    <2>1. UNCHANGED <<rows, selected, counters, flash, dirty, mode, stale, meant, shifted>>
      BY <1>3 DEF NoKey, Answered, FramePasses, body, history
    <2>2. /\ loop' \in {"off", "events", "draw", "keys", "awaits"} /\ frame' \in BOOLEAN
          /\ loop' = "off" => loop = "off"
      BY <1>3 DEF NoKey, Answered, FramePasses, IInv, TypeOK
    <2>3. request' = request \/ request' = NoRequest
      BY <1>3 DEF NoKey, Answered, FramePasses
    <2>4. TypeOK'
      BY <2>1, <2>2 DEF IInv, TypeOK
    <2>5. SelectionValid' /\ RowsAgree' /\ InFront'
      BY <2>1, <2>2, ListStays
    <2>6. ActsOnSelected'
      BY <2>3 DEF IInv, ActsOnSelected, NoRequest
    <2>7. StaleMarked'
      BY <2>1 DEF IInv, StaleMarked
    <2> QED
      BY <2>4, <2>5, <2>6, <2>7 DEF IInv
  <1>4. CASE Resize
    <2>1. /\ UNCHANGED <<rows, selected, counters, flash, dirty, mode, frame, request, meant, shifted>>
          /\ loop' = "events" /\ stale' = stale \cup {"layout"}
      BY <1>4 DEF Resize, body, history
    <2>2. TypeOK'
      BY <2>1 DEF IInv, TypeOK
    <2>3. SelectionValid' /\ RowsAgree' /\ InFront'
      BY <2>1, ListStays
    <2>4. ActsOnSelected' /\ StaleMarked'
      BY <2>1 DEF IInv, ActsOnSelected, StaleMarked
    <2> QED
      BY <2>2, <2>3, <2>4 DEF IInv
  <1> QED
    BY <1>1, <1>2, <1>3, <1>4

(* Quit and Open start over. *)
LEMMA EndsKeep ==
  ASSUME IInv, Quit \/ Open
  PROVE  IInv'
  <1>1. CASE Quit
    <2>1. Len(<< >>) = 0 /\ << >> \in Seq(Rows)
      OBVIOUS
    <2>2. TypeOK'
      BY <1>1, <2>1 DEF Quit, TypeOK
    <2>3. SelectionValid' /\ RowsAgree'
      BY <1>1, <2>1 DEF Quit, SelectionValid, RowsAgree, Listed
    <2>4. InFront'
      BY <1>1, <2>1 DEF Quit, InFront, SelectedSession
    <2>5. ActsOnSelected' /\ StaleMarked'
      BY <1>1 DEF Quit, IInv, ActsOnSelected, StaleMarked
    <2> QED
      BY <2>2, <2>3, <2>4, <2>5 DEF IInv
  <1>2. CASE Open
    <2>1. /\ loop = "off" /\ rows' \in Snapshots /\ loop' = "events"
          /\ counters' = FromSessions(rows)' /\ dirty' = TRUE /\ frame' = TRUE /\ shifted' = TRUE
          /\ UNCHANGED <<selected, flash, mode, request, meant>>
      BY <1>2 DEF Open
    <2>2. selected' = 0 /\ flash' = {}
      BY <2>1 DEF IInv, InFront
    <2>3. PICK n \in Nat : rows' \in [1..n -> [id : Ids, status : Seen]]
      <3>1. Cardinality(Ids) \in Nat
        BY DashboardInputs, FS_CardinalityType
      <3> QED
        BY <2>1, <3>1 DEF Snapshots
    <2>4. [id : Ids, status : Seen] \subseteq Rows
      BY DashboardInputs DEF Rows
    <2>5. rows' \in [1..n -> Rows]
      BY <2>3, <2>4
    <2>6. rows' \in Seq(Rows) /\ Len(rows') \in Nat
      BY <2>5, LenProperties
    <2>7. TypeOK'
      BY <2>1, <2>2, <2>6 DEF IInv, TypeOK
    <2>8. SelectionValid'
      <3>1. CASE Len(rows') = 0
        BY <2>2, <2>6, <3>1, EmptySeq DEF SelectionValid
      <3>2. CASE Len(rows') # 0
        BY <2>2, <2>6, <3>2 DEF SelectionValid
      <3> QED
        BY <3>1, <3>2
    <2>9. RowsAgree'
      BY <2>1, <2>2 DEF RowsAgree, Snapshots
    <2>10. InFront' /\ ActsOnSelected' /\ StaleMarked'
      BY <2>1 DEF IInv, InFront, ActsOnSelected, StaleMarked
    <2> QED
      BY <2>7, <2>8, <2>9, <2>10 DEF IInv
  <1> QED
    BY <1>1, <1>2

(* Moving the selection stays in the list and takes the user along. *)
LEMMA MoveKeeps ==
  ASSUME IInv, KeyMove
  PROVE  IInv'
  <1>1. Len(rows) \in Nat /\ DOMAIN rows = 1..Len(rows) /\ rows \in Seq(Rows)
    BY LenProperties DEF IInv, TypeOK
  <1>2. /\ loop' = "events" /\ dirty' = TRUE
        /\ meant' = IF shifted \/ rows = << >> THEN None ELSE rows[selected' + 1].id
        /\ UNCHANGED <<rows, counters, flash, mode, frame, request, shifted>>
    BY DEF KeyMove
  <1>3. selected' \in Nat /\ SelectionValid'
    <2>1. \/ rows # << >> /\ selected' = IF selected + 1 < Len(rows) THEN selected + 1 ELSE Len(rows) - 1
          \/ selected' = IF selected > 0 THEN selected - 1 ELSE 0
          \/ selected' = 0
          \/ rows # << >> /\ selected' = Len(rows) - 1
      BY DEF KeyMove
    <2>2. CASE rows = << >>
      <3>1. selected = 0
        BY <2>2 DEF IInv, SelectionValid, TypeOK
      <3>2. selected' = 0
        BY <2>1, <2>2, <3>1
      <3> QED
        BY <1>2, <2>2, <3>2 DEF SelectionValid
    <2>3. CASE rows # << >>
      <3>1. selected \in Nat /\ selected < Len(rows)
        BY <2>3 DEF IInv, SelectionValid, TypeOK
      <3>2. selected' \in Nat /\ selected' < Len(rows)
        BY <1>1, <2>1, <3>1
      <3> QED
        BY <1>2, <3>2 DEF SelectionValid
    <2> QED
      BY <2>2, <2>3
  <1>4. rows # << >> => selected' < Len(rows) /\ rows[selected' + 1] \in Rows
    <2>1. rows # << >> => selected' < Len(rows)
      BY <1>2, <1>3 DEF SelectionValid
    <2>2. rows # << >> => selected' + 1 \in 1..Len(rows)
      <3>1. PICK n \in Nat : n = selected'
        BY <1>3
      <3>2. PICK l \in Nat : l = Len(rows)
        BY <1>1
      <3>3. n < l => n + 1 \in 1..l
        OBVIOUS
      <3> QED
        BY <2>1, <3>1, <3>2, <3>3
    <2> QED
      BY <1>1, <2>1, <2>2
  <1>5. TypeOK'
    <2>1. meant' \in Ids \cup {None}
      BY <1>2, <1>4 DEF Rows
    <2> QED
      BY <1>2, <1>3, <2>1 DEF IInv, TypeOK
  <1>6. InFront'
    <2>1. CASE rows = << >>
      BY <1>2, <1>3, <2>1 DEF InFront, SelectedSession, SelectionValid
    <2>2. CASE rows # << >>
      BY <1>2, <1>4, <2>2 DEF InFront, SelectedSession
    <2> QED
      BY <2>1, <2>2
  <1>7. RowsAgree' /\ ActsOnSelected' /\ StaleMarked'
    BY <1>2 DEF IInv, RowsAgree, Listed, ActsOnSelected, StaleMarked
  <1> QED
    BY <1>3, <1>5, <1>6, <1>7 DEF IInv

(* The other keys: the list stays, and either the flag is set or nothing   *)
(* but the help overlay changes.                                           *)
LEMMA OtherKeysKeep ==
  ASSUME IInv,
         \/ KeyAct \/ KeyIdle \/ KeyHelp \/ KeyRename \/ KeyNew
         \/ HelpClose \/ HelpIdle
         \/ RenameType \/ RenameCancel \/ RenameCommit
         \/ NewType \/ NewCancel \/ NewCommit
  PROVE  IInv'
  <1>1. ASSUME UNCHANGED <<rows, selected, counters, flash, meant, shifted, frame>>,
               loop' \in {"events", "awaits"},
               mode' \in {"normal", "help", "rename", "new"},
               dirty' \in BOOLEAN, StaleMarked', ActsOnSelected'
        PROVE  IInv'
    <2>1. TypeOK'
      BY <1>1 DEF IInv, TypeOK
    <2>2. SelectionValid' /\ RowsAgree' /\ InFront'
      BY <1>1, ListStays
    <2> QED
      BY <1>1, <2>1, <2>2 DEF IInv
  <1>2. ASSUME UNCHANGED <<body, history, frame, request>>, loop' = "events", dirty' = TRUE,
               mode' \in {"normal", "help", "rename", "new"}
        PROVE  IInv'
    BY <1>1, <1>2 DEF body, history, StaleMarked, ActsOnSelected, IInv
  <1>3. CASE KeyAct
    <2>1. PICK op \in {"session.jump", "session.kill"} : Call(op, SelectedSession, meant, shifted)
      BY <1>3 DEF KeyAct
    <2>2. UNCHANGED <<body, mode, frame, stale, history>>
      BY <1>3 DEF KeyAct
    <2>3. /\ request' = [op |-> op, arg |-> SelectedSession, meant |-> meant, unseen |-> shifted]
          /\ loop' = "awaits" /\ dirty' = TRUE
      BY <2>1 DEF Call
    <2>4. ActsOnSelected'
      BY <2>3 DEF ActsOnSelected, IInv, InFront
    <2>5. StaleMarked' /\ mode' \in {"normal", "help", "rename", "new"}
      BY <2>2, <2>3 DEF StaleMarked, IInv, TypeOK
    <2> QED
      BY <1>1, <2>2, <2>3, <2>4, <2>5 DEF body, history
  <1>4. CASE KeyIdle \/ KeyHelp \/ KeyRename \/ RenameType \/ RenameCancel
    BY <1>2, <1>4 DEF KeyIdle, KeyHelp, KeyRename, RenameType, RenameCancel, Key
  <1>5. CASE KeyNew \/ NewType \/ NewCancel
    <2>1. UNCHANGED <<body, history, frame, request>> /\ loop' = "events" /\ dirty' = TRUE
      BY <1>5 DEF KeyNew, NewType, NewCancel
    <2>2. mode' \in {"normal", "help", "rename", "new"}
      BY <1>5 DEF KeyNew, NewType, NewCancel, Key
    <2> QED
      BY <1>2, <2>1, <2>2
  <1>6. CASE HelpClose
    <2>1. /\ UNCHANGED <<body, dirty, modals, frame, request, history>> /\ MarkStale
          /\ mode = "help" /\ mode' = "normal" /\ loop' = "events"
      BY <1>6 DEF HelpClose, Key
    <2>2. Visible' = Visible
      BY <2>1 DEF Visible, body, modals
    <2>3. StaleMarked'
      BY <2>1, <2>2, StaleOnly DEF IInv
    <2> QED
      BY <1>1, <2>1, <2>3 DEF body, history, ActsOnSelected, IInv, TypeOK
  <1>7. CASE HelpIdle
    <2>1. UNCHANGED <<body, dirty, mode, frame, request, stale, history>> /\ loop' = "events"
      BY <1>7 DEF HelpIdle
    <2>2. StaleMarked' /\ ActsOnSelected'
      BY <2>1 DEF IInv, StaleMarked, ActsOnSelected
    <2> QED
      BY <1>1, <2>1, <2>2 DEF body, history, IInv, TypeOK
  <1>8. CASE RenameCommit
    <2>1. /\ request' = [op |-> "session.rename", arg |-> rename.id, meant |-> rename.id,
                         unseen |-> FALSE]
          /\ loop' = "awaits" /\ dirty' = TRUE /\ mode' = "normal"
          /\ UNCHANGED <<body, frame, history>>
      BY <1>8 DEF RenameCommit, Call
    <2>2. StaleMarked' /\ ActsOnSelected'
      BY <2>1 DEF StaleMarked, ActsOnSelected
    <2> QED
      BY <1>1, <2>1, <2>2 DEF body, history
  <1>9. CASE NewCommit
    <2>1. PICK a, m : Call("session.create", a, m, FALSE)
      BY <1>9 DEF NewCommit
    <2>2. /\ request' = [op |-> "session.create", arg |-> a, meant |-> m, unseen |-> FALSE]
          /\ loop' = "awaits" /\ dirty' = TRUE
      BY <2>1 DEF Call
    <2>3. mode' = "normal" /\ UNCHANGED <<body, frame, history>>
      BY <1>9 DEF NewCommit
    <2>4. StaleMarked' /\ ActsOnSelected'
      BY <2>2 DEF StaleMarked, ActsOnSelected
    <2> QED
      BY <1>1, <2>2, <2>3, <2>4 DEF body, history
  <1> QED
    BY <1>3, <1>4, <1>5, <1>6, <1>7, <1>8, <1>9

-----------------------------------------------------------------------------
(* Sorting: a finite set in the order of a relation. *)

(* A strict total order, as a set of pairs, of the elements of S. *)
Orders(R, S) ==
  /\ \A x \in S : <<x, x>> \notin R
  /\ \A x, y, z \in S : <<x, y>> \in R /\ <<y, z>> \in R => <<x, z>> \in R
  /\ \A x, y \in S : x # y => <<x, y>> \in R \/ <<y, x>> \in R

Ahead(R, S, x) == {y \in S : <<y, x>> \in R}

Rank(R, S) == [x \in S |-> Cardinality(Ahead(R, S, x))]

LEMMA RankGrows ==
  ASSUME NEW S, IsFiniteSet(S), NEW R, Orders(R, S), NEW x \in S, NEW y \in S, <<x, y>> \in R
  PROVE  Rank(R, S)[x] < Rank(R, S)[y]
  <1>1. Ahead(R, S, x) \subseteq Ahead(R, S, y) /\ Ahead(R, S, y) \subseteq S
    BY DEF Orders, Ahead
  <1>2. IsFiniteSet(Ahead(R, S, y))
    BY <1>1, FS_Subset
  <1>3. x \in Ahead(R, S, y) /\ x \notin Ahead(R, S, x)
    BY DEF Orders, Ahead
  <1>4. /\ Cardinality(Ahead(R, S, x)) <= Cardinality(Ahead(R, S, y))
        /\ Cardinality(Ahead(R, S, x)) # Cardinality(Ahead(R, S, y))
        /\ IsFiniteSet(Ahead(R, S, x))
    <2>1. Ahead(R, S, x) \in SUBSET Ahead(R, S, y) /\ Ahead(R, S, x) # Ahead(R, S, y)
      BY <1>1, <1>3
    <2> QED
      BY <1>2, <2>1, FS_Subset
  <1>5. Cardinality(Ahead(R, S, x)) \in Nat /\ Cardinality(Ahead(R, S, y)) \in Nat
    BY <1>2, <1>4, FS_CardinalityType
  <1> QED
    BY <1>4, <1>5 DEF Rank

(* Every place is taken: the ranks are different and there are as many as elements. *)
LEMMA RankOnto ==
  ASSUME NEW S, IsFiniteSet(S), NEW R, Orders(R, S), NEW k \in Nat, k < Cardinality(S)
  PROVE  \E x \in S : Rank(R, S)[x] = k
  <1> DEFINE n == Cardinality(S)
             f == Rank(R, S)
  <1>1. n \in Nat
    BY FS_CardinalityType
  <1>2. \A x \in S : f[x] \in 0..(n - 1)
    <2> TAKE x \in S
    <2>1. Ahead(R, S, x) \in SUBSET S /\ x \notin Ahead(R, S, x)
      BY DEF Orders, Ahead
    <2>2. /\ Cardinality(Ahead(R, S, x)) <= n /\ Cardinality(Ahead(R, S, x)) # n
          /\ IsFiniteSet(Ahead(R, S, x))
      BY <2>1, FS_Subset
    <2>3. Cardinality(Ahead(R, S, x)) \in Nat
      BY <2>2, FS_CardinalityType
    <2> HIDE DEF n
    <2> QED
      BY <1>1, <2>2, <2>3 DEF Rank
  <1>3. \A x, y \in S : f[x] = f[y] => x = y
    <2> SUFFICES ASSUME NEW x \in S, NEW y \in S, f[x] = f[y], x # y PROVE FALSE
      OBVIOUS
    <2>1. f[x] \in Int /\ f[y] \in Int
      BY <1>2
    <2>2. f[x] < f[y] \/ f[y] < f[x]
      BY RankGrows DEF Orders
    <2> QED
      BY <2>1, <2>2
  <1>4. f \in [S -> 0..(n - 1)]
    BY <1>2 DEF Rank
  <1>5. f \in Injection(S, 0..(n - 1))
    BY <1>3, <1>4 DEF Injection, IsInjective
  <1>6. IsFiniteSet(0..(n - 1)) /\ Cardinality(0..(n - 1)) = n
    <2> HIDE DEF n
    <2>1. n - 1 \in Int /\ 0 \in Int
      BY <1>1
    <2>2. /\ IsFiniteSet(0..(n - 1))
          /\ Cardinality(0..(n - 1)) = IF 0 > n - 1 THEN 0 ELSE n - 1 - 0 + 1
      BY <2>1, FS_Interval
    <2> QED
      BY <1>1, <2>2
  <1>7. f \in Surjection(S, 0..(n - 1))
    BY <1>5, <1>6, FS_Injection
  <1> QED
    BY <1>1, <1>7 DEF Surjection

(* A non-empty finite set has a first element. *)
LEMMA FirstExists ==
  ASSUME NEW S, IsFiniteSet(S), S # {}, NEW R, Orders(R, S)
  PROVE  \E x \in S : \A y \in S : y # x => <<x, y>> \in R
  <1>1. Cardinality(S) \in Nat /\ Cardinality(S) # 0
    BY FS_CardinalityType, FS_EmptySet
  <1>2. PICK x \in S : Rank(R, S)[x] = 0
    BY <1>1, RankOnto
  <1>3. IsFiniteSet(Ahead(R, S, x))
    <2>1. Ahead(R, S, x) \in SUBSET S
      BY DEF Ahead
    <2> QED
      BY <2>1, FS_Subset
  <1>4. Ahead(R, S, x) = {}
    BY <1>2, <1>3, FS_EmptySet DEF Rank
  <1> QED
    BY <1>4 DEF Ahead, Orders

InOrder(R, s, n) == \A i, j \in 1..n : i < j => <<s[i], s[j]>> \in R

LEMMA SortExists ==
  ASSUME NEW S, IsFiniteSet(S), NEW R, Orders(R, S)
  PROVE  \E s \in [1..Cardinality(S) -> S] : InOrder(R, s, Cardinality(S))
  <1> DEFINE n == Cardinality(S)
             s == [i \in 1..n |-> CHOOSE x \in S : Rank(R, S)[x] = i - 1]
  <1>1. n \in Nat
    BY FS_CardinalityType
  <1>2. \A i \in 1..n : s[i] \in S /\ Rank(R, S)[s[i]] = i - 1
    <2> TAKE i \in 1..n
    <2>1. i - 1 \in Nat /\ i - 1 < n
      BY <1>1
    <2>2. \E x \in S : Rank(R, S)[x] = i - 1
      BY <2>1, RankOnto
    <2> QED
      BY <2>2
  <1>3. s \in [1..n -> S]
    BY <1>2
  <1> HIDE DEF s
  <1>4. InOrder(R, s, n)
    <2> SUFFICES ASSUME NEW i \in 1..n, NEW j \in 1..n, i < j PROVE <<s[i], s[j]>> \in R
      BY DEF InOrder
    <2>1. Rank(R, S)[s[i]] < Rank(R, S)[s[j]] /\ ~(Rank(R, S)[s[j]] < Rank(R, S)[s[i]])
      BY <1>2
    <2>2. s[i] # s[j]
      BY <2>1
    <2>3. <<s[j], s[i]>> \notin R
      BY <1>2, <2>1, RankGrows
    <2> QED
      BY <1>2, <2>2, <2>3 DEF Orders
  <1> QED
    BY <1>3, <1>4

(* A sorted list has no element twice, and every one. *)
LEMMA SortedOnce ==
  ASSUME NEW S, NEW R, Orders(R, S), NEW n, NEW s \in [1..n -> S], InOrder(R, s, n),
         n \in Nat, NEW i \in 1..n, NEW j \in 1..n, s[i] = s[j]
  PROVE  i = j
  <1> SUFFICES ASSUME i # j PROVE FALSE
    OBVIOUS
  <1>1. i < j \/ j < i
    OBVIOUS
  <1>2. <<s[i], s[j]>> \in R \/ <<s[j], s[i]>> \in R
    BY <1>1 DEF InOrder
  <1> QED
    BY <1>2 DEF Orders

LEMMA SortedOnto ==
  ASSUME NEW S, IsFiniteSet(S), NEW R, Orders(R, S),
         NEW s \in [1..Cardinality(S) -> S], InOrder(R, s, Cardinality(S)),
         NEW x \in S
  PROVE  \E i \in 1..Cardinality(S) : s[i] = x
  <1> DEFINE n == Cardinality(S)
  <1>1. n \in Nat
    BY FS_CardinalityType
  <1>2. \A i, j \in 1..n : s[i] = s[j] => i = j
    BY <1>1, SortedOnce
  <1>3. s \in Injection(1..n, S)
    BY <1>2 DEF Injection, IsInjective
  <1>4. IsFiniteSet(1..n) /\ Cardinality(1..n) = n
    BY <1>1, FS_Interval
  <1>5. s \in Surjection(1..n, S)
    BY <1>3, <1>4, FS_Injection
  <1> QED
    BY <1>5 DEF Surjection

(* As many are ahead of an element as its place says. *)
LEMMA SortedRank ==
  ASSUME NEW S, IsFiniteSet(S), NEW R, Orders(R, S),
         NEW s \in [1..Cardinality(S) -> S], InOrder(R, s, Cardinality(S)),
         NEW i \in 1..Cardinality(S)
  PROVE  Cardinality(Ahead(R, S, s[i])) = i - 1
  <1> DEFINE n == Cardinality(S)
  <1>0. /\ n \in Nat
        /\ \A x \in S : \E j \in 1..n : s[j] = x
        /\ \A j, k \in 1..n : s[j] = s[k] => j = k
    <2>1. n \in Nat
      BY FS_CardinalityType
    <2>2. \A x \in S : \E j \in 1..n : s[j] = x
      BY SortedOnto
    <2>3. \A j, k \in 1..n : s[j] = s[k] => j = k
      BY <2>1, SortedOnce
    <2> QED
      BY <2>1, <2>2, <2>3
  <1> DEFINE T == Ahead(R, S, s[i])
             f == [j \in 1..(i - 1) |-> s[j]]
  <1>1. \A j \in 1..(i - 1) : j \in 1..n /\ j < i
    BY <1>0
  <1>2. \A j \in 1..(i - 1) : f[j] \in T
    BY <1>1 DEF InOrder, Ahead
  <1>3. \A x \in T : \E j \in 1..(i - 1) : f[j] = x
    <2> TAKE x \in T
    <2>1. x \in S /\ <<x, s[i]>> \in R
      BY DEF Ahead
    <2>2. PICK j \in 1..n : s[j] = x
      BY <1>0, <2>1
    <2>3. ~(i < j) /\ i # j
      BY <2>1, <2>2 DEF InOrder, Orders
    <2>4. j \in 1..(i - 1)
      BY <2>2, <2>3
    <2> QED
      BY <2>2, <2>4
  <1>4. f \in Bijection(1..(i - 1), T)
    <2>1. f \in [1..(i - 1) -> T]
      BY <1>2
    <2>2. f \in Injection(1..(i - 1), T)
      BY <1>0, <1>1, <2>1 DEF Injection, IsInjective
    <2>3. f \in Surjection(1..(i - 1), T)
      BY <1>3, <2>1 DEF Surjection
    <2> QED
      BY <2>2, <2>3 DEF Bijection
  <1>5. IsFiniteSet(1..(i - 1)) /\ Cardinality(1..(i - 1)) = i - 1
    BY FS_Interval
  <1>6. ExistsBijection(1..(i - 1), T)
    BY <1>4 DEF ExistsBijection
  <1> QED
    BY <1>5, <1>6, FS_Bijection
LEMMA NatMin ==
  ASSUME NEW T \in SUBSET Nat, IsFiniteSet(T), T # {}
  PROVE  \E t \in T : \A u \in T : t <= u
  <1> DEFINE R == {p \in T \X T : p[1] < p[2]}
  <1>1. \A x, y \in T : <<x, y>> \in R <=> x < y
    OBVIOUS
  <1> HIDE DEF R
  <1>2. Orders(R, T)
    BY <1>1 DEF Orders
  <1>3. PICK t \in T : \A u \in T : u # t => <<t, u>> \in R
    BY <1>2, FirstExists
  <1>4. \A u \in T : t <= u
    <2> TAKE u \in T
    <2>1. t \in Nat /\ u \in Nat
      OBVIOUS
    <2>2. u # t => t < u
      BY <1>1, <1>3
    <2> QED
      BY <2>1, <2>2
  <1> QED
    BY <1>4

LEMMA NatMax ==
  ASSUME NEW T \in SUBSET Nat, IsFiniteSet(T), T # {}
  PROVE  \E t \in T : \A u \in T : u <= t
  <1> DEFINE R == {p \in T \X T : p[1] > p[2]}
  <1>1. \A x, y \in T : <<x, y>> \in R <=> x > y
    OBVIOUS
  <1> HIDE DEF R
  <1>2. Orders(R, T)
    BY <1>1 DEF Orders
  <1>3. PICK t \in T : \A u \in T : u # t => <<t, u>> \in R
    BY <1>2, FirstExists
  <1>4. \A u \in T : u <= t
    <2> TAKE u \in T
    <2>1. t \in Nat /\ u \in Nat
      OBVIOUS
    <2>2. u # t => t > u
      BY <1>1, <1>3
    <2> QED
      BY <2>1, <2>2
  <1> QED
    BY <1>4

-----------------------------------------------------------------------------
(* The recent directories. *)

Answer(l) == l \in Seq([dir : Dirs, at : Nat])

Sooner(l) == {p \in Dirs \X Dirs : Before(l, p[1], p[2])}

LEMMA AnswerTyped ==
  ASSUME NEW l, Answer(l)
  PROVE  /\ Len(l) \in Nat /\ DOMAIN l = 1..Len(l)
         /\ \A i \in DOMAIN l : l[i].dir \in Dirs /\ l[i].at \in Nat
         /\ DirsOf(l) \subseteq Dirs /\ IsFiniteSet(DirsOf(l)) /\ DirsOf(l) \subseteq Nat
  <1>1. Len(l) \in Nat /\ DOMAIN l = 1..Len(l)
    BY LenProperties DEF Answer
  <1>2. \A i \in 1..Len(l) : l[i] \in [dir : Dirs, at : Nat]
    BY ElementOfSeq DEF Answer
  <1>3. DirsOf(l) \subseteq Dirs
    BY <1>1, <1>2 DEF DirsOf
  <1>4. IsFiniteSet(DirsOf(l))
    <2>1. DirsOf(l) \in SUBSET Dirs
      BY <1>3
    <2> QED
      BY <2>1, DashboardInputs, FS_Subset
  <1> QED
    BY <1>1, <1>2, <1>3, <1>4, DashboardInputs

(* The newest event of a directory is the one by_dir keeps. *)
LEMMA NewestExists ==
  ASSUME NEW l, Answer(l), NEW d \in DirsOf(l)
  PROVE  Newest(l, d) \in Nat
  <1> DEFINE D == {i \in 1..Len(l) : l[i].dir = d}
             T == {l[i].at : i \in D}
             f == [i \in D |-> l[i].at]
  <1>1. /\ Len(l) \in Nat /\ DOMAIN l = 1..Len(l)
        /\ \A i \in DOMAIN l : l[i].dir \in Dirs /\ l[i].at \in Nat
    BY AnswerTyped
  <1>2. IsFiniteSet(D)
    <2>1. IsFiniteSet(1..Len(l))
      BY <1>1, FS_Interval
    <2>2. D \in SUBSET (1..Len(l))
      OBVIOUS
    <2> QED
      BY <2>1, <2>2, FS_Subset
  <1>3. IsFiniteSet(T)
    <2>1. f \in Surjection(D, T)
      BY DEF Surjection
    <2> QED
      BY <1>2, <2>1, FS_Surjection
  <1>4. T # {} /\ T \subseteq Nat
    <2>1. PICK i \in DOMAIN l : l[i].dir = d
      BY DEF DirsOf
    <2> QED
      BY <1>1, <2>1
  <1>6. PICK t \in T : \A u \in T : u <= t
    <2> HIDE DEF T
    <2> QED
      BY <1>3, <1>4, NatMax
  <1>7. /\ t \in {l[i].at : i \in DOMAIN l} /\ t \in Nat
        /\ \E i \in DOMAIN l : l[i].dir = d /\ l[i].at = t
        /\ \A i \in DOMAIN l : l[i].dir = d => l[i].at <= t
    <2>1. \A i \in DOMAIN l : l[i].dir = d => l[i].at \in T
      BY <1>1
    <2> QED
      BY <1>1, <1>4, <1>6, <2>1
  <1>8. Newest(l, d) \in {l[i].at : i \in DOMAIN l}
    BY <1>7 DEF Newest
  <1> QED
    BY <1>1, <1>8

LEMMA SoonerOrders ==
  ASSUME NEW l, Answer(l)
  PROVE  Orders(Sooner(l), DirsOf(l))
  <1>1. DirsOf(l) \subseteq Dirs /\ DirsOf(l) \subseteq Nat
    BY AnswerTyped
  <1>2. \A d \in DirsOf(l) : Newest(l, d) \in Nat
    BY NewestExists
  <1>3. \A a, b \in DirsOf(l) : <<a, b>> \in Sooner(l) <=>
          (Newest(l, a) > Newest(l, b) \/ (Newest(l, a) = Newest(l, b) /\ a < b))
    BY <1>1 DEF Sooner, Before
  <1>4. \A a, b, c \in DirsOf(l) : <<a, b>> \in Sooner(l) /\ <<b, c>> \in Sooner(l) => <<a, c>> \in Sooner(l)
    <2> SUFFICES ASSUME NEW a \in DirsOf(l), NEW b \in DirsOf(l), NEW c \in DirsOf(l),
                        <<a, b>> \in Sooner(l), <<b, c>> \in Sooner(l)
                 PROVE  <<a, c>> \in Sooner(l)
      OBVIOUS
    <2>1. /\ a \in Nat /\ b \in Nat /\ c \in Nat
          /\ Newest(l, a) \in Nat /\ Newest(l, b) \in Nat /\ Newest(l, c) \in Nat
      BY <1>1, <1>2
    <2>2. Newest(l, a) > Newest(l, c) \/ (Newest(l, a) = Newest(l, c) /\ a < c)
      BY <1>3, <2>1
    <2> QED
      BY <1>3, <2>2
  <1>5. \A a, b \in DirsOf(l) : a # b => <<a, b>> \in Sooner(l) \/ <<b, a>> \in Sooner(l)
    <2> SUFFICES ASSUME NEW a \in DirsOf(l), NEW b \in DirsOf(l), a # b
                 PROVE  <<a, b>> \in Sooner(l) \/ <<b, a>> \in Sooner(l)
      OBVIOUS
    <2>1. a \in Nat /\ b \in Nat /\ Newest(l, a) \in Nat /\ Newest(l, b) \in Nat
      BY <1>1, <1>2
    <2> QED
      BY <1>3, <2>1
  <1>6. \A a \in DirsOf(l) : <<a, a>> \notin Sooner(l)
    <2> TAKE a \in DirsOf(l)
    <2>1. a \in Nat /\ Newest(l, a) \in Nat
      BY <1>1, <1>2
    <2> QED
      BY <1>3, <2>1
  <1> QED
    BY <1>4, <1>5, <1>6 DEF Orders

(* The recents are a sorted list of the directories, cut. *)
LEMMA SortedSorts ==
  ASSUME NEW l, Answer(l)
  PROVE  /\ Sorted(l) \in [1..Cardinality(DirsOf(l)) -> DirsOf(l)]
         /\ \A d \in DirsOf(l) : \E i \in 1..Cardinality(DirsOf(l)) : Sorted(l)[i] = d
         /\ \A i \in 1..Cardinality(DirsOf(l)) :
              Cardinality(Newer(l, Sorted(l)[i])) = i - 1
         /\ \A i, j \in 1..Cardinality(DirsOf(l)) :
              i < j => <<Sorted(l)[i], Sorted(l)[j]>> \in Sooner(l)
  <1> DEFINE S == DirsOf(l)
             n == Cardinality(S)
             R == Sooner(l)
  <1>1. S \subseteq Dirs /\ IsFiniteSet(S) /\ Orders(R, S)
    BY AnswerTyped, SoonerOrders
  <1>2. PICK s \in [1..n -> S] : InOrder(R, s, n)
    BY <1>1, SortExists
  <1>3. \A i, j \in 1..n : i < j => Before(l, s[i], s[j])
    BY <1>2 DEF InOrder, Sooner
  <1>4. /\ Sorted(l) \in [1..n -> S]
        /\ \A i, j \in 1..n : i < j => Before(l, Sorted(l)[i], Sorted(l)[j])
    BY <1>3 DEF Sorted
  <1>5. InOrder(R, Sorted(l), n)
    BY <1>1, <1>4 DEF InOrder, Sooner
  <1>6. \A d \in S : Ahead(R, S, d) = Newer(l, d)
    BY <1>1 DEF Ahead, Sooner, Newer
  <1>7. /\ \A x \in S : \E i \in 1..n : Sorted(l)[i] = x
        /\ \A i \in 1..n : Cardinality(Ahead(R, S, Sorted(l)[i])) = i - 1
    <2> DEFINE t == Sorted(l)
    <2> HIDE DEF R, S, t
    <2>1. t \in [1..Cardinality(S) -> S] /\ InOrder(R, t, Cardinality(S))
      BY <1>4, <1>5 DEF t
    <2>2. ASSUME NEW x \in S PROVE \E i \in 1..Cardinality(S) : t[i] = x
      BY <1>1, <2>1, SortedOnto
    <2>3. ASSUME NEW i \in 1..Cardinality(S) PROVE Cardinality(Ahead(R, S, t[i])) = i - 1
      BY <1>1, <2>1, SortedRank
    <2> QED
      BY <2>2, <2>3 DEF t
  <1> QED
    BY <1>4, <1>5, <1>6, <1>7 DEF InOrder

(* new_modal: the first recent the query is part of is the newest of the    *)
(* directories offered that it is part of.                                 *)
LEMMA FirstIsNewest ==
  ASSUME NEW l, Answer(l), NEW q \in Queries
  PROVE  FirstMatch([query |-> q, recents |-> ExtractRecents(l)]) = NewestMatch(l, q)
  <1> DEFINE S == DirsOf(l)
             n == Cardinality(S)
             m == IF n < MaxRecents THEN n ELSE MaxRecents
             s == Sorted(l)
             rec == ExtractRecents(l)
             hits == {i \in 1..m : s[i] \in Matches[q]}
             offered == {d \in S : Cardinality(Newer(l, d)) < MaxRecents /\ d \in Matches[q]}
  <1>1. IsFiniteSet(S) /\ n \in Nat /\ m \in Nat /\ m <= n /\ m <= MaxRecents /\ (m = n \/ m = MaxRecents)
    BY AnswerTyped, FS_CardinalityType, DashboardInputs
  <1>2. /\ s \in [1..n -> S]
        /\ \A d \in S : \E i \in 1..n : s[i] = d
        /\ \A i \in 1..n : Cardinality(Newer(l, s[i])) = i - 1
        /\ \A i, j \in 1..n : i < j => <<s[i], s[j]>> \in Sooner(l)
    BY SortedSorts
  <1>3. DOMAIN rec = 1..m /\ \A i \in 1..m : rec[i] = s[i]
    BY DEF ExtractRecents
  <1>4. hits \subseteq Nat /\ IsFiniteSet(hits)
    <2> HIDE DEF m, s
    <2>1. IsFiniteSet(1..m) /\ hits \in SUBSET (1..m)
      BY <1>1, FS_Interval
    <2>2. hits \subseteq Nat
      OBVIOUS
    <2> HIDE DEF hits
    <2>3. IsFiniteSet(hits)
      BY <2>1, FS_Subset
    <2> QED
      BY <2>2, <2>3
  <1>7. FirstMatch([query |-> q, recents |-> rec]) =
          IF hits = {} THEN Here ELSE rec[Min(hits)]
    <2> HIDE DEF m, s, rec
    <2> DEFINE r == [query |-> q, recents |-> rec]
    <2>1. r.recents = rec /\ r.query = q
      OBVIOUS
    <2>2. {i \in DOMAIN r.recents : r.recents[i] \in Matches[r.query]} = hits
      BY <1>3, <2>1
    <2> HIDE DEF hits, r
    <2>3. FirstMatch(r) = IF hits = {} THEN Here
                          ELSE rec[Min(hits)]
      BY <2>1, <2>2 DEF FirstMatch
    <2> QED
      BY <2>3 DEF r
  <1>5. CASE hits = {}
    <2>1. offered = {}
      <3> SUFFICES ASSUME NEW d \in offered PROVE FALSE
        OBVIOUS
      <3>1. PICK i \in 1..n : s[i] = d
        BY <1>2
      <3>2. i - 1 < MaxRecents
        BY <1>2, <3>1
      <3>3. i \in 1..m
        BY <1>1, <3>2, DashboardInputs
      <3> QED
        BY <1>5, <3>1, <3>3
    <2> QED
      BY <1>5, <1>7, <2>1 DEF NewestMatch
  <1>6. CASE hits # {}
    <2>1. PICK i \in hits : \A j \in hits : i <= j
      <3> HIDE DEF hits
      <3> QED
        BY <1>4, <1>6, NatMin
    <2>2. \A k \in hits : (\A j \in hits : k <= j) => k = i
      BY <1>4, <2>1
    <2>3. Min(hits) = i
      <3> HIDE DEF hits
      <3> QED
        BY <2>1, <2>2 DEF Min
    <2>4. i \in 1..n /\ i \in 1..m
      BY <1>1
    <2>5. s[i] \in offered
      BY <1>1, <1>2, <2>4, DashboardInputs
    <2>6. Newer(l, s[i]) \cap offered = {}
      <3> SUFFICES ASSUME NEW e \in offered, e \in Newer(l, s[i]) PROVE FALSE
        OBVIOUS
      <3>1. PICK j \in 1..n : s[j] = e
        BY <1>2
      <3>2. <<s[j], s[i]>> \in Sooner(l)
        <4>1. e \in Dirs /\ s[i] \in Dirs /\ Before(l, e, s[i])
          BY <1>2, <2>4, AnswerTyped DEF Newer
        <4> QED
          BY <3>1, <4>1 DEF Sooner
      <3>3. j < i
        <4>1. ~(i < j)
          <5> SUFFICES ASSUME i < j PROVE FALSE
            OBVIOUS
          <5>1. <<s[i], s[j]>> \in Sooner(l)
            BY <1>2, <2>4
          <5> QED
            BY <1>2, <2>4, <3>2, <5>1, SoonerOrders DEF Orders
        <4>2. i # j
          BY <1>2, <2>4, <3>2, SoonerOrders DEF Orders
        <4> QED
          BY <2>4, <4>1, <4>2
      <3>4. j \in hits
        <4> HIDE DEF m, s
        <4>1. j \in 1..m
          BY <1>1, <2>4, <3>3
        <4> QED
          BY <3>1, <4>1
      <3> QED
        BY <2>1, <2>4, <3>3, <3>4
    <2>7. \A d \in offered : Newer(l, d) \cap offered = {} => d = s[i]
      <3> SUFFICES ASSUME NEW d \in offered, Newer(l, d) \cap offered = {}, d # s[i] PROVE FALSE
        OBVIOUS
      <3>1. <<d, s[i]>> \in Sooner(l) \/ <<s[i], d>> \in Sooner(l)
        BY <2>5, SoonerOrders DEF Orders
      <3>2. d \in Newer(l, s[i]) \/ s[i] \in Newer(l, d)
        BY <2>5, <3>1 DEF Newer, Sooner
      <3> QED
        BY <2>5, <2>6, <3>2
    <2>8. (CHOOSE d \in offered : Newer(l, d) \cap offered = {}) = s[i]
      BY <2>5, <2>6, <2>7
    <2> QED
      BY <1>3, <1>6, <1>7, <2>3, <2>4, <2>5, <2>8 DEF NewestMatch
  <1> QED
    BY <1>5, <1>6

-----------------------------------------------------------------------------
(* The modal and the requests. *)

LEMMA ModalInit == Init => ModalAgrees
  BY DEF Init, ModalAgrees, NoRequest

LEMMA ModalStep == ModalAgrees /\ [Next]_vars => ModalAgrees'
  <1> SUFFICES ASSUME ModalAgrees, [Next]_vars PROVE ModalAgrees'
    OBVIOUS
  <1>1. ASSUME UNCHANGED request, mode' # "new" \/ UNCHANGED <<mode, new, listing>>
        PROVE  ModalAgrees'
    BY <1>1 DEF ModalAgrees
  <1>2. CASE UNCHANGED vars \/ Open \/ ApplyEvent \/ Loop \/ FramePasses \/ Resize
    <2>1. request' = request \/ request' = NoRequest
      BY <1>2 DEF vars, Open, ApplyEvent, Loop, EventsDone, Draw, NoKey, Answered, FramePasses,
                  Resize
    <2>2. UNCHANGED <<mode, new, listing>>
      BY <1>2 DEF vars, modals, Open, ApplyEvent, Loop, EventsDone, Draw, NoKey, Answered,
                  FramePasses, Resize
    <2> QED
      BY <2>1, <2>2 DEF ModalAgrees, NoRequest
  <1>3. CASE KeyQuit \/ HelpQuit \/ IoFails
    BY <1>1, <1>3 DEF KeyQuit, HelpQuit, IoFails, Quit
  <1>4. CASE KeyMove \/ KeyIdle \/ KeyHelp \/ HelpClose \/ HelpIdle
    BY <1>1, <1>4 DEF KeyMove, KeyIdle, KeyHelp, HelpClose, HelpIdle, modals
  <1>5. CASE KeyRename \/ RenameType \/ RenameCancel \/ NewCancel
    BY <1>1, <1>5 DEF KeyRename, RenameType, RenameCancel, NewCancel, Key
  <1>6. CASE KeyAct
    <2>1. /\ UNCHANGED <<mode, modals>> /\ mode = "normal"
          /\ request'.op \in {"session.jump", "session.kill"}
      BY <1>6 DEF KeyAct, Key, Call
    <2> QED
      BY <2>1 DEF ModalAgrees, modals
  <1>7. CASE RenameCommit
    <2>1. mode' = "normal" /\ request'.op = "session.rename"
      BY <1>7 DEF RenameCommit, Call
    <2> QED
      BY <2>1 DEF ModalAgrees
  <1>8. CASE KeyNew
    <2>1. PICK l \in Listings \cup {<< >>}, q \in Queries :
                 listing' = l /\ new' = [query |-> q, recents |-> ExtractRecents(l)]
      BY <1>8 DEF KeyNew
    <2>2. << >> \in Seq([dir : Dirs, at : Nat])
      OBVIOUS
    <2>3. l \in Seq([dir : Dirs, at : Nat])
      BY <2>1, <2>2, DashboardInputs
    <2>4. UNCHANGED request
      BY <1>8 DEF KeyNew
    <2> QED
      BY <2>1, <2>3, <2>4 DEF ModalAgrees
  <1>9. CASE NewType
    <2>1. PICK q \in Queries : new' = [new EXCEPT !.query = q]
      BY <1>9 DEF NewType
    <2>2. mode = "new" /\ UNCHANGED <<mode, listing, request>>
      BY <1>9 DEF NewType, Key
    <2>3. new = [query |-> new.query, recents |-> ExtractRecents(listing)]
      BY <2>2 DEF ModalAgrees
    <2>4. new' = [query |-> q, recents |-> ExtractRecents(listing)]
      BY <2>1, <2>3
    <2> QED
      BY <2>2, <2>4 DEF ModalAgrees
  <1>10. CASE NewCommit
    <2>1. mode = "new" /\ mode' = "normal"
      BY <1>10 DEF NewCommit, Key
    <2>2. request' = [op |-> "session.create", arg |-> FirstMatch(new),
                      meant |-> NewestMatch(listing, new.query), unseen |-> FALSE]
      BY <1>10 DEF NewCommit, Call
    <2>3. FirstMatch(new) = NewestMatch(listing, new.query)
      <3>1. /\ Answer(listing) /\ new.query \in Queries
            /\ new = [query |-> new.query, recents |-> ExtractRecents(listing)]
        BY <2>1 DEF ModalAgrees, Answer
      <3> DEFINE q == new.query
      <3>2. FirstMatch([query |-> q, recents |-> ExtractRecents(listing)]) = NewestMatch(listing, q)
        BY <3>1, FirstIsNewest
      <3> QED
        BY <3>1, <3>2
    <2> QED
      BY <2>1, <2>2, <2>3 DEF ModalAgrees
  <1> QED
    BY <1>2, <1>3, <1>4, <1>5, <1>6, <1>7, <1>8, <1>9, <1>10 DEF Next, Keys

-----------------------------------------------------------------------------
LEMMA InitIInv == Init => IInv
  <1> SUFFICES ASSUME Init PROVE IInv
    OBVIOUS
  <1>1. Len(<< >>) = 0 /\ << >> \in Seq(Rows)
    OBVIOUS
  <1>2. TypeOK
    BY <1>1 DEF Init, TypeOK
  <1>3. SelectionValid /\ RowsAgree /\ InFront
    BY <1>1 DEF Init, SelectionValid, RowsAgree, Listed, InFront, SelectedSession
  <1>4. ActsOnSelected /\ StaleMarked
    BY DEF Init, ActsOnSelected, StaleMarked, NoRequest
  <1> QED
    BY <1>2, <1>3, <1>4 DEF IInv

LEMMA IInvStep == IInv /\ [Next]_vars => IInv'
  <1> SUFFICES ASSUME IInv, [Next]_vars PROVE IInv'
    OBVIOUS
  <1>1. CASE UNCHANGED vars
    <2>1. SelectionValid' /\ RowsAgree' /\ InFront'
      BY <1>1, ListStays DEF vars
    <2> QED
      BY <1>1, <2>1 DEF vars, IInv, TypeOK, ActsOnSelected, StaleMarked
  <1>2. CASE Keys
    BY <1>2, EndsKeep, MoveKeeps, OtherKeysKeep DEF Keys, KeyQuit, HelpQuit
  <1> QED
    BY <1>1, <1>2, EventKeeps, LoopKeeps, EndsKeep DEF Next, Loop, IoFails

(* The inductive invariant holds throughout, whatever events and keys come *)
(* in whatever order.                                                      *)
THEOREM IInvHolds == Spec => []IInv
  BY InitIInv, IInvStep, PTL DEF Spec

(* The index names a row whenever there is one (state.rs, input.rs).       *)
THEOREM SelectionStaysValid == Spec => []SelectionValid
  <1>1. IInv => SelectionValid
    BY DEF IInv
  <1> QED
    BY <1>1, IInvHolds, PTL

(* A session has one row, the counters count the rows, and only rows are   *)
(* highlighted (TuiState::apply_event).                                    *)
THEOREM DerivedStateAgrees == Spec => []RowsAgree
  <1>1. IInv => RowsAgree
    BY DEF IInv
  <1> QED
    BY <1>1, IInvHolds, PTL

(* Every request is about what the user chose, a new session included: it  *)
(* starts in the newest of the recent directories that match what was      *)
(* typed (input.rs, new_modal.rs).                                         *)
THEOREM RequestsActOnChosen == Spec => []ActsOnChosen
  <1>1. Spec => []ModalAgrees
    BY ModalInit, ModalStep, PTL DEF Spec
  <1>2. IInv /\ ModalAgrees => ActsOnChosen
    BY DEF IInv, ActsOnSelected, ModalAgrees, ActsOnChosen
  <1> QED
    BY <1>1, <1>2, IInvHolds, PTL

(* What is out of date on the screen, the help overlay aside, is marked    *)
(* `dirty` until a frame shows it (tui/mod.rs).                            *)
THEOREM OutdatedIsDirty == Spec => []StaleMarked
  <1>1. IInv => StaleMarked
    BY DEF IInv
  <1> QED
    BY <1>1, IInvHolds, PTL
=============================================================================
