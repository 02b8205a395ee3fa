------------------------------ MODULE Dashboard ------------------------------
(***************************************************************************)
(* The dashboard's own state (tui/): the list of rows with a selection     *)
(* that is an index into it, the counters and highlights derived from it,  *)
(* the help overlay and the two modals, and the loop that applies events,  *)
(* draws at most one frame every 33 ms and handles one key.                *)
(*                                                                         *)
(* What the daemon sends is free here: any event about any session, in any *)
(* order (TuiReplica has the daemon, and shows that orders other than the  *)
(* writes' occur).  The row's texts and usage, the plugin list, which      *)
(* nothing draws, and the wording of the status line are left out.         *)
(***************************************************************************)
EXTENDS Naturals, Sequences, FiniteSets, FiniteSetsExt

CONSTANTS
  Ids,         \* sessions
  Seen,        \* the statuses the daemon sends in a run
  Dirs,        \* working directories, as numbers in the order of their paths
  Here,        \* the directory "."
  Queries,     \* what the user types into the new-session modal
  Matches,     \* the directories each query is a substring of
  Listings,    \* answers to session.list_active: sequences of [dir, at]
  MaxRecents,  \* ten
  None

Statuses == {"starting", "idle", "working", "waiting_for_user", "errored", "finished"}

ASSUME DashboardInputs ==
  /\ None \notin Ids
  /\ IsFiniteSet(Ids)
  /\ Seen \subseteq Statuses /\ "idle" \in Seen
  /\ Dirs \subseteq Nat /\ IsFiniteSet(Dirs) /\ Here \notin Dirs
  /\ Matches \in [Queries -> SUBSET Dirs] /\ \E q \in Queries : Matches[q] = Dirs
  /\ Listings \subseteq Seq([dir : Dirs, at : Nat])
  /\ MaxRecents \in Nat \ {0}

VARIABLES
  rows,      \* TuiState.sessions
  selected,  \* index of the highlighted row, from 0
  counters,  \* StatusCounters
  flash,     \* flash_until: the rows highlighted after a change
  dirty,
  mode,      \* "normal", "help", "rename" or "new"
  rename,    \* RenameModal: session_id, and whether the trimmed input is empty
  new,       \* NewModal: query and recents
  loop,      \* "off", or where the loop is: "events", "draw", "keys", "awaits"
  frame,     \* a frame interval has passed since the last draw
  request,   \* the call the key handler awaits
  listing,   \* history: the answer the recents were made of
  stale,     \* history: which parts of the screen changed since the last draw
  meant,     \* history: the row the user has in front, drawn or moved to, if known
  shifted    \* history: since the last draw rows came to an empty list, or left

vars == <<rows, selected, counters, flash, dirty, mode, rename, new, loop, frame,
          request, listing, stale, meant, shifted>>

body == <<rows, selected, counters, flash>>

modals == <<rename, new, listing>>

history == <<meant, shifted>>

-----------------------------------------------------------------------------
Rows == [id : Ids, status : Statuses]

NoRename == [id |-> None, blank |-> FALSE]

NoNew == [query |-> None, recents |-> << >>]

NoRequest == [op |-> "none", arg |-> None, meant |-> None, unseen |-> FALSE]

(* The sessions an answer to state.snapshot may list.                      *)
Snapshots ==
  {s \in UNION {[1..n -> [id : Ids, status : Seen]] : n \in 0..Cardinality(Ids)} :
     \A i, j \in DOMAIN s : s[i].id = s[j].id => i = j}

(* StatusCounters::from_sessions.                                          *)
FromSessions(list) ==
  [s \in Statuses |-> Cardinality({i \in DOMAIN list : list[i].status = s})]

Listed(id) == \E i \in DOMAIN rows : rows[i].id = id

(* TuiState::selected_session.                                             *)
SelectedSession == IF selected < Len(rows) THEN rows[selected + 1].id ELSE None

(* Which parts of the screen a step makes out of date: its contents, or     *)
(* the layout, which is the help overlay and the size of the terminal.     *)
Visible == <<rows, selected, flash, IF mode = "help" THEN "normal" ELSE mode, rename, new>>

MarkStale ==
  stale' = stale \cup (IF Visible' # Visible THEN {"body"} ELSE {})
                 \cup (IF (mode' = "help") # (mode = "help") THEN {"layout"} ELSE {})

-----------------------------------------------------------------------------
(* TuiState::apply_event. *)

(* session.created and session.discovered replace a row in place, or append *)
(* one; only a new row is highlighted.                                     *)
RowArrives(id, s) ==
  LET row == [id |-> id, status |-> s] IN
    /\ rows' = IF Listed(id) THEN [i \in DOMAIN rows |-> IF rows[i].id = id THEN row ELSE rows[i]]
                             ELSE Append(rows, row)
    /\ flash' = IF Listed(id) THEN flash ELSE flash \cup {id}
    /\ counters' = FromSessions(rows')
    /\ shifted' = (shifted \/ rows = << >>)
    /\ UNCHANGED selected

(* Vec::retain drops the row of a session: there is at most one             *)
(* (RowsAgree).                                                            *)
Without(id) ==
  LET k == CHOOSE i \in DOMAIN rows : rows[i].id = id
  IN  IF Listed(id) THEN [i \in 1..(Len(rows) - 1) |-> rows[IF i < k THEN i ELSE i + 1]]
                    ELSE rows

(* Bug: the index is checked against the list as it was. *)
BugLateClamp(id) ==
  /\ rows' = Without(id)
  /\ flash' = flash \ {id}
  /\ selected' = IF selected >= Len(rows) /\ rows # << >> THEN Len(rows) - 1 ELSE selected
  /\ counters' = FromSessions(rows')
  /\ shifted' = (shifted \/ Listed(id))

(* session.killed and session.finished: the index stays where it is unless  *)
(* it would be outside the list.                                           *)
RowLeaves(id) ==
  /\ rows' = Without(id)
  /\ flash' = flash \ {id}
  /\ selected' = IF selected >= Len(rows') /\ rows' # << >> THEN Len(rows') - 1 ELSE selected
  /\ counters' = FromSessions(rows')
  /\ shifted' = (shifted \/ Listed(id))

(* Bug: the counters are not recomputed. *)
BugKeepCounters(id, s) ==
  /\ Listed(id)
  /\ rows' = [i \in DOMAIN rows |-> IF rows[i].id = id THEN [rows[i] EXCEPT !.status = s] ELSE rows[i]]
  /\ flash' = flash \cup {id}
  /\ UNCHANGED <<selected, counters, shifted>>

(* session.status_changed, and session.dismissed_error with idle.           *)
RowStatus(id, s) ==
  /\ Listed(id)
  /\ rows' = [i \in DOMAIN rows |-> IF rows[i].id = id THEN [rows[i] EXCEPT !.status = s] ELSE rows[i]]
  /\ flash' = flash \cup {id}
  /\ counters' = FromSessions(rows')
  /\ UNCHANGED <<selected, shifted>>

(* session.renamed and session.task_changed change a text and highlight.    *)
RowText(id) ==
  /\ Listed(id)
  /\ flash' = flash \cup {id}
  /\ UNCHANGED <<rows, selected, counters, shifted>>

(* Anything else, or about a session that is not listed.                    *)
NoRow == UNCHANGED <<body, shifted>>

ApplyEvent ==
  /\ loop = "events"
  /\ \/ \E id \in Ids, s \in Seen : RowArrives(id, s) \/ RowStatus(id, s)
     \/ \E id \in Ids : RowLeaves(id) \/ RowText(id)
     \/ NoRow
  /\ dirty' = TRUE
  /\ meant' = IF shifted' THEN None ELSE meant
  /\ UNCHANGED <<mode, modals, loop, frame, request>>
  /\ MarkStale

-----------------------------------------------------------------------------
(* The loop of tui::run. *)

(* try_recv has nothing more; tick_flash may find highlights expired.       *)
EventsDone ==
  /\ loop = "events"
  /\ loop' = "draw"
  /\ \E expired \in SUBSET flash :
       /\ flash' = flash \ expired
       /\ dirty' = (dirty \/ expired # {})
  /\ UNCHANGED <<rows, selected, counters, mode, modals, frame, request, history>>
  /\ MarkStale

FramePasses ==
  /\ loop # "off" /\ ~frame
  /\ frame' = TRUE
  /\ UNCHANGED <<body, dirty, mode, modals, loop, request, stale, history>>

(* Bug: the flag is cleared even when the frame is not due yet. *)
BugClearEarly ==
  /\ loop = "draw"
  /\ loop' = "keys"
  /\ dirty' = FALSE
  /\ \E glowing \in SUBSET flash :
       IF (dirty \/ glowing # {}) /\ frame
       THEN /\ frame' = FALSE /\ stale' = {}
            /\ meant' = SelectedSession /\ shifted' = FALSE
       ELSE UNCHANGED <<frame, stale, history>>
  /\ UNCHANGED <<body, mode, modals, request>>

(* Draw if something changed or a highlight still glows, and the frame is   *)
(* due; an expired highlight stays listed until the next tick.             *)
Draw ==
  /\ loop = "draw"
  /\ loop' = "keys"
  /\ \E glowing \in SUBSET flash :
       IF (dirty \/ glowing # {}) /\ frame
       THEN /\ dirty' = FALSE /\ frame' = FALSE /\ stale' = {}
            /\ meant' = SelectedSession /\ shifted' = FALSE
       ELSE UNCHANGED <<dirty, frame, stale, history>>
  /\ UNCHANGED <<body, mode, modals, request>>

(* event::poll times out after 50 ms.                                       *)
NoKey ==
  /\ loop = "keys"
  /\ loop' = "events"
  /\ UNCHANGED <<body, dirty, mode, modals, frame, request, stale, history>>

(* A resize is no key: it is read and dropped, and the screen stays laid    *)
(* out for the old size until something else has it drawn.                 *)
Resize ==
  /\ loop = "keys"
  /\ loop' = "events"
  /\ stale' = stale \cup {"layout"}
  /\ UNCHANGED <<body, dirty, mode, modals, frame, request, history>>

(* The daemon answers or the call fails; either sets the status line.       *)
Answered ==
  /\ loop = "awaits"
  /\ loop' = "events"
  /\ request' = NoRequest
  /\ UNCHANGED <<body, dirty, mode, modals, frame, stale, history>>

-----------------------------------------------------------------------------
(* handle_key. *)

Key(m) == loop = "keys" /\ mode = m

Quit ==
  /\ loop' = "off" /\ mode' = "normal"
  /\ rows' = << >> /\ selected' = 0 /\ counters' = FromSessions(<< >>) /\ flash' = {}
  /\ dirty' = FALSE /\ frame' = FALSE /\ stale' = {} /\ meant' = None /\ shifted' = FALSE
  /\ rename' = NoRename /\ new' = NoNew /\ listing' = << >>
  /\ UNCHANGED request

(* terminal.draw or event::poll fails: the loop ends with the error.        *)
IoFails ==
  /\ loop = "keys" \/ (loop = "draw" /\ frame /\ (dirty \/ flash # {}))
  /\ Quit

KeyQuit == Key("normal") /\ Quit

(* j, k, g and G.                                                           *)
KeyMove ==
  /\ Key("normal")
  /\ \/ rows # << >> /\ selected' = IF selected + 1 < Len(rows) THEN selected + 1 ELSE Len(rows) - 1
     \/ selected' = IF selected > 0 THEN selected - 1 ELSE 0
     \/ selected' = 0
     \/ rows # << >> /\ selected' = Len(rows) - 1
  /\ loop' = "events" /\ dirty' = TRUE
  /\ meant' = IF shifted \/ rows = << >> THEN None ELSE rows[selected' + 1].id
  /\ UNCHANGED <<rows, counters, flash, mode, modals, frame, request, shifted>>
  /\ MarkStale

Call(op, arg, wanted, blind) ==
  /\ request' = [op |-> op, arg |-> arg, meant |-> wanted, unseen |-> blind]
  /\ loop' = "awaits"
  /\ dirty' = TRUE

(* Enter and x act on the session whose row the index names now.            *)
KeyAct ==
  /\ Key("normal")
  /\ SelectedSession # None
  /\ \E op \in {"session.jump", "session.kill"} :
       Call(op, SelectedSession, meant, shifted)
  /\ UNCHANGED <<body, mode, modals, frame, stale, history>>

(* A key that is not bound, or acts on the selection when there is none.    *)
KeyIdle ==
  /\ Key("normal")
  /\ loop' = "events" /\ dirty' = TRUE
  /\ UNCHANGED <<body, mode, modals, frame, request, stale, history>>

KeyHelp ==
  /\ Key("normal")
  /\ mode' = "help" /\ dirty' = TRUE /\ loop' = "events"
  /\ UNCHANGED <<body, modals, frame, request, history>>
  /\ MarkStale

(* In the help overlay Esc and ? close it, without marking the state dirty; *)
(* q quits; other keys do nothing.                                         *)
HelpClose ==
  /\ Key("help")
  /\ mode' = "normal" /\ loop' = "events"
  /\ UNCHANGED <<body, dirty, modals, frame, request, history>>
  /\ MarkStale

HelpQuit == Key("help") /\ Quit

HelpIdle ==
  /\ Key("help")
  /\ loop' = "events"
  /\ UNCHANGED <<body, dirty, mode, modals, frame, request, stale, history>>

(* r: the modal remembers the session's id and starts from its name.        *)
KeyRename ==
  /\ Key("normal")
  /\ SelectedSession # None
  /\ rename' = [id |-> SelectedSession, blank |-> FALSE]
  /\ mode' = "rename" /\ dirty' = TRUE /\ loop' = "events"
  /\ UNCHANGED <<body, new, listing, frame, request, history>>
  /\ MarkStale

(* Bug: the list has changed hands while the user typed. *)
BugRenameSelected ==
  /\ Key("rename")
  /\ ~rename.blank
  /\ Call("session.rename", SelectedSession, rename.id, FALSE)
  /\ rename' = NoRename /\ mode' = "normal"
  /\ UNCHANGED <<body, new, listing, frame, history>>
  /\ MarkStale

RenameType ==
  /\ Key("rename")
  /\ rename' \in {rename, [rename EXCEPT !.blank = ~@]}
  /\ dirty' = TRUE /\ loop' = "events"
  /\ UNCHANGED <<body, mode, new, listing, frame, request, history>>
  /\ MarkStale

(* Esc, or Enter on nothing but blanks.                                     *)
RenameCancel ==
  /\ Key("rename")
  /\ rename' = NoRename /\ mode' = "normal" /\ dirty' = TRUE /\ loop' = "events"
  /\ UNCHANGED <<body, new, listing, frame, request, history>>
  /\ MarkStale

RenameCommit ==
  /\ Key("rename")
  /\ ~rename.blank
  /\ Call("session.rename", rename.id, rename.id, FALSE)
  /\ rename' = NoRename /\ mode' = "normal"
  /\ UNCHANGED <<body, new, listing, frame, history>>
  /\ MarkStale

-----------------------------------------------------------------------------
(* The new-session modal. *)

Newest(l, d) ==
  CHOOSE t \in {l[i].at : i \in DOMAIN l} :
    /\ \E i \in DOMAIN l : l[i].dir = d /\ l[i].at = t
    /\ \A i \in DOMAIN l : l[i].dir = d => l[i].at <= t

DirsOf(l) == {l[i].dir : i \in DOMAIN l}

(* A stable sort of the map's entries, newest first, puts a before b.       *)
Before(l, a, b) ==
  \/ Newest(l, a) > Newest(l, b)
  \/ Newest(l, a) = Newest(l, b) /\ a < b

Sorted(l) ==
  LET n == Cardinality(DirsOf(l))
  IN  CHOOSE s \in [1..n -> DirsOf(l)] : \A i, j \in 1..n : i < j => Before(l, s[i], s[j])

(* extract_recents: each directory once with its newest event, sorted by    *)
(* that, cut after ten.                                                    *)
ExtractRecents(l) ==
  LET n == Cardinality(DirsOf(l))
  IN  [i \in 1..(IF n < MaxRecents THEN n ELSE MaxRecents) |-> Sorted(l)[i]]

(* The first of `filtered`, the recents the query is a substring of.        *)
FirstMatch(m) ==
  LET hits == {i \in DOMAIN m.recents : m.recents[i] \in Matches[m.query]}
  IN  IF hits = {} THEN Here ELSE m.recents[Min(hits)]

(* c: session.list_active is awaited before the modal opens; if it fails    *)
(* there are no recents.                                                   *)
KeyNew ==
  /\ Key("normal")
  /\ \E l \in Listings \cup {<< >>}, q \in Queries :
       /\ Matches[q] = Dirs
       /\ listing' = l
       /\ new' = [query |-> q, recents |-> ExtractRecents(l)]
  /\ mode' = "new" /\ dirty' = TRUE /\ loop' = "events"
  /\ UNCHANGED <<body, rename, frame, request, history>>
  /\ MarkStale

NewType ==
  /\ Key("new")
  /\ \E q \in Queries : new' = [new EXCEPT !.query = q]
  /\ dirty' = TRUE /\ loop' = "events"
  /\ UNCHANGED <<body, mode, rename, listing, frame, request, history>>
  /\ MarkStale

NewCancel ==
  /\ Key("new")
  /\ new' = NoNew /\ listing' = << >> /\ mode' = "normal" /\ dirty' = TRUE /\ loop' = "events"
  /\ UNCHANGED <<body, rename, frame, request, history>>
  /\ MarkStale

(* What the user means by a query: of the ten directories used last, the    *)
(* newest that the query is a substring of.                                *)
Newer(l, d) == {e \in DirsOf(l) : Before(l, e, d)}

NewestMatch(l, q) ==
  LET offered == {d \in DirsOf(l) : Cardinality(Newer(l, d)) < MaxRecents /\ d \in Matches[q]}
  IN  IF offered = {} THEN Here ELSE CHOOSE d \in offered : Newer(l, d) \cap offered = {}

NewCommit ==
  /\ Key("new")
  /\ Call("session.create", FirstMatch(new), NewestMatch(listing, new.query), FALSE)
  /\ new' = NoNew /\ listing' = << >> /\ mode' = "normal"
  /\ UNCHANGED <<body, rename, frame, history>>
  /\ MarkStale

-----------------------------------------------------------------------------
(* `agentd tui`: subscribe, snapshot, first frame due at once.               *)
Open ==
  /\ loop = "off"
  /\ loop' = "events"
  /\ rows' \in Snapshots
  /\ counters' = FromSessions(rows')
  /\ dirty' = TRUE /\ frame' = TRUE
  /\ stale' = {"body"} /\ shifted' = TRUE
  /\ UNCHANGED <<selected, flash, mode, modals, request, meant>>

Init ==
  /\ rows = << >> /\ selected = 0 /\ counters = FromSessions(<< >>) /\ flash = {}
  /\ dirty = FALSE /\ mode = "normal" /\ rename = NoRename /\ new = NoNew
  /\ loop = "off" /\ frame = FALSE /\ request = NoRequest
  /\ listing = << >> /\ stale = {} /\ meant = None /\ shifted = FALSE

Keys ==
  \/ KeyQuit \/ KeyMove \/ KeyAct \/ KeyIdle \/ KeyHelp \/ KeyRename \/ KeyNew
  \/ HelpClose \/ HelpQuit \/ HelpIdle
  \/ RenameType \/ RenameCancel \/ RenameCommit
  \/ NewType \/ NewCancel \/ NewCommit

Loop == EventsDone \/ Draw \/ NoKey \/ Answered

Next == Open \/ ApplyEvent \/ Loop \/ Keys \/ FramePasses \/ Resize \/ IoFails

Spec == Init /\ [][Next]_vars

(* The loop turns: the channel it drains fills only while it awaits an      *)
(* answer, and answers come (the call fails when the daemon dies).         *)
FairSpec == Spec /\ WF_vars(EventsDone) /\ WF_vars(Draw) /\ WF_vars(NoKey \/ Keys)
                 /\ WF_vars(Answered) /\ WF_vars(FramePasses)

-----------------------------------------------------------------------------
(* Properties. *)

(* Type correctness of the list, the index and the flags the loop goes by.  *)
TypeOK ==
  /\ rows \in Seq(Rows) /\ selected \in Nat /\ flash \subseteq Ids
  /\ dirty \in BOOLEAN /\ frame \in BOOLEAN /\ shifted \in BOOLEAN
  /\ mode \in {"normal", "help", "rename", "new"}
  /\ loop \in {"off", "events", "draw", "keys", "awaits"}
  /\ meant \in Ids \cup {None}

(* The index names a row whenever there is one, so that jump, kill and      *)
(* rename are never silently ignored, whatever leaves the list in whatever *)
(* order (state.rs clamps after a removal, input.rs after a key).          *)
SelectionValid == selected < Len(rows) \/ (rows = << >> /\ selected = 0)

(* What is derived from the rows agrees with them: a session has one row,   *)
(* the counters count the rows, and only rows are highlighted.             *)
RowsAgree ==
  /\ \A i, j \in DOMAIN rows : rows[i].id = rows[j].id => i = j
  /\ counters = FromSessions(rows)
  /\ \A id \in flash : Listed(id)

(* A request is about what the user chose: a rename about the session that  *)
(* was selected when the modal opened, a jump or a kill about the one the  *)
(* last frame highlighted or the keys since then moved to (unless events   *)
(* that are not drawn yet took a row away or filled an empty list), and a  *)
(* new session starts in the newest of the recent directories that match   *)
(* what was typed.                                                         *)
ActsOnChosen == request.op # "none" => request.unseen \/ request.arg = request.meant

(* The same of jump, kill and rename alone.                                 *)
ActsOnSelected ==
  request.op \in {"session.jump", "session.kill", "session.rename"} =>
    request.unseen \/ request.arg = request.meant

(* A part of the screen that is out of date will be redrawn: rows,          *)
(* selection, highlights and modals never change without `dirty`, which    *)
(* stays set until a frame shows them.  Of the layout this does not hold     *)
(* (DirtyOnChange).                                                        *)
StaleMarked == "body" \in stale => dirty

(* Between runs of the dashboard the list is empty; while no event that is  *)
(* not drawn yet moved rows, the index names the row the user has in front.*)
InFront ==
  /\ loop = "off" => rows = << >> /\ selected = 0 /\ flash = {}
  /\ ~shifted => meant = SelectedSession

(* While the new-session modal is open its recents are those of the answer  *)
(* it was opened with, and a creation under way is where the user meant.   *)
ModalAgrees ==
  /\ mode = "new" =>
       /\ listing \in Seq([dir : Dirs, at : Nat])
       /\ new.query \in Queries
       /\ new = [query |-> new.query, recents |-> ExtractRecents(listing)]
  /\ request.op = "session.create" => ~request.unseen /\ request.arg = request.meant
  /\ request.op \in {"none", "session.jump", "session.kill", "session.rename", "session.create"}

(* The inductive invariant behind SelectionValid, RowsAgree, ActsOnSelected *)
(* and StaleMarked; with ModalAgrees, behind ActsOnChosen.                 *)
IInv ==
  /\ TypeOK /\ InFront
  /\ SelectionValid /\ RowsAgree /\ ActsOnSelected /\ StaleMarked

(* And it is redrawn, however many keys and events come in.                 *)
Redrawn == ("body" \in stale) ~> ("body" \notin stale)

(* state.rs:75-76: "`dirty` is set on any change; the render loop checks it *)
(* to avoid unnecessary draws."                                            *)
DirtyOnChange == stale # {} => dirty

=============================================================================
