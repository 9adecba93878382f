------------------------------- MODULE Archive -------------------------------
(***************************************************************************)
(* Reading what others are writing.  Half one: a client walks through the  *)
(* pages of a list (events, calls, audit rows; newest first, continued at  *)
(* a cursor of creation time and id; contacts by name and id) while rows   *)
(* are inserted, by transactions that began earlier than they commit, and  *)
(* rows start or stop to match the filter or are renamed.  Half two: an    *)
(* event is exported or shown with its whole history, statement by         *)
(* statement, while it is changed, and its notes are edited, each edit     *)
(* appending a version.                                                    *)
(***************************************************************************)
EXTENDS FiniteSets, Naturals, Sequences, SequencesExt

CONSTANTS
  RowIds,        \* numbers: ids of rows, in the order the database compares them
  Limit,      \* rows of a page
  MaxTime,    \* bound on creation times
  Editors,    \* people who write notes
  MaxNotes,   \* bound on the rows of event_notes
  MaxChanges  \* bound on the version of the event and on the steps of its workflow

VARIABLES
  now,        \* time; now() is the time a transaction began
  entry,      \* rows of the list: creation time (a contact: its name), matches
              \* the filter, visible
  walk,       \* the client's walk: the list, the cursor, the keys of the pages so far
  lasting,    \* auxiliary: rows visible and matching ever since the walk began
  version,    \* events.version; every change adds a row to the log, the status
              \* history and the audit in the same transaction (EventStore)
  steps,      \* steps done of its workflow instance, each with its result row and
              \* its audit row; the last one also completes the instance
  notes,      \* event_notes in the order inserted
  noteLog,    \* notes named by the EVENT_NOTE_ADDED/UPDATED rows of the log
  edit,       \* note edits under way
  bundle      \* the bundle being read: next statement, and what it has so far

pages == <<now, entry, walk, lasting>>
record == <<version, steps, notes, noteLog, edit, bundle>>
avars == <<pages, record>>

Absent == [at |-> 0, match |-> FALSE, visible |-> FALSE]
NotWalking == [list |-> "none", cursor |-> <<>>, seen |-> <<>>, done |-> FALSE]

PagesInit ==
  /\ now = 1 /\ entry = [i \in RowIds |-> Absent]
  /\ walk = NotWalking /\ lasting = {}

-----------------------------------------------------------------------------
(* The writers *)

\* A transaction that will insert the row begins: created_at is now().
BeginInsert(i) ==
  /\ entry[i].at = 0
  /\ entry' = [entry EXCEPT ![i].at = now]
  /\ UNCHANGED <<now, walk, lasting, record>>

CommitInsert(i, m) ==
  /\ entry[i].at # 0 /\ ~entry[i].visible
  /\ entry' = [entry EXCEPT ![i].visible = TRUE, ![i].match = m]
  /\ UNCHANGED <<now, walk, lasting, record>>

\* Status, assignee, category ... change: the row starts or stops to match.  Rows of
\* the audit are never changed.
Change(i) ==
  /\ entry[i].visible /\ walk.list # "audit"
  /\ entry' = [entry EXCEPT ![i].match = ~@]
  /\ lasting' = lasting \ {i}
  /\ UNCHANGED <<now, walk, record>>

\* A contact changes its name, and with it its place in the list.
Rename(i, name) ==
  /\ entry[i].visible /\ walk.list = "contacts" /\ name # entry[i].at
  /\ entry' = [entry EXCEPT ![i].at = name]
  /\ lasting' = lasting \ {i}
  /\ UNCHANGED <<now, walk, record>>

Tick ==
  /\ now < MaxTime /\ now' = now + 1
  /\ UNCHANGED <<entry, walk, lasting, record>>

-----------------------------------------------------------------------------
(* The reader *)

Rows == {i \in RowIds : entry[i].visible /\ entry[i].match}
EncodeCursor(i) == <<entry[i].at, i>>
Less(k, l) == k[1] < l[1] \/ (k[1] = l[1] /\ k[2] < l[2])
Newer(k, l) == Less(l, k)

\* The keys after the cursor: newest first, or by name.
After(cursor) ==
  SetToSortSeq({k \in {EncodeCursor(i) : i \in Rows} : cursor # <<>> => Newer(cursor, k)}, Newer)
AfterName(cursor) ==
  SetToSortSeq({k \in {EncodeCursor(i) : i \in Rows} : cursor # <<>> => Less(cursor, k)}, Less)

\* mutant: the cursor is the row fetched to see whether there is more
PageBeyond(keys) ==
  IF Len(keys) <= Limit THEN [items |-> keys, next |-> <<>>]
  ELSE [items |-> SubSeq(keys, 1, Limit), next |-> keys[Limit + 1]]

\* One row more than the page is fetched; if it is there, the last row of the page
\* is the next cursor.
Page(keys) ==
  IF Len(keys) <= Limit THEN [items |-> keys, next |-> <<>>]
  ELSE [items |-> SubSeq(keys, 1, Limit), next |-> keys[Limit]]

ListPage(cursor) == Page(After(cursor))
History(cursor) == Page(After(cursor))
Query(cursor) == Page(After(cursor))
Search(cursor) == Page(AfterName(cursor))

\* A request for a page: the first, or the one the last page named.
Turn(list, page) ==
  /\ ~walk.done /\ walk.list \in {"none", list}
  /\ walk' = [list |-> list, seen |-> walk.seen \o page.items, done |-> page.next = <<>>,
              cursor |-> page.next]
  /\ lasting' = IF walk.list = list THEN lasting ELSE Rows
  /\ UNCHANGED <<now, entry, record>>

ListEvents == Turn("events", ListPage(walk.cursor))
ListCalls == Turn("calls", History(walk.cursor))
ListAudit == Turn("audit", Query(walk.cursor))
SearchContacts == Turn("contacts", Search(walk.cursor))

PageNext ==
  \/ Tick \/ ListEvents \/ ListCalls \/ ListAudit \/ SearchContacts
  \/ \E i \in RowIds : \/ BeginInsert(i) \/ Change(i) \/ \E m \in BOOLEAN : CommitInsert(i, m)
                   \/ \E name \in 1..MaxTime : Rename(i, name)

-----------------------------------------------------------------------------
(* The event and its notes *)

NoEdit == [at |-> "rest"]
NoBundle == [kind |-> "none", at |-> 1]

RecordInit ==
  /\ version = 1 /\ steps = 0 /\ notes = <<>> /\ noteLog = {}
  /\ edit = [e \in Editors |-> NoEdit] /\ bundle = NoBundle

\* Any command on the event (module EventStore).
ChangeEvent ==
  /\ version < MaxChanges /\ version' = version + 1
  /\ UNCHANGED <<pages, steps, notes, noteLog, edit, bundle>>

\* A step of the event's workflow (module WorkflowService).
DoStep ==
  /\ steps < MaxChanges - 1 /\ steps' = steps + 1
  /\ UNCHANGED <<pages, version, notes, noteLog, edit, bundle>>

\* A row of event_notes; thread is the number of the row that began the thread.
EventNote(thread, n) == [thread |-> thread, version |-> n, by |-> 0]

AddNote ==
  /\ Len(notes) < MaxNotes
  /\ notes' = Append(notes, EventNote(Len(notes) + 1, 1))
  /\ noteLog' = noteLog \cup {Len(notes) + 1}
  /\ UNCHANGED <<pages, version, steps, edit, bundle>>

Current(thread) == {i \in 1..Len(notes) : notes[i].thread = thread /\ notes[i].by = 0}
Locked(i) == \E e \in Editors : edit[e].at = "locked" /\ edit[e].old = i

\* edit_note: any version names its thread; the current version is locked FOR UPDATE.
FindCurrent(e, i) ==
  /\ edit[e] = NoEdit
  /\ \E old \in Current(notes[i].thread) :
       edit' = [edit EXCEPT ![e] = [at |-> "waits", old |-> old]]
  /\ UNCHANGED <<pages, version, steps, notes, noteLog, bundle>>

\* The lock is granted once nobody holds it.  The row is checked again then: one
\* superseded meanwhile is no longer found, and scalar_one raises.
LockCurrent(e) ==
  /\ edit[e].at = "waits" /\ ~Locked(edit[e].old)
  /\ edit' = [edit EXCEPT ![e] = IF notes[edit[e].old].by = 0
                                 THEN [at |-> "locked", old |-> @.old] ELSE NoEdit]
  /\ UNCHANGED <<pages, version, steps, notes, noteLog, bundle>>

\* The new version, the reference to it, the log row and the audit row commit.
EditNote(e) ==
  /\ edit[e].at = "locked" /\ Len(notes) < MaxNotes
  /\ LET old == edit[e].old
         new == EventNote(notes[old].thread, notes[old].version + 1)
     IN notes' = Append([notes EXCEPT ![old].by = Len(notes) + 1], new)
  /\ noteLog' = noteLog \cup {Len(notes) + 1}
  /\ edit' = [edit EXCEPT ![e] = NoEdit]
  /\ UNCHANGED <<pages, version, steps, bundle>>

\* The body is unchanged, or the request is lost: rolled back.
EditRolledBack(e) ==
  /\ edit[e] # NoEdit
  /\ edit' = [edit EXCEPT ![e] = NoEdit]
  /\ UNCHANGED <<pages, version, steps, notes, noteLog, bundle>>

-----------------------------------------------------------------------------
(* The bundle of an event, for the archive view or for an export: one statement *)
(* after the other.                                                            *)

\* The statements in their order; the archive view reads the log before the workflows.
Statements(kind) ==
  LET event == <<"row", "history", "notes">>
      flows == <<"flow", "results", "decisions">>
  IN IF kind = "export" THEN event \o flows \o <<"log", "audit">>
     ELSE event \o <<"log">> \o flows \o <<"audit">>

Begin(kind) ==
  /\ bundle = NoBundle /\ bundle' = [kind |-> kind, at |-> 1]
  /\ UNCHANGED <<pages, version, steps, notes, noteLog, edit>>

Detail == Begin("detail")
ExportBundle == Begin("export")

Read(what, rec) ==
  /\ bundle.kind # "none" /\ bundle.at <= Len(Statements(bundle.kind))
  /\ Statements(bundle.kind)[bundle.at] = what
  /\ bundle' = [at |-> bundle.at + 1] @@ rec @@ bundle
  /\ UNCHANGED <<pages, version, steps, notes, noteLog, edit>>

\* EventQueryRepository.detail: the events row, its status history, and the current
\* versions of its notes.
EventRow == Read("row", [row |-> version])
StatusHistory == Read("history", [history |-> version])
CurrentNotes == Read("notes", [notes |-> {i \in 1..Len(notes) : notes[i].by = 0}])

\* The instances, then the results and decisions of each.
Workflows == Read("flow", [flow |-> steps])
TaskResults == Read("results", [results |-> steps])
Decisions == Read("decisions", [decisions |-> steps])

DomainEvents == Read("log", [log |-> version, noteLog |-> noteLog])

\* The export takes the audit rows of the workflow instances too, the archive view
\* those of the event only.
AuditEntries == bundle.kind = "export" /\ Read("audit", [audit |-> version, done |-> steps])
AuditRefs == bundle.kind = "detail" /\ Read("audit", [audit |-> version])

Complete == bundle.kind # "none" /\ bundle.at > Len(Statements(bundle.kind))

Deliver(kind) ==
  /\ Complete /\ bundle.kind = kind /\ bundle' = NoBundle
  /\ UNCHANGED <<pages, version, steps, notes, noteLog, edit>>

\* The export itself is audited, in a transaction after the reads.
ExportEvent == Deliver("export")
ArchiveDetail == Deliver("detail")

RecordNext ==
  \/ ChangeEvent \/ DoStep \/ AddNote
  \/ \E e \in Editors :
       \/ \E i \in 1..Len(notes) : FindCurrent(e, i)
       \/ LockCurrent(e) \/ EditRolledBack(e) \/ EditNote(e)
  \/ Detail \/ ExportBundle \/ EventRow \/ StatusHistory \/ CurrentNotes
  \/ Workflows \/ TaskResults \/ Decisions \/ DomainEvents \/ AuditEntries \/ AuditRefs
  \/ ExportEvent \/ ArchiveDetail

-----------------------------------------------------------------------------
\* The variables stay in their types.
ArchiveTypeOK ==
  /\ now \in 1..MaxTime /\ entry \in [RowIds -> [at : 0..MaxTime, match : BOOLEAN, visible : BOOLEAN]]
  /\ lasting \subseteq RowIds /\ version \in 1..MaxChanges /\ steps \in 0..(MaxChanges - 1)
  /\ noteLog = 1..Len(notes)

\* A walk along next_cursor to the last page shows every row that was there, matched and
\* kept its place all the time, no row twice but a contact renamed meanwhile, and the
\* rows in their order, whatever is inserted and changed.
PagesAreComplete ==
  /\ \A j, k \in 1..Len(walk.seen) : j < k =>
       /\ IF walk.list = "contacts" THEN Less(walk.seen[j], walk.seen[k])
          ELSE Newer(walk.seen[j], walk.seen[k])
       /\ walk.seen[j][2] = walk.seen[k][2] => walk.list = "contacts" /\ walk.seen[j][2] \notin lasting
  /\ walk.done => lasting \subseteq {walk.seen[j][2] : j \in 1..Len(walk.seen)}

\* note_threads: the versions of a thread in order; list_notes: every thread.
NoteThread(t) == SelectSeq(notes, LAMBDA n : n.thread = t)
ListNotes == {NoteThread(notes[i].thread) : i \in 1..Len(notes)}

\* The versions of a note form one chain: numbered without gaps, every version
\* superseded by its successor, and only the last one current, however many people
\* call edit_note at once.  A bundle, read statement by statement, never shows a state, a
\* note or a workflow step without the rows of log, results and audit that explain it.
RecordIsWhole ==
  /\ \A chain \in ListNotes : \A j \in 1..Len(chain) :
         /\ chain[j].version = j
         /\ j = Len(chain) <=> chain[j].by = 0
         /\ j < Len(chain) => notes[chain[j].by] = chain[j + 1]
  /\ Complete =>
       /\ bundle.row <= bundle.history /\ bundle.history <= bundle.log
       /\ bundle.log <= bundle.audit /\ bundle.notes \subseteq bundle.noteLog
       /\ bundle.flow <= bundle.results /\ bundle.results <= bundle.decisions
       /\ bundle.kind = "export" => bundle.decisions <= bundle.done
=============================================================================
