------------------------------- MODULE Workspace -------------------------------
(***************************************************************************)
(* The language server's workspace (src/lang/lsp): one document, the       *)
(* editor's messages about it, the debounced validations, each a goroutine *)
(* with a child process, and the goroutines that publish diagnostics.      *)
(*                                                                         *)
(* A text is a version, the number of the edit that made it, and the       *)
(* diagnostics of a text are its version too.  Documents share no state    *)
(* but the maps they are kept in, so one of them is enough.                *)
(***************************************************************************)
EXTENDS Naturals, Sequences, Functions

CONSTANTS
  None,            \* no document, no diagnostics
  ChangeKinds,     \* what the editor sends: "whole" texts, changes of "ranges"
  CanFail,         \* a validation may fail to run
  MaxVersion,      \* bound: edits
  MaxInbox,        \* bound: messages on their way to the server
  MaxValidations,  \* bound: validations at a time
  MaxPublications  \* bound: publications at a time

ASSUME WorkspaceAssumption ==
  /\ ChangeKinds \subseteq {"whole", "ranges"}
  /\ CanFail \in BOOLEAN
  /\ {MaxVersion, MaxInbox, MaxValidations, MaxPublications} \subseteq Nat \ {0}
  /\ None \notin Nat

VARIABLES
  opened, buffer, disk, last,  \* the editor: open?, its text, the file's, last version made
  inbox,                       \* messages the server has not handled
  text,                        \* docs[path].Text
  timers,                      \* timers that will call validate
  fired,                       \* validations that have not read the text
  running,                     \* per version, validations of it in a child process
  cached,                      \* diagnostics[path]
  publishing,                  \* publications that have not read the cache
  notifying,                   \* per version, publications about to be sent
  shown,                       \* what the editor displays
  done,                        \* history: versions validated since they arrived
  raced                        \* history: validations of different texts overlapped, or one failed

editor == <<opened, buffer, disk, last>>
tasks  == <<timers, fired, running, publishing, notifying>>
vars   == <<editor, inbox, text, tasks, cached, shown, done, raced>>

Version == 0 .. MaxVersion
Result  == Version \cup {None}

Plus(bag, x)  == [bag EXCEPT ![x] = @ + 1]
Minus(bag, x) == [bag EXCEPT ![x] = @ - 1]
InChild       == {v \in Version : running[v] > 0}

Total(bag) == FoldFunction(+, 0, bag)

Init ==
  /\ opened = FALSE /\ buffer = 0 /\ disk = 0 /\ last = 0
  /\ inbox = <<>>
  /\ text = None
  /\ timers = 0 /\ fired = 0 /\ publishing = 0
  /\ running = [v \in Version |-> 0]
  /\ notifying = [r \in Result |-> 0]
  /\ cached = None
  /\ shown = None
  /\ done = {}
  /\ raced = FALSE

-------------------------------------------------------------------------------
\* The editor, which follows the protocol: changes and closing between
\* opening and opening again.

Send(kind) ==
  /\ Len(inbox) < MaxInbox
  /\ inbox' = Append(inbox, [kind |-> kind, version |-> buffer'])
  /\ UNCHANGED <<text, tasks, cached, shown, done, raced>>

EditorOpen ==
  /\ ~opened
  /\ opened' = TRUE
  /\ buffer' = disk
  /\ UNCHANGED <<disk, last>>
  /\ Send("open")

EditorChange ==
  /\ opened
  /\ last < MaxVersion
  /\ last' = last + 1
  /\ buffer' = last + 1
  /\ UNCHANGED <<opened, disk>>
  /\ \E kind \in ChangeKinds : Send(kind)

EditorClose ==
  /\ opened
  /\ opened' = FALSE
  /\ UNCHANGED <<buffer, disk, last>>
  /\ Send("close")

\* The server's handler for saved files does nothing.
EditorSave ==
  /\ opened
  /\ disk' = buffer
  /\ UNCHANGED <<opened, buffer, last, inbox, text, tasks, cached, shown, done, raced>>

Editor == EditorOpen \/ EditorChange \/ EditorClose \/ EditorSave

-------------------------------------------------------------------------------
\* The server handles one message after the other.

Receive(kind) ==
  /\ inbox # <<>>
  /\ Head(inbox).kind = kind
  /\ inbox' = Tail(inbox)
  /\ UNCHANGED editor

\* go publishDiagnostics(ctx, ws, path)
GoPublish ==
  /\ publishing + Total(notifying) < MaxPublications
  /\ publishing' = publishing + 1
  /\ UNCHANGED <<fired, running, notifying, cached, shown>>

\* Mutant: a timer is taken for stopped where there is none.
StoppedAnyway == timers - 1

\* timer.Stop of the document's own timer
Stopped == IF timers = 0 THEN 0 ELSE timers - 1

Arrives(version) ==
  /\ text' = version
  /\ done' = done \ {version}
  /\ raced' = (raced /\ (InChild # {}))

\* A new document has no timer to stop.
DidOpen ==
  /\ Receive("open")
  /\ Arrives(Head(inbox).version)
  /\ timers' = timers + 1
  /\ GoPublish

\* Mutant: a change leaves the validation to one that has started, if there is one.
DidChangeIfQuiet ==
  /\ Receive("whole")
  /\ Arrives(Head(inbox).version)
  /\ timers' = IF InChild # {} THEN timers ELSE Stopped + 1
  /\ GoPublish

DidChangeWhole ==
  /\ Receive("whole")
  /\ Arrives(Head(inbox).version)
  /\ timers' = (IF text = None THEN timers ELSE Stopped) + 1
  /\ GoPublish

\* Changes of ranges are not TextDocumentContentChangeEventWhole.
DidChangeRanges ==
  /\ Receive("ranges")
  /\ GoPublish
  /\ UNCHANGED <<text, timers, done, raced>>

\* Mutant: closing forgets the document but not its timer.
DidCloseTicking ==
  /\ Receive("close")
  /\ text' = None
  /\ cached' = None
  /\ shown' = None
  /\ UNCHANGED <<timers, fired, running, publishing, notifying, done, raced>>

DidClose ==
  /\ Receive("close")
  /\ text' = None
  /\ timers' = Stopped
  /\ cached' = None
  /\ shown' = None
  /\ UNCHANGED <<fired, running, publishing, notifying, done, raced>>

Handle == DidOpen \/ DidChangeWhole \/ DidChangeRanges \/ DidClose

-------------------------------------------------------------------------------
\* Validation: the timer's function, in a goroutine of its own.

Fire ==
  /\ timers > 0
  /\ fired + Total(running) < MaxValidations
  /\ timers' = timers - 1
  /\ fired' = fired + 1
  /\ UNCHANGED <<editor, inbox, text, running, cached, publishing, notifying, shown, done, raced>>

\* Mutant: the text is validated that is in the file.
GetTextOfFile == disk

\* GetText falls back to the file.
GetText == IF text # None THEN text ELSE disk

Read ==
  /\ fired > 0
  /\ fired' = fired - 1
  /\ running' = Plus(running, GetText)
  /\ raced' = (raced \/ InChild \ {GetText} # {})
  /\ UNCHANGED <<editor, inbox, text, timers, cached, publishing, notifying, shown, done>>

\* SetDiagnostics; the server registers no callback to be told of it.
Finish(v) ==
  /\ running[v] > 0
  /\ running' = Minus(running, v)
  /\ cached' \in {v} \cup (IF CanFail THEN {None} ELSE {})
  /\ done' = done \cup {v}
  /\ UNCHANGED <<editor, inbox, text, timers, fired, publishing, notifying, shown, raced>>

\* No temporary file could be written.
NoTempFile(v) ==
  /\ CanFail
  /\ running[v] > 0
  /\ running' = Minus(running, v)
  /\ done' = done \cup {v}
  /\ raced' = TRUE
  /\ UNCHANGED <<editor, inbox, text, timers, fired, publishing, notifying, cached, shown>>

Return(v) == Finish(v) \/ NoTempFile(v)

\* publishDiagnostics

ReadCache ==
  /\ publishing > 0
  /\ publishing' = publishing - 1
  /\ notifying' = Plus(notifying, cached)
  /\ UNCHANGED <<editor, inbox, text, timers, fired, running, cached, shown, done, raced>>

Notify(r) ==
  /\ notifying[r] > 0
  /\ notifying' = Minus(notifying, r)
  /\ shown' = r
  /\ UNCHANGED <<editor, inbox, text, timers, fired, running, publishing, cached, done, raced>>

Next ==
  \/ Editor
  \/ Handle
  \/ Fire
  \/ Read
  \/ \E v \in Version : Return(v)
  \/ ReadCache
  \/ \E r \in Result : Notify(r)

\* Messages are handled, timers fire, goroutines go on and child processes
\* end; the editor may stop at any time.
Fairness ==
  /\ WF_vars(Handle)
  /\ WF_vars(Fire)
  /\ WF_vars(Read)
  /\ \A v \in Version : WF_vars(Return(v))
  /\ WF_vars(ReadCache)
  /\ \A r \in Result : WF_vars(Notify(r))

Spec == Init /\ [][Next]_vars /\ Fairness

-------------------------------------------------------------------------------
TypeOK ==
  /\ opened \in BOOLEAN
  /\ buffer \in Version /\ disk \in Version /\ last \in Version
  /\ inbox \in Seq([kind : {"open", "whole", "ranges", "close"}, version : Version])
  /\ Len(inbox) <= MaxInbox
  /\ text \in Result
  /\ timers \in Nat
  /\ fired \in Nat
  /\ running \in [Version -> Nat]
  /\ cached \in Result
  /\ publishing \in Nat
  /\ notifying \in [Result -> Nat]
  /\ shown \in Result
  /\ done \subseteq Version
  /\ raced \in BOOLEAN

\* Debouncing: however opening, changes and closing follow each other and the
\* timers fire between them, at most one validation is due, and none for a
\* document that is closed (scheduleValidate, CloseDocument).
OneTimer == timers <= (IF text = None THEN 0 ELSE 1)

\* Every text that reaches the server is validated unless it is replaced or
\* closed: a change that meets a timer about to fire, or a validation that
\* has started, does not get lost (scheduleValidate, validate).
ChangesAreValidated == \A v \in Version : text = v ~> (v \in done \/ text # v)

AtRest == inbox = <<>> /\ timers = 0 /\ fired = 0 /\ InChild = {}

\* When nothing is left to do, what is cached for an open document belongs to
\* its text, or the validation could not run; the exception is a validation of
\* an older text that was still running when the last one started.
CacheIsOfText == AtRest /\ text # None /\ ~raced => cached \in {text, None}

\* The editor sees the diagnostics of what is on the screen once it is left
\* alone.
EditorSeesLatest ==
  \A v \in Version : (opened /\ buffer = v) ~> (shown = v \/ ~opened \/ buffer # v)
===============================================================================
