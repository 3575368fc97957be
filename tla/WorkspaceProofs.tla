---------------------------- MODULE WorkspaceProofs ----------------------------
(***************************************************************************)
(* Theorems about the language server's workspace, for any number of       *)
(* edits, messages, validations and publications.                          *)
(***************************************************************************)
EXTENDS Workspace, SequenceTheorems, TLAPS

MessageKind == {"open", "whole", "ranges", "close"}
Message     == [kind : MessageKind, version : Version]

\* The editor opens what is closed and changes or closes what is open, and the
\* server is as far as the messages it has handled.
InOrder ==
  /\ inbox # <<>> => (Head(inbox).kind = "open" <=> text = None)
  /\ \A i \in 1 .. Len(inbox) - 1 :
       inbox[i + 1].kind = "open" <=> inbox[i].kind = "close"
  /\ opened <=> IF inbox = <<>> THEN text # None
                                ELSE inbox[Len(inbox)].kind # "close"

\* Once no validation is due, those that run are of the text; once none runs,
\* the cache is.
CacheInv ==
  text # None /\ ~raced /\ timers = 0 /\ fired = 0 =>
    \/ InChild = {text}
    \/ InChild = {} /\ cached \in {text, None}

IInv == TypeOK /\ InOrder /\ OneTimer /\ CacheInv

LEMMA VersionIsText == \A v \in Version : v # None
  BY WorkspaceAssumption DEF Version

-------------------------------------------------------------------------------
\* Bags of validations and of publications.

LEMMA PlusType ==
  ASSUME NEW S, NEW bag \in [S -> Nat], NEW x \in S
  PROVE  Plus(bag, x) \in [S -> Nat]
  BY DEF Plus

LEMMA MinusType ==
  ASSUME NEW S, NEW bag \in [S -> Nat], NEW x \in S, bag[x] > 0
  PROVE  Minus(bag, x) \in [S -> Nat]
  BY DEF Minus

\* A validation more.
LEMMA InChildPlus ==
  ASSUME running \in [Version -> Nat], NEW v \in Version, running' = Plus(running, v)
  PROVE  InChild' = InChild \cup {v}
  BY DEF Plus, InChild

\* A validation less: if all are of one text, so are those that are left.
LEMMA InChildMinus ==
  ASSUME running \in [Version -> Nat], NEW v \in Version, running[v] > 0,
         running' = Minus(running, v)
  PROVE  /\ v \in InChild
         /\ InChild' \subseteq InChild
         /\ InChild \ {v} \subseteq InChild'
  BY DEF Minus, InChild

-------------------------------------------------------------------------------
LEMMA InitInv == Init => IInv
<1> SUFFICES ASSUME Init PROVE IInv
  OBVIOUS
<1> USE DEF Init
<1>1. TypeOK
  BY WorkspaceAssumption DEF TypeOK, Version, Result
<1>2. InOrder
  BY DEF InOrder
<1>3. OneTimer
  BY DEF OneTimer
<1>4. CacheInv
  BY DEF CacheInv
<1> QED
  BY <1>1, <1>2, <1>3, <1>4 DEF IInv

-------------------------------------------------------------------------------
\* The inbox.

\* A message is sent that fits what was sent before.
LEMMA SendInOrder ==
  ASSUME TypeOK, InOrder, NEW m \in Message, inbox' = Append(inbox, m),
         text' = text, m.kind = "open" <=> ~opened,
         opened' \in BOOLEAN, opened' <=> m.kind # "close"
  PROVE  InOrder'
<1> DEFINE n == Len(inbox)
<1>1. /\ n \in Nat
      /\ Len(inbox') = n + 1
      /\ inbox'[n + 1] = m
      /\ \A i \in 1 .. n : inbox'[i] = inbox[i]
  BY DEF TypeOK, Message
<1>2. inbox' # <<>>
  BY <1>1
<1>3. Head(inbox') = IF n = 0 THEN m ELSE Head(inbox)
  BY <1>1 DEF TypeOK, Message
<1>4. n = 0 <=> inbox = <<>>
  BY DEF TypeOK
<1>5. inbox' # <<>> => (Head(inbox').kind = "open" <=> text' = None)
  BY <1>3, <1>4 DEF InOrder
<1>6. ASSUME NEW i \in 1 .. Len(inbox') - 1
      PROVE  inbox'[i + 1].kind = "open" <=> inbox'[i].kind = "close"
  <2>1. CASE i = n
    BY <2>1, <1>1, <1>4 DEF InOrder
  <2>2. CASE i # n
    BY <2>2, <1>1 DEF InOrder
  <2> QED
    BY <2>1, <2>2
<1>7. opened' <=> IF inbox' = <<>> THEN text' # None
                                   ELSE inbox'[Len(inbox')].kind # "close"
  BY <1>1, <1>2
<1> QED
  BY <1>5, <1>6, <1>7 DEF InOrder

\* The first message is handled; the text is there afterwards unless it closes.
LEMMA ReceiveInOrder ==
  ASSUME TypeOK, InOrder, NEW kind \in MessageKind, Receive(kind),
         text' # None <=> kind # "close"
  PROVE  InOrder'
<1> DEFINE n == Len(inbox)
<1>1. /\ n \in Nat /\ n > 0
      /\ inbox' = Tail(inbox)
      /\ inbox' \in Seq(Message)
      /\ Len(inbox') = n - 1
      /\ \A i \in 1 .. n - 1 : inbox'[i] = inbox[i + 1]
      /\ Head(inbox) = inbox[1]
      /\ inbox[1].kind = kind
      /\ opened' = opened
  <2>1. inbox \in Seq(Message) /\ inbox # <<>>
    BY DEF TypeOK, Message, MessageKind, Receive
  <2>2. n \in Nat /\ n > 0
    BY <2>1, EmptySeq
  <2> QED
    BY <2>1, <2>2, HeadTailProperties DEF Receive, editor
<1>2. inbox' = <<>> <=> n = 1
  <2>1. inbox' = <<>> => Len(inbox') = 0
    BY EmptySeq
  <2>2. inbox' # <<>> => Len(inbox') # 0
    BY <1>1, EmptySeq
  <2> QED
    BY <2>1, <2>2, <1>1
<1>3. inbox' # <<>> => (Head(inbox').kind = "open" <=> text' = None)
  <2> SUFFICES ASSUME inbox' # <<>>
               PROVE  Head(inbox').kind = "open" <=> text' = None
    OBVIOUS
  <2>1. n > 1 /\ Head(inbox') = inbox[2]
    BY <1>1, <1>2
  <2>2. inbox[2].kind = "open" <=> inbox[1].kind = "close"
    BY <2>1, <1>1 DEF InOrder
  <2> QED
    BY <2>1, <2>2, <1>1
<1>4. ASSUME NEW i \in 1 .. Len(inbox') - 1
      PROVE  inbox'[i + 1].kind = "open" <=> inbox'[i].kind = "close"
  BY <1>1 DEF InOrder
<1>5. opened' <=> IF inbox' = <<>> THEN text' # None
                                   ELSE inbox'[Len(inbox')].kind # "close"
  <2>1. opened <=> inbox[n].kind # "close"
    BY <1>1 DEF InOrder
  <2>2. CASE n = 1
    BY <2>1, <2>2, <1>1, <1>2
  <2>3. CASE n > 1
    <3>1. inbox'[n - 1] = inbox[n]
      BY <2>3, <1>1
    <3> QED
      BY <2>1, <2>3, <3>1, <1>1, <1>2
  <2> QED
    BY <2>2, <2>3, <1>1
<1> QED
  BY <1>3, <1>4, <1>5 DEF InOrder

-------------------------------------------------------------------------------
\* Types.

LEMMA SendType ==
  ASSUME TypeOK, NEW kind \in MessageKind, buffer' \in Version, Send(kind)
  PROVE  /\ inbox' \in Seq(Message)
         /\ Len(inbox') <= MaxInbox
<1> DEFINE m == [kind |-> kind, version |-> buffer']
<1>1. inbox \in Seq(Message) /\ m \in Message
  BY DEF TypeOK, Message, MessageKind
<1>2. inbox' = Append(inbox, m) /\ Len(inbox) < MaxInbox
  BY DEF Send
<1>3. Len(inbox') = Len(inbox) + 1 /\ inbox' \in Seq(Message)
  BY <1>1, <1>2, AppendProperties
<1>4. Len(inbox) \in Nat /\ MaxInbox \in Nat
  BY <1>1, WorkspaceAssumption
<1> QED
  BY <1>2, <1>3, <1>4

LEMMA ReceiveType ==
  ASSUME TypeOK, NEW kind \in MessageKind, Receive(kind)
  PROVE  /\ inbox' \in Seq(Message)
         /\ Len(inbox') <= MaxInbox
         /\ Head(inbox).version \in Version
<1>1. inbox \in Seq(Message) /\ inbox # <<>> /\ inbox' = Tail(inbox)
  BY DEF TypeOK, Message, MessageKind, Receive
<1>2. Head(inbox) \in Message /\ inbox' \in Seq(Message) /\ Len(inbox') = Len(inbox) - 1
  BY <1>1, HeadTailProperties
<1>3. Len(inbox) <= MaxInbox /\ MaxInbox \in Nat /\ Len(inbox) \in Nat
  BY <1>1, WorkspaceAssumption DEF TypeOK
<1> QED
  BY <1>2, <1>3 DEF Message

\* What TypeOK says of the inbox.
ReceivedOK == inbox \in Seq(Message) /\ Len(inbox) <= MaxInbox

LEMMA ArrivesType ==
  ASSUME TypeOK, NEW kind \in MessageKind, Receive(kind), Arrives(Head(inbox).version)
  PROVE  /\ text' = Head(inbox).version
         /\ text' \in Version
         /\ text' \in Result
         /\ done' \subseteq Version
         /\ raced' \in BOOLEAN
<1>1. Head(inbox).version \in Version
  BY ReceiveType
<1>2. text' = Head(inbox).version
  BY DEF Arrives
<1>3. done' \subseteq Version
  BY DEF Arrives, TypeOK
<1>4. raced' \in BOOLEAN
  BY Zenon DEF Arrives
<1> QED
  BY <1>1, <1>2, <1>3, <1>4 DEF Result

LEMMA TypeInv == TypeOK /\ [Next]_vars => TypeOK'
<1> SUFFICES ASSUME TypeOK, [Next]_vars PROVE TypeOK'
  OBVIOUS
<1>1. ASSUME Editor PROVE TypeOK'
  <2>1. CASE EditorSave
    BY <2>1 DEF EditorSave, TypeOK, tasks
  <2>2. CASE EditorOpen
    <3>1. Send("open") /\ buffer' \in Version
      BY <2>2 DEF EditorOpen, TypeOK
    <3>2. inbox' \in Seq(Message) /\ Len(inbox') <= MaxInbox
      BY <3>1, SendType DEF MessageKind
    <3> QED
      BY <2>2, <3>2 DEF EditorOpen, Send, TypeOK, tasks, Message, MessageKind
  <2>3. CASE EditorChange
    <3>1. last + 1 \in Version
      BY <2>3, WorkspaceAssumption DEF EditorChange, TypeOK, Version
    <3>2. PICK kind \in ChangeKinds : Send(kind)
      BY <2>3 DEF EditorChange
    <3>3. inbox' \in Seq(Message) /\ Len(inbox') <= MaxInbox
      BY <2>3, <3>1, <3>2, SendType, WorkspaceAssumption DEF EditorChange, MessageKind
    <3> QED
      BY <2>3, <3>1, <3>2, <3>3 DEF EditorChange, Send, TypeOK, tasks, Message, MessageKind
  <2>4. CASE EditorClose
    <3>1. Send("close") /\ buffer' \in Version
      BY <2>4 DEF EditorClose, TypeOK
    <3>2. inbox' \in Seq(Message) /\ Len(inbox') <= MaxInbox
      BY <3>1, SendType DEF MessageKind
    <3> QED
      BY <2>4, <3>2 DEF EditorClose, Send, TypeOK, tasks, Message, MessageKind
  <2> QED
    BY <1>1, <2>1, <2>2, <2>3, <2>4 DEF Editor
<1>2. ASSUME Handle PROVE TypeOK'
  <2>1. CASE DidOpen
    <3>1. Receive("open")
      BY <2>1 DEF DidOpen
    <3>2. ReceivedOK'
      BY <3>1, ReceiveType DEF MessageKind, ReceivedOK
    <3>3. text' \in Result /\ done' \subseteq Version /\ raced' \in BOOLEAN
      BY <2>1, <3>1, ArrivesType DEF DidOpen, MessageKind
    <3>4. timers' \in Nat /\ publishing' \in Nat
      BY <2>1 DEF DidOpen, GoPublish, TypeOK
    <3> QED
      BY <2>1, <3>1, <3>2, <3>3, <3>4
      DEF DidOpen, Receive, GoPublish, TypeOK, editor, ReceivedOK, Message, MessageKind
  <2>2. CASE DidChangeWhole
    <3>1. Receive("whole")
      BY <2>2 DEF DidChangeWhole
    <3>2. ReceivedOK'
      BY <3>1, ReceiveType DEF MessageKind, ReceivedOK
    <3>3. text' \in Result /\ done' \subseteq Version /\ raced' \in BOOLEAN
      BY <2>2, <3>1, ArrivesType DEF DidChangeWhole, MessageKind
    <3>4. timers' \in Nat /\ publishing' \in Nat
      BY <2>2 DEF DidChangeWhole, GoPublish, Stopped, TypeOK
    <3> QED
      BY <2>2, <3>1, <3>2, <3>3, <3>4
      DEF DidChangeWhole, Receive, GoPublish, TypeOK, editor, ReceivedOK, Message, MessageKind
  <2>3. CASE DidChangeRanges
    <3>1. Receive("ranges")
      BY <2>3 DEF DidChangeRanges
    <3>2. ReceivedOK'
      BY <3>1, ReceiveType DEF MessageKind, ReceivedOK
    <3> QED
      BY <2>3, <3>1, <3>2
      DEF DidChangeRanges, Receive, GoPublish, TypeOK, editor, ReceivedOK, Message, MessageKind
  <2>4. CASE DidClose
    <3>1. Receive("close")
      BY <2>4 DEF DidClose
    <3>2. ReceivedOK'
      BY <3>1, ReceiveType DEF MessageKind, ReceivedOK
    <3>3. timers' \in Nat
      BY <2>4 DEF DidClose, Stopped, TypeOK
    <3> QED
      BY <2>4, <3>1, <3>2, <3>3
      DEF DidClose, Receive, TypeOK, Result, editor, ReceivedOK, Message, MessageKind
  <2> QED
    BY <1>2, <2>1, <2>2, <2>3, <2>4 DEF Handle
<1>3. ASSUME Fire PROVE TypeOK'
  BY <1>3 DEF Fire, TypeOK, editor
<1>4. ASSUME Read PROVE TypeOK'
  <2>1. GetText \in Version
    BY VersionIsText DEF GetText, TypeOK, Result
  <2>2. running' \in [Version -> Nat]
    BY <1>4, <2>1, PlusType DEF Read, TypeOK
  <2> QED
    BY <1>4, <2>2 DEF Read, TypeOK, editor
<1>5. ASSUME NEW v \in Version, Return(v) PROVE TypeOK'
  <2>1. running' \in [Version -> Nat]
    BY <1>5, MinusType DEF Return, Finish, NoTempFile, TypeOK
  <2>2. cached' \in Result
    BY <1>5 DEF Return, Finish, NoTempFile, TypeOK, Result
  <2> QED
    BY <1>5, <2>1, <2>2 DEF Return, Finish, NoTempFile, TypeOK, editor
<1>6. ASSUME ReadCache PROVE TypeOK'
  <2>1. notifying' \in [Result -> Nat]
    BY <1>6, PlusType DEF ReadCache, TypeOK
  <2> QED
    BY <1>6, <2>1 DEF ReadCache, TypeOK, editor
<1>7. ASSUME NEW r \in Result, Notify(r) PROVE TypeOK'
  <2>1. notifying' \in [Result -> Nat]
    BY <1>7, MinusType DEF Notify, TypeOK
  <2> QED
    BY <1>7, <2>1 DEF Notify, TypeOK, editor
<1>8. ASSUME UNCHANGED vars PROVE TypeOK'
  BY <1>8 DEF vars, editor, tasks, TypeOK
<1> QED
  BY <1>1, <1>2, <1>3, <1>4, <1>5, <1>6, <1>7, <1>8 DEF Next

-------------------------------------------------------------------------------
\* The order of the messages.

LEMMA OrderInv == TypeOK /\ InOrder /\ [Next]_vars => InOrder'
<1> SUFFICES ASSUME TypeOK, InOrder, [Next]_vars PROVE InOrder'
  OBVIOUS
<1> DEFINE m(kind) == [kind |-> kind, version |-> buffer']
<1>1. CASE EditorOpen
  <2>1. buffer' \in Version
    BY <1>1 DEF EditorOpen, TypeOK
  <2>2. m("open") \in Message /\ inbox' = Append(inbox, m("open"))
    BY <1>1, <2>1 DEF EditorOpen, Send, Message, MessageKind
  <2> QED
    BY <1>1, <2>2, SendInOrder DEF EditorOpen, Send
<1>2. CASE EditorChange
  <2>1. buffer' \in Version
    BY <1>2, WorkspaceAssumption DEF EditorChange, TypeOK, Version
  <2>2. PICK kind \in ChangeKinds : Send(kind)
    BY <1>2 DEF EditorChange
  <2>3. kind \in {"whole", "ranges"}
    BY WorkspaceAssumption
  <2>4. m(kind) \in Message /\ inbox' = Append(inbox, m(kind))
    BY <2>1, <2>2, <2>3 DEF Send, Message, MessageKind
  <2>5. opened /\ opened' = opened /\ text' = text
    BY <1>2, <2>2 DEF EditorChange, Send
  <2> QED
    BY <2>3, <2>4, <2>5, SendInOrder DEF TypeOK
<1>3. CASE EditorClose
  <2>1. buffer' \in Version
    BY <1>3 DEF EditorClose, TypeOK
  <2>2. m("close") \in Message /\ inbox' = Append(inbox, m("close"))
    BY <1>3, <2>1 DEF EditorClose, Send, Message, MessageKind
  <2> QED
    BY <1>3, <2>2, SendInOrder DEF EditorClose, Send
<1>4. CASE DidOpen
  <2>1. Receive("open")
    BY <1>4 DEF DidOpen
  <2>2. text' # None
    BY <1>4, <2>1, ArrivesType, VersionIsText DEF DidOpen, MessageKind
  <2> QED
    BY <2>1, <2>2, ReceiveInOrder DEF MessageKind
<1>5. CASE DidChangeWhole
  <2>1. Receive("whole")
    BY <1>5 DEF DidChangeWhole
  <2>2. text' # None
    BY <1>5, <2>1, ArrivesType, VersionIsText DEF DidChangeWhole, MessageKind
  <2> QED
    BY <2>1, <2>2, ReceiveInOrder DEF MessageKind
<1>6. CASE DidChangeRanges
  <2>1. Receive("ranges")
    BY <1>6 DEF DidChangeRanges
  <2>2. text' # None
    BY <1>6 DEF DidChangeRanges, Receive, InOrder
  <2> QED
    BY <2>1, <2>2, ReceiveInOrder DEF MessageKind
<1>7. CASE DidClose
  <2>1. Receive("close") /\ text' = None
    BY <1>7 DEF DidClose
  <2> QED
    BY <2>1, ReceiveInOrder DEF MessageKind
<1>8. CASE UNCHANGED <<opened, inbox, text>>
  BY <1>8 DEF InOrder
<1>9. \/ EditorOpen \/ EditorChange \/ EditorClose
      \/ DidOpen \/ DidChangeWhole \/ DidChangeRanges \/ DidClose
      \/ UNCHANGED <<opened, inbox, text>>
  BY DEF Next, Editor, EditorSave, Handle, Fire, Read, Return, Finish, NoTempFile,
         ReadCache, Notify, vars, editor
<1> QED
  BY <1>1, <1>2, <1>3, <1>4, <1>5, <1>6, <1>7, <1>8, <1>9

-------------------------------------------------------------------------------
\* Timers.

LEMMA TimerInv == TypeOK /\ InOrder /\ OneTimer /\ [Next]_vars => OneTimer'
<1> SUFFICES ASSUME TypeOK, InOrder, OneTimer, [Next]_vars PROVE OneTimer'
  OBVIOUS
<1> USE DEF OneTimer, TypeOK
<1>1. CASE DidOpen
  <2>1. text = None /\ timers = 0
    BY <1>1 DEF DidOpen, Receive, InOrder
  <2>2. text' # None
    BY <1>1, ArrivesType, VersionIsText DEF DidOpen, MessageKind
  <2> QED
    BY <1>1, <2>1, <2>2 DEF DidOpen
<1>2. CASE DidChangeWhole
  <2>1. text # None
    BY <1>2 DEF DidChangeWhole, Receive, InOrder
  <2>2. text' # None
    BY <1>2, ArrivesType, VersionIsText DEF DidChangeWhole, MessageKind
  <2>3. Stopped = 0
    BY <2>1 DEF Stopped
  <2> QED
    BY <1>2, <2>1, <2>2, <2>3 DEF DidChangeWhole
<1>3. CASE DidClose
  <2>1. Stopped = 0
    BY DEF Stopped
  <2> QED
    BY <1>3, <2>1 DEF DidClose
<1>4. CASE Fire
  BY <1>4 DEF Fire
<1>5. CASE UNCHANGED <<text, timers>>
  BY <1>5
<1>6. DidOpen \/ DidChangeWhole \/ DidClose \/ Fire \/ UNCHANGED <<text, timers>>
  BY DEF Next, Editor, EditorOpen, EditorChange, EditorClose, EditorSave, Send, Handle,
         DidChangeRanges, Read, Return, Finish, NoTempFile, ReadCache, Notify, vars, tasks
<1> QED
  BY <1>1, <1>2, <1>3, <1>4, <1>5, <1>6

-------------------------------------------------------------------------------
\* What runs and what is cached.

LEMMA CacheStep == IInv /\ [Next]_vars => CacheInv'
<1> SUFFICES ASSUME IInv, [Next]_vars,
                    text' # None, ~raced', timers' = 0, fired' = 0
             PROVE  \/ InChild' = {text'}
                    \/ InChild' = {} /\ cached' \in {text', None}
  BY DEF CacheInv
<1> USE DEF IInv
<1>1. CASE DidOpen
  BY <1>1 DEF DidOpen, TypeOK
<1>2. CASE DidChangeWhole
  BY <1>2 DEF DidChangeWhole, Stopped, TypeOK
<1>3. CASE DidClose
  BY <1>3 DEF DidClose
<1>4. CASE Fire
  BY <1>4 DEF Fire, TypeOK
<1>5. CASE Read
  <2>1. GetText = text /\ text \in Version
    BY <1>5 DEF Read, GetText, TypeOK, Result
  <2>2. InChild' = InChild \cup {text}
    BY <1>5, <2>1, InChildPlus DEF Read, TypeOK
  <2>3. InChild \subseteq {text}
    BY <1>5, <2>1 DEF Read
  <2> QED
    BY <1>5, <2>2, <2>3 DEF Read
<1>6. ASSUME NEW v \in Version, Finish(v)
      PROVE  \/ InChild' = {text'}
             \/ InChild' = {} /\ cached' \in {text', None}
  <2>1. v \in InChild /\ InChild' \subseteq InChild
    BY <1>6, InChildMinus DEF Finish, TypeOK
  <2>2. text # None /\ ~raced /\ timers = 0 /\ fired = 0 /\ text' = text
    BY <1>6 DEF Finish
  <2>3. InChild = {text} /\ v = text
    BY <2>1, <2>2 DEF CacheInv
  <2>4. cached' \in {v, None}
    BY <1>6 DEF Finish
  <2> QED
    BY <2>1, <2>2, <2>3, <2>4
<1>7. ASSUME NEW v \in Version, NoTempFile(v) PROVE FALSE
  BY <1>7 DEF NoTempFile
<1>8. CASE UNCHANGED <<text, raced, timers, fired, running, cached>>
  <2>1. InChild' = InChild
    BY <1>8 DEF InChild
  <2> QED
    BY <1>8, <2>1 DEF CacheInv
<1>9. \/ DidOpen \/ DidChangeWhole \/ DidClose \/ Fire \/ Read
      \/ \E v \in Version : Finish(v) \/ NoTempFile(v)
      \/ UNCHANGED <<text, raced, timers, fired, running, cached>>
  BY DEF Next, Editor, EditorOpen, EditorChange, EditorClose, EditorSave, Send, Handle,
         DidChangeRanges, GoPublish, Return, ReadCache, Notify, vars, tasks
<1> QED
  BY <1>1, <1>2, <1>3, <1>4, <1>5, <1>6, <1>7, <1>8, <1>9

-------------------------------------------------------------------------------
LEMMA Inductive == IInv /\ [Next]_vars => IInv'
  BY TypeInv, OrderInv, TimerInv, CacheStep DEF IInv

LEMMA Invariant == Spec => []IInv
  BY InitInv, Inductive, PTL DEF Spec

\* The handlers, the timers and the goroutines keep the workspace well formed.
THEOREM WorkspaceTypeCorrect == Spec => []TypeOK
<1>1. IInv => TypeOK
  BY DEF IInv
<1> QED
  BY <1>1, Invariant, PTL

\* However opening, changes and closing of a document follow each other, at
\* most one validation of it is due, and none once it is closed: OpenDocument
\* makes a document whose scheduleValidate finds no timer to stop, which is
\* right because the editor only opens what is closed, and CloseDocument has
\* stopped the timer (OpenDocument, scheduleValidate, CloseDocument).
THEOREM OneValidationDue == Spec => []OneTimer
<1>1. IInv => OneTimer
  BY DEF IInv
<1> QED
  BY <1>1, Invariant, PTL

\* Whatever order the goroutines that validate a document run in, once none is
\* left the diagnostics that are kept are those of the text that is kept,
\* provided that no validation of another text overlapped the last ones and
\* that none failed before it could store anything (validate,
\* SetDiagnostics).
THEOREM CacheBelongsToText == Spec => []CacheIsOfText
<1>1. IInv => CacheIsOfText
  BY DEF IInv, CacheInv, CacheIsOfText, AtRest
<1> QED
  BY <1>1, Invariant, PTL

===============================================================================
