------------------------------ MODULE ChatStore ------------------------------
(***************************************************************************)
(* The store of the chat UI: src/frontend/src/store/useChats.ts over the   *)
(* IndexedDB wrapper src/frontend/src/lib/db.ts, called by the components. *)
(*                                                                         *)
(* Scripts run one at a time and to the next await.  Every call of the     *)
(* store is a task, cut at its awaits; between two pieces of one any other *)
(* may run.  A database operation and the piece of script that follows it  *)
(* are one step: nothing but another operation can see its effect before,  *)
(* and the database runs operations that conflict in the order issued.     *)
(***************************************************************************)
EXTENDS Integers, FiniteSets, SequencesExt

CONSTANTS
  Chats,      \* identifiers of chats
  Earlier,    \* the chat kept from an earlier visit
  MaxTasks,   \* bound: calls of the store
  MaxRuns,    \* bound: those of them that ask for an answer
  MaxTokens,  \* bound: tokens of an answer
  MaxNow,     \* bound: instants; the earlier chat was asked and answered at 0 and 1
  None

ASSUME ChatsAssumption == Earlier \in Chats /\ None \notin Chats
ASSUME BoundsAssumption == MaxTasks \in Nat \ {0} /\ MaxTokens \in Nat \ {0} /\ MaxRuns \in Nat /\ MaxNow \in Nat \ {0, 1}

\* Task 0 stands for the earlier visit.
Task == 1 .. MaxTasks

\* The time of the last use orders the sidebar and is left out.
Row == [id : Chats, title : {"derived", "renamed"}]

\* Contents are the number of tokens.  A task makes at most one question and
\* one answer, which gives a message its identity: <<role, of>>.
Message == [of : 0 .. MaxTasks, role : {"user", "assistant"}, chat : Chats, createdAt : 0 .. MaxNow,
            content : 0 .. MaxTokens, error : BOOLEAN]

VARIABLES
  now,      \* what Date.now() returned last
  page,     \* the state of useChats and its controller; streaming is streamingId # None
  stored,   \* the object stores chats and messages
  task,     \* task[t]: a call, where it is and what it has captured
  queue,    \* the tasks whose database operation is under way, in order of issue
  deleted   \* history: the answers deleted from the database, by task

vars == <<now, page, stored, task, queue, deleted>>
-----------------------------------------------------------------------------
\* filter: what is in the set stays, in its order.
Filter(s, set) ==
  LET stays == {i \in DOMAIN s : s[i] \in set}
      rank(i) == Cardinality({j \in stays : j <= i})
  IN [n \in 1 .. Cardinality(stays) |-> s[CHOOSE i \in stays : rank(i) = n]]

Rows(rows, id) == {row \in rows : row.id = id}
Others(rows, id) == rows \ Rows(rows, id)

\* put replaces what has the same key.
PutChat(db, row) == [db EXCEPT !.chats = Others(@, row.id) \cup {row}]
PutMessage(db, m) ==
  [db EXCEPT !.messages = {n \in @ : <<n.role, n.of>> # <<m.role, m.of>>} \cup {m}]

\* The list is read anew after the database was wiped or a backup imported.
Reloads == {"listing wiped", "listing imported"}

\* Object stores an operation works on, and whether it only reads.
Scope(pc) ==
  CASE pc \in {"opening chat", "touching", "renaming", "listing"} \cup Reloads -> {"chats"}
    [] pc \in {"asking", "dropping", "saving", "saving failure", "selecting"} -> {"messages"}
    [] pc \in {"removing", "wiping", "importing"} -> {"chats", "messages"}

Reads(pc) == pc \in {"listing", "selecting"} \cup Reloads

\* Transactions that overlap start in the order they were made, unless both read.
MayComplete(t) ==
  \E i \in DOMAIN queue :
    /\ queue[i] = t
    /\ \A j \in 1 .. i - 1 : LET u == queue[j] IN
         \/ Scope(task[t].pc) \cap Scope(task[u].pc) = {}
         \/ Reads(task[t].pc) /\ Reads(task[u].pc)
-----------------------------------------------------------------------------
Fresh == [pc |-> "none", asks |-> FALSE, chat |-> None, row |-> None, kept |-> <<>>, at |-> 0,
          content |-> 0]

Said(role, content, at) ==
  [of |-> 0, role |-> role, chat |-> Earlier, createdAt |-> at, content |-> content, error |-> FALSE]

EarlierMessages == <<Said("user", 1, 0), Said("assistant", 1, 1)>>
Backup == [chats |-> {[id |-> Earlier, title |-> "derived"]}, messages |-> ToSet(EarlierMessages)]

Page(chats, messages, id) ==
  [chats |-> chats, messages |-> messages, activeChatId |-> id, streamingId |-> None, controller |-> None]

\* The page has just been opened and has asked for the chats (App.tsx), or
\* shows the earlier chat with nothing under way.
Init ==
  /\ now = 2
  /\ stored = Backup
  /\ \/ page = Page({}, <<>>, None) /\ queue = <<1>>
     \/ page = Page(Backup.chats, EarlierMessages, Earlier) /\ queue = <<>>
  /\ task = [t \in Task |-> IF Contains(queue, t) THEN [Fresh EXCEPT !.pc = "listing"] ELSE Fresh]
  /\ deleted = {}

Streaming == page.streamingId # None

\* The next task begins with a database operation.
Begins(t, call) ==
  /\ task[t].pc = "none" /\ \A u \in 1 .. t - 1 : task[u].pc # "none"
  /\ task' = [task EXCEPT ![t] = call]
  /\ queue' = Append(queue, t)

Issues(t, call) ==
  /\ task' = [task EXCEPT ![t] = call]
  /\ queue' = Append(Filter(queue, Task \ {t}), t)

Returns(t) ==
  /\ task' = [task EXCEPT ![t] =
       [Fresh EXCEPT !.pc = "returned", !.asks = task[t].asks, !.content = task[t].content]]
  /\ queue' = Filter(queue, Task \ {t})
-----------------------------------------------------------------------------
(* The running answer *)

Answer(t, content, error) ==
  [of |-> t, role |-> "assistant", chat |-> task[t].chat, createdAt |-> task[t].at,
   content |-> content, error |-> error]

IsAnswer(m, t) == m.role = "assistant" /\ m.of = t

\* flush: nothing happens when the answer is not on the screen any more.
Flush(messages, t, content, error) ==
  [i \in DOMAIN messages |->
     IF IsAnswer(messages[i], t) THEN [messages[i] EXCEPT !.content = content, !.error = error]
     ELSE messages[i]]

\* Mutant: a run that ends leaves the composer to the run that has taken over.
EndedOwn(p, t) == IF p.streamingId = t THEN [p EXCEPT !.streamingId = None, !.controller = None]
                  ELSE [p EXCEPT !.controller = None]

\* The finally block, whoever's controller and flag those are by now.
Ended(p, t) == [p EXCEPT !.controller = None, !.streamingId = None]

\* Date.now(): time may or may not have passed since it was last asked for.
Instant == {n \in {now, now + 1} : n <= MaxNow}

\* runCompletion as far as the request, for the task of the given call; shown is
\* what is on the screen.  The settings, read once more, may have changed: the
\* provider may be gone, and answers come in one of two modes.
Runs(t, shown) ==
  \/ Returns(t) /\ page' = shown /\ UNCHANGED now
  \/ /\ now' \in Instant
     /\ page' = [shown EXCEPT
          !.messages = Append(@, [Answer(t, 0, FALSE) EXCEPT !.createdAt = now']),
          !.streamingId = t, !.controller = t]
     /\ \E pc \in {"streaming", "fetching"} :
          task' = [task EXCEPT ![t] = [@ EXCEPT !.pc = pc, !.at = now', !.row = None, !.kept = <<>>]]
     /\ queue' = Filter(queue, Task \ {t})

\* onToken.
Token(t) ==
  /\ task[t].pc = "streaming" /\ task[t].content < MaxTokens
  /\ task' = [task EXCEPT ![t].content = @ + 1]
  /\ page' = [page EXCEPT !.messages = Flush(@, t, task[t].content + 1, FALSE)]
  /\ UNCHANGED <<now, stored, queue, deleted>>

Running(t) == task[t].pc \in {"streaming", "fetching"}

\* The answer is complete: all of it has been seen, or arrives at once.
Completes(t) ==
  /\ Running(t)
  /\ \E content \in IF task[t].pc = "streaming" THEN {task[t].content} ELSE 1 .. MaxTokens :
       /\ Issues(t, [task[t] EXCEPT !.pc = "saving", !.content = content])
       /\ page' = [page EXCEPT !.messages = Flush(@, t, content, FALSE)]
  /\ UNCHANGED <<now, stored, deleted>>

Fails(t) ==
  /\ Running(t)
  /\ Issues(t, [task[t] EXCEPT !.pc = "saving failure"])
  /\ UNCHANGED <<now, page, stored, deleted>>

Stopped(p) == [p EXCEPT !.controller = None, !.streamingId = None]

\* Mutant: a stopped answer leaves no trace, whatever streamed in.
CaughtEmpty(t) ==
  /\ Returns(t)
  /\ page' = Ended([page EXCEPT !.messages = Filter(@, {m \in ToSet(@) : ~IsAnswer(m, t)})], t)

\* The abort is caught: what streamed in is kept, an empty answer is not.
Caught(t) ==
  IF task[t].content > 0
  THEN Issues(t, [task[t] EXCEPT !.pc = "saving"]) /\ page' = Stopped(page)
  ELSE /\ Returns(t)
       /\ page' = Ended([page EXCEPT !.messages = Filter(@, {m \in ToSet(@) : ~IsAnswer(m, t)})], t)

\* The abort rejects what the run awaits, so the run goes on as soon as stop
\* has returned.  A run that is saving awaits nothing that can be aborted.
Stop ==
  /\ Streaming
  /\ IF page.controller # None /\ Running(page.controller) THEN Caught(page.controller)
     ELSE page' = Stopped(page) /\ UNCHANGED <<task, queue>>
  /\ UNCHANGED <<now, stored, deleted>>

\* The answer is saved; touchChat goes on if the chat is in the sidebar.
Saved(t) ==
  LET rows == Rows(page.chats, task[t].chat) IN
  /\ task[t].pc = "saving" /\ MayComplete(t)
  /\ stored' = PutMessage(stored, Answer(t, task[t].content, FALSE))
  /\ IF rows = {} THEN Returns(t) /\ page' = Ended(page, t)
     ELSE /\ \E row \in rows : Issues(t, [task[t] EXCEPT !.pc = "touching", !.row = row])
          /\ UNCHANGED page
  /\ UNCHANGED <<now, deleted>>

\* Mutant: what is touched on the screen is the row as it is there by now.
TouchedMerging(t) ==
  /\ task[t].pc = "touching" /\ MayComplete(t)
  /\ stored' = PutChat(stored, task[t].row)
  /\ page' = Ended(page, t)
  /\ Returns(t)
  /\ UNCHANGED <<now, deleted>>

\* Mutant: the row is put at the top and stays where it was.
TouchedTwice(t) ==
  /\ task[t].pc = "touching" /\ MayComplete(t)
  /\ stored' = PutChat(stored, task[t].row)
  /\ page' = Ended([page EXCEPT !.chats = @ \cup {task[t].row}], t)
  /\ Returns(t)
  /\ UNCHANGED <<now, deleted>>

\* The row comes back to the sidebar even if the chat was removed meanwhile.
Touched(t) ==
  /\ task[t].pc = "touching" /\ MayComplete(t)
  /\ stored' = PutChat(stored, task[t].row)
  /\ page' = Ended([page EXCEPT !.chats = Others(@, task[t].chat) \cup {task[t].row}], t)
  /\ Returns(t)
  /\ UNCHANGED <<now, deleted>>

SavedFailure(t) ==
  /\ task[t].pc = "saving failure" /\ MayComplete(t)
  /\ stored' = PutMessage(stored, Answer(t, task[t].content, TRUE))
  /\ page' = Ended([page EXCEPT !.messages = Flush(@, t, task[t].content, TRUE)], t)
  /\ Returns(t)
  /\ UNCHANGED <<now, deleted>>
-----------------------------------------------------------------------------
(* send and regenerate *)

RunsLeft == Cardinality({t \in Task : task[t].asks}) < MaxRuns

\* Of a new identifier there is no trace.
New(id) ==
  /\ id \notin {Earlier, page.activeChatId} \cup {task[t].chat : t \in Task}
  /\ \A row \in stored.chats \cup page.chats : row.id # id
  /\ \A m \in stored.messages \cup ToSet(page.messages) : m.chat # id

\* A chat is made on the first question.
Send(t) ==
  LET call(pc, id) == [Fresh EXCEPT !.pc = pc, !.asks = TRUE, !.chat = id, !.at = now'] IN
  /\ ~Streaming /\ RunsLeft
  /\ now' \in Instant
  /\ \/ page.activeChatId # None /\ Begins(t, call("asking", page.activeChatId))
     \/ /\ page.activeChatId = None
        /\ \E id \in Chats :
             New(id) /\ Begins(t, [call("opening chat", id) EXCEPT !.row = [id |-> id, title |-> "derived"]])
  /\ UNCHANGED <<page, stored, deleted>>

Opened(t) ==
  /\ task[t].pc = "opening chat" /\ MayComplete(t)
  /\ stored' = PutChat(stored, task[t].row)
  /\ page' = [page EXCEPT !.chats = @ \cup {task[t].row}, !.activeChatId = task[t].chat]
  /\ Issues(t, [task[t] EXCEPT !.pc = "asking", !.row = None])
  /\ UNCHANGED <<now, deleted>>

Asked(t) ==
  LET question == [Answer(t, 1, FALSE) EXCEPT !.role = "user"] IN
  /\ task[t].pc = "asking" /\ MayComplete(t)
  /\ stored' = PutMessage(stored, question)
  /\ Runs(t, [page EXCEPT !.messages = Append(@, question)])
  /\ UNCHANGED deleted

\* The last answer, the messages before it, and the chat are captured.  The
\* button is there when the last message is an answer.
Regenerate(t) ==
  LET messages == page.messages
      last == messages[Len(messages)]
  IN
  /\ page.activeChatId # None /\ ~Streaming /\ RunsLeft
  /\ messages # <<>> /\ last.role = "assistant"
  /\ Begins(t, [Fresh EXCEPT !.pc = "dropping", !.asks = TRUE, !.chat = page.activeChatId,
                  !.at = last.createdAt,
                  !.kept = Filter(messages, {m \in ToSet(messages) : m.createdAt < last.createdAt})])
  /\ UNCHANGED <<now, page, stored, deleted>>

Drops(db, gone) ==
  /\ stored' = [db EXCEPT !.messages = @ \ gone]
  /\ deleted' = deleted \cup {m.of : m \in {n \in gone : n.role = "assistant"}}

\* deleteMessagesFrom.
Dropped(t) ==
  /\ task[t].pc = "dropping" /\ MayComplete(t)
  /\ Drops(stored, {m \in stored.messages : m.chat = task[t].chat /\ m.createdAt >= task[t].at})
  /\ Runs(t, [page EXCEPT !.messages = task[t].kept])
-----------------------------------------------------------------------------
(* The sidebar and the settings *)

NewChat ==
  /\ page' = [page EXCEPT !.activeChatId = None, !.messages = <<>>]
  /\ UNCHANGED <<now, stored, task, queue, deleted>>

\* hydrate, at the start and after an import.
Listed(t) ==
  /\ task[t].pc \in {"listing", "listing imported"} /\ MayComplete(t)
  /\ page' = [page EXCEPT !.chats = stored.chats]
  /\ Returns(t)
  /\ UNCHANGED <<now, stored, deleted>>

\* handleSelect, the remove button and commitRename: of a row in the sidebar.
Clicks(t, pc, row) ==
  /\ Begins(t, [Fresh EXCEPT !.pc = pc, !.chat = row.id,
                  !.row = IF pc = "renaming" THEN [row EXCEPT !.title = "renamed"] ELSE None])
  /\ UNCHANGED <<now, page, stored, deleted>>

Click(t) ==
  \E row \in page.chats, pc \in {"selecting", "removing", "renaming"} : Clicks(t, pc, row)

\* listMessages sorts by time; messages of one time are in no particular order.
ByTime(messages) ==
  {order \in SetToSeqs(messages) :
     \A i, j \in DOMAIN order : i < j => order[i].createdAt <= order[j].createdAt}

\* selectChat.  The messages of the earlier visit are older than all others.
Selected(t) ==
  LET found == {m \in stored.messages : m.chat = task[t].chat} IN
  /\ task[t].pc = "selecting" /\ MayComplete(t)
  /\ \E old \in ByTime({m \in found : m.of = 0}), new \in ByTime({m \in found : m.of # 0}) :
       page' = [page EXCEPT !.activeChatId = task[t].chat, !.messages = old \o new]
  /\ Returns(t)
  /\ UNCHANGED <<now, stored, deleted>>

Removed(t) ==
  LET id == task[t].chat IN
  /\ task[t].pc = "removing" /\ MayComplete(t)
  /\ Drops([stored EXCEPT !.chats = Others(@, id)], {m \in stored.messages : m.chat = id})
  /\ page' = [page EXCEPT !.chats = Others(@, id),
                !.activeChatId = IF @ = id THEN None ELSE @,
                !.messages = IF page.activeChatId = id THEN <<>> ELSE @]
  /\ Returns(t)
  /\ UNCHANGED now

\* A chat removed meanwhile is stored again, but not in the sidebar.
Renamed(t) ==
  /\ task[t].pc = "renaming" /\ MayComplete(t)
  /\ stored' = PutChat(stored, task[t].row)
  /\ page' = [page EXCEPT !.chats = {IF row.id = task[t].chat THEN task[t].row ELSE row : row \in @}]
  /\ Returns(t)
  /\ UNCHANGED <<now, deleted>>

\* doWipe: clearAll, then hydrate, then selectChat(null).
Wipe(t) ==
  /\ Begins(t, [Fresh EXCEPT !.pc = "wiping"])
  /\ UNCHANGED <<now, page, stored, deleted>>

Wiped(t) ==
  /\ task[t].pc = "wiping" /\ MayComplete(t)
  /\ Drops([stored EXCEPT !.chats = {}], stored.messages)
  /\ Issues(t, [task[t] EXCEPT !.pc = "listing wiped"])
  /\ UNCHANGED <<now, page>>

Relisted(t) ==
  /\ task[t].pc = "listing wiped" /\ MayComplete(t)
  /\ page' = [page EXCEPT !.chats = stored.chats, !.activeChatId = None, !.messages = <<>>]
  /\ Returns(t)
  /\ UNCHANGED <<now, stored, deleted>>

\* doImport of a backup made at the earlier visit: importData, then hydrate.
Import(t) ==
  /\ Begins(t, [Fresh EXCEPT !.pc = "importing"])
  /\ UNCHANGED <<now, page, stored, deleted>>

Imported(t) ==
  /\ task[t].pc = "importing" /\ MayComplete(t)
  /\ stored' = [chats |-> Others(stored.chats, Earlier) \cup Backup.chats,
                messages |-> {m \in stored.messages : m.of # 0} \cup Backup.messages]
  /\ Issues(t, [task[t] EXCEPT !.pc = "listing imported"])
  /\ UNCHANGED <<now, page, deleted>>
-----------------------------------------------------------------------------
\* A database operation completes.
Completion(t) ==
  Listed(t) \/ Opened(t) \/ Asked(t) \/ Dropped(t) \/ Saved(t) \/ Touched(t) \/ SavedFailure(t)
    \/ Selected(t) \/ Removed(t) \/ Renamed(t) \/ Wiped(t) \/ Relisted(t) \/ Imported(t)

AnswerEnds(t) == Completes(t) \/ Fails(t)

Next ==
  \/ \E t \in Task : Send(t) \/ Regenerate(t) \/ Click(t) \/ Wipe(t) \/ Import(t)
  \/ \E t \in Task : Token(t) \/ AnswerEnds(t) \/ Completion(t)
  \/ Stop \/ NewChat

Spec == Init /\ [][Next]_vars
-----------------------------------------------------------------------------
(* Properties *)

\* Types.  A chat has one row, in the database and in the sidebar, whatever
\* saves, renames and reloads of the list overlap.
TypeOK ==
  /\ now \in 2 .. MaxNow
  /\ page.chats \subseteq Row /\ stored.chats \subseteq Row
  /\ \A rows \in {page.chats, stored.chats} : \A row1, row2 \in rows : row1.id = row2.id => row1 = row2
  /\ stored.messages \subseteq Message /\ page.messages \in Seq(Message)
  /\ page.activeChatId \in Chats \cup {None}
  /\ page.streamingId \in Task \cup {None} /\ page.controller \in Task \cup {None}
  /\ \A t \in Task :
       /\ task[t].chat \in Chats \cup {None} /\ task[t].row \in Row \cup {None}
       /\ task[t].content \in 0 .. MaxTokens
       /\ Contains(queue, t) <=> task[t].pc \notin {"none", "streaming", "fetching", "returned"}
  /\ deleted \subseteq 0 .. MaxTasks

\* While the composer offers to stop an answer, the button reaches the run
\* that writes it, and that run has not returned: also after an earlier run
\* has ended late, or two questions were sent at once.
StopReachesTheRun ==
  Streaming =>
    /\ page.controller = page.streamingId
    /\ task[page.streamingId].pc \in {"streaming", "fetching", "saving", "touching", "saving failure"}

\* Whatever streamed in before the user hit stop, or before the answer broke
\* off or was complete, is in the database once the run has returned, unless
\* it was deleted after it was saved (useChats.ts:223).
WhatStreamedInIsKept ==
  \A t \in Task :
    task[t].pc = "returned" /\ task[t].content > 0 /\ t \notin deleted =>
      \E m \in stored.messages : IsAnswer(m, t) /\ m.content = task[t].content

\* What the sidebar shows of a chat is what a reload of the page will show:
\* titles agree with the database after overlapping renames,
\* answers and removals.  Only a wipe or an import shows old rows until the
\* list is read anew.
SidebarShowsWhatIsStored ==
  (\A t \in Task : task[t].pc \notin Reloads) => page.chats \subseteq stored.chats
=============================================================================
