------------------------------- MODULE ChatUI -------------------------------
(***************************************************************************)
(* The page: the chat store and the settings store over one database.      *)
(* Calls of the chat store read the settings; deleting all data spans the  *)
(* two and is one transaction over all object stores.                      *)
(***************************************************************************)
EXTENDS SettingsStore

CONSTANT Scenes  \* bounds: calls of the chat store and acts on the settings, the settings an
                 \* earlier visit has left, and the dialogue of the page at rest

ASSUME ScenesAssumption ==
  \A scene \in Scenes :
    /\ \A s \in scene.earlier \ {None} : Configured(s)
    /\ scene.dialog \in {"closed", "open"}

VARIABLE left    \* the calls and acts left

pageVars == <<vars, uiVars, left>>

\* The page has just been opened, or is at rest, perhaps with the dialogue open:
\* the keyboard reaches what the dialogue covers.
PageInit ==
  /\ Init
  /\ osDark = FALSE /\ picker = ClosedPicker /\ raced = FALSE
  /\ \E scene \in Scenes :
       /\ left = [calls |-> scene.calls, acts |-> scene.acts]
       /\ kept \in scene.earlier
       /\ dialog = IF queue # <<>> THEN "closed" ELSE scene.dialog
  /\ IF queue # <<>>
     THEN /\ settings = DefaultSettings /\ loaded = FALSE /\ writes = <<Load>>
          /\ dark = FALSE
     ELSE /\ settings = (IF kept = None THEN DefaultSettings ELSE kept) /\ loaded = TRUE /\ writes = <<>>
          /\ dark = Dark(settings.theme, FALSE)
-----------------------------------------------------------------------------
\* send and regenerate end at once without a provider.
Asks(t) == Active(settings) # None /\ (Send(t) \/ Regenerate(t))

\* A run reads the settings anew: whether there still is a provider, and
\* whether the answer is to be streamed.
RunReads(t) ==
  LET pc == task'[t].pc IN
  IF Active(settings) = None THEN pc = "returned"
  ELSE pc = IF settings.streaming THEN "streaming" ELSE "fetching"

ChatCall(t) ==
  /\ left.calls > 0 /\ left' = [left EXCEPT !.calls = @ - 1]
  /\ \/ (Asks(t) \/ Click(t)) /\ UNCHANGED uiVars
     \/ dialog # "closed" /\ Import(t) /\ UNCHANGED uiVars
     \/ /\ dialog # "closed" /\ Wipe(t)
        /\ writes' = Append(writes, Wiping)
        /\ UNCHANGED <<settings, loaded, kept, dark, osDark, dialog, picker, raced>>

\* Steps of the chat store that take the settings as they are.
ChatStep(t) ==
  \/ (Asked(t) \/ Dropped(t)) /\ RunReads(t)
  \/ Token(t) \/ AnswerEnds(t)
  \/ Listed(t) \/ Opened(t) \/ Saved(t) \/ Touched(t) \/ SavedFailure(t)
  \/ Selected(t) \/ Removed(t) \/ Renamed(t) \/ Imported(t)

\* The transaction of a wipe clears all object stores; the dialogue is closed
\* when the list has been read again.
WipeStep(t) ==
  \/ Wiped(t) /\ SettingsWiped
  \/ /\ Relisted(t) /\ dialog' = "closed"
     /\ UNCHANGED <<settings, loaded, kept, writes, dark, osDark, picker, raced>>

PageNext ==
  \/ \E t \in Task : ChatCall(t)
  \/ \E t \in Task : ChatStep(t) /\ UNCHANGED <<uiVars, left>>
  \/ \E t \in Task : WipeStep(t) /\ UNCHANGED left
  \/ (Stop \/ NewChat) /\ UNCHANGED <<uiVars, left>>
  \/ left.acts > 0 /\ Act /\ left' = [left EXCEPT !.acts = @ - 1] /\ UNCHANGED vars
  \/ Arrival /\ UNCHANGED <<vars, left>>

PageSpec == PageInit /\ [][PageNext]_pageVars
=============================================================================
