--------------------------- MODULE SettingsStore ---------------------------
(***************************************************************************)
(* The settings of the chat UI and what the page makes of them:            *)
(* src/frontend/src/store/useSettings.ts, the object store "settings" of   *)
(* lib/db.ts, the effects of App.tsx, the dialogue of SettingsModal.tsx and *)
(* the model picker of Composer.tsx.                                       *)
(*                                                                         *)
(* A change is on the screen at once and stored by a put issued with it.   *)
(* Operations on the object store complete in the order issued; what a     *)
(* call does after its await is part of the completion.  React's effects   *)
(* run before the next event, so they are part of the step whose rendering *)
(* triggers them.                                                          *)
(***************************************************************************)
EXTENDS ChatStore

CONSTANTS
  Gateway,     \* identifier of the provider every installation begins with
  Added,       \* identifiers of providers the user adds
  ModelNames,  \* names of models
  AutoModel    \* the one the gateway chooses by itself

ASSUME NamesAssumption == Gateway \notin Added /\ None \notin Added \cup {Gateway} /\ AutoModel \in ModelNames

\* Base URL and key of a provider never change: its identifier stands for them.
Provider == [id : Added \cup {Gateway}, model : ModelNames]

Theme == {"light", "dark", "system"}

\* The numbers and texts that only travel into the request are left out.
Settings == [providers : Seq(Provider), activeProviderId : Added \cup {Gateway, None},
             theme : Theme, streaming : BOOLEAN]

ASSUME NoneAssumption == None \notin Settings

DefaultSettings ==
  [providers |-> <<[id |-> Gateway, model |-> AutoModel]>>, activeProviderId |-> Gateway,
   theme |-> "system", streaming |-> TRUE]

VARIABLES
  settings,  \* the state of useSettings
  loaded,    \* whether hydrate has returned
  kept,      \* the record in the object store, or None
  writes,    \* the operations on it under way, in order of issue
  dark,      \* whether the page is styled dark
  osDark,    \* whether the system prefers dark
  dialog,    \* the settings dialogue: "closed", "open", or with the form for a provider
  picker,    \* the composer's model picker
  raced      \* history: the last change was made with a load or a wipe under way

uiVars == <<settings, loaded, kept, writes, dark, osDark, dialog, picker, raced>>
-----------------------------------------------------------------------------
(* Operators *)

Ids(s) == {s.providers[i].id : i \in DOMAIN s.providers}

\* activeProvider.
Active(s) ==
  LET found == SelectSeq(s.providers, LAMBDA p : p.id = s.activeProviderId) IN
  IF found = <<>> THEN None ELSE Head(found)

\* What a record of settings is like, and that of an earlier visit was.
Configured(s) ==
  /\ s \in Settings
  /\ IF s.providers = <<>> THEN s.activeProviderId = None ELSE s.activeProviderId \in Ids(s)
  /\ \A i, j \in DOMAIN s.providers : s.providers[i].id = s.providers[j].id => i = j

\* applyTheme.
Dark(theme, os) == theme = "dark" \/ (theme = "system" /\ os)

Load == [op |-> "load"]
Wiping == [op |-> "wipe"]
Save(s, then) == [op |-> "save", settings |-> s, then |-> then]

\* models and modelSource, set together, are the list; the source it is fetched
\* from is None unless a request is under way that was not aborted.
ClosedPicker == [open |-> FALSE, list |-> None, error |-> FALSE, fetch |-> None]

\* Mutant: the effect is not run again when another provider becomes active.
FilledOnce(p, s, rerun) ==
  LET active == Active(s) IN
  IF ~rerun \/ p.fetch # None THEN p
  ELSE IF ~p.open \/ active = None \/ p.list = active.id THEN p
  ELSE [p EXCEPT !.error = FALSE, !.fetch = active.id]

\* The effect that fills the picker: what it fetched last is aborted.
Filled(p, s, rerun) ==
  LET active == Active(s) IN
  IF ~rerun THEN p
  ELSE IF ~p.open \/ active = None \/ p.list = active.id THEN [p EXCEPT !.fetch = None]
  ELSE [p EXCEPT !.error = FALSE, !.fetch = active.id]

\* The first provider is asked for when the page is found to have none.
Prompted(known, s) ==
  IF known /\ s.activeProviderId = None /\ (~loaded \/ settings.activeProviderId # None) /\ dialog = "closed"
  THEN "open" ELSE dialog

\* The page is rendered with new settings; renewed: the active provider is
\* another object, if an equal one.
Shows(s, renewed) ==
  /\ settings' = s
  /\ picker' = Filled(picker, s, renewed \/ Active(s) # Active(settings))
-----------------------------------------------------------------------------
(* useSettings *)

InFlight(op) == \E i \in DOMAIN writes : writes[i].op = op

\* A change: the whole record is stored.
Changes(s, renewed, then) ==
  /\ Shows(s, renewed)
  /\ writes' = Append(writes, Save(s, then))
  /\ raced' = (InFlight("load") \/ InFlight("wipe"))
  /\ dialog' = Prompted(loaded, s)
  /\ UNCHANGED <<loaded, kept, osDark>>

\* hydrate.
SettingsLoaded ==
  LET s == IF kept = None THEN DefaultSettings ELSE kept IN
  /\ writes # <<>> /\ Head(writes) = Load
  /\ Shows(s, kept # None)
  /\ dialog' = Prompted(TRUE, s)
  /\ dark' = Dark(s.theme, osDark)
  /\ loaded' = TRUE
  /\ writes' = Tail(writes)
  /\ UNCHANGED <<kept, osDark, raced>>

\* update, of the theme and of any other setting.
UpdateTheme(theme) ==
  /\ Changes([settings EXCEPT !.theme = theme], FALSE, "nothing")
  /\ dark' = Dark(theme, osDark)

ToggleStreaming ==
  /\ Changes([settings EXCEPT !.streaming = ~@], FALSE, "nothing")
  /\ UNCHANGED dark

\* The first provider added becomes active.
AddProvider(p) ==
  /\ Changes([settings EXCEPT !.providers = Append(@, p),
                !.activeProviderId = IF @ = None THEN p.id ELSE @], FALSE, "form")
  /\ UNCHANGED dark

UpdateProvider(id, model, then) ==
  /\ Changes([settings EXCEPT !.providers =
                [i \in DOMAIN @ |-> IF @[i].id = id THEN [@[i] EXCEPT !.model = model] ELSE @[i]]],
             id = settings.activeProviderId, then)
  /\ UNCHANGED dark

\* Mutant: the provider that was active stays active although it is gone.
RemovedStaysActive(id) ==
  /\ Changes([settings EXCEPT !.providers = Filter(@, {p \in Provider : p.id # id})], FALSE, "nothing")
  /\ UNCHANGED dark

RemoveProvider(id) ==
  LET providers == Filter(settings.providers, {p \in Provider : p.id # id})
      next == IF providers = <<>> THEN None ELSE Head(providers).id
  IN
  /\ Changes([settings EXCEPT !.providers = providers, !.activeProviderId = IF @ = id THEN next ELSE @],
             FALSE, "nothing")
  /\ UNCHANGED dark

\* Mutant: the choice is on the screen and never stored.
ActiveInMemory(id) ==
  /\ Shows([settings EXCEPT !.activeProviderId = id], FALSE)
  /\ UNCHANGED <<loaded, kept, writes, dark, osDark, dialog, raced>>

SetActiveProvider(id) ==
  /\ Changes([settings EXCEPT !.activeProviderId = id], FALSE, "nothing")
  /\ UNCHANGED dark

\* The put completes; saveDraft closes the form, chooseModel the picker.
SettingsSaved ==
  LET write == Head(writes) IN
  /\ writes # <<>> /\ write.op = "save"
  /\ kept' = write.settings
  /\ writes' = Tail(writes)
  /\ dialog' = IF write.then = "form" /\ dialog = "form" THEN "open" ELSE dialog
  /\ picker' = IF write.then = "picker" THEN Filled([picker EXCEPT !.open = FALSE], settings, picker.open)
               ELSE picker
  /\ UNCHANGED <<settings, loaded, dark, osDark, raced>>

\* wipe, once clearAll has returned: the provider is that of DEFAULT_SETTINGS,
\* another object than an equal one that came from the database.
SettingsWiped ==
  /\ writes # <<>> /\ Head(writes) = Wiping
  /\ \E renewed \in BOOLEAN : Shows(DefaultSettings, renewed)
  /\ dark' = Dark(DefaultSettings.theme, osDark)
  /\ kept' = None
  /\ writes' = Tail(writes)
  /\ UNCHANGED <<loaded, osDark, dialog, raced>>
-----------------------------------------------------------------------------
(* The dialogue *)

ChangesDialog(from, to) ==
  /\ dialog \in from
  /\ dialog' = to
  /\ UNCHANGED <<settings, loaded, kept, writes, dark, osDark, picker, raced>>

OpenSettings == ChangesDialog({"closed"}, "open")

\* Closing the dialogue discards the form.
CloseSettings == ChangesDialog({"open", "form"}, "closed")

OpenForm == ChangesDialog({"open"}, "form")

CancelForm == ChangesDialog({"form"}, "open")

\* The identifier is new.
Unused(id) ==
  /\ id \notin Ids(settings)
  /\ kept # None => id \notin Ids(kept)
  /\ \A i \in DOMAIN writes : writes[i].op = "save" => id \notin Ids(writes[i].settings)

\* saveDraft: the button stays until the put has completed.
SaveDraft ==
  /\ dialog = "form"
  /\ \E p \in Provider : Unused(p.id) /\ AddProvider(p)

\* The radio button and the remove button of a provider.
ProviderRow ==
  /\ dialog # "closed"
  /\ \/ \E id \in Ids(settings) : RemoveProvider(id)
     \/ \E id \in Ids(settings) \ {settings.activeProviderId} : SetActiveProvider(id)

\* The model of the active provider, while the form is closed.
EditModel ==
  /\ dialog = "open" /\ Active(settings) # None
  /\ \E model \in ModelNames \ {Active(settings).model} :
       UpdateProvider(settings.activeProviderId, model, "nothing")

ChooseTheme == dialog # "closed" /\ \E theme \in Theme \ {settings.theme} : UpdateTheme(theme)

ChooseStreaming == dialog # "closed" /\ ToggleStreaming
-----------------------------------------------------------------------------
(* The model picker and the system's theme *)

ChangesPicker(p, rerun) ==
  /\ picker' = Filled(p, settings, rerun)
  /\ UNCHANGED <<settings, loaded, kept, writes, dark, osDark, dialog, raced>>

TogglePicker ==
  /\ Active(settings) # None /\ ~Streaming
  /\ ChangesPicker([picker EXCEPT !.open = ~@], TRUE)

\* Escape, or a click elsewhere.
ClosePicker == picker.open /\ ChangesPicker([picker EXCEPT !.open = FALSE], TRUE)

\* The list is shown as it is there: it need not be the active provider's.
Offered == picker.open /\ Active(settings) # None /\ picker.list # None

ChooseModel ==
  /\ Offered
  /\ \E model \in ModelNames : UpdateProvider(settings.activeProviderId, model, "picker")

ModelsArrive ==
  /\ picker.fetch # None
  /\ ChangesPicker([picker EXCEPT !.list = picker.fetch], TRUE)

ModelsFail ==
  /\ picker.fetch # None
  /\ ChangesPicker([picker EXCEPT !.fetch = None, !.error = TRUE], FALSE)

\* The page listens to the system while its theme is "system".
SystemThemeChanges ==
  /\ osDark' = ~osDark
  /\ dark' = IF settings.theme = "system" THEN Dark("system", osDark') ELSE dark
  /\ UNCHANGED <<settings, loaded, kept, writes, dialog, picker, raced>>
-----------------------------------------------------------------------------
\* Calls of the user, and what completes by itself.
Act ==
  OpenSettings \/ CloseSettings \/ OpenForm \/ CancelForm \/ SaveDraft \/ ProviderRow \/ EditModel
    \/ ChooseTheme \/ ChooseStreaming \/ TogglePicker \/ ClosePicker \/ ChooseModel \/ SystemThemeChanges

Arrival == SettingsLoaded \/ SettingsSaved \/ ModelsArrive \/ ModelsFail
-----------------------------------------------------------------------------
(* Properties *)

\* What a reload of the page will show once the operations under way are done.
Reloaded ==
  LET saves == {i \in DOMAIN writes : writes[i].op = "save"} IN
  IF saves # {} THEN writes[Max(saves)].settings ELSE IF kept = None THEN DefaultSettings ELSE kept

\* A reload shows the settings that are on the screen: every change stores the
\* whole record, and in order.  It does not hold of a change made while the
\* settings are being loaded, which the page forgets and the database keeps, or
\* wiped, which stores what was to be deleted (useSettings.ts:24-35, 85-89).
ScreenIsKept ==
  loaded /\ ~raced /\ ~InFlight("load") /\ ~InFlight("wipe") => settings = Reloaded

\* Records the page has or will have after a reload.
Records ==
  {settings} \cup ({kept} \ {None})
    \cup {writes[i].settings : i \in {j \in DOMAIN writes : writes[j].op = "save"}}

\* There is an active provider exactly when there is any, it is one of them, and
\* none is listed twice: whatever was added, removed and chosen, in the record
\* shown, in the one stored and in those on their way (useSettings.ts:37-78).
ActiveIsConfigured == \A s \in Records : Configured(s)

\* The page is styled as the settings and the system say, after loads, wipes
\* and changes of the system's theme in any order.  (Proved, in ChatUIProofs.)
StyledAsSet == loaded => dark = Dark(settings.theme, osDark)

\* An open picker shows the models of the active provider, or an error, or they
\* are being fetched; and what is being fetched is always that.
PickerIsServed ==
  LET active == Active(settings) IN
  /\ picker.open /\ active # None /\ picker.list # active.id => picker.error \/ picker.fetch = active.id
  /\ picker.fetch # None => picker.open /\ active # None /\ picker.fetch = active.id
=============================================================================
