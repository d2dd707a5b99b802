------------------------------ MODULE MCChatUI ------------------------------
EXTENDS ChatUI

CONSTANTS earlier, other, gateway, added, another, auto, big

MCChats == {earlier, other}

\* Two providers, the added one active.
MCKept(streaming) ==
  [providers |-> <<[id |-> gateway, model |-> auto], [id |-> added, model |-> big]>>,
   activeProviderId |-> added, theme |-> "dark", streaming |-> streaming]

\* A visit that ended without a provider.
MCBare == [MCKept(TRUE) EXCEPT !.providers = <<>>, !.activeProviderId = None]

Scene(calls, acts, dialogue, records) ==
  [calls |-> calls, acts |-> acts, dialog |-> dialogue, earlier |-> records]

\* Three calls of the chat store at once; two, with data being wiped or imported;
\* one, while the provider it asks or the mode of its answer is changed, or while
\* all data is wiped; many changes, from nothing, from a visit without a provider
\* and from one with two.
MCScenes ==
  {Scene(3, 0, "closed", {MCKept(TRUE)}),
   Scene(2, 0, "open", {MCKept(TRUE)}),
   Scene(1, 1, "open", {MCKept(TRUE)}),
   Scene(1, 2, "open", {None, MCKept(FALSE)}),
   Scene(0, 5, "open", {None, MCBare}),
   Scene(0, 4, "open", {MCKept(TRUE)})}
=============================================================================
