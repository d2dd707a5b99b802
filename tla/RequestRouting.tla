--------------------------- MODULE RequestRouting ---------------------------
(***************************************************************************)
(* What becomes of chat requests between their arrival and the provider:   *)
(* authentication (src/keys/middleware.go), capability aliases, the        *)
(* routing cascade with its two caches (src/routing), the restrictions of  *)
(* the key and the choice of a provider (src/gateway/handler.go,           *)
(* src/providers/router.go).                                               *)
(*                                                                         *)
(* Requests run concurrently.  They share the key snapshot and the caches; *)
(* a call of the embedding model or of the classifier separates a look     *)
(* into a cache from the entry made afterwards.                            *)
(***************************************************************************)
EXTENDS LruCache, FiniteSets

CONSTANTS
  Requests,    \* as many requests are under way at a time
  Prompts,     \* last user messages
  Truncated,        \* Truncated[p]: as much of p as is embedded, a prompt itself
  Routes, Vectors, Models, Tokens,
  Class,       \* the route named like the only capability class
  Aliases,     \* capability models; one of them well-formed:
  ClassAlias,
  Similarity,  \* Similarity[v][r]: of a vector to the examples of a route
  ProviderOf,  \* by the prefix of the model
  Scenarios,   \* configurations, and the requests made under each
  None

ASSUME TruncatedAssumption == Truncated \in [Prompts -> Prompts]
ASSUME AliasAssumption == ClassAlias \in Aliases /\ None \notin Aliases \cup Models \cup Routes
ASSUME SimilarityAssumption == Similarity \in [Vectors -> [Routes -> Nat]]

Layer == {"embed", "classify"}

\* validateRoutes and NewEmbeddingMatcher: what a router is not built without.
Validated(c) ==
  LET named == {c.routes[i] : i \in DOMAIN c.routes} IN
  /\ c.routes \in Seq(Routes) /\ c.routes # <<>> /\ Cardinality(named) = Len(c.routes)
  /\ c.default \in named \cup {None}
  /\ c.rules \in Seq([prompts : SUBSET Prompts, route : named])
  /\ c.semantic => c.examples \cap named # {}
  /\ c.model \in [named -> Models]

\* A cache that is configured has a positive size and lifetime; 0 stands for none.
ASSUME ScenariosAssumption ==
  \A s \in Scenarios :
    /\ s.config.enabled => Validated(s.config)
    /\ s.config.capacity \in [Layer -> Nat] /\ s.config.ttl \in [Layer -> Nat]
    /\ s.prompts \subseteq Prompts \cup {None}
    /\ s.asked \subseteq Models \cup Aliases \cup {None}

VARIABLES
  scene,   \* the configuration, and the requests made
  issued,  \* the key snapshot: a record or None for every token
  req,     \* req[r]: a request and how far it has got
  cache,   \* cache.embed, cache.classify
  uses     \* history: the keys of each cache by last use, with the age of the
           \* last answer put under them

vars == <<scene, issued, req, cache, uses>>

cfg == scene.config

\* Nothing is restricted by an empty list.
AllowsModel(key, m) == key.models = {} \/ m \in key.models
AllowsRoute(key, r) == key.routes = {} \/ r \in key.routes

Named == {cfg.routes[i] : i \in DOMAIN cfg.routes}
-----------------------------------------------------------------------------
(* The cascade, as far as it is pure *)

\* The first rule that matches; a rule is the set of prompts it matches.
Heuristic(p) ==
  LET matching == {i \in DOMAIN cfg.rules : p \in cfg.rules[i].prompts}
      first == CHOOSE i \in matching : \A j \in matching : i <= j
  IN IF matching = {} THEN None ELSE cfg.rules[first].route

\* The first route of the highest score among those with examples, if any
\* scores above zero.
Best(v) ==
  LET exemplified == {i \in DOMAIN cfg.routes : cfg.routes[i] \in cfg.examples}
      score(i) == Similarity[v][cfg.routes[i]]
      best == CHOOSE i \in exemplified :
                \A j \in exemplified : score(i) > score(j) \/ (score(i) = score(j) /\ i <= j)
  IN IF score(best) = 0 THEN None ELSE cfg.routes[best]

\* Mutant: no route to fall back on unless one is configured.
FallbackConfigured == cfg.default

Fallback == IF cfg.default # None THEN cfg.default ELSE cfg.routes[1]
-----------------------------------------------------------------------------
(* The end of the handler *)

\* Mutant: the key is looked up again when its restrictions are checked.
CurrentKey(q) == IF cfg.keys THEN issued[q.token] ELSE None

\* The record bound to the context when the request authenticated.
KeyEntry(q) == q.key

RouteDenied(q, route) == KeyEntry(q) # None /\ route # None /\ ~AllowsRoute(KeyEntry(q), route)
ModelDenied(q, model) == KeyEntry(q) # None /\ ~AllowsModel(KeyEntry(q), model)

\* Router.Route: the provider is configured.
Provided(model) == ProviderOf[model] \in cfg.providers

\* logAndAuthorizeDecision and the rest of handleChatCompletions, after a route
\* (or none) and a model (or none) have been decided on.
Concluded(q, route, model) ==
  [q EXCEPT !.pc = "answered", !.route = route, !.model = model, !.vec = None,
    !.answer = IF RouteDenied(q, route) THEN "route denied"
               ELSE IF model = None THEN "model required"
               ELSE IF ModelDenied(q, model) THEN "model denied"
               ELSE IF Provided(model) THEN "dispatched"
               ELSE "no provider"]

\* A decision for a route binds the model of the route.
Routed(q, route) == Concluded(q, route, IF route = None THEN None ELSE cfg.model[route])

Refused(q, why) == [q EXCEPT !.pc = "answered", !.answer = why]
-----------------------------------------------------------------------------
Idle == [pc |-> "idle", token |-> None, key |-> None, asked |-> None, prompt |-> None,
         vec |-> None, used |-> None, route |-> None, model |-> None, answer |-> "none"]

Init ==
  /\ scene \in Scenarios
  /\ issued \in [Tokens -> scene.records]
  /\ req = [r \in Requests |-> Idle]
  /\ cache = [l \in Layer |-> <<>>]
  /\ uses = [l \in Layer |-> <<>>]

\* The key store publishes another snapshot.
Reissue(t, record) ==
  /\ cfg.keys /\ record # issued[t]
  /\ issued' = [issued EXCEPT ![t] = record]
  /\ UNCHANGED <<scene, req, cache, uses>>

\* Middleware; the virtual model "auto" counts as no model.
Arrive(r, t, model, p) ==
  LET q == [Idle EXCEPT !.pc = "received", !.token = t, !.asked = model, !.prompt = p,
                        !.key = IF cfg.keys THEN issued[t] ELSE None]
  IN
  /\ req[r].pc = "idle"
  /\ req' = [req EXCEPT ![r] = IF cfg.keys /\ q.key = None THEN Refused(q, "unauthorized") ELSE q]
  /\ UNCHANGED <<scene, issued, cache, uses>>

shared == <<scene, issued, cache, uses>>

\* Mutant: an alias is resolved although explicit models are not allowed.
UnresolvableAlias(q) == ~cfg.enabled \/ q.asked # ClassAlias \/ Class \notin Named

\* Capability aliases: refused rather than handed to the cascade.
Unresolvable(q) ==
  ~cfg.enabled \/ ~cfg.explicit \/ q.asked # ClassAlias \/ Class \notin Named

Capability(r) ==
  LET q == req[r] IN
  /\ q.pc = "received" /\ q.asked \in Aliases
  /\ req' = [req EXCEPT ![r] = IF Unresolvable(q) THEN Refused(q, "bad alias") ELSE Routed(q, Class)]
  /\ UNCHANGED shared

\* No router, or an explicit model that is allowed: no route.
Passthrough(r) ==
  LET q == req[r] IN
  /\ q.pc = "received" /\ q.asked \notin Aliases
  /\ ~cfg.enabled \/ (q.asked # None /\ cfg.explicit)
  /\ req' = [req EXCEPT ![r] = Concluded(q, None, q.asked)]
  /\ UNCHANGED shared

\* The cascade begins: heuristics, then whatever is configured next.
Cascade(r) ==
  LET q == req[r]
      step == IF cfg.semantic THEN "embedding"
              ELSE IF cfg.classifier THEN "consulting" ELSE "undecided"
  IN
  /\ q.pc = "received" /\ q.asked \notin Aliases
  /\ cfg.enabled /\ ~(q.asked # None /\ cfg.explicit)
  /\ req' = [req EXCEPT ![r] = IF Heuristic(q.prompt) # None THEN Routed(q, Heuristic(q.prompt))
                               ELSE [q EXCEPT !.pc = step]]
  /\ UNCHANGED shared

\* The default route.
Default(r) ==
  /\ req[r].pc = "undecided"
  /\ req' = [req EXCEPT ![r] = Routed(req[r], Fallback)]
  /\ UNCHANGED shared
-----------------------------------------------------------------------------
(* Looks into a cache, and entries made *)

Cached(l, k) == cfg.capacity[l] > 0 /\ k # None /\ Hit(cache[l], k)

\* Reading is a use; what it found is remembered with its age.
Get(l, k) ==
  IF cfg.capacity[l] = 0 \/ k = None THEN UNCHANGED <<cache, uses>>
  ELSE /\ cache' = [cache EXCEPT ![l] = AfterGet(@, k)]
       /\ uses' = [uses EXCEPT ![l] =
            IF Hit(cache[l], k) THEN ToFront(@, IndexOf(@, k), @[IndexOf(@, k)]) ELSE @]

Put(l, k, v) ==
  IF cfg.capacity[l] = 0 \/ k = None THEN UNCHANGED <<cache, uses>>
  ELSE /\ cache' = [cache EXCEPT ![l] = AfterPut(@, k, v, cfg.capacity[l], cfg.ttl[l])]
       /\ uses' = [uses EXCEPT ![l] = AfterPut(@, k, 0, Len(@) + 1, 0)]

Found(l, k) == [layer |-> l, about |-> Stored(cache[l], k).about, age |-> Stored(uses[l], k)]

\* Vectors are kept under what was embedded, classifications under the prompt.
EmbedKey(p) == IF p = None THEN None ELSE Truncated[p]

\* Mutant: classifications are kept under the truncated prompt as well.
ClassifyKeyTruncated(p) == EmbedKey(p)

ClassifyKey(p) == p
-----------------------------------------------------------------------------
(* Embeddings *)

\* Without a user message there is nothing to match.
LookUpVector(r) ==
  LET q == req[r]  k == EmbedKey(q.prompt) IN
  /\ q.pc = "embedding"
  /\ req' = [req EXCEPT ![r] =
       IF k = None THEN [q EXCEPT !.pc = "undecided"]
       ELSE IF Cached("embed", k)
       THEN [q EXCEPT !.pc = "scored", !.vec = Stored(cache.embed, k).vector, !.used = Found("embed", k)]
       ELSE [q EXCEPT !.pc = "awaiting vector"]]
  /\ Get("embed", k)
  /\ UNCHANGED <<scene, issued>>

VectorArrives(r, v) ==
  LET q == req[r]  k == EmbedKey(q.prompt) IN
  /\ q.pc = "awaiting vector"
  /\ req' = [req EXCEPT ![r] = [q EXCEPT !.pc = "scored", !.vec = v]]
  /\ Put("embed", k, [vector |-> v, about |-> k])
  /\ UNCHANGED <<scene, issued>>

\* The classifier is not asked in place of an embedding that failed.
EmbedFails(r) ==
  /\ req[r].pc = "awaiting vector"
  /\ req' = [req EXCEPT ![r].pc = "undecided"]
  /\ UNCHANGED shared

Score(r) ==
  LET q == req[r]
      route == Best(q.vec)
      score == IF route = None THEN 0 ELSE Similarity[q.vec][route]
  IN
  /\ q.pc = "scored"
  /\ req' = [req EXCEPT ![r] =
       IF route # None /\ score >= cfg.threshold THEN Routed(q, route)
       ELSE [q EXCEPT !.vec = None,
               !.pc = IF route # None /\ score >= cfg.ambiguous /\ cfg.classifier
                      THEN "consulting" ELSE "undecided"]]
  /\ UNCHANGED shared
-----------------------------------------------------------------------------
(* The classifier *)

Judged(q, reply) ==
  IF reply.confidence >= cfg.confidence THEN Routed(q, reply.route) ELSE [q EXCEPT !.pc = "undecided"]

LookUpClassification(r) ==
  LET q == req[r]  k == ClassifyKey(q.prompt) IN
  /\ q.pc = "consulting"
  /\ req' = [req EXCEPT ![r] =
       IF Cached("classify", k)
       THEN Judged([q EXCEPT !.used = Found("classify", k)], Stored(cache.classify, k))
       ELSE [q EXCEPT !.pc = "awaiting reply"]]
  /\ Get("classify", k)
  /\ UNCHANGED <<scene, issued>>

\* A category is one of the routes, whatever confidence comes with it.
ReplyArrives(r, reply) ==
  LET q == req[r]  k == ClassifyKey(q.prompt) IN
  /\ q.pc = "awaiting reply" /\ reply.route \in Named
  /\ req' = [req EXCEPT ![r] = Judged(q, reply)]
  /\ Put("classify", k, [route |-> reply.route, confidence |-> reply.confidence, about |-> q.prompt])
  /\ UNCHANGED <<scene, issued>>

\* No answer, not an answer, an unknown category.
ClassifierFails(r) ==
  /\ req[r].pc = "awaiting reply"
  /\ req' = [req EXCEPT ![r].pc = "undecided"]
  /\ UNCHANGED shared

Leave(r) ==
  /\ req[r].pc = "answered"
  /\ req' = [req EXCEPT ![r] = Idle]
  /\ UNCHANGED shared

\* Time passes for the entries.
OldAge == 1 + cfg.ttl.embed + cfg.ttl.classify

Tick ==
  /\ cache' = [l \in Layer |-> Older(cache[l])]
  /\ uses' = [l \in Layer |-> [i \in DOMAIN uses[l] |->
       [uses[l][i] EXCEPT !.value = IF @ < OldAge THEN @ + 1 ELSE @]]]
  /\ cache' # cache
  /\ UNCHANGED <<scene, issued, req>>

RequestStep(r) ==
  \/ \E t \in Tokens, m \in scene.asked, p \in scene.prompts : Arrive(r, t, m, p)
  \/ Capability(r) \/ Passthrough(r) \/ Cascade(r) \/ Default(r)
  \/ LookUpVector(r) \/ EmbedFails(r) \/ Score(r)
  \/ \E v \in Vectors : VectorArrives(r, v)
  \/ LookUpClassification(r) \/ ClassifierFails(r)
  \/ \E reply \in scene.replies : ReplyArrives(r, reply)
  \/ Leave(r)

Next ==
  \/ \E r \in Requests : RequestStep(r)
  \/ \E t \in Tokens, record \in scene.records : Reissue(t, record)
  \/ Tick

Spec == Init /\ [][Next]_vars
-----------------------------------------------------------------------------
(* Properties *)

TypeOK ==
  /\ scene \in Scenarios
  /\ issued \in [Tokens -> scene.records]
  /\ \A r \in Requests :
       /\ req[r].pc \in {"idle", "received", "embedding", "awaiting vector", "scored", "consulting",
                         "awaiting reply", "undecided", "answered"}
       /\ req[r].key \in scene.records \cup {None} /\ req[r].prompt \in Prompts \cup {None}
       /\ req[r].route \in Routes \cup {None} /\ req[r].model \in Models \cup {None}
  /\ \A l \in Layer :
       /\ Len(cache[l]) <= cfg.capacity[l]
       /\ Cardinality(KeysOf(cache[l])) = Len(cache[l])
       /\ \A i \in DOMAIN cache[l] : cache[l][i].left \in -1 .. cfg.ttl[l]

\* What reaches a provider was allowed by one record, the one the request
\* authenticated with: route and model alike, whatever has become of the key
\* since, and by whichever path the model was found.
OneRecordDecides ==
  \A r \in Requests : LET q == req[r] IN
    cfg.keys /\ q.answer = "dispatched" =>
      /\ q.key # None /\ AllowsModel(q.key, q.model)
      /\ q.route # None => AllowsRoute(q.key, q.route) /\ q.model = cfg.model[q.route]

\* A cached vector or classification is about this very prompt, and was given
\* no longer ago than the cache may keep it, however often it was used and
\* whoever put it there while this request waited.
HitsAreFresh ==
  \A r \in Requests : LET q == req[r] IN
    q.used # None =>
      /\ q.used.about = IF q.used.layer = "embed" THEN Truncated[q.prompt] ELSE q.prompt
      /\ q.used.age <= cfg.ttl[q.used.layer]

\* An entry that has not expired leaves a cache only when the cache is full
\* and every other entry has been used since.
EvictsLeastRecent ==
  [][\A l \in Layer : \A k \in KeysOf(cache[l]) \ KeysOf(cache'[l]) :
       Hit(cache[l], k) =>
         /\ Len(cache'[l]) = cfg.capacity[l]
         /\ \A k2 \in KeysOf(cache'[l]) : IndexOf(uses'[l], k2) < IndexOf(uses'[l], k)]_vars

\* With a router, no request is turned away for want of a model, whichever
\* layers fail or decline.
RoutedHasModel == cfg.enabled => \A r \in Requests : req[r].answer # "model required"

\* A capability alias is answered by the model of its class or not at all, and
\* not at all where explicit models are off: the cascade never sees it.
CapabilityIsKept ==
  \A r \in Requests : LET q == req[r] IN
    q.asked \in Aliases =>
      /\ q.pc \in {"received", "answered"}
      /\ q.answer = "dispatched" =>
           cfg.explicit /\ q.asked = ClassAlias /\ q.model = cfg.model[Class]
=============================================================================
