------------------------ MODULE RequestRoutingProofs ------------------------
(***************************************************************************)
(* Theorems about RequestRouting, for any number of requests, any          *)
(* configurations and any capacity and content of the caches.              *)
(***************************************************************************)
EXTENDS RequestRouting, SequenceTheorems, FiniteSetTheorems, WellFoundedInduction, TLAPS

\* The fields of a request.
Shape(q) ==
  q = [pc |-> q.pc, token |-> q.token, key |-> q.key, asked |-> q.asked, prompt |-> q.prompt,
       vec |-> q.vec, used |-> q.used, route |-> q.route, model |-> q.model, answer |-> q.answer]

Authenticated(q) ==
  cfg.keys /\ q.pc # "idle" /\ q.answer # "unauthorized" => q.key # None

OneRecord(q) ==
  cfg.keys /\ q.answer = "dispatched" =>
    /\ q.key # None /\ AllowsModel(q.key, q.model)
    /\ q.route # None => AllowsRoute(q.key, q.route) /\ q.model = cfg.model[q.route]

Capable(q) ==
  q.asked \in Aliases =>
    /\ q.pc \in {"received", "answered"}
    /\ q.answer = "dispatched" =>
         cfg.explicit /\ q.asked = ClassAlias /\ q.model = cfg.model[Class]

\* Only a request that has been answered has an answer.
Open(q) == q.pc # "answered" => q.answer = "none"

Good(q) == Shape(q) /\ Authenticated(q) /\ OneRecord(q) /\ Capable(q) /\ Open(q)

RequestInv ==
  /\ scene \in Scenarios
  /\ req = [r \in Requests |-> req[r]]
  /\ \A r \in Requests : Good(req[r])

\* A request the cascade is busy with.
Routing(q) == q.pc \notin {"idle", "answered"} /\ q.asked \notin Aliases
-----------------------------------------------------------------------------
(* How requests change *)

\* A request goes on with the same question under the same record.
LEMMA GoesOn ==
  ASSUME NEW q, Good(q), Routing(q),
         NEW q2, Shape(q2), q2.key = q.key, q2.asked = q.asked, q2.answer = q.answer,
         q2.pc \notin {"idle", "answered"}
  PROVE  Good(q2) /\ Routing(q2)
<1>1. q.answer = "none" /\ q2.answer = "none"
  BY DEF Good, Open, Routing
<1>2. Authenticated(q2) /\ OneRecord(q2) /\ Capable(q2) /\ Open(q2)
  BY <1>1 DEF Good, Authenticated, OneRecord, Capable, Open, Routing
<1>. QED
  BY <1>2 DEF Good, Routing

\* The ways in which the layers change the fields of a request.
LEMMA LayerResult ==
  ASSUME NEW q, Good(q), Routing(q), NEW pc, pc \notin {"idle", "answered"}, NEW vec, NEW used,
         NEW q2,
         \/ q2 = [q EXCEPT !.pc = pc]
         \/ q2 = [q EXCEPT !.used = used]
         \/ q2 = [q EXCEPT !.pc = pc, !.vec = vec]
         \/ q2 = [q EXCEPT !.vec = vec, !.pc = pc]
         \/ q2 = [q EXCEPT !.pc = pc, !.vec = vec, !.used = used]
  PROVE  Good(q2) /\ Routing(q2)
<1>1. Shape(q) /\ q.pc \notin {"idle", "answered"}
  BY DEF Good, Routing
<1>2. /\ Shape(q2) /\ q2.key = q.key /\ q2.asked = q.asked /\ q2.answer = q.answer
      /\ q2.pc \in {pc, q.pc}
  <2>1. CASE q2 = [q EXCEPT !.pc = pc]
    BY <1>1, <2>1 DEF Shape
  <2>2. CASE q2 = [q EXCEPT !.used = used]
    BY <1>1, <2>2 DEF Shape
  <2>3. CASE q2 = [q EXCEPT !.pc = pc, !.vec = vec]
    BY <1>1, <2>3 DEF Shape
  <2>4. CASE q2 = [q EXCEPT !.vec = vec, !.pc = pc]
    BY <1>1, <2>4 DEF Shape
  <2>5. CASE q2 = [q EXCEPT !.pc = pc, !.vec = vec, !.used = used]
    BY <1>1, <2>5 DEF Shape
  <2>. QED
    BY <2>1, <2>2, <2>3, <2>4, <2>5
<1>. QED
  BY <1>1, <1>2, GoesOn

\* What the end of the handler makes of a request, whatever was decided.
LEMMA Conclusion ==
  ASSUME NEW q, Shape(q), NEW route, NEW model, NEW q2, q2 = Concluded(q, route, model)
  PROVE  /\ Shape(q2) /\ q2.pc = "answered" /\ q2.key = q.key /\ q2.asked = q.asked
         /\ q2.route = route /\ q2.model = model
         /\ q2.answer = "dispatched" => ~RouteDenied(q, route) /\ ~ModelDenied(q, model)
         /\ q2.answer # "unauthorized"
<1> DEFINE answer == IF RouteDenied(q, route) THEN "route denied"
                     ELSE IF model = None THEN "model required"
                     ELSE IF ModelDenied(q, model) THEN "model denied"
                     ELSE IF Provided(model) THEN "dispatched"
                     ELSE "no provider"
<1>1. answer = "dispatched" => ~RouteDenied(q, route) /\ ~ModelDenied(q, model)
  OBVIOUS
<1>2. answer # "unauthorized"
  OBVIOUS
<1>3. q2 = [q EXCEPT !.pc = "answered", !.route = route, !.model = model, !.vec = None,
                     !.answer = answer]
  BY DEF Concluded
<1> HIDE DEF answer
<1>4. /\ Shape(q2) /\ q2.pc = "answered" /\ q2.key = q.key /\ q2.asked = q.asked
      /\ q2.route = route /\ q2.model = model /\ q2.answer = answer
  BY <1>3 DEF Shape
<1>. QED
  BY <1>1, <1>2, <1>4

\* A request that no alias is involved in concludes for the model of its route,
\* or for the model asked for without a route.
LEMMA Concludes ==
  ASSUME NEW q, Good(q), Routing(q), NEW route, NEW model,
         route # None => model = cfg.model[route]
  PROVE  Good(Concluded(q, route, model))
<1> DEFINE q2 == Concluded(q, route, model)
<1>1. /\ Shape(q2) /\ q2.pc = "answered" /\ q2.key = q.key /\ q2.asked = q.asked
      /\ q2.route = route /\ q2.model = model
      /\ q2.answer = "dispatched" => ~RouteDenied(q, route) /\ ~ModelDenied(q, model)
      /\ q2.answer # "unauthorized"
  <2>1. Shape(q) /\ q2 = Concluded(q, route, model)
    BY DEF Good
  <2> HIDE DEF q2
  <2>. QED  BY <2>1, Conclusion
<1> HIDE DEF q2
<1>2. cfg.keys => q.key # None
  BY DEF Good, Authenticated, Open, Routing
<1>3. Authenticated(q2) /\ Capable(q2) /\ Open(q2)
  BY <1>1, <1>2 DEF Authenticated, Capable, Open, Routing
<1>4. OneRecord(q2)
  BY <1>1, <1>2 DEF OneRecord, RouteDenied, ModelDenied, KeyEntry
<1>. QED
  BY <1>1, <1>3, <1>4 DEF Good, q2

LEMMA RoutedIsGood ==
  ASSUME NEW q, Good(q), Routing(q), NEW route
  PROVE  Good(Routed(q, route))
BY Concludes DEF Routed

\* A judgement of the classifier, used or fresh.
LEMMA JudgedIsGood ==
  ASSUME NEW q, Good(q), Routing(q), NEW reply
  PROVE  Good(Judged(q, reply))
<1> DEFINE q2 == [q EXCEPT !.pc = "undecided"]
<1>1. q2 = [q EXCEPT !.pc = "undecided"] /\ "undecided" \notin {"idle", "answered"}
  OBVIOUS
<1> HIDE DEF q2
<1>2. Good(q2)
  BY <1>1, LayerResult
<1>3. Judged(q, reply) \in {Routed(q, reply.route), q2}
  BY <1>1 DEF Judged
<1>. QED
  BY <1>2, <1>3, RoutedIsGood

\* A request that is refused is answered otherwise than by a provider.
LEMMA RefusedIsGood ==
  ASSUME NEW q, Shape(q), NEW why, why # "dispatched",
         cfg.keys => q.key # None \/ why = "unauthorized"
  PROVE  Good(Refused(q, why))
<1> DEFINE q2 == Refused(q, why)
<1>1. q2 = [q EXCEPT !.pc = "answered", !.answer = why]
  BY DEF Refused
<1> HIDE DEF q2
<1>2. Shape(q2) /\ q2.pc = "answered" /\ q2.answer = why /\ q2.key = q.key /\ q2.asked = q.asked
  BY <1>1 DEF Shape
<1>3. Authenticated(q2) /\ OneRecord(q2) /\ Capable(q2) /\ Open(q2)
  BY <1>2 DEF Authenticated, OneRecord, Capable, Open
<1>. QED
  BY <1>2, <1>3 DEF Good, q2

LEMMA IdleIsGood == Good(Idle)
<1> DEFINE q == Idle
<1>1. /\ Shape(q) /\ q.pc = "idle" /\ q.answer = "none" /\ q.asked = None
  BY DEF Shape, Idle
<1> HIDE DEF q
<1>2. None \notin Aliases
  BY AliasAssumption
<1>. QED
  BY <1>1, <1>2 DEF Good, Authenticated, OneRecord, Capable, Open, q

\* A request that has been replaced by a good one.
LEMMA Replaced ==
  ASSUME RequestInv, NEW r \in Requests, NEW q, Good(q),
         req' = [req EXCEPT ![r] = q], UNCHANGED scene
  PROVE  RequestInv'
<1>1. /\ req' = [s \in Requests |-> req'[s]]
      /\ \A s \in Requests : req'[s] = IF s = r THEN q ELSE req[s]
  BY DEF RequestInv
<1>2. \A s \in Requests : Good(req'[s])
  BY <1>1 DEF RequestInv
<1>3. ASSUME NEW s \in Requests PROVE Good(req[s])'
  <2>1. /\ Shape(req'[s]) /\ Authenticated(req'[s]) /\ OneRecord(req'[s])
        /\ Capable(req'[s]) /\ Open(req'[s])
    BY <1>2 DEF Good
  <2>2. cfg' = cfg
    BY DEF cfg
  <2>3. Shape(req[s])' /\ Open(req[s])'
    BY <2>1 DEF Shape, Open
  <2>4. Authenticated(req[s])' /\ Capable(req[s])'
    BY <2>1, <2>2 DEF Authenticated, Capable
  <2>5. OneRecord(req[s])'
    BY <2>1, <2>2 DEF OneRecord
  <2>. QED  BY <2>3, <2>4, <2>5 DEF Good
<1>. QED
  BY <1>1, <1>3 DEF RequestInv

LEMMA Untouched ==
  ASSUME RequestInv, UNCHANGED <<scene, req>>
  PROVE  RequestInv'
BY DEF RequestInv, Good, Shape, Authenticated, OneRecord, Capable, Open, cfg
-----------------------------------------------------------------------------
(* The steps *)

LEMMA InvInit == Init => RequestInv
<1> SUFFICES ASSUME Init PROVE RequestInv
  OBVIOUS
<1>1. req = [r \in Requests |-> Idle] /\ scene \in Scenarios
  BY DEF Init
<1>2. \A r \in Requests : req[r] = Idle
  BY <1>1
<1>. QED
  BY <1>1, <1>2, IdleIsGood DEF RequestInv

LEMMA ArriveStep ==
  ASSUME RequestInv, NEW r \in Requests, NEW t, NEW model, NEW p, Arrive(r, t, model, p)
  PROVE  RequestInv'
<1> DEFINE q == [Idle EXCEPT !.pc = "received", !.token = t, !.asked = model, !.prompt = p,
                             !.key = IF cfg.keys THEN issued[t] ELSE None]
           key == IF cfg.keys THEN issued[t] ELSE None
           q2 == IF cfg.keys /\ q.key = None THEN Refused(q, "unauthorized") ELSE q
<1>1. req' = [req EXCEPT ![r] = q2] /\ UNCHANGED scene
  BY DEF Arrive
<1>2. /\ Shape(q) /\ q.pc = "received" /\ q.answer = "none"
  <2>1. q = [Idle EXCEPT !.pc = "received", !.token = t, !.asked = model, !.prompt = p, !.key = key]
    OBVIOUS
  <2> HIDE DEF q, key
  <2>. QED
    BY <2>1 DEF Idle, Shape
<1>3. CASE cfg.keys /\ q.key = None
  <2>1. q2 = Refused(q, "unauthorized")
    BY <1>3
  <2> HIDE DEF q, q2
  <2>2. Good(q2)
    BY <1>2, <2>1, RefusedIsGood
  <2>. QED
    BY <1>1, <2>2, Replaced
<1>4. CASE ~(cfg.keys /\ q.key = None)
  <2>1. q2 = q
    BY <1>4
  <2> HIDE DEF q, q2
  <2>2. Good(q)
    BY <1>2, <1>4 DEF Good, Authenticated, OneRecord, Capable, Open
  <2>. QED
    BY <1>1, <2>1, <2>2, Replaced
<1>. QED
  BY <1>3, <1>4

LEMMA NamedFacts ==
  ASSUME scene \in Scenarios, cfg.enabled
  PROVE  /\ Validated(cfg) /\ Named \subseteq Routes /\ cfg.routes \in Seq(Routes)
         /\ DOMAIN cfg.routes = 1 .. Len(cfg.routes) /\ Len(cfg.routes) \in Nat \ {0}
         /\ cfg.model \in [Named -> Models]
         /\ cfg.rules \in Seq([prompts : SUBSET Prompts, route : Named])
         /\ cfg.default \in Named \cup {None}
<1>1. Validated(cfg)
  BY ScenariosAssumption DEF cfg
<1>2. /\ cfg.routes \in Seq(Routes) /\ cfg.routes # <<>> /\ cfg.model \in [Named -> Models]
      /\ cfg.rules \in Seq([prompts : SUBSET Prompts, route : Named])
      /\ cfg.default \in Named \cup {None}
  BY <1>1 DEF Validated, Named
<1>3. DOMAIN cfg.routes = 1 .. Len(cfg.routes) /\ Len(cfg.routes) \in Nat \ {0}
  BY <1>2, LenProperties, EmptySeq
<1>4. Named \subseteq Routes
  BY <1>2, <1>3, ElementOfSeq DEF Named
<1>. QED
  BY <1>1, <1>2, <1>3, <1>4

\* The class is one of the routes, so it is not the absence of one.
LEMMA ClassIsARoute ==
  ASSUME RequestInv, cfg.enabled, Class \in Named
  PROVE  Class # None
BY NamedFacts, AliasAssumption DEF RequestInv

LEMMA CapabilityStep ==
  ASSUME RequestInv, NEW r \in Requests, Capability(r)
  PROVE  RequestInv'
<1> DEFINE q == req[r]
           q2 == Routed(q, Class)
<1>1. /\ q.pc = "received" /\ q.asked \in Aliases /\ UNCHANGED scene
      /\ req' = [req EXCEPT ![r] = IF Unresolvable(q) THEN Refused(q, "bad alias") ELSE q2]
  BY DEF Capability, shared
<1>2. Good(q) /\ Shape(q)
  BY DEF RequestInv, Good
<1>3. cfg.keys => q.key # None
  BY <1>1, <1>2 DEF Good, Authenticated, Open
<1>4. CASE Unresolvable(q)
  <2>1. req' = [req EXCEPT ![r] = Refused(q, "bad alias")]
    BY <1>1, <1>4
  <2>2. Good(Refused(q, "bad alias"))
    BY <1>2, <1>3, RefusedIsGood
  <2>. QED
    BY <1>1, <2>1, <2>2, Replaced
<1>5. CASE ~Unresolvable(q)
  <2>1. cfg.enabled /\ cfg.explicit /\ q.asked = ClassAlias /\ Class \in Named
    BY <1>5 DEF Unresolvable
  <2>2. Class # None
    BY <2>1, ClassIsARoute
  <2>3. q2 = Concluded(q, Class, cfg.model[Class])
    BY <2>2 DEF Routed
  <2> HIDE DEF q, q2
  <2>4. /\ Shape(q2) /\ q2.pc = "answered" /\ q2.key = q.key /\ q2.asked = q.asked
        /\ q2.route = Class /\ q2.model = cfg.model[Class]
        /\ q2.answer = "dispatched" => ~RouteDenied(q, Class) /\ ~ModelDenied(q, cfg.model[Class])
        /\ q2.answer # "unauthorized"
    BY <1>2, <2>3, Conclusion
  <2>5. Authenticated(q2) /\ Capable(q2) /\ Open(q2)
    BY <1>3, <2>1, <2>4 DEF Authenticated, Capable, Open
  <2>6. OneRecord(q2)
    BY <1>3, <2>4 DEF OneRecord, RouteDenied, ModelDenied, KeyEntry
  <2>7. Good(q2)
    BY <2>4, <2>5, <2>6 DEF Good
  <2>8. req' = [req EXCEPT ![r] = q2]
    BY <1>1, <1>5
  <2>. QED
    BY <1>1, <2>7, <2>8, Replaced
<1>. QED
  BY <1>4, <1>5

LEMMA PassthroughStep ==
  ASSUME RequestInv, NEW r \in Requests, Passthrough(r)
  PROVE  RequestInv'
<1>1. /\ Good(req[r]) /\ Routing(req[r]) /\ UNCHANGED scene
      /\ req' = [req EXCEPT ![r] = Concluded(req[r], None, req[r].asked)]
  BY DEF Passthrough, RequestInv, Routing, shared
<1>2. Good(Concluded(req[r], None, req[r].asked))
  BY <1>1, Concludes
<1>. QED
  BY <1>1, <1>2, Replaced

LEMMA CascadeStep ==
  ASSUME RequestInv, NEW r \in Requests, Cascade(r)
  PROVE  RequestInv'
<1> DEFINE step == IF cfg.semantic THEN "embedding"
                   ELSE IF cfg.classifier THEN "consulting" ELSE "undecided"
           q2 == [req[r] EXCEPT !.pc = step]
           route == Heuristic(req[r].prompt)
<1>1. /\ Good(req[r]) /\ Routing(req[r]) /\ UNCHANGED scene
      /\ req' = [req EXCEPT ![r] = IF route # None THEN Routed(req[r], route) ELSE q2]
  BY DEF Cascade, RequestInv, Routing, shared
<1>2. q2 = [req[r] EXCEPT !.pc = step] /\ step \notin {"idle", "answered"}
  OBVIOUS
<1> HIDE DEF step, q2, route
<1>3. Good(q2) /\ Good(Routed(req[r], route))
  BY <1>1, <1>2, LayerResult, RoutedIsGood
<1>4. req' = [req EXCEPT ![r] = q2] \/ req' = [req EXCEPT ![r] = Routed(req[r], route)]
  BY <1>1
<1>. QED
  BY <1>1, <1>3, <1>4, Replaced

LEMMA DefaultStep ==
  ASSUME RequestInv, NEW r \in Requests, Default(r)
  PROVE  RequestInv'
<1>1. /\ Good(req[r]) /\ UNCHANGED scene /\ req[r].pc = "undecided"
      /\ req' = [req EXCEPT ![r] = Routed(req[r], Fallback)]
  BY DEF Default, RequestInv, shared
<1>2. Good(Routed(req[r], Fallback))
  BY <1>1, RoutedIsGood DEF Good, Capable, Routing
<1>. QED
  BY <1>1, <1>2, Replaced

\* The cascade is never busy with a capability model.
LEMMA NoAlias ==
  ASSUME RequestInv, NEW r \in Requests, req[r].pc \notin {"idle", "received", "answered"}
  PROVE  Good(req[r]) /\ Routing(req[r])
BY DEF RequestInv, Good, Capable, Routing

LEMMA LookUpVectorStep ==
  ASSUME RequestInv, NEW r \in Requests, LookUpVector(r)
  PROVE  RequestInv'
<1> DEFINE k == EmbedKey(req[r].prompt)
           vec == Stored(cache.embed, k).vector
           used == Found("embed", k)
<1>1. /\ req[r].pc = "embedding" /\ UNCHANGED scene
      /\ \E pc \in {"undecided", "scored", "awaiting vector"} :
           \/ req' = [req EXCEPT ![r] = [req[r] EXCEPT !.pc = pc]]
           \/ req' = [req EXCEPT ![r] = [req[r] EXCEPT !.pc = pc, !.vec = vec, !.used = used]]
  <2>1. CASE k = None
    BY <2>1 DEF LookUpVector
  <2>2. CASE k # None /\ Cached("embed", k)
    BY <2>2 DEF LookUpVector
  <2>3. CASE k # None /\ ~Cached("embed", k)
    BY <2>3 DEF LookUpVector
  <2>. QED
    BY <2>1, <2>2, <2>3
<1> HIDE DEF vec, used
<1>2. PICK pc \in {"undecided", "scored", "awaiting vector"} :
        \/ req' = [req EXCEPT ![r] = [req[r] EXCEPT !.pc = pc]]
        \/ req' = [req EXCEPT ![r] = [req[r] EXCEPT !.pc = pc, !.vec = vec, !.used = used]]
  BY <1>1
<1>3. PICK q2 : /\ req' = [req EXCEPT ![r] = q2]
                /\ \/ q2 = [req[r] EXCEPT !.pc = pc]
                   \/ q2 = [req[r] EXCEPT !.pc = pc, !.vec = vec, !.used = used]
  BY <1>2
<1>4. Good(q2)
  <2>1. Good(req[r]) /\ Routing(req[r])
    BY <1>1, NoAlias
  <2>2. pc \notin {"idle", "answered"}
    OBVIOUS
  <2>. QED  BY <1>3, <2>1, <2>2, LayerResult
<1>. QED
  BY <1>1, <1>3, <1>4, Replaced

LEMMA VectorArrivesStep ==
  ASSUME RequestInv, NEW r \in Requests, NEW v, VectorArrives(r, v)
  PROVE  RequestInv'
<1>1. PICK q2 : /\ req' = [req EXCEPT ![r] = q2] /\ UNCHANGED scene
                /\ req[r].pc = "awaiting vector"
                /\ q2 = [req[r] EXCEPT !.pc = "scored", !.vec = v]
  BY DEF VectorArrives
<1>2. Good(q2)
  BY <1>1, NoAlias, LayerResult
<1>. QED
  BY <1>1, <1>2, Replaced

LEMMA FailureStep ==
  ASSUME RequestInv, NEW r \in Requests, EmbedFails(r) \/ ClassifierFails(r)
  PROVE  RequestInv'
<1>1. PICK q2 : /\ req' = [req EXCEPT ![r] = q2] /\ UNCHANGED scene
                /\ req[r].pc \in {"awaiting vector", "awaiting reply"}
                /\ q2 = [req[r] EXCEPT !.pc = "undecided"]
  BY DEF EmbedFails, ClassifierFails, shared
<1>2. Good(q2)
  BY <1>1, NoAlias, LayerResult
<1>. QED
  BY <1>1, <1>2, Replaced

LEMMA ScoreStep ==
  ASSUME RequestInv, NEW r \in Requests, Score(r)
  PROVE  RequestInv'
<1> DEFINE best == Best(req[r].vec)
           score == IF best = None THEN 0 ELSE Similarity[req[r].vec][best]
           next == IF best # None /\ score >= cfg.ambiguous /\ cfg.classifier
                   THEN "consulting" ELSE "undecided"
           q2 == IF best # None /\ score >= cfg.threshold THEN Routed(req[r], best)
                 ELSE [req[r] EXCEPT !.vec = None, !.pc = next]
<1>1. req' = [req EXCEPT ![r] = q2] /\ UNCHANGED scene /\ req[r].pc = "scored"
  BY DEF Score, shared
<1>2. next \notin {"idle", "answered"}
  OBVIOUS
<1> HIDE DEF best, score, next
<1>3. q2 = Routed(req[r], best) \/ q2 = [req[r] EXCEPT !.vec = None, !.pc = next]
  OBVIOUS
<1> HIDE DEF q2
<1>4. Good(req[r]) /\ Routing(req[r])
  BY <1>1, NoAlias
<1>5. CASE q2 = Routed(req[r], best)
  BY <1>1, <1>4, <1>5, RoutedIsGood, Replaced
<1>6. CASE q2 = [req[r] EXCEPT !.vec = None, !.pc = next]
  <2>1. Good(q2)
    BY <1>2, <1>4, <1>6, LayerResult
  <2>. QED
    BY <1>1, <2>1, Replaced
<1>. QED
  BY <1>3, <1>5, <1>6

LEMMA LookUpClassificationStep ==
  ASSUME RequestInv, NEW r \in Requests, LookUpClassification(r)
  PROVE  RequestInv'
<1> DEFINE k == ClassifyKey(req[r].prompt)
           q1 == [req[r] EXCEPT !.used = Found("classify", k)]
           q2 == [req[r] EXCEPT !.pc = "awaiting reply"]
<1>1. /\ req[r].pc = "consulting" /\ UNCHANGED scene
      /\ \/ req' = [req EXCEPT ![r] = Judged(q1, Stored(cache.classify, k))]
         \/ req' = [req EXCEPT ![r] = q2]
  BY DEF LookUpClassification
<1>2. q1 = [req[r] EXCEPT !.used = Found("classify", k)] /\ q2 = [req[r] EXCEPT !.pc = "awaiting reply"]
  OBVIOUS
<1>3. Good(req[r]) /\ Routing(req[r])
  BY <1>1, NoAlias
<1> HIDE DEF q1, q2
<1>4. Good(q1) /\ Routing(q1)
  <2>1. "consulting" \notin {"idle", "answered"}
    OBVIOUS
  <2>. QED
    BY <1>2, <1>3, <2>1, LayerResult
<1>5. Good(q2)
  BY <1>2, <1>3, LayerResult
<1>6. Good(Judged(q1, Stored(cache.classify, k)))
  BY <1>4, JudgedIsGood
<1>. QED
  BY <1>1, <1>5, <1>6, Replaced

LEMMA ReplyArrivesStep ==
  ASSUME RequestInv, NEW r \in Requests, NEW reply, ReplyArrives(r, reply)
  PROVE  RequestInv'
<1>1. /\ req' = [req EXCEPT ![r] = Judged(req[r], reply)] /\ UNCHANGED scene
      /\ req[r].pc = "awaiting reply"
  BY DEF ReplyArrives
<1>2. Good(Judged(req[r], reply))
  BY <1>1, NoAlias, JudgedIsGood
<1>. QED
  BY <1>1, <1>2, Replaced

LEMMA LeaveStep ==
  ASSUME RequestInv, NEW r \in Requests, Leave(r)
  PROVE  RequestInv'
BY IdleIsGood, Replaced DEF Leave, shared

LEMMA InvNext == RequestInv /\ [Next]_vars => RequestInv'
<1> SUFFICES ASSUME RequestInv, [Next]_vars PROVE RequestInv'
  OBVIOUS
<1>1. ASSUME NEW r \in Requests, RequestStep(r) PROVE RequestInv'
  BY <1>1, ArriveStep, CapabilityStep, PassthroughStep, CascadeStep, DefaultStep, LookUpVectorStep,
     VectorArrivesStep, FailureStep, ScoreStep, LookUpClassificationStep, ReplyArrivesStep, LeaveStep
     DEF RequestStep
<1>2. ASSUME NEW t, NEW record, Reissue(t, record) PROVE RequestInv'
  BY <1>2, Untouched DEF Reissue
<1>3. CASE Tick
  BY <1>3, Untouched DEF Tick
<1>4. CASE UNCHANGED vars
  BY <1>4, Untouched DEF vars
<1>. QED
  BY <1>1, <1>2, <1>3, <1>4 DEF Next
-----------------------------------------------------------------------------
(* Theorems *)

\* Every request that reaches a provider was allowed its route and its model by
\* the record it authenticated with (src/keys/middleware.go binds it,
\* src/gateway/handler.go consults it), whatever is configured and cached.
THEOREM OneRecordCorrect == Spec => []OneRecordDecides
<1>1. RequestInv => OneRecordDecides
  BY DEF RequestInv, Good, OneRecord, OneRecordDecides
<1>. QED
  BY InvInit, InvNext, <1>1, PTL DEF Spec

\* A capability model is served by the model of its class or by none
\* (resolveCapabilityModel in src/gateway/handler.go), in every configuration.
THEOREM CapabilityCorrect == Spec => []CapabilityIsKept
<1>1. RequestInv => CapabilityIsKept
  BY DEF RequestInv, Good, Capable, CapabilityIsKept
<1>. QED
  BY InvInit, InvNext, <1>1, PTL DEF Spec
-----------------------------------------------------------------------------
(* The caches *)

\* No key twice.
Distinct(c) == \A i, j \in DOMAIN c : c[i].key = c[j].key => i = j

\* Whatever a cache c holds has been used, and what is still alive has been given
\* not too long ago; the order of the list is the order of use.
Agree(c, u, ttl) ==
  /\ \A i \in DOMAIN c : \E j \in DOMAIN u :
       u[j].key = c[i].key /\ (c[i].left >= 0 => u[j].value + c[i].left <= ttl)
  /\ \A i1, i2 \in DOMAIN c : \A j1, j2 \in DOMAIN u :
       c[i1].key = u[j1].key /\ c[i2].key = u[j2].key /\ i1 < i2 => j1 < j2

\* s is c without its entry i.
Without(s, c, i) ==
  /\ DOMAIN s = 1 .. Len(c) - 1
  /\ \A j \in DOMAIN s : s[j] = c[IF j < i THEN j ELSE j + 1]

\* s is c with an entry put in front.
Led(s, e, c) ==
  /\ DOMAIN s = 1 .. Len(c) + 1 /\ s[1] = e
  /\ \A j \in DOMAIN c : s[j + 1] = c[j]

LEMMA RemoveAtFacts ==
  ASSUME NEW E, NEW c \in Seq(E), NEW i \in DOMAIN c
  PROVE  /\ RemoveAt(c, i) \in Seq(E) /\ Len(RemoveAt(c, i)) = Len(c) - 1
         /\ Without(RemoveAt(c, i), c, i)
<1> DEFINE n == Len(c)
           a == SubSeq(c, 1, i - 1)
           b == SubSeq(c, i + 1, n)
<1>1. n \in Nat /\ DOMAIN c = 1 .. n /\ i \in 1 .. n /\ \A j \in 1 .. n : c[j] \in E
  BY LenProperties, ElementOfSeq
<1>2. /\ a \in Seq(E) /\ Len(a) = i - 1
      /\ \A j \in 1 .. i - 1 : a[j] = c[j]
  <2>1. \A j \in 1 .. i - 1 : c[j] \in E
    BY <1>1
  <2>2. /\ a \in Seq(E) /\ Len(a) = IF 1 <= i - 1 THEN i - 1 - 1 + 1 ELSE 0
        /\ \A j \in 1 .. i - 1 - 1 + 1 : a[j] = c[1 + j - 1]
    BY <1>1, <2>1, SubSeqProperties
  <2> HIDE DEF a, n
  <2>. QED  BY <1>1, <2>2
<1>3. /\ b \in Seq(E) /\ Len(b) = n - i
      /\ \A j \in 1 .. n - i : b[j] = c[i + j]
  <2>1. \A j \in i + 1 .. n : c[j] \in E
    BY <1>1
  <2>2. /\ b \in Seq(E) /\ Len(b) = IF i + 1 <= n THEN n - (i + 1) + 1 ELSE 0
        /\ \A j \in 1 .. n - (i + 1) + 1 : b[j] = c[i + 1 + j - 1]
    BY <1>1, <2>1, SubSeqProperties
  <2> HIDE DEF b, n
  <2>3. Len(b) = n - i /\ n - (i + 1) + 1 = n - i
    BY <1>1, <2>2
  <2>4. ASSUME NEW j \in 1 .. n - i PROVE b[j] = c[i + j]
    <3>1. i + 1 + j - 1 = i + j
      BY <1>1
    <3>. QED  BY <2>2, <2>3, <3>1
  <2>. QED  BY <2>2, <2>3, <2>4
<1>4. RemoveAt(c, i) = a \o b
  BY DEF RemoveAt
<1> HIDE DEF a, b
<1>5. /\ a \o b \in Seq(E) /\ Len(a \o b) = Len(a) + Len(b)
      /\ \A j \in 1 .. Len(a) + Len(b) : (a \o b)[j] = IF j <= Len(a) THEN a[j] ELSE b[j - Len(a)]
  BY <1>2, <1>3, ConcatProperties
<1>6. Len(a) + Len(b) = n - 1 /\ Len(a \o b) = n - 1 /\ DOMAIN (a \o b) = 1 .. n - 1
  <2>1. Len(a) + Len(b) = n - 1
    <3> HIDE DEF n
    <3>. QED  BY <1>1, <1>2, <1>3
  <2>. QED  BY <1>5, <2>1, LenProperties
<1>7. ASSUME NEW j \in 1 .. n - 1
      PROVE  (a \o b)[j] = c[IF j < i THEN j ELSE j + 1]
  <2> HIDE DEF n
  <2>1. (a \o b)[j] = IF j <= i - 1 THEN a[j] ELSE b[j - (i - 1)]
    <3>1. j \in 1 .. Len(a) + Len(b)
      BY <1>6
    <3>. QED  BY <1>2, <1>5, <3>1
  <2>2. CASE j < i
    BY <1>1, <1>2, <2>1, <2>2
  <2>3. CASE ~(j < i)
    <3>1. j - (i - 1) \in 1 .. n - i /\ i + (j - (i - 1)) = j + 1
      BY <1>1, <2>3
    <3>2. b[j - (i - 1)] = c[j + 1]
      BY <1>3, <3>1
    <3>3. ~(j <= i - 1)
      BY <1>1, <2>3
    <3>. QED  BY <2>1, <2>3, <3>2, <3>3
  <2>. QED  BY <2>2, <2>3
<1>. QED
  BY <1>4, <1>5, <1>6, <1>7 DEF Without

LEMMA FrontFacts ==
  ASSUME NEW E, NEW c \in Seq(E), c # <<>>
  PROVE  /\ Front(c) \in Seq(E) /\ Len(Front(c)) = Len(c) - 1
         /\ Len(c) \in DOMAIN c /\ Without(Front(c), c, Len(c))
<1> DEFINE n == Len(c)
           a == SubSeq(c, 1, n - 1)
<1>1. n \in Nat /\ n > 0 /\ DOMAIN c = 1 .. n /\ \A j \in 1 .. n : c[j] \in E
  BY EmptySeq, LenProperties, ElementOfSeq
<1>2. \A j \in 1 .. n - 1 : c[j] \in E
  BY <1>1
<1>3. /\ a \in Seq(E) /\ Len(a) = IF 1 <= n - 1 THEN n - 1 - 1 + 1 ELSE 0
      /\ \A j \in 1 .. n - 1 - 1 + 1 : a[j] = c[1 + j - 1]
  BY <1>1, <1>2, SubSeqProperties
<1> HIDE DEF a, n
<1>4. Len(a) = n - 1 /\ DOMAIN a = 1 .. n - 1 /\ \A j \in 1 .. n - 1 : a[j] = c[j]
  BY <1>1, <1>3, LenProperties
<1>. QED
  BY <1>1, <1>3, <1>4 DEF Front, Without, a, n

LEMMA LedFacts ==
  ASSUME NEW E, NEW c \in Seq(E), NEW e \in E
  PROVE  /\ <<e>> \o c \in Seq(E) /\ Len(<<e>> \o c) = Len(c) + 1
         /\ Led(<<e>> \o c, e, c)
<1> DEFINE a == <<e>>
<1>1. a \in Seq(E) /\ Len(a) = 1 /\ a[1] = e
  OBVIOUS
<1>2. Len(c) \in Nat /\ DOMAIN c = 1 .. Len(c)
  BY LenProperties
<1> HIDE DEF a
<1>3. /\ a \o c \in Seq(E) /\ Len(a \o c) = Len(a) + Len(c)
      /\ \A j \in 1 .. Len(a) + Len(c) : (a \o c)[j] = IF j <= Len(a) THEN a[j] ELSE c[j - Len(a)]
  BY <1>1, ConcatProperties
<1>4. Len(a \o c) = Len(c) + 1 /\ DOMAIN (a \o c) = 1 .. Len(c) + 1
  BY <1>1, <1>2, <1>3, LenProperties
<1>5. (a \o c)[1] = e
  BY <1>1, <1>2, <1>3
<1>6. ASSUME NEW j \in DOMAIN c PROVE (a \o c)[j + 1] = c[j]
  <2>1. j + 1 \in 1 .. Len(a) + Len(c) /\ ~(j + 1 <= Len(a)) /\ j + 1 - Len(a) = j
    BY <1>1, <1>2
  <2>. QED  BY <1>3, <2>1
<1>. QED
  BY <1>3, <1>4, <1>5, <1>6 DEF Led, a

\* Where a key is.
LEMMA IndexFacts ==
  ASSUME NEW c, NEW k, k \in KeysOf(c)
  PROVE  IndexOf(c, k) \in DOMAIN c /\ c[IndexOf(c, k)].key = k
<1>1. \E i \in DOMAIN c : c[i].key = k
  BY DEF KeysOf
<1>. QED
  BY <1>1 DEF IndexOf

LEMMA IndexIsUnique ==
  ASSUME NEW c, Distinct(c), NEW i \in DOMAIN c
  PROVE  IndexOf(c, c[i].key) = i
<1>1. c[i].key \in KeysOf(c)
  BY DEF KeysOf
<1>. QED
  BY <1>1, IndexFacts DEF Distinct

\* An entry that is dropped.
LEMMA DropFacts ==
  ASSUME NEW c, NEW s, NEW i \in DOMAIN c, Len(c) \in Nat, DOMAIN c = 1 .. Len(c),
         Without(s, c, i), Distinct(c)
  PROVE  /\ Distinct(s) /\ c[i].key \notin KeysOf(s)
         /\ KeysOf(s) = KeysOf(c) \ {c[i].key}
<1> DEFINE up(j) == IF j < i THEN j ELSE j + 1
<1>1. \A j \in DOMAIN s : up(j) \in DOMAIN c /\ up(j) # i /\ s[j] = c[up(j)] /\ j \in Int
  BY DEF Without
<1>2. \A j1, j2 \in DOMAIN s : up(j1) = up(j2) => j1 = j2
  BY <1>1
<1>3. \A m \in DOMAIN c : m # i => \E j \in DOMAIN s : up(j) = m
  <2>1. SUFFICES ASSUME NEW m \in DOMAIN c, m # i PROVE \E j \in DOMAIN s : up(j) = m
    OBVIOUS
  <2>2. CASE m < i
    BY <2>2 DEF Without
  <2>3. CASE ~(m < i)
    <3>1. m - 1 \in DOMAIN s /\ up(m - 1) = m
      BY <2>1, <2>3 DEF Without
    <3>. QED  BY <3>1
  <2>. QED  BY <2>2, <2>3
<1> HIDE DEF up
<1>4. Distinct(s)
  BY <1>1, <1>2 DEF Distinct
<1>5. c[i].key \notin KeysOf(s)
  BY <1>1 DEF Distinct, KeysOf
<1>6. KeysOf(s) = KeysOf(c) \ {c[i].key}
  <2>1. ASSUME NEW k \in KeysOf(s) PROVE k \in KeysOf(c)
    BY <1>1 DEF KeysOf
  <2>2. ASSUME NEW k \in KeysOf(c), k # c[i].key PROVE k \in KeysOf(s)
    <3>1. PICK m \in DOMAIN c : c[m].key = k
      BY DEF KeysOf
    <3>2. PICK j \in DOMAIN s : up(j) = m
      BY <1>3, <2>2, <3>1
    <3>. QED  BY <1>1, <3>1, <3>2 DEF KeysOf
  <2>. QED  BY <1>5, <2>1, <2>2
<1>. QED
  BY <1>4, <1>5, <1>6

\* Dropping an entry from a cache leaves it in agreement with its history.
LEMMA DropAgrees ==
  ASSUME NEW c, NEW u, NEW ttl, NEW s, NEW i \in DOMAIN c, Len(c) \in Nat, DOMAIN c = 1 .. Len(c),
         Without(s, c, i), Agree(c, u, ttl)
  PROVE  Agree(s, u, ttl)
<1> DEFINE up(j) == IF j < i THEN j ELSE j + 1
<1>1. \A j \in DOMAIN s : up(j) \in DOMAIN c /\ s[j] = c[up(j)]
  BY DEF Without
<1>2. \A j1, j2 \in DOMAIN s : j1 < j2 => up(j1) < up(j2)
  BY DEF Without
<1> HIDE DEF up
<1>. QED
  BY <1>1, <1>2 DEF Agree

\* So does dropping a use of what the cache does not hold.
LEMMA DropUseAgrees ==
  ASSUME NEW c, NEW u, NEW ttl, NEW s, NEW i \in DOMAIN u, Len(u) \in Nat, DOMAIN u = 1 .. Len(u),
         Without(s, u, i), Distinct(u), u[i].key \notin KeysOf(c), Agree(c, u, ttl)
  PROVE  Agree(c, s, ttl)
<1> DEFINE up(j) == IF j < i THEN j ELSE j + 1
<1>1. \A j \in DOMAIN s : up(j) \in DOMAIN u /\ s[j] = u[up(j)]
  BY DEF Without
<1>2. \A j1, j2 \in DOMAIN s : up(j1) < up(j2) => j1 < j2
  BY DEF Without
<1>3. \A m \in DOMAIN u : m # i => \E j \in DOMAIN s : up(j) = m
  <2>1. SUFFICES ASSUME NEW m \in DOMAIN u, m # i PROVE \E j \in DOMAIN s : up(j) = m
    OBVIOUS
  <2>2. CASE m < i
    BY <2>2 DEF Without
  <2>3. CASE ~(m < i)
    <3>1. m - 1 \in DOMAIN s /\ up(m - 1) = m
      BY <2>1, <2>3 DEF Without
    <3>. QED  BY <3>1
  <2>. QED  BY <2>2, <2>3
<1> HIDE DEF up
<1>4. ASSUME NEW x \in DOMAIN c
      PROVE  \E j \in DOMAIN s :
               s[j].key = c[x].key /\ (c[x].left >= 0 => s[j].value + c[x].left <= ttl)
  <2>1. PICK m \in DOMAIN u :
          u[m].key = c[x].key /\ (c[x].left >= 0 => u[m].value + c[x].left <= ttl)
    BY DEF Agree
  <2>2. m # i
    BY <2>1 DEF KeysOf
  <2>3. PICK j \in DOMAIN s : up(j) = m
    BY <1>3, <2>2
  <2>. QED  BY <1>1, <2>1, <2>3
<1>5. ASSUME NEW i1 \in DOMAIN c, NEW i2 \in DOMAIN c, NEW j1 \in DOMAIN s, NEW j2 \in DOMAIN s,
             c[i1].key = s[j1].key, c[i2].key = s[j2].key, i1 < i2
      PROVE  j1 < j2
  BY <1>1, <1>2, <1>5 DEF Agree
<1>. QED
  BY <1>4, <1>5 DEF Agree

\* A key new to both comes first in both.
LEMMA LeadAgrees ==
  ASSUME NEW c, NEW u, NEW ttl, NEW s, NEW t, NEW e, NEW f,
         Len(c) \in Nat, DOMAIN c = 1 .. Len(c), Len(u) \in Nat, DOMAIN u = 1 .. Len(u),
         Led(s, e, c), Led(t, f, u), e.key = f.key, e.key \notin KeysOf(c), e.key \notin KeysOf(u),
         e.left >= 0 => f.value + e.left <= ttl, Agree(c, u, ttl), Distinct(c), Distinct(u)
  PROVE  Agree(s, t, ttl) /\ Distinct(s) /\ Distinct(t)
<1>1. \A i \in DOMAIN s : (i = 1 /\ s[i] = e) \/ (i - 1 \in DOMAIN c /\ s[i] = c[i - 1])
  <2>1. SUFFICES ASSUME NEW i \in DOMAIN s, i # 1 PROVE i - 1 \in DOMAIN c /\ s[i] = c[i - 1]
    BY DEF Led
  <2>2. i - 1 \in DOMAIN c /\ i - 1 + 1 = i
    BY <2>1 DEF Led
  <2>. QED  BY <2>2 DEF Led
<1>2. \A j \in DOMAIN t : (j = 1 /\ t[j] = f) \/ (j - 1 \in DOMAIN u /\ t[j] = u[j - 1])
  <2>1. SUFFICES ASSUME NEW i \in DOMAIN t, i # 1 PROVE i - 1 \in DOMAIN u /\ t[i] = u[i - 1]
    BY DEF Led
  <2>2. i - 1 \in DOMAIN u /\ i - 1 + 1 = i
    BY <2>1 DEF Led
  <2>. QED  BY <2>2 DEF Led
<1>3. /\ \A i \in DOMAIN c : c[i].key # e.key
      /\ \A j \in DOMAIN u : u[j].key # e.key
  BY DEF KeysOf
<1>4. DOMAIN s \subseteq Int /\ DOMAIN t \subseteq Int /\ 1 \in DOMAIN t /\ t[1] = f
  BY DEF Led
<1>5. Distinct(s)
  <2>1. SUFFICES ASSUME NEW i \in DOMAIN s, NEW j \in DOMAIN s, s[i].key = s[j].key PROVE i = j
    BY DEF Distinct
  <2>2. CASE i = 1 \/ j = 1
    BY <1>1, <1>3, <2>1, <2>2
  <2>3. CASE i # 1 /\ j # 1
    BY <1>1, <1>4, <2>1, <2>3 DEF Distinct
  <2>. QED  BY <2>2, <2>3
<1>6. Distinct(t)
  <2>1. SUFFICES ASSUME NEW i \in DOMAIN t, NEW j \in DOMAIN t, t[i].key = t[j].key PROVE i = j
    BY DEF Distinct
  <2>2. CASE i = 1 \/ j = 1
    BY <1>2, <1>3, <2>1, <2>2
  <2>3. CASE i # 1 /\ j # 1
    BY <1>2, <1>4, <2>1, <2>3 DEF Distinct
  <2>. QED  BY <2>2, <2>3
<1>7. ASSUME NEW i \in DOMAIN s
      PROVE  \E j \in DOMAIN t :
               t[j].key = s[i].key /\ (s[i].left >= 0 => t[j].value + s[i].left <= ttl)
  <2>1. CASE i = 1
    BY <1>1, <1>4, <2>1 DEF Led
  <2>2. CASE i # 1
    <3>1. i - 1 \in DOMAIN c /\ s[i] = c[i - 1]
      BY <1>1, <2>2
    <3>2. PICK m \in DOMAIN u : u[m].key = c[i - 1].key
                                /\ (c[i - 1].left >= 0 => u[m].value + c[i - 1].left <= ttl)
      BY <3>1 DEF Agree
    <3>3. m + 1 \in DOMAIN t /\ t[m + 1] = u[m]
      BY DEF Led
    <3>. QED  BY <3>1, <3>2, <3>3
  <2>. QED  BY <2>1, <2>2
<1>8. ASSUME NEW i1 \in DOMAIN s, NEW i2 \in DOMAIN s, NEW j1 \in DOMAIN t, NEW j2 \in DOMAIN t,
             s[i1].key = t[j1].key, s[i2].key = t[j2].key, i1 < i2
      PROVE  j1 < j2
  <2>1. i2 # 1 /\ i2 - 1 \in DOMAIN c /\ s[i2] = c[i2 - 1]
    BY <1>1, <1>4, <1>8 DEF Led
  <2>2. j2 # 1 /\ j2 - 1 \in DOMAIN u /\ t[j2] = u[j2 - 1]
    BY <1>2, <1>3, <1>8, <2>1
  <2>3. CASE i1 = 1
    <3>1. j1 = 1
      BY <1>1, <1>2, <1>3, <1>8, <2>3
    <3>. QED  BY <1>4, <2>2, <3>1
  <2>4. CASE i1 # 1
    <3>1. i1 - 1 \in DOMAIN c /\ s[i1] = c[i1 - 1]
      BY <1>1, <2>4
    <3>2. j1 # 1 /\ j1 - 1 \in DOMAIN u /\ t[j1] = u[j1 - 1]
      BY <1>2, <1>3, <1>8, <3>1
    <3> DEFINE x1 == i1 - 1
               x2 == i2 - 1
               y1 == j1 - 1
               y2 == j2 - 1
    <3>3. /\ x1 \in DOMAIN c /\ x2 \in DOMAIN c /\ y1 \in DOMAIN u /\ y2 \in DOMAIN u
          /\ c[x1].key = u[y1].key /\ c[x2].key = u[y2].key /\ x1 < x2
      <4>1. i1 \in Int /\ i2 \in Int
        BY <1>4
      <4>. QED  BY <1>8, <2>1, <2>2, <3>1, <3>2, <4>1
    <3> HIDE DEF x1, x2, y1, y2
    <3>4. y1 < y2
      BY <3>3 DEF Agree
    <3>5. j1 \in Int /\ j2 \in Int
      BY <1>4
    <3>. QED  BY <3>4, <3>5 DEF y1, y2
  <2>. QED  BY <2>3, <2>4
<1>. QED
  BY <1>5, <1>6, <1>7, <1>8 DEF Agree

\* Entries of the history.
Used == Entry(Prompts, Nat, 0)

\* A cache and its history.
Kept(E, c, u, ttl) ==
  c \in Seq(E) /\ u \in Seq(Used) /\ Distinct(c) /\ Distinct(u) /\ Agree(c, u, ttl)

LEMMA SeqDomain ==
  ASSUME NEW E, NEW c \in Seq(E)
  PROVE  Len(c) \in Nat /\ DOMAIN c = 1 .. Len(c) /\ \A i \in DOMAIN c : c[i] \in E
BY LenProperties, ElementOfSeq

\* An entry removed from a cache, and an entry removed from its history.
LEMMA Removed ==
  ASSUME NEW E, NEW c, NEW u, NEW ttl, Kept(E, c, u, ttl), NEW i \in DOMAIN c
  PROVE  /\ Kept(E, RemoveAt(c, i), u, ttl) /\ Len(RemoveAt(c, i)) = Len(c) - 1
         /\ c[i].key \notin KeysOf(RemoveAt(c, i))
         /\ KeysOf(RemoveAt(c, i)) = KeysOf(c) \ {c[i].key}
<1> DEFINE s == RemoveAt(c, i)
<1>1. c \in Seq(E) /\ Len(c) \in Nat /\ DOMAIN c = 1 .. Len(c)
  BY SeqDomain DEF Kept
<1>2. s \in Seq(E) /\ Len(s) = Len(c) - 1 /\ Without(s, c, i)
  BY <1>1, RemoveAtFacts
<1> HIDE DEF s
<1>3. Distinct(s) /\ c[i].key \notin KeysOf(s) /\ KeysOf(s) = KeysOf(c) \ {c[i].key}
  BY <1>1, <1>2, DropFacts DEF Kept
<1>4. Agree(s, u, ttl)
  BY <1>1, <1>2, DropAgrees DEF Kept
<1>. QED
  BY <1>2, <1>3, <1>4 DEF Kept, s

LEMMA UseRemoved ==
  ASSUME NEW E, NEW c, NEW u, NEW ttl, Kept(E, c, u, ttl), NEW j \in DOMAIN u,
         u[j].key \notin KeysOf(c)
  PROVE  Kept(E, c, RemoveAt(u, j), ttl) /\ u[j].key \notin KeysOf(RemoveAt(u, j))
<1> DEFINE s == RemoveAt(u, j)
<1>1. u \in Seq(Used) /\ Len(u) \in Nat /\ DOMAIN u = 1 .. Len(u)
  BY SeqDomain DEF Kept
<1>2. s \in Seq(Used) /\ Without(s, u, j)
  BY <1>1, RemoveAtFacts
<1> HIDE DEF s
<1>3. Distinct(s) /\ u[j].key \notin KeysOf(s)
  BY <1>1, <1>2, DropFacts DEF Kept
<1>4. Agree(c, s, ttl)
  BY <1>1, <1>2, DropUseAgrees DEF Kept
<1>. QED
  BY <1>2, <1>3, <1>4 DEF Kept, s

LEMMA KeysLed ==
  ASSUME NEW s, NEW e, NEW c, Len(c) \in Nat, DOMAIN c = 1 .. Len(c), Led(s, e, c)
  PROVE  KeysOf(s) = {e.key} \cup KeysOf(c)
<1>1. \A i \in DOMAIN s : (i = 1 /\ s[i] = e) \/ (i - 1 \in DOMAIN c /\ s[i] = c[i - 1])
  <2>1. SUFFICES ASSUME NEW i \in DOMAIN s, i # 1 PROVE i - 1 \in DOMAIN c /\ s[i] = c[i - 1]
    BY DEF Led
  <2>2. i - 1 \in DOMAIN c /\ i - 1 + 1 = i
    BY <2>1 DEF Led
  <2>. QED  BY <2>2 DEF Led
<1>2. \A j \in DOMAIN c : j + 1 \in DOMAIN s /\ s[j + 1] = c[j]
  BY DEF Led
<1>3. 1 \in DOMAIN s /\ s[1] = e
  BY DEF Led
<1>4. ASSUME NEW k \in KeysOf(s) PROVE k \in {e.key} \cup KeysOf(c)
  BY <1>1 DEF KeysOf
<1>5. ASSUME NEW k \in {e.key} \cup KeysOf(c) PROVE k \in KeysOf(s)
  BY <1>2, <1>3 DEF KeysOf
<1>. QED
  BY <1>4, <1>5

\* An entry used for the first time.
LEMMA FirstUse ==
  ASSUME NEW E, NEW c, NEW u, NEW ttl, Kept(E, c, u, ttl), NEW e \in E, NEW f \in Used,
         e.key = f.key, e.key \notin KeysOf(c), e.key \notin KeysOf(u),
         e.left >= 0 => f.value + e.left <= ttl
  PROVE  /\ Kept(E, <<e>> \o c, <<f>> \o u, ttl) /\ Len(<<e>> \o c) = Len(c) + 1
         /\ KeysOf(<<e>> \o c) = {e.key} \cup KeysOf(c) /\ Led(<<e>> \o c, e, c)
<1> DEFINE s == <<e>> \o c
           t == <<f>> \o u
<1>1. /\ c \in Seq(E) /\ Len(c) \in Nat /\ DOMAIN c = 1 .. Len(c)
      /\ u \in Seq(Used) /\ Len(u) \in Nat /\ DOMAIN u = 1 .. Len(u)
  BY SeqDomain DEF Kept
<1>2. s \in Seq(E) /\ Len(s) = Len(c) + 1 /\ Led(s, e, c) /\ t \in Seq(Used) /\ Led(t, f, u)
  BY <1>1, LedFacts
<1> HIDE DEF s, t
<1>3. Agree(s, t, ttl) /\ Distinct(s) /\ Distinct(t)
  BY <1>1, <1>2, LeadAgrees DEF Kept
<1>4. KeysOf(s) = {e.key} \cup KeysOf(c)
  BY <1>1, <1>2, KeysLed
<1>. QED
  BY <1>2, <1>3, <1>4 DEF Kept, s, t

\* An entry used again.
LEMMA UsedAgain ==
  ASSUME NEW E, NEW c, NEW u, NEW ttl, Kept(E, c, u, ttl), NEW e \in E, NEW f \in Used,
         NEW i \in DOMAIN c, NEW j \in DOMAIN u, e.key = f.key, c[i].key = e.key, u[j].key = e.key,
         e.left >= 0 => f.value + e.left <= ttl
  PROVE  /\ Kept(E, ToFront(c, i, e), ToFront(u, j, f), ttl) /\ Len(ToFront(c, i, e)) = Len(c)
         /\ KeysOf(ToFront(c, i, e)) = KeysOf(c)
<1> DEFINE s == RemoveAt(c, i)
           t == RemoveAt(u, j)
<1>1. /\ Kept(E, s, u, ttl) /\ Len(s) = Len(c) - 1 /\ e.key \notin KeysOf(s)
      /\ KeysOf(s) = KeysOf(c) \ {e.key}
  BY Removed
<1>2. Kept(E, s, t, ttl) /\ e.key \notin KeysOf(t)
  BY <1>1, UseRemoved
<1>3. ToFront(c, i, e) = <<e>> \o s /\ ToFront(u, j, f) = <<f>> \o t
  BY DEF ToFront
<1>4. e.key \in KeysOf(c)
  BY DEF KeysOf
<1>5. Len(c) \in Nat
  BY SeqDomain DEF Kept
<1> HIDE DEF s, t
<1>6. /\ Kept(E, s, t, ttl) /\ e.key = f.key /\ e.key \notin KeysOf(s) /\ e.key \notin KeysOf(t)
      /\ e.left >= 0 => f.value + e.left <= ttl
  BY <1>1, <1>2
<1>7. /\ Kept(E, <<e>> \o s, <<f>> \o t, ttl) /\ Len(<<e>> \o s) = Len(s) + 1
      /\ KeysOf(<<e>> \o s) = {e.key} \cup KeysOf(s)
  BY <1>6, FirstUse
<1>8. Len(<<e>> \o s) = Len(c)
  BY <1>1, <1>5, <1>7
<1>9. KeysOf(<<e>> \o s) = KeysOf(c)
  BY <1>1, <1>4, <1>7
<1>. QED
  BY <1>3, <1>7, <1>8, <1>9

\* A look into a cache: what it finds counts as used, and only what has expired
\* goes away.
LEMMA GetKeeps ==
  ASSUME NEW E, NEW c, NEW u, NEW ttl, Kept(E, c, u, ttl), NEW k,
         NEW u2, u2 = IF Hit(c, k) THEN ToFront(u, IndexOf(u, k), u[IndexOf(u, k)]) ELSE u
  PROVE  /\ Kept(E, AfterGet(c, k), u2, ttl) /\ Len(AfterGet(c, k)) <= Len(c)
         /\ \A x \in KeysOf(c) \ KeysOf(AfterGet(c, k)) : ~Hit(c, x)
<1> DEFINE i == IndexOf(c, k)
           j == IndexOf(u, k)
<1>1. Len(c) \in Nat
  BY SeqDomain DEF Kept
<1>2. CASE k \notin KeysOf(c)
  BY <1>1, <1>2 DEF AfterGet, Hit
<1>3. CASE k \in KeysOf(c) /\ ~Hit(c, k)
  <2>1. i \in DOMAIN c /\ c[i].key = k
    BY <1>3, IndexFacts
  <2>2. AfterGet(c, k) = RemoveAt(c, i) /\ u2 = u
    BY <1>3 DEF AfterGet
  <2> HIDE DEF i
  <2>3. /\ Kept(E, RemoveAt(c, i), u, ttl) /\ Len(RemoveAt(c, i)) = Len(c) - 1
        /\ KeysOf(RemoveAt(c, i)) = KeysOf(c) \ {k}
    BY <2>1, Removed
  <2>. QED
    BY <1>1, <1>3, <2>2, <2>3
<1>4. CASE Hit(c, k)
  <2>1. k \in KeysOf(c) /\ c[i].left >= 0
    BY <1>4 DEF Hit, Lives
  <2>2. i \in DOMAIN c /\ c[i].key = k
    BY <2>1, IndexFacts
  <2>3. AfterGet(c, k) = ToFront(c, i, c[i]) /\ u2 = ToFront(u, j, u[j])
    BY <1>4, <2>1 DEF AfterGet
  <2> HIDE DEF i
  <2>4. PICK m \in DOMAIN u : u[m].key = k /\ (c[i].left >= 0 => u[m].value + c[i].left <= ttl)
    BY <2>2 DEF Kept, Agree
  <2>5. j = m
    BY <2>4, IndexIsUnique DEF Kept
  <2> HIDE DEF j
  <2>6. c[i] \in E /\ u[j] \in Used
    BY <2>2, <2>4, <2>5, SeqDomain DEF Kept
  <2> DEFINE e == c[i]
             f == u[j]
  <2>7. /\ e \in E /\ f \in Used /\ j \in DOMAIN u /\ e.key = f.key /\ c[i].key = e.key /\ u[j].key = e.key
        /\ e.left >= 0 => f.value + e.left <= ttl
    BY <2>2, <2>4, <2>5, <2>6
  <2> HIDE DEF e, f
  <2>8. /\ Kept(E, ToFront(c, i, e), ToFront(u, j, f), ttl) /\ Len(ToFront(c, i, e)) = Len(c)
        /\ KeysOf(ToFront(c, i, e)) = KeysOf(c)
    BY <2>2, <2>7, UsedAgain
  <2>. QED
    BY <1>1, <2>3, <2>8 DEF e, f
<1>. QED
  BY <1>2, <1>3, <1>4 DEF Hit

\* The history of an entry that was not there.
LEMMA NewUse ==
  ASSUME NEW E, NEW c, NEW u, NEW ttl, Kept(E, c, u, ttl), NEW e \in E, NEW f \in Used,
         e.key = f.key, f = [key |-> e.key, value |-> 0, left |-> 0], e.key \notin KeysOf(c),
         e.left >= 0 => e.left <= ttl, e.left \in Int
  PROVE  /\ Kept(E, <<e>> \o c, AfterPut(u, e.key, 0, Len(u) + 1, 0), ttl)
         /\ Len(<<e>> \o c) = Len(c) + 1 /\ KeysOf(<<e>> \o c) = {e.key} \cup KeysOf(c)
         /\ Led(<<e>> \o c, e, c)
<1> DEFINE k == e.key
           j == IndexOf(u, k)
           t == RemoveAt(u, j)
           u2 == AfterPut(u, k, 0, Len(u) + 1, 0)
<1>1. f.value = 0 /\ (e.left >= 0 => f.value + e.left <= ttl)
  OBVIOUS
<1>2. CASE k \in KeysOf(u)
  <2>1. j \in DOMAIN u /\ u[j].key = k
    BY <1>2, IndexFacts
  <2>2. u2 = <<f>> \o t
    BY <1>2 DEF AfterPut, ToFront
  <2> HIDE DEF j, u2
  <2>3. Kept(E, c, t, ttl) /\ k \notin KeysOf(t)
    BY <2>1, UseRemoved
  <2> HIDE DEF t
  <2>4. /\ Kept(E, <<e>> \o c, <<f>> \o t, ttl)
        /\ Len(<<e>> \o c) = Len(c) + 1 /\ KeysOf(<<e>> \o c) = {e.key} \cup KeysOf(c)
        /\ Led(<<e>> \o c, e, c)
    BY <1>1, <2>3, FirstUse
  <2>. QED
    BY <2>2, <2>4 DEF u2
<1>3. CASE k \notin KeysOf(u)
  <2>1. Len(u) \in Nat
    BY SeqDomain DEF Kept
  <2>2. u2 = <<f>> \o u
    BY <1>3, <2>1 DEF AfterPut, Room
  <2> HIDE DEF u2
  <2>3. /\ Kept(E, <<e>> \o c, <<f>> \o u, ttl)
        /\ Len(<<e>> \o c) = Len(c) + 1 /\ KeysOf(<<e>> \o c) = {e.key} \cup KeysOf(c)
        /\ Led(<<e>> \o c, e, c)
    BY <1>1, <1>3, FirstUse
  <2>. QED
    BY <2>2, <2>3 DEF u2
<1>. QED
  BY <1>2, <1>3

\* An entry made in a cache.  Another one goes away only if there is no room, and
\* then it is the one used longest ago.
LEMMA PutKeeps ==
  ASSUME NEW E, NEW c, NEW u, NEW ttl \in Nat, Kept(E, c, u, ttl), NEW k, NEW v,
         NEW e \in E, e = [key |-> k, value |-> v, left |-> ttl], k \in Prompts,
         NEW capacity \in Nat \ {0}, Len(c) <= capacity,
         NEW c2, c2 = AfterPut(c, k, v, capacity, ttl),
         NEW u2, u2 = AfterPut(u, k, 0, Len(u) + 1, 0)
  PROVE  /\ Kept(E, c2, u2, ttl) /\ Len(c2) <= capacity
         /\ \A x \in KeysOf(c) \ KeysOf(c2) :
              Len(c2) = capacity /\ \A y \in KeysOf(c2) : IndexOf(u2, y) < IndexOf(u2, x)
<1> DEFINE f == [key |-> k, value |-> 0, left |-> 0]
<1>1. f \in Used /\ f.key = k /\ f.value = 0
  BY DEF Used, Entry
<1>2. /\ c \in Seq(E) /\ Len(c) \in Nat /\ DOMAIN c = 1 .. Len(c)
      /\ u \in Seq(Used) /\ Len(u) \in Nat /\ DOMAIN u = 1 .. Len(u)
  BY SeqDomain DEF Kept
<1>3. e.key = k /\ e.left = ttl /\ f = [key |-> e.key, value |-> 0, left |-> 0]
  OBVIOUS
<1>4. /\ e.left \in Int /\ f.value + e.left <= ttl
      /\ e.left >= 0 => e.left <= ttl
  BY <1>1, <1>3
<1> HIDE DEF f
<1>5. CASE k \in KeysOf(c)
  <2> DEFINE i == IndexOf(c, k)
             j == IndexOf(u, k)
  <2>1. i \in DOMAIN c /\ c[i].key = k
    BY <1>5, IndexFacts
  <2>2. PICK m \in DOMAIN u : u[m].key = k
    BY <2>1 DEF Kept, Agree
  <2>3. k \in KeysOf(u)
    BY <2>2 DEF KeysOf
  <2>4. j \in DOMAIN u /\ u[j].key = k
    BY <2>3, IndexFacts
  <2>5. c2 = ToFront(c, i, e) /\ u2 = ToFront(u, j, f)
    BY <1>5, <2>3 DEF AfterPut, f
  <2> HIDE DEF i, j
  <2>6. /\ Kept(E, ToFront(c, i, e), ToFront(u, j, f), ttl) /\ Len(ToFront(c, i, e)) = Len(c)
        /\ KeysOf(ToFront(c, i, e)) = KeysOf(c)
    BY <1>1, <1>3, <1>4, <2>1, <2>4, UsedAgain
  <2>. QED
    BY <2>5, <2>6
<1>6. CASE k \notin KeysOf(c)
  <2> DEFINE s == <<e>> \o c
  <2>1. Kept(E, s, u2, ttl) /\ Len(s) = Len(c) + 1 /\ KeysOf(s) = {k} \cup KeysOf(c) /\ Led(s, e, c)
    BY <1>1, <1>3, <1>4, <1>6, NewUse
  <2>2. CASE ~(Len(c) >= capacity)
    <3>1. c2 = s
      BY <1>6, <2>2 DEF AfterPut, Room
    <3> HIDE DEF s
    <3>. QED
      BY <1>2, <2>1, <2>2, <3>1
  <2>3. CASE Len(c) >= capacity
    <3> DEFINE a == Front(c)
               n == Len(c)
    <3>1. n = capacity /\ c # <<>>
      BY <1>2, <2>3, EmptySeq
    <3>2. a \in Seq(E) /\ Len(a) = n - 1 /\ n \in DOMAIN c /\ Without(a, c, n)
      BY <1>2, <3>1, FrontFacts
    <3>3. c2 = <<e>> \o a
      BY <1>6, <2>3 DEF AfterPut, Room
    <3> HIDE DEF a, s
    <3>4. Distinct(a) /\ KeysOf(a) = KeysOf(c) \ {c[n].key}
      BY <1>2, <3>2, DropFacts DEF Kept
    <3>5. Agree(a, u, ttl)
      BY <1>2, <3>2, DropAgrees DEF Kept
    <3>6. Kept(E, a, u, ttl) /\ k \notin KeysOf(a)
      BY <1>6, <3>2, <3>4, <3>5 DEF Kept
    <3>7. Kept(E, c2, u2, ttl) /\ Len(c2) = Len(a) + 1 /\ KeysOf(c2) = {k} \cup KeysOf(a) /\ Led(c2, e, a)
      <4>1. /\ Kept(E, a, u, ttl) /\ e.key = f.key /\ f = [key |-> e.key, value |-> 0, left |-> 0]
            /\ e.key \notin KeysOf(a) /\ e.left \in Int /\ f \in Used
            /\ e.left >= 0 => e.left <= ttl
        BY <1>1, <1>3, <1>4, <3>6
      <4>2. /\ Kept(E, <<e>> \o a, AfterPut(u, e.key, 0, Len(u) + 1, 0), ttl)
            /\ Len(<<e>> \o a) = Len(a) + 1 /\ KeysOf(<<e>> \o a) = {e.key} \cup KeysOf(a)
            /\ Led(<<e>> \o a, e, a)
        BY <4>1, NewUse
      <4>3. u2 = AfterPut(u, e.key, 0, Len(u) + 1, 0)
        BY <1>3
      <4>. QED
        BY <1>3, <3>3, <4>2, <4>3
    <3>8. Len(c2) = capacity
      BY <1>2, <3>1, <3>2, <3>7
    <3>9. ASSUME NEW x \in KeysOf(c) \ KeysOf(c2), NEW y \in KeysOf(c2)
          PROVE  IndexOf(u2, y) < IndexOf(u2, x)
      <4>1. x = c[n].key
        BY <3>4, <3>7, <3>9
      <4>2. n + 1 \in DOMAIN s /\ s[n + 1].key = x
        BY <1>2, <2>1, <3>2, <4>1 DEF Led
      <4>3. PICK m \in DOMAIN s : s[m].key = y /\ m < n + 1
        <5>1. CASE y = k
          BY <1>2, <1>3, <2>1, <3>1, <5>1 DEF Led
        <5>2. CASE y # k
          <6>1. y \in KeysOf(a)
            BY <3>7, <3>9, <5>2
          <6>2. PICK p \in DOMAIN a : a[p].key = y
            BY <6>1 DEF KeysOf
          <6>3. p \in 1 .. n - 1 /\ p < n /\ a[p] = c[p]
            BY <1>2, <3>2, <6>2 DEF Without
          <6>4. p + 1 \in DOMAIN s /\ s[p + 1] = c[p] /\ p + 1 < n + 1
            BY <1>2, <2>1, <6>3 DEF Led
          <6>. QED  BY <6>2, <6>3, <6>4
        <5>. QED  BY <5>1, <5>2
      <4>4. Agree(s, u2, ttl)
        BY <2>1 DEF Kept
      <4> DEFINE px == IndexOf(u2, x)
                 py == IndexOf(u2, y)
                 n1 == n + 1
      <4>5. n1 \in DOMAIN s /\ s[n1].key = x /\ m < n1
        BY <4>2, <4>3
      <4> HIDE DEF n1
      <4>6. px \in DOMAIN u2 /\ u2[px].key = x
        <5>1. PICK j \in DOMAIN u2 : u2[j].key = s[n1].key
          BY <4>4, <4>5 DEF Agree
        <5>2. x \in KeysOf(u2)
          BY <4>5, <5>1 DEF KeysOf
        <5>. QED  BY <5>2, IndexFacts
      <4>7. py \in DOMAIN u2 /\ u2[py].key = y
        <5>1. PICK j \in DOMAIN u2 : u2[j].key = s[m].key
          BY <4>4 DEF Agree
        <5>2. y \in KeysOf(u2)
          BY <4>3, <5>1 DEF KeysOf
        <5>. QED  BY <5>2, IndexFacts
      <4> HIDE DEF px, py
      <4>8. py < px
        BY <4>3, <4>4, <4>5, <4>6, <4>7 DEF Agree
      <4>. QED
        BY <4>8 DEF px, py
    <3>. QED
      BY <1>2, <3>7, <3>8, <3>9
  <2>. QED
    BY <2>2, <2>3
<1>. QED
  BY <1>5, <1>6

\* The time that passes for an entry of a cache.
Aged(e) == [e EXCEPT !.left = IF @ < 0 THEN @ ELSE @ - 1]

LEMMA OlderKeeps ==
  ASSUME NEW E, NEW c, NEW u, NEW ttl \in Nat, Kept(E, c, u, ttl), NEW limit \in Int,
         \A e \in E : /\ e.left \in Int /\ Aged(e) \in E /\ Aged(e).key = e.key
                      /\ Aged(e).left = IF e.left < 0 THEN e.left ELSE e.left - 1,
         NEW u2, u2 = [j \in DOMAIN u |-> [u[j] EXCEPT !.value = IF @ < limit THEN @ + 1 ELSE @]]
  PROVE  /\ Kept(E, Older(c), u2, ttl) /\ Len(Older(c)) = Len(c)
         /\ KeysOf(Older(c)) = KeysOf(c)
<1> DEFINE s == Older(c)
           n == Len(c)
           m == Len(u)
<1>1. /\ c \in Seq(E) /\ n \in Nat /\ DOMAIN c = 1 .. n /\ \A i \in DOMAIN c : c[i] \in E
      /\ u \in Seq(Used) /\ m \in Nat /\ DOMAIN u = 1 .. m /\ \A j \in DOMAIN u : u[j] \in Used
  BY SeqDomain DEF Kept
<1>2. s = [i \in 1 .. n |-> Aged(c[i])]
  BY <1>1 DEF Older, Aged
<1> HIDE DEF s, n, m
<1>3. s \in Seq(E) /\ Len(s) = n /\ DOMAIN s = DOMAIN c
  BY <1>1, <1>2, SMTT(60)
<1>4. \A i \in DOMAIN s :
        /\ s[i].key = c[i].key /\ c[i].left \in Int
        /\ s[i].left = IF c[i].left < 0 THEN c[i].left ELSE c[i].left - 1
  BY <1>1, <1>2
<1> HIDE DEF Aged
<1>5. \A j \in DOMAIN u :
        /\ u2[j] \in Used /\ u2[j].key = u[j].key /\ u[j].value \in Nat
        /\ u2[j].value \in Nat /\ u2[j].value <= u[j].value + 1
  <2>1. SUFFICES ASSUME NEW j \in DOMAIN u
                 PROVE  /\ u2[j] \in Used /\ u2[j].key = u[j].key /\ u[j].value \in Nat
                        /\ u2[j].value \in Nat /\ u2[j].value <= u[j].value + 1
    OBVIOUS
  <2>2. u2[j] = [u[j] EXCEPT !.value = IF @ < limit THEN @ + 1 ELSE @]
    OBVIOUS
  <2>3. u[j] \in [key : Prompts, value : Nat, left : -1 .. 0]
    BY <1>1 DEF Used, Entry
  <2>. QED
    BY <2>2, <2>3 DEF Used, Entry
<1>6. u2 \in Seq(Used) /\ DOMAIN u2 = DOMAIN u
  <2>1. u2 = [j \in 1 .. m |-> u2[j]] /\ DOMAIN u2 = 1 .. m
    BY <1>1, Zenon
  <2>2. \A j \in 1 .. m : u2[j] \in Used
    BY <1>1, <1>5
  <2>3. u2 \in [1 .. m -> Used]
    BY <2>1, <2>2, Zenon
  <2>4. m \in Nat /\ DOMAIN u = 1 .. m
    BY <1>1
  <2>5. u2 \in Seq(Used)
    BY <2>3, <2>4, SeqDef
  <2>. QED
    BY <2>1, <2>4, <2>5
<1>7. Distinct(s) /\ Distinct(u2)
  <2>1. Distinct(s)
    BY <1>3, <1>4, Zenon DEF Distinct, Kept
  <2>2. Distinct(u2)
    <3>1. SUFFICES ASSUME NEW i \in DOMAIN u2, NEW j \in DOMAIN u2, u2[i].key = u2[j].key
                   PROVE  i = j
      BY Zenon DEF Distinct
    <3>2. i \in DOMAIN u /\ j \in DOMAIN u
      BY <1>6, Zenon
    <3>3. u[i].key = u[j].key
      BY <1>5, <3>1, <3>2, Zenon
    <3>. QED  BY <3>2, <3>3, Zenon DEF Distinct, Kept
  <2>. QED  BY <2>1, <2>2
<1>8. KeysOf(s) = KeysOf(c)
  <2>1. \A i \in DOMAIN c : s[i].key = c[i].key
    BY <1>3, <1>4, Zenon
  <2>2. ASSUME NEW k \in KeysOf(s) PROVE k \in KeysOf(c)
    <3>1. PICK i \in DOMAIN s : k = s[i].key
      BY Zenon DEF KeysOf
    <3>. QED  BY <1>3, <2>1, <3>1, Zenon DEF KeysOf
  <2>3. ASSUME NEW k \in KeysOf(c) PROVE k \in KeysOf(s)
    <3>1. PICK i \in DOMAIN c : k = c[i].key
      BY Zenon DEF KeysOf
    <3>. QED  BY <1>3, <2>1, <3>1, Zenon DEF KeysOf
  <2>. QED
    BY <2>2, <2>3, Zenon
<1>9. ASSUME NEW i \in DOMAIN s
      PROVE  \E j \in DOMAIN u2 :
               u2[j].key = s[i].key /\ (s[i].left >= 0 => u2[j].value + s[i].left <= ttl)
  <2>1. PICK j \in DOMAIN u : u[j].key = c[i].key /\ (c[i].left >= 0 => u[j].value + c[i].left <= ttl)
    BY <1>3 DEF Kept, Agree
  <2>2. u2[j].key = s[i].key
    BY <1>4, <1>5, <2>1, Zenon
  <2>3. ASSUME s[i].left >= 0 PROVE u2[j].value + s[i].left <= ttl
    <3> DEFINE a == c[i].left
               b == s[i].left
               x == u[j].value
               y == u2[j].value
    <3>1. a \in Int /\ b = IF a < 0 THEN a ELSE a - 1
      BY <1>4
    <3>2. x \in Nat /\ y \in Nat /\ y <= x + 1
      BY <1>5
    <3>3. a >= 0 => x + a <= ttl
      BY <2>1
    <3>4. b >= 0
      BY <2>3
    <3> HIDE DEF a, b, x, y
    <3>5. y + b <= ttl
      BY <3>1, <3>2, <3>3, <3>4
    <3>. QED  BY <3>5 DEF b, y
  <2>. QED  BY <1>6, <2>2, <2>3
<1>10. ASSUME NEW i1 \in DOMAIN s, NEW i2 \in DOMAIN s, NEW j1 \in DOMAIN u2, NEW j2 \in DOMAIN u2,
              s[i1].key = u2[j1].key, s[i2].key = u2[j2].key, i1 < i2
       PROVE  j1 < j2
  <2>1. c[i1].key = u[j1].key /\ c[i2].key = u[j2].key
    BY <1>4, <1>5, <1>6, <1>10
  <2>. QED
    BY <1>3, <1>6, <1>10, <2>1 DEF Kept, Agree
<1>11. Agree(s, u2, ttl)
  BY <1>9, <1>10 DEF Agree
<1>. QED
  BY <1>3, <1>6, <1>7, <1>8, <1>11 DEF Kept, s, n

\* What is found alive was given no longer ago than the cache may keep it.
LEMMA FoundAge ==
  ASSUME NEW E, NEW c, NEW u, NEW ttl \in Nat, Kept(E, c, u, ttl), NEW k, Hit(c, k),
         \A e \in E : e.left \in Int
  PROVE  /\ c[IndexOf(c, k)] \in E /\ c[IndexOf(c, k)].key = k
         /\ Stored(u, k) <= ttl
<1> DEFINE i == IndexOf(c, k)
           j == IndexOf(u, k)
<1>1. i \in DOMAIN c /\ c[i].key = k /\ c[i].left >= 0
  BY IndexFacts DEF Hit, Lives
<1> HIDE DEF i
<1>2. c[i] \in E
  BY <1>1, SeqDomain DEF Kept
<1>3. PICK m \in DOMAIN u : u[m].key = k /\ u[m].value + c[i].left <= ttl
  BY <1>1 DEF Kept, Agree
<1>4. j = m
  BY <1>3, IndexIsUnique DEF Kept
<1> HIDE DEF j
<1>5. u[m] \in Used
  BY SeqDomain DEF Kept
<1>6. u[m].value \in Nat
  BY <1>5 DEF Used, Entry
<1>7. c[i].left \in Int
  BY <1>2
<1>8. u[m].value <= ttl
  BY <1>1, <1>3, <1>6, <1>7
<1>. QED
  BY <1>1, <1>2, <1>4, <1>8 DEF Stored, i, j

\* A cache has as many keys as entries.
LEMMA DistinctCount ==
  ASSUME NEW E, NEW c \in Seq(E), Distinct(c)
  PROVE  Cardinality(KeysOf(c)) = Len(c)
<1> DEFINE n == Len(c)
           key == [i \in 1 .. n |-> c[i].key]
<1>1. n \in Nat /\ DOMAIN c = 1 .. n
  BY LenProperties
<1>2. key \in Bijection(1 .. n, KeysOf(c))
  <2>1. key \in [1 .. n -> KeysOf(c)]
    BY <1>1 DEF KeysOf
  <2>2. key \in Injection(1 .. n, KeysOf(c))
    BY <1>1, <2>1 DEF Distinct, Injection, IsInjective
  <2>3. \A k \in KeysOf(c) : \E i \in 1 .. n : key[i] = k
    BY <1>1 DEF KeysOf
  <2>. QED
    BY <2>1, <2>2, <2>3 DEF Bijection, Surjection
<1>3. IsFiniteSet(1 .. n) /\ Cardinality(1 .. n) = n
  <2> HIDE DEF n
  <2>1. 1 \in Int /\ n \in Int
    BY <1>1
  <2>2. /\ IsFiniteSet(1 .. n)
        /\ Cardinality(1 .. n) = IF 1 > n THEN 0 ELSE n - 1 + 1
    BY <2>1, FS_Interval
  <2>. QED  BY <1>1, <2>2
<1>4. Cardinality(1 .. n) = Cardinality(KeysOf(c))
  BY <1>2, <1>3, FS_Bijection DEF ExistsBijection
<1>. QED
  BY <1>3, <1>4
-----------------------------------------------------------------------------
(* What the cascade decides on *)

\* Among finitely many candidates one comes first: of the highest score, and of
\* those the first.
LEMMA FirstOfTheBest ==
  ASSUME NEW n \in Nat, NEW I \in SUBSET (1 .. n), I # {}, NEW f \in [I -> Nat]
  PROVE  \E i \in I : \A j \in I : f[i] > f[j] \/ (f[i] = f[j] /\ i <= j)
<1> DEFINE before(i, j) == f[i] > f[j] \/ (f[i] = f[j] /\ i <= j)
           ahead(i) == {j \in I : before(j, i)}
           D == {ahead(i) : i \in I}
<1>1. \A i \in I : f[i] \in Nat /\ i \in Int
  OBVIOUS
<1>2. D \subseteq FiniteSubsetsOf(1 .. n) /\ D # {}
  <2>1. IsFiniteSet(1 .. n)
    BY FS_Interval
  <2>2. \A i \in I : ahead(i) \in SUBSET (1 .. n) /\ IsFiniteSet(ahead(i))
    BY <2>1, FS_Subset
  <2>3. \A S \in D : S \in SUBSET (1 .. n) /\ IsFiniteSet(S)
    BY <2>2
  <2>4. PICK i \in I : TRUE
    OBVIOUS
  <2> HIDE DEF ahead
  <2>5. ahead(i) \in D
    BY <2>4
  <2> HIDE DEF D
  <2>. QED  BY <2>3, <2>5 DEF FiniteSubsetsOf
<1>3. PICK S \in D : \A T \in D : <<T, S>> \notin StrictSubsetOrdering(1 .. n)
  BY <1>2, FS_StrictSubsetOrderingWellFounded, WFMin
<1>4. PICK i \in I : S = ahead(i)
  OBVIOUS
<1>5. ASSUME NEW j \in I PROVE before(i, j)
  <2>1. SUFFICES ASSUME ~before(i, j) PROVE FALSE
    OBVIOUS
  <2>2. before(j, i)
    BY <1>1, <2>1
  <2>3. ahead(j) \subseteq ahead(i)
    <3>1. ASSUME NEW k \in I, before(k, j) PROVE before(k, i)
      BY <1>1, <2>2, <3>1
    <3>. QED  BY <3>1
  <2>4. i \in ahead(i) /\ i \notin ahead(j)
    BY <1>1, <2>1
  <2>5. <<ahead(j), ahead(i)>> \in StrictSubsetOrdering(1 .. n)
    <3>1. ahead(i) \in SUBSET (1 .. n) /\ ahead(j) \in SUBSET (1 .. n)
      OBVIOUS
    <3> HIDE DEF ahead
    <3>. QED  BY <2>3, <2>4, <3>1 DEF StrictSubsetOrdering
  <2>. QED  BY <1>3, <1>4, <2>5
<1>. QED
  BY <1>5

\* The rules lead to routes.
LEMMA HeuristicIsNamed ==
  ASSUME scene \in Scenarios, cfg.enabled, NEW p
  PROVE  Heuristic(p) \in Named \cup {None}
<1> DEFINE matching == {i \in DOMAIN cfg.rules : p \in cfg.rules[i].prompts}
           first == CHOOSE i \in matching : \A j \in matching : i <= j
           n == Len(cfg.rules)
           zero == [i \in matching |-> 0]
<1>1. /\ n \in Nat /\ DOMAIN cfg.rules = 1 .. n
      /\ \A i \in DOMAIN cfg.rules : cfg.rules[i] \in [prompts : SUBSET Prompts, route : Named]
  BY NamedFacts, SeqDomain
<1>2. CASE matching = {}
  BY <1>2 DEF Heuristic
<1>3. CASE matching # {}
  <2>1. n \in Nat /\ matching \in SUBSET (1 .. n) /\ zero \in [matching -> Nat] /\ matching # {}
    BY <1>1, <1>3
  <2>2. \A i \in matching : zero[i] = 0
    OBVIOUS
  <2>3. Heuristic(p) = cfg.rules[first].route
    BY <1>3 DEF Heuristic
  <2> HIDE DEF zero, n
  <2>4. \E i \in matching : \A j \in matching : zero[i] > zero[j] \/ (zero[i] = zero[j] /\ i <= j)
    <3> HIDE DEF matching
    <3>. QED  BY <2>1, FirstOfTheBest
  <2>5. \E i \in matching : \A j \in matching : i <= j
    <3> HIDE DEF matching
    <3>. QED  BY <2>2, <2>4
  <2>6. first \in matching
    <3> HIDE DEF matching
    <3>. QED  BY <2>5
  <2> HIDE DEF first
  <2>. QED  BY <1>1, <2>3, <2>6
<1>. QED
  BY <1>2, <1>3

\* So do the vectors: some route has examples.
LEMMA BestIsNamed ==
  ASSUME scene \in Scenarios, cfg.enabled, cfg.semantic, NEW v \in Vectors
  PROVE  Best(v) \in Named \cup {None}
<1> DEFINE exemplified == {i \in DOMAIN cfg.routes : cfg.routes[i] \in cfg.examples}
           score(i) == Similarity[v][cfg.routes[i]]
           best == CHOOSE i \in exemplified :
                     \A j \in exemplified : score(i) > score(j) \/ (score(i) = score(j) /\ i <= j)
           f == [i \in exemplified |-> score(i)]
           n == Len(cfg.routes)
<1>1. /\ n \in Nat /\ DOMAIN cfg.routes = 1 .. n
      /\ \A i \in DOMAIN cfg.routes : cfg.routes[i] \in Routes
      /\ cfg.examples \cap Named # {}
  BY NamedFacts, SeqDomain DEF Validated, Named
<1>2. exemplified # {} /\ exemplified \in SUBSET (1 .. n)
  BY <1>1 DEF Named
<1>3. f \in [exemplified -> Nat]
  BY <1>1, SimilarityAssumption
<1>4. \A i \in exemplified : f[i] = score(i)
  OBVIOUS
<1>5. Best(v) \in {None, cfg.routes[best]}
  BY DEF Best
<1>6. exemplified \subseteq DOMAIN cfg.routes
  OBVIOUS
<1> HIDE DEF f, n, exemplified
<1>7. \E i \in exemplified : \A j \in exemplified : f[i] > f[j] \/ (f[i] = f[j] /\ i <= j)
  BY <1>1, <1>2, <1>3, FirstOfTheBest
<1> HIDE DEF score
<1>8. \E i \in exemplified :
        \A j \in exemplified : score(i) > score(j) \/ (score(i) = score(j) /\ i <= j)
  BY <1>4, <1>7
<1>9. best \in exemplified
  BY <1>8
<1> HIDE DEF best
<1>. QED
  BY <1>5, <1>6, <1>9 DEF Named

LEMMA FallbackIsNamed ==
  ASSUME scene \in Scenarios, cfg.enabled
  PROVE  Fallback \in Named
BY NamedFacts DEF Fallback, Named
-----------------------------------------------------------------------------
(* The caches of the handler *)

Confidences == {reply.confidence : reply \in scene.replies}

\* What is kept, and under what it is kept: what it is about.
Value(l) == IF l = "embed" THEN [vector : Vectors, about : Prompts]
            ELSE [route : Named, confidence : Confidences, about : Prompts]
Entries(l) == {e \in Entry(Prompts, Value(l), cfg.ttl[l]) : e.value.about = e.key}

CacheInv ==
  /\ cache = [l \in Layer |-> cache[l]] /\ uses = [l \in Layer |-> uses[l]]
  /\ \A l \in Layer :
       Kept(Entries(l), cache[l], uses[l], cfg.ttl[l]) /\ Len(cache[l]) <= cfg.capacity[l]

\* An entry goes away when it has expired, or to make room for another one and
\* then as the one used longest ago.
Evicts ==
  \A l \in Layer : \A k \in KeysOf(cache[l]) \ KeysOf(cache'[l]) :
    Hit(cache[l], k) =>
      /\ Len(cache'[l]) = cfg.capacity[l]
      /\ \A k2 \in KeysOf(cache'[l]) : IndexOf(uses'[l], k2) < IndexOf(uses'[l], k)

LEMMA CacheSizes ==
  ASSUME scene \in Scenarios, NEW l \in Layer
  PROVE  cfg.capacity[l] \in Nat /\ cfg.ttl[l] \in Nat
BY ScenariosAssumption DEF cfg

LEMMA EntryFacts ==
  ASSUME scene \in Scenarios, NEW l \in Layer, NEW e \in Entries(l)
  PROVE  /\ e.key \in Prompts /\ e.value \in Value(l) /\ e.value.about = e.key
         /\ e.left \in -1 .. cfg.ttl[l] /\ e.left \in Int
BY CacheSizes DEF Entries, Entry

LEMMA AgedEntry ==
  ASSUME scene \in Scenarios, NEW l \in Layer, NEW e \in Entries(l)
  PROVE  /\ e.left \in Int /\ Aged(e) \in Entries(l) /\ Aged(e).key = e.key
         /\ Aged(e).left = IF e.left < 0 THEN e.left ELSE e.left - 1
<1> DEFINE left == IF e.left < 0 THEN e.left ELSE e.left - 1
           ttl == cfg.ttl[l]
<1>1. ttl \in Nat /\ e.left \in -1 .. ttl /\ e.value.about = e.key
  BY CacheSizes, EntryFacts
<1>2. left \in -1 .. ttl
  <2> HIDE DEF ttl
  <2>. QED  BY <1>1
<1>3. e \in [key : Prompts, value : Value(l), left : -1 .. ttl]
  BY DEF Entries, Entry
<1>4. Aged(e) = [e EXCEPT !.left = left]
  BY DEF Aged
<1> HIDE DEF left, ttl
<1>5. /\ Aged(e) \in [key : Prompts, value : Value(l), left : -1 .. ttl]
      /\ Aged(e).left = left /\ Aged(e).key = e.key /\ Aged(e).value = e.value
  BY <1>2, <1>3, <1>4
<1>. QED
  BY <1>1, <1>5 DEF Entries, Entry, left, ttl

\* One of the caches changes.
LEMMA OneCache ==
  ASSUME CacheInv, UNCHANGED scene, NEW l \in Layer, NEW c, NEW u,
         cache' = [cache EXCEPT ![l] = c], uses' = [uses EXCEPT ![l] = u],
         Kept(Entries(l), c, u, cfg.ttl[l]), Len(c) <= cfg.capacity[l],
         \A k \in KeysOf(cache[l]) \ KeysOf(c) :
           Hit(cache[l], k) =>
             Len(c) = cfg.capacity[l] /\ \A k2 \in KeysOf(c) : IndexOf(u, k2) < IndexOf(u, k)
  PROVE  CacheInv' /\ Evicts
<1>1. /\ cache' = [m \in Layer |-> cache'[m]] /\ uses' = [m \in Layer |-> uses'[m]]
      /\ cache'[l] = c /\ uses'[l] = u
      /\ \A m \in Layer : m # l => cache'[m] = cache[m] /\ uses'[m] = uses[m]
  BY DEF CacheInv
<1>2. /\ cfg' = cfg /\ \A m \in Layer : Entries(m)' = Entries(m)
      /\ \A m \in Layer : cfg'.ttl[m] = cfg.ttl[m] /\ cfg'.capacity[m] = cfg.capacity[m]
  BY DEF cfg, Entries, Value, Named, Confidences
<1>3. ASSUME NEW m \in Layer
      PROVE  Kept(Entries(m), cache'[m], uses'[m], cfg.ttl[m]) /\ Len(cache'[m]) <= cfg.capacity[m]
  BY <1>1 DEF CacheInv
<1>4. CacheInv'
  <2>1. ASSUME NEW m \in Layer
        PROVE  (Kept(Entries(m), cache[m], uses[m], cfg.ttl[m]) /\ Len(cache[m]) <= cfg.capacity[m])'
    BY <1>2, <1>3 DEF Kept, Agree, Distinct
  <2>. QED  BY <1>1, <2>1 DEF CacheInv
<1>5. Evicts
  <2>1. \A m \in Layer : m # l => KeysOf(cache[m]) \ KeysOf(cache'[m]) = {}
    BY <1>1
  <2>. QED  BY <1>1, <2>1 DEF Evicts
<1>. QED
  BY <1>4, <1>5

LEMMA SameCaches ==
  ASSUME CacheInv, UNCHANGED <<scene, cache, uses>>
  PROVE  CacheInv' /\ Evicts
<1>1. CacheInv'
  <2>1. /\ cfg' = cfg /\ \A m \in Layer : Entries(m)' = Entries(m)
        /\ \A m \in Layer : cfg'.ttl[m] = cfg.ttl[m] /\ cfg'.capacity[m] = cfg.capacity[m]
    BY DEF cfg, Entries, Value, Named, Confidences
  <2>2. ASSUME NEW m \in Layer
        PROVE  (Kept(Entries(m), cache[m], uses[m], cfg.ttl[m]) /\ Len(cache[m]) <= cfg.capacity[m])'
    BY <2>1 DEF CacheInv, Kept, Agree, Distinct
  <2>. QED  BY <2>2 DEF CacheInv
<1>2. \A l \in Layer : KeysOf(cache[l]) \ KeysOf(cache'[l]) = {}
  OBVIOUS
<1>. QED
  BY <1>1, <1>2 DEF Evicts

LEMMA GetStep ==
  ASSUME scene \in Scenarios, CacheInv, UNCHANGED scene, NEW l \in Layer, NEW k, Get(l, k)
  PROVE  CacheInv' /\ Evicts
<1>1. CASE cfg.capacity[l] = 0 \/ k = None
  BY <1>1, SameCaches DEF Get
<1>2. CASE ~(cfg.capacity[l] = 0 \/ k = None)
  <2> DEFINE c == cache[l]
             u == uses[l]
             ttl == cfg.ttl[l]
             c2 == AfterGet(c, k)
             u2 == IF Hit(c, k) THEN ToFront(u, IndexOf(u, k), u[IndexOf(u, k)]) ELSE u
  <2>1. cache' = [cache EXCEPT ![l] = c2] /\ uses' = [uses EXCEPT ![l] = u2]
    BY <1>2 DEF Get
  <2>2. Kept(Entries(l), c, u, ttl) /\ Len(c) <= cfg.capacity[l] /\ cfg.capacity[l] \in Nat
    BY CacheSizes DEF CacheInv
  <2>3. u2 = IF Hit(c, k) THEN ToFront(u, IndexOf(u, k), u[IndexOf(u, k)]) ELSE u
    OBVIOUS
  <2> HIDE DEF u2, c, u
  <2>4. /\ Kept(Entries(l), c2, u2, ttl) /\ Len(c2) <= Len(c)
        /\ \A x \in KeysOf(c) \ KeysOf(c2) : ~Hit(c, x)
    BY <2>2, <2>3, GetKeeps
  <2>5. Len(c) \in Nat /\ Len(c2) \in Nat
    BY <2>2, <2>4, SeqDomain DEF Kept
  <2>6. Len(c2) <= cfg.capacity[l]
    <3> HIDE DEF c2
    <3>. QED  BY <2>2, <2>4, <2>5
  <2> HIDE DEF c2
  <2>. QED
    BY <2>1, <2>4, <2>6, OneCache DEF c, u
<1>. QED
  BY <1>1, <1>2

LEMMA PutStep ==
  ASSUME scene \in Scenarios, CacheInv, UNCHANGED scene, NEW l \in Layer,
         NEW k \in Prompts \cup {None}, NEW v \in Value(l), v.about = k, Put(l, k, v)
  PROVE  CacheInv' /\ Evicts
<1>1. CASE cfg.capacity[l] = 0 \/ k = None
  BY <1>1, SameCaches DEF Put
<1>2. CASE ~(cfg.capacity[l] = 0 \/ k = None)
  <2> DEFINE c == cache[l]
             u == uses[l]
             ttl == cfg.ttl[l]
             capacity == cfg.capacity[l]
             e == [key |-> k, value |-> v, left |-> ttl]
             c2 == AfterPut(c, k, v, capacity, ttl)
             u2 == AfterPut(u, k, 0, Len(u) + 1, 0)
  <2>1. cache' = [cache EXCEPT ![l] = c2] /\ uses' = [uses EXCEPT ![l] = u2]
    BY <1>2 DEF Put
  <2>2. /\ Kept(Entries(l), c, u, ttl) /\ Len(c) <= capacity
        /\ capacity \in Nat \ {0} /\ ttl \in Nat /\ k \in Prompts
    BY <1>2, CacheSizes DEF CacheInv
  <2>3. e \in Entries(l)
    <3>1. ttl \in -1 .. ttl
      <4> HIDE DEF ttl
      <4>. QED  BY <2>2
    <3> HIDE DEF ttl
    <3>2. e \in [key : Prompts, value : Value(l), left : -1 .. ttl] /\ e.value = v /\ e.key = k
      BY <2>2, <3>1
    <3> HIDE DEF e
    <3>. QED  BY <3>2 DEF Entries, Entry, ttl
  <2>4. /\ e = [key |-> k, value |-> v, left |-> ttl]
        /\ c2 = AfterPut(c, k, v, capacity, ttl) /\ u2 = AfterPut(u, k, 0, Len(u) + 1, 0)
    OBVIOUS
  <2> HIDE DEF e, c2, u2, c, u, ttl, capacity
  <2>5. /\ Kept(Entries(l), c2, u2, ttl) /\ Len(c2) <= capacity
        /\ \A x \in KeysOf(c) \ KeysOf(c2) :
             Len(c2) = capacity /\ \A y \in KeysOf(c2) : IndexOf(u2, y) < IndexOf(u2, x)
    BY <2>2, <2>3, <2>4, PutKeeps
  <2>. QED
    BY <2>1, <2>5, OneCache DEF c, u, ttl, capacity
<1>. QED
  BY <1>1, <1>2

LEMMA TickStep ==
  ASSUME scene \in Scenarios, CacheInv, Tick
  PROVE  CacheInv' /\ Evicts
<1>1. /\ UNCHANGED scene
      /\ cache' = [l \in Layer |-> Older(cache[l])]
      /\ uses' = [l \in Layer |-> [i \in DOMAIN uses[l] |->
           [uses[l][i] EXCEPT !.value = IF @ < OldAge THEN @ + 1 ELSE @]]]
  BY DEF Tick
<1>2. OldAge \in Int
  <2>1. "embed" \in Layer /\ "classify" \in Layer
    BY DEF Layer
  <2>2. cfg.ttl.embed \in Nat /\ cfg.ttl.classify \in Nat
    BY <2>1, CacheSizes
  <2>. QED  BY <2>2 DEF OldAge
<1>3. ASSUME NEW l \in Layer
      PROVE  /\ Kept(Entries(l), cache'[l], uses'[l], cfg.ttl[l]) /\ Len(cache'[l]) <= cfg.capacity[l]
             /\ KeysOf(cache'[l]) = KeysOf(cache[l])
  <2> DEFINE c == cache[l]
             u == uses[l]
             u2 == uses'[l]
  <2>1. /\ Kept(Entries(l), c, u, cfg.ttl[l]) /\ Len(c) <= cfg.capacity[l]
        /\ cfg.ttl[l] \in Nat
    BY CacheSizes DEF CacheInv
  <2>2. cache'[l] = Older(c)
    BY <1>1
  <2>3. u2 = [j \in DOMAIN u |-> [u[j] EXCEPT !.value = IF @ < OldAge THEN @ + 1 ELSE @]]
    BY <1>1
  <2>4. \A e \in Entries(l) :
          /\ e.left \in Int /\ Aged(e) \in Entries(l) /\ Aged(e).key = e.key
          /\ Aged(e).left = IF e.left < 0 THEN e.left ELSE e.left - 1
    BY AgedEntry
  <2> HIDE DEF c, u, u2
  <2>5. /\ Kept(Entries(l), Older(c), u2, cfg.ttl[l]) /\ Len(Older(c)) = Len(c)
        /\ KeysOf(Older(c)) = KeysOf(c)
    BY <1>2, <2>1, <2>3, <2>4, OlderKeeps
  <2>. QED
    BY <2>1, <2>2, <2>5 DEF c, u2
<1>4. /\ cfg' = cfg /\ \A m \in Layer : Entries(m)' = Entries(m)
      /\ \A m \in Layer : cfg'.ttl[m] = cfg.ttl[m] /\ cfg'.capacity[m] = cfg.capacity[m]
  BY <1>1 DEF cfg, Entries, Value, Named, Confidences
<1>5. CacheInv'
  <2>1. ASSUME NEW m \in Layer
        PROVE  (Kept(Entries(m), cache[m], uses[m], cfg.ttl[m]) /\ Len(cache[m]) <= cfg.capacity[m])'
    BY <1>3, <1>4 DEF Kept, Agree, Distinct
  <2>2. cache' = [l \in Layer |-> cache'[l]] /\ uses' = [l \in Layer |-> uses'[l]]
    BY <1>1
  <2>. QED  BY <2>1, <2>2 DEF CacheInv
<1>6. Evicts
  BY <1>3 DEF Evicts
<1>. QED
  BY <1>5, <1>6
-----------------------------------------------------------------------------
(* What is known of a request *)

Stages == {"idle", "received", "embedding", "awaiting vector", "scored", "consulting",
           "awaiting reply", "undecided", "answered"}

\* What a request used was about its prompt, and young enough.
Fresh(prompt, used) ==
  used # None =>
    /\ used.about = IF used.layer = "embed" THEN Truncated[prompt] ELSE prompt
    /\ used.age <= cfg.ttl[used.layer]

\* Where a request can be, with what it has found so far.
Placed(pc, prompt, vec, used) ==
  /\ pc \in Stages
  /\ pc \notin {"idle", "received", "answered"} => cfg.enabled
  /\ pc \in {"embedding", "awaiting vector", "scored"} => cfg.semantic
  /\ pc \in {"awaiting vector", "scored"} => prompt # None
  /\ pc = "scored" => vec \in Vectors
  /\ Fresh(prompt, used)

Known(q) ==
  /\ Placed(q.pc, q.prompt, q.vec, q.used)
  /\ q.key \in scene.records \cup {None} /\ q.prompt \in Prompts \cup {None}
  /\ q.asked \in Models \cup Aliases \cup {None}
  /\ q.route \in Routes \cup {None} /\ q.model \in Models \cup {None}
  /\ cfg.enabled => q.answer # "model required"

\* The cascade takes a request from one place to the next.
LEMMA MovesOn ==
  ASSUME NEW q, Shape(q), Known(q), NEW pc, NEW vec, NEW used, NEW q2,
         \/ q2 = [q EXCEPT !.pc = pc] /\ vec = q.vec /\ used = q.used
         \/ q2 = [q EXCEPT !.used = used] /\ pc = q.pc /\ vec = q.vec
         \/ q2 = [q EXCEPT !.pc = pc, !.vec = vec] /\ used = q.used
         \/ q2 = [q EXCEPT !.vec = vec, !.pc = pc] /\ used = q.used
         \/ q2 = [q EXCEPT !.pc = pc, !.vec = vec, !.used = used],
         Placed(pc, q.prompt, vec, used)
  PROVE  Shape(q2) /\ Known(q2)
<1>1. /\ Shape(q2) /\ q2.pc = pc /\ q2.vec = vec /\ q2.used = used
      /\ q2.key = q.key /\ q2.asked = q.asked /\ q2.prompt = q.prompt
      /\ q2.route = q.route /\ q2.model = q.model /\ q2.answer = q.answer
  <2>1. CASE q2 = [q EXCEPT !.pc = pc] /\ vec = q.vec /\ used = q.used
    BY <2>1 DEF Shape
  <2>2. CASE q2 = [q EXCEPT !.used = used] /\ pc = q.pc /\ vec = q.vec
    BY <2>2 DEF Shape
  <2>3. CASE q2 = [q EXCEPT !.pc = pc, !.vec = vec] /\ used = q.used
    BY <2>3 DEF Shape
  <2>4. CASE q2 = [q EXCEPT !.vec = vec, !.pc = pc] /\ used = q.used
    BY <2>4 DEF Shape
  <2>5. CASE q2 = [q EXCEPT !.pc = pc, !.vec = vec, !.used = used]
    BY <2>5 DEF Shape
  <2>. QED
    BY <2>1, <2>2, <2>3, <2>4, <2>5
<1>. QED
  BY <1>1 DEF Known

\* The end of the handler: with a router there is a model.
LEMMA KnownConclusion ==
  ASSUME NEW q, Shape(q), Known(q), NEW route \in Routes \cup {None}, NEW model \in Models \cup {None},
         cfg.enabled => model # None
  PROVE  Known(Concluded(q, route, model))
<1> DEFINE answer == IF RouteDenied(q, route) THEN "route denied"
                     ELSE IF model = None THEN "model required"
                     ELSE IF ModelDenied(q, model) THEN "model denied"
                     ELSE IF Provided(model) THEN "dispatched"
                     ELSE "no provider"
           q2 == Concluded(q, route, model)
<1>1. cfg.enabled => answer # "model required"
  OBVIOUS
<1>2. q2 = [q EXCEPT !.pc = "answered", !.route = route, !.model = model, !.vec = None,
                     !.answer = answer]
  BY DEF Concluded
<1> HIDE DEF answer, q2
<1>3. /\ q2.pc = "answered" /\ q2.key = q.key /\ q2.asked = q.asked /\ q2.prompt = q.prompt
      /\ q2.route = route /\ q2.model = model /\ q2.answer = answer /\ q2.used = q.used
  BY <1>2 DEF Shape
<1>4. Fresh(q.prompt, q.used)
  BY DEF Known, Placed
<1>5. Placed(q2.pc, q2.prompt, q2.vec, q2.used)
  BY <1>3, <1>4 DEF Placed, Stages
<1>. QED
  BY <1>1, <1>3, <1>5 DEF Known, q2

LEMMA KnownRouted ==
  ASSUME scene \in Scenarios, cfg.enabled, NEW q, Shape(q), Known(q), NEW route \in Named
  PROVE  Known(Routed(q, route))
<1>1. route \in Routes /\ cfg.model[route] \in Models
  BY NamedFacts
<1>2. route # None /\ cfg.model[route] # None
  BY <1>1, AliasAssumption
<1>. QED
  BY <1>1, <1>2, KnownConclusion DEF Routed

LEMMA KnownRefused ==
  ASSUME NEW q, Shape(q), Known(q), NEW why, why # "model required"
  PROVE  Known(Refused(q, why))
<1> DEFINE q2 == Refused(q, why)
<1>1. q2 = [q EXCEPT !.pc = "answered", !.answer = why]
  BY DEF Refused
<1> HIDE DEF q2
<1>2. /\ q2.pc = "answered" /\ q2.answer = why /\ q2.key = q.key /\ q2.asked = q.asked
      /\ q2.prompt = q.prompt /\ q2.route = q.route /\ q2.model = q.model /\ q2.used = q.used
  BY <1>1 DEF Shape
<1>3. Fresh(q.prompt, q.used)
  BY DEF Known, Placed
<1>4. Placed(q2.pc, q2.prompt, q2.vec, q2.used)
  BY <1>2, <1>3 DEF Placed, Stages
<1>. QED
  BY <1>2, <1>4 DEF Known, q2

LEMMA KnownJudged ==
  ASSUME scene \in Scenarios, cfg.enabled, NEW q, Shape(q), Known(q), NEW reply, reply.route \in Named
  PROVE  Known(Judged(q, reply))
<1> DEFINE q2 == [q EXCEPT !.pc = "undecided"]
<1>1. q2 = [q EXCEPT !.pc = "undecided"]
  OBVIOUS
<1>2. Judged(q, reply) \in {Routed(q, reply.route), q2}
  BY DEF Judged
<1> HIDE DEF q2
<1>3. Placed("undecided", q.prompt, q.vec, q.used)
  BY DEF Known, Placed, Stages
<1>4. Known(q2)
  BY <1>1, <1>3, MovesOn
<1>. QED
  BY <1>2, <1>4, KnownRouted

LEMMA KnownIdle == Shape(Idle) /\ Known(Idle)
BY DEF Shape, Idle, Known, Placed, Stages, Fresh

AllKnown == \A r \in Requests : Known(req[r])

RoutingInv == RequestInv /\ CacheInv /\ AllKnown /\ issued \in [Tokens -> scene.records]

LEMMA KnownReplaced ==
  ASSUME RequestInv, AllKnown, NEW r \in Requests, NEW q, Known(q),
         req' = [req EXCEPT ![r] = q], UNCHANGED scene
  PROVE  AllKnown'
<1>1. \A s \in Requests : req'[s] = IF s = r THEN q ELSE req[s]
  BY DEF RequestInv
<1>2. \A s \in Requests : Known(req'[s])
  BY <1>1 DEF AllKnown
<1>3. ASSUME NEW s \in Requests PROVE Known(req[s])'
  <2>1. /\ cfg' = cfg /\ scene' = scene /\ Known(req'[s])
    BY <1>2 DEF cfg
  <2>2. Placed(req[s].pc, req[s].prompt, req[s].vec, req[s].used)'
    BY <2>1 DEF Known, Placed, Fresh
  <2>. QED  BY <2>1, <2>2 DEF Known
<1>. QED
  BY <1>3 DEF AllKnown

LEMMA KnownUntouched ==
  ASSUME AllKnown, UNCHANGED <<scene, req>>
  PROVE  AllKnown'
BY DEF AllKnown, Known, Placed, Fresh, cfg

LEMMA KnownFacts ==
  ASSUME RoutingInv, NEW r \in Requests
  PROVE  /\ scene \in Scenarios /\ Shape(req[r]) /\ Known(req[r]) /\ RequestInv /\ AllKnown /\ CacheInv
         /\ Placed(req[r].pc, req[r].prompt, req[r].vec, req[r].used)
BY DEF RoutingInv, RequestInv, Good, AllKnown, Known

LEMMA ArriveKnown ==
  ASSUME RoutingInv, NEW r \in Requests, NEW t \in Tokens, NEW model \in scene.asked,
         NEW p \in scene.prompts, Arrive(r, t, model, p)
  PROVE  AllKnown'
<1> DEFINE key == IF cfg.keys THEN issued[t] ELSE None
           q == [Idle EXCEPT !.pc = "received", !.token = t, !.asked = model, !.prompt = p, !.key = key]
<1>1. /\ UNCHANGED scene
      /\ req' = [req EXCEPT ![r] = q] \/ req' = [req EXCEPT ![r] = Refused(q, "unauthorized")]
  BY DEF Arrive
<1>2. key \in scene.records \cup {None}
  BY DEF RoutingInv
<1>3. p \in Prompts \cup {None} /\ model \in Models \cup Aliases \cup {None} /\ scene \in Scenarios
  BY ScenariosAssumption DEF RoutingInv, RequestInv
<1> HIDE DEF key
<1>4. q = [Idle EXCEPT !.pc = "received", !.token = t, !.asked = model, !.prompt = p, !.key = key]
  OBVIOUS
<1> HIDE DEF q
<1>5. /\ Shape(q) /\ q.pc = "received" /\ q.key = key /\ q.asked = model /\ q.prompt = p
      /\ q.used = None /\ q.route = None /\ q.model = None /\ q.answer = "none"
  BY <1>4 DEF Idle, Shape
<1>6. Known(q)
  BY <1>2, <1>3, <1>5 DEF Known, Placed, Stages, Fresh
<1>7. Known(Refused(q, "unauthorized"))
  BY <1>5, <1>6, KnownRefused
<1>. QED
  BY <1>1, <1>6, <1>7, KnownReplaced DEF RoutingInv

LEMMA CapabilityKnown ==
  ASSUME RoutingInv, NEW r \in Requests, Capability(r)
  PROVE  AllKnown'
<1> DEFINE q == req[r]
<1>1. /\ UNCHANGED scene
      /\ req' = [req EXCEPT ![r] = IF Unresolvable(q) THEN Refused(q, "bad alias") ELSE Routed(q, Class)]
  BY DEF Capability, shared
<1>2. scene \in Scenarios /\ Shape(q) /\ Known(q) /\ RequestInv /\ AllKnown
  BY KnownFacts
<1> HIDE DEF q
<1>3. CASE Unresolvable(q)
  <2>1. Known(Refused(q, "bad alias"))
    BY <1>2, KnownRefused
  <2>. QED  BY <1>1, <1>2, <1>3, <2>1, KnownReplaced
<1>4. CASE ~Unresolvable(q)
  <2>1. cfg.enabled /\ Class \in Named
    BY <1>4 DEF Unresolvable
  <2>2. Known(Routed(q, Class))
    BY <1>2, <2>1, KnownRouted
  <2>. QED  BY <1>1, <1>2, <1>4, <2>2, KnownReplaced
<1>. QED
  BY <1>3, <1>4

LEMMA PassthroughKnown ==
  ASSUME RoutingInv, NEW r \in Requests, Passthrough(r)
  PROVE  AllKnown'
<1> DEFINE q == req[r]
<1>1. /\ UNCHANGED scene /\ q.asked \notin Aliases /\ (cfg.enabled => q.asked # None)
      /\ req' = [req EXCEPT ![r] = Concluded(q, None, q.asked)]
  BY DEF Passthrough, shared
<1>2. Shape(q) /\ Known(q) /\ RequestInv /\ AllKnown
  BY KnownFacts
<1> HIDE DEF q
<1>3. q.asked \in Models \cup {None}
  BY <1>1, <1>2 DEF Known
<1>4. Known(Concluded(q, None, q.asked))
  BY <1>1, <1>2, <1>3, KnownConclusion
<1>. QED
  BY <1>1, <1>2, <1>4, KnownReplaced

LEMMA CascadeKnown ==
  ASSUME RoutingInv, NEW r \in Requests, Cascade(r)
  PROVE  AllKnown'
<1> DEFINE q == req[r]
           step == IF cfg.semantic THEN "embedding"
                   ELSE IF cfg.classifier THEN "consulting" ELSE "undecided"
           q2 == [q EXCEPT !.pc = step]
           route == Heuristic(q.prompt)
<1>1. /\ UNCHANGED scene /\ cfg.enabled
      /\ req' = [req EXCEPT ![r] = IF route # None THEN Routed(q, route) ELSE q2]
  BY DEF Cascade, shared
<1>2. /\ scene \in Scenarios /\ Shape(q) /\ Known(q) /\ RequestInv /\ AllKnown
      /\ Placed(q.pc, q.prompt, q.vec, q.used)
  BY KnownFacts
<1>3. /\ step \in {"embedding", "consulting", "undecided"}
      /\ step = "embedding" => cfg.semantic
  OBVIOUS
<1>4. q2 = [q EXCEPT !.pc = step]
  OBVIOUS
<1> HIDE DEF step, q2, q
<1>5. Placed(step, q.prompt, q.vec, q.used)
  BY <1>1, <1>2, <1>3 DEF Placed, Stages
<1>6. Known(q2)
  BY <1>2, <1>4, <1>5, MovesOn
<1>7. CASE route = None
  BY <1>1, <1>2, <1>6, <1>7, KnownReplaced
<1>8. CASE route # None
  <2>1. route \in Named
    BY <1>1, <1>2, <1>8, HeuristicIsNamed
  <2> HIDE DEF route
  <2>2. Known(Routed(q, route))
    BY <1>1, <1>2, <2>1, KnownRouted
  <2>. QED  BY <1>1, <1>2, <1>8, <2>2, KnownReplaced
<1>. QED
  BY <1>7, <1>8

LEMMA DefaultKnown ==
  ASSUME RoutingInv, NEW r \in Requests, Default(r)
  PROVE  AllKnown'
<1>1. /\ UNCHANGED scene /\ req[r].pc = "undecided"
      /\ req' = [req EXCEPT ![r] = Routed(req[r], Fallback)]
  BY DEF Default, shared
<1>2. cfg.enabled
  BY <1>1, KnownFacts DEF Placed
<1>3. Known(Routed(req[r], Fallback))
  BY <1>2, KnownFacts, FallbackIsNamed, KnownRouted
<1>. QED
  BY <1>1, <1>3, KnownFacts, KnownReplaced

\* What is found in a cache: about what it was kept under, and young enough.
LEMMA HitFacts ==
  ASSUME scene \in Scenarios, CacheInv, NEW l \in Layer, NEW k, Cached(l, k)
  PROVE  /\ Stored(cache[l], k) \in Value(l)
         /\ Found(l, k).layer = l /\ Found(l, k).about = k /\ Found(l, k).age <= cfg.ttl[l]
<1> DEFINE i == IndexOf(cache[l], k)
<1>1. Hit(cache[l], k) /\ Kept(Entries(l), cache[l], uses[l], cfg.ttl[l]) /\ cfg.ttl[l] \in Nat
  BY CacheSizes DEF Cached, CacheInv
<1>2. \A e \in Entries(l) : e.left \in Int
  BY EntryFacts
<1>3. /\ cache[l][i] \in Entries(l) /\ cache[l][i].key = k /\ Stored(uses[l], k) <= cfg.ttl[l]
  BY <1>1, <1>2, FoundAge
<1> HIDE DEF i
<1>4. Stored(cache[l], k) = cache[l][i].value
  BY DEF Stored, i
<1>5. Stored(cache[l], k) \in Value(l) /\ Stored(cache[l], k).about = k
  BY <1>3, <1>4, EntryFacts
<1>. QED
  BY <1>3, <1>5 DEF Found

LEMMA LookUpVectorKnown ==
  ASSUME RoutingInv, NEW r \in Requests, LookUpVector(r)
  PROVE  AllKnown'
<1> DEFINE q == req[r]
           k == EmbedKey(q.prompt)
           vec == Stored(cache.embed, k).vector
           used == Found("embed", k)
<1>1. /\ q.pc = "embedding" /\ UNCHANGED scene
      /\ req' = [req EXCEPT ![r] =
           IF k = None THEN [q EXCEPT !.pc = "undecided"]
           ELSE IF Cached("embed", k) THEN [q EXCEPT !.pc = "scored", !.vec = vec, !.used = used]
           ELSE [q EXCEPT !.pc = "awaiting vector"]]
  BY DEF LookUpVector
<1>2. /\ scene \in Scenarios /\ Shape(q) /\ Known(q) /\ RequestInv /\ AllKnown /\ CacheInv
      /\ Placed(q.pc, q.prompt, q.vec, q.used)
  BY KnownFacts
<1>3. cfg.enabled /\ cfg.semantic /\ Fresh(q.prompt, q.used)
  BY <1>1, <1>2 DEF Placed
<1>4. k # None => q.prompt # None /\ k = Truncated[q.prompt]
  BY DEF EmbedKey
<1> HIDE DEF q, k, vec, used
<1>5. CASE k = None
  <2>1. Placed("undecided", q.prompt, q.vec, q.used)
    BY <1>3 DEF Placed, Stages
  <2> DEFINE q2 == [q EXCEPT !.pc = "undecided"]
  <2>2. q2 = [q EXCEPT !.pc = "undecided"] /\ req' = [req EXCEPT ![r] = q2]
    BY <1>1, <1>5
  <2> HIDE DEF q2
  <2>3. Known(q2)
    BY <1>2, <2>1, <2>2, MovesOn
  <2>. QED  BY <1>1, <1>2, <2>2, <2>3, KnownReplaced
<1>6. CASE k # None /\ ~Cached("embed", k)
  <2>1. Placed("awaiting vector", q.prompt, q.vec, q.used)
    BY <1>3, <1>4, <1>6 DEF Placed, Stages
  <2> DEFINE q2 == [q EXCEPT !.pc = "awaiting vector"]
  <2>2. q2 = [q EXCEPT !.pc = "awaiting vector"] /\ req' = [req EXCEPT ![r] = q2]
    BY <1>1, <1>6
  <2> HIDE DEF q2
  <2>3. Known(q2)
    BY <1>2, <2>1, <2>2, MovesOn
  <2>. QED  BY <1>1, <1>2, <2>2, <2>3, KnownReplaced
<1>7. CASE k # None /\ Cached("embed", k)
  <2>1. "embed" \in Layer /\ cache["embed"] = cache.embed
    BY DEF Layer
  <2>2. /\ Stored(cache["embed"], k) \in Value("embed")
        /\ used.layer = "embed" /\ used.about = k /\ used.age <= cfg.ttl["embed"]
    BY <1>2, <1>7, <2>1, HitFacts DEF used
  <2>3. vec \in Vectors
    BY <2>1, <2>2 DEF vec, Value
  <2>4. Fresh(q.prompt, used)
    BY <1>4, <1>7, <2>2 DEF Fresh
  <2>5. Placed("scored", q.prompt, vec, used)
    BY <1>3, <1>4, <1>7, <2>3, <2>4 DEF Placed, Stages
  <2> DEFINE q2 == [q EXCEPT !.pc = "scored", !.vec = vec, !.used = used]
  <2>6. q2 = [q EXCEPT !.pc = "scored", !.vec = vec, !.used = used] /\ req' = [req EXCEPT ![r] = q2]
    BY <1>1, <1>7
  <2> HIDE DEF q2
  <2>7. Known(q2)
    BY <1>2, <2>5, <2>6, MovesOn
  <2>. QED  BY <1>1, <1>2, <2>6, <2>7, KnownReplaced
<1>. QED
  BY <1>5, <1>6, <1>7

LEMMA VectorArrivesKnown ==
  ASSUME RoutingInv, NEW r \in Requests, NEW v \in Vectors, VectorArrives(r, v)
  PROVE  AllKnown'
<1> DEFINE q == req[r]
<1>1. PICK q2 : /\ req' = [req EXCEPT ![r] = q2] /\ UNCHANGED scene
                /\ q.pc = "awaiting vector" /\ q2 = [q EXCEPT !.pc = "scored", !.vec = v]
  BY DEF VectorArrives
<1>2. /\ Shape(q) /\ Known(q) /\ RequestInv /\ AllKnown /\ Placed(q.pc, q.prompt, q.vec, q.used)
  BY KnownFacts
<1> HIDE DEF q
<1>3. Placed("scored", q.prompt, v, q.used)
  BY <1>1, <1>2 DEF Placed, Stages
<1>4. Known(q2)
  BY <1>1, <1>2, <1>3, MovesOn
<1>. QED
  BY <1>1, <1>2, <1>4, KnownReplaced

LEMMA FailureKnown ==
  ASSUME RoutingInv, NEW r \in Requests, EmbedFails(r) \/ ClassifierFails(r)
  PROVE  AllKnown'
<1> DEFINE q == req[r]
<1>1. PICK q2 : /\ req' = [req EXCEPT ![r] = q2] /\ UNCHANGED scene
                /\ q.pc \in {"awaiting vector", "awaiting reply"}
                /\ q2 = [q EXCEPT !.pc = "undecided"]
  BY DEF EmbedFails, ClassifierFails, shared
<1>2. /\ Shape(q) /\ Known(q) /\ RequestInv /\ AllKnown /\ Placed(q.pc, q.prompt, q.vec, q.used)
  BY KnownFacts
<1> HIDE DEF q
<1>3. Placed("undecided", q.prompt, q.vec, q.used)
  BY <1>1, <1>2 DEF Placed, Stages
<1>4. Known(q2)
  BY <1>1, <1>2, <1>3, MovesOn
<1>. QED
  BY <1>1, <1>2, <1>4, KnownReplaced

LEMMA ScoreKnown ==
  ASSUME RoutingInv, NEW r \in Requests, Score(r)
  PROVE  AllKnown'
<1> DEFINE q == req[r]
           best == Best(q.vec)
           score == IF best = None THEN 0 ELSE Similarity[q.vec][best]
           next == IF best # None /\ score >= cfg.ambiguous /\ cfg.classifier
                   THEN "consulting" ELSE "undecided"
           q2 == [q EXCEPT !.vec = None, !.pc = next]
<1>1. /\ UNCHANGED scene /\ q.pc = "scored"
      /\ req' = [req EXCEPT ![r] = IF best # None /\ score >= cfg.threshold THEN Routed(q, best) ELSE q2]
  BY DEF Score, shared
<1>2. /\ scene \in Scenarios /\ Shape(q) /\ Known(q) /\ RequestInv /\ AllKnown
      /\ Placed(q.pc, q.prompt, q.vec, q.used)
  BY KnownFacts
<1> HIDE DEF q, score
<1>3. cfg.enabled /\ cfg.semantic /\ q.vec \in Vectors
  BY <1>1, <1>2 DEF Placed
<1>4. best \in Named \cup {None}
  BY <1>2, <1>3, BestIsNamed
<1>5. next \in {"consulting", "undecided"} /\ q2 = [q EXCEPT !.vec = None, !.pc = next]
  OBVIOUS
<1> HIDE DEF best, next, q2
<1>6. Placed(next, q.prompt, None, q.used)
  BY <1>2, <1>3, <1>5 DEF Placed, Stages
<1>7. Known(q2)
  BY <1>2, <1>5, <1>6, MovesOn
<1>8. CASE best # None /\ score >= cfg.threshold
  <2>1. Known(Routed(q, best))
    BY <1>2, <1>3, <1>4, <1>8, KnownRouted
  <2>. QED  BY <1>1, <1>2, <1>8, <2>1, KnownReplaced
<1>9. CASE ~(best # None /\ score >= cfg.threshold)
  BY <1>1, <1>2, <1>7, <1>9, KnownReplaced
<1>. QED
  BY <1>8, <1>9

LEMMA LookUpClassificationKnown ==
  ASSUME RoutingInv, NEW r \in Requests, LookUpClassification(r)
  PROVE  AllKnown'
<1> DEFINE q == req[r]
           k == ClassifyKey(q.prompt)
           reply == Stored(cache.classify, k)
           used == Found("classify", k)
           q1 == [q EXCEPT !.used = used]
           q2 == [q EXCEPT !.pc = "awaiting reply"]
<1>1. /\ q.pc = "consulting" /\ UNCHANGED scene
      /\ req' = [req EXCEPT ![r] = IF Cached("classify", k) THEN Judged(q1, reply) ELSE q2]
  BY DEF LookUpClassification
<1>2. /\ scene \in Scenarios /\ Shape(q) /\ Known(q) /\ RequestInv /\ AllKnown /\ CacheInv
      /\ Placed(q.pc, q.prompt, q.vec, q.used)
  BY KnownFacts
<1>3. k = q.prompt
  BY DEF ClassifyKey
<1>4. q1 = [q EXCEPT !.used = used] /\ q2 = [q EXCEPT !.pc = "awaiting reply"]
  OBVIOUS
<1> HIDE DEF q, k, reply, used, q1, q2
<1>5. cfg.enabled
  BY <1>1, <1>2 DEF Placed
<1>6. CASE ~Cached("classify", k)
  <2>1. Placed("awaiting reply", q.prompt, q.vec, q.used)
    BY <1>2, <1>5 DEF Placed, Stages
  <2>2. Known(q2)
    BY <1>2, <1>4, <2>1, MovesOn
  <2>. QED  BY <1>1, <1>2, <1>6, <2>2, KnownReplaced
<1>7. CASE Cached("classify", k)
  <2>1. "classify" \in Layer /\ cache["classify"] = cache.classify /\ "classify" # "embed"
    BY DEF Layer
  <2>2. /\ Stored(cache["classify"], k) \in Value("classify")
        /\ used.layer = "classify" /\ used.about = k /\ used.age <= cfg.ttl["classify"]
    BY <1>2, <1>7, <2>1, HitFacts DEF used
  <2>3. reply.route \in Named
    BY <2>1, <2>2 DEF reply, Value
  <2>4. Fresh(q.prompt, used)
    BY <1>3, <2>1, <2>2 DEF Fresh
  <2>5. Placed(q.pc, q.prompt, q.vec, used)
    BY <1>2, <2>4 DEF Placed
  <2>6. Shape(q1) /\ Known(q1)
    BY <1>2, <1>4, <2>5, MovesOn
  <2>7. Known(Judged(q1, reply))
    BY <1>2, <1>5, <2>3, <2>6, KnownJudged
  <2>. QED  BY <1>1, <1>2, <1>7, <2>7, KnownReplaced
<1>. QED
  BY <1>6, <1>7

LEMMA ReplyArrivesKnown ==
  ASSUME RoutingInv, NEW r \in Requests, NEW reply, ReplyArrives(r, reply)
  PROVE  AllKnown'
<1>1. /\ UNCHANGED scene /\ req[r].pc = "awaiting reply" /\ reply.route \in Named
      /\ req' = [req EXCEPT ![r] = Judged(req[r], reply)]
  BY DEF ReplyArrives
<1>2. cfg.enabled
  BY <1>1, KnownFacts DEF Placed
<1>3. Known(Judged(req[r], reply))
  BY <1>1, <1>2, KnownFacts, KnownJudged
<1>. QED
  BY <1>1, <1>3, KnownFacts, KnownReplaced

LEMMA LeaveKnown ==
  ASSUME RoutingInv, NEW r \in Requests, Leave(r)
  PROVE  AllKnown'
BY KnownIdle, KnownFacts, KnownReplaced DEF Leave, shared

LEMMA KnownNext == RoutingInv /\ [Next]_vars => AllKnown'
<1> SUFFICES ASSUME RoutingInv, [Next]_vars PROVE AllKnown'
  OBVIOUS
<1>1. AllKnown
  BY DEF RoutingInv
<1>2. ASSUME NEW r \in Requests, RequestStep(r) PROVE AllKnown'
  BY <1>2, ArriveKnown, CapabilityKnown, PassthroughKnown, CascadeKnown, DefaultKnown,
     LookUpVectorKnown, VectorArrivesKnown, FailureKnown, ScoreKnown, LookUpClassificationKnown,
     ReplyArrivesKnown, LeaveKnown
     DEF RequestStep
<1>3. ASSUME NEW t, NEW record, Reissue(t, record) PROVE AllKnown'
  BY <1>1, <1>3, KnownUntouched DEF Reissue
<1>4. CASE Tick
  BY <1>1, <1>4, KnownUntouched DEF Tick
<1>5. CASE UNCHANGED vars
  BY <1>1, <1>5, KnownUntouched DEF vars
<1>. QED
  BY <1>2, <1>3, <1>4, <1>5 DEF Next

\* What the steps of a request do to the caches.
LEMMA RequestCaches ==
  ASSUME RoutingInv, NEW r \in Requests, RequestStep(r)
  PROVE  CacheInv' /\ Evicts
<1> DEFINE q == req[r]
           Quiet == UNCHANGED <<scene, cache, uses>>
<1>1. CASE Quiet
  BY <1>1, SameCaches, KnownFacts
<1>2. CASE LookUpVector(r)
  <2>1. UNCHANGED scene /\ Get("embed", EmbedKey(q.prompt)) /\ "embed" \in Layer
    BY <1>2 DEF LookUpVector, Layer
  <2>. QED  BY <2>1, GetStep, KnownFacts
<1>3. CASE LookUpClassification(r)
  <2>1. UNCHANGED scene /\ Get("classify", ClassifyKey(q.prompt)) /\ "classify" \in Layer
    BY <1>3 DEF LookUpClassification, Layer
  <2>. QED  BY <2>1, GetStep, KnownFacts
<1>4. ASSUME NEW v \in Vectors, VectorArrives(r, v) PROVE CacheInv' /\ Evicts
  <2> DEFINE k == EmbedKey(q.prompt)
             value == [vector |-> v, about |-> k]
  <2>1. /\ UNCHANGED scene /\ Put("embed", k, value) /\ "embed" \in Layer
        /\ q.pc = "awaiting vector"
    BY <1>4 DEF VectorArrives, Layer
  <2>2. q.prompt \in Prompts
    BY <2>1, KnownFacts DEF Placed, Known
  <2>3. k \in Prompts \/ k = None
    BY <2>2, TruncatedAssumption DEF EmbedKey
  <2>4. CASE k \in Prompts
    <3>1. value \in Value("embed") /\ value.about = k
      BY <2>4 DEF Value
    <3> HIDE DEF k, value
    <3>. QED  BY <2>1, <2>4, <3>1, PutStep, KnownFacts
  <2>5. CASE k = None
    BY <2>1, <2>5, SameCaches, KnownFacts DEF Put
  <2>. QED  BY <2>3, <2>4, <2>5
<1>5. ASSUME NEW reply \in scene.replies, ReplyArrives(r, reply) PROVE CacheInv' /\ Evicts
  <2> DEFINE k == ClassifyKey(q.prompt)
             value == [route |-> reply.route, confidence |-> reply.confidence, about |-> q.prompt]
  <2>1. /\ UNCHANGED scene /\ Put("classify", k, value) /\ "classify" \in Layer
        /\ reply.route \in Named /\ reply.confidence \in Confidences
    BY <1>5 DEF ReplyArrives, Layer, Confidences
  <2>2. k = q.prompt /\ k \in Prompts \cup {None}
    BY KnownFacts DEF ClassifyKey, Known
  <2>3. CASE k \in Prompts
    <3>1. value \in Value("classify") /\ value.about = k
      BY <2>1, <2>2, <2>3 DEF Value
    <3> HIDE DEF k, value
    <3>. QED  BY <2>1, <2>3, <3>1, PutStep, KnownFacts
  <2>4. CASE k = None
    BY <2>1, <2>4, SameCaches, KnownFacts DEF Put
  <2>. QED  BY <2>2, <2>3, <2>4
<1>6. \/ Quiet
      \/ LookUpVector(r) \/ LookUpClassification(r)
      \/ (\E v \in Vectors : VectorArrives(r, v))
      \/ (\E reply \in scene.replies : ReplyArrives(r, reply))
  BY DEF RequestStep, Arrive, Capability, Passthrough, Cascade, Default, EmbedFails, Score,
         ClassifierFails, Leave, shared
<1>. QED
  BY <1>1, <1>2, <1>3, <1>4, <1>5, <1>6

LEMMA CachesNext == RoutingInv /\ [Next]_vars => CacheInv' /\ Evicts
<1> SUFFICES ASSUME RoutingInv, [Next]_vars PROVE CacheInv' /\ Evicts
  OBVIOUS
<1>1. scene \in Scenarios /\ CacheInv
  BY DEF RoutingInv, RequestInv
<1>2. ASSUME NEW t, NEW record, Reissue(t, record) PROVE CacheInv' /\ Evicts
  BY <1>1, <1>2, SameCaches DEF Reissue
<1>3. CASE Tick
  BY <1>1, <1>3, TickStep
<1>4. CASE UNCHANGED vars
  BY <1>1, <1>4, SameCaches DEF vars
<1>. QED
  BY <1>2, <1>3, <1>4, RequestCaches DEF Next

LEMMA IssuedNext == RoutingInv /\ [Next]_vars => (issued \in [Tokens -> scene.records])'
<1> SUFFICES ASSUME RoutingInv, [Next]_vars PROVE issued' \in [Tokens -> scene'.records]
  OBVIOUS
<1>1. issued \in [Tokens -> scene.records] /\ (UNCHANGED <<scene, issued>> => issued' \in [Tokens -> scene'.records])
  BY DEF RoutingInv
<1>2. ASSUME NEW r, RequestStep(r) PROVE UNCHANGED <<scene, issued>>
  BY <1>2 DEF RequestStep, Arrive, Capability, Passthrough, Cascade, Default, LookUpVector, EmbedFails,
              Score, VectorArrives, LookUpClassification, ClassifierFails, ReplyArrives, Leave, shared
<1>3. ASSUME NEW t \in Tokens, NEW record \in scene.records, Reissue(t, record)
      PROVE  issued' \in [Tokens -> scene'.records]
  BY <1>1, <1>3 DEF Reissue
<1>. QED
  BY <1>1, <1>2, <1>3 DEF Next, Tick, vars

LEMMA RoutingInit == Init => RoutingInv
<1> SUFFICES ASSUME Init PROVE RoutingInv
  OBVIOUS
<1>1. RequestInv /\ issued \in [Tokens -> scene.records] /\ scene \in Scenarios
  BY InvInit DEF Init, RequestInv
<1>2. AllKnown
  BY KnownIdle DEF Init, AllKnown
<1>3. ASSUME NEW l \in Layer
      PROVE  Kept(Entries(l), cache[l], uses[l], cfg.ttl[l]) /\ Len(cache[l]) <= cfg.capacity[l]
  <2>1. cache[l] = <<>> /\ uses[l] = <<>> /\ cfg.capacity[l] \in Nat
    BY <1>1, CacheSizes DEF Init
  <2>2. \A S : <<>> \in Seq(S) /\ Len(<<>>) = 0 /\ DOMAIN <<>> = {}
    OBVIOUS
  <2>. QED  BY <2>1, <2>2 DEF Kept, Distinct, Agree
<1>4. CacheInv
  BY <1>3 DEF CacheInv, Init
<1>. QED
  BY <1>1, <1>2, <1>4 DEF RoutingInv

LEMMA RoutingNext == RoutingInv /\ [Next]_vars => RoutingInv'
BY InvNext, KnownNext, CachesNext, IssuedNext DEF RoutingInv
-----------------------------------------------------------------------------
(* Theorems about the caches and the cascade *)

\* With a router every request finds a model, whichever layers fail, decline or
\* are not configured (Engine.Route in src/routing/engine.go ends in a default;
\* handleChatCompletions in src/gateway/handler.go asks for a model otherwise).
THEOREM RoutingFindsModel == Spec => []RoutedHasModel
<1>1. RoutingInv => RoutedHasModel
  BY DEF RoutingInv, AllKnown, Known, RoutedHasModel
<1>. QED
  BY RoutingInit, RoutingNext, <1>1, PTL DEF Spec

\* What a request takes from a cache (src/routing/cache.go) is about its own
\* prompt and no older than the lifetime configured, whatever other requests and
\* the capacity have done to the cache since it was put there.
THEOREM CacheIsFresh == Spec => []HitsAreFresh
<1>1. RoutingInv => HitsAreFresh
  BY DEF RoutingInv, AllKnown, Known, Placed, Fresh, HitsAreFresh
<1>. QED
  BY RoutingInit, RoutingNext, <1>1, PTL DEF Spec

\* The caches never grow beyond their capacity and hold nothing twice, and a
\* request is bound to routes and models that exist.
THEOREM RoutingTypeCorrect == Spec => []TypeOK
<1>1. ASSUME RoutingInv PROVE TypeOK
  <2>1. scene \in Scenarios /\ issued \in [Tokens -> scene.records]
    BY <1>1 DEF RoutingInv, RequestInv
  <2>2. ASSUME NEW r \in Requests
        PROVE  /\ req[r].pc \in Stages
               /\ req[r].key \in scene.records \cup {None} /\ req[r].prompt \in Prompts \cup {None}
               /\ req[r].route \in Routes \cup {None} /\ req[r].model \in Models \cup {None}
    BY <1>1, KnownFacts DEF Known, Placed
  <2>3. ASSUME NEW l \in Layer
        PROVE  /\ Len(cache[l]) <= cfg.capacity[l] /\ Cardinality(KeysOf(cache[l])) = Len(cache[l])
               /\ \A i \in DOMAIN cache[l] : cache[l][i].left \in -1 .. cfg.ttl[l]
    <3>1. /\ Len(cache[l]) <= cfg.capacity[l] /\ cache[l] \in Seq(Entries(l)) /\ Distinct(cache[l])
      BY <1>1 DEF RoutingInv, CacheInv, Kept
    <3>2. \A i \in DOMAIN cache[l] : cache[l][i] \in Entries(l)
      BY <3>1, SeqDomain
    <3>. QED  BY <2>1, <3>1, <3>2, DistinctCount, EntryFacts
  <2>. QED  BY <2>1, <2>2, <2>3 DEF TypeOK, Stages
<1>. QED
  BY RoutingInit, RoutingNext, <1>1, PTL DEF Spec

\* An entry that has not expired is evicted only by a full cache and only when
\* every other entry has been used since (Put and Get of src/routing/cache.go).
THEOREM CacheIsLru == Spec => EvictsLeastRecent
<1>1. RoutingInv /\ [Next]_vars => [Evicts]_vars
  BY CachesNext
<1>2. [Evicts]_vars
      <=> [\A l \in Layer : \A k \in KeysOf(cache[l]) \ KeysOf(cache'[l]) :
             Hit(cache[l], k) =>
               /\ Len(cache'[l]) = cfg.capacity[l]
               /\ \A k2 \in KeysOf(cache'[l]) : IndexOf(uses'[l], k2) < IndexOf(uses'[l], k)]_vars
  BY DEF Evicts
<1>. QED
  BY RoutingInit, RoutingNext, <1>1, <1>2, PTL DEF Spec, EvictsLeastRecent
=============================================================================
