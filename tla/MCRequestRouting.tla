-------------------------- MODULE MCRequestRouting --------------------------
EXTENDS RequestRouting

CONSTANTS p1, p2, p3, coding, general, v1, v2, v3, r1, r2

MCRequests == {r1, r2}
SameRequests == Permutations(MCRequests)

\* p2 starts like p1.
MCTruncated == [p \in {p1, p2, p3} |-> IF p = p2 THEN p1 ELSE p]
MCSimilarity ==
  [v \in {v1, v2, v3} |-> [r \in {coding, general} |->
     CASE v = v1 -> IF r = coding THEN 2 ELSE 1
       [] v = v2 -> 1
       [] v = v3 -> 0]]
MCProviderOf == [m \in {"gpt", "llama", "claude"} |->
  CASE m = "gpt" -> "openai" [] m = "llama" -> "local" [] m = "claude" -> "anthropic"]
MCModel == [r \in {coding, general} |-> IF r = coding THEN "gpt" ELSE "llama"]

Base ==
  [enabled |-> TRUE, explicit |-> TRUE, keys |-> FALSE, providers |-> {"openai", "local"},
   routes |-> <<coding, general>>, model |-> MCModel, examples |-> {coding, general},
   default |-> None, rules |-> <<>>, semantic |-> FALSE, classifier |-> FALSE,
   threshold |-> 2, ambiguous |-> 1, confidence |-> 1,
   capacity |-> [embed |-> 0, classify |-> 0], ttl |-> [embed |-> 1, classify |-> 1]]

Replies == {[route |-> coding, confidence |-> 1], [route |-> general, confidence |-> 0]}

\* Keys: restricted by models, by routes, and not at all.
Records == {None, [models |-> {"gpt"}, routes |-> {}], [models |-> {}, routes |-> {general}],
            [models |-> {"gpt", "claude"}, routes |-> {coding}]}

\* A classifier of its own with a cache of two entries, for three prompts.
Classifying ==
  [config |-> [Base EXCEPT !.classifier = TRUE, !.capacity.classify = 2],
   asked |-> {None}, prompts |-> {p1, p2, p3}, records |-> {None}, replies |-> Replies]

\* The whole cascade, with a cache of one entry for each layer.
Cascading ==
  [config |-> [Base EXCEPT !.classifier = TRUE, !.semantic = TRUE, !.explicit = FALSE,
                           !.default = general,
                           !.rules = <<[prompts |-> {p3}, route |-> general]>>,
                           !.capacity = [embed |-> 1, classify |-> 1]],
   asked |-> {"claude"}, prompts |-> {p1, p2, p3, None}, records |-> {None},
   replies |-> Replies]

\* Keys that are reissued under requests of every kind.
Restricting(explicit, enabled) ==
  [config |-> [Base EXCEPT !.keys = TRUE, !.explicit = explicit, !.enabled = enabled,
                           !.rules = <<[prompts |-> {p1}, route |-> coding]>>],
   asked |-> {None, "gpt", "claude", "alias", "bad"}, prompts |-> {p1, p2},
   records |-> Records, replies |-> {}]

MCScenarios ==
  {Classifying, Cascading, Restricting(TRUE, TRUE), Restricting(FALSE, TRUE), Restricting(TRUE, FALSE)}
=============================================================================
