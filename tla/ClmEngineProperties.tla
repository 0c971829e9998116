------------------------ MODULE ClmEngineProperties ------------------------
(* What the CLM process promises for each request, whatever runs beside it. *)
EXTENDS ClmEngine

\* The types of the variables.
Vector == Texts \cup ({"state"} \X Threads \X Nat)
Entry == [text : Texts \ TooLong, vector : Texts, expiry : Nat]
Answer == [state : Vector, candidates : Seq(Texts), heads : SUBSET {"state", "action"},
           scale : {"initial", "loaded"}, tempered : Seq(Int), choice : Nat]
TypeOK ==
    /\ at \in [Threads -> {"new", "cache", "encoding", "heads", "load", "loading", "stateSet",
                           "actionSet", "projecting", "done", "rejected", "failed"}]
    /\ payload \in [Threads -> Payloads \cup {NoPayload}]
    /\ missing \in [Threads -> Seq(Texts \ TooLong)]
    /\ vectors \in [Threads -> Seq(Vector)]
    /\ answers \in [Threads -> Seq(Answer)]
    /\ cache \in Seq(Entry)
    /\ cacheLock \in Threads \cup {NoThread} /\ loadLock \in Threads \cup {NoThread}
    /\ heads \subseteq {"state", "action"} /\ scale \in {"initial", "loaded"}
    /\ clock \in 1..MaxClock /\ received \in Nat
    /\ filledAt \in [Texts -> Nat] /\ lastUse \in [Texts -> Nat] /\ uses \in Nat

-----------------------------------------------------------------------------
(* Invariants *)

\* The cache never grows over its capacity and holds a text once.
CacheBounded ==
    /\ Len(cache) <= Entries
    /\ \A i, j \in DOMAIN cache : cache[i].text = cache[j].text => i = j

\* Concurrent misses of a text have one fill.
OneFill ==
    \A t, u \in Threads : t # u /\ at[t] = "encoding" /\ at[u] = "encoding" =>
        ToSet(missing[t]) \cap ToSet(missing[u]) = {}

\* A request gets the vectors of its own states and candidates and answers every
\* question from its own, in their order, whatever came from the cache, was
\* encoded now, is asked twice in a request, came back in another order or was
\* evicted by the very same request; and with both heads.
LoadingPlaces == {"loading", "stateSet", "actionSet"}
Embedded == {"heads", "load", "projecting"} \cup LoadingPlaces
RightVectors ==
    \A t \in Threads :
        /\ at[t] \in Embedded => vectors[t] = States(t) \o Candidates(t)
        /\ \A q \in DOMAIN answers[t] :
              /\ answers[t][q].state = State(t, q)
              /\ answers[t][q].candidates = payload[t].questions[q].texts
              /\ answers[t][q].heads = {"state", "action"}

\* "Probability scaling without changing the highest-scoring choice", at every
\* temperature that is accepted and however small: no candidate overtakes one
\* with a greater product; none leads the choice by as much as the floats tell
\* apart once scaled and divided by the temperature; and of equal ones the first
\* is chosen.
LikeliestAnswer ==
    \A t \in Threads : \A q \in DOMAIN answers[t] :
        LET answer == answers[t][q]
            temperature == payload[t].temperature
            product(i) == Similarity[answer.candidates[i]]
            lead(i) == Factor(answer.scale) * (product(i) - product(answer.choice)) IN
        /\ answer.choice \in DOMAIN answer.candidates
        /\ \A i \in DOMAIN answer.candidates :
              /\ lead(i) * temperature.den < Resolution * temperature.num
              /\ i < answer.choice => product(i) < product(answer.choice)
        /\ \A i, j \in DOMAIN answer.candidates :
              product(i) <= product(j) => answer.tempered[i] <= answer.tempered[j]

\* "It divides the scaled CLM logits": the checkpoint's scale is in every
\* answer, also in one computed while another request loads the heads.
ScaledLogits ==
    \A t \in Threads : \A q \in DOMAIN answers[t] : answers[t][q].scale = "loaded"

-----------------------------------------------------------------------------
(* The inductive invariants behind them *)

\* The locks: who encodes holds the one of the cache, who loads the heads the
\* other, and both heads are there from the moment the loader has set them.
EngineInv ==
    /\ at \in [Threads -> {"new", "cache", "encoding", "heads", "load", "projecting",
                           "done", "rejected", "failed"} \cup LoadingPlaces]
    /\ \A t \in Threads : at[t] = "encoding" <=> cacheLock = t
    /\ \A t \in Threads : at[t] \in LoadingPlaces <=> loadLock = t
    /\ \A t \in Threads : at[t] = "actionSet" => heads = {"state", "action"}
    /\ \A t \in Threads : at[t] = "stateSet" => "state" \in heads
    /\ \A t \in Threads : at[t] = "projecting" => heads = {"state", "action"}
    /\ heads \subseteq {"state", "action"}

\* Entries as they should be: one per text, with the text's vector and the
\* lifetime it got when it was encoded, the least recently used first.
Sound(entries, filled, used) ==
    /\ \A i, j \in DOMAIN entries : entries[i].text = entries[j].text => i = j
    /\ \A i \in DOMAIN entries : /\ entries[i].vector = entries[i].text
                                 /\ filled[entries[i].text] # 0
                                 /\ entries[i].expiry = filled[entries[i].text] + TTL
    /\ \A i, j \in DOMAIN entries : i <= j => used[entries[i].text] <= used[entries[j].text]

CacheInv ==
    /\ Len(cache) <= Entries /\ Sound(cache, filledAt, lastUse)
    /\ \A x \in Texts : lastUse[x] <= uses

\* A request that waits for its encoding lacks exactly what is not cached, and
\* each text once; later it has its states' vectors, then its candidates'.
RequestRight(t) ==
    /\ at[t] \notin {"new", "rejected"} => payload[t] \in Payloads /\ Accepts(payload[t])
    /\ at[t] = "encoding" =>
          /\ ToSet(missing[t]) = ToSet(Candidates(t)) \ Cached
          /\ \A i, j \in DOMAIN missing[t] : missing[t][i] = missing[t][j] => i = j
    /\ at[t] \in Embedded => vectors[t] = States(t) \o Candidates(t)
RequestInv == \A t \in Threads : RequestRight(t)

\* The answers so far are those to the first questions, in their order, each
\* from its own logits.
AnswerRight(t, q, answer) ==
    /\ answer.state = State(t, q)
    /\ answer.candidates = payload[t].questions[q].texts
    /\ answer.heads = {"state", "action"}
    /\ answer.tempered = Tempered([i \in DOMAIN answer.candidates |->
                                      Factor(answer.scale) * Similarity[answer.candidates[i]]],
                                  payload[t].temperature)
    /\ \E blur \in 0 .. Resolution - 1 : answer.choice = Selected(answer.tempered, blur)
AnswersRight(t) ==
    /\ at[t] \notin {"projecting", "done", "failed"} => answers[t] = <<>>
    /\ at[t] = "projecting" => Len(answers[t]) < Len(payload[t].questions)
    /\ Len(answers[t]) <= Len(payload[t].questions)
    /\ \A q \in DOMAIN answers[t] : AnswerRight(t, q, answers[t][q])
AnswerInv == \A t \in Threads : AnswersRight(t)

-----------------------------------------------------------------------------
(* Action properties *)

\* "Candidate vector lifetime": a text the request does not encode again was
\* encoded less than the TTL before the request looked for it.
NoExpiredHit ==
    [][\A t \in Threads : at[t] = "cache" /\ at'[t] = "encoding" =>
         \A x \in ToSet(Candidates(t)) \ ToSet(missing'[t]) :
            filledAt[x] # 0 /\ clock < filledAt[x] + TTL]_vars

\* "LRU capacity": of the vectors a fill finds or brings it drops one only from a
\* full cache, and one that was last used no later than those it keeps.
EvictsLeastRecent ==
    [][\A t \in Threads : at[t] = "encoding" /\ at'[t] = "heads" =>
         \A x \in (Cached \cup ToSet(missing[t])) \ Cached' :
            /\ Len(cache') = Entries
            /\ \A y \in Cached' : lastUse'[x] <= lastUse'[y]]_vars

-----------------------------------------------------------------------------
(* Liveness *)

\* Every request ends, although one slow encoding makes all the others wait.
RequestsEnd == \A t \in Threads : at[t] = "cache" ~> at[t] \in {"done", "rejected", "failed"}
=============================================================================
