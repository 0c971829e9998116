----------------------------- MODULE ClmEngine -----------------------------
(***************************************************************************)
(* CLMEngine: the CLM provider's process, which answers each request in a  *)
(* thread of its own.                                                      *)
(*                                                                         *)
(* A payload is a record of questions, in order, and its temperature, a    *)
(* fraction; a question has a kind, its candidate texts and whether its    *)
(* state text is too long.  The vector of a text is the text, so that it   *)
(* shows which vector gets where; heads and dot products are a table of    *)
(* integers (Similarity).  Floats are integers up to MaxFloat: a quotient  *)
(* is rounded down, and softmax may give one probability to numbers less   *)
(* than Resolution apart.  `at' says how far a request is:                 *)
(*                                                                         *)
(*   new, done             rejected: 422, failed: 503                      *)
(*   cache, encoding       waits for _cache_lock, holds it during the call *)
(*   heads                 has its vectors, enters _ensure_heads()         *)
(*   load, loading         waits for _load_lock, holds it and loads        *)
(*   stateSet, actionSet   ... has assigned the first head, both heads     *)
(*   projecting            answers one question after the other            *)
(*                                                                         *)
(* Where two forms of an operator stand together, the first is the form a  *)
(* mistake would give it; only the second is used.                         *)
(***************************************************************************)
EXTENDS Integers, Sequences, FiniteSets, SequencesExt

\* The numbers of a finite set in ascending order, and what s has at them.
Ascending(S) == [k \in 1..Cardinality(S) |-> CHOOSE i \in S : Cardinality({j \in S : j <= i}) = k]
Those(s, S) == [k \in 1..Cardinality(S) |-> s[Ascending(S)[k]]]

CONSTANTS
    Threads,    \* the threads that serve requests
    Texts,      \* candidate texts
    TooLong,    \* those over _max_text_bytes
    Payloads,   \* bound: what a request may ask
    MaxRequests,   \* bound on the requests
    Entries,    \* cache_entries; 0 keeps nothing
    TTL,        \* cache_ttl_seconds
    Similarity, \* the product of a text's vector with any state's
    Scale,      \* the checkpoint's logit scale
    MaxTemperature, \* _maximum_logit_scale
    Floor,      \* -_minimum_softmax_logit
    Resolution, \* numbers this far apart have probabilities that differ
    MaxFloat,   \* bound on the numbers: what is greater is infinite
    MaxClock,   \* bound on the monotonic clock
    NoThread

Question == [kind : {"choice", "score", "noul", "unsupported"}, texts : Seq(Texts),
             longState : BOOLEAN]
Temperature == [num : Int, den : Nat \ {0}]   \* what is not a number stands as zero

ASSUME ClmAssumption ==
    /\ Entries \in Nat /\ TTL \in Nat \ {0} /\ MaxClock \in Nat \ {0}
    /\ MaxRequests \in Nat /\ TooLong \subseteq Texts /\ NoThread \notin Threads
    /\ Similarity \in [Texts -> Int]
    /\ {Scale, Floor, MaxFloat, MaxTemperature, Resolution} \subseteq Nat \ {0}
    /\ Resolution <= Floor /\ Resolution <= MaxFloat
    /\ \A f \in Payloads :
          f.questions \in Seq(Question) \ {<<>>} /\ f.temperature \in Temperature

VARIABLES
    at,         \* per thread, how far it is
    payload,    \* per thread, its questions
    missing,    \* per thread, the texts to encode, in order
    vectors,    \* per thread, the vectors of its states and its candidates
    answers,    \* per thread, each answer and what it was computed from
    cache,      \* _candidate_cache, in the order of the OrderedDict
    cacheLock, loadLock,   \* their holders
    heads,      \* which heads are assigned: "state", "action"
    scale,      \* _scale: "initial" or "loaded"
    clock,
    received,   \* history: how many requests came
    filledAt,   \* history: per text, when its vector was last encoded
    lastUse,    \* history: per text, the number of the last request with it
    uses        \* history: the requests that got their vectors

cacheVars == <<cache, cacheLock>>
headVars == <<heads, scale, loadLock>>
historyVars == <<filledAt, lastUse, uses>>
vars == <<at, payload, missing, vectors, answers, cacheVars, headVars, clock, received, historyVars>>

NoPayload == [questions |-> <<>>, temperature |-> [num |-> 1, den |-> 1]]

Init ==
    /\ at = [t \in Threads |-> "new"]
    /\ payload = [t \in Threads |-> NoPayload]
    /\ missing = [t \in Threads |-> <<>>]
    /\ vectors = [t \in Threads |-> <<>>]
    /\ answers = [t \in Threads |-> <<>>]
    /\ cache = <<>> /\ cacheLock = NoThread
    /\ heads = {} /\ scale = "initial" /\ loadLock = NoThread
    /\ clock = 1 /\ received = 0
    /\ filledAt = [x \in Texts |-> 0] /\ lastUse = [x \in Texts |-> 0] /\ uses = 0

Flat(questions) == FlattenSeq([q \in DOMAIN questions |-> questions[q].texts])
Candidates(t) == Flat(payload[t].questions)
Cached == {cache[i].text : i \in DOMAIN cache}
Goes(t, place) == at' = [at EXCEPT ![t] = place]

\* The checks of answer(), question_candidates(), and the first check of
\* _cached_embeddings().
Accepts(f) ==
    /\ 0 < f.temperature.num /\ f.temperature.num <= MaxTemperature * f.temperature.den
    /\ \A q \in DOMAIN f.questions :
          /\ f.questions[q].kind # "unsupported" /\ f.questions[q].texts # <<>>
          /\ ~f.questions[q].longState
    /\ ToSet(Flat(f.questions)) \cap TooLong = {}

Receive(t, f) ==
    /\ at[t] \in {"new", "done", "rejected", "failed"} /\ received < MaxRequests
    /\ received' = received + 1
    /\ payload' = [payload EXCEPT ![t] = f]
    /\ vectors' = [vectors EXCEPT ![t] = <<>>]
    /\ answers' = [answers EXCEPT ![t] = <<>>]
    /\ Goes(t, IF Accepts(f) THEN "cache" ELSE "rejected")
    /\ UNCHANGED <<missing, cacheVars, headVars, clock, historyVars>>

-----------------------------------------------------------------------------
(* _cached_embeddings() *)

KeptLate == Those(cache, {i \in DOMAIN cache : cache[i].expiry + 1 > clock})
Kept == Those(cache, {i \in DOMAIN cache : cache[i].expiry > clock})

\* Each text the cache lacks once, in the order of its first candidate.
Missing(t, known) ==
    LET texts == Candidates(t)
        firsts == {i \in DOMAIN texts :
                      texts[i] \notin known /\ \A j \in 1 .. i - 1 : texts[j] # texts[i]}
    IN Those(texts, firsts)

LockCacheBriefly(t) ==
    /\ at[t] = "cache" /\ cacheLock = NoThread
    /\ cache' = Kept
    /\ missing' = [missing EXCEPT ![t] = Missing(t, {e.text : e \in ToSet(Kept)})]
    /\ Goes(t, "encoding")
    /\ UNCHANGED <<payload, vectors, answers, cacheLock, headVars, clock, received, historyVars>>

LockCache(t) ==
    /\ at[t] = "cache" /\ cacheLock = NoThread
    /\ cacheLock' = t
    /\ cache' = Kept
    /\ missing' = [missing EXCEPT ![t] = Missing(t, {e.text : e \in ToSet(Kept)})]
    /\ Goes(t, "encoding")
    /\ UNCHANGED <<payload, vectors, answers, headVars, clock, received, historyVars>>

\* The hits become the newest entries, and the fill comes after them.
TouchNone(t, fill) == cache \o fill
Touch(t, fill) ==
    LET hits == {i \in DOMAIN cache : cache[i].text \in ToSet(Candidates(t))}
    IN Those(cache, DOMAIN cache \ hits) \o Those(cache, hits) \o fill

\* popitem(last=False) while there are too many.
TrimLate(entries) == SubSeq(entries, IF Len(entries) > Entries + 1 THEN Len(entries) - Entries ELSE 1,
                            Len(entries))
Trim(entries) == SubSeq(entries, IF Len(entries) > Entries THEN Len(entries) - Entries + 1 ELSE 1,
                        Len(entries))

\* What is sent: one state per question, then `missing'.
State(t, q) == <<"state", t, q>>
States(t) == [q \in DOMAIN payload[t].questions |-> State(t, q)]
Sent(t) == States(t) \o missing[t]

\* decode_embedding_response(): each entry of a reply names the text it belongs
\* to, and a reply is usable that names each of the n texts once, in any order.
Usable(reply, n) == ToSet(reply) = 1..n
Replies(n) == {reply \in [1..n -> 1..n] : Usable(reply, n)}
Unordered(sent, reply) == [i \in DOMAIN sent |-> sent[reply[i]]]
Decoded(sent, reply) ==
    [i \in DOMAIN sent |-> sent[reply[CHOOSE k \in DOMAIN reply : reply[k] = i]]]

EncodeSucceeds(t) ==
    at[t] = "encoding" /\
    \E encoded \in {Decoded(Sent(t), reply) : reply \in Replies(Len(Sent(t)))} :
    LET n == Len(payload[t].questions)
        fill == [k \in DOMAIN missing[t] |->
                    [text |-> missing[t][k], vector |-> encoded[n + k], expiry |-> clock + TTL]]
        known == ToSet(cache \o fill)
        vector(x) == (CHOOSE e \in known : e.text = x).vector
        used == ToSet(Candidates(t))
    IN
    /\ vectors' = [vectors EXCEPT ![t] = SubSeq(encoded, 1, n) \o
                      [i \in DOMAIN Candidates(t) |-> vector(Candidates(t)[i])]]
    /\ missing' = [missing EXCEPT ![t] = <<>>]
    /\ cache' = IF Entries = 0 THEN cache ELSE Trim(Touch(t, fill))
    /\ cacheLock' = NoThread
    /\ Goes(t, "heads")
    /\ filledAt' = [x \in Texts |-> IF x \in ToSet(missing[t]) THEN clock ELSE filledAt[x]]
    /\ uses' = uses + 1
    /\ lastUse' = [x \in Texts |-> IF x \in used THEN uses' ELSE lastUse[x]]
    /\ UNCHANGED <<payload, answers, headVars, clock, received>>

\* The endpoint fails, times out, or sends a reply that is not usable.
EncodeFailsHolding(t) ==
    /\ at[t] = "encoding" /\ Goes(t, "failed")
    /\ UNCHANGED <<payload, missing, vectors, answers, cacheVars, headVars, clock, received, historyVars>>

EncodeFails(t) ==
    /\ at[t] = "encoding" /\ Goes(t, "failed")
    /\ cacheLock' = NoThread /\ missing' = [missing EXCEPT ![t] = <<>>]
    /\ UNCHANGED <<payload, vectors, answers, cache, headVars, clock, received, historyVars>>

-----------------------------------------------------------------------------
(* _ensure_heads() and _load_heads() *)

HeadsReady == heads = {"state", "action"}

EnsureHeads(t) ==
    /\ at[t] = "heads"
    /\ Goes(t, IF HeadsReady THEN "projecting" ELSE "load")
    /\ UNCHANGED <<payload, missing, vectors, answers, cacheVars, headVars, clock, received, historyVars>>

\* The second look at the heads, under the lock.
LockLoad(t) ==
    /\ at[t] = "load" /\ loadLock = NoThread
    /\ IF HeadsReady
       THEN Goes(t, "projecting") /\ UNCHANGED loadLock
       ELSE Goes(t, "loading") /\ loadLock' = t
    /\ UNCHANGED <<payload, missing, vectors, answers, cacheVars, heads, scale, clock, received, historyVars>>

LoadFails(t) ==
    /\ at[t] = "loading" /\ Goes(t, "failed")
    /\ loadLock' = NoThread
    /\ UNCHANGED <<payload, missing, vectors, answers, cacheVars, heads, scale, clock, received, historyVars>>

SetStateHead(t) ==
    /\ at[t] = "loading" /\ Goes(t, "stateSet")
    /\ heads' = heads \cup {"state"}
    /\ UNCHANGED <<payload, missing, vectors, answers, cacheVars, scale, loadLock, clock, received, historyVars>>

SetActionHead(t) ==
    /\ at[t] = "stateSet" /\ Goes(t, "actionSet")
    /\ heads' = heads \cup {"action"}
    /\ UNCHANGED <<payload, missing, vectors, answers, cacheVars, scale, loadLock, clock, received, historyVars>>

SetScale(t) ==
    /\ at[t] = "actionSet" /\ Goes(t, "projecting")
    /\ scale' = "loaded" /\ loadLock' = NoThread
    /\ UNCHANGED <<payload, missing, vectors, answers, cacheVars, heads, clock, received, historyVars>>

-----------------------------------------------------------------------------
(* _answer_embeddings() *)

\* How many candidates come before those of question q.
Start(t, q) == Len(Flat(SubSeq(payload[t].questions, 1, q - 1)))

Clamp(x) == IF x > MaxFloat THEN MaxFloat ELSE IF x < -MaxFloat THEN -MaxFloat ELSE x
AtLeast(low, x) == IF x < low THEN low ELSE x
Greatest(numbers) == LET all == ToSet(numbers) IN CHOOSE x \in all : \A y \in all : y <= x

\* _temperature_logits(): dividing before the subtraction could overflow.
DividedBy(x, temperature) == (x * temperature.den) \div temperature.num
TemperedFirst(logits, temperature) ==
    LET divided == [i \in DOMAIN logits |-> Clamp(DividedBy(logits[i], temperature))] IN
    [i \in DOMAIN logits |-> divided[i] - Greatest(divided)]
Tempered(logits, temperature) ==
    LET best == Greatest(logits) IN
    [i \in DOMAIN logits |-> AtLeast(-Floor, Clamp(DividedBy(logits[i] - best, temperature)))]

\* answer_from_logits() and _confidence(): the first of the most probable.  The
\* greatest number is zero, and softmax does not tell apart from it what is at
\* most `blur' below.
Selected(tempered, blur) ==
    CHOOSE i \in DOMAIN tempered :
        tempered[i] >= -blur /\ \A j \in 1 .. i - 1 : tempered[j] < -blur

\* One question: its logits are `scale' times the products of its vectors.
Factor(which) == IF which = "loaded" THEN Scale ELSE 1
Project(t) ==
    \E blur \in 0 .. Resolution - 1 :
    LET q == Len(answers[t]) + 1
        n == Len(payload[t].questions)
        first == n + Start(t, q)
        texts == SubSeq(vectors[t], first + 1, first + Len(payload[t].questions[q].texts))
        logits == [i \in DOMAIN texts |-> Factor(scale) * Similarity[texts[i]]]
        tempered == Tempered(logits, payload[t].temperature)
    IN
    /\ at[t] = "projecting"
    /\ answers' = [answers EXCEPT ![t] = Append(@,
            [state |-> vectors[t][q], candidates |-> texts, heads |-> heads, scale |-> scale,
             tempered |-> tempered, choice |-> Selected(tempered, blur)])]
    /\ Goes(t, IF q = n THEN "done" ELSE "projecting")
    /\ UNCHANGED <<payload, missing, vectors, cacheVars, headVars, clock, received, historyVars>>

ProjectFails(t) ==
    /\ at[t] = "projecting" /\ Goes(t, "failed")
    /\ UNCHANGED <<payload, missing, vectors, answers, cacheVars, headVars, clock, received, historyVars>>

Tick ==
    /\ clock < MaxClock /\ clock' = clock + 1
    /\ UNCHANGED <<at, payload, missing, vectors, answers, cacheVars, headVars, received, historyVars>>

-----------------------------------------------------------------------------
Encoding(t) == EncodeFails(t) \/ EncodeSucceeds(t)
Loading(t) == LoadFails(t) \/ SetStateHead(t) \/ SetActionHead(t) \/ SetScale(t)
Step(t) ==
    \/ LockCache(t) \/ Encoding(t) \/ EnsureHeads(t) \/ LockLoad(t) \/ Loading(t)
    \/ ProjectFails(t) \/ Project(t)

Next ==
    \/ \E t \in Threads : Step(t) \/ \E f \in Payloads : Receive(t, f)
    \/ Tick

Spec == Init /\ [][Next]_vars

(* The call of the endpoint has a timeout and the rest is computation.  A      *)
(* threading.Lock favours no waiter: the requests of a run are finite (WF).     *)
FairSpec == Spec /\ \A t \in Threads : WF_vars(Step(t))
=============================================================================
