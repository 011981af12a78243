--------------------------- MODULE SearchPipeline ---------------------------
(***************************************************************************)
(* The product search of src/main/run.py (run_product_search) over the     *)
(* JSON caches of src/repositories/cache_repository.py, with the callers   *)
(* call_outscraper, normalize and scoring that write those caches.         *)
(*                                                                         *)
(* Searches of several Streamlit sessions, or of several CLI processes,    *)
(* run at the same time below one CACHE_DIR without any lock.  Every cache *)
(* write replaces a whole file (see JsonEditor).  A search may raise or be *)
(* killed between any two steps.                                           *)
(*                                                                         *)
(* Contents are abstract: an answer of Bonsai is a member of Attributes,   *)
(* an answer of Outscraper a member of Responses.  A cache key is the      *)
(* tuple of what build_cache_key hashes; the settings are fixed.           *)
(***************************************************************************)
EXTENDS Naturals, FiniteSets

CONSTANTS
    Searches,      \* sessions or CLI processes, each running one search at a time
    Scopes,        \* cache_scope values
    Inputs,        \* user inputs that are not blank
    Attributes,    \* ProductAttributes that Bonsai's answers are turned into
    Queries,       \* search queries
    QueryOf,       \* select_outscraper_query: first candidate of the attributes
    NoQuery,       \* ... an empty one or a URL, which is refused
    Responses,     \* JSON objects that Outscraper returns
    None           \* no cache file, no value yet

ASSUME QueryAssumption == QueryOf \in [Attributes -> Queries \cup {NoQuery}]
ASSUME NoneAssumption == None \notin Attributes \cup Responses
ASSUME NoQueryAssumption == NoQuery \notin Queries

\* normalize_amazon_products_response and score_products are functions of their
\* arguments; what they return is known by what it was computed from.
Normalized(r) == [products |-> r]
Scored(a, n) == [attributes |-> a, products |-> n]

Products == {Normalized(r) : r \in Responses}
Rankings == {Scored(a, n) : a \in Attributes, n \in Products}

AttributesKeys == Scopes \X Inputs
RawKeys == Scopes \X Queries
NormalizedKeys == Scopes \X Responses
ScoredKeys == Attributes \X NormalizedKeys

VARIABLES
    attrsCache,    \* cache/product_attributes: value and whether within the TTL
    rawCache,      \* cache/outscraper/raw: value and whether within the TTL
    normCache,     \* cache/outscraper/normalized, without TTL
    scoredCache,   \* cache/outscraper/scored, without TTL
    scopeOf,       \* cache_scope of each session or process, for its life
    pc, input, useCache,           \* each search: where it is and its arguments
    attrs, raw, products, ranking, \* ... and its locals
    data,          \* local of call_outscraper: the response, until it is written
    fetched,       \* history: responses Outscraper gave for each raw key
    since          \* history: those given since the search started, or held
                   \* unwritten by another search of its scope when it started

caches == <<attrsCache, rawCache, normCache, scoredCache>>
locals == <<attrs, data, raw, products, ranking>>
arguments == <<scopeOf, input, useCache>>
history == <<fetched, since>>
vars == <<caches, pc, arguments, locals, history>>

-----------------------------------------------------------------------------
\* What a search asks Outscraper, and for whom
Asked(s) == <<scopeOf[s], QueryOf[attrs[s]]>>

AttributesKey(s) == <<scopeOf[s], input[s]>>

\* Mutant: the scope is not part of the key
RawKeyShared(s) == <<CHOOSE c \in Scopes : TRUE, QueryOf[attrs[s]]>>

RawKey(s) == <<scopeOf[s], QueryOf[attrs[s]]>>

\* Mutant: the key is built from the query, not from the response
NormalizedKeyOfQuery(s) ==
    <<scopeOf[s], CHOOSE r \in fetched[Asked(s)] : TRUE>>

NormalizedKey(s) == <<scopeOf[s], raw[s]>>

ScoredKey(s) == <<attrs[s], NormalizedKey(s)>>

\* JsonCacheRepository.fresh_path: the file is there and not too old
Fresh(entry) == entry.value # None /\ entry.fresh

Missing == [value |-> None, fresh |-> FALSE]
Written(v) == [value |-> v, fresh |-> TRUE]

GoTo(s, label) == pc' = [pc EXCEPT ![s] = label]

Init ==
    /\ attrsCache = [k \in AttributesKeys |-> Missing]
    /\ rawCache = [k \in RawKeys |-> Missing]
    /\ normCache = [k \in NormalizedKeys |-> None]
    /\ scoredCache = [k \in ScoredKeys |-> None]
    /\ scopeOf \in [Searches -> Scopes]
    /\ pc = [s \in Searches |-> "idle"]
    /\ input \in [Searches -> Inputs]
    /\ useCache = [s \in Searches |-> TRUE]
    /\ attrs = [s \in Searches |-> None]
    /\ data = [s \in Searches |-> None]
    /\ raw = [s \in Searches |-> None]
    /\ products = [s \in Searches |-> None]
    /\ ranking = [s \in Searches |-> None]
    /\ fetched = [k \in RawKeys |-> {}]
    /\ since = [s \in Searches |-> {}]

\* The call raised or its process died: its locals are gone.
Quit(s) ==
    /\ GoTo(s, "idle")
    /\ useCache' = [useCache EXCEPT ![s] = TRUE]
    /\ attrs' = [attrs EXCEPT ![s] = None]
    /\ data' = [data EXCEPT ![s] = None]
    /\ raw' = [raw EXCEPT ![s] = None]
    /\ products' = [products EXCEPT ![s] = None]
    /\ ranking' = [ranking EXCEPT ![s] = None]
    /\ since' = [since EXCEPT ![s] = {}]
    /\ UNCHANGED <<caches, scopeOf, input, fetched>>

-----------------------------------------------------------------------------
\* Responses that a search of the scope has got and not yet written
Unwritten(scope) ==
    {<<Asked(t), data[t]>> :
        t \in {t \in Searches : pc[t] = "answered" /\ scopeOf[t] = scope}}

\* run_product_search.  Blank inputs and scopes raise before anything is read.
Start(s, i, uc) ==
    /\ pc[s] \in {"idle", "done"}
    /\ GoTo(s, "attributes")
    /\ input' = [input EXCEPT ![s] = i]
    /\ useCache' = [useCache EXCEPT ![s] = uc]
    /\ attrs' = [attrs EXCEPT ![s] = None]
    /\ data' = [data EXCEPT ![s] = None]
    /\ raw' = [raw EXCEPT ![s] = None]
    /\ products' = [products EXCEPT ![s] = None]
    /\ ranking' = [ranking EXCEPT ![s] = None]
    /\ since' = [since EXCEPT ![s] = Unwritten(scopeOf[s])]
    /\ UNCHANGED <<caches, scopeOf, fetched>>

\* Step 1, hit.  A file that cannot be read or does not validate counts as a
\* miss, so a hit is never certain.
LoadAttributes(s) ==
    LET entry == attrsCache[AttributesKey(s)] IN
    /\ pc[s] = "attributes"
    /\ useCache[s]
    /\ Fresh(entry)
    /\ attrs' = [attrs EXCEPT ![s] = entry.value]
    /\ GoTo(s, "query")
    /\ UNCHANGED <<caches, arguments, data, raw, products, ranking,
                   history>>

\* Step 1, miss: call_bonsai, extract_product_attributes, and the write, which
\* happens with and without use_cache
ExtractAttributes(s, a) ==
    /\ pc[s] = "attributes"
    /\ attrs' = [attrs EXCEPT ![s] = a]
    /\ attrsCache' = [attrsCache EXCEPT ![AttributesKey(s)] = Written(a)]
    /\ GoTo(s, "query")
    /\ UNCHANGED <<rawCache, normCache, scoredCache, arguments, data, raw,
                   products, ranking, history>>

\* Step 2: select_outscraper_query and validate_search_query
SelectQuery(s) ==
    /\ pc[s] = "query"
    /\ IF QueryOf[attrs[s]] = NoQuery
         THEN Quit(s)
         ELSE GoTo(s, "raw") /\ UNCHANGED <<caches, arguments, locals, history>>

\* Mutant: --no-cache only skips the caches of steps 1 and 4
LoadRawAlways(s) ==
    LET entry == rawCache[RawKey(s)] IN
    /\ pc[s] = "raw"
    /\ Fresh(entry)
    /\ raw' = [raw EXCEPT ![s] = entry.value]
    /\ GoTo(s, "normalized")
    /\ UNCHANGED <<caches, arguments, attrs, data, products, ranking,
                   history>>

\* Step 3, hit: fresh_path and load
LoadRaw(s) ==
    LET entry == rawCache[RawKey(s)] IN
    /\ pc[s] = "raw"
    /\ useCache[s]
    /\ Fresh(entry)
    /\ raw' = [raw EXCEPT ![s] = entry.value]
    /\ GoTo(s, "normalized")
    /\ UNCHANGED <<caches, arguments, attrs, data, products, ranking,
                   history>>

\* Step 3, miss, in call_outscraper: fetch_amazon_products returns.  Outscraper
\* gave the response while every search of the scope that is under way may read it.
OutscraperAnswers(s, r) ==
    /\ pc[s] = "raw"
    /\ data' = [data EXCEPT ![s] = r]
    /\ GoTo(s, "answered")
    /\ fetched' = [fetched EXCEPT ![Asked(s)] = @ \cup {r}]
    /\ since' = [t \in Searches |->
                    IF pc[t] \notin {"idle", "done"} /\ scopeOf[t] = scopeOf[s]
                      THEN since[t] \cup {<<Asked(s), r>>} ELSE since[t]]
    /\ UNCHANGED <<caches, arguments, attrs, raw, products, ranking>>

\* ... and write_json replaces the raw file, whose path call_outscraper returns.
\* Other searches may have started, written and read since the answer.
WriteRaw(s) ==
    /\ pc[s] = "answered"
    /\ rawCache' = [rawCache EXCEPT ![RawKey(s)] = Written(data[s])]
    /\ data' = [data EXCEPT ![s] = None]
    /\ GoTo(s, "written")
    /\ UNCHANGED <<attrsCache, normCache, scoredCache, arguments, attrs, raw,
                   products, ranking, history>>

\* read_json of that file, which another search may have replaced meanwhile
ReadBack(s) ==
    /\ pc[s] = "written"
    /\ raw' = [raw EXCEPT ![s] = rawCache[RawKey(s)].value]
    /\ GoTo(s, "normalized")
    /\ UNCHANGED <<caches, arguments, attrs, data, products, ranking,
                   history>>

\* normalize, hit
LoadNormalized(s) ==
    LET value == normCache[NormalizedKey(s)] IN
    /\ pc[s] = "normalized"
    /\ useCache[s]
    /\ value # None
    /\ products' = [products EXCEPT ![s] = value]
    /\ GoTo(s, "score")
    /\ UNCHANGED <<caches, arguments, attrs, data, raw, ranking, history>>

\* normalize, miss: the raw file is read again by its path.
NormalizeRead(s) ==
    /\ pc[s] = "normalized"
    /\ products' = [products EXCEPT ![s] = Normalized(rawCache[RawKey(s)].value)]
    /\ GoTo(s, "normalizing")
    /\ UNCHANGED <<caches, arguments, attrs, data, raw, ranking, history>>

\* ... and its products are written under the key made from the first reading.
NormalizeWrite(s) ==
    /\ pc[s] = "normalizing"
    /\ normCache' = [normCache EXCEPT ![NormalizedKey(s)] = products[s]]
    /\ GoTo(s, "score")
    /\ UNCHANGED <<attrsCache, rawCache, scoredCache, arguments, locals, history>>

\* Step 4, hit
LoadScored(s) ==
    LET value == scoredCache[ScoredKey(s)] IN
    /\ pc[s] = "score"
    /\ useCache[s]
    /\ value # None
    /\ ranking' = [ranking EXCEPT ![s] = value]
    /\ GoTo(s, "done")
    /\ UNCHANGED <<caches, arguments, attrs, data, raw, products, history>>

\* Step 4, miss: scoring
Scoring(s) ==
    LET value == Scored(attrs[s], products[s]) IN
    /\ pc[s] = "score"
    /\ ranking' = [ranking EXCEPT ![s] = value]
    /\ scoredCache' = [scoredCache EXCEPT ![ScoredKey(s)] = value]
    /\ GoTo(s, "done")
    /\ UNCHANGED <<attrsCache, rawCache, normCache, arguments, attrs, data,
                   raw, products, history>>

\* A client, a file or a validation raises, or the process is killed: the
\* caches stay as they are.
Fail(s) ==
    /\ pc[s] \notin {"idle", "done"}
    /\ Quit(s)

\* The mtime of a file falls behind its TTL.
Expire ==
    /\ \/ \E k \in AttributesKeys :
             /\ Fresh(attrsCache[k])
             /\ attrsCache' = [attrsCache EXCEPT ![k].fresh = FALSE]
             /\ UNCHANGED rawCache
       \/ \E k \in RawKeys :
             /\ Fresh(rawCache[k])
             /\ rawCache' = [rawCache EXCEPT ![k].fresh = FALSE]
             /\ UNCHANGED attrsCache
    /\ UNCHANGED <<normCache, scoredCache, pc, arguments, locals, history>>

Step(s) ==
    \/ LoadAttributes(s)
    \/ \E a \in Attributes : ExtractAttributes(s, a)
    \/ SelectQuery(s)
    \/ LoadRaw(s)
    \/ \E r \in Responses : OutscraperAnswers(s, r)
    \/ WriteRaw(s)
    \/ ReadBack(s)
    \/ LoadNormalized(s)
    \/ NormalizeRead(s)
    \/ NormalizeWrite(s)
    \/ LoadScored(s)
    \/ Scoring(s)

Next ==
    \/ \E s \in Searches :
          \/ \E i \in Inputs, uc \in BOOLEAN : Start(s, i, uc)
          \/ Step(s)
          \/ Fail(s)
    \/ Expire

Spec == Init /\ [][Next]_vars

(***************************************************************************)
(* Properties.                                                             *)
(***************************************************************************)

Entries(values) == [value : values \cup {None}, fresh : BOOLEAN]

\* Every cache file and local has its type.
TypeOK ==
    /\ attrsCache \in [AttributesKeys -> Entries(Attributes)]
    /\ rawCache \in [RawKeys -> Entries(Responses)]
    /\ normCache \in [NormalizedKeys -> Products \cup {None}]
    /\ scoredCache \in [ScoredKeys -> Rankings \cup {None}]
    /\ pc \in [Searches -> {"idle", "attributes", "query", "raw", "answered",
                            "written", "normalized", "normalizing", "score",
                            "done"}]
    /\ scopeOf \in [Searches -> Scopes]
    /\ input \in [Searches -> Inputs]
    /\ useCache \in [Searches -> BOOLEAN]
    /\ attrs \in [Searches -> Attributes \cup {None}]
    /\ data \in [Searches -> Responses \cup {None}]
    /\ raw \in [Searches -> Responses \cup {None}]
    /\ products \in [Searches -> Products \cup {None}]
    /\ ranking \in [Searches -> Rankings \cup {None}]
    /\ fetched \in [RawKeys -> SUBSET Responses]
    /\ since \in [Searches -> SUBSET (RawKeys \X Responses)]

\* "Normalized and scored results are reused by a key that contains their
\* content" (README.md:111): what the caches without TTL hold under a key was
\* computed from the response and the attributes that the key was made from, so
\* that a search ranks the products of its own response.
KeyedByContent ==
    /\ \A k \in NormalizedKeys :
          normCache[k] \in {None, Normalized(k[2])}
    /\ \A k \in ScoredKeys :
          scoredCache[k] \in {None, Scored(k[1], Normalized(k[2][2]))}
    /\ \A s \in Searches :
          pc[s] = "done" => ranking[s] = Scored(attrs[s], Normalized(raw[s]))

\* The same for searches that do not share a scope, as the sessions of Streamlit
\* do not: whatever the interleaving, the second reading of the raw file
\* (normalize) finds what the key was made from.
KeyedByContentApart ==
    (\A s, t \in Searches : s # t => scopeOf[s] # scopeOf[t]) => KeyedByContent

\* Responses that Outscraper gave in a scope, to any query
FetchedIn(scope) == UNION {fetched[<<scope, q>>] : q \in Queries}

\* "Streamlit separates the keys of its sessions" (README.md:112): the response
\* that a search works on was fetched for its query in its own scope, and the
\* products and the ranking it shows come from responses of its own scope,
\* whatever the caches hold for the others.
ScopesApart ==
    \A s \in Searches :
        /\ raw[s] # None => raw[s] \in fetched[Asked(s)]
        /\ products[s] # None =>
              \E r \in FetchedIn(scopeOf[s]) : products[s] = Normalized(r)
        /\ ranking[s] # None =>
              \E r \in FetchedIn(scopeOf[s]) :
                  ranking[s] = Scored(attrs[s], Normalized(r))

\* "--no-cache starts again from the external services, without reading the caches
\* that are there" (README.md:95): such a search ranks a response that Outscraper
\* gave after the search had started, or had given to another search of the scope
\* that had not yet written it; never one that was in the cache when it started.
\* Where no scope is shared there is no other search, and the response is younger
\* than the search.
NoCacheStartsAgain ==
    \A s \in Searches :
        pc[s] = "done" /\ ~useCache[s] =>
            \E r \in Responses :
                /\ <<Asked(s), r>> \in since[s]
                /\ ranking[s] = Scored(attrs[s], Normalized(r))
=============================================================================
