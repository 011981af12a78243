------------------------ MODULE SearchPipelineProofs ------------------------
(***************************************************************************)
(* What holds of the product search for every number of searches, scopes,  *)
(* queries and responses: searches of different scopes never work on each  *)
(* other's responses, a search with --no-cache ranks no response that was  *)
(* cached when it started, and the caches that are keyed by content hold that content as     *)
(* long as no two searches share a scope.  At the end, that each file of   *)
(* the caches is whole for whoever reads it.                               *)
(***************************************************************************)
EXTENDS SearchPipeline, JsonEditor, TLAPS

(***************************************************************************)
(* The inductive invariant.                                                *)
(***************************************************************************)

AfterNormalize == {"normalizing", "score", "done"}
AfterRead == AfterNormalize \cup {"normalized"}
AfterFetch == AfterRead \cup {"written"}
AfterQuery == AfterFetch \cup {"raw", "answered"}
AfterAttributes == AfterQuery \cup {"query"}

\* Each local is there from the step that sets it on, and no earlier; the raw
\* file of a search is there from the call on, because no file is ever removed.
Placed(s) ==
    /\ pc[s] \in AfterAttributes => attrs[s] \in Attributes
    /\ pc[s] \in AfterQuery => QueryOf[attrs[s]] \in Queries
    /\ pc[s] \in AfterFetch => rawCache[RawKey(s)].value # None
    /\ pc[s] \in AfterRead => raw[s] \in Responses
    /\ pc[s] \in AfterNormalize => products[s] \in Products
    /\ pc[s] = "answered" => data[s] \in Responses
    /\ raw[s] # None => pc[s] \in AfterRead
    /\ products[s] # None => pc[s] \in AfterNormalize
    /\ ranking[s] # None => pc[s] = "done"

\* What a search works on came from its own scope.
Scoped(s) ==
    /\ pc[s] = "answered" => data[s] \in fetched[Asked(s)]
    /\ pc[s] \in AfterRead => raw[s] \in fetched[Asked(s)]
    /\ pc[s] \in AfterNormalize =>
          \E r \in FetchedIn(scopeOf[s]) : products[s] = Normalized(r)
    /\ pc[s] = "done" =>
          \E r \in FetchedIn(scopeOf[s]) :
              ranking[s] = Scored(attrs[s], Normalized(r))

\* Without the caches, the raw file was written after the search had started, and
\* what was made of it holds that response.
Recent(s) ==
    ~useCache[s] =>
      /\ pc[s] \in {"written", "normalized"} =>
            <<Asked(s), rawCache[RawKey(s)].value>> \in since[s]
      /\ pc[s] \in {"normalizing", "score"} =>
            \E r \in Responses :
                <<Asked(s), r>> \in since[s] /\ products[s] = Normalized(r)
      /\ pc[s] = "done" =>
            \E r \in Responses :
                /\ <<Asked(s), r>> \in since[s]
                /\ ranking[s] = Scored(attrs[s], Normalized(r))

\* No two searches share a scope.
Apart == \A s, t \in Searches : s # t => scopeOf[s] # scopeOf[t]

\* Then the raw file of a search stays what the search read from it.
Content(s) ==
    /\ pc[s] = "normalized" => rawCache[RawKey(s)].value = raw[s]
    /\ pc[s] \in {"normalizing", "score"} => products[s] = Normalized(raw[s])
    /\ pc[s] = "done" => ranking[s] = Scored(attrs[s], Normalized(raw[s]))

\* A response that is still to be written counts for every search of the scope that
\* is under way: it was given after the start of the search, or held at its start.
Active(s) == pc[s] \notin {"idle", "done"}

InFlight ==
    \A s, t \in Searches :
        Active(s) /\ pc[t] = "answered" /\ scopeOf[t] = scopeOf[s] =>
            <<Asked(t), data[t]>> \in since[s]

Here(s) == Placed(s) /\ Scoped(s) /\ Recent(s) /\ (Apart => Content(s))

\* Every file of a scope was made from responses of that scope.
RawFetched ==
    \A k \in RawKeys :
        rawCache[k].value # None => rawCache[k].value \in fetched[k]

NormFetched ==
    \A c \in Scopes, r \in Responses :
        normCache[<<c, r>>] # None =>
            \E x \in FetchedIn(c) : normCache[<<c, r>>] = Normalized(x)

ScoredFetched ==
    \A a \in Attributes, c \in Scopes, r \in Responses :
        scoredCache[<<a, <<c, r>>>>] # None =>
            \E x \in FetchedIn(c) :
                scoredCache[<<a, <<c, r>>>>] = Scored(a, Normalized(x))

\* ... and, when no scope is shared, from the very response its key names.
NormKeyed ==
    \A c \in Scopes, r \in Responses :
        normCache[<<c, r>>] \in {None, Normalized(r)}

ScoredKeyed ==
    \A a \in Attributes, c \in Scopes, r \in Responses :
        scoredCache[<<a, <<c, r>>>>] \in {None, Scored(a, Normalized(r))}

Files ==
    /\ RawFetched
    /\ NormFetched
    /\ ScoredFetched
    /\ Apart => NormKeyed /\ ScoredKeyed

SInv == TypeOK /\ (\A s \in Searches : Here(s)) /\ InFlight /\ Files

(***************************************************************************)
(* Lemmas about the operators.                                             *)
(***************************************************************************)

\* The labels of a search, in the order of its steps.
LEMMA Labels ==
    /\ "idle" \notin AfterAttributes /\ "attributes" \notin AfterAttributes
    /\ "query" \in AfterAttributes /\ "query" \notin AfterQuery
    /\ "raw" \in AfterQuery /\ "raw" \notin AfterFetch
    /\ "answered" \in AfterQuery /\ "answered" \notin AfterFetch
    /\ "written" \in AfterFetch /\ "written" \notin AfterRead
    /\ "normalized" \in AfterRead /\ "normalized" \notin AfterNormalize
    /\ "normalizing" \in AfterNormalize /\ "score" \in AfterNormalize
    /\ "done" \in AfterNormalize
    /\ AfterNormalize \subseteq AfterRead /\ AfterRead \subseteq AfterFetch
    /\ AfterFetch \subseteq AfterQuery /\ AfterQuery \subseteq AfterAttributes
  BY DEF AfterNormalize, AfterRead, AfterFetch, AfterQuery, AfterAttributes

\* The key of the raw file is what is asked, and is a key.
LEMMA KeyIsAsked ==
    ASSUME TypeOK, NEW s \in Searches, Placed(s), pc[s] \in AfterQuery
    PROVE  /\ RawKey(s) \in RawKeys
           /\ Asked(s) = RawKey(s)
           /\ rawCache[RawKey(s)].value \in Responses \cup {None}
  <1>1. RawKey(s) \in RawKeys
    BY DEF TypeOK, Placed, RawKey, RawKeys
  <1> QED BY <1>1 DEF TypeOK, Asked, RawKey, Entries

\* What was fetched for a key was fetched in its scope.
LEMMA FetchedForKey ==
    ASSUME NEW c \in Scopes, NEW q \in Queries, NEW r \in fetched[<<c, q>>]
    PROVE  r \in FetchedIn(c)
  BY DEF FetchedIn

\* Apart speaks of the scopes only, and these are fixed.
LEMMA ApartFixed == ASSUME UNCHANGED scopeOf PROVE Apart' <=> Apart
  BY DEF Apart

(***************************************************************************)
(* Frames: what a step of one search leaves alone.                         *)
(***************************************************************************)

\* Nothing of another search changes.
OthersKept(s) ==
    \A t \in Searches \ {s} :
        /\ pc'[t] = pc[t] /\ useCache'[t] = useCache[t]
        /\ attrs'[t] = attrs[t] /\ data'[t] = data[t] /\ raw'[t] = raw[t]
        /\ products'[t] = products[t] /\ ranking'[t] = ranking[t]
        /\ since'[t] = since[t]

\* A step that writes no raw file keeps what holds of the other searches.
LEMMA SearchesKept ==
    ASSUME SInv, NEW s \in Searches, OthersKept(s), Here(s)',
           UNCHANGED <<rawCache, scopeOf, fetched>>
    PROVE  (\A t \in Searches : Here(t))'
  <1> SUFFICES ASSUME NEW t \in Searches \ {s} PROVE Here(t)'
    OBVIOUS
  <1>1. Here(t)
    BY DEF SInv
  <1>2. /\ pc'[t] = pc[t] /\ useCache'[t] = useCache[t]
        /\ attrs'[t] = attrs[t] /\ data'[t] = data[t] /\ raw'[t] = raw[t]
        /\ products'[t] = products[t] /\ ranking'[t] = ranking[t]
        /\ since'[t] = since[t]
    BY DEF OthersKept
  <1>3. Asked(t)' = Asked(t) /\ RawKey(t)' = RawKey(t)
    BY <1>2 DEF Asked, RawKey
  <1>4. FetchedIn(scopeOf[t])' = FetchedIn(scopeOf[t])
    BY DEF FetchedIn
  <1>5. Placed(t)'
    BY <1>1, <1>2, <1>3 DEF Here, Placed
  <1>6. Scoped(t)'
    BY <1>1, <1>2, <1>3, <1>4 DEF Here, Scoped
  <1>7. Recent(t)'
    BY <1>1, <1>2, <1>3 DEF Here, Recent
  <1>8. (Apart => Content(t))'
    BY <1>1, <1>2, <1>3, ApartFixed DEF Here, Content
  <1> QED BY <1>5, <1>6, <1>7, <1>8 DEF Here

\* A search that goes on, or ends, and has nothing to write itself, keeps what is
\* in flight for the others and for itself.
LEMMA InFlightKept ==
    ASSUME SInv, NEW s \in Searches, OthersKept(s), UNCHANGED scopeOf,
           pc'[s] # "answered",
           pc'[s] \in {"idle", "done"} \/ (Active(s) /\ since[s] \subseteq since'[s])
    PROVE  InFlight'
  <1> SUFFICES ASSUME NEW u \in Searches, NEW t \in Searches, Active(u)',
                      pc'[t] = "answered", scopeOf[t] = scopeOf[u]
               PROVE  <<Asked(t)', data'[t]>> \in since'[u]
    BY DEF InFlight
  <1>1. t # s /\ pc[t] = "answered" /\ data'[t] = data[t] /\ Asked(t)' = Asked(t)
    BY DEF OthersKept, Asked
  <1>2. Active(u) /\ since[u] \subseteq since'[u]
    BY DEF OthersKept, Active
  <1>3. <<Asked(t), data[t]>> \in since[u]
    BY <1>1, <1>2 DEF SInv, InFlight
  <1> QED BY <1>1, <1>2, <1>3

\* A step that writes no file of the last three caches keeps what they hold.
LEMMA FilesKept ==
    ASSUME SInv, UNCHANGED <<rawCache, normCache, scoredCache, scopeOf, fetched>>
    PROVE  Files'
  <1>1. \A c : FetchedIn(c)' = FetchedIn(c)
    BY DEF FetchedIn
  <1>2. RawFetched'
    BY DEF SInv, Files, RawFetched
  <1>3. NormFetched'
    BY <1>1 DEF SInv, Files, NormFetched
  <1>4. ScoredFetched'
    BY <1>1 DEF SInv, Files, ScoredFetched
  <1>5. (Apart => NormKeyed /\ ScoredKeyed)'
    BY ApartFixed DEF SInv, Files, NormKeyed, ScoredKeyed
  <1> QED BY <1>2, <1>3, <1>4, <1>5 DEF Files
(***************************************************************************)
(* The actions.                                                            *)
(***************************************************************************)

\* No cache file is there before the first search.
LEMMA InitHolds == Init => SInv
  <1> SUFFICES ASSUME Init PROVE SInv
    OBVIOUS
  <1>1. TypeOK
    <2>1. Missing \in Entries(Attributes) /\ Missing \in Entries(Responses)
      BY DEF Missing, Entries
    <2>2. /\ attrsCache \in [AttributesKeys -> Entries(Attributes)]
          /\ rawCache \in [RawKeys -> Entries(Responses)]
      BY <2>1 DEF Init
    <2>3. useCache \in [Searches -> BOOLEAN]
      BY Zenon DEF Init
    <2> QED BY <2>2, <2>3 DEF Init, TypeOK
  <1>2. ASSUME NEW s \in Searches PROVE Here(s)
    <2>1. /\ pc[s] = "idle" /\ raw[s] = None /\ products[s] = None
          /\ ranking[s] = None
      BY DEF Init
    <2> QED BY <2>1, Labels DEF Here, Placed, Scoped, Recent, Content
  <1>3. Files
    <2>1. RawFetched
      BY DEF Init, RawFetched, Missing
    <2>2. \A c \in Scopes, r \in Responses : normCache[<<c, r>>] = None
      BY DEF Init, NormalizedKeys
    <2>3. \A a \in Attributes, c \in Scopes, r \in Responses :
              scoredCache[<<a, <<c, r>>>>] = None
      BY DEF Init, ScoredKeys, NormalizedKeys
    <2> QED BY <2>1, <2>2, <2>3
          DEF Files, NormFetched, ScoredFetched, NormKeyed, ScoredKeyed
  <1>4. InFlight
    BY DEF Init, InFlight
  <1> QED BY <1>1, <1>2, <1>3, <1>4 DEF SInv

\* A search that starts, or that ends without a result, has no locals.
LEMMA BlankKeeps ==
    ASSUME SInv, NEW s \in Searches, NEW label \in {"idle", "attributes"},
           NEW i \in Inputs, NEW uc \in BOOLEAN,
           NEW given \in SUBSET (RawKeys \X Responses),
           label = "attributes" => Unwritten(scopeOf[s]) \subseteq given,
           /\ pc' = [pc EXCEPT ![s] = label]
           /\ input' = [input EXCEPT ![s] = i]
           /\ useCache' = [useCache EXCEPT ![s] = uc]
           /\ attrs' = [attrs EXCEPT ![s] = None]
           /\ data' = [data EXCEPT ![s] = None]
           /\ raw' = [raw EXCEPT ![s] = None]
           /\ products' = [products EXCEPT ![s] = None]
           /\ ranking' = [ranking EXCEPT ![s] = None]
           /\ since' = [since EXCEPT ![s] = given],
           UNCHANGED <<caches, scopeOf, fetched>>
    PROVE  SInv'
  <1>1. UNCHANGED <<attrsCache, rawCache, normCache, scoredCache, scopeOf, fetched>>
    BY DEF caches
  <1>2. useCache' \in [Searches -> BOOLEAN]
    BY Zenon DEF SInv, TypeOK
  <1>3. TypeOK'
    BY <1>1, <1>2 DEF SInv, TypeOK
  <1>4. OthersKept(s)
    BY DEF SInv, TypeOK, OthersKept
  <1>5. pc'[s] = label /\ raw'[s] = None /\ products'[s] = None
        /\ ranking'[s] = None
    BY DEF SInv, TypeOK
  <1>6. label \notin AfterAttributes /\ label \notin AfterQuery
        /\ label \notin AfterFetch /\ label \notin AfterRead
        /\ label \notin AfterNormalize /\ label # "done" /\ label # "answered"
    BY Labels
  <1>7. Here(s)'
    BY <1>5, <1>6 DEF Here, Placed, Scoped, Recent, Content
  <1>8. InFlight'
    <2> SUFFICES ASSUME NEW u \in Searches, NEW t \in Searches, Active(u)',
                        pc'[t] = "answered", scopeOf[t] = scopeOf[u]
                 PROVE  <<Asked(t)', data'[t]>> \in since'[u]
      BY DEF InFlight
    <2>1. t # s /\ pc[t] = "answered" /\ data'[t] = data[t] /\ Asked(t)' = Asked(t)
      BY <1>4, <1>5, <1>6 DEF OthersKept, Asked
    <2>2. CASE u = s
      <3>1. label = "attributes" /\ since'[u] = given
        BY <1>5, <2>2 DEF Active, SInv, TypeOK
      <3>2. <<Asked(t), data[t]>> \in Unwritten(scopeOf[s])
        BY <2>1, <2>2 DEF Unwritten
      <3> QED BY <2>1, <3>1, <3>2
    <2>3. CASE u # s
      <3>1. Active(u) /\ since'[u] = since[u]
        BY <1>4, <2>3 DEF OthersKept, Active
      <3>2. <<Asked(t), data[t]>> \in since[u]
        BY <2>1, <3>1 DEF SInv, InFlight
      <3> QED BY <2>1, <3>1, <3>2
    <2> QED BY <2>2, <2>3
  <1> QED BY <1>1, <1>3, <1>4, <1>7, <1>8, SearchesKept, FilesKept DEF SInv

\* run_product_search begins.
LEMMA StartKeeps ==
    ASSUME SInv, NEW s \in Searches, NEW i \in Inputs, NEW uc \in BOOLEAN,
           Start(s, i, uc)
    PROVE  SInv'
  <1>1. \A t \in Searches : pc[t] = "answered" =>
            <<Asked(t), data[t]>> \in RawKeys \X Responses
    <2> TAKE t \in Searches
    <2> HAVE pc[t] = "answered"
    <2>1. Placed(t) /\ pc[t] \in AfterQuery
      BY Labels DEF SInv, Here
    <2>2. Asked(t) \in RawKeys
      BY <2>1, KeyIsAsked DEF SInv
    <2> QED BY <2>1, <2>2 DEF Placed
  <1>2. Unwritten(scopeOf[s]) \in SUBSET (RawKeys \X Responses)
    BY <1>1 DEF Unwritten
  <1> QED BY <1>2, BlankKeeps DEF Start, GoTo

\* It raises or its process dies.
LEMMA QuitKeeps ==
    ASSUME SInv, NEW s \in Searches, Quit(s) PROVE SInv'
  <1>1. input[s] \in Inputs /\ input' = [input EXCEPT ![s] = input[s]]
    BY DEF SInv, TypeOK, Quit
  <1>2. {} \in SUBSET (RawKeys \X Responses)
    OBVIOUS
  <1> QED BY <1>1, <1>2, BlankKeeps DEF Quit, GoTo

\* Step 1, hit.
LEMMA LoadAttributesKeeps ==
    ASSUME SInv, NEW s \in Searches, LoadAttributes(s) PROVE SInv'
  <1> DEFINE a == attrsCache[AttributesKey(s)].value
  <1>1. a \in Attributes
    BY DEF SInv, TypeOK, LoadAttributes, Fresh, AttributesKey, AttributesKeys,
           Entries
  <1>2. pc[s] = "attributes" /\ attrs' = [attrs EXCEPT ![s] = a]
        /\ pc' = [pc EXCEPT ![s] = "query"]
        /\ UNCHANGED <<attrsCache, rawCache, normCache, scoredCache, scopeOf, input,
                       useCache, data, raw, products, ranking, fetched,
                       since>>
    BY DEF LoadAttributes, GoTo, caches, arguments, history
  <1> HIDE DEF a
  <1>3. TypeOK'
    BY <1>1, <1>2 DEF SInv, TypeOK
  <1>4. OthersKept(s)
    BY <1>2 DEF SInv, TypeOK, OthersKept
  <1>5. pc'[s] = "query" /\ attrs'[s] = a
    BY <1>2 DEF SInv, TypeOK
  <1>6. Placed(s)
    BY DEF SInv, Here
  <1>7. raw[s] = None /\ products[s] = None /\ ranking[s] = None
    BY <1>2, <1>6, Labels DEF Placed
  <1>8. Here(s)'
    BY <1>1, <1>2, <1>5, <1>7, Labels DEF Here, Placed, Scoped, Recent, Content
  <1>9. InFlight'
    BY <1>2, <1>4, <1>5, InFlightKept DEF Active
  <1> QED BY <1>2, <1>3, <1>4, <1>8, <1>9, SearchesKept, FilesKept DEF SInv

\* Step 1, miss.
LEMMA ExtractAttributesKeeps ==
    ASSUME SInv, NEW s \in Searches, NEW a \in Attributes, ExtractAttributes(s, a)
    PROVE  SInv'
  <1>2. pc[s] = "attributes" /\ attrs' = [attrs EXCEPT ![s] = a]
        /\ pc' = [pc EXCEPT ![s] = "query"]
        /\ attrsCache' = [attrsCache EXCEPT ![AttributesKey(s)] = Written(a)]
        /\ UNCHANGED <<rawCache, normCache, scoredCache, scopeOf, input, useCache,
                       data, raw, products, ranking, fetched, since>>
    BY DEF ExtractAttributes, GoTo, arguments, history
  <1>3. Written(a) \in Entries(Attributes)
    BY DEF Written, Entries
  <1>4. attrsCache' \in [AttributesKeys -> Entries(Attributes)]
    BY <1>2, <1>3 DEF SInv, TypeOK
  <1>5. TypeOK'
    BY <1>2, <1>4 DEF SInv, TypeOK
  <1>6. OthersKept(s)
    BY <1>2 DEF SInv, TypeOK, OthersKept
  <1>7. pc'[s] = "query" /\ attrs'[s] = a
    BY <1>2 DEF SInv, TypeOK
  <1>8. Placed(s)
    BY DEF SInv, Here
  <1>9. raw[s] = None /\ products[s] = None /\ ranking[s] = None
    BY <1>2, <1>8, Labels DEF Placed
  <1>10. Here(s)'
    BY <1>2, <1>7, <1>9, Labels DEF Here, Placed, Scoped, Recent, Content
  <1>11. InFlight'
    BY <1>2, <1>6, <1>7, InFlightKept DEF Active
  <1> QED BY <1>2, <1>5, <1>6, <1>10, <1>11, SearchesKept, FilesKept DEF SInv

\* Step 2: attributes without a usable query end the search.
LEMMA SelectQueryKeeps ==
    ASSUME SInv, NEW s \in Searches, SelectQuery(s) PROVE SInv'
  <1>1. CASE QueryOf[attrs[s]] = NoQuery
    BY <1>1, QuitKeeps DEF SelectQuery
  <1>2. CASE QueryOf[attrs[s]] # NoQuery
    <2>1. pc[s] = "query" /\ pc' = [pc EXCEPT ![s] = "raw"]
          /\ UNCHANGED <<attrsCache, rawCache, normCache, scoredCache, scopeOf,
                         input, useCache, attrs, data, raw, products, ranking,
                         fetched, since>>
      BY <1>2 DEF SelectQuery, GoTo, caches, arguments, locals, history
    <2>2. TypeOK'
      BY <2>1 DEF SInv, TypeOK
    <2>3. OthersKept(s)
      BY <2>1 DEF SInv, TypeOK, OthersKept
    <2>4. pc'[s] = "raw"
      BY <2>1 DEF SInv, TypeOK
    <2>5. Placed(s)
      BY DEF SInv, Here
    <2>6. raw[s] = None /\ products[s] = None /\ ranking[s] = None
          /\ attrs[s] \in Attributes
      BY <2>1, <2>5, Labels DEF Placed
    <2>7. QueryOf[attrs[s]] \in Queries
      BY <1>2, <2>6, QueryAssumption
    <2>8. Here(s)'
      BY <2>1, <2>4, <2>6, <2>7, Labels
      DEF Here, Placed, Scoped, Recent, Content
    <2>9. InFlight'
      BY <2>1, <2>3, <2>4, InFlightKept DEF Active
    <2> QED BY <2>1, <2>2, <2>3, <2>8, <2>9, SearchesKept, FilesKept DEF SInv
  <1> QED BY <1>1, <1>2
\* The raw file of a search is read: on a hit of step 3, or after the call.
LEMMA RawReadKeeps ==
    ASSUME SInv, NEW s \in Searches, pc[s] \in {"raw", "written"},
           rawCache[RawKey(s)].value # None,
           pc[s] = "raw" => useCache[s],
           raw' = [raw EXCEPT ![s] = rawCache[RawKey(s)].value],
           pc' = [pc EXCEPT ![s] = "normalized"],
           UNCHANGED <<attrsCache, rawCache, normCache, scoredCache, scopeOf, input,
                       useCache, attrs, data, products, ranking, fetched,
                       since>>
    PROVE  SInv'
  <1> DEFINE v == rawCache[RawKey(s)].value
  <1>1. Here(s) /\ Placed(s)
    BY DEF SInv, Here
  <1>2. pc[s] \in AfterQuery /\ pc[s] \notin AfterNormalize /\ pc[s] # "done"
    BY Labels
  <1>3. /\ RawKey(s) \in RawKeys /\ Asked(s) = RawKey(s) /\ v \in Responses
        /\ v # None
    BY <1>1, <1>2, KeyIsAsked DEF SInv
  <1>4. v \in fetched[Asked(s)]
    BY <1>3 DEF SInv, Files, RawFetched
  <1>5. TypeOK'
    BY <1>3 DEF SInv, TypeOK
  <1>6. OthersKept(s)
    BY DEF SInv, TypeOK, OthersKept
  <1>7. pc'[s] = "normalized" /\ raw'[s] = v
    BY DEF SInv, TypeOK
  <1>8. products[s] = None /\ ranking[s] = None /\ attrs[s] \in Attributes
        /\ QueryOf[attrs[s]] \in Queries
    BY <1>1, <1>2, Labels DEF Placed
  <1>9. Asked(s)' = Asked(s) /\ RawKey(s)' = RawKey(s)
    BY DEF Asked, RawKey
  <1>10. Placed(s)'
    BY <1>3, <1>7, <1>8, <1>9, Labels DEF Placed
  <1>11. Scoped(s)'
    BY <1>4, <1>7, <1>9, Labels DEF Scoped
  <1>12. Recent(s)'
    <2>1. ~useCache[s] => pc[s] = "written"
      OBVIOUS
    <2> QED BY <1>1, <1>7, <1>9, <2>1 DEF Here, Recent
  <1>13. Content(s)'
    BY <1>7, <1>9 DEF Content
  <1>14. Here(s)'
    BY <1>10, <1>11, <1>12, <1>13 DEF Here
  <1>15. InFlight'
    BY <1>6, <1>7, InFlightKept DEF Active
  <1> QED BY <1>5, <1>6, <1>14, <1>15, SearchesKept, FilesKept DEF SInv

\* Step 3, hit.
LEMMA LoadRawKeeps ==
    ASSUME SInv, NEW s \in Searches, LoadRaw(s) PROVE SInv'
  BY RawReadKeeps DEF LoadRaw, Fresh, GoTo, caches, arguments, history

\* Step 3, miss: what the file holds after the call.
LEMMA ReadBackKeeps ==
    ASSUME SInv, NEW s \in Searches, ReadBack(s) PROVE SInv'
  <1>1. rawCache[RawKey(s)].value # None
    BY Labels DEF ReadBack, SInv, Here, Placed
  <1> QED BY <1>1, RawReadKeeps DEF ReadBack, GoTo, caches, arguments, history

\* The products of a search are set: loaded, or made of the raw file.
LEMMA ProductsSetKeeps ==
    ASSUME SInv, NEW s \in Searches, NEW n \in Products,
           NEW label \in {"normalizing", "score"},
           pc[s] = "normalized",
           \E r \in FetchedIn(scopeOf[s]) : n = Normalized(r),
           ~useCache[s] => n = Normalized(rawCache[RawKey(s)].value),
           Apart => n = Normalized(raw[s]),
           products' = [products EXCEPT ![s] = n],
           pc' = [pc EXCEPT ![s] = label],
           UNCHANGED <<attrsCache, rawCache, normCache, scoredCache, scopeOf, input,
                       useCache, attrs, data, raw, ranking, fetched,
                       since>>
    PROVE  SInv'
  <1>1. Here(s) /\ Placed(s)
    BY DEF SInv, Here
  <1>2. pc[s] \in AfterQuery /\ pc[s] \in AfterFetch /\ pc[s] \in AfterRead
        /\ pc[s] \in AfterAttributes /\ pc[s] # "done"
    BY Labels
  <1>3. /\ rawCache[RawKey(s)].value \in Responses
        /\ rawCache[RawKey(s)].value # None
    BY <1>1, <1>2, KeyIsAsked DEF SInv, Placed
  <1>4. TypeOK'
    BY DEF SInv, TypeOK
  <1>5. OthersKept(s)
    BY DEF SInv, TypeOK, OthersKept
  <1>6. pc'[s] = label /\ products'[s] = n
    BY DEF SInv, TypeOK
  <1>7. /\ ranking[s] = None /\ attrs[s] \in Attributes /\ raw[s] \in Responses
        /\ QueryOf[attrs[s]] \in Queries
    BY <1>1, <1>2 DEF Placed
  <1>8. Asked(s)' = Asked(s) /\ RawKey(s)' = RawKey(s)
        /\ FetchedIn(scopeOf[s])' = FetchedIn(scopeOf[s])
    BY DEF Asked, RawKey, FetchedIn
  <1>9. label \in AfterNormalize /\ label \in AfterRead /\ label # "done"
    BY Labels
  <1>10. Placed(s)'
    BY <1>3, <1>6, <1>7, <1>8, <1>9 DEF Placed
  <1>11. Scoped(s)'
    BY <1>1, <1>2, <1>6, <1>8, <1>9 DEF Here, Scoped
  <1>12. Recent(s)'
    <2> SUFFICES ASSUME ~useCache'[s]
                 PROVE  \E r \in Responses :
                            <<Asked(s), r>> \in since[s] /\ n = Normalized(r)
      BY <1>6, <1>8, <1>9 DEF Recent
    <2>1. <<Asked(s), rawCache[RawKey(s)].value>> \in since[s]
      BY <1>1 DEF Here, Recent
    <2> QED BY <1>3, <2>1
  <1>13. (Apart => Content(s))'
    BY <1>6, <1>9, ApartFixed DEF Content
  <1>14. Here(s)'
    BY <1>10, <1>11, <1>12, <1>13 DEF Here
  <1>15. InFlight'
    BY <1>5, <1>6, InFlightKept DEF Active
  <1> QED BY <1>4, <1>5, <1>14, <1>15, SearchesKept, FilesKept DEF SInv

\* normalize, hit.
LEMMA LoadNormalizedKeeps ==
    ASSUME SInv, NEW s \in Searches, LoadNormalized(s) PROVE SInv'
  <1>1. Placed(s) /\ raw[s] \in Responses /\ scopeOf[s] \in Scopes
    BY Labels DEF SInv, TypeOK, Here, Placed, LoadNormalized
  <1>2. NormalizedKey(s) = <<scopeOf[s], raw[s]>>
        /\ NormalizedKey(s) \in NormalizedKeys
    BY <1>1 DEF NormalizedKey, NormalizedKeys
  <1>3. PICK n : n = normCache[NormalizedKey(s)]
    OBVIOUS
  <1>4. n \in Products /\ n # None
    BY <1>2, <1>3 DEF SInv, TypeOK, LoadNormalized
  <1>5. \E r \in FetchedIn(scopeOf[s]) : n = Normalized(r)
    BY <1>1, <1>2, <1>3, <1>4 DEF SInv, Files, NormFetched
  <1>6. Apart => n = Normalized(raw[s])
    BY <1>1, <1>2, <1>3, <1>4 DEF SInv, Files, NormKeyed
  <1>7. pc[s] = "normalized" /\ useCache[s] /\ "score" \in {"normalizing", "score"}
        /\ products' = [products EXCEPT ![s] = n]
        /\ pc' = [pc EXCEPT ![s] = "score"]
        /\ UNCHANGED <<attrsCache, rawCache, normCache, scoredCache, scopeOf, input,
                       useCache, attrs, data, raw, ranking, fetched,
                       since>>
    BY <1>3 DEF LoadNormalized, GoTo, caches, arguments, history
  <1> QED BY <1>4, <1>5, <1>6, <1>7, ProductsSetKeeps

\* normalize, miss: the second reading of the raw file.
LEMMA NormalizeReadKeeps ==
    ASSUME SInv, NEW s \in Searches, NormalizeRead(s) PROVE SInv'
  <1>1. Here(s) /\ Placed(s) /\ pc[s] = "normalized"
    BY DEF SInv, Here, NormalizeRead
  <1>2. pc[s] \in AfterQuery /\ pc[s] \in AfterFetch
    BY <1>1, Labels
  <1>3. PICK v : v = rawCache[RawKey(s)].value
    OBVIOUS
  <1>4. RawKey(s) \in RawKeys /\ v \in Responses /\ v # None
    BY <1>1, <1>2, <1>3, KeyIsAsked DEF SInv, Placed
  <1>5. v \in FetchedIn(scopeOf[s])
    <2>1. v \in fetched[RawKey(s)]
      BY <1>3, <1>4 DEF SInv, Files, RawFetched
    <2>2. QueryOf[attrs[s]] \in Queries /\ scopeOf[s] \in Scopes
      BY <1>1, <1>2 DEF Placed, SInv, TypeOK
    <2> QED BY <2>1, <2>2, FetchedForKey DEF RawKey
  <1>6. PICK n : n = Normalized(v)
    OBVIOUS
  <1>7. n \in Products
    BY <1>4, <1>6 DEF Products
  <1>8. Apart => n = Normalized(raw[s])
    BY <1>1, <1>3, <1>6 DEF Here, Content
  <1>9. "normalizing" \in {"normalizing", "score"}
        /\ products' = [products EXCEPT ![s] = n]
        /\ pc' = [pc EXCEPT ![s] = "normalizing"]
        /\ UNCHANGED <<attrsCache, rawCache, normCache, scoredCache, scopeOf, input,
                       useCache, attrs, data, raw, ranking, fetched,
                       since>>
    BY <1>3, <1>6 DEF NormalizeRead, GoTo, caches, arguments, history
  <1>10. \E r \in FetchedIn(scopeOf[s]) : n = Normalized(r)
    BY <1>5, <1>6
  <1>11. n = Normalized(rawCache[RawKey(s)].value)
    BY <1>3, <1>6
  <1> QED BY <1>1, <1>7, <1>8, <1>9, <1>10, <1>11, ProductsSetKeeps
\* normalize, miss: the products are written under the key of the first reading.
LEMMA NormalizeWriteKeeps ==
    ASSUME SInv, NEW s \in Searches, NormalizeWrite(s) PROVE SInv'
  <1>1. Here(s) /\ Placed(s)
    BY DEF SInv, Here
  <1>2. PICK n : n = products[s]
    OBVIOUS
  <1>3. PICK k : k = NormalizedKey(s)
    OBVIOUS
  <1>4. /\ pc[s] = "normalizing"
        /\ normCache' = [normCache EXCEPT ![k] = n]
        /\ pc' = [pc EXCEPT ![s] = "score"]
        /\ UNCHANGED <<attrsCache, rawCache, scoredCache, scopeOf, input, useCache,
                       attrs, data, raw, products, ranking, fetched, since>>
    BY <1>2, <1>3 DEF NormalizeWrite, GoTo, arguments, locals, history
  <1>5. pc[s] \in AfterNormalize /\ pc[s] \in AfterRead /\ pc[s] \in AfterFetch
        /\ pc[s] \in AfterQuery /\ pc[s] \in AfterAttributes /\ pc[s] # "done"
    BY <1>4, Labels
  <1>6. n \in Products /\ raw[s] \in Responses /\ scopeOf[s] \in Scopes
        /\ k = <<scopeOf[s], raw[s]>> /\ k \in NormalizedKeys
    BY <1>1, <1>2, <1>3, <1>5 DEF Placed, SInv, TypeOK, NormalizedKey, NormalizedKeys
  <1>7. TypeOK'
    BY <1>4, <1>6 DEF SInv, TypeOK
  <1>8. OthersKept(s)
    BY <1>4 DEF SInv, TypeOK, OthersKept
  <1>9. pc'[s] = "score"
    BY <1>4 DEF SInv, TypeOK
  <1>10. Asked(s)' = Asked(s) /\ RawKey(s)' = RawKey(s)
         /\ \A c : FetchedIn(c)' = FetchedIn(c)
    BY <1>4 DEF Asked, RawKey, FetchedIn
  <1>11. FetchedIn(scopeOf[s])' = FetchedIn(scopeOf[s])
    BY <1>4 DEF FetchedIn
  <1>12. Placed(s)'
    BY <1>1, <1>4, <1>5, <1>9, <1>10, Labels DEF Placed
  <1>13. Scoped(s)'
    BY <1>1, <1>4, <1>5, <1>9, <1>10, <1>11 DEF Here, Scoped
  <1>14. Recent(s)'
    BY <1>1, <1>4, <1>9, <1>10 DEF Here, Recent
  <1>15. (Apart => Content(s))'
    BY <1>1, <1>4, <1>9, ApartFixed DEF Here, Content
  <1>16. Here(s)'
    BY <1>12, <1>13, <1>14, <1>15 DEF Here
  <1>17. \A c \in Scopes, r \in Responses :
            /\ <<c, r>> # k => normCache'[<<c, r>>] = normCache[<<c, r>>]
            /\ <<c, r>> = k => normCache'[<<c, r>>] = n /\ c = scopeOf[s] /\ r = raw[s]
    BY <1>4, <1>6 DEF SInv, TypeOK, NormalizedKeys
  <1>19. RawFetched' /\ ScoredFetched'
    BY <1>4, <1>10 DEF SInv, Files, RawFetched, ScoredFetched
  <1>20. NormFetched'
    <2> SUFFICES ASSUME NEW c \in Scopes, NEW r \in Responses,
                        normCache'[<<c, r>>] # None
                 PROVE  \E x \in FetchedIn(c) : normCache'[<<c, r>>] = Normalized(x)
      BY <1>10 DEF NormFetched
    <2>1. CASE <<c, r>> = k
      <3>1. c = scopeOf[s] /\ normCache'[<<c, r>>] = products[s]
        BY <1>2, <1>17, <2>1
      <3> QED BY <1>1, <1>5, <3>1 DEF Here, Scoped
    <2>2. CASE <<c, r>> # k
      <3>1. normCache'[<<c, r>>] = normCache[<<c, r>>]
        BY <1>17, <2>2
      <3> QED BY <3>1 DEF SInv, Files, NormFetched
    <2> QED BY <2>1, <2>2
  <1>21. Apart => NormKeyed'
    <2> SUFFICES ASSUME Apart, NEW c \in Scopes, NEW r \in Responses
                 PROVE  normCache'[<<c, r>>] \in {None, Normalized(r)}
      BY DEF NormKeyed
    <2>1. products[s] = Normalized(raw[s])
      BY <1>1, <1>4 DEF Here, Content
    <2> QED BY <1>2, <1>17, <2>1 DEF SInv, Files, NormKeyed
  <1>22. Apart => ScoredKeyed'
    BY <1>4 DEF SInv, Files, ScoredKeyed
  <1>23. Files'
    BY <1>4, <1>19, <1>20, <1>21, <1>22, ApartFixed DEF Files
  <1>24. InFlight'
    BY <1>4, <1>8, <1>9, InFlightKept DEF Active
  <1> QED BY <1>4, <1>7, <1>8, <1>16, <1>23, <1>24, SearchesKept DEF SInv

\* A search ends with a ranking, loaded or computed.
LEMMA RankingSet ==
    ASSUME SInv, NEW s \in Searches, NEW v \in Rankings,
           pc[s] = "score",
           \E r \in FetchedIn(scopeOf[s]) : v = Scored(attrs[s], Normalized(r)),
           ~useCache[s] => v = Scored(attrs[s], products[s]),
           Apart => v = Scored(attrs[s], Normalized(raw[s])),
           ranking' = [ranking EXCEPT ![s] = v],
           pc' = [pc EXCEPT ![s] = "done"],
           UNCHANGED <<rawCache, scopeOf, useCache, attrs, data, raw, products,
                       fetched, since>>
    PROVE  /\ (\A t \in Searches : Here(t))'
           /\ InFlight'
           /\ ranking' \in [Searches -> Rankings \cup {None}]
           /\ pc' \in [Searches -> {"idle", "attributes", "query", "raw", "answered",
                            "written", "normalized", "normalizing", "score",
                            "done"}]
  <1>1. Here(s) /\ Placed(s)
    BY DEF SInv, Here
  <1>2. pc[s] \in AfterNormalize /\ pc[s] \in AfterRead /\ pc[s] \in AfterFetch
        /\ pc[s] \in AfterQuery /\ pc[s] \in AfterAttributes
    BY Labels
  <1>3. OthersKept(s)
    BY DEF SInv, TypeOK, OthersKept
  <1>4. pc'[s] = "done" /\ ranking'[s] = v
    BY DEF SInv, TypeOK
  <1>5. Asked(s)' = Asked(s) /\ RawKey(s)' = RawKey(s)
        /\ FetchedIn(scopeOf[s])' = FetchedIn(scopeOf[s])
    BY DEF Asked, RawKey, FetchedIn
  <1>6. Placed(s)'
    BY <1>1, <1>2, <1>4, <1>5, Labels DEF Placed
  <1>7. Scoped(s)'
    BY <1>1, <1>2, <1>4, <1>5 DEF Here, Scoped
  <1>8. Recent(s)'
    <2> SUFFICES ASSUME ~useCache[s]
                 PROVE  \E r \in Responses :
                            /\ <<Asked(s), r>> \in since[s]
                            /\ v = Scored(attrs[s], Normalized(r))
      BY <1>4, <1>5 DEF Recent
    <2>1. PICK r \in Responses :
              <<Asked(s), r>> \in since[s] /\ products[s] = Normalized(r)
      BY <1>1 DEF Here, Recent
    <2> QED BY <2>1
  <1>9. (Apart => Content(s))'
    BY <1>4, ApartFixed DEF Content
  <1>10. Here(s)'
    BY <1>6, <1>7, <1>8, <1>9 DEF Here
  <1>11. (\A t \in Searches : Here(t))'
    BY <1>3, <1>10, SearchesKept
  <1>12. InFlight'
    BY <1>3, <1>4, InFlightKept DEF Active
  <1> QED BY <1>11, <1>12 DEF SInv, TypeOK

\* The key of a search's ranking, and what it is made of.
LEMMA ScoredKeyOf ==
    ASSUME SInv, NEW s \in Searches, pc[s] = "score"
    PROVE  /\ attrs[s] \in Attributes /\ raw[s] \in Responses
           /\ scopeOf[s] \in Scopes /\ products[s] \in Products
           /\ ScoredKey(s) = <<attrs[s], <<scopeOf[s], raw[s]>>>>
           /\ ScoredKey(s) \in ScoredKeys
  <1>1. Placed(s) /\ pc[s] \in AfterNormalize /\ pc[s] \in AfterRead
        /\ pc[s] \in AfterAttributes
    BY Labels DEF SInv, Here
  <1>2. attrs[s] \in Attributes /\ raw[s] \in Responses /\ scopeOf[s] \in Scopes
        /\ products[s] \in Products
    BY <1>1 DEF Placed, SInv, TypeOK
  <1> QED BY <1>2 DEF ScoredKey, NormalizedKey, ScoredKeys, NormalizedKeys

\* Step 4, hit.
LEMMA LoadScoredKeeps ==
    ASSUME SInv, NEW s \in Searches, LoadScored(s) PROVE SInv'
  <1>1. pc[s] = "score" /\ useCache[s]
    BY DEF LoadScored
  <1>2. PICK v : v = scoredCache[ScoredKey(s)]
    OBVIOUS
  <1>3. v \in Rankings /\ v # None
    BY <1>1, <1>2, ScoredKeyOf DEF SInv, TypeOK, LoadScored
  <1>4. \E r \in FetchedIn(scopeOf[s]) : v = Scored(attrs[s], Normalized(r))
    BY <1>1, <1>2, <1>3, ScoredKeyOf DEF SInv, Files, ScoredFetched
  <1>5. Apart => v = Scored(attrs[s], Normalized(raw[s]))
    BY <1>1, <1>2, <1>3, ScoredKeyOf DEF SInv, Files, ScoredKeyed
  <1>6. ranking' = [ranking EXCEPT ![s] = v] /\ pc' = [pc EXCEPT ![s] = "done"]
        /\ UNCHANGED <<attrsCache, rawCache, normCache, scoredCache, scopeOf, input,
                       useCache, attrs, data, raw, products, fetched, since>>
    BY <1>2 DEF LoadScored, GoTo, caches, arguments, history
  <1>7. /\ (\A t \in Searches : Here(t))'
        /\ InFlight'
        /\ ranking' \in [Searches -> Rankings \cup {None}]
        /\ pc' \in [Searches -> {"idle", "attributes", "query", "raw", "answered",
                            "written", "normalized", "normalizing", "score",
                            "done"}]
    BY <1>1, <1>3, <1>4, <1>5, <1>6, RankingSet
  <1>8. TypeOK'
    BY <1>6, <1>7 DEF SInv, TypeOK
  <1> QED BY <1>6, <1>7, <1>8, FilesKept DEF SInv

\* Step 4, miss.
LEMMA ScoringKeeps ==
    ASSUME SInv, NEW s \in Searches, Scoring(s) PROVE SInv'
  <1>1. pc[s] = "score" /\ Here(s) /\ Placed(s)
    BY DEF Scoring, SInv, Here
  <1>2. PICK v : v = Scored(attrs[s], products[s])
    OBVIOUS
  <1>3. PICK k : k = ScoredKey(s)
    OBVIOUS
  <1>4. /\ attrs[s] \in Attributes /\ raw[s] \in Responses /\ scopeOf[s] \in Scopes
        /\ products[s] \in Products
        /\ k = <<attrs[s], <<scopeOf[s], raw[s]>>>> /\ k \in ScoredKeys
    BY <1>1, <1>3, ScoredKeyOf
  <1>5. v \in Rankings
    BY <1>2, <1>4 DEF Rankings
  <1>6. \E r \in FetchedIn(scopeOf[s]) : products[s] = Normalized(r)
    BY <1>1, Labels DEF Here, Scoped
  <1>7. \E r \in FetchedIn(scopeOf[s]) : v = Scored(attrs[s], Normalized(r))
    BY <1>2, <1>6
  <1>8. Apart => v = Scored(attrs[s], Normalized(raw[s]))
    BY <1>1, <1>2 DEF Here, Content
  <1>9. /\ ranking' = [ranking EXCEPT ![s] = v] /\ pc' = [pc EXCEPT ![s] = "done"]
        /\ scoredCache' = [scoredCache EXCEPT ![k] = v]
        /\ UNCHANGED <<attrsCache, rawCache, normCache, scopeOf, input, useCache,
                       attrs, data, raw, products, fetched, since>>
    BY <1>2, <1>3 DEF Scoring, GoTo, arguments, history
  <1>10. /\ (\A t \in Searches : Here(t))'
         /\ InFlight'
         /\ ranking' \in [Searches -> Rankings \cup {None}]
         /\ pc' \in [Searches -> {"idle", "attributes", "query", "raw", "answered",
                            "written", "normalized", "normalizing", "score",
                            "done"}]
    BY <1>1, <1>2, <1>5, <1>7, <1>8, <1>9, RankingSet
  <1>11. TypeOK'
    BY <1>4, <1>5, <1>9, <1>10 DEF SInv, TypeOK
  <1>12. \A a \in Attributes, c \in Scopes, r \in Responses :
            /\ <<a, <<c, r>>>> # k =>
                  scoredCache'[<<a, <<c, r>>>>] = scoredCache[<<a, <<c, r>>>>]
            /\ <<a, <<c, r>>>> = k =>
                  /\ scoredCache'[<<a, <<c, r>>>>] = v
                  /\ a = attrs[s] /\ c = scopeOf[s] /\ r = raw[s]
    <2> TAKE a \in Attributes, c \in Scopes, r \in Responses
    <2>1. <<a, <<c, r>>>> \in ScoredKeys
      BY DEF ScoredKeys, NormalizedKeys
    <2>2. scoredCache' = [scoredCache EXCEPT ![k] = v]
          /\ scoredCache \in [ScoredKeys -> Rankings \cup {None}]
      BY <1>9 DEF SInv, TypeOK
    <2>3. CASE <<a, <<c, r>>>> # k
      BY <2>1, <2>2, <2>3
    <2>4. CASE <<a, <<c, r>>>> = k
      <3>1. scoredCache'[<<a, <<c, r>>>>] = v
        BY <2>1, <2>2, <2>4
      <3>2. a = attrs[s] /\ c = scopeOf[s] /\ r = raw[s]
        BY <1>4, <2>4
      <3> QED BY <3>1, <3>2, <2>4
    <2> QED BY <2>3, <2>4
  <1>13. \A c : FetchedIn(c)' = FetchedIn(c)
    BY <1>9 DEF FetchedIn
  <1>14. RawFetched' /\ NormFetched'
    BY <1>9, <1>13 DEF SInv, Files, RawFetched, NormFetched
  <1>15. ScoredFetched'
    <2> SUFFICES ASSUME NEW a \in Attributes, NEW c \in Scopes, NEW r \in Responses,
                        scoredCache'[<<a, <<c, r>>>>] # None
                 PROVE  \E x \in FetchedIn(c) :
                            scoredCache'[<<a, <<c, r>>>>] = Scored(a, Normalized(x))
      BY <1>13 DEF ScoredFetched
    <2>1. CASE <<a, <<c, r>>>> = k
      <3>1. scoredCache'[<<a, <<c, r>>>>] = v /\ a = attrs[s] /\ c = scopeOf[s]
        BY <1>12, <2>1
      <3> QED BY <1>7, <3>1
    <2>2. CASE <<a, <<c, r>>>> # k
      <3>1. scoredCache'[<<a, <<c, r>>>>] = scoredCache[<<a, <<c, r>>>>]
        BY <1>12, <2>2
      <3> QED BY <3>1 DEF SInv, Files, ScoredFetched
    <2> QED BY <2>1, <2>2
  <1>16. Apart => ScoredKeyed'
    <2> SUFFICES ASSUME Apart, NEW a \in Attributes, NEW c \in Scopes,
                        NEW r \in Responses
                 PROVE  scoredCache'[<<a, <<c, r>>>>] \in {None, Scored(a, Normalized(r))}
      BY DEF ScoredKeyed
    <2>1. CASE <<a, <<c, r>>>> = k
      BY <1>8, <1>12, <2>1
    <2>2. CASE <<a, <<c, r>>>> # k
      <3>1. scoredCache'[<<a, <<c, r>>>>] = scoredCache[<<a, <<c, r>>>>]
        BY <1>12, <2>2
      <3> QED BY <3>1 DEF SInv, Files, ScoredKeyed
    <2> QED BY <2>1, <2>2
  <1>17. Apart => NormKeyed'
    BY <1>9 DEF SInv, Files, NormKeyed
  <1>18. Files'
    BY <1>9, <1>14, <1>15, <1>16, <1>17, ApartFixed DEF Files
  <1> QED BY <1>10, <1>11, <1>18 DEF SInv

\* Step 3, miss: Outscraper gives the response, and no file changes yet.
LEMMA OutscraperAnswersKeeps ==
    ASSUME SInv, NEW s \in Searches, NEW r \in Responses, OutscraperAnswers(s, r)
    PROVE  SInv'
  <1> DEFINE k == RawKey(s)
             reading(t) == Active(t) /\ scopeOf[t] = scopeOf[s]
  <1>1. Here(s) /\ Placed(s) /\ pc[s] = "raw"
    BY DEF SInv, Here, OutscraperAnswers
  <1>2. pc[s] \in AfterQuery /\ pc[s] \in AfterAttributes /\ pc[s] \notin AfterRead
        /\ pc[s] \notin AfterNormalize
    BY <1>1, Labels
  <1>3. k \in RawKeys /\ Asked(s) = k /\ QueryOf[attrs[s]] \in Queries
        /\ attrs[s] \in Attributes /\ scopeOf[s] \in Scopes
    BY <1>1, <1>2, KeyIsAsked DEF SInv, Placed, TypeOK
  <1>4. /\ data' = [data EXCEPT ![s] = r]
        /\ pc' = [pc EXCEPT ![s] = "answered"]
        /\ fetched' = [fetched EXCEPT ![k] = @ \cup {r}]
        /\ since' = [t \in Searches |->
                        IF reading(t) THEN since[t] \cup {<<k, r>>} ELSE since[t]]
        /\ UNCHANGED <<attrsCache, rawCache, normCache, scoredCache, scopeOf, input,
                       useCache, attrs, raw, products, ranking>>
    BY <1>3 DEF OutscraperAnswers, GoTo, arguments, caches, Active
  <1>5. pc'[s] = "answered" /\ data'[s] = r
    BY <1>4 DEF SInv, TypeOK
  <1>6. \A j \in RawKeys : fetched[j] \subseteq fetched'[j]
    BY <1>4 DEF SInv, TypeOK
  <1>7. r \in fetched'[k]
    BY <1>3, <1>4 DEF SInv, TypeOK
  <1>8. \A t \in Searches :
            /\ since[t] \subseteq since'[t]
            /\ reading(t) => <<k, r>> \in since'[t]
    BY <1>4
  <1>9. \A t \in Searches : Asked(t)' = Asked(t) /\ RawKey(t)' = RawKey(t)
                            /\ Asked(t) = RawKey(t)
    BY <1>4 DEF Asked, RawKey
  <1>10. \A c \in Scopes : FetchedIn(c) \subseteq FetchedIn(c)'
    <2> TAKE c \in Scopes
    <2>1. \A q \in Queries : fetched[<<c, q>>] \subseteq fetched'[<<c, q>>]
      BY <1>6 DEF RawKeys
    <2> QED BY <2>1 DEF FetchedIn
  <1>11. TypeOK'
    <2>1. fetched' \in [RawKeys -> SUBSET Responses]
      BY <1>3, <1>4 DEF SInv, TypeOK
    <2>2. since' \in [Searches -> SUBSET (RawKeys \X Responses)]
      <3>1. <<k, r>> \in RawKeys \X Responses
        BY <1>3
      <3>2. since \in [Searches -> SUBSET (RawKeys \X Responses)]
        BY DEF SInv, TypeOK
      <3> HIDE DEF k, reading
      <3>3. \A t \in Searches : since[t] \cup {<<k, r>>} \in SUBSET (RawKeys \X Responses)
        BY <3>1, <3>2
      <3> QED BY <1>4, <3>2, <3>3
    <2> QED BY <1>4, <2>1, <2>2 DEF SInv, TypeOK
  <1>12. ASSUME NEW t \in Searches PROVE Here(t)'
    <2>1. Here(t) /\ Placed(t) /\ scopeOf[t] \in Scopes
      BY DEF SInv, Here, TypeOK
    <2>2. CASE t = s
      <3>1. raw[t] = None /\ products[t] = None /\ ranking[t] = None
        BY <1>1, <1>2, <2>2 DEF Placed
      <3>2. Placed(t)'
        BY <1>3, <1>4, <1>5, <2>2, <3>1, Labels DEF Placed
      <3>3. Scoped(t)'
        BY <1>3, <1>5, <1>7, <1>9, <2>2, Labels DEF Scoped
      <3>4. Recent(t)' /\ Content(t)'
        BY <1>5, <2>2 DEF Recent, Content
      <3> QED BY <3>2, <3>3, <3>4 DEF Here
    <2>3. CASE t # s
      <3>1. /\ pc'[t] = pc[t] /\ attrs'[t] = attrs[t] /\ raw'[t] = raw[t]
            /\ products'[t] = products[t] /\ ranking'[t] = ranking[t]
            /\ useCache'[t] = useCache[t] /\ scopeOf'[t] = scopeOf[t]
            /\ data'[t] = data[t]
        BY <1>4, <2>3 DEF SInv, TypeOK
      <3>2. PICK j : j = RawKey(t)
        OBVIOUS
      <3>3. RawKey(t)' = j /\ Asked(t)' = j /\ Asked(t) = j
        BY <1>9, <3>2
      <3>4. pc[t] \in AfterQuery => j \in RawKeys
        BY <2>1, <3>2, KeyIsAsked DEF SInv
      <3>5. Placed(t)'
        BY <1>4, <2>1, <3>1, <3>2, <3>3 DEF Placed
      <3>6. Scoped(t)'
        <4>1. /\ pc[t] = "answered" => data[t] \in fetched'[j]
              /\ pc[t] \in AfterRead => raw[t] \in fetched'[j]
          BY <1>6, <2>1, <3>3, <3>4, Labels DEF Here, Scoped
        <4>2. FetchedIn(scopeOf[t]) \subseteq FetchedIn(scopeOf[t])'
          <5>1. FetchedIn(scopeOf[t])' = UNION {fetched'[<<scopeOf[t], q>>] : q \in Queries}
            BY <1>4 DEF FetchedIn
          <5>2. \A q \in Queries : fetched[<<scopeOf[t], q>>] \subseteq fetched'[<<scopeOf[t], q>>]
            BY <1>6, <2>1 DEF RawKeys
          <5> QED BY <5>1, <5>2 DEF FetchedIn
        <4> QED BY <2>1, <3>1, <3>3, <4>1, <4>2 DEF Here, Scoped
      <3>7. Recent(t)'
        <4>1. since[t] \subseteq since'[t]
          BY <1>8
        <4> QED BY <1>4, <2>1, <3>1, <3>2, <3>3, <4>1 DEF Here, Recent
      <3>8. (Apart => Content(t))'
        BY <1>4, <2>1, <3>1, <3>2, <3>3, ApartFixed DEF Here, Content
      <3> QED BY <3>5, <3>6, <3>7, <3>8 DEF Here
    <2> QED BY <2>2, <2>3
  <1>13. InFlight'
    <2> SUFFICES ASSUME NEW u \in Searches, NEW t \in Searches, Active(u)',
                        pc'[t] = "answered", scopeOf[t] = scopeOf[u]
                 PROVE  <<Asked(t), data'[t]>> \in since'[u]
      BY <1>4, <1>9 DEF InFlight
    <2>1. Active(u)
      BY <1>1, <1>4 DEF Active, SInv, TypeOK
    <2>2. CASE t = s
      BY <1>3, <1>5, <1>8, <2>1, <2>2
    <2>3. CASE t # s
      <3>1. pc[t] = "answered" /\ data'[t] = data[t]
        BY <1>4, <2>3 DEF SInv, TypeOK
      <3>2. <<Asked(t), data[t]>> \in since[u]
        BY <2>1, <3>1 DEF SInv, InFlight
      <3> QED BY <1>8, <3>1, <3>2
    <2> QED BY <2>2, <2>3
  <1>14. Files'
    <2>1. RawFetched'
      BY <1>4, <1>6 DEF SInv, Files, RawFetched, TypeOK, Entries
    <2>2. NormFetched'
      BY <1>4, <1>10 DEF SInv, Files, NormFetched
    <2>3. ScoredFetched'
      BY <1>4, <1>10 DEF SInv, Files, ScoredFetched
    <2>4. (Apart => NormKeyed /\ ScoredKeyed)'
      BY <1>4, ApartFixed DEF SInv, Files, NormKeyed, ScoredKeyed
    <2> QED BY <2>1, <2>2, <2>3, <2>4 DEF Files
  <1> QED BY <1>11, <1>12, <1>13, <1>14 DEF SInv

\* Step 3, miss: the response replaces the raw file that other searches of the
\* scope may be about to read; it counts for each of them, by InFlight.
LEMMA WriteRawKeeps ==
    ASSUME SInv, NEW s \in Searches, WriteRaw(s)
    PROVE  SInv'
  <1> DEFINE k == RawKey(s)
             d == data[s]
  <1>1. Here(s) /\ Placed(s) /\ pc[s] = "answered" /\ Active(s)
    BY DEF SInv, Here, WriteRaw, Active
  <1>2. pc[s] \in AfterQuery /\ pc[s] \in AfterAttributes /\ pc[s] \notin AfterRead
        /\ pc[s] \notin AfterNormalize
    BY <1>1, Labels
  <1>3. k \in RawKeys /\ Asked(s) = k /\ QueryOf[attrs[s]] \in Queries
        /\ attrs[s] \in Attributes
    BY <1>1, <1>2, KeyIsAsked DEF SInv, Placed
  <1>4. /\ rawCache' = [rawCache EXCEPT ![k] = Written(d)]
        /\ data' = [data EXCEPT ![s] = None]
        /\ pc' = [pc EXCEPT ![s] = "written"]
        /\ UNCHANGED <<attrsCache, normCache, scoredCache, scopeOf, input, useCache,
                       attrs, raw, products, ranking, fetched, since>>
    BY DEF WriteRaw, GoTo, arguments, history
  <1>5. d \in Responses /\ d # None /\ d \in fetched[k]
    BY <1>1, <1>3, NoneAssumption DEF Here, Placed, Scoped
  <1>6. Written(d).value = d /\ Written(d) \in Entries(Responses)
    BY <1>5 DEF Written, Entries
  <1>7. \A j \in RawKeys :
            /\ j = k => rawCache'[j].value = d
            /\ j # k => rawCache'[j].value = rawCache[j].value
    BY <1>4, <1>6 DEF SInv, TypeOK
  <1>8. \A t \in Searches :
            Active(t) /\ scopeOf[t] = scopeOf[s] => <<k, d>> \in since[t]
    BY <1>1, <1>3 DEF SInv, InFlight
  <1>9. \A t \in Searches : Asked(t)' = Asked(t) /\ RawKey(t)' = RawKey(t)
                            /\ Asked(t) = RawKey(t)
    BY <1>4 DEF Asked, RawKey
  <1>10. OthersKept(s) /\ pc'[s] = "written"
    BY <1>4 DEF SInv, TypeOK, OthersKept
  <1>11. TypeOK'
    <2>1. rawCache' \in [RawKeys -> Entries(Responses)]
      BY <1>4, <1>6 DEF SInv, TypeOK
    <2> QED BY <1>4, <2>1 DEF SInv, TypeOK
  <1> HIDE DEF k, d
  <1>12. ASSUME NEW t \in Searches PROVE Here(t)'
    <2>1. Here(t) /\ Placed(t)
      BY DEF SInv, Here
    <2>2. CASE t = s
      <3>1. raw[t] = None /\ products[t] = None /\ ranking[t] = None
        BY <1>1, <1>2, <2>2 DEF Placed
      <3>2. RawKey(t)' = k /\ Asked(t)' = k /\ rawCache'[k].value = d
        BY <1>3, <1>7, <1>9, <2>2 DEF k
      <3>3. Placed(t)'
        BY <1>3, <1>4, <1>5, <1>10, <2>2, <3>1, <3>2, Labels DEF Placed
      <3>4. Scoped(t)'
        BY <1>10, <2>2, Labels DEF Scoped
      <3>5. Recent(t)'
        BY <1>1, <1>4, <1>8, <1>10, <2>2, <3>2 DEF Recent
      <3>6. Content(t)'
        BY <1>10, <2>2 DEF Content
      <3> QED BY <3>3, <3>4, <3>5, <3>6 DEF Here
    <2>3. CASE t # s
      <3>1. /\ pc'[t] = pc[t] /\ attrs'[t] = attrs[t] /\ raw'[t] = raw[t]
            /\ products'[t] = products[t] /\ ranking'[t] = ranking[t]
            /\ useCache'[t] = useCache[t] /\ data'[t] = data[t]
        BY <1>10, <2>3 DEF OthersKept
      <3>2. PICK j : j = RawKey(t)
        OBVIOUS
      <3>3. RawKey(t)' = j /\ Asked(t)' = j /\ Asked(t) = j
        BY <1>9, <3>2
      <3>4. pc[t] \in AfterQuery => j \in RawKeys
        BY <2>1, <3>2, KeyIsAsked DEF SInv
      <3>5. Placed(t)'
        <4>1. pc[t] \in AfterFetch => rawCache'[j].value # None
          BY <1>5, <1>7, <2>1, <3>2, <3>4, Labels DEF Placed
        <4> QED BY <2>1, <3>1, <3>3, <4>1 DEF Placed
      <3>6. Scoped(t)'
        <4>1. FetchedIn(scopeOf[t])' = FetchedIn(scopeOf[t])
          BY <1>4 DEF FetchedIn
        <4> QED BY <1>4, <2>1, <3>1, <3>3, <4>1 DEF Here, Scoped
      <3>7. Recent(t)'
        <4>1. ASSUME ~useCache[t], pc[t] \in {"written", "normalized"}
              PROVE  <<j, rawCache'[j].value>> \in since[t]
          <5>1. j \in RawKeys /\ <<j, rawCache[j].value>> \in since[t]
            BY <2>1, <3>2, <3>3, <3>4, <4>1, Labels DEF Here, Recent
          <5>2. CASE j = k
            <6>1. scopeOf[t] = scopeOf[s] /\ Active(t)
              BY <3>2, <4>1, <5>2 DEF k, RawKey, Active
            <6> QED BY <1>7, <1>8, <5>1, <5>2, <6>1
          <5>3. CASE j # k
            BY <1>7, <5>1, <5>3
          <5> QED BY <5>2, <5>3
        <4> QED BY <1>4, <2>1, <3>1, <3>3, <4>1 DEF Here, Recent
      <3>8. (Apart => Content(t))'
        <4> SUFFICES ASSUME Apart PROVE Content(t)'
          BY <1>4, ApartFixed
        <4>1. j # k
          BY <2>3, <3>2 DEF Apart, RawKey, k
        <4>2. pc[t] = "normalized" => rawCache'[j].value = rawCache[j].value
          BY <1>7, <3>4, <4>1, Labels
        <4> QED BY <2>1, <3>1, <3>2, <3>3, <4>2 DEF Here, Content
      <3> QED BY <3>5, <3>6, <3>7, <3>8 DEF Here
    <2> QED BY <2>2, <2>3
  <1>13. InFlight'
    BY <1>1, <1>4, <1>10, InFlightKept
  <1>14. Files'
    <2>1. \A c : FetchedIn(c)' = FetchedIn(c)
      BY <1>4 DEF FetchedIn
    <2>2. RawFetched'
      <3> SUFFICES ASSUME NEW j \in RawKeys, rawCache'[j].value # None
                   PROVE  rawCache'[j].value \in fetched[j]
        BY <1>4 DEF RawFetched
      <3>1. CASE j = k
        BY <1>5, <1>7, <3>1
      <3>2. CASE j # k
        BY <1>7, <3>2 DEF SInv, Files, RawFetched
      <3> QED BY <3>1, <3>2
    <2>3. NormFetched' /\ ScoredFetched'
      BY <1>4, <2>1 DEF SInv, Files, NormFetched, ScoredFetched
    <2>4. (Apart => NormKeyed /\ ScoredKeyed)'
      BY <1>4, ApartFixed DEF SInv, Files, NormKeyed, ScoredKeyed
    <2> QED BY <2>2, <2>3, <2>4 DEF Files
  <1> QED BY <1>11, <1>12, <1>13, <1>14 DEF SInv

\* A file gets older; nobody's locals change, and no file's content.
LEMMA ExpireKeeps == ASSUME SInv, Expire PROVE SInv'
  <1>1. UNCHANGED <<normCache, scoredCache, scopeOf, input, useCache, pc, attrs, data, raw,
                    products, ranking, fetched, since>>
    BY DEF Expire, arguments, locals, history
  <1>2. CASE \E k \in AttributesKeys :
                /\ attrsCache' = [attrsCache EXCEPT ![k].fresh = FALSE]
                /\ UNCHANGED rawCache
    <2>0. PICK k \in AttributesKeys :
              attrsCache' = [attrsCache EXCEPT ![k].fresh = FALSE]
      BY <1>2
    <2>1. attrsCache' \in [AttributesKeys -> Entries(Attributes)]
      BY <2>0 DEF SInv, TypeOK, Entries
    <2>2. TypeOK'
      BY <1>1, <1>2, <2>1 DEF SInv, TypeOK
    <2>3. ASSUME NEW s \in Searches PROVE Here(s)'
      <3>1. Here(s) /\ OthersKept(s)
        BY <1>1 DEF SInv, OthersKept
      <3>2. Asked(s)' = Asked(s) /\ RawKey(s)' = RawKey(s)
            /\ FetchedIn(scopeOf[s])' = FetchedIn(scopeOf[s])
        BY <1>1 DEF Asked, RawKey, FetchedIn
      <3>3. Placed(s)'
        BY <1>1, <1>2, <3>1, <3>2 DEF Here, Placed
      <3>4. Scoped(s)'
        BY <1>1, <1>2, <3>1, <3>2 DEF Here, Scoped
      <3>5. Recent(s)'
        BY <1>1, <1>2, <3>1, <3>2 DEF Here, Recent
      <3>6. (Apart => Content(s))'
        BY <1>1, <1>2, <3>1, <3>2, ApartFixed DEF Here, Content
      <3> QED BY <3>3, <3>4, <3>5, <3>6 DEF Here
    <2>4. InFlight'
      BY <1>1 DEF SInv, InFlight, Active, Asked
    <2> QED BY <1>1, <1>2, <2>2, <2>3, <2>4, FilesKept DEF SInv
  <1>3. CASE \E k \in RawKeys :
                /\ rawCache' = [rawCache EXCEPT ![k].fresh = FALSE]
                /\ UNCHANGED attrsCache
    <2>1. PICK k \in RawKeys : rawCache' = [rawCache EXCEPT ![k].fresh = FALSE]
                               /\ UNCHANGED attrsCache
      BY <1>3
    <2>2. rawCache' \in [RawKeys -> Entries(Responses)]
      BY <2>1 DEF SInv, TypeOK, Entries
    <2>3. \A j \in RawKeys : rawCache'[j].value = rawCache[j].value
      BY <2>1 DEF SInv, TypeOK, Entries
    <2>4. TypeOK'
      BY <1>1, <2>1, <2>2 DEF SInv, TypeOK
    <2>5. ASSUME NEW s \in Searches PROVE Here(s)'
      <3>1. Here(s) /\ Placed(s)
        BY DEF SInv, Here
      <3>2. Asked(s)' = Asked(s) /\ RawKey(s)' = RawKey(s)
            /\ FetchedIn(scopeOf[s])' = FetchedIn(scopeOf[s])
        BY <1>1 DEF Asked, RawKey, FetchedIn
      <3>3. pc[s] \in AfterQuery =>
                rawCache'[RawKey(s)].value = rawCache[RawKey(s)].value
        BY <2>3, <3>1, KeyIsAsked DEF SInv
      <3>4. Placed(s)'
        BY <1>1, <3>1, <3>2, <3>3, Labels DEF Placed
      <3>5. Scoped(s)'
        BY <1>1, <3>1, <3>2 DEF Here, Scoped
      <3>6. Recent(s)'
        BY <1>1, <3>1, <3>2, <3>3, Labels DEF Here, Recent
      <3>7. (Apart => Content(s))'
        BY <1>1, <3>1, <3>2, <3>3, ApartFixed, Labels DEF Here, Content
      <3> QED BY <3>4, <3>5, <3>6, <3>7 DEF Here
    <2>6. Files'
      <3>1. \A c : FetchedIn(c)' = FetchedIn(c)
        BY <1>1 DEF FetchedIn
      <3>2. RawFetched'
        BY <1>1, <2>3 DEF SInv, Files, RawFetched
      <3>3. NormFetched' /\ ScoredFetched'
        BY <1>1, <3>1 DEF SInv, Files, NormFetched, ScoredFetched
      <3>4. (Apart => NormKeyed /\ ScoredKeyed)'
        BY <1>1, ApartFixed DEF SInv, Files, NormKeyed, ScoredKeyed
      <3> QED BY <3>2, <3>3, <3>4 DEF Files
    <2>7. InFlight'
      BY <1>1 DEF SInv, InFlight, Active, Asked
    <2> QED BY <2>4, <2>5, <2>6, <2>7 DEF SInv
  <1> QED BY <1>2, <1>3 DEF Expire

\* A step that changes nothing.
LEMMA StutterKeeps == ASSUME SInv, UNCHANGED vars PROVE SInv'
  <1>1. UNCHANGED <<attrsCache, rawCache, normCache, scoredCache, scopeOf, input,
                    useCache, pc, attrs, data, raw, products, ranking, fetched,
                    since>>
    BY DEF vars, caches, arguments, locals, history
  <1>2. TypeOK'
    BY <1>1 DEF SInv, TypeOK
  <1>3. ASSUME NEW s \in Searches PROVE Here(s)'
    <2>1. Asked(s)' = Asked(s) /\ RawKey(s)' = RawKey(s)
          /\ FetchedIn(scopeOf[s])' = FetchedIn(scopeOf[s])
      BY <1>1 DEF Asked, RawKey, FetchedIn
    <2>2. Placed(s)' /\ Scoped(s)'
      BY <1>1, <2>1 DEF SInv, Here, Placed, Scoped
    <2>3. Recent(s)'
      BY <1>1, <2>1 DEF SInv, Here, Recent
    <2>4. (Apart => Content(s))'
      BY <1>1, <2>1, ApartFixed DEF SInv, Here, Content
    <2> QED BY <2>2, <2>3, <2>4 DEF Here
  <1>4. InFlight'
    BY <1>1 DEF SInv, InFlight, Active, Asked
  <1> QED BY <1>1, <1>2, <1>3, <1>4, FilesKept DEF SInv

\* Every step of every search keeps the invariant.
LEMMA NextKeeps == SInv /\ [Next]_vars => SInv'
  <1> SUFFICES ASSUME SInv, [Next]_vars PROVE SInv'
    OBVIOUS
  <1>1. ASSUME NEW s \in Searches, NEW i \in Inputs, NEW uc \in BOOLEAN,
               Start(s, i, uc)
        PROVE  SInv'
    BY <1>1, StartKeeps
  <1>2. ASSUME NEW s \in Searches, Step(s) PROVE SInv'
    BY <1>2, LoadAttributesKeeps, ExtractAttributesKeeps, SelectQueryKeeps,
       LoadRawKeeps, OutscraperAnswersKeeps, WriteRawKeeps, ReadBackKeeps,
       LoadNormalizedKeeps, NormalizeReadKeeps, NormalizeWriteKeeps,
       LoadScoredKeeps, ScoringKeeps
    DEF Step
  <1>3. ASSUME NEW s \in Searches, Fail(s) PROVE SInv'
    BY <1>3, QuitKeeps DEF Fail
  <1>4. CASE Expire
    BY <1>4, ExpireKeeps
  <1>5. CASE UNCHANGED vars
    BY <1>5, StutterKeeps
  <1> QED BY <1>1, <1>2, <1>3, <1>4, <1>5 DEF Next

(***************************************************************************)
(* Theorems.                                                               *)
(***************************************************************************)

\* The invariant holds in every state of every interleaving of the searches.
THEOREM Inductive == Spec => []SInv
  BY InitHolds, NextKeeps, PTL DEF Spec

\* Every cache file and local of run_product_search keeps its type; in
\* particular normalize never finds its raw file gone.
THEOREM TypeCorrect == Spec => []TypeOK
  <1>1. SInv => TypeOK
    BY DEF SInv
  <1> QED BY <1>1, Inductive, PTL

\* However many searches of however many scopes run on the same CACHE_DIR, a
\* search works on a response fetched for its query in its scope, and shows
\* products and a ranking made from responses of its scope.
THEOREM Separated == Spec => []ScopesApart
  <1>1. SInv => ScopesApart
    BY Labels DEF SInv, Here, Placed, Scoped, ScopesApart
  <1> QED BY <1>1, Inductive, PTL

\* A search with --no-cache ranks a response that Outscraper gave after the
\* search had started, or had given to another search of its scope that had not
\* yet written it: never one that was in the cache when the search started, also
\* when others replaced its raw file.
THEOREM StartsAgain == Spec => []NoCacheStartsAgain
  <1>1. SInv => NoCacheStartsAgain
    BY DEF SInv, Here, Recent, NoCacheStartsAgain
  <1> QED BY <1>1, Inductive, PTL

\* When no two searches share a scope, the caches without TTL hold under a key
\* what was computed from the content the key was made from, although normalize
\* reads the raw file a second time.
THEOREM ContentKeyed == Spec => []KeyedByContentApart
  <1>1. ASSUME SInv PROVE KeyedByContentApart
    <2> SUFFICES ASSUME Apart PROVE KeyedByContent
      BY DEF KeyedByContentApart, Apart
    <2>1. \A k \in NormalizedKeys : normCache[k] \in {None, Normalized(k[2])}
      BY <1>1 DEF SInv, Files, NormKeyed, NormalizedKeys
    <2>2. \A k \in ScoredKeys :
              scoredCache[k] \in {None, Scored(k[1], Normalized(k[2][2]))}
      <3> TAKE k \in ScoredKeys
      <3>1. PICK a \in Attributes, c \in Scopes, r \in Responses : k = <<a, <<c, r>>>>
        BY DEF ScoredKeys, NormalizedKeys
      <3>2. scoredCache[<<a, <<c, r>>>>] \in {None, Scored(a, Normalized(r))}
        BY <1>1 DEF SInv, Files, ScoredKeyed
      <3> QED BY <3>1, <3>2
    <2>3. \A s \in Searches :
              pc[s] = "done" => ranking[s] = Scored(attrs[s], Normalized(raw[s]))
      BY <1>1 DEF SInv, Here, Content
    <2> QED BY <2>1, <2>2, <2>3 DEF KeyedByContent
  <1> QED BY <1>1, Inductive, PTL

(***************************************************************************)
(* One cache file, as JsonEditor replaces and reads it.  SearchPipeline    *)
(* takes each file of the caches as a cell that holds nothing or a whole   *)
(* value; what follows says that write_json and read_json make it one.     *)
(***************************************************************************)

\* The file is never partial, a temporary file that is about to replace it is
\* whole, and who has seen a document has seen it in the file.
FileInv ==
    /\ FileTypeOK
    /\ file # Partial
    /\ \A w \in Writers : writing[w] = "dumped" => temp[w] = document[w]
    /\ ReadersSeeWhole

\* Every step of a writer or a reader keeps it.
LEMMA FileStep ==
    ASSUME FileInv, [FileNext]_fileVars
    PROVE  FileInv'
  <1> USE DEF FileTypeOK, Contents, WriterAt
  <1>1. ASSUME NEW w \in Writers, NEW d \in Documents, OpenTemp(w, d)
        PROVE  FileInv'
    BY <1>1 DEF FileInv, OpenTemp, ReadersSeeWhole
  <1>2. ASSUME NEW w \in Writers, Dump(w) PROVE FileInv'
    BY <1>2 DEF FileInv, Dump, ReadersSeeWhole
  <1>3. ASSUME NEW w \in Writers, Replace(w) PROVE FileInv'
    <2>1. file' = document[w] /\ document[w] \in Documents
      BY <1>3 DEF FileInv, Replace
    <2>2. file' # Partial /\ file' # Absent
      BY <2>1, ContentsAssumption
    <2> QED BY <1>3, <2>1, <2>2 DEF FileInv, Replace, ReadersSeeWhole
  <1>4. ASSUME NEW w \in Writers, Raise(w) PROVE FileInv'
    BY <1>4 DEF FileInv, Raise, ReadersSeeWhole
  <1>5. ASSUME NEW w \in Writers, Finally(w) PROVE FileInv'
    BY <1>5 DEF FileInv, Finally, ReadersSeeWhole
  <1>6. ASSUME NEW w \in Writers, Kill(w) PROVE FileInv'
    BY <1>6 DEF FileInv, Kill, ReadersSeeWhole
  <1>7. ASSUME NEW r \in Readers, Read(r) PROVE FileInv'
    BY <1>7 DEF FileInv, Read, ReadersSeeWhole
  <1>8. CASE UNCHANGED fileVars
    BY <1>8 DEF FileInv, fileVars, ReadersSeeWhole
  <1> QED
    BY <1>1, <1>2, <1>3, <1>4, <1>5, <1>6, <1>7, <1>8 DEF FileNext

\* JSON is replaced atomically: with any number of writers that race, raise and
\* die, a reader of the file gets no file or a whole document, and no less than
\* was there before (write_json, read_json).
THEOREM WholeFiles == FileSpec => []ReadersSeeWhole
  <1>1. FileInit => FileInv
    BY ContentsAssumption
    DEF FileInit, FileInv, FileTypeOK, Contents, ReadersSeeWhole
  <1>2. FileInv /\ [FileNext]_fileVars => FileInv'
    BY FileStep
  <1>3. FileInv => ReadersSeeWhole
    BY DEF FileInv
  <1> QED BY <1>1, <1>2, <1>3, PTL DEF FileSpec
=============================================================================
