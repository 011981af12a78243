SPECIFICATION Spec
CONSTANTS
    good = good
    bad = bad
    query = query
    Searches = {s1, s2}
    Scopes = {local, other}
    Inputs = {i1}
    Attributes = {good, bad}
    Queries = {query}
    QueryOf <- MCQueryOf
    NoQuery = NoQuery
    Responses = {r1, r2}
    None = None
SYMMETRY Symmetry
INVARIANTS
    KeyedByContentApart
    ScopesApart
    NoCacheStartsAgain
CHECK_DEADLOCK FALSE
