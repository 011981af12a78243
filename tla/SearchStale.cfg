SPECIFICATION Spec
CONSTANTS
    good = good
    bad = bad
    query = query
    Searches = {s1, s2}
    Scopes = {local}
    Inputs = {i1}
    Attributes = {good, bad}
    Queries = {query}
    QueryOf <- MCQueryOf
    NoQuery = NoQuery
    Responses = {r1, r2}
    None = None
INVARIANTS
    KeyedByContent
CHECK_DEADLOCK FALSE
