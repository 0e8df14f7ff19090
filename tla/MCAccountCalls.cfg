SPECIFICATION AccountSpec
CONSTANTS
    Callers = {c1, c2, c3}
    Users = {"ann"}
    Currencies = {"usd"}
    Limit = 2
    Readers = {r1, r2}
    NoEntry = NoEntry
    MaxVersion = 2
INVARIANT OverrunBounded
PROPERTY CacheConverges
