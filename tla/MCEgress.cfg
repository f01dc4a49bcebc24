\* ProxyPool: two proxies and two URLs, one account, overlapping checks.
\* CookieJar: one account, a critical and an ordinary cookie, two overlapping writes.
SPECIFICATION EgressSpec
CONSTANTS
    Proxy = {p1, p2}
    Url = {u1, u2}
    Account = {a1}
    Keyword = {"direct", "auto"}
    MaxChecks = 1
    MaxRestarts = 1
    CookieAccount = {a1}
    CookieName = {cf, oai}
    CookieValue = {v1}
    Critical = {cf}
    Writer = {w1, w2}
    MaxTime = 1
    MaxStarts = 1
    ExpiryTime = {1}
INVARIANTS JarKept
PROPERTIES PoolKept
SYMMETRY Symmetry
CONSTRAINT Bounded
CHECK_DEADLOCK FALSE
