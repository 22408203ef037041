CONSTANTS
    e1 = e1
    e2 = e2
    all = all
    category = category
    s1 = s1
    s2 = s2
    v1 = v1
    v2 = v2
    v3 = v3
    Events = {e1, e2}
    Filters = {all, category}
    Matches <- Selected
    Searches = {s1, s2}
    Writers = {v1, v2}
    Silent = {v2}
    Ttl = 1
    MaxSize = 1
    Delay = 1
    NoFilter = NoFilter
SPECIFICATION FairSpec
INVARIANTS RepliesAreRecent OnlyRacesAreStale
PROPERTIES SearchesCatchUp
