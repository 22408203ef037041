--------------------------- MODULE CatalogProofs ---------------------------
(***************************************************************************)
(* Theorems about Catalog for every number of events, filters, searches    *)
(* and requests, every ttl and every delay of a SELECT.                    *)
(***************************************************************************)
EXTENDS Catalog, TLAPS

USE ConstantsAssumption

(* An entry that escaped the races shows the catalogue, and no request is  *)
(* about to change it; so does a search that no commit overtook.           *)
CleanIsCurrent ==
    /\ \A s \in Searches \ overtaken :
        search[s] # Idle => search[s].rows = Catalogue(search[s].filter)
    /\ \A k \in Filters \ excused :
        Fresh(cache[k]) =>
            /\ cache[k].rows = Catalogue(k)
            /\ \A w \in Writers \ Silent : writer[w] # "commit"

(* A reply answers a filter.                                               *)
ReplyAsks == reply # Idle => reply.filter \in Filters

IInv == TypeOK /\ RepliesAreRecent /\ ReplyAsks /\ AgesBoundStaleness /\ CleanIsCurrent

-----------------------------------------------------------------------------
(* Types *)

(* The blank values are well typed.                                        *)
LEMMA BlankType ==
    /\ Idle \in Search /\ Idle.age = 0 /\ Idle.filter = NoFilter
    /\ NoEntry \in Entry /\ ~ Fresh(NoEntry)
    /\ Cleared \in [Filters -> Entry]
  BY DEF Idle, Search, NoEntry, Entry, Fresh, Cleared, Rows

(* The catalogue is a set of rows, also after a change.                    *)
LEMMA CatalogueType ==
    ASSUME NEW f \in Filters, NEW p \in Rows PROVE Matches[f] \cap p \in Rows
  BY DEF Rows

(* Storing an entry keeps the types and touches no other key except to     *)
(* clear it.                                                               *)
LEMMA SetType ==
    ASSUME TypeOK, NEW k \in Filters, NEW rows \in Rows, Set(k, rows)
    PROVE  /\ cache' \in [Filters -> Entry]
           /\ cache'[k] = [rows |-> rows, age |-> 0]
           /\ \A j \in Filters \ {k} : cache'[j] = cache[j] \/ cache'[j] = NoEntry
<1>1. [rows |-> rows, age |-> 0] \in Entry
  BY DEF Entry
<1>2. \/ cache' = [cache EXCEPT ![k] = [rows |-> rows, age |-> 0]]
      \/ cache' = [Cleared EXCEPT ![k] = [rows |-> rows, age |-> 0]]
  BY DEF Set
<1> QED
  BY <1>1, <1>2, BlankType DEF TypeOK, Cleared

-----------------------------------------------------------------------------
(* One lemma per kind of step.  Open(s) below is search[s] # Idle; in every*)
(* reachable state an open search names a filter.                          *)

Asks == \A s \in Searches : search[s] # Idle => search[s].filter \in Filters

(* A reply from the cache is as old as its entry.                          *)
LEMMA HitKeeps ==
    ASSUME IInv, Asks, NEW s \in Searches, NEW f \in Filters, Hit(s, f)
    PROVE  IInv' /\ Asks'
<1>1. /\ UNCHANGED <<published, cache, search, writer, falseFor, overtaken, excused>>
      /\ reply' = [filter |-> f, rows |-> cache[f].rows, age |-> 0]
      /\ Fresh(cache[f])
  BY DEF Hit, races, Answer, CacheKey
<1>2. cache[f] \in Entry
  BY DEF IInv, TypeOK
<1>3. reply' \in [filter : Filters \cup {NoFilter}, rows : Rows, age : {0}]
  BY <1>1, <1>2 DEF Entry
<1>4. TypeOK'
  BY <1>1, <1>3 DEF IInv, TypeOK
<1>5. falseFor[f][cache[f].rows] <= cache[f].age + Delay
  BY <1>1 DEF IInv, AgesBoundStaleness
<1>6. falseFor[f][cache[f].rows] \in Int
  BY <1>2 DEF IInv, TypeOK, Entry
<1>7. RepliesAreRecent'
  BY <1>1, <1>2, <1>5, <1>6 DEF RepliesAreRecent, Fresh, Entry
<1>8. AgesBoundStaleness' /\ CleanIsCurrent' /\ Asks'
  BY <1>1 DEF IInv, AgesBoundStaleness, CleanIsCurrent, Catalogue, Fresh, Asks
<1> QED
  BY <1>1, <1>4, <1>7, <1>8 DEF IInv, ReplyAsks

(* What a SELECT returns is the catalogue of that moment.                  *)
LEMMA SelectKeeps ==
    ASSUME IInv, Asks, NEW s \in Searches, NEW f \in Filters, Select(s, f)
    PROVE  IInv' /\ Asks'
<1> DEFINE new == [filter |-> f, rows |-> Catalogue(f), age |-> 0]
<1>1. /\ UNCHANGED <<published, writer, reply, falseFor, excused>>
      /\ cache' = [cache EXCEPT ![f] = NoEntry]
      /\ search' = [search EXCEPT ![s] = new]
      /\ overtaken' = overtaken \ {s}
  BY DEF Select, CacheKey
<1>2. Catalogue(f) \in Rows
  BY CatalogueType DEF Catalogue, IInv, TypeOK
<1>3. new \in Search
  BY <1>2 DEF Search
<1>4. TypeOK'
  BY <1>1, <1>3, BlankType DEF IInv, TypeOK
<1>5. RepliesAreRecent'
  BY <1>1 DEF IInv, RepliesAreRecent
<1>6. \A k \in Filters : cache'[k] = cache[k] \/ ~ Fresh(cache'[k])
  BY <1>1, BlankType DEF IInv, TypeOK
<1>7. /\ search'[s] = new
      /\ \A r \in Searches \ {s} : search'[r] = search[r]
  BY <1>1 DEF IInv, TypeOK
<1>8. AgesBoundStaleness'
  <2>1. \A r \in Searches :
          search'[r] # Idle => falseFor[search'[r].filter][search'[r].rows] <= search'[r].age
    BY <1>7 DEF IInv, AgesBoundStaleness
  <2>2. \A k \in Filters :
          Fresh(cache'[k]) => falseFor[k][cache'[k].rows] <= cache'[k].age + Delay
    BY <1>6 DEF IInv, AgesBoundStaleness
  <2> QED
    BY <1>1, <2>1, <2>2 DEF IInv, AgesBoundStaleness, Catalogue, Fresh
<1>9. CleanIsCurrent'
  <2>1. \A r \in Searches \ overtaken' :
          search'[r] # Idle => search'[r].rows = Catalogue(search'[r].filter)
    BY <1>1, <1>7 DEF IInv, CleanIsCurrent
  <2>2. \A k \in Filters \ excused :
          Fresh(cache'[k]) =>
            /\ cache'[k].rows = Catalogue(k)
            /\ \A w \in Writers \ Silent : writer[w] # "commit"
    BY <1>6 DEF IInv, CleanIsCurrent
  <2> QED
    BY <1>1, <2>1, <2>2 DEF CleanIsCurrent, Catalogue, Fresh
<1>10. Asks'
  BY <1>7 DEF Asks
<1> QED
  BY <1>1, <1>4, <1>5, <1>8, <1>9, <1>10 DEF IInv, ReplyAsks

(* The rows stored are as old as their search; they are clean only if no   *)
(* commit overtook it and none is pending.                                 *)
LEMMA FillKeeps ==
    ASSUME IInv, Asks, NEW s \in Searches, Fill(s)
    PROVE  IInv' /\ Asks'
<1> DEFINE f == search[s].filter
           new == [rows |-> search[s].rows, age |-> 0]
<1>0. /\ f \in Filters /\ search[s] # Idle /\ search[s] \in Search
      /\ search[s].rows \in Rows /\ search[s].age \in 0 .. Delay
  BY DEF Fill, Asks, IInv, TypeOK, Search
<1>1. /\ UNCHANGED <<published, writer, falseFor, overtaken>>
      /\ Set(f, search[s].rows)
      /\ reply' = [filter |-> f, rows |-> search[s].rows, age |-> 0]
      /\ search' = [search EXCEPT ![s] = Idle]
      /\ excused' = IF s \in overtaken \/ \E w \in Writers : writer[w] = "commit"
                    THEN excused \cup {f} ELSE excused \ {f}
  BY DEF Fill, CacheKey, Answer
<1>2. /\ cache' \in [Filters -> Entry]
      /\ cache'[f] = new
      /\ \A j \in Filters \ {f} : cache'[j] = cache[j] \/ ~ Fresh(cache'[j])
  BY <1>0, <1>1, SetType, BlankType DEF IInv
<1>3. TypeOK'
  <2>1. reply' \in [filter : Filters \cup {NoFilter}, rows : Rows, age : {0}]
    BY <1>0, <1>1
  <2> QED
    BY <1>0, <1>1, <1>2, <2>1, BlankType DEF IInv, TypeOK
<1>4. falseFor[f][search[s].rows] <= search[s].age
  BY <1>0 DEF IInv, AgesBoundStaleness
<1>5. falseFor[f][search[s].rows] \in Int
  BY <1>0 DEF IInv, TypeOK
<1>6. RepliesAreRecent'
  BY <1>0, <1>1, <1>4, <1>5 DEF RepliesAreRecent
<1>7. \A r \in Searches : search'[r] = Idle \/ (r # s /\ search'[r] = search[r])
  BY <1>1 DEF IInv, TypeOK
<1>8. AgesBoundStaleness'
  <2>1. \A r \in Searches :
          search'[r] # Idle => falseFor[search'[r].filter][search'[r].rows] <= search'[r].age
    BY <1>7 DEF IInv, AgesBoundStaleness
  <2>2. falseFor[f][new.rows] <= new.age + Delay
    BY <1>0, <1>4, <1>5
  <2>3. \A k \in Filters :
          Fresh(cache'[k]) => falseFor[k][cache'[k].rows] <= cache'[k].age + Delay
    BY <1>2, <2>2 DEF IInv, AgesBoundStaleness
  <2> QED
    BY <1>1, <2>1, <2>3 DEF IInv, AgesBoundStaleness, Catalogue, Fresh
<1>9. CleanIsCurrent'
  <2>1. \A r \in Searches \ overtaken :
          search'[r] # Idle => search'[r].rows = Catalogue(search'[r].filter)
    BY <1>7 DEF IInv, CleanIsCurrent
  <2>2. ASSUME NEW k \in Filters \ excused', Fresh(cache'[k])
        PROVE  /\ cache'[k].rows = Catalogue(k)
               /\ \A w \in Writers \ Silent : writer[w] # "commit"
    <3>1. CASE k = f
      BY <1>0, <1>1, <1>2, <2>2, <3>1 DEF IInv, CleanIsCurrent
    <3>2. CASE k # f
      BY <1>1, <1>2, <2>2, <3>2 DEF IInv, CleanIsCurrent
    <3> QED
      BY <3>1, <3>2
  <2> QED
    BY <1>1, <2>1, <2>2 DEF CleanIsCurrent, Catalogue, Fresh
<1>10. Asks'
  BY <1>7 DEF Asks
<1> QED
  BY <1>0, <1>1, <1>3, <1>6, <1>8, <1>9, <1>10 DEF IInv, ReplyAsks

(* A search that gives up leaves nothing behind.                           *)
LEMMA GiveUpKeeps ==
    ASSUME IInv, Asks, NEW s \in Searches, GiveUp(s)
    PROVE  IInv' /\ Asks'
<1>1. /\ UNCHANGED <<published, cache, writer, reply, falseFor, overtaken, excused>>
      /\ search' = [search EXCEPT ![s] = Idle]
  BY DEF GiveUp, races
<1>2. TypeOK'
  BY <1>1, BlankType DEF IInv, TypeOK
<1>3. \A r \in Searches : search'[r] = Idle \/ search'[r] = search[r]
  BY <1>1 DEF IInv, TypeOK
<1>4. RepliesAreRecent' /\ AgesBoundStaleness' /\ CleanIsCurrent' /\ Asks'
  BY <1>1, <1>3
  DEF IInv, RepliesAreRecent, AgesBoundStaleness, CleanIsCurrent, Catalogue, Fresh, Asks
<1> QED
  BY <1>1, <1>2, <1>4 DEF IInv, ReplyAsks

(* A request that invalidates leaves no entry for its change to belie.     *)
LEMMA InvalidateKeeps ==
    ASSUME IInv, Asks, NEW w \in Writers, Invalidate(w) \/ Rollback(w)
    PROVE  IInv' /\ Asks'
<1>1. /\ UNCHANGED <<published, search, reply, falseFor, overtaken, excused>>
      /\ \/ /\ w \in Silent /\ cache' = cache
            /\ writer' = [writer EXCEPT ![w] = "commit"]
         \/ cache' = Cleared /\ writer' = [writer EXCEPT ![w] = "commit"]
         \/ cache' = cache /\ writer' = [writer EXCEPT ![w] = "done"]
  BY DEF Invalidate, Rollback, races
<1>2. TypeOK'
  BY <1>1, BlankType DEF IInv, TypeOK
<1>3. \A k \in Filters : cache'[k] = cache[k] \/ ~ Fresh(cache'[k])
  BY <1>1, BlankType DEF Cleared
<1>4. RepliesAreRecent' /\ AgesBoundStaleness' /\ Asks'
  BY <1>1, <1>3
  DEF IInv, RepliesAreRecent, AgesBoundStaleness, Catalogue, Fresh, Asks
<1>5. ASSUME NEW k \in Filters, Fresh(cache'[k]), NEW v \in Writers \ Silent,
             writer[v] # "commit"
      PROVE  writer'[v] # "commit"
  <2>1. cache'[k] = cache[k] /\ cache' # Cleared
    BY <1>3, <1>5, BlankType DEF Cleared
  <2> QED
    BY <1>1, <1>5, <2>1 DEF IInv, TypeOK
<1>6. CleanIsCurrent'
  BY <1>1, <1>3, <1>5 DEF IInv, CleanIsCurrent, Catalogue, Fresh
<1> QED
  BY <1>1, <1>2, <1>4, <1>6 DEF IInv, ReplyAsks

(* A commit: what was the result until now was so 0 ticks ago, and the     *)
(* searches it overtakes, like the entries a silent request leaves behind, *)
(* are no longer vouched for.                                              *)
LEMMA CommitKeeps ==
    ASSUME IInv, Asks, NEW w \in Writers, Commit(w)
    PROVE  IInv' /\ Asks'
<1>1. /\ UNCHANGED <<cache, search, reply>>
      /\ writer[w] = "commit"
      /\ writer' = [writer EXCEPT ![w] = "done"]
      /\ falseFor' = [f \in Filters |->
                         [falseFor[f] EXCEPT ![Matches[f] \cap published'] = 0]]
      /\ overtaken' = Searches
      /\ excused' = IF w \in Silent THEN Filters ELSE excused
  BY DEF Commit
<1>2. published' \in Rows
  BY DEF Commit, IInv, TypeOK, Rows
<1>3. \A f \in Filters : Catalogue(f)' \in Rows /\ Catalogue(f)' = Matches[f] \cap published'
  BY <1>2, CatalogueType DEF Catalogue
<1>4. \A f \in Filters : falseFor[f] \in [Rows -> 0 .. Ttl + Delay + 1]
  BY DEF IInv, TypeOK
<1>5. \A f \in Filters :
        /\ falseFor'[f] \in [Rows -> 0 .. Ttl + Delay + 1]
        /\ falseFor'[f][Catalogue(f)'] = 0
        /\ \A rows \in Rows : falseFor'[f][rows] <= falseFor[f][rows]
  <2> SUFFICES ASSUME NEW f \in Filters
               PROVE  /\ falseFor'[f] \in [Rows -> 0 .. Ttl + Delay + 1]
                      /\ falseFor'[f][Catalogue(f)'] = 0
                      /\ \A rows \in Rows : falseFor'[f][rows] <= falseFor[f][rows]
    OBVIOUS
  <2>1. falseFor'[f] = [falseFor[f] EXCEPT ![Catalogue(f)'] = 0]
    BY <1>1, <1>3
  <2> QED
    BY <2>1, <1>3, <1>4
<1>6. TypeOK'
  <2>1. falseFor' \in [Filters -> [Rows -> 0 .. Ttl + Delay + 1]]
    BY <1>1, <1>5
  <2> QED
    BY <1>1, <1>2, <2>1 DEF IInv, TypeOK
<1>7. RepliesAreRecent'
  <2>1. ASSUME reply # Idle PROVE falseFor'[reply.filter][reply.rows] <= Ttl + Delay
    <3>1. reply.rows \in Rows /\ falseFor[reply.filter][reply.rows] <= Ttl + Delay
      BY <2>1 DEF IInv, TypeOK, RepliesAreRecent
    <3>2. CASE reply.filter \in Filters
      BY <1>4, <1>5, <3>1, <3>2
    <3>3. CASE reply.filter \notin Filters
      BY <2>1, <3>3 DEF IInv, ReplyAsks
    <3> QED
      BY <3>2, <3>3
  <2> QED
    BY <1>1, <2>1 DEF RepliesAreRecent
<1>8. AgesBoundStaleness'
  <2>1. ASSUME NEW s \in Searches, search[s] # Idle
        PROVE  falseFor'[search[s].filter][search[s].rows] <= search[s].age
    <3>1. /\ search[s].filter \in Filters /\ search[s].rows \in Rows
          /\ search[s].age \in Int
          /\ falseFor[search[s].filter][search[s].rows] <= search[s].age
      BY <2>1 DEF IInv, TypeOK, Search, Asks, AgesBoundStaleness
    <3> QED
      BY <1>4, <1>5, <3>1
  <2>2. ASSUME NEW k \in Filters, Fresh(cache[k])
        PROVE  falseFor'[k][cache[k].rows] <= cache[k].age + Delay
    <3>1. /\ cache[k].rows \in Rows /\ cache[k].age \in Int
          /\ falseFor[k][cache[k].rows] <= cache[k].age + Delay
      BY <2>2 DEF IInv, TypeOK, Entry, AgesBoundStaleness
    <3> QED
      BY <1>4, <1>5, <3>1
  <2> QED
    BY <1>1, <1>5, <2>1, <2>2 DEF AgesBoundStaleness, Fresh
<1>9. CleanIsCurrent'
  <2>1. \A k \in Filters \ excused' : ~ Fresh(cache[k])
    BY <1>1 DEF IInv, CleanIsCurrent
  <2> QED
    BY <1>1, <2>1 DEF CleanIsCurrent, Fresh
<1>10. Asks' /\ ReplyAsks'
  BY <1>1 DEF IInv, Asks, ReplyAsks
<1> QED
  BY <1>6, <1>7, <1>8, <1>9, <1>10 DEF IInv

(* A tick: everything ages together, and the staleness of rows never       *)
(* outruns the age of what holds them.                                     *)
LEMMA TickKeeps ==
    ASSUME IInv, Asks, Tick
    PROVE  IInv' /\ Asks'
<1>1. /\ UNCHANGED <<published, writer, overtaken, excused>>
      /\ reply' = Idle
      /\ \A s \in Searches : search[s] # Idle => search[s].age < Delay
      /\ cache' = [k \in Filters |-> IF cache[k] = NoEntry THEN NoEntry
                                   ELSE [cache[k] EXCEPT !.age = Older(@, Ttl + 1)]]
      /\ search' = [s \in Searches |->
                    IF search[s] = Idle THEN Idle
                    ELSE [search[s] EXCEPT !.age = Older(@, Delay)]]
      /\ falseFor' = [f \in Filters |-> [rows \in Rows |->
                      IF rows = Catalogue(f) THEN 0
                      ELSE Older(falseFor[f][rows], Ttl + Delay + 1)]]
  BY DEF Tick, races
<1>2. \A f \in Filters, rows \in Rows :
        /\ falseFor[f][rows] \in 0 .. Ttl + Delay + 1
        /\ falseFor'[f][rows] \in 0 .. Ttl + Delay + 1
        /\ falseFor'[f][rows] <= falseFor[f][rows] + 1
        /\ rows = Catalogue(f) => falseFor'[f][rows] = 0
  BY <1>1 DEF IInv, TypeOK, Older
<1>3. \A s \in Searches :
        /\ search'[s] \in Search
        /\ search[s] = Idle => search'[s] = Idle
        /\ search[s] # Idle =>
             /\ search'[s].filter = search[s].filter
             /\ search'[s].rows = search[s].rows
             /\ search'[s].age = search[s].age + 1
  <2> SUFFICES ASSUME NEW s \in Searches, search[s] # Idle
               PROVE  /\ search'[s] \in Search
                      /\ search'[s].filter = search[s].filter
                      /\ search'[s].rows = search[s].rows
                      /\ search'[s].age = search[s].age + 1
    BY <1>1, BlankType
  <2>1. search[s] \in Search /\ search[s].age < Delay
    BY <1>1 DEF IInv, TypeOK
  <2>2. search'[s] = [search[s] EXCEPT !.age = search[s].age + 1]
    BY <1>1, <2>1 DEF Older
  <2> QED
    BY <2>1, <2>2 DEF Search
<1>4. \A k \in Filters :
        /\ cache'[k] \in Entry
        /\ Fresh(cache'[k]) =>
             /\ Fresh(cache[k])
             /\ cache'[k].rows = cache[k].rows
             /\ cache'[k].age = cache[k].age + 1
  <2> SUFFICES ASSUME NEW k \in Filters
               PROVE  /\ cache'[k] \in Entry
                      /\ Fresh(cache'[k]) =>
                           /\ Fresh(cache[k])
                           /\ cache'[k].rows = cache[k].rows
                           /\ cache'[k].age = cache[k].age + 1
    OBVIOUS
  <2>1. CASE cache[k] = NoEntry
    BY <1>1, <2>1, BlankType
  <2>2. CASE cache[k] # NoEntry
    <3>1. cache'[k] = [cache[k] EXCEPT !.age = Older(cache[k].age, Ttl + 1)]
      BY <1>1, <2>2
    <3>2. cache[k] \in Entry
      BY DEF IInv, TypeOK
    <3> QED
      BY <3>1, <3>2 DEF Entry, Fresh, Older
  <2> QED
    BY <2>1, <2>2
<1>5. TypeOK'
  <2>1. falseFor' \in [Filters -> [Rows -> 0 .. Ttl + Delay + 1]]
    <3>1. falseFor' = [f \in Filters |-> [rows \in Rows |-> falseFor'[f][rows]]]
      BY <1>1
    <3> QED
      BY <1>2, <3>1
  <2>2. cache' \in [Filters -> Entry] /\ search' \in [Searches -> Search]
    BY <1>1, <1>3, <1>4
  <2>3. reply' \in [filter : Filters \cup {NoFilter}, rows : Rows, age : {0}]
    BY <1>1 DEF Idle, Rows
  <2> QED
    BY <1>1, <2>1, <2>2, <2>3 DEF IInv, TypeOK
<1>6. RepliesAreRecent' /\ ReplyAsks'
  BY <1>1 DEF RepliesAreRecent, ReplyAsks
<1>7. AgesBoundStaleness'
  <2>1. ASSUME NEW s \in Searches, search'[s] # Idle
        PROVE  falseFor'[search'[s].filter][search'[s].rows] <= search'[s].age
    <3>1. search[s] # Idle /\ search[s].filter \in Filters
      BY <1>3, <2>1 DEF Asks
    <3>2. search[s].rows \in Rows /\ search[s].age \in Int
      BY DEF IInv, TypeOK, Search
    <3>3. falseFor[search[s].filter][search[s].rows] <= search[s].age
      BY <3>1 DEF IInv, AgesBoundStaleness
    <3> QED
      BY <1>2, <1>3, <3>1, <3>2, <3>3
  <2>2. ASSUME NEW k \in Filters, Fresh(cache'[k])
        PROVE  falseFor'[k][cache'[k].rows] <= cache'[k].age + Delay
    <3>1. cache[k].rows \in Rows /\ cache[k].age \in Int
      BY DEF IInv, TypeOK, Entry
    <3>2. falseFor[k][cache[k].rows] <= cache[k].age + Delay
      BY <1>4, <2>2 DEF IInv, AgesBoundStaleness
    <3> QED
      BY <1>2, <1>4, <2>2, <3>1, <3>2
  <2>3. \A f \in Filters : falseFor'[f][Catalogue(f)] = 0
    BY <1>2, CatalogueType DEF IInv, TypeOK, Catalogue
  <2> QED
    BY <1>1, <2>1, <2>2, <2>3 DEF AgesBoundStaleness, Catalogue
<1>8. CleanIsCurrent'
  <2>1. \A s \in Searches \ overtaken :
          search'[s] # Idle => search'[s].rows = Catalogue(search'[s].filter)
    BY <1>3 DEF IInv, CleanIsCurrent
  <2>2. \A k \in Filters \ excused :
          Fresh(cache'[k]) =>
            /\ cache'[k].rows = Catalogue(k)
            /\ \A w \in Writers \ Silent : writer[w] # "commit"
    BY <1>4 DEF IInv, CleanIsCurrent
  <2> QED
    BY <1>1, <2>1, <2>2 DEF CleanIsCurrent, Catalogue
<1>9. Asks'
  BY <1>3 DEF Asks
<1> QED
  BY <1>5, <1>6, <1>7, <1>8, <1>9 DEF IInv

(* A restarted process has an empty cache and serves nobody.               *)
LEMMA RestartKeeps ==
    ASSUME IInv, Asks, Restart
    PROVE  IInv' /\ Asks'
<1>1. /\ UNCHANGED <<published, falseFor, overtaken, excused>>
      /\ cache' = Cleared
      /\ reply' = Idle
      /\ search' = [s \in Searches |-> Idle]
      /\ writer' = [w \in Writers |-> IF writer[w] = "commit" THEN "done" ELSE writer[w]]
  BY DEF Restart, races
<1>2. TypeOK'
  <2>1. reply' \in [filter : Filters \cup {NoFilter}, rows : Rows, age : {0}]
    BY <1>1 DEF Idle, Rows
  <2> QED
    BY <1>1, <2>1, BlankType DEF IInv, TypeOK
<1>3. \A k \in Filters : ~ Fresh(cache'[k])
  BY <1>1, BlankType DEF Cleared
<1>4. \A s \in Searches : search'[s] = Idle
  BY <1>1
<1>5. AgesBoundStaleness' /\ CleanIsCurrent' /\ Asks'
  BY <1>1, <1>3, <1>4
  DEF IInv, AgesBoundStaleness, CleanIsCurrent, Asks, Catalogue, Fresh
<1> QED
  BY <1>1, <1>2, <1>5 DEF IInv, RepliesAreRecent, ReplyAsks

-----------------------------------------------------------------------------
(* The theorems *)

LEMMA Invariance == Spec => [](IInv /\ Asks)
<1>1. Init => IInv /\ Asks
  <2> SUFFICES ASSUME Init PROVE IInv /\ Asks
    OBVIOUS
  <2>1. /\ published \in Rows /\ cache = Cleared /\ reply = Idle
        /\ search = [s \in Searches |-> Idle]
        /\ writer = [w \in Writers |-> "idle"]
        /\ falseFor = [f \in Filters |-> [rows \in Rows |->
                          IF rows = Catalogue(f) THEN 0 ELSE Ttl + Delay + 1]]
        /\ overtaken = {} /\ excused = {}
    BY DEF Init
  <2>2. \A k \in Filters : ~ Fresh(cache[k])
    BY <2>1, BlankType DEF Cleared
  <2>3. \A s \in Searches : search[s] = Idle
    BY <2>1
  <2>4. TypeOK
    <3>1. falseFor \in [Filters -> [Rows -> 0 .. Ttl + Delay + 1]]
      BY <2>1
    <3>2. reply \in [filter : Filters \cup {NoFilter}, rows : Rows, age : {0}]
      BY <2>1 DEF Idle, Rows
    <3> QED
      BY <2>1, <3>1, <3>2, BlankType DEF TypeOK
  <2>5. AgesBoundStaleness
    BY <2>1, <2>2, <2>3, CatalogueType DEF AgesBoundStaleness, Catalogue
  <2> QED
    BY <2>1, <2>2, <2>3, <2>4, <2>5
    DEF IInv, RepliesAreRecent, ReplyAsks, CleanIsCurrent, Asks
<1>2. IInv /\ Asks /\ [Next]_vars => (IInv /\ Asks)'
  <2> SUFFICES ASSUME IInv, Asks, [Next]_vars PROVE IInv' /\ Asks'
    OBVIOUS
  <2>1. ASSUME NEW s \in Searches, NEW f \in Filters, Hit(s, f) \/ Select(s, f)
        PROVE  IInv' /\ Asks'
    BY <2>1, HitKeeps, SelectKeeps
  <2>2. ASSUME NEW s \in Searches, Fill(s) \/ GiveUp(s)
        PROVE  IInv' /\ Asks'
    BY <2>2, FillKeeps, GiveUpKeeps
  <2>3. ASSUME NEW w \in Writers, Invalidate(w) \/ Commit(w) \/ Rollback(w)
        PROVE  IInv' /\ Asks'
    BY <2>3, InvalidateKeeps, CommitKeeps
  <2>4. CASE UNCHANGED vars
    BY <2>4
    DEF vars, races, IInv, TypeOK, RepliesAreRecent, ReplyAsks, AgesBoundStaleness,
        CleanIsCurrent, Catalogue, Fresh, Asks
  <2> QED
    BY <2>1, <2>2, <2>3, <2>4, TickKeeps, RestartKeeps DEF Next
<1> QED
  BY <1>1, <1>2, PTL DEF Spec

(* Every variable keeps its type.                                          *)
THEOREM TypeCorrect == Spec => []TypeOK
  BY Invariance, PTL DEF IInv

(* search_service: whatever the races between searches, invalidations and  *)
(* commits, a reply was the catalogue within the last Ttl + Delay.         *)
THEOREM RepliesStayRecent == Spec => []RepliesAreRecent
  BY Invariance, PTL DEF IInv

(* The rows of a search or of a fresh entry are as old as their age says.  *)
THEOREM AgesStayBounds == Spec => []AgesBoundStaleness
  BY Invariance, PTL DEF IInv

(* Only the two windows around a commit, and the requests that do not      *)
(* invalidate, leave a stale entry in the cache.                           *)
THEOREM StaleOnlyByRaces == Spec => []OnlyRacesAreStale
<1>1. IInv => OnlyRacesAreStale
  BY DEF IInv, CleanIsCurrent, OnlyRacesAreStale
<1> QED
  BY <1>1, Invariance, PTL
=============================================================================
