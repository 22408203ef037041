------------------------------ MODULE Catalog ------------------------------
(***************************************************************************)
(* The catalogue of published events and its cache (SearchService,         *)
(* infrastructure/cache.py), against the requests that change events.      *)
(*                                                                         *)
(* The cache belongs to the API process.  A search that misses it SELECTs  *)
(* the catalogue and stores the rows when the coroutine resumes.  A request*)
(* that changes an event invalidates the cache in its handler, and commits *)
(* after the handler has returned.  Time is measured by ages, in ticks.    *)
(***************************************************************************)
EXTENDS Integers, FiniteSets

CONSTANTS
    Events,
    Filters,    (* what may be asked: filters, order, limit and offset     *)
    Matches,    (* the events each of them selects, when published         *)
    Searches,   (* search requests under way at one time                   *)
    Writers,    (* requests that change events; each is served once        *)
    Silent,     (* those that do not invalidate (submit, reject)           *)
    Ttl,        (* ttl_seconds                                             *)
    MaxSize,    (* max_size of the cache                                   *)
    Delay,      (* bound: ticks from a SELECT to the end of its search     *)
    NoFilter

ASSUME ConstantsAssumption ==
    /\ Matches \in [Filters -> SUBSET Events]
    /\ Silent \subseteq Writers
    /\ Ttl \in Nat
    /\ Delay \in Nat
    /\ MaxSize \in Nat \ {0}
    /\ NoFilter \notin Filters

VARIABLES
    published,  (* the events whose committed status is publicado          *)
    cache,      (* the entries of catalog_cache                            *)
    search,     (* the searches under way                                  *)
    writer,     (* the requests that change events                         *)
    reply,      (* the last reply of a search                              *)
    falseFor,   (* history: ticks since a set of rows was the result       *)
    overtaken,  (* history: searches during which a change was committed   *)
    excused     (* history: entries filled in a race with a change         *)

races == <<overtaken, excused>>
vars == <<published, cache, search, writer, reply, falseFor, races>>

Rows == SUBSET Events

(* search_catalog: only published events are in the catalogue (RN-03).     *)
Catalogue(f) == Matches[f] \cap published

-----------------------------------------------------------------------------
(* TTLCache *)

(* Ages end at Ttl + 1: expired, and still in the store.                   *)
NoEntry == [rows |-> {}, age |-> Ttl + 2]

Entry == [rows : Rows, age : 0 .. Ttl + 2]

(* Seeded fault: the expiry is not looked at.                              *)
FreshForever(entry) == entry.age <= Ttl + 1

Fresh(entry) == entry.age <= Ttl

(* Seeded fault: the key leaves out what is asked.                         *)
CacheKeyShared(f) == CHOOSE g \in Filters : TRUE

(* _cache_key: every filter, the order, the limit and the offset.          *)
CacheKey(f) == f

Cleared == [k \in Filters |-> NoEntry]

(* set: a full store, expired entries and all, is cleared first.           *)
Set(k, rows) ==
    LET full == Cardinality({j \in Filters : cache[j] # NoEntry}) >= MaxSize
    IN  cache' = [(IF full THEN Cleared ELSE cache) EXCEPT ![k] = [rows |-> rows, age |-> 0]]

-----------------------------------------------------------------------------
(* Searches *)

Idle == [filter |-> NoFilter, rows |-> {}, age |-> 0]

Search == [filter : Filters \cup {NoFilter}, rows : Rows, age : 0 .. Delay]

Init ==
    /\ published \in Rows
    /\ cache = Cleared
    /\ search = [s \in Searches |-> Idle]
    /\ writer = [w \in Writers |-> "idle"]
    /\ reply = Idle
    /\ falseFor = [f \in Filters |-> [rows \in Rows |->
                      IF rows = Catalogue(f) THEN 0 ELSE Ttl + Delay + 1]]
    /\ overtaken = {}
    /\ excused = {}

Answer(f, rows) == reply' = [filter |-> f, rows |-> rows, age |-> 0]

Hit(s, f) ==
    /\ search[s] = Idle
    /\ Fresh(cache[CacheKey(f)])
    /\ Answer(f, cache[CacheKey(f)].rows)
    /\ UNCHANGED <<published, cache, search, writer, falseFor, races>>

(* get drops an expired entry.  The SELECT sees what is committed.         *)
Select(s, f) ==
    /\ search[s] = Idle
    /\ ~ Fresh(cache[CacheKey(f)])
    /\ cache' = [cache EXCEPT ![CacheKey(f)] = NoEntry]
    /\ search' = [search EXCEPT ![s] = [filter |-> f, rows |-> Catalogue(f), age |-> 0]]
    /\ overtaken' = overtaken \ {s}
    /\ UNCHANGED <<published, writer, reply, falseFor, excused>>

Fill(s) ==
    /\ search[s] # Idle
    /\ Set(CacheKey(search[s].filter), search[s].rows)
    /\ Answer(search[s].filter, search[s].rows)
    /\ search' = [search EXCEPT ![s] = Idle]
    /\ excused' = IF s \in overtaken \/ \E w \in Writers : writer[w] = "commit"
                  THEN excused \cup {CacheKey(search[s].filter)}
                  ELSE excused \ {CacheKey(search[s].filter)}
    /\ UNCHANGED <<published, writer, falseFor, overtaken>>

(* The SELECT fails, or its client is gone.                                *)
GiveUp(s) ==
    /\ search[s] # Idle
    /\ search' = [search EXCEPT ![s] = Idle]
    /\ UNCHANGED <<published, cache, writer, reply, falseFor, races>>

-----------------------------------------------------------------------------
(* Requests that change events *)

(* Seeded fault: the handler does not invalidate.                          *)
InvalidateNothing(w) ==
    /\ writer[w] = "idle"
    /\ writer' = [writer EXCEPT ![w] = "commit"]
    /\ UNCHANGED <<published, cache, search, reply, falseFor, races>>

(* create, update, publish, approve and cancel end with invalidate().      *)
Invalidate(w) ==
    /\ writer[w] = "idle"
    /\ writer' = [writer EXCEPT ![w] = "commit"]
    /\ cache' = IF w \in Silent THEN cache ELSE Cleared
    /\ UNCHANGED <<published, search, reply, falseFor, races>>

(* The rows that were the result until now were so 0 ticks ago.            *)
Commit(w) ==
    /\ writer[w] = "commit"
    /\ writer' = [writer EXCEPT ![w] = "done"]
    /\ \E e \in Events :
        published' \in {published \cup {e}, published \ {e}}
    /\ falseFor' = [f \in Filters |->
                      [falseFor[f] EXCEPT ![Matches[f] \cap published'] = 0]]
    /\ overtaken' = Searches
    /\ excused' = IF w \in Silent THEN Filters ELSE excused
    /\ UNCHANGED <<cache, search, reply>>

Rollback(w) ==
    /\ writer[w] = "commit"
    /\ writer' = [writer EXCEPT ![w] = "done"]
    /\ UNCHANGED <<published, cache, search, reply, falseFor, races>>

-----------------------------------------------------------------------------
(* Time and restarts *)

Older(age, limit) == IF age < limit THEN age + 1 ELSE limit

Tick ==
    /\ \A s \in Searches : search[s] # Idle => search[s].age < Delay
    /\ cache' = [k \in Filters |-> IF cache[k] = NoEntry THEN NoEntry
                                   ELSE [cache[k] EXCEPT !.age = Older(@, Ttl + 1)]]
    /\ search' = [s \in Searches |->
                    IF search[s] = Idle THEN Idle
                    ELSE [search[s] EXCEPT !.age = Older(@, Delay)]]
    /\ falseFor' = [f \in Filters |-> [rows \in Rows |->
                      IF rows = Catalogue(f) THEN 0
                      ELSE Older(falseFor[f][rows], Ttl + Delay + 1)]]
    /\ reply' = Idle
    /\ UNCHANGED <<published, writer, races>>

(* The API process restarts: its cache is empty, its requests are lost.    *)
Restart ==
    /\ cache' = Cleared
    /\ search' = [s \in Searches |-> Idle]
    /\ writer' = [w \in Writers |-> IF writer[w] = "commit" THEN "done" ELSE writer[w]]
    /\ reply' = Idle
    /\ UNCHANGED <<published, falseFor, races>>

Next ==
    \/ \E s \in Searches, f \in Filters : Hit(s, f) \/ Select(s, f)
    \/ \E s \in Searches : Fill(s) \/ GiveUp(s)
    \/ \E w \in Writers : Invalidate(w) \/ Commit(w) \/ Rollback(w)
    \/ Tick
    \/ Restart

Spec == Init /\ [][Next]_vars

(* Time passes, and a SELECT ends.                                         *)
FairSpec == Spec /\ WF_vars(Tick) /\ \A s \in Searches : WF_vars(Fill(s) \/ GiveUp(s))

-----------------------------------------------------------------------------
(* Properties *)

TypeOK ==
    /\ published \in Rows
    /\ cache \in [Filters -> Entry]
    /\ search \in [Searches -> Search]
    /\ writer \in [Writers -> {"idle", "commit", "done"}]
    /\ reply \in [filter : Filters \cup {NoFilter}, rows : Rows, age : {0}]
    /\ falseFor \in [Filters -> [Rows -> 0 .. Ttl + Delay + 1]]
    /\ overtaken \subseteq Searches
    /\ excused \subseteq Filters

(* cache.py calls the catalogue eventually consistent, within a short TTL: *)
(* a reply is what its own filters selected at some moment of the last Ttl *)
(* and one SELECT, though the cache is invalidated before the commit and   *)
(* filled by searches that read before it.                                 *)
RepliesAreRecent ==
    reply # Idle => falseFor[reply.filter][reply.rows] <= Ttl + Delay

(* The argument: rows are as old as their SELECT allows.                   *)
AgesBoundStaleness ==
    /\ \A s \in Searches :
        search[s] # Idle => falseFor[search[s].filter][search[s].rows] <= search[s].age
    /\ \A k \in Filters :
        Fresh(cache[k]) => falseFor[k][cache[k].rows] <= cache[k].age + Delay
    /\ \A f \in Filters : falseFor[f][Catalogue(f)] = 0

(* What invalidating before the commit is worth: an entry that no longer   *)
(* shows the catalogue was filled between the invalidation and the commit, *)
(* or by a search that a commit overtook, or the request did not           *)
(* invalidate at all.                                                      *)
OnlyRacesAreStale ==
    \A k \in Filters : Fresh(cache[k]) /\ cache[k].rows # Catalogue(k) => k \in excused

(* An event taken down, or put up, shows in the end: once no request       *)
(* changes events, the cache comes to hold nothing but the catalogue.      *)
Current == \A k \in Filters : Fresh(cache[k]) => cache[k].rows = Catalogue(k)

SearchesCatchUp == (\A w \in Writers : writer[w] = "done") ~> []Current
=============================================================================
