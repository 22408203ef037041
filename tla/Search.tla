------------------------------- MODULE Search -------------------------------
(***************************************************************************)
(* Searches of the catalogue and their strategies (SearchService.search,   *)
(* TextSearchStrategy, SemanticSearchStrategy), by a client that asks for  *)
(* page after page while events come and go.                               *)
(*                                                                         *)
(* Every SELECT of a search sees what is committed when it runs.  A search *)
(* by text that has no query goes through the cache: see Catalog.          *)
(***************************************************************************)
EXTENDS Integers, Sequences, FiniteSets, FiniteSetsExt, SequencesExt

CONSTANTS
    Events,
    Dates,        (* bound: starts_at, or whatever the order asked is by   *)
    Fragments,    (* how many titles a curated topic has                   *)
    Limit,        (* limit of the searches                                 *)
    UseVector,    (* embedding_provider is openai                          *)
    MaxChanges    (* bound: events that enter, leave or are edited         *)

ConstantsAssumption ==
    /\ IsFiniteSet(Events)
    /\ Dates \subseteq Nat
    /\ Fragments \in Nat
    /\ Limit \in Nat \ {0}
    /\ UseVector \in BOOLEAN
    /\ MaxChanges \in Nat

VARIABLES
    event,      (* what each event says                                    *)
    visible,    (* events that are published and that the filters keep     *)
    changes,    (* how often that has changed                              *)
    search,     (* the search of the client                                *)
    listed,     (* history: how often its pages have listed each event     *)
    steady,     (* history: events that matched ever since page one        *)
    titled,     (* history: events that had the topic ever since page one  *)
    held,       (* history: places the matching rows have had since        *)
    gone, came  (* history: places that a row has left and taken since     *)

history == <<steady, titled, held, gone, came>>
catalogue == <<event, visible, changes>>
vars == <<catalogue, search, listed, history>>

(* topic: the first fragment of the topic that is in the title, or none.   *)
Event == [date : Dates, topic : 0 .. Fragments, text : BOOLEAN, embedded : BOOLEAN]

Queries == {"none", "topic", "other"}

(* "unanswered": the server answers with an error.  "end": a page was not  *)
(* full.  aborted: PostgreSQL refuses further statements.                  *)
Client == [pc : {"idle", "curated", "vector", "text", "paged", "end", "unanswered"},
           semantic : BOOLEAN, query : Queries,
           offset : Nat, aborted : BOOLEAN,
           strategy : {"none", "curated", "vector", "text"}]

Init ==
    /\ event \in [Events -> Event]
    /\ visible \in SUBSET Events
    /\ changes = 0
    /\ search = [pc |-> "idle", semantic |-> FALSE, query |-> "none", offset |-> 0,
                 aborted |-> FALSE, strategy |-> "none"]
    /\ listed = [e \in Events |-> 0]
    /\ steady = {} /\ titled = {} /\ held = {} /\ gone = {} /\ came = {}

-----------------------------------------------------------------------------
(* Queries *)

(* Rows in an order: rows that compare equal come in any.                  *)
Ordered(S, key) ==
    {s \in SetToSeqs(S) : \A i, j \in 1 .. Len(s) : i < j => key[s[i]] <= key[s[j]]}

(* LIMIT and OFFSET.                                                       *)
Page(s, offset) == SubSeq(s, offset + 1, Min({offset + Limit, Len(s)}))

Matching(query) == {e \in visible : query = "none" \/ event[e].text}

(* The rows that match the query of the search, each at its date.          *)
Places == {<<e, event[e].date>> : e \in Matching(search.query)}

OfTopic == {e \in visible : event[e].topic < Fragments}

(* Seeded fault: the offset is left out here too.                          *)
TextPagesFirst(query, offset) ==
    LET date == [e \in Events |-> event[e].date]
    IN  {Page(s, 0) : s \in Ordered(Matching(query), date)}

(* search_catalog.                                                         *)
TextPages(query, offset) ==
    LET date == [e \in Events |-> event[e].date]
    IN  {Page(s, offset) : s \in Ordered(Matching(query), date)}

(* search_by_titles: by rank of the fragment; it is given no offset.       *)
CuratedPages ==
    LET rank == [e \in Events |-> event[e].topic]
    IN  {Page(s, 0) : s \in Ordered(OfTopic, rank)}

(* semantic_search: the nearest of those that have an embedding; no offset.*)
VectorPages ==
    {Page(s, 0) : s \in SetToSeqs({e \in visible : event[e].embedded})}

-----------------------------------------------------------------------------
(* A search *)

(* get_search_service: a query without text is listed by the fallback;     *)
(* match_curated_titles knows the topics.                                  *)
FirstStrategy(semantic, query) ==
    CASE ~ semantic \/ query = "none" -> "text"
      [] semantic /\ query = "topic"  -> "curated"
      [] OTHER                        -> IF UseVector THEN "vector" ELSE "text"

(* Page one, from a client that does not yet page.                         *)
Ask(semantic, query) ==
    /\ search.pc = "idle"
    /\ semantic \/ query # "none"
    /\ search' = [pc |-> FirstStrategy(semantic, query), semantic |-> semantic,
                  query |-> query, offset |-> 0, aborted |-> FALSE, strategy |-> "none"]
    /\ UNCHANGED <<catalogue, listed, gone, came>>
    /\ steady' = Matching(query)
    /\ titled' = OfTopic
    /\ held' = Places'

(* The next page, after a full one: a request and a transaction of its own.*)
NextPage ==
    /\ search.pc = "paged"
    /\ search' = [search EXCEPT !.pc = FirstStrategy(search.semantic, search.query),
                                !.offset = @ + Limit]
    /\ UNCHANGED <<catalogue, listed, history>>

Answer(page, strategy) ==
    /\ listed' = [e \in Events |->
                    listed[e] + Cardinality({i \in 1 .. Len(page) : page[i] = e})]
    /\ search' = [search EXCEPT !.pc = IF Len(page) = Limit THEN "paged" ELSE "end",
                                !.strategy = strategy]
    /\ UNCHANGED <<catalogue, history>>

Continue(pc, aborted) ==
    /\ search' = [search EXCEPT !.pc = pc, !.aborted = aborted]
    /\ UNCHANGED <<catalogue, listed, history>>

(* Seeded fault: an empty result of a known topic is the answer.           *)
CuratedAnswers ==
    /\ search.pc = "curated"
    /\ \E page \in CuratedPages : Answer(page, "curated")

(* An empty result goes on to the next way.                                *)
Curated ==
    /\ search.pc = "curated"
    /\ \E page \in CuratedPages :
        IF page # <<>> THEN Answer(page, "curated")
        ELSE Continue(IF UseVector THEN "vector" ELSE "text", FALSE)

Vector ==
    /\ search.pc = "vector"
    /\ \E page \in VectorPages :
        IF page # <<>> THEN Answer(page, "vector") ELSE Continue("text", FALSE)

(* The provider of embeddings fails, and the search degrades to text.      *)
EmbedFails == search.pc = "vector" /\ Continue("text", FALSE)

(* The SELECT fails: caught all the same, its transaction is aborted.      *)
SelectFails == search.pc = "vector" /\ Continue("text", TRUE)

Text ==
    /\ search.pc = "text"
    /\ IF search.aborted THEN Continue("unanswered", TRUE)
       ELSE \E page \in TextPages(search.query, search.offset) : Answer(page, "text")

-----------------------------------------------------------------------------

(* A transaction commits that publishes or cancels an event, or an update  *)
(* of it: what it says changes, and whether the filters keep it.  Only a   *)
(* publication embeds it.                                                  *)
Change(e) ==
    /\ changes < MaxChanges
    /\ changes' = changes + 1
    /\ UNCHANGED <<search, listed>>
    /\ \E row \in Event :
        /\ e \in visible => row.embedded = event[e].embedded
        /\ event' = [event EXCEPT ![e] = row]
    /\ visible' \in {visible \ {e}, visible \cup {e}}
    /\ steady' = steady \cap Matching(search.query)'
    /\ titled' = titled \cap OfTopic'
    /\ held' = held \cup Places'
    /\ gone' = gone \cup (Places \ Places')
    /\ came' = came \cup (Places' \ Places)

(* Pages beyond the end are empty, and a client stops at the first; what   *)
(* changes before it asks or after it stops, it does not see.              *)
Next ==
    \/ \E semantic \in BOOLEAN, query \in Queries : Ask(semantic, query)
    \/ search.offset <= Limit * Cardinality(Events) /\ NextPage
    \/ Curated \/ Vector \/ EmbedFails \/ SelectFails \/ Text
    \/ search.pc \notin {"idle", "end", "unanswered"} /\ \E e \in Events : Change(e)

Spec == Init /\ [][Next]_vars

-----------------------------------------------------------------------------
(* Properties *)

TypeOK ==
    /\ event \in [Events -> Event]
    /\ visible \in SUBSET Events
    /\ changes \in 0 .. MaxChanges
    /\ search \in Client
    /\ "vector" \in {search.pc, search.strategy} => UseVector
    /\ listed \in [Events -> Nat]
    /\ steady \subseteq Events /\ titled \subseteq Events
    /\ held \cup gone \cup came \subseteq Events \X Dates

(* Places of a history that are not after where an event is, or its own.   *)
NotAfter(e, places) == {p \in places : p[1] = e \/ p[2] <= event[e].date}

Ties(e) == {p \in held : p[1] # e /\ p[2] = event[e].date}

(* RF-01, by text, while events come, go and are edited: an event that     *)
(* matched all along is missed by the pages only if it moved or a row that *)
(* was not after it left its place, repeated only if it moved or a row took*)
(* a place not after it, and else only if it tied with another, since      *)
(* nothing but the date orders the rows.                                   *)
PagesListAll ==
    FirstStrategy(search.semantic, search.query) = "text" =>
        \A e \in steady :
            /\ search.pc = "end" /\ listed[e] = 0 => NotAfter(e, gone) \cup Ties(e) # {}
            /\ listed[e] > 1 => NotAfter(e, came) \cup Ties(e) # {}

(* RF-30: a search finds nothing only where no event matched its text all  *)
(* along, and none its topic if it has one, though the ways read the table *)
(* one after the other.  An event edited from the one to the other between *)
(* the reads matched at every moment and may be found by neither.          *)
NothingMeansNone ==
    search.pc = "end" /\ search.offset = 0 /\ (\A e \in Events : listed[e] = 0) =>
        /\ steady = {}
        /\ search.semantic /\ search.query = "topic" => titled = {}
=============================================================================
