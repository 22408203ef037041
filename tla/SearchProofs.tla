---------------------------- MODULE SearchProofs ----------------------------
(***************************************************************************)
(* Theorems about Search for every number of events, dates and fragments   *)
(* and every limit.  Their hypothesis is what Records assumes of Search    *)
(* (SearchAssumption); RecordsProofs draws the conclusions for Records.    *)
(***************************************************************************)
EXTENDS Search, FiniteSetTheorems, SequenceTheorems, TLAPS

-----------------------------------------------------------------------------
(* Rows and pages *)

(* The smaller of two numbers.                                             *)
LEMMA MinOfTwo ==
    ASSUME NEW a \in Int, NEW b \in Int
    PROVE  Min({a, b}) = IF a <= b THEN a ELSE b
<1>1. \A x \in {a, b} : a <= x \/ b <= x
  OBVIOUS
<1> QED
  BY DEF Min

(* The rows of a SELECT in some order: each once.                          *)
LEMMA RowsOnce ==
    ASSUME NEW S, IsFiniteSet(S), NEW s \in SetToSeqs(S)
    PROVE  /\ Cardinality(S) \in Nat
           /\ s \in [1 .. Cardinality(S) -> S] /\ s \in Seq(S) /\ Len(s) = Cardinality(S)
           /\ \A i, j \in 1 .. Len(s) : s[i] = s[j] => i = j
           /\ \A e \in S : \E i \in 1 .. Len(s) : s[i] = e
<1>1. Cardinality(S) \in Nat
  BY FS_CardinalityType
<1>2. /\ s \in [1 .. Cardinality(S) -> S]
      /\ \A i, j \in 1 .. Cardinality(S) : i # j => s[i] # s[j]
  BY DEF SetToSeqs
<1>3. s \in Seq(S) /\ Len(s) = Cardinality(S)
  BY <1>1, <1>2, SeqDef, LenProperties
<1>4. s \in Injection(1 .. Cardinality(S), S)
  BY <1>2 DEF Injection, IsInjective
<1>5. IsFiniteSet(1 .. Cardinality(S)) /\ Cardinality(1 .. Cardinality(S)) = Cardinality(S)
  BY <1>1, FS_Interval
<1>6. s \in Surjection(1 .. Cardinality(S), S)
  BY <1>4, <1>5, FS_Injection
<1> QED
  BY <1>1, <1>2, <1>3, <1>6 DEF Surjection

(* LIMIT and OFFSET: a page is full unless the rows end in it.             *)
LEMMA PageRows ==
    ASSUME NEW S, NEW s \in Seq(S), NEW offset \in Nat, Limit \in Nat \ {0}
    PROVE  /\ Page(s, offset) \in Seq(S)
           /\ Len(Page(s, offset)) =
                IF offset + Limit <= Len(s) THEN Limit
                ELSE IF offset < Len(s) THEN Len(s) - offset ELSE 0
           /\ \A i \in 1 .. Len(Page(s, offset)) :
                offset + i \in 1 .. Len(s) /\ Page(s, offset)[i] = s[offset + i]
<1> DEFINE n == Min({offset + Limit, Len(s)})
<1>1. n = IF offset + Limit <= Len(s) THEN offset + Limit ELSE Len(s)
  BY MinOfTwo
<1>2. Len(s) \in Nat /\ n \in Int /\ offset + 1 \in Int
  BY <1>1
<1>3. \A i \in offset + 1 .. n : s[i] \in S
  BY <1>1, <1>2
<1> HIDE DEF n
<1>4. /\ SubSeq(s, offset + 1, n) \in Seq(S)
      /\ Len(SubSeq(s, offset + 1, n)) =
            IF offset + 1 <= n THEN n - (offset + 1) + 1 ELSE 0
      /\ \A i \in 1 .. n - (offset + 1) + 1 :
            SubSeq(s, offset + 1, n)[i] = s[offset + 1 + i - 1]
  BY <1>2, <1>3, SubSeqProperties
<1>5. Page(s, offset) = SubSeq(s, offset + 1, n)
  BY DEF Page, n
<1> QED
  BY <1>1, <1>2, <1>4, <1>5

-----------------------------------------------------------------------------
(* Types *)

(* How often a page lists an event.                                        *)
Times(page, e) == Cardinality({i \in 1 .. Len(page) : page[i] = e})

(* A page lists an event as often as it stands in it.                      *)
LEMMA TimesType ==
    ASSUME NEW page \in Seq(Events), NEW e
    PROVE  /\ Times(page, e) \in Nat
           /\ Times(page, e) = 0 <=> \A i \in 1 .. Len(page) : page[i] # e
<1> DEFINE T == {i \in 1 .. Len(page) : page[i] = e}
<1>1. Len(page) \in Nat
  BY LenProperties
<1>2. IsFiniteSet(1 .. Len(page)) /\ T \in SUBSET (1 .. Len(page))
  BY <1>1, FS_Interval
<1>3. IsFiniteSet(T)
  BY <1>2, FS_Subset
<1>4. Cardinality(T) \in Nat /\ (Cardinality(T) = 0 <=> T = {})
  BY <1>3, FS_CardinalityType, FS_EmptySet
<1> QED
  BY <1>4 DEF Times

(* The pages of any selection of events are pages of events.               *)
LEMMA SelectionPages ==
    ASSUME ConstantsAssumption, NEW S \in SUBSET Events, NEW s \in SetToSeqs(S),
           NEW offset \in Nat
    PROVE  /\ IsFiniteSet(S) /\ s \in Seq(S)
           /\ Page(s, offset) \in Seq(Events)
           /\ offset = 0 /\ Page(s, offset) = <<>> => S = {}
<1>1. IsFiniteSet(S) /\ Limit \in Nat \ {0}
  BY FS_Subset DEF ConstantsAssumption
<1>2. /\ s \in Seq(S) /\ s \in Seq(Events)
      /\ \A e \in S : \E i \in 1 .. Len(s) : s[i] = e
  BY <1>1, RowsOnce, SeqMonotonic
<1>3. /\ Page(s, offset) \in Seq(Events)
      /\ Len(Page(s, offset)) =
            IF offset + Limit <= Len(s) THEN Limit
            ELSE IF offset < Len(s) THEN Len(s) - offset ELSE 0
  BY <1>1, <1>2, PageRows
<1>4. ASSUME offset = 0, Page(s, offset) = <<>> PROVE S = {}
  <2>1. Len(Page(s, offset)) = 0 /\ Len(s) \in Nat
    BY <1>2, <1>4, EmptySeq, LenProperties
  <2>2. Len(s) = 0
    BY <1>1, <1>3, <1>4, <2>1
  <2> QED
    BY <1>2, <2>2
<1> QED
  BY <1>1, <1>2, <1>3, <1>4

(* The pages each way may answer with; an empty first page means that it   *)
(* selected no row.                                                        *)
LEMMA WaysPages ==
    ASSUME ConstantsAssumption, TypeOK
    PROVE  /\ \A page \in CuratedPages :
                /\ page \in Seq(Events)
                /\ page = <<>> => OfTopic = {}
           /\ \A page \in VectorPages : page \in Seq(Events)
           /\ \A page \in TextPages(search.query, search.offset) :
                /\ page \in Seq(Events)
                /\ search.offset = 0 /\ page = <<>> => Matching(search.query) = {}
<1>1. /\ visible \in SUBSET Events /\ search.offset \in Nat /\ 0 \in Nat
  BY DEF TypeOK, Client, Event
<1>2. ASSUME NEW page \in CuratedPages
      PROVE  /\ page \in Seq(Events)
             /\ page = <<>> => OfTopic = {}
  <2>1. PICK s \in SetToSeqs(OfTopic) : page = Page(s, 0)
    BY DEF CuratedPages, Ordered
  <2>2. OfTopic \in SUBSET Events
    BY <1>1 DEF OfTopic
  <2> QED
    BY <1>1, <2>1, <2>2, SelectionPages
<1>3. ASSUME NEW page \in VectorPages PROVE page \in Seq(Events)
  <2> DEFINE embedded == {e \in visible : event[e].embedded}
  <2>1. embedded \in SUBSET Events
    BY <1>1
  <2>2. PICK s \in SetToSeqs(embedded) : page = Page(s, 0)
    BY DEF VectorPages
  <2> HIDE DEF embedded
  <2> QED
    BY <1>1, <2>1, <2>2, SelectionPages
<1>4. ASSUME NEW page \in TextPages(search.query, search.offset)
      PROVE  /\ page \in Seq(Events)
             /\ search.offset = 0 /\ page = <<>> => Matching(search.query) = {}
  <2>1. PICK s \in SetToSeqs(Matching(search.query)) : page = Page(s, search.offset)
    BY DEF TextPages, Ordered
  <2>2. Matching(search.query) \in SUBSET Events
    BY <1>1 DEF Matching
  <2> QED
    BY <1>1, <2>1, <2>2, SelectionPages
<1> QED
  BY <1>2, <1>3, <1>4

(* An answer counts what its page lists.                                   *)
LEMMA AnswerType ==
    ASSUME ConstantsAssumption, TypeOK, NEW page \in Seq(Events),
           NEW strategy \in {"curated", "vector", "text"}, Answer(page, strategy),
           strategy = "vector" => UseVector
    PROVE  /\ TypeOK'
           /\ \A e \in Events : listed'[e] = listed[e] + Times(page, e)
           /\ search' = [search EXCEPT !.pc = IF Len(page) = Limit THEN "paged" ELSE "end",
                                       !.strategy = strategy]
           /\ UNCHANGED <<catalogue, history>>
<1>1. listed' = [e \in Events |-> listed[e] + Times(page, e)]
  BY DEF Answer, Times
<1>2. \A e \in Events : Times(page, e) \in Nat /\ listed[e] \in Nat
  BY TimesType DEF TypeOK
<1>3. listed' \in [Events -> Nat]
  BY <1>1, <1>2
<1>4. /\ search' = [search EXCEPT !.pc = IF Len(page) = Limit THEN "paged" ELSE "end",
                                  !.strategy = strategy]
      /\ UNCHANGED <<catalogue, history>>
  BY DEF Answer
<1>5. search' \in Client /\ ("vector" \in {search'.pc, search'.strategy} => UseVector)
  BY <1>4 DEF TypeOK, Client
<1>6. TypeOK'
  BY <1>3, <1>4, <1>5 DEF TypeOK, catalogue, history
<1> QED
  BY <1>1, <1>4, <1>6

(* The ways that go on to the next one.                                    *)
LEMMA ContinueType ==
    ASSUME TypeOK, NEW pc \in {"vector", "text", "unanswered"}, NEW aborted \in BOOLEAN,
           Continue(pc, aborted), pc = "vector" => UseVector
    PROVE  TypeOK'
<1>1. /\ search' = [search EXCEPT !.pc = pc, !.aborted = aborted]
      /\ UNCHANGED <<catalogue, listed, history>>
  BY DEF Continue
<1>2. search' \in Client /\ ("vector" \in {search'.pc, search'.strategy} => UseVector)
  BY <1>1 DEF TypeOK, Client
<1> QED
  BY <1>1, <1>2 DEF TypeOK, catalogue, history

(* The histories a step of the catalogue or of the client writes.          *)
LEMMA HistoryType ==
    ASSUME event \in [Events -> Event], visible \in SUBSET Events
    PROVE  /\ OfTopic \subseteq Events /\ Places \subseteq Events \X Dates
           /\ \A query : Matching(query) \subseteq Events
  BY DEF OfTopic, Places, Matching, Event

(* A client that asks, or asks for more.                                   *)
LEMMA RequestType ==
    ASSUME ConstantsAssumption, TypeOK,
           NextPage \/ \E semantic \in BOOLEAN, query \in Queries : Ask(semantic, query)
    PROVE  TypeOK'
<1>0. \A semantic, query :
        /\ FirstStrategy(semantic, query) \in {"curated", "vector", "text"}
        /\ FirstStrategy(semantic, query) = "vector" => UseVector
  BY DEF FirstStrategy
<1>1. CASE NextPage
  <2>1. /\ search' = [search EXCEPT !.pc = FirstStrategy(search.semantic, search.query),
                                    !.offset = @ + Limit]
        /\ UNCHANGED <<catalogue, listed, history>>
    BY <1>1 DEF NextPage
  <2>2. search \in Client /\ search.offset + Limit \in Nat
    BY DEF TypeOK, Client, ConstantsAssumption
  <2>3. /\ search' \in Client
        /\ search'.pc = FirstStrategy(search.semantic, search.query)
        /\ search'.strategy = search.strategy
    BY <1>0, <2>1, <2>2 DEF Client
  <2> QED
    BY <1>0, <2>1, <2>3 DEF TypeOK, catalogue, history
<1>2. ASSUME NEW semantic \in BOOLEAN, NEW query \in Queries, Ask(semantic, query)
      PROVE  TypeOK'
  <2>1. /\ UNCHANGED <<event, visible, changes, listed, gone, came>>
        /\ steady' = Matching(query) /\ titled' = OfTopic /\ held' = Places'
        /\ search' = [pc |-> FirstStrategy(semantic, query), semantic |-> semantic,
                      query |-> query, offset |-> 0, aborted |-> FALSE, strategy |-> "none"]
    BY <1>2 DEF Ask, catalogue
  <2>2. search' \in Client /\ ("vector" \in {search'.pc, search'.strategy} => UseVector)
    BY <1>0, <2>1 DEF Client
  <2>3. Places' \subseteq Events \X Dates
    BY <2>1 DEF Places, Matching, TypeOK, Event
  <2> QED
    BY <2>1, <2>2, <2>3, HistoryType DEF TypeOK
<1> QED
  BY <1>1, <1>2

(* The ways of a search, one after the other.                              *)
LEMMA WayType ==
    ASSUME ConstantsAssumption, TypeOK,
           Curated \/ Vector \/ EmbedFails \/ SelectFails \/ Text
    PROVE  TypeOK'
<1>1. UseVector \in BOOLEAN /\ (search.pc = "vector" => UseVector)
  BY DEF ConstantsAssumption, TypeOK
<1>2. CASE Curated
  BY <1>1, <1>2, WaysPages, AnswerType, ContinueType DEF Curated
<1>3. CASE Vector
  BY <1>1, <1>3, WaysPages, AnswerType, ContinueType DEF Vector
<1>4. CASE EmbedFails \/ SelectFails
  BY <1>4, ContinueType DEF EmbedFails, SelectFails
<1>5. CASE Text
  BY <1>5, WaysPages, AnswerType, ContinueType DEF Text
<1> QED
  BY <1>2, <1>3, <1>4, <1>5

(* A change of the catalogue.                                              *)
LEMMA ChangeType ==
    ASSUME ConstantsAssumption, TypeOK, NEW e \in Events, Change(e) PROVE TypeOK'
<1>1. event' \in [Events -> Event] /\ visible' \in SUBSET Events
  BY DEF Change, TypeOK
<1>2. /\ Places \subseteq Events \X Dates /\ Places' \subseteq Events \X Dates
  <2>1. Places' \subseteq Events \X Dates
    BY <1>1 DEF Places, Matching, Event
  <2> QED
    BY <2>1, HistoryType DEF TypeOK
<1>3. /\ UNCHANGED <<search, listed>> /\ changes' \in 0 .. MaxChanges
      /\ steady' \subseteq steady /\ titled' \subseteq titled
      /\ held' = held \cup Places' /\ gone' = gone \cup (Places \ Places')
      /\ came' = came \cup (Places' \ Places)
  BY DEF Change, TypeOK, ConstantsAssumption
<1> QED
  BY <1>1, <1>2, <1>3 DEF TypeOK

(* Every search, page and count is well typed.                             *)
THEOREM TypeCorrect == ASSUME ConstantsAssumption PROVE Spec => []TypeOK
<1>1. Init => TypeOK
  BY DEF Init, TypeOK, Client, Queries, ConstantsAssumption
<1>2. TypeOK /\ [Next]_vars => TypeOK'
  <2>1. ASSUME TypeOK, UNCHANGED vars PROVE TypeOK'
    BY <2>1 DEF TypeOK, vars, catalogue, history
  <2> QED
    BY <2>1, RequestType, WayType, ChangeType DEF Next
<1> QED
  BY <1>1, <1>2, PTL DEF Spec

-----------------------------------------------------------------------------
(* A semantic search that finds nothing *)

(* What matched all along matches; past the topic, nothing has had it.     *)
NothingYet ==
    /\ steady \subseteq Matching(search.query) /\ titled \subseteq OfTopic
    /\ search.pc \in {"vector", "text"} /\ search.offset = 0
            /\ search.semantic /\ search.query = "topic"
        => titled = {}

NInv == TypeOK /\ NothingYet /\ NothingMeansNone

(* An answer that lists an event does not claim that there is none.        *)
LEMMA AnswerNothing ==
    ASSUME ConstantsAssumption, NInv, NEW page \in Seq(Events),
           NEW strategy \in {"curated", "vector", "text"}, Answer(page, strategy),
           strategy = "vector" => UseVector,
           search.offset = 0 /\ page = <<>> =>
               /\ steady = {}
               /\ search.semantic /\ search.query = "topic" => titled = {}
    PROVE  NothingYet' /\ NothingMeansNone'
<1>1. /\ search' = [search EXCEPT !.pc = IF Len(page) = Limit THEN "paged" ELSE "end",
                                  !.strategy = strategy]
      /\ UNCHANGED <<catalogue, history>>
      /\ \A e \in Events : listed'[e] = listed[e] + Times(page, e)
  BY AnswerType DEF NInv
<1>2. /\ search'.pc \in {"paged", "end"} /\ search'.offset = search.offset
      /\ search'.query = search.query /\ search'.semantic = search.semantic
  BY <1>1 DEF NInv, TypeOK, Client
<1>3. NothingYet'
  BY <1>1, <1>2 DEF NothingYet, NInv, Matching, OfTopic, catalogue, history
<1>4. ASSUME \A e \in Events : listed'[e] = 0 PROVE page = <<>>
  <2>1. \A e \in Events : Times(page, e) = 0
    <3>1. \A e \in Events : Times(page, e) \in Nat /\ listed[e] \in Nat
      BY TimesType DEF NInv, TypeOK
    <3> QED
      BY <1>1, <1>4, <3>1
  <2>2. \A i \in 1 .. Len(page) : page[i] \in Events
    BY ElementOfSeq
  <2>3. \A i \in 1 .. Len(page) : FALSE
    BY <2>1, <2>2, TimesType
  <2>4. ~ Len(page) \in Nat \ {0}
    BY <2>3
  <2> QED
    BY <2>4, EmptySeq
<1>5. NothingMeansNone'
  BY <1>1, <1>2, <1>4 DEF NothingMeansNone, catalogue, history
<1> QED
  BY <1>3, <1>5

(* RF-30: an empty answer means that nothing matched the text all along, or *)
(* the topic, though the ways read the table one after the other.          *)
THEOREM EmptyMeansNone == ASSUME ConstantsAssumption PROVE Spec => []NothingMeansNone
<1>1. Init => NothingYet /\ NothingMeansNone
  BY DEF Init, NothingYet, NothingMeansNone
<1>2. TypeOK /\ NothingYet /\ NothingMeansNone /\ [Next]_vars
        => (NothingYet /\ NothingMeansNone)'
  <2>1. ASSUME NInv, UNCHANGED vars PROVE (NothingYet /\ NothingMeansNone)'
    BY <2>1 DEF NInv, NothingYet, NothingMeansNone, Matching, OfTopic, vars, catalogue, history
  <2>2. ASSUME NInv, NEW semantic \in BOOLEAN, NEW query \in Queries, Ask(semantic, query)
        PROVE  (NothingYet /\ NothingMeansNone)'
    <3>1. /\ search'.pc = FirstStrategy(semantic, query)
          /\ search'.semantic = semantic /\ search'.query = query
          /\ steady' = Matching(query) /\ titled' = OfTopic /\ UNCHANGED catalogue
      BY <2>2 DEF Ask
    <3>2. /\ FirstStrategy(semantic, query) # "end"
          /\ semantic /\ query = "topic" => FirstStrategy(semantic, query) = "curated"
      BY DEF FirstStrategy
    <3> QED
      BY <3>1, <3>2 DEF NothingYet, NothingMeansNone, Matching, OfTopic, catalogue
  <2>3. ASSUME NInv, NextPage PROVE (NothingYet /\ NothingMeansNone)'
    <3>1. UNCHANGED <<catalogue, listed, history>>
      BY <2>3 DEF NextPage
    <3>2. search'.offset # 0 /\ search'.query = search.query
      BY <2>3 DEF NextPage, NInv, TypeOK, Client, ConstantsAssumption
    <3> QED
      BY <2>3, <3>1, <3>2
      DEF NInv, NothingYet, NothingMeansNone, Matching, OfTopic, catalogue, history
  <2>4. ASSUME NInv, NEW pc \in {"vector", "text", "unanswered"}, NEW aborted \in BOOLEAN,
               Continue(pc, aborted),
               \/ search.pc = "vector"
               \/ pc = "unanswered"
               \/ OfTopic = {}
        PROVE  (NothingYet /\ NothingMeansNone)'
    <3>1. /\ UNCHANGED <<catalogue, listed, history>>
          /\ search'.pc = pc /\ search'.offset = search.offset
          /\ search'.query = search.query /\ search'.semantic = search.semantic
      BY <2>4 DEF Continue, NInv, TypeOK, Client
    <3> QED
      BY <2>4, <3>1
      DEF NInv, NothingYet, NothingMeansNone, Matching, OfTopic, catalogue, history
  <2>5. ASSUME NInv, Curated PROVE (NothingYet /\ NothingMeansNone)'
    <3>1. PICK page \in CuratedPages :
            IF page # <<>> THEN Answer(page, "curated")
            ELSE Continue(IF UseVector THEN "vector" ELSE "text", FALSE)
      BY <2>5 DEF Curated
    <3>2. /\ page \in Seq(Events)
          /\ page = <<>> => OfTopic = {}
      BY <2>5, WaysPages DEF NInv
    <3> QED
      BY <2>4, <2>5, <3>1, <3>2, AnswerNothing
  <2>6. ASSUME NInv, Vector PROVE (NothingYet /\ NothingMeansNone)'
    <3>1. PICK page \in VectorPages :
            IF page # <<>> THEN Answer(page, "vector") ELSE Continue("text", FALSE)
      BY <2>6 DEF Vector
    <3>2. page \in Seq(Events) /\ search.pc = "vector" /\ UseVector
      BY <2>6, WaysPages DEF NInv, TypeOK, Vector
    <3> QED
      BY <2>4, <2>6, <3>1, <3>2, AnswerNothing
  <2>7. ASSUME NInv, EmbedFails \/ SelectFails PROVE (NothingYet /\ NothingMeansNone)'
    BY <2>4, <2>7 DEF EmbedFails, SelectFails
  <2>8. ASSUME NInv, Text PROVE (NothingYet /\ NothingMeansNone)'
    <3>1. CASE search.aborted
      BY <2>4, <2>8, <3>1 DEF Text
    <3>2. CASE ~ search.aborted
      <4>1. PICK page \in TextPages(search.query, search.offset) : Answer(page, "text")
        BY <2>8, <3>2 DEF Text
      <4>2. /\ page \in Seq(Events) /\ search.pc = "text"
            /\ search.offset = 0 /\ page = <<>> => Matching(search.query) = {}
        BY <2>8, WaysPages DEF NInv, Text
      <4>3. search.offset = 0 /\ page = <<>> => steady = {}
        BY <2>8, <4>2 DEF NInv, NothingYet
      <4>4. search.offset = 0 /\ search.semantic /\ search.query = "topic" => titled = {}
        BY <2>8, <4>2 DEF NInv, NothingYet
      <4> QED
        BY <2>8, <4>1, <4>2, <4>3, <4>4, AnswerNothing
    <3> QED
      BY <3>1, <3>2
  <2>9. ASSUME NInv, NEW e \in Events, Change(e) PROVE (NothingYet /\ NothingMeansNone)'
    <3>1. /\ UNCHANGED <<search, listed>>
          /\ steady' = steady \cap Matching(search.query)'
          /\ titled' = titled \cap OfTopic'
      BY <2>9 DEF Change
    <3> QED
      BY <2>9, <3>1 DEF NInv, NothingYet, NothingMeansNone
  <2> QED
    BY <2>1, <2>2, <2>3, <2>5, <2>6, <2>7, <2>8, <2>9 DEF NInv, Next
<1> QED
  BY <1>1, <1>2, TypeCorrect, PTL DEF Spec

-----------------------------------------------------------------------------
(* The pages of a search by text *)

TextFirst == FirstStrategy(search.semantic, search.query) = "text"

(* The rows before an event.                                               *)
Before(e) == {d \in Matching(search.query) : event[d].date < event[e].date}

(* How many rows the pages so far were to cover.                           *)
Covered == search.offset + IF search.pc \in {"paged", "end"} THEN Limit ELSE 0

(* An event that keeps its place and nothing ties with: while no row before*)
(* it leaves, it is not behind the pages unless they listed it; while none *)
(* comes, what they listed stays behind them.                              *)
Followed(e) ==
    Ties(e) = {} =>
        /\ NotAfter(e, gone) = {} /\ listed[e] = 0
            => search.pc # "end" /\ Covered <= Cardinality(Before(e))
        /\ NotAfter(e, came) = {}
            => listed[e] <= 1 /\ (listed[e] = 1 => Cardinality(Before(e)) < Covered)

Following ==
    /\ steady \subseteq Matching(search.query)
    /\ IF search.pc = "idle" THEN \A e \in Events : listed[e] = 0 ELSE Places \subseteq held
    /\ TextFirst => search.pc \notin {"curated", "vector"} /\ \A e \in steady : Followed(e)

PInv == TypeOK /\ Following

(* There are so many rows before an event.                                 *)
LEMMA BeforeType ==
    ASSUME ConstantsAssumption, TypeOK, NEW e
    PROVE  /\ Before(e) \in SUBSET Events /\ IsFiniteSet(Before(e))
           /\ Cardinality(Before(e)) \in Nat
<1>1. Before(e) \in SUBSET Events
  BY DEF TypeOK, Before, Matching
<1> QED
  BY <1>1, FS_Subset, FS_CardinalityType DEF ConstantsAssumption

(* Without ties an event has one place in the order: after those before it.*)
LEMMA PlaceOf ==
    ASSUME ConstantsAssumption, TypeOK, NEW e \in Matching(search.query), Ties(e) = {},
           Places \subseteq held,
           NEW s \in Ordered(Matching(search.query), [d \in Events |-> event[d].date])
    PROVE  /\ Cardinality(Before(e)) + 1 \in 1 .. Len(s)
           /\ \A i \in 1 .. Len(s) : s[i] = e <=> i = Cardinality(Before(e)) + 1
<1> DEFINE M == Matching(search.query)
           date == [d \in Events |-> event[d].date]
<1>1. M \in SUBSET Events /\ IsFiniteSet(M)
  <2>1. M \in SUBSET Events
    BY DEF Matching, TypeOK
  <2> QED
    BY <2>1, FS_Subset DEF ConstantsAssumption
<1>2. /\ s \in SetToSeqs(M)
      /\ \A i, j \in 1 .. Len(s) : i < j => date[s[i]] <= date[s[j]]
  BY DEF Ordered
<1> HIDE DEF M
<1>3. /\ Len(s) \in Nat /\ \A i \in 1 .. Len(s) : s[i] \in M
      /\ \A i, j \in 1 .. Len(s) : s[i] = s[j] => i = j
      /\ \A d \in M : \E i \in 1 .. Len(s) : s[i] = d
  BY <1>1, <1>2, RowsOnce
<1>4. PICK p \in 1 .. Len(s) : s[p] = e
  BY <1>3 DEF M
<1>5. \A d \in M : date[d] = event[d].date /\ event[d].date \in Nat
  BY <1>1 DEF TypeOK, Event, ConstantsAssumption
<1>6. \A i \in 1 .. Len(s) : i < p <=> event[s[i]].date < event[e].date
  <2>1. ASSUME NEW i \in 1 .. Len(s), i < p PROVE event[s[i]].date < event[e].date
    <3>1. s[i] \in M /\ s[i] # e /\ e \in M /\ event[s[i]].date <= event[e].date
      BY <1>2, <1>3, <1>4, <1>5, <2>1
    <3>2. event[s[i]].date # event[e].date
      <4>1. <<s[i], event[s[i]].date>> \in held
        BY <3>1 DEF Places, M
      <4> QED
        BY <3>1, <4>1 DEF Ties
    <3>3. event[s[i]].date \in Nat /\ event[e].date \in Nat
      BY <1>5, <3>1
    <3> QED
      BY <3>1, <3>2, <3>3
  <2>2. ASSUME NEW i \in 1 .. Len(s), ~ i < p PROVE ~ event[s[i]].date < event[e].date
    <3>1. s[i] \in M /\ e \in M
      BY <1>3, <1>4
    <3>2. event[s[i]].date \in Nat /\ event[e].date \in Nat
      BY <1>5, <3>1
    <3>3. i = p \/ p < i
      BY <1>3, <2>2
    <3>4. event[e].date <= event[s[i]].date
      BY <1>2, <1>4, <1>5, <3>1, <3>2, <3>3
    <3> QED
      BY <3>2, <3>4
  <2> QED
    BY <2>1, <2>2
<1> DEFINE f == [i \in 1 .. p - 1 |-> s[i]]
<1>7. f \in Bijection(1 .. p - 1, Before(e))
  <2>1. \A i \in 1 .. p - 1 : i \in 1 .. Len(s) /\ i < p
    BY <1>3
  <2>2. \A i \in 1 .. p - 1 : f[i] \in Before(e)
    BY <1>3, <1>6, <2>1 DEF Before, M
  <2>3. \A i, j \in 1 .. p - 1 : f[i] = f[j] => i = j
    BY <1>3, <2>1
  <2>4. \A d \in Before(e) : \E i \in 1 .. p - 1 : f[i] = d
    <3> SUFFICES ASSUME NEW d \in Before(e) PROVE \E i \in 1 .. p - 1 : f[i] = d
      OBVIOUS
    <3>1. PICK i \in 1 .. Len(s) : s[i] = d
      BY <1>3 DEF Before, M
    <3>2. i \in 1 .. p - 1
      BY <1>3, <1>6, <3>1 DEF Before
    <3> QED
      BY <3>1, <3>2
  <2> HIDE DEF f
  <2>5. f \in [1 .. p - 1 -> Before(e)]
    BY <2>2 DEF f
  <2> QED
    BY <2>3, <2>4, <2>5 DEF Bijection, Injection, Surjection, IsInjective
<1>8. Cardinality(Before(e)) = p - 1
  <2>1. p - 1 \in Nat
    BY <1>3
  <2>2. /\ IsFiniteSet(1 .. p - 1)
        /\ Cardinality(1 .. p - 1) = IF 1 > p - 1 THEN 0 ELSE (p - 1) - 1 + 1
    BY <2>1, FS_Interval
  <2>3. IsFiniteSet(1 .. p - 1) /\ Cardinality(1 .. p - 1) = p - 1
    BY <2>1, <2>2
  <2> QED
    BY <1>7, <2>3, FS_Bijection DEF ExistsBijection
<1> QED
  BY <1>3, <1>4, <1>8

(* So a page of a search by text lists it once or not at all, by its place.*)
LEMMA TextTimes ==
    ASSUME ConstantsAssumption, TypeOK, NEW e \in Matching(search.query), Ties(e) = {},
           Places \subseteq held,
           NEW page \in TextPages(search.query, search.offset)
    PROVE  LET n == Cardinality(Before(e))
           IN  /\ Times(page, e) =
                    IF search.offset <= n /\ n < search.offset + Limit THEN 1 ELSE 0
               /\ search.offset + Limit <= n => Len(page) = Limit
<1> DEFINE M == Matching(search.query)
           n == Cardinality(Before(e))
           offset == search.offset
           T == {i \in 1 .. Len(page) : page[i] = e}
<1>1. /\ n \in Nat /\ offset \in Nat /\ Limit \in Nat \ {0}
      /\ M \in SUBSET Events
  BY BeforeType DEF TypeOK, Client, ConstantsAssumption, Matching
<1>2. PICK s \in Ordered(M, [d \in Events |-> event[d].date]) : page = Page(s, offset)
  BY DEF TextPages
<1>3. s \in SetToSeqs(M)
  BY <1>2 DEF Ordered
<1>4. s \in Seq(M) /\ Len(s) \in Nat
  BY <1>1, <1>3, SelectionPages, LenProperties
<1>5. n + 1 \in 1 .. Len(s) /\ \A i \in 1 .. Len(s) : s[i] = e <=> i = n + 1
  BY PlaceOf
<1> HIDE DEF n, M, offset
<1>6. /\ Len(page) =
            IF offset + Limit <= Len(s) THEN Limit
            ELSE IF offset < Len(s) THEN Len(s) - offset ELSE 0
      /\ \A i \in 1 .. Len(page) :
            offset + i \in 1 .. Len(s) /\ page[i] = s[offset + i]
  BY <1>1, <1>2, <1>4, PageRows
<1>7. \A i \in 1 .. Len(page) : page[i] = e <=> i = n + 1 - offset
  BY <1>1, <1>5, <1>6
<1>8. n + 1 - offset \in 1 .. Len(page) <=> offset <= n /\ n < offset + Limit
  BY <1>1, <1>4, <1>5, <1>6
<1>9. T = IF offset <= n /\ n < offset + Limit THEN {n + 1 - offset} ELSE {}
  BY <1>7, <1>8
<1>10. Cardinality(T) = IF offset <= n /\ n < offset + Limit THEN 1 ELSE 0
  BY <1>9, FS_Singleton, FS_EmptySet
<1>11. offset + Limit <= n => Len(page) = Limit
  BY <1>1, <1>4, <1>5, <1>6
<1> QED
  BY <1>10, <1>11 DEF Times, n, offset

(* The step of a search by text keeps up with every event that stays.      *)
LEMMA TextFollows ==
    ASSUME ConstantsAssumption, PInv, Text, ~ search.aborted PROVE Following'
<1>1. PICK page \in TextPages(search.query, search.offset) : Answer(page, "text")
  BY DEF Text
<1>2. page \in Seq(Events) /\ TypeOK /\ search.pc = "text"
  BY WaysPages DEF PInv, Text
<1>3. /\ search' = [search EXCEPT !.pc = IF Len(page) = Limit THEN "paged" ELSE "end",
                                  !.strategy = "text"]
      /\ UNCHANGED <<catalogue, history>>
      /\ \A e \in Events : listed'[e] = listed[e] + Times(page, e)
  BY <1>1, <1>2, AnswerType
<1>4. /\ search'.pc = IF Len(page) = Limit THEN "paged" ELSE "end"
      /\ search'.offset = search.offset
      /\ search'.query = search.query /\ search'.semantic = search.semantic
  BY <1>2, <1>3 DEF TypeOK, Client
<1>5. ASSUME TextFirst, NEW e \in steady PROVE Followed(e)'
  <2>1. /\ e \in Events /\ e \in Matching(search.query) /\ Places \subseteq held
        /\ UNCHANGED <<event, visible, steady, held, gone, came>>
    BY <1>2, <1>3, <1>5 DEF PInv, TypeOK, Following, catalogue, history
  <2>2. Followed(e)
    BY <1>5 DEF PInv, Following
  <2>3. /\ Before(e)' = Before(e) /\ Ties(e)' = Ties(e)
        /\ NotAfter(e, gone)' = NotAfter(e, gone)
        /\ NotAfter(e, came)' = NotAfter(e, came)
    BY <1>4, <2>1 DEF Before, Matching, Ties, NotAfter
  <2> DEFINE n == Cardinality(Before(e))
  <2>4. n \in Nat /\ search.offset \in Nat /\ Limit \in Nat \ {0} /\ listed[e] \in Nat
    BY <1>2, <2>1, BeforeType DEF TypeOK, Client, ConstantsAssumption
  <2>5. Covered = search.offset /\ Covered' = search.offset + Limit
    BY <1>2, <1>4, <2>4 DEF Covered
  <2>6. ASSUME Ties(e) = {}
        PROVE  /\ Times(page, e) =
                    IF search.offset <= n /\ n < search.offset + Limit THEN 1 ELSE 0
               /\ search.offset + Limit <= n => Len(page) = Limit
    BY <1>2, <2>1, <2>6, TextTimes
  <2>7. listed'[e] = listed[e] + Times(page, e)
    BY <1>3, <2>1
  <2>8. n' = n
    BY <2>3
  <2> HIDE DEF n
  <2>9. ASSUME Ties(e) = {}, NotAfter(e, gone) = {}, listed'[e] = 0
        PROVE  search'.pc # "end" /\ Covered' <= n
    <3>1. listed[e] = 0 /\ search.offset <= n
      BY <2>2, <2>4, <2>5, <2>6, <2>7, <2>9 DEF Followed, n
    <3>2. search.offset + Limit <= n
      BY <2>4, <2>6, <2>7, <2>9, <3>1
    <3> QED
      BY <1>4, <2>5, <2>6, <2>9, <3>2
  <2>10. ASSUME Ties(e) = {}, NotAfter(e, came) = {}
         PROVE  listed'[e] <= 1 /\ (listed'[e] = 1 => n < Covered')
    <3>1. listed[e] <= 1 /\ (listed[e] = 1 => n < search.offset)
      BY <2>2, <2>5, <2>10 DEF Followed, n
    <3> QED
      BY <2>4, <2>5, <2>6, <2>7, <2>10, <3>1
  <2> QED
    BY <1>4, <2>1, <2>3, <2>8, <2>9, <2>10 DEF Followed, n
<1> QED
  BY <1>2, <1>3, <1>4, <1>5
  DEF PInv, Following, TextFirst, Matching, Places, catalogue, history

(* A row that comes, goes or moves shifts an event by at most that row.    *)
LEMMA ChangeFollows ==
    ASSUME ConstantsAssumption, PInv, NEW d \in Events, Change(d), search.pc # "idle"
    PROVE  Following'
<1>1. /\ UNCHANGED <<search, listed>> /\ steady' = steady \cap Matching(search.query)'
      /\ TypeOK /\ TypeOK' /\ steady \subseteq Matching(search.query)
      /\ held' = held \cup Places'
      /\ gone' = gone \cup (Places \ Places') /\ came' = came \cup (Places' \ Places)
  BY ChangeType DEF Change, PInv, Following
<1>2. ASSUME TextFirst, NEW e \in steady' PROVE Followed(e)'
  <2>1. /\ Followed(e) /\ e \in Events
        /\ e \in Matching(search.query) /\ e \in Matching(search.query)'
        /\ <<e, event[e].date>> \in Places /\ <<e, event'[e].date>> \in Places'
    BY <1>1, <1>2 DEF PInv, Following, TypeOK, Places
  <2>2. CASE event'[e].date # event[e].date
    <3>1. <<e, event[e].date>> \notin Places' /\ <<e, event'[e].date>> \notin Places
      BY <2>2 DEF Places
    <3>2. <<e, event[e].date>> \in gone' /\ <<e, event'[e].date>> \in came'
      BY <1>1, <2>1, <3>1
    <3>3. NotAfter(e, gone)' # {} /\ NotAfter(e, came)' # {}
      BY <3>2 DEF NotAfter
    <3> QED
      BY <3>3 DEF Followed
  <2>3. CASE event'[e].date = event[e].date
    <3>1. Covered' = Covered /\ (Ties(e)' = {} => Ties(e) = {})
      BY <1>1, <2>3 DEF Ties, Covered
    <3> DEFINE n == Cardinality(Before(e))
    <3>2. /\ n \in Nat /\ n' \in Nat /\ Covered \in Nat
          /\ IsFiniteSet(Before(e)) /\ IsFiniteSet(Before(e)')
          /\ event[e].date \in Nat
          /\ \A c \in Events : event[c].date \in Nat /\ event'[c].date \in Nat
      <4>1. Before(e)' \in SUBSET Events
        BY <1>1 DEF TypeOK, Before, Matching
      <4>2. n' \in Nat /\ IsFiniteSet(Before(e)')
        BY <4>1, FS_Subset, FS_CardinalityType DEF ConstantsAssumption
      <4>3. n \in Nat /\ IsFiniteSet(Before(e))
        BY <1>1, BeforeType
      <4>4. \A c \in Events : event[c].date \in Nat /\ event'[c].date \in Nat
        BY <1>1 DEF TypeOK, Event, ConstantsAssumption
      <4>5. Covered \in Nat
        BY <1>1 DEF TypeOK, Client, ConstantsAssumption, Covered
      <4> QED
        BY <2>1, <4>2, <4>3, <4>4, <4>5
    <3>3. ASSUME NotAfter(e, gone)' = {} PROVE NotAfter(e, gone) = {} /\ n <= n'
      <4>1. NotAfter(e, gone) = {}
        BY <1>1, <2>3, <3>3 DEF NotAfter
      <4>2. ASSUME NEW c \in Before(e) PROVE c \in Before(e)'
        <5>1. <<c, event[c].date>> \in Places /\ event[c].date < event[e].date /\ c \in Events
          BY <1>1, <4>2 DEF Before, Places, Matching, TypeOK
        <5>2. event[c].date <= event'[e].date
          BY <2>3, <3>2, <5>1
        <5>3. <<c, event[c].date>> \notin gone'
          BY <3>3, <5>2 DEF NotAfter
        <5>4. <<c, event[c].date>> \in Places'
          BY <1>1, <5>1, <5>3
        <5>5. c \in Matching(search.query)' /\ event'[c].date = event[c].date
          BY <5>4 DEF Places
        <5> QED
          BY <2>3, <5>1, <5>5 DEF Before
      <4>3. Before(e) \subseteq Before(e)'
        BY <4>2
      <4> QED
        BY <3>2, <4>1, <4>3, FS_Subset
    <3>4. ASSUME NotAfter(e, came)' = {} PROVE NotAfter(e, came) = {} /\ n' <= n
      <4>1. NotAfter(e, came) = {}
        BY <1>1, <2>3, <3>4 DEF NotAfter
      <4>2. ASSUME NEW c \in Before(e)' PROVE c \in Before(e)
        <5>1. <<c, event'[c].date>> \in Places' /\ event'[c].date < event'[e].date /\ c \in Events
          BY <1>1, <4>2 DEF Before, Places, Matching, TypeOK
        <5>2. event'[c].date <= event'[e].date
          BY <2>3, <3>2, <5>1
        <5>3. <<c, event'[c].date>> \notin came'
          BY <3>4, <5>2 DEF NotAfter
        <5>4. <<c, event'[c].date>> \in Places
          BY <1>1, <5>1, <5>3
        <5>5. c \in Matching(search.query) /\ event'[c].date = event[c].date
          BY <5>4 DEF Places
        <5> QED
          BY <2>3, <5>1, <5>5 DEF Before
      <4>3. Before(e)' \subseteq Before(e)
        BY <4>2
      <4> QED
        BY <3>2, <4>1, <4>3, FS_Subset
    <3> HIDE DEF n
    <3>5. /\ NotAfter(e, gone)' = {} /\ listed[e] = 0 /\ Covered <= n => Covered <= n'
          /\ NotAfter(e, came)' = {} /\ n < Covered => n' < Covered
      BY <3>2, <3>3, <3>4
    <3> QED
      BY <1>1, <2>1, <3>1, <3>3, <3>4, <3>5 DEF Followed, n
  <2> QED
    BY <2>2, <2>3
<1>3. TextFirst' = TextFirst /\ search.pc = search'.pc
  BY <1>1 DEF TextFirst
<1>4. steady' \subseteq Matching(search.query)' /\ Places' \subseteq held'
  BY <1>1
<1> QED
  BY <1>2, <1>3, <1>4 DEF PInv, Following

(* RF-01, by text, while events come, go and are edited: an event that     *)
(* matched all along is missed only if it or a row not after it moved or   *)
(* left, repeated only if it or one not after it moved or came, and else   *)
(* only if it tied with another.                                           *)
THEOREM PagesMissNothing == ASSUME ConstantsAssumption PROVE Spec => []PagesListAll
<1>1. Init => Following
  BY DEF Init, Following
<1>2. TypeOK /\ Following /\ [Next]_vars => Following'
  <2>1. ASSUME PInv, UNCHANGED vars PROVE Following'
    BY <2>1 DEF PInv, Following, TextFirst, Followed, Ties, NotAfter, Covered, Before,
                Matching, Places, vars, catalogue, history
  <2>2. ASSUME PInv, NEW semantic \in BOOLEAN, NEW query \in Queries, Ask(semantic, query)
        PROVE  Following'
    <3>1. /\ search'.pc = FirstStrategy(semantic, query) /\ search'.offset = 0
          /\ search'.semantic = semantic /\ search'.query = query
          /\ steady' = Matching(query) /\ UNCHANGED <<catalogue, listed>>
          /\ held' = Places' /\ search.pc = "idle"
      BY <2>2 DEF Ask
    <3>2. /\ FirstStrategy(semantic, query) \notin {"idle", "end", "paged"}
          /\ steady' \subseteq Events /\ \A e \in Events : listed[e] = 0
      BY <2>2, <3>1 DEF FirstStrategy, PInv, Following, TypeOK, Matching
    <3>3. ASSUME NEW e \in steady' PROVE Followed(e)'
      <4>1. TypeOK'
        BY <2>2, RequestType DEF PInv
      <4>2. Before(e)' \in SUBSET Events
        BY <4>1 DEF TypeOK, Before, Matching
      <4>3. Cardinality(Before(e))' \in Nat
        BY <4>2, FS_Subset, FS_CardinalityType DEF ConstantsAssumption
      <4>4. Covered' = 0 /\ listed'[e] = 0
        BY <3>1, <3>2, <3>3 DEF Covered
      <4> QED
        BY <3>1, <3>2, <4>3, <4>4 DEF Followed
    <3> QED
      BY <3>1, <3>2, <3>3 DEF Following, TextFirst, Matching, catalogue
  <2>3. ASSUME PInv, NextPage \/ \E pc, aborted : pc \in {"text", "vector", "unanswered"}
                                     /\ Continue(pc, aborted)
                                     /\ (search.pc = "text" => pc = "unanswered")
                                     /\ search.pc \in {"curated", "vector", "text"}
        PROVE  Following'
    <3>1. /\ UNCHANGED <<catalogue, listed, history>>
          /\ search'.query = search.query /\ search'.semantic = search.semantic
          /\ search.pc # "idle" /\ search'.pc # "idle"
          /\ TextFirst => /\ search'.pc \notin {"curated", "vector", "end"}
                          /\ Covered' = Covered
      <4>1. CASE NextPage
        <5>1. /\ search'.query = search.query /\ search'.semantic = search.semantic
              /\ search'.offset = search.offset + Limit /\ search.pc = "paged"
              /\ search'.pc = FirstStrategy(search.semantic, search.query)
              /\ UNCHANGED <<catalogue, listed, history>>
              /\ search.offset + Limit + 0 = search.offset + Limit
          BY <2>3, <4>1 DEF NextPage, PInv, TypeOK, Client, ConstantsAssumption
        <5>2. FirstStrategy(search.semantic, search.query) \notin {"idle", "paged"}
          BY DEF FirstStrategy
        <5> QED
          BY <5>1, <5>2 DEF Covered, TextFirst
      <4>2. CASE ~ NextPage
        <5>1. PICK pc, aborted :
                /\ pc \in {"text", "vector", "unanswered"} /\ Continue(pc, aborted)
                /\ search.pc = "text" => pc = "unanswered"
                /\ search.pc \in {"curated", "vector", "text"}
          BY <2>3, <4>2
        <5>2. /\ search'.query = search.query /\ search'.semantic = search.semantic
              /\ search'.offset = search.offset /\ search'.pc = pc
              /\ UNCHANGED <<catalogue, listed, history>>
          BY <2>3, <5>1 DEF Continue, PInv, TypeOK, Client
        <5>3. TextFirst => search.pc = "text"
          BY <2>3, <5>1 DEF PInv, Following
        <5> QED
          BY <5>1, <5>2, <5>3 DEF Covered
      <4> QED
        BY <4>1, <4>2
    <3> QED
      BY <2>3, <3>1
      DEF PInv, Following, TextFirst, Followed, Ties, NotAfter, Before, Matching,
          Places, catalogue, history
  <2>4. ASSUME PInv, NEW page \in Seq(Events), NEW strategy \in {"curated", "vector"},
               Answer(page, strategy), search.pc = strategy
        PROVE  Following'
    <3>1. /\ UNCHANGED <<catalogue, history>> /\ ~ TextFirst
          /\ search'.query = search.query /\ search'.semantic = search.semantic
          /\ search'.pc # "idle"
      BY <2>4 DEF Answer, PInv, Following, TypeOK, Client
    <3> QED
      BY <2>4, <3>1 DEF PInv, Following, TextFirst, Matching, Places, catalogue, history
  <2>5. ASSUME PInv, Curated \/ Vector PROVE Following'
    <3>1. /\ \A page \in CuratedPages : page \in Seq(Events)
          /\ \A page \in VectorPages : page \in Seq(Events)
      BY <2>5, WaysPages DEF PInv
    <3> QED
      BY <2>3, <2>4, <2>5, <3>1 DEF Curated, Vector
  <2>6. ASSUME PInv, EmbedFails \/ SelectFails PROVE Following'
    BY <2>3, <2>6 DEF EmbedFails, SelectFails
  <2>7. ASSUME PInv, Text PROVE Following'
    BY <2>3, <2>7, TextFollows DEF Text
  <2>8. ASSUME PInv, search.pc # "idle", NEW e \in Events, Change(e) PROVE Following'
    BY <2>8, ChangeFollows
  <2> QED
    BY <2>1, <2>2, <2>3, <2>5, <2>6, <2>7, <2>8 DEF PInv, Next
<1>3. TypeOK /\ Following => PagesListAll
  <2>1. ASSUME TypeOK, Following, TextFirst, NEW e \in steady
        PROVE  /\ search.pc = "end" /\ listed[e] = 0 => NotAfter(e, gone) \cup Ties(e) # {}
               /\ listed[e] > 1 => NotAfter(e, came) \cup Ties(e) # {}
    <3>1. Followed(e) /\ listed[e] \in Nat
      BY <2>1 DEF Following, TypeOK
    <3> QED
      BY <2>1, <3>1 DEF Followed
  <2> QED
    BY <2>1 DEF PagesListAll, TextFirst
<1> QED
  BY <1>1, <1>2, <1>3, TypeCorrect, PTL DEF Spec
=============================================================================
