---------------------------- MODULE RequestsProofs ----------------------------
(***************************************************************************)
(* Theorems about Requests for every number of requests and connections.   *)
(***************************************************************************)
EXTENDS Requests, FiniteSetTheorems, TLAPS

USE ConstantsAssumption

-----------------------------------------------------------------------------
(* The invariant *)

(* Until its transaction ends a request has left nothing.                  *)
Pending == {"idle", "admit", "denied", "denying", "wait", "handler", "commit", "refuse", "break"}

Nothing(r) == r \notin changed /\ Rows(r) = {}

Kept(r) ==
    /\ r \in changed <=> request[r].endpoint = "change"
    /\ Rows(r) = {r} \X AuditedAs(request[r].endpoint)

(* What a request holds back to its commit.                                *)
Draft(r) ==
    /\ "row" \in request[r].flushed => request[r].endpoint = "change"
    /\ "audit" \in request[r].flushed =>
         /\ AuditedAs(request[r].endpoint) # {}
         /\ request[r].endpoint = "change" => "row" \in request[r].flushed
    /\ request[r].pc = "commit" =>
         ("audit" \in request[r].flushed <=> AuditedAs(request[r].endpoint) # {})

(* What the status says, once it is decided.                               *)
Decided(r) ==
    /\ request[r].pc \in Pending => Nothing(r)
    /\ request[r].pc \in {"answer", "sent", "done"} =>
         /\ request[r].status = 200 => Kept(r)
         /\ request[r].status \in 400 .. 499 =>
              r \notin changed /\ Rows(r) \subseteq {<<r, "access_denied">>}
    /\ request[r].pc \in {"raised", "logged"} => request[r].status = 500
    /\ request[r].pc = "refuse" => request[r].status \in 400 .. 499

(* What has left the server agrees with it.                                *)
Told(r) ==
    /\ response[r].status # 0 =>
         request[r].pc \in {"sent", "done", "lost"} /\ response[r].status = request[r].status
    /\ log[r] # 0 =>
         request[r].pc \in {"logged", "done", "lost"} /\ log[r] = request[r].status
    /\ request[r].pc = "logged" => log[r] = 500
    /\ response[r].status # 0 /\ ~response[r].traced => log[r] = 500

Inv ==
    /\ TypeOK /\ IsFiniteSet(conn)
    /\ StatusTellsOutcome /\ ChangedIffAudited
    /\ \A r \in Requests : Draft(r) /\ Decided(r) /\ Told(r)

-----------------------------------------------------------------------------
(* Connections and types *)

(* Taking and giving back a connection.                                    *)
LEMMA TakesConn ==
    ASSUME Inv, NEW r \in Requests, Takes(r)
    PROVE  IsFiniteSet(conn') /\ conn' \subseteq Requests /\ Cardinality(conn') <= Pool
<1>1. IsFiniteSet(conn) /\ conn \subseteq Requests /\ Cardinality(conn) < Pool
  BY DEF Inv, TypeOK, Takes
<1>2. Cardinality(conn) \in Nat
  BY <1>1, FS_CardinalityType
<1>3. /\ IsFiniteSet(conn \cup {r})
      /\ Cardinality(conn \cup {r}) \in {Cardinality(conn), Cardinality(conn) + 1}
  BY <1>1, FS_AddElement
<1> QED
  BY <1>1, <1>2, <1>3 DEF Takes

LEMMA GivesConn ==
    ASSUME Inv, NEW r \in Requests, conn' = conn \ {r} \/ conn' = conn
    PROVE  IsFiniteSet(conn') /\ conn' \subseteq Requests /\ Cardinality(conn') <= Pool
<1>1. IsFiniteSet(conn) /\ conn \subseteq Requests /\ Cardinality(conn) <= Pool
  BY DEF Inv, TypeOK
<1>2. Cardinality(conn) \in Nat
  BY <1>1, FS_CardinalityType
<1>3. /\ IsFiniteSet(conn \ {r})
      /\ Cardinality(conn \ {r}) \in {Cardinality(conn), Cardinality(conn) - 1}
  BY <1>1, FS_RemoveElement
<1> QED
  BY <1>1, <1>2, <1>3

(* A step of a request changes its place and its status.                   *)
LEMMA GoesTo ==
    ASSUME Inv, NEW r \in Requests, NEW from, NEW to \in Places, NEW status \in Statuses,
           Goes(r, from, to, status)
    PROVE  /\ request[r].pc = from
           /\ request' \in [Requests -> Request]
           /\ \A p \in Requests : p # r => request'[p] = request[p]
           /\ request'[r].pc = to /\ request'[r].status = status
           /\ request'[r].endpoint = request[r].endpoint
           /\ request'[r].flushed = request[r].flushed
<1>1. request \in [Requests -> Request]
  BY DEF Inv, TypeOK
<1> DEFINE s == [request[r] EXCEPT !.pc = to, !.status = status]
<1>2. /\ s \in Request /\ s.pc = to /\ s.status = status
      /\ s.endpoint = request[r].endpoint /\ s.flushed = request[r].flushed
  BY <1>1 DEF Request
<1>3. request' = [request EXCEPT ![r] = s]
  BY <1>1 DEF Goes
<1> HIDE DEF s
<1> QED
  BY <1>1, <1>2, <1>3 DEF Goes

-----------------------------------------------------------------------------
(* Steps *)

(* A step of r that keeps the invariant of r keeps that of all: no step    *)
(* touches the rows, the response or the log of another.                   *)
LEMMA Local ==
    ASSUME Inv, NEW r \in Requests, TypeOK', IsFiniteSet(conn'),
           \A p \in Requests : p # r =>
              /\ request'[p] = request[p] /\ response'[p] = response[p] /\ log'[p] = log[p]
              /\ p \in changed' <=> p \in changed
              /\ Rows(p)' = Rows(p),
           (Draft(r) /\ Decided(r) /\ Told(r))',
           r \in changed' <=> <<r, "change">> \in audit',
           response'[r].status # 0 => request'[r].pc # "lost"
    PROVE  Inv'
<1>1. ASSUME NEW p \in Requests
      PROVE  (Draft(p) /\ Decided(p) /\ Told(p))'
  <2>1. CASE p # r
    <3>1. Draft(p) /\ Decided(p) /\ Told(p)
      BY DEF Inv
    <3>2. Draft(p)' /\ Told(p)'
      BY <2>1, <3>1 DEF Draft, Told
    <3>3. Decided(p)'
      BY <2>1, <3>1 DEF Decided, Nothing, Kept
    <3> QED
      BY <3>2, <3>3
  <2> QED
    BY <2>1
<1>2. ChangedIffAudited'
  <2>1. \A p \in Requests : <<p, "change">> \in audit <=> <<p, "change">> \in Rows(p)
    BY DEF Rows
  <2>2. \A p \in Requests : <<p, "change">> \in audit' <=> <<p, "change">> \in Rows(p)'
    BY DEF Rows
  <2> QED
    BY <2>1, <2>2 DEF Inv, ChangedIffAudited
<1>3. StatusTellsOutcome'
  <2> SUFFICES ASSUME NEW p \in Requests
               PROVE  /\ response'[p].status = 200 => Kept(p)'
                      /\ response'[p].status \in 400 .. 499 =>
                           p \notin changed' /\ Rows(p)' \subseteq {<<p, "access_denied">>}
    BY DEF StatusTellsOutcome, Kept
  <2>1. CASE p # r
    <3>1. /\ response[p].status = 200 => Kept(p)
          /\ response[p].status \in 400 .. 499 =>
               p \notin changed /\ Rows(p) \subseteq {<<p, "access_denied">>}
      BY DEF Inv, StatusTellsOutcome, Kept
    <3> QED
      BY <2>1, <3>1 DEF Kept
  <2>2. CASE p = r
    BY <2>2 DEF Told, Decided
  <2> QED
    BY <2>1, <2>2
<1> QED
  BY <1>1, <1>2, <1>3 DEF Inv

(* A step that leaves the database, the response and the log alone.        *)
LEMMA Quiet ==
    ASSUME Inv, NEW r \in Requests, NEW from \in Pending \cup {"raised"},
           NEW to \in Pending \cup {"answer", "raised"}, NEW status \in Statuses,
           Goes(r, from, to, status), UNCHANGED <<database, response, log>>,
           conn' = conn \/ conn' = conn \ {r} \/ Takes(r),
           to \in Pending => from \in Pending,
           to = "commit" =>
               ("audit" \in request[r].flushed <=> AuditedAs(request[r].endpoint) # {}),
           to = "answer" => from \in Pending /\ status \in 400 .. 499,
           to = "raised" => status = 500,
           to = "refuse" => status \in 400 .. 499
    PROVE  Inv'
<1>1. to \in Places
  BY DEF Pending, Places
<1>2. /\ request[r].pc = from
      /\ request' \in [Requests -> Request]
      /\ \A p \in Requests : p # r => request'[p] = request[p]
      /\ request'[r].pc = to /\ request'[r].status = status
      /\ request'[r].endpoint = request[r].endpoint
      /\ request'[r].flushed = request[r].flushed
  BY <1>1, GoesTo
<1>3. UNCHANGED <<changed, audit, response, log>>
  BY DEF database
<1>4. IsFiniteSet(conn') /\ conn' \subseteq Requests /\ Cardinality(conn') <= Pool
  BY TakesConn, GivesConn
<1>5. TypeOK' /\ IsFiniteSet(conn')
  BY <1>2, <1>3, <1>4 DEF Inv, TypeOK
<1>6. Draft(r) /\ Decided(r) /\ Told(r)
  BY DEF Inv
<1>7. Draft(r)'
  BY <1>2, <1>6 DEF Draft
<1>8. from \in Pending => Nothing(r)
  BY <1>2, <1>6 DEF Decided
<1>9. Rows(r)' = Rows(r) /\ (Nothing(r) => Nothing(r)')
  BY <1>3 DEF Rows, Nothing
<1>10. status \in 400 .. 499 => status # 200
  OBVIOUS
<1>11. Decided(r)'
  BY <1>2, <1>3, <1>8, <1>9, <1>10 DEF Decided, Nothing, Pending
<1>12. response[r].status = 0 /\ log[r] = 0
  BY <1>2, <1>6 DEF Told, Pending
<1>13. Told(r)'
  BY <1>2, <1>3, <1>12 DEF Told, Pending
<1>14. r \in changed' <=> <<r, "change">> \in audit'
  BY <1>3 DEF Inv, ChangedIffAudited
<1>15. \A p \in Requests : p # r =>
          /\ request'[p] = request[p] /\ response'[p] = response[p] /\ log'[p] = log[p]
          /\ p \in changed' <=> p \in changed
          /\ Rows(p)' = Rows(p)
  BY <1>2, <1>3 DEF Rows
<1> QED
  BY <1>3, <1>5, <1>7, <1>11, <1>12, <1>13, <1>14, <1>15, Local

(* Rows added for r are rows of r.                                         *)
LEMMA RowsAdded ==
    ASSUME Inv, NEW r \in Requests, NEW S, audit' = audit \cup ({r} \X S)
    PROVE  /\ \A p \in Requests : p # r => Rows(p)' = Rows(p)
           /\ Rows(r)' = Rows(r) \cup ({r} \X S)
<1>1. \A row \in {r} \X S : row[1] = r
  OBVIOUS
<1> QED
  BY <1>1 DEF Rows

LEMMA DeniedCommitStep == ASSUME Inv, NEW r \in Requests, DeniedCommit(r) PROVE Inv'
<1>1. Goes(r, "denying", "answer", 403) /\ conn' = conn \ {r}
      /\ audit' = audit \cup {<<r, "access_denied">>}
      /\ UNCHANGED <<changed, response, log>>
  BY DEF DeniedCommit
<1>2. "answer" \in Places /\ 403 \in Statuses
  BY DEF Places, Statuses
<1>3. /\ request[r].pc = "denying"
      /\ request' \in [Requests -> Request]
      /\ \A p \in Requests : p # r => request'[p] = request[p]
      /\ request'[r].pc = "answer" /\ request'[r].status = 403
      /\ request'[r].endpoint = request[r].endpoint
      /\ request'[r].flushed = request[r].flushed
  BY <1>1, <1>2, GoesTo
<1>4. IsFiniteSet(conn') /\ conn' \subseteq Requests /\ Cardinality(conn') <= Pool
  BY <1>1, GivesConn
<1>5. TypeOK'
  BY <1>1, <1>3, <1>4 DEF Inv, TypeOK
<1>6. Draft(r) /\ Decided(r) /\ Told(r)
  BY DEF Inv
<1>7. {<<r, "access_denied">>} = {r} \X {"access_denied"}
  OBVIOUS
<1>8. /\ \A p \in Requests : p # r => Rows(p)' = Rows(p)
      /\ Rows(r)' = Rows(r) \cup {<<r, "access_denied">>}
  BY <1>1, <1>7, RowsAdded
<1>9. r \notin changed /\ Rows(r) = {}
  BY <1>3, <1>6 DEF Decided, Nothing, Pending
<1>10. Decided(r)'
  BY <1>1, <1>3, <1>8, <1>9 DEF Decided, Pending
<1>11. Draft(r)'
  BY <1>3, <1>6 DEF Draft
<1>12. response[r].status = 0 /\ log[r] = 0
  BY <1>3, <1>6 DEF Told
<1>13. Told(r)'
  BY <1>1, <1>3, <1>12 DEF Told
<1>14. r \in changed' <=> <<r, "change">> \in audit'
  BY <1>1, <1>9 DEF Rows
<1>15. /\ \A p \in Requests : p # r =>
          /\ request'[p] = request[p] /\ response'[p] = response[p] /\ log'[p] = log[p]
          /\ p \in changed' <=> p \in changed
          /\ Rows(p)' = Rows(p)
  BY <1>1, <1>3, <1>8
<1>16. (Draft(r) /\ Decided(r) /\ Told(r))'
  BY <1>10, <1>11, <1>13
<1>17. response'[r].status # 0 => request'[r].pc # "lost"
  BY <1>3
<1>18. TypeOK' /\ IsFiniteSet(conn')
  BY <1>4, <1>5
<1> QED
  BY <1>14, <1>15, <1>16, <1>17, <1>18, Local

(* What a commit stores is what the endpoint owes.                         *)
LEMMA StoresKept ==
    ASSUME Inv, NEW r \in Requests, request[r].pc = "commit", Stores(r)
    PROVE  /\ r \in changed' <=> request[r].endpoint = "change"
           /\ Rows(r)' = {r} \X AuditedAs(request[r].endpoint)
           /\ \A p \in Requests : p # r => (p \in changed' <=> p \in changed) /\ Rows(p)' = Rows(p)
           /\ changed' \subseteq Requests
           /\ audit' \subseteq Requests \X {"change", "pii_access", "access_denied"}
           /\ r \in changed' <=> <<r, "change">> \in audit'
<1>1. Draft(r) /\ Nothing(r)
  BY DEF Inv, Decided, Pending
<1>2. request[r].endpoint \in Endpoints
  BY DEF Inv, TypeOK, Request
<1>3. /\ AuditedAs(request[r].endpoint) \subseteq {"change", "pii_access"}
      /\ "change" \in AuditedAs(request[r].endpoint) <=> request[r].endpoint = "change"
  BY <1>2 DEF AuditedAs, Endpoints
<1>4. "row" \in request[r].flushed <=> request[r].endpoint = "change"
  BY <1>1, <1>3 DEF Draft
<1> DEFINE S == IF "audit" \in request[r].flushed THEN AuditedAs(request[r].endpoint) ELSE {}
<1>5. S = AuditedAs(request[r].endpoint)
  BY <1>1 DEF Draft
<1>6. audit' = audit \cup ({r} \X S)
  BY DEF Stores
<1> HIDE DEF S
<1>7. changed' = IF request[r].endpoint = "change" THEN changed \cup {r} ELSE changed
  BY <1>4 DEF Stores
<1>8. /\ \A p \in Requests : p # r => Rows(p)' = Rows(p)
      /\ Rows(r)' = {r} \X AuditedAs(request[r].endpoint)
  BY <1>1, <1>5, <1>6, RowsAdded DEF Nothing
<1>9. r \in changed' <=> request[r].endpoint = "change"
  BY <1>1, <1>7 DEF Nothing
<1>10. <<r, "change">> \in audit' <=> <<r, "change">> \in Rows(r)'
  BY DEF Rows
<1>11. <<r, "change">> \in Rows(r)' <=> request[r].endpoint = "change"
  BY <1>3, <1>8
<1>12. audit' \subseteq Requests \X {"change", "pii_access", "access_denied"}
  BY <1>3, <1>5, <1>6 DEF Inv, TypeOK
<1>13. changed' \subseteq Requests
  BY <1>7 DEF Inv, TypeOK
<1> QED
  BY <1>7, <1>8, <1>9, <1>10, <1>11, <1>12, <1>13

LEMMA StoresStep ==
    ASSUME Inv, NEW r \in Requests, NEW to, NEW status, Goes(r, "commit", to, status),
           \/ to = "answer" /\ status = 200
           \/ to = "raised" /\ status = 500,
           Stores(r), conn' = conn \ {r}, UNCHANGED <<response, log>>
    PROVE  Inv'
<1>1. to \in Places /\ status \in Statuses
  BY DEF Places, Statuses
<1>2. /\ request[r].pc = "commit"
      /\ request' \in [Requests -> Request]
      /\ \A p \in Requests : p # r => request'[p] = request[p]
      /\ request'[r].pc = to /\ request'[r].status = status
      /\ request'[r].endpoint = request[r].endpoint
      /\ request'[r].flushed = request[r].flushed
  BY <1>1, GoesTo
<1>3. IsFiniteSet(conn') /\ conn' \subseteq Requests /\ Cardinality(conn') <= Pool
  BY GivesConn
<1>4. /\ r \in changed' <=> request[r].endpoint = "change"
      /\ Rows(r)' = {r} \X AuditedAs(request[r].endpoint)
      /\ \A p \in Requests : p # r => (p \in changed' <=> p \in changed) /\ Rows(p)' = Rows(p)
      /\ changed' \subseteq Requests
      /\ audit' \subseteq Requests \X {"change", "pii_access", "access_denied"}
      /\ r \in changed' <=> <<r, "change">> \in audit'
  BY <1>2, StoresKept
<1>5. TypeOK'
  BY <1>2, <1>3, <1>4 DEF Inv, TypeOK
<1>6. Draft(r) /\ Told(r)
  BY DEF Inv
<1>7. Draft(r)'
  BY <1>2, <1>6 DEF Draft
<1>8. Kept(r)'
  BY <1>2, <1>4 DEF Kept
<1>9. Decided(r)'
  BY <1>2, <1>8 DEF Decided, Pending
<1>10. Told(r)'
  BY <1>2, <1>6 DEF Told
<1>11. /\ \A p \in Requests : p # r =>
            /\ request'[p] = request[p] /\ response'[p] = response[p] /\ log'[p] = log[p]
            /\ p \in changed' <=> p \in changed
            /\ Rows(p)' = Rows(p)
       /\ response'[r].status # 0 => request'[r].pc # "lost"
  BY <1>2, <1>4
<1> QED
  BY <1>3, <1>4, <1>5, <1>7, <1>9, <1>10, <1>11, Local

(* The change and its audit row are flushed.                               *)
LEMMA FlushedStep ==
    ASSUME Inv, NEW r \in Requests, NEW x \in {"row", "audit"},
           request[r].pc = "handler",
           request' = [request EXCEPT ![r].flushed = @ \cup {x}],
           UNCHANGED <<conn, database, response, log>>,
           IF x = "row" THEN request[r].endpoint = "change"
           ELSE /\ AuditedAs(request[r].endpoint) # {}
                /\ "row" \in request[r].flushed <=> request[r].endpoint = "change"
    PROVE  Inv'
<1>1. request \in [Requests -> Request]
  BY DEF Inv, TypeOK
<1> DEFINE s == [request[r] EXCEPT !.flushed = @ \cup {x}]
<1>2. /\ s \in Request /\ s.pc = "handler" /\ s.status = request[r].status
      /\ s.endpoint = request[r].endpoint /\ s.flushed = request[r].flushed \cup {x}
  BY <1>1 DEF Request
<1>3. request' = [request EXCEPT ![r] = s]
  BY <1>1
<1> HIDE DEF s
<1>4. /\ request' \in [Requests -> Request] /\ request'[r] = s
      /\ \A p \in Requests : p # r => request'[p] = request[p]
  BY <1>1, <1>2, <1>3
<1>5. UNCHANGED <<conn, changed, audit, response, log>>
  BY DEF database
<1>6. TypeOK' /\ IsFiniteSet(conn')
  BY <1>4, <1>5 DEF Inv, TypeOK
<1>7. Draft(r) /\ Decided(r) /\ Told(r)
  BY DEF Inv
<1>8. Draft(r)'
  BY <1>2, <1>4, <1>7 DEF Draft
<1>9. Rows(r)' = Rows(r)
  BY <1>5 DEF Rows
<1>10. Decided(r)'
  BY <1>2, <1>4, <1>5, <1>7, <1>9 DEF Decided, Pending, Nothing
<1>11. response[r].status = 0 /\ log[r] = 0
  BY <1>7 DEF Told
<1>12. Told(r)'
  BY <1>5, <1>11 DEF Told
<1>13. r \in changed' <=> <<r, "change">> \in audit'
  BY <1>5 DEF Inv, ChangedIffAudited
<1>14. /\ \A p \in Requests : p # r =>
            /\ request'[p] = request[p] /\ response'[p] = response[p] /\ log'[p] = log[p]
            /\ p \in changed' <=> p \in changed
            /\ Rows(p)' = Rows(p)
       /\ response'[r].status # 0 => request'[r].pc # "lost"
  BY <1>4, <1>5, <1>11 DEF Rows
<1> QED
  BY <1>6, <1>8, <1>10, <1>12, <1>13, <1>14, Local

(* The response and the line of the log.                                   *)
LEMMA ToldStep ==
    ASSUME Inv, NEW r \in Requests, NEW from, NEW to \in {"sent", "done", "logged"},
           Goes(r, from, to, request[r].status),
           UNCHANGED <<conn, database>>,
           response' \in [Requests -> [status : Statuses, traced : BOOLEAN]],
           log' \in [Requests -> Statuses],
           \A p \in Requests : p # r => response'[p] = response[p] /\ log'[p] = log[p],
           from \in {"answer", "sent", "raised", "logged"},
           to = "logged" => from = "raised" /\ response'[r] = response[r] /\ log'[r] = 500,
           to # "logged" => from # "raised",
           to = "sent" => from = "answer" /\ log'[r] = log[r],
           response'[r] = response[r] \/ response'[r].status = request[r].status,
           response'[r] = response[r] \/ response'[r].traced \/ log'[r] = 500,
           log'[r] = log[r] \/ log'[r] = request[r].status
    PROVE  Inv'
<1>1. to \in Places /\ request[r].status \in Statuses
  BY DEF Places, Inv, TypeOK, Request
<1>2. /\ request[r].pc = from
      /\ request' \in [Requests -> Request]
      /\ \A p \in Requests : p # r => request'[p] = request[p]
      /\ request'[r].pc = to /\ request'[r].status = request[r].status
      /\ request'[r].endpoint = request[r].endpoint
      /\ request'[r].flushed = request[r].flushed
  BY <1>1, GoesTo
<1>3. UNCHANGED <<conn, changed, audit>>
  BY DEF database
<1>4. TypeOK' /\ IsFiniteSet(conn')
  BY <1>2, <1>3 DEF Inv, TypeOK
<1>5. Draft(r) /\ Decided(r) /\ Told(r)
  BY DEF Inv
<1>6. Draft(r)'
  BY <1>2, <1>5 DEF Draft
<1>7. Rows(r)' = Rows(r) /\ (Kept(r) => Kept(r)')
  BY <1>2, <1>3 DEF Rows, Kept
<1>8. from \in {"raised", "logged"} => request[r].status = 500
  BY <1>2, <1>5 DEF Decided
<1>9. /\ r \in changed' <=> <<r, "change">> \in audit'
      /\ \A p \in Requests : p # r =>
            /\ request'[p] = request[p] /\ response'[p] = response[p] /\ log'[p] = log[p]
            /\ p \in changed' <=> p \in changed
            /\ Rows(p)' = Rows(p)
      /\ response'[r].status # 0 => request'[r].pc # "lost"
  BY <1>2, <1>3 DEF Inv, ChangedIffAudited, Rows
<1>10. CASE to = "logged"
  <2>1. Decided(r)'
    BY <1>2, <1>8, <1>10 DEF Decided, Pending
  <2>2. response[r].status = 0
    BY <1>2, <1>5, <1>10 DEF Told
  <2>3. Told(r)'
    BY <1>2, <1>5, <1>10, <2>2 DEF Told
  <2> QED
    BY <1>4, <1>6, <1>9, <2>1, <2>3, Local
<1>11. CASE to # "logged"
  <2>1. Decided(r)'
    BY <1>2, <1>3, <1>5, <1>7, <1>8, <1>11 DEF Decided, Pending
  <2>2. Told(r)'
    <3>1. CASE to = "sent"
      <4>1. log[r] = 0
        BY <1>2, <1>5, <3>1 DEF Told
      <4> QED
        BY <1>2, <1>5, <3>1, <4>1 DEF Told
    <3>2. CASE to = "done"
      BY <1>2, <1>5, <3>2 DEF Told
    <3> QED
      BY <1>11, <3>1, <3>2
  <2> QED
    BY <1>4, <1>6, <1>9, <2>1, <2>2, Local
<1> QED
  BY <1>10, <1>11

LEMMA SendStep == ASSUME Inv, NEW r \in Requests, Send(r) PROVE Inv'
<1>1. Goes(r, "answer", "sent", request[r].status)
      /\ response' = [response EXCEPT ![r] = [status |-> request[r].status, traced |-> TRUE]]
      /\ UNCHANGED <<conn, database, log>>
  BY DEF Send
<1>2. request[r].status \in Statuses /\ response \in [Requests -> [status : Statuses, traced : BOOLEAN]]
      /\ log \in [Requests -> Statuses]
  BY DEF Inv, TypeOK, Request
<1>3. [status |-> request[r].status, traced |-> TRUE] \in [status : Statuses, traced : BOOLEAN]
  BY <1>2
<1>4. response' \in [Requests -> [status : Statuses, traced : BOOLEAN]]
  BY <1>1, <1>2, <1>3
<1>5. response'[r].status = request[r].status
  BY <1>1, <1>2
<1>6. \A p \in Requests : p # r => response'[p] = response[p] /\ log'[p] = log[p]
  BY <1>1, <1>2
<1> QED
  BY <1>1, <1>2, <1>4, <1>5, <1>6, ToldStep

LEMMA LogAccessStep == ASSUME Inv, NEW r \in Requests, LogAccess(r) PROVE Inv'
<1>1. Goes(r, "sent", "done", request[r].status)
      /\ log' = [log EXCEPT ![r] = request[r].status]
      /\ UNCHANGED <<conn, database, response>>
  BY DEF LogAccess
<1>2. request[r].status \in Statuses /\ response \in [Requests -> [status : Statuses, traced : BOOLEAN]]
      /\ log \in [Requests -> Statuses]
  BY DEF Inv, TypeOK, Request
<1>3. log' \in [Requests -> Statuses] /\ log'[r] = request[r].status
      /\ \A p \in Requests : p # r => response'[p] = response[p] /\ log'[p] = log[p]
  BY <1>1, <1>2
<1> QED
  BY <1>1, <1>2, <1>3, ToldStep

LEMMA LogRaisedStep == ASSUME Inv, NEW r \in Requests, LogRaised(r) PROVE Inv'
<1>1. Goes(r, "raised", "logged", 500) /\ log' = [log EXCEPT ![r] = 500]
      /\ UNCHANGED <<conn, database, response>>
  BY DEF LogRaised
<1>2. request[r].status = 500
  BY <1>1 DEF Inv, Decided, Goes
<1>3. 500 \in Statuses /\ response \in [Requests -> [status : Statuses, traced : BOOLEAN]]
      /\ log \in [Requests -> Statuses]
  BY DEF Inv, TypeOK, Statuses
<1>4. log' \in [Requests -> Statuses] /\ log'[r] = request[r].status
      /\ \A p \in Requests : p # r => response'[p] = response[p] /\ log'[p] = log[p]
  BY <1>1, <1>2, <1>3
<1>5. Goes(r, "raised", "logged", request[r].status) /\ response'[r] = response[r]
      /\ log'[r] = 500
  BY <1>1, <1>2, <1>4
<1>6. response' \in [Requests -> [status : Statuses, traced : BOOLEAN]]
  BY <1>1, <1>3
<1>7. UNCHANGED <<conn, database>>
  BY <1>1
<1> DEFINE from == "raised"
           to   == "logged"
<1>8. /\ to \in {"sent", "done", "logged"} /\ from \in {"answer", "sent", "raised", "logged"}
      /\ Goes(r, from, to, request[r].status)
      /\ to = "logged" => from = "raised" /\ response'[r] = response[r] /\ log'[r] = 500
      /\ to # "logged" => from # "raised"
      /\ to = "sent" => from = "answer" /\ log'[r] = log[r]
      /\ response'[r] = response[r]
      /\ log'[r] = request[r].status
  BY <1>4, <1>5
<1> HIDE DEF from, to
<1> QED
  BY <1>4, <1>6, <1>7, <1>8, ToldStep

LEMMA ServerErrorStep == ASSUME Inv, NEW r \in Requests, ServerError(r) PROVE Inv'
<1>1. Goes(r, "logged", "done", 500)
      /\ response' = [response EXCEPT ![r] = [status |-> 500, traced |-> FALSE]]
      /\ UNCHANGED <<conn, database, log>>
  BY DEF ServerError
<1>2. request[r].status = 500
  BY <1>1 DEF Inv, Decided, Goes
<1>3. 500 \in Statuses /\ response \in [Requests -> [status : Statuses, traced : BOOLEAN]]
      /\ log \in [Requests -> Statuses]
  BY DEF Inv, TypeOK, Statuses
<1>4. [status |-> 500, traced |-> FALSE] \in [status : Statuses, traced : BOOLEAN]
  BY <1>3
<1>5. response' \in [Requests -> [status : Statuses, traced : BOOLEAN]]
  BY <1>1, <1>3, <1>4
<1>6. response'[r].status = request[r].status
  BY <1>1, <1>2, <1>3
<1>7. \A p \in Requests : p # r => response'[p] = response[p] /\ log'[p] = log[p]
  BY <1>1, <1>3
<1>8. Goes(r, "logged", "done", request[r].status)
  BY <1>1, <1>2
<1>9. log'[r] = 500
  BY <1>1 DEF Inv, Told, Goes
<1> QED
  BY <1>1, <1>3, <1>5, <1>6, <1>7, <1>8, <1>9, ToldStep

(* What was open is lost, with its connection.                             *)
LEMMA RestartStep == ASSUME Inv, Restart PROVE Inv'
<1>1. /\ conn' = {} /\ UNCHANGED <<changed, audit, response, log>>
      /\ request' = [r \in Requests |-> IF request[r].pc \in {"idle", "done"} THEN request[r]
                                        ELSE [request[r] EXCEPT !.pc = "lost"]]
  BY DEF Restart, database
<1>2. request \in [Requests -> Request]
  BY DEF Inv, TypeOK
<1>3. ASSUME NEW r \in Requests
      PROVE  /\ request'[r] \in Request
             /\ request'[r].pc = IF request[r].pc \in {"idle", "done"} THEN request[r].pc ELSE "lost"
             /\ request'[r].endpoint = request[r].endpoint
             /\ request'[r].flushed = request[r].flushed
             /\ request'[r].status = request[r].status
  <2>1. request[r] \in Request /\ "lost" \in Places
    BY <1>2 DEF Places
  <2>2. CASE request[r].pc \in {"idle", "done"}
    <3>1. request'[r] = request[r]
      BY <1>1, <2>2
    <3> QED
      BY <2>1, <2>2, <3>1
  <2>3. CASE request[r].pc \notin {"idle", "done"}
    <3>1. request'[r] = [request[r] EXCEPT !.pc = "lost"]
      BY <1>1, <2>3
    <3>2. /\ [request[r] EXCEPT !.pc = "lost"] \in Request
          /\ [request[r] EXCEPT !.pc = "lost"].pc = "lost"
          /\ [request[r] EXCEPT !.pc = "lost"].endpoint = request[r].endpoint
          /\ [request[r] EXCEPT !.pc = "lost"].flushed = request[r].flushed
          /\ [request[r] EXCEPT !.pc = "lost"].status = request[r].status
      BY <2>1 DEF Request
    <3> QED
      BY <2>3, <3>1, <3>2
  <2> QED
    BY <2>2, <2>3
<1>4. request' \in [Requests -> Request]
  <2>1. \A r \in Requests : request'[r] \in Request
    BY <1>3
  <2> DEFINE f(r) == IF request[r].pc \in {"idle", "done"} THEN request[r]
                     ELSE [request[r] EXCEPT !.pc = "lost"]
  <2>2. request' = [r \in Requests |-> f(r)]
    BY <1>1
  <2> HIDE DEF f
  <2> QED
    BY <2>1, <2>2
<1>5. IsFiniteSet(conn') /\ Cardinality(conn') <= Pool
  BY <1>1, FS_EmptySet
<1>6. TypeOK'
  BY <1>1, <1>4, <1>5 DEF Inv, TypeOK
<1>7. ASSUME NEW r \in Requests
      PROVE  (Draft(r) /\ Decided(r) /\ Told(r))'
  <2>1. Draft(r) /\ Decided(r) /\ Told(r)
    BY DEF Inv
  <2>2. Rows(r)' = Rows(r)
    BY <1>1 DEF Rows
  <2>3. Draft(r)'
    BY <1>3, <2>1 DEF Draft
  <2>4. Decided(r)'
    BY <1>1, <1>3, <2>1, <2>2 DEF Decided, Nothing, Kept, Pending
  <2>5. Told(r)'
    BY <1>1, <1>3, <2>1 DEF Told
  <2> QED
    BY <2>3, <2>4, <2>5
<1>8. ChangedIffAudited'
  BY <1>1 DEF Inv, ChangedIffAudited
<1>9. StatusTellsOutcome'
  BY <1>1, <1>3 DEF Inv, StatusTellsOutcome, Rows
<1> QED
  BY <1>5, <1>6, <1>7, <1>8, <1>9 DEF Inv

(* A request arrives.                                                      *)
LEMMA ArriveStep == ASSUME Inv, NEW r \in Requests, Arrive(r) PROVE Inv'
<1>1. PICK endpoint \in Endpoints, user \in Users :
        request' = [request EXCEPT ![r] =
                      [pc |-> "admit", endpoint |-> endpoint, user |-> user,
                       flushed |-> {}, status |-> 0]]
  BY DEF Arrive
<1>2. UNCHANGED <<conn, changed, audit, response, log>> /\ request[r].pc = "idle"
  BY DEF Arrive, database
<1> DEFINE s == [pc |-> "admit", endpoint |-> endpoint, user |-> user,
                 flushed |-> {}, status |-> 0]
<1>3. s \in Request /\ s.pc = "admit" /\ s.flushed = {} /\ s.status = 0
  <2>1. "admit" \in Places /\ 0 \in Statuses
    BY DEF Places, Statuses
  <2> QED
    BY <2>1 DEF Request
<1>4. request' = [request EXCEPT ![r] = s]
  BY <1>1
<1> HIDE DEF s
<1>5. /\ request' \in [Requests -> Request] /\ request'[r] = s
      /\ \A p \in Requests : p # r => request'[p] = request[p]
  BY <1>3, <1>4 DEF Inv, TypeOK
<1>6. TypeOK' /\ IsFiniteSet(conn')
  BY <1>2, <1>5 DEF Inv, TypeOK
<1>7. Draft(r) /\ Decided(r) /\ Told(r)
  BY DEF Inv
<1>8. Nothing(r) /\ response[r].status = 0 /\ log[r] = 0
  BY <1>2, <1>7 DEF Decided, Told, Pending
<1>9. Rows(r)' = Rows(r)
  BY <1>2 DEF Rows
<1>10. Draft(r)'
  BY <1>3, <1>5 DEF Draft
<1>11. Decided(r)'
  BY <1>2, <1>3, <1>5, <1>8, <1>9 DEF Decided, Nothing, Pending
<1>12. Told(r)'
  BY <1>2, <1>3, <1>5, <1>8 DEF Told
<1>13. r \in changed' <=> <<r, "change">> \in audit'
  BY <1>2 DEF Inv, ChangedIffAudited
<1>14. \A p \in Requests : p # r =>
          /\ request'[p] = request[p] /\ response'[p] = response[p] /\ log'[p] = log[p]
          /\ p \in changed' <=> p \in changed
          /\ Rows(p)' = Rows(p)
  BY <1>2, <1>5 DEF Rows
<1>15. response'[r].status # 0 => request'[r].pc # "lost"
  BY <1>3, <1>5
<1>16. (Draft(r) /\ Decided(r) /\ Told(r))'
  BY <1>10, <1>11, <1>12
<1> QED
  BY <1>6, <1>13, <1>14, <1>15, <1>16, Local

(* The steps that only move a request on.                                  *)
LEMMA QuietSteps ==
    ASSUME Inv, NEW r \in Requests,
           \/ Admit(r) \/ AuditDenied(r) \/ DeniedFails(r) \/ FirstStatement(r)
           \/ PoolTimeout(r) \/ Return(r) \/ Raise(r) \/ Break(r) \/ Rollback(r)
    PROVE  Inv'
<1> USE DEF Pending, Statuses
<1>1. CASE Admit(r)
  <2>1. UNCHANGED <<conn, database, response, log>>
    BY <1>1 DEF Admit
  <2>2. \/ Goes(r, "admit", "wait", 0) \/ Goes(r, "admit", "answer", 422)
        \/ Goes(r, "admit", "answer", 401) \/ Goes(r, "admit", "denied", 403)
    BY <1>1 DEF Admit
  <2>3. CASE Goes(r, "admit", "wait", 0)
    BY <2>1, <2>3, Quiet
  <2>4. CASE Goes(r, "admit", "answer", 422)
    BY <2>1, <2>4, Quiet
  <2>5. CASE Goes(r, "admit", "answer", 401)
    BY <2>1, <2>5, Quiet
  <2>6. CASE Goes(r, "admit", "denied", 403)
    BY <2>1, <2>6, Quiet
  <2> QED
    BY <2>2, <2>3, <2>4, <2>5, <2>6
<1>2. CASE AuditDenied(r)
  BY <1>2, Quiet DEF AuditDenied
<1>3. CASE DeniedFails(r)
  <2>1. conn' = conn \ {r} /\ UNCHANGED <<database, response, log>>
    BY <1>3 DEF DeniedFails
  <2>2. CASE Goes(r, "denied", "answer", 403)
    BY <2>1, <2>2, Quiet
  <2>3. CASE Goes(r, "denying", "answer", 403)
    BY <2>1, <2>3, Quiet
  <2> QED
    BY <1>3, <2>2, <2>3 DEF DeniedFails
<1>4. CASE FirstStatement(r)
  BY <1>4, Quiet DEF FirstStatement
<1>5. CASE PoolTimeout(r)
  BY <1>5, Quiet DEF PoolTimeout
<1>6. CASE Return(r)
  <2>1. Goes(r, "handler", "commit", 200) /\ UNCHANGED <<conn, database, response, log>>
    BY <1>6 DEF Return
  <2>2. "audit" \in request[r].flushed <=> AuditedAs(request[r].endpoint) # {}
    BY <1>6 DEF Return
  <2>3. /\ "handler" \in Pending /\ "commit" \in Pending /\ 200 \in Statuses
        /\ "commit" # "answer" /\ "commit" # "raised" /\ "commit" # "refuse"
    OBVIOUS
  <2> HIDE DEF Pending, Statuses
  <2> QED
    BY <2>1, <2>2, <2>3, Quiet
<1>7. CASE Raise(r)
  <2>1. PICK status \in {400, 403, 409, 422} : Goes(r, "handler", "refuse", status)
    BY <1>7 DEF Raise
  <2>2. UNCHANGED <<conn, database, response, log>>
    BY <1>7 DEF Raise
  <2> QED
    BY <2>1, <2>2, Quiet
<1>8. CASE Break(r)
  BY <1>8, Quiet DEF Break
<1>9. CASE Rollback(r)
  <2>1. conn' = conn \ {r} /\ UNCHANGED <<database, response, log>>
    BY <1>9 DEF Rollback
  <2>2. CASE Goes(r, "refuse", "answer", request[r].status)
    <3>1. request[r].status \in 400 .. 499 /\ request[r].status \in Statuses
      BY <2>2 DEF Inv, Decided, Goes, TypeOK, Request
    <3> QED
      BY <2>1, <2>2, <3>1, Quiet
  <2>3. CASE Goes(r, "break", "raised", 500)
    BY <2>1, <2>3, Quiet
  <2> QED
    BY <1>9, <2>2, <2>3 DEF Rollback
<1> QED
  BY <1>1, <1>2, <1>3, <1>4, <1>5, <1>6, <1>7, <1>8, <1>9

(* Those that write.                                                       *)
LEMMA WritingSteps ==
    ASSUME Inv, NEW r \in Requests,
           Change(r) \/ Append(r) \/ Commit(r) \/ CommitFails(r)
    PROVE  Inv'
<1>1. CASE Change(r)
  BY <1>1, FlushedStep DEF Change
<1>2. CASE Append(r)
  BY <1>2, FlushedStep DEF Append
<1>3. CASE Commit(r)
  BY <1>3, StoresStep DEF Commit
<1>4. CASE CommitFails(r)
  <2>1. Goes(r, "commit", "raised", 500) /\ conn' = conn \ {r} /\ UNCHANGED <<response, log>>
    BY <1>4 DEF CommitFails
  <2>2. CASE Stores(r)
    BY <2>1, <2>2, StoresStep
  <2>3. CASE UNCHANGED database
    BY <2>1, <2>3, Quiet DEF Pending, Statuses
  <2> QED
    BY <1>4, <2>2, <2>3 DEF CommitFails
<1> QED
  BY <1>1, <1>2, <1>3, <1>4

-----------------------------------------------------------------------------
(* Theorems *)

LEMMA InvInit == Init => Inv
<1> SUFFICES ASSUME Init PROVE Inv
  OBVIOUS
<1>1. IsFiniteSet({}) /\ Cardinality({}) = 0
  BY FS_EmptySet
<1>2. Idle \in Request /\ NoResponse \in [status : Statuses, traced : BOOLEAN] /\ 0 \in Statuses
  BY DEF Idle, Request, NoResponse, Places, Statuses, Endpoints, Users
<1>3. TypeOK /\ IsFiniteSet(conn)
  BY <1>1, <1>2 DEF Init, TypeOK
<1>4. Idle.pc = "idle" /\ Idle.flushed = {} /\ NoResponse.status = 0
  BY DEF Idle, NoResponse
<1>5. \A r \in Requests : Rows(r) = {}
  BY DEF Init, Rows
<1>6. \A r \in Requests : Draft(r) /\ Decided(r) /\ Told(r)
  BY <1>4, <1>5 DEF Init, Draft, Decided, Told, Nothing, Pending
<1>7. StatusTellsOutcome /\ ChangedIffAudited
  BY <1>4 DEF Init, StatusTellsOutcome, ChangedIffAudited
<1> QED
  BY <1>3, <1>6, <1>7 DEF Inv

LEMMA InvNext == Inv /\ [Next]_vars => Inv'
<1> SUFFICES ASSUME Inv, [Next]_vars PROVE Inv'
  OBVIOUS
<1>1. CASE Restart
  BY <1>1, RestartStep
<1>2. ASSUME NEW r \in Requests, Arrive(r) \/ Step(r) \/ Faults(r)
      PROVE  Inv'
  BY <1>2, ArriveStep, QuietSteps, WritingSteps, DeniedCommitStep, SendStep, LogAccessStep,
     LogRaisedStep, ServerErrorStep DEF Step, Faults, Handler
<1>3. CASE UNCHANGED vars
  <2>1. UNCHANGED <<request, conn, changed, audit, response, log>>
    BY <1>3 DEF vars, database
  <2>2. TypeOK' /\ IsFiniteSet(conn')
    BY <2>1 DEF Inv, TypeOK
  <2>3. ASSUME NEW r \in Requests
        PROVE  Rows(r)' = Rows(r) /\ Nothing(r)' = Nothing(r) /\ Kept(r)' = Kept(r)
    BY <2>1 DEF Rows, Nothing, Kept
  <2>4. StatusTellsOutcome' /\ ChangedIffAudited'
    BY <2>1, <2>3 DEF Inv, StatusTellsOutcome, ChangedIffAudited
  <2>5. ASSUME NEW r \in Requests
        PROVE  (Draft(r) /\ Decided(r) /\ Told(r))'
    <3>1. Draft(r) /\ Decided(r) /\ Told(r)
      BY DEF Inv
    <3> QED
      BY <2>1, <2>3, <3>1 DEF Draft, Decided, Told, Pending
  <2> QED
    BY <2>2, <2>4, <2>5 DEF Inv
<1> QED
  BY <1>1, <1>2, <1>3 DEF Next

LEMMA InvAlways == Spec => []Inv
  BY InvInit, InvNext, PTL DEF Spec

(* The requests, the pool and the audit log are well typed; the pool is    *)
(* never exceeded.                                                         *)
THEOREM TypeCorrect == Spec => []TypeOK
<1>1. Inv => TypeOK
  BY DEF Inv
<1> QED
  BY <1>1, InvAlways, PTL

(* A status of 200 is a committed and audited change, one of 400 to 499    *)
(* has changed nothing, whenever the process restarts.                     *)
THEOREM StatusAlwaysTells == Spec => []StatusTellsOutcome
<1>1. Inv => StatusTellsOutcome
  BY DEF Inv
<1> QED
  BY <1>1, InvAlways, PTL

(* No change without its audit row, and no audit row without its change.   *)
THEOREM AlwaysAudited == Spec => []ChangedIffAudited
<1>1. Inv => ChangedIffAudited
  BY DEF Inv
<1> QED
  BY <1>1, InvAlways, PTL

(* The access log agrees with the client on every status.                  *)
THEOREM LogAgrees == Spec => []LoggedAsSent
<1>1. Inv => LoggedAsSent
  BY DEF Inv, Told, LoggedAsSent
<1> QED
  BY <1>1, InvAlways, PTL
=============================================================================
