------------------------------ MODULE Requests ------------------------------
(***************************************************************************)
(* The life of a request of the API: the OTelMiddleware, the dependencies  *)
(* of interface/deps.py, one session and one transaction (get_session),    *)
(* the audit log, the exception handlers, and the pool of connections.     *)
(*                                                                         *)
(* A session takes a connection with its first statement.  get_session     *)
(* commits or rolls back once the handler has ended, before its response   *)
(* is sent (FastAPI 0.115).  What no exception handler maps is raised      *)
(* through every middleware, and answered by the outermost (Starlette).    *)
(***************************************************************************)
EXTENDS Naturals, FiniteSets

CONSTANTS
    Requests,     (* each is served once                                   *)
    Pool          (* pool_size and max_overflow                            *)

ASSUME ConstantsAssumption == Pool \in Nat \ {0}

VARIABLES
    request,      (* each request                                          *)
    conn,         (* those that hold a connection of the pool              *)
    changed,      (* requests whose change is committed                    *)
    audit,        (* table audit_log: <<request, action>>                  *)
    response,     (* what each client was sent                             *)
    log           (* the line of the access log of each request            *)

database == <<changed, audit>>
vars == <<request, conn, database, response, log>>

(* A handler that changes a row and audits it; one of get_my_data; one of  *)
(* the lists of enrolled people; one of the catalogue.                     *)
Endpoints == {"change", "my_data", "enrolled", "catalogue"}

Users == {"nobody", "attendee", "organizer"}

(* require_role, or only get_current_user.                                 *)
Admits(endpoint) ==
    CASE endpoint \in {"change", "enrolled"} -> {"organizer"}
      [] endpoint = "my_data"                -> {"attendee", "organizer"}
      [] endpoint = "catalogue"              -> Users

(* What append() writes for an endpoint.                                   *)
AuditedAs(endpoint) ==
    CASE endpoint = "change"  -> {"change"}
      [] endpoint = "my_data" -> {"pii_access"}
      [] OTHER                -> {}

Places == {"idle", "admit", "denied", "denying", "wait", "handler", "commit", "refuse", "break",
           "answer", "raised", "logged", "sent", "done", "lost"}

(* 0: none yet.                                                            *)
Statuses == {0, 200, 400, 401, 403, 409, 422, 500}

(* flushed: what is written and not committed.                             *)
Request == [pc : Places, endpoint : Endpoints, user : Users,
            flushed : SUBSET {"row", "audit"}, status : Statuses]

Idle == [pc |-> "idle", endpoint |-> "catalogue", user |-> "nobody", flushed |-> {}, status |-> 0]

NoResponse == [status |-> 0, traced |-> FALSE]

Init ==
    /\ request = [r \in Requests |-> Idle]
    /\ conn = {}
    /\ changed = {}
    /\ audit = {}
    /\ response = [r \in Requests |-> NoResponse]
    /\ log = [r \in Requests |-> 0]

Goes(r, from, to, status) ==
    /\ request[r].pc = from
    /\ request' = [request EXCEPT ![r].pc = to, ![r].status = status]

-----------------------------------------------------------------------------
(* Dependencies *)

Arrive(r) ==
    /\ request[r].pc = "idle"
    /\ \E endpoint \in Endpoints, user \in Users :
        request' = [request EXCEPT ![r] =
                      [pc |-> "admit", endpoint |-> endpoint, user |-> user,
                       flushed |-> {}, status |-> 0]]
    /\ UNCHANGED <<conn, database, response, log>>

(* Seeded fault: the role is looked at once the session has read.          *)
AdmitReads(r) ==
    /\ Cardinality(conn) < Pool
    /\ conn' = conn \cup {r}
    /\ IF request[r].user \in Admits(request[r].endpoint) THEN Goes(r, "admit", "handler", 0)
       ELSE IF request[r].user = "nobody" THEN Goes(r, "admit", "refuse", 401)
       ELSE Goes(r, "admit", "denied", 403)
    /\ UNCHANGED <<database, response, log>>

(* get_current_user and require_role, then the body is validated.          *)
Admit(r) ==
    /\ IF request[r].user \in Admits(request[r].endpoint)
       THEN Goes(r, "admit", "wait", 0) \/ Goes(r, "admit", "answer", 422)
       ELSE IF request[r].user = "nobody" THEN Goes(r, "admit", "answer", 401)
       ELSE Goes(r, "admit", "denied", 403)
    /\ UNCHANGED <<conn, database, response, log>>

Takes(r) ==
    /\ Cardinality(conn) < Pool
    /\ conn' = conn \cup {r}

(* _audit_denied has a session of its own: the request's has none yet.     *)
AuditDenied(r) ==
    /\ Goes(r, "denied", "denying", 403)
    /\ Takes(r)
    /\ UNCHANGED <<database, response, log>>

DeniedCommit(r) ==
    /\ Goes(r, "denying", "answer", 403)
    /\ conn' = conn \ {r}
    /\ audit' = audit \cup {<<r, "access_denied">>}
    /\ UNCHANGED <<changed, response, log>>

(* A failure to audit is swallowed: the answer is the same.                *)
DeniedFails(r) ==
    /\ Goes(r, "denied", "answer", 403) \/ Goes(r, "denying", "answer", 403)
    /\ conn' = conn \ {r}
    /\ UNCHANGED <<database, response, log>>

-----------------------------------------------------------------------------
(* The handler *)

FirstStatement(r) ==
    /\ Goes(r, "wait", "handler", 0)
    /\ Takes(r)
    /\ UNCHANGED <<database, response, log>>

(* pool_timeout is over.                                                   *)
PoolTimeout(r) ==
    /\ Goes(r, "wait", "raised", 500)
    /\ UNCHANGED <<conn, database, response, log>>

Change(r) ==
    /\ request[r].pc = "handler" /\ request[r].endpoint = "change"
    /\ request' = [request EXCEPT ![r].flushed = @ \cup {"row"}]
    /\ UNCHANGED <<conn, database, response, log>>

(* Seeded fault: the audit log commits on its own.                         *)
AppendCommits(r) ==
    /\ request[r].pc = "handler" /\ AuditedAs(request[r].endpoint) # {}
    /\ "row" \in request[r].flushed <=> request[r].endpoint = "change"
    /\ request' = [request EXCEPT ![r].flushed = @ \cup {"audit"}]
    /\ audit' = audit \cup ({r} \X AuditedAs(request[r].endpoint))
    /\ UNCHANGED <<conn, changed, response, log>>

(* append, after the change it is about.                                   *)
Append(r) ==
    /\ request[r].pc = "handler" /\ AuditedAs(request[r].endpoint) # {}
    /\ "row" \in request[r].flushed <=> request[r].endpoint = "change"
    /\ request' = [request EXCEPT ![r].flushed = @ \cup {"audit"}]
    /\ UNCHANGED <<conn, database, response, log>>

Return(r) ==
    /\ Goes(r, "handler", "commit", 200)
    /\ "audit" \in request[r].flushed <=> AuditedAs(request[r].endpoint) # {}
    /\ UNCHANGED <<conn, database, response, log>>

(* A DomainError: _STATUS_BY_CODE.                                         *)
Raise(r) ==
    /\ \E status \in {400, 403, 409, 422} : Goes(r, "handler", "refuse", status)
    /\ UNCHANGED <<conn, database, response, log>>

(* Any other exception, the database's among them.                         *)
Break(r) ==
    /\ Goes(r, "handler", "break", 500)
    /\ UNCHANGED <<conn, database, response, log>>

-----------------------------------------------------------------------------
(* get_session *)

Stores(r) ==
    /\ changed' = IF "row" \in request[r].flushed THEN changed \cup {r} ELSE changed
    /\ audit' = audit \cup (IF "audit" \in request[r].flushed
                            THEN {r} \X AuditedAs(request[r].endpoint) ELSE {})

(* Seeded fault: the session commits once the response has been sent.      *)
CommitAfterResponse(r) ==
    /\ \/ Goes(r, "commit", "answer", 200) /\ UNCHANGED database
       \/ Goes(r, "sent", "done", request[r].status) /\ Stores(r)
    /\ conn' = conn \ {r}
    /\ UNCHANGED <<response, log>>

Commit(r) ==
    /\ Goes(r, "commit", "answer", 200)
    /\ Stores(r)
    /\ conn' = conn \ {r}
    /\ UNCHANGED <<response, log>>

(* The commit fails, or takes effect unheard.                              *)
CommitFails(r) ==
    /\ Goes(r, "commit", "raised", 500)
    /\ Stores(r) \/ UNCHANGED database
    /\ conn' = conn \ {r}
    /\ UNCHANGED <<response, log>>

Rollback(r) ==
    /\ Goes(r, "refuse", "answer", request[r].status) \/ Goes(r, "break", "raised", 500)
    /\ conn' = conn \ {r}
    /\ UNCHANGED <<database, response, log>>

-----------------------------------------------------------------------------
(* OTelMiddleware *)

(* send_wrapper: the status is noted and the trace added.                  *)
Send(r) ==
    /\ Goes(r, "answer", "sent", request[r].status)
    /\ response' = [response EXCEPT ![r] = [status |-> request[r].status, traced |-> TRUE]]
    /\ UNCHANGED <<conn, database, log>>

LogAccess(r) ==
    /\ Goes(r, "sent", "done", request[r].status)
    /\ log' = [log EXCEPT ![r] = request[r].status]
    /\ UNCHANGED <<conn, database, response>>

(* Seeded fault: the status is 200 until a response has another.           *)
LogRaisedNoted(r) ==
    /\ Goes(r, "raised", "logged", 500)
    /\ log' = [log EXCEPT ![r] = 200]
    /\ UNCHANGED <<conn, database, response>>

LogRaised(r) ==
    /\ Goes(r, "raised", "logged", 500)
    /\ log' = [log EXCEPT ![r] = 500]
    /\ UNCHANGED <<conn, database, response>>

(* ServerErrorMiddleware, outside of OTelMiddleware.                       *)
ServerError(r) ==
    /\ Goes(r, "logged", "done", 500)
    /\ response' = [response EXCEPT ![r] = [status |-> 500, traced |-> FALSE]]
    /\ UNCHANGED <<conn, database, log>>

-----------------------------------------------------------------------------

(* The process restarts: PostgreSQL rolls back what was open.              *)
Restart ==
    /\ conn' = {}
    /\ request' = [r \in Requests |-> IF request[r].pc \in {"idle", "done"} THEN request[r]
                                      ELSE [request[r] EXCEPT !.pc = "lost"]]
    /\ UNCHANGED <<database, response, log>>

Handler(r) == Change(r) \/ Append(r) \/ Return(r) \/ Raise(r) \/ Break(r)

(* What goes on by itself, faults apart.                                   *)
Step(r) ==
    \/ Admit(r) \/ AuditDenied(r) \/ DeniedCommit(r) \/ FirstStatement(r) \/ Handler(r)
    \/ Commit(r) \/ Rollback(r) \/ Send(r) \/ LogAccess(r) \/ LogRaised(r) \/ ServerError(r)

Faults(r) == DeniedFails(r) \/ PoolTimeout(r) \/ CommitFails(r)

Next == Restart \/ \E r \in Requests : Arrive(r) \/ Step(r) \/ Faults(r)

Spec == Init /\ [][Next]_vars

(* uvicorn runs every request, and a free connection goes to one that waits.*)
FairSpec == Spec /\ \A r \in Requests : WF_vars(Step(r))

-----------------------------------------------------------------------------
(* Properties *)

TypeOK ==
    /\ request \in [Requests -> Request]
    /\ conn \subseteq Requests /\ Cardinality(conn) <= Pool
    /\ changed \subseteq Requests
    /\ audit \subseteq Requests \X {"change", "pii_access", "access_denied"}
    /\ response \in [Requests -> [status : Statuses, traced : BOOLEAN]]
    /\ log \in [Requests -> Statuses]

Rows(r) == {row \in audit : row[1] = r}

(* What a client may conclude from a status: a 200 is committed, audited,  *)
(* and survives a restart; a 4xx has left nothing but the record that it   *)
(* was denied; only a 500 leaves the outcome open.                         *)
StatusTellsOutcome ==
    \A r \in Requests :
        /\ response[r].status = 200 =>
            /\ r \in changed <=> request[r].endpoint = "change"
            /\ Rows(r) = {r} \X AuditedAs(request[r].endpoint)
        /\ response[r].status \in 400 .. 499 =>
            r \notin changed /\ Rows(r) \subseteq {<<r, "access_denied">>}

(* README.md:119: a change and its audit row are committed atomically,     *)
(* whatever fails in between or after.                                     *)
ChangedIffAudited == \A r \in Requests : r \in changed <=> <<r, "change">> \in audit

(* The access log says what the client was sent, exceptions included; the  *)
(* answer that has no X-Trace-Id is in it already, as a 500.               *)
LoggedAsSent ==
    \A r \in Requests :
        /\ log[r] # 0 /\ response[r].status # 0 => log[r] = response[r].status
        /\ response[r].status # 0 /\ ~response[r].traced => log[r] = 500

(* With a single connection and no timeout, every request is answered: the *)
(* denial is audited by a second session while the first has no connection.*)
EveryRequestAnswered ==
    \A r \in Requests : request[r].pc = "admit" ~> request[r].pc \in {"done", "lost"}
=============================================================================
