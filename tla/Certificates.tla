---------------------------- MODULE Certificates ----------------------------
(***************************************************************************)
(* Attendance, evaluations and certificates of one event                   *)
(* (AttendanceService, EvaluationService, CertificateService and the job   *)
(* generate_certificate of the worker).                                    *)
(*                                                                         *)
(* Every request is one transaction under READ COMMITTED: it reads what is *)
(* committed, decides, inserts, and commits after its handler returns.     *)
(* Nothing is locked and certificates have no unique key but their code.   *)
(***************************************************************************)
EXTENDS Integers

CONSTANTS
    Users,
    Types,        (* cert_type of the requests                             *)
    Asistencia,   (* the one that calls for attendance                     *)
    Codes,        (* supply of verification codes (bound)                  *)
    Requests,     (* requests; each is served once                         *)
    MaxRetries,   (* of the job of a certificate                           *)
    NoUser

ConstantsAssumption ==
    /\ Asistencia \in Types
    /\ NoUser \notin Users
    /\ MaxRetries \in Nat \ {0}

VARIABLES
    confirmed,    (* users whose enrollment is confirmada                  *)
    attendance,   (* attendance_records: UNIQUE (event_id, user_id)        *)
    evaluated,    (* users with a row in evaluations                       *)
    certs,        (* table certificates, by verification code              *)
    jobs,         (* the job generate_certificate of each certificate      *)
    files,        (* PDFs in STORAGE_DIR                                   *)
    unheard,      (* jobs done, but to their worker the commit raised      *)
    everUnheard,  (* history: jobs that were so once                       *)
    tx,           (* the transaction of each request                       *)
    everConfirmed,(* history: users who were once confirmed                *)
    overlap       (* history: pairs of requests served at the same time    *)

people == <<confirmed, everConfirmed>>
issued == <<certs, jobs, files, unheard, everUnheard>>
vars == <<people, attendance, evaluated, issued, tx, overlap>>

Cert == [user : Users, type : Types, ready : BOOLEAN, by : Requests]

NoCert == [user |-> NoUser]

Issued == {c \in Codes : certs[c] # NoCert}

Job == [state : {"none", "pending", "processing", "done", "failed"}, retries : 0 .. MaxRetries]

(* A transaction: what it is about to do, for whom, the type asked for,    *)
(* the users a batch has left, and for whom it has inserted each code.     *)
Tx == [pc : {"idle", "attended", "existing", "batch", "record", "insert", "commit",
             "recorded", "evaluate", "done", "refused", "ambiguous", "collided"},
       user : Users \cup {NoUser}, type : Types, todo : SUBSET Users,
       drafts : [Codes -> Users \cup {NoUser}]]

NewTx(pc, user, type, todo) ==
    [pc |-> pc, user |-> user, type |-> type, todo |-> todo, drafts |-> [c \in Codes |-> NoUser]]

Open(r) == tx[r].pc \notin {"idle", "done", "refused", "ambiguous", "collided"}

Init ==
    /\ confirmed = {}
    /\ attendance = {}
    /\ evaluated = {}
    /\ certs = [c \in Codes |-> NoCert]
    /\ jobs = [c \in Codes |-> [state |-> "none", retries |-> 0]]
    /\ files = {}
    /\ unheard = {} /\ everUnheard = {}
    /\ tx = [r \in Requests |-> NewTx("idle", NoUser, Asistencia, {})]
    /\ everConfirmed = {}
    /\ overlap = {}

-----------------------------------------------------------------------------
(* Enrollments: any order of confirmations and cancellations.              *)

EnrollmentChanges ==
    /\ \E u \in Users : confirmed' \in {confirmed \cup {u}, confirmed \ {u}}
    /\ everConfirmed' = everConfirmed \cup confirmed'
    /\ UNCHANGED <<attendance, evaluated, issued, tx, overlap>>

-----------------------------------------------------------------------------
(* Transactions *)

Begin(r, to) ==
    /\ tx[r].pc = "idle"
    /\ tx' = [tx EXCEPT ![r] = to]
    /\ overlap' = overlap \cup {{r, q} : q \in {q \in Requests \ {r} : Open(q)}}
    /\ UNCHANGED <<people, attendance, evaluated, issued>>

Goes(r, from, to) ==
    /\ tx[r].pc = from
    /\ tx' = [tx EXCEPT ![r].pc = to]
    /\ UNCHANGED <<people, attendance, evaluated, issued, overlap>>

(* create: a code not given yet, in no open transaction; which one does not*)
(* matter.                                                                 *)
FreshCodes == {c \in Codes \ Issued : \A q \in Requests : tx[q].drafts[c] = NoUser}

Inserts(r, u, todo, to) ==
    /\ FreshCodes # {}
    /\ tx' = [tx EXCEPT ![r] =
                [pc |-> to, user |-> tx[r].user, type |-> tx[r].type, todo |-> todo,
                 drafts |-> [tx[r].drafts EXCEPT ![CHOOSE c \in FreshCodes : TRUE] = u]]]
    /\ UNCHANGED <<people, attendance, evaluated, issued, overlap>>

CertsOf(u, t) == {c \in Issued : certs[c].user = u /\ certs[c].type = t}

-----------------------------------------------------------------------------
(* request_certificate *)

(* Only a certificate of attendance looks at the enrollment.               *)
RequestCertificate(r, u, t) ==
    LET next == IF t # Asistencia THEN "existing"
                ELSE IF u \in confirmed THEN "attended" ELSE "refused"
    IN  Begin(r, NewTx(next, u, t, {}))

(* Seeded fault: the attendance is not looked at.                          *)
AttendedUnread(r) == Goes(r, "attended", "existing")

(* AttendanceRequiredError (RN-05).                                        *)
Attended(r) ==
    Goes(r, "attended", IF tx[r].user \in attendance THEN "existing" ELSE "refused")

(* Seeded fault: nobody looks for a certificate before issuing one.        *)
ExistingUnread(r) ==
    tx[r].pc = "existing" /\ Inserts(r, tx[r].user, {}, "commit")

(* get_for: scalar_one_or_none raises when there is more than one row.     *)
Existing(r) ==
    LET found == CertsOf(tx[r].user, tx[r].type)
    IN  \/ found = {} /\ tx[r].pc = "existing" /\ Inserts(r, tx[r].user, {}, "commit")
        \/ (\E c \in found : found = {c}) /\ Goes(r, "existing", "done")
        \/ (\E c, d \in found : c # d) /\ Goes(r, "existing", "ambiguous")

-----------------------------------------------------------------------------
(* generate_batch *)

GenerateBatch(r, t) ==
    Begin(r, NewTx("batch", NoUser, t, confirmed))

(* One confirmed enrollment: each has a certificate of its own.            *)
BatchNext(r, u) ==
    LET left == tx[r].todo \ {u}
    IN  /\ tx[r].pc = "batch"
        /\ u \in tx[r].todo
        /\ \/ u \in attendance /\ CertsOf(u, tx[r].type) = {} /\ Inserts(r, u, left, "batch")
           \/ /\ ~ (u \in attendance /\ CertsOf(u, tx[r].type) = {})
              /\ tx' = [tx EXCEPT ![r].todo = left]
              /\ UNCHANGED <<people, attendance, evaluated, issued, overlap>>

BatchEnd(r) == tx[r].todo = {} /\ Goes(r, "batch", "commit")

-----------------------------------------------------------------------------
(* AttendanceService.record and EvaluationService.submit *)

RecordAttendance(r, u) ==
    Begin(r, NewTx(IF u \in confirmed THEN "record" ELSE "refused", u, Asistencia, {}))

(* Seeded fault: the attendance is inserted without looking for it.        *)
RecordedUnread(r) == Goes(r, "record", "insert")

(* "already_recorded", or on to the insert.                                *)
Recorded(r) ==
    Goes(r, "record", IF tx[r].user \in attendance THEN "done" ELSE "insert")

(* The UNIQUE makes the insert wait for a transaction that has inserted    *)
(* the same row, and fail if that one committed.                           *)
InsertAttendance(r) ==
    /\ \A q \in Requests : ~ (tx[q].pc = "recorded" /\ tx[q].user = tx[r].user)
    /\ Goes(r, "insert", IF tx[r].user \in attendance THEN "collided" ELSE "recorded")

SubmitEvaluation(r, u) ==
    Begin(r, NewTx(IF u \in attendance THEN "evaluate" ELSE "refused", u, Asistencia, {}))

-----------------------------------------------------------------------------
(* The end of a transaction *)

Drafts(r) == {c \in Codes : tx[r].drafts[c] # NoUser}

Closed(r) == [tx EXCEPT ![r] = NewTx("done", NoUser, Asistencia, {})]

(* The certificates are committed with their jobs.                         *)
CommitCertificates(r) ==
    /\ tx[r].pc = "commit"
    /\ tx' = Closed(r)
    /\ certs' = [c \in Codes |->
                   IF c \in Drafts(r)
                   THEN [user |-> tx[r].drafts[c], type |-> tx[r].type, ready |-> FALSE, by |-> r]
                   ELSE certs[c]]
    /\ jobs' = [c \in Codes |->
                  IF c \in Drafts(r) THEN [state |-> "pending", retries |-> 0] ELSE jobs[c]]
    /\ UNCHANGED <<people, attendance, evaluated, files, unheard, everUnheard, overlap>>

CommitAttendance(r) ==
    /\ tx[r].pc = "recorded"
    /\ tx' = Closed(r)
    /\ attendance' = attendance \cup {tx[r].user}
    /\ UNCHANGED <<people, evaluated, issued, overlap>>

CommitEvaluation(r) ==
    /\ tx[r].pc = "evaluate"
    /\ tx' = Closed(r)
    /\ evaluated' = evaluated \cup {tx[r].user}
    /\ UNCHANGED <<people, attendance, issued, overlap>>

(* The connection or the process is lost.                                  *)
Abort(r) ==
    /\ Open(r)
    /\ tx' = Closed(r)
    /\ UNCHANGED <<people, attendance, evaluated, issued, overlap>>

-----------------------------------------------------------------------------
(* The worker *)

worker == <<unheard, everUnheard>>
others == <<people, attendance, evaluated, tx, overlap>>

Claim(c) ==
    /\ jobs[c].state = "pending"
    /\ jobs' = [jobs EXCEPT ![c].state = "processing"]
    /\ UNCHANGED <<others, worker, certs, files>>

(* generate_certificate_pdf: the file is there before anything commits.    *)
Render(c) ==
    /\ jobs[c].state = "processing"
    /\ files' = files \cup {c}
    /\ UNCHANGED <<others, worker, certs, jobs>>

(* set_pdf_url and complete_job, in one transaction.                       *)
Finish(c) ==
    /\ jobs[c].state = "processing"
    /\ jobs' = [jobs EXCEPT ![c].state = "done"]
    /\ certs' = [certs EXCEPT ![c].ready = TRUE]
    /\ UNCHANGED <<others, files>>

(* Seeded fault: the URL is set without waiting for the executor.          *)
CompleteUnrendered(c) == Finish(c) /\ UNCHANGED worker

Complete(c) == c \in files /\ Finish(c) /\ UNCHANGED worker

(* The commit takes effect, and to the worker it raised: see JobQueue.     *)
CompleteUnheard(c) ==
    /\ c \in files
    /\ Finish(c)
    /\ unheard' = unheard \cup {c}
    /\ everUnheard' = everUnheard \cup {c}

(* The handler or its commit raised: the job is retried, or given up; its  *)
(* status is not looked at, nor the certificate.                           *)
Fail(c) ==
    /\ jobs[c].state = "processing" \/ c \in unheard
    /\ jobs' = [jobs EXCEPT ![c] =
                  IF @.retries + 1 < MaxRetries
                  THEN [state |-> "pending", retries |-> @.retries + 1]
                  ELSE [state |-> "failed", retries |-> @.retries + 1]]
    /\ unheard' = unheard \ {c}
    /\ UNCHANGED <<others, everUnheard, certs, files>>

-----------------------------------------------------------------------------

Handle(r) ==
    \/ \E u \in Users, t \in Types : RequestCertificate(r, u, t)
    \/ \E t \in Types : GenerateBatch(r, t)
    \/ \E u \in Users : RecordAttendance(r, u) \/ SubmitEvaluation(r, u)

Continue(r) ==
    \/ Attended(r) \/ Existing(r)
    \/ (\E u \in Users : BatchNext(r, u)) \/ BatchEnd(r)
    \/ Recorded(r) \/ InsertAttendance(r)
    \/ CommitCertificates(r) \/ CommitAttendance(r) \/ CommitEvaluation(r)

Next ==
    \/ EnrollmentChanges
    \/ \E r \in Requests : Handle(r) \/ Continue(r) \/ Abort(r)
    \/ \E c \in Codes : Claim(c) \/ Render(c) \/ Complete(c) \/ CompleteUnheard(c) \/ Fail(c)

Spec == Init /\ [][Next]_vars

-----------------------------------------------------------------------------
(* Properties *)

TypeOK ==
    /\ confirmed \subseteq everConfirmed /\ everConfirmed \subseteq Users
    /\ attendance \subseteq Users /\ evaluated \subseteq Users /\ files \subseteq Codes
    /\ unheard \subseteq everUnheard /\ everUnheard \subseteq Codes
    /\ certs \in [Codes -> Cert \cup {NoCert}]
    /\ jobs \in [Codes -> Job]
    /\ tx \in [Requests -> Tx]
    /\ overlap \subseteq SUBSET Requests

(* RN-05, across enrollments that come and go: an attendance was confirmed *)
(* when it was recorded, and a certificate of attendance or an evaluation  *)
(* has an attendance to show, whoever asked for it.                        *)
AttendanceFirst ==
    /\ attendance \subseteq everConfirmed
    /\ evaluated \subseteq attendance
    /\ \A c \in Issued : certs[c].type = Asistencia => certs[c].user \in attendance

(* Nothing keeps certificates unique but the look that comes first: two of *)
(* one user and type come of two requests served at the same time.         *)
DuplicatesOverlap ==
    \A c, d \in Issued :
        /\ c # d
        /\ certs[c].user = certs[d].user
        /\ certs[c].type = certs[d].type
        => {certs[c].by, certs[d].by} \in overlap

(* A certificate that is "ready" can be downloaded, since the file comes   *)
(* before the URL; its job is done, and no other job is, unless a worker   *)
(* did not hear of the commit: crashes and retries notwithstanding.        *)
ReadyIsThere ==
    \A c \in Issued :
        /\ certs[c].ready => c \in files
        /\ jobs[c].state = "done" => certs[c].ready
        /\ certs[c].ready => jobs[c].state = "done" \/ c \in everUnheard

(* engagement_service.py:90, as far as the look that comes first carries   *)
(* it: recording an attendance again violates the UNIQUE only when another *)
(* request is served at the same time, however long ago it was recorded.   *)
CollidesOnlyTogether ==
    \A r \in Requests :
        tx[r].pc = "collided" => \E q \in Requests \ {r} : {q, r} \in overlap
=============================================================================
