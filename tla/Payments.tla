------------------------------- MODULE Payments -------------------------------
(***************************************************************************)
(* The payments of one enrollment: a user, a paid event, and the           *)
(* reservations made one after the other on the same row, which is UNIQUE  *)
(* for the event and the user.  Each has a payment reference of its own,   *)
(* which the page of the gateway sends back as idempotency key.  A webhook *)
(* names the row, and not the reservation its payment was for.             *)
(*                                                                         *)
(* Enrollment has the same transactions for many rows, with the seats of   *)
(* the event; here the columns that tell the reservations apart are kept.  *)
(***************************************************************************)
EXTENDS Naturals

CONSTANTS
    Requests,          (* registrations, webhooks, cancellations, sweeps   *)
    Outcomes,          (* statuses a gateway sends: the schema admits any  *)
    MaxReservations    (* bound: reservations of the row                   *)

ASSUME ConstantsAssumption ==
    MaxReservations \in Nat \ {0} /\ "confirmed" \in Outcomes

VARIABLES
    row,             (* table enrollments: the row                         *)
    issued,          (* reservations made, numbered as their references    *)
    lapsed,          (* those whose reserved_until is past: 1 .. lapsed    *)
    webhookEvents,   (* table webhook_events: keys recorded                *)
    rowLock,         (* who has an uncommitted write of the row            *)
    serving,         (* each request                                       *)
    paid,            (* history: keys whose webhook left the row confirmed *)
    together         (* history: pairs of keys served at the same time     *)

history == <<paid, together>>
vars == <<row, issued, lapsed, webhookEvents, rowLock, serving, history>>

Keys == 1 .. MaxReservations

(* until: the reservation that reserved_until is of.                       *)
Row == [status : {"none", "pendiente_pago", "confirmada", "cancelada", "expirada"},
        until : {0} \cup Keys, payment_reference : {0} \cup Keys]

NoRow == [status |-> "none", until |-> 0, payment_reference |-> 0]

(* entity: what the request intends; loaded: the row it selected last.     *)
Request == [op : {"none", "register", "webhook", "cancel", "sweep"},
            pc : {"idle", "update", "write", "commit"}, key : {0} \cup Keys,
            status : Outcomes, entity : Row, loaded : Row, write : Row]

Serving(op, pc, key, status, entity, loaded) ==
    [op |-> op, pc |-> pc, key |-> key, status |-> status, entity |-> entity,
     loaded |-> loaded, write |-> NoRow]

Idle == Serving("none", "idle", 0, "confirmed", NoRow, NoRow)

Init ==
    /\ row = NoRow
    /\ issued = 0 /\ lapsed = 0
    /\ webhookEvents = {}
    /\ rowLock = {}
    /\ serving = [q \in Requests |-> Idle]
    /\ paid = {}
    /\ together = {}

(* Reservations lapse in the order they were made.                         *)
Lapse ==
    /\ lapsed < issued
    /\ lapsed' = lapsed + 1
    /\ UNCHANGED <<row, issued, webhookEvents, rowLock, serving, history>>

IsActive == \/ row.status = "confirmada"
            \/ row.status = "pendiente_pago" /\ row.until > lapsed

-----------------------------------------------------------------------------
(* What each operation reads and intends *)

(* Under the lock of the event: one registration at a time.                *)
Register(q) ==
    LET n == issued + 1
    IN  /\ serving[q].pc = "idle" /\ n <= MaxReservations
        /\ \A p \in Requests : serving[p].op # "register"
        /\ ~ IsActive
        /\ serving' = [serving EXCEPT ![q] =
              Serving("register", "write", 0, "confirmed",
                      [status |-> "pendiente_pago", until |-> n, payment_reference |-> n], row)]
        /\ UNCHANGED <<row, issued, lapsed, webhookEvents, rowLock, history>>

Begin(q, op, entity) ==
    /\ serving[q].pc = "idle"
    /\ serving' = [serving EXCEPT ![q] =
                     Serving(op, "update", 0, "confirmed", entity, NoRow)]
    /\ UNCHANGED <<row, issued, lapsed, webhookEvents, rowLock, history>>

Cancel(q) ==
    /\ row.status \in {"pendiente_pago", "confirmada"}
    /\ Begin(q, "cancel", [row EXCEPT !.status = "cancelada"])

(* Seeded fault: every reservation that is not paid is listed.             *)
SweepAll(q) ==
    /\ row.status = "pendiente_pago"
    /\ Begin(q, "sweep", [row EXCEPT !.status = "expirada"])

(* list_expired_pending.                                                   *)
Sweep(q) ==
    /\ row.status = "pendiente_pago" /\ row.until <= lapsed
    /\ Begin(q, "sweep", [row EXCEPT !.status = "expirada"])

(* Seeded fault: a confirmed enrollment can be confirmed again.            *)
EntityReconfirmed(key, status) ==
    IF status = "confirmed"
    THEN IF row.status \in {"pendiente_pago", "confirmada"}
         THEN {[row EXCEPT !.status = "confirmada", !.payment_reference = key]} ELSE {}
    ELSE {IF row.status = "pendiente_pago" THEN [row EXCEPT !.status = "expirada"] ELSE row}

(* confirm() raises unless the row is pending; every other status expires  *)
(* a pending row and is accepted in any case.                              *)
Entity(key, status) ==
    IF status = "confirmed"
    THEN IF row.status = "pendiente_pago"
         THEN {[row EXCEPT !.status = "confirmada", !.payment_reference = key]} ELSE {}
    ELSE {IF row.status = "pendiente_pago" THEN [row EXCEPT !.status = "expirada"] ELSE row}

(* Deliveries come late, repeatedly and in any order; one whose key is     *)
(* recorded is answered "duplicate".                                       *)
Webhook(q) ==
    /\ serving[q].pc = "idle"
    /\ \E key \in (1 .. issued) \ webhookEvents, status \in Outcomes :
        \E entity \in Entity(key, status) :
            /\ serving' = [serving EXCEPT ![q] =
                  Serving("webhook", IF entity = row THEN "commit" ELSE "update",
                          key, status, entity, NoRow)]
            /\ together' = together \cup
                 {{key, serving[p].key} : p \in {p \in Requests : serving[p].key # 0}}
    /\ UNCHANGED <<row, issued, lapsed, webhookEvents, rowLock, paid>>

-----------------------------------------------------------------------------
(* EnrollmentRepository.update and the end of the transaction *)

Reload(q) ==
    /\ serving[q].pc = "update"
    /\ serving' = [serving EXCEPT ![q].pc = "write", ![q].loaded = row]
    /\ UNCHANGED <<row, issued, lapsed, webhookEvents, rowLock, history>>

(* The columns in which the entity differs from the row selected; a        *)
(* registration writes them all.                                           *)
Written(s) ==
    LET Column(mine, selected, stored) ==
            IF s.op = "register" \/ mine # selected THEN mine ELSE stored
    IN  [status |-> Column(s.entity.status, s.loaded.status, row.status),
         until  |-> Column(s.entity.until, s.loaded.until, row.until),
         payment_reference |-> Column(s.entity.payment_reference,
                                      s.loaded.payment_reference, row.payment_reference)]

Flush(q) ==
    /\ serving[q].pc = "write"
    /\ rowLock = {}
    /\ rowLock' = {q}
    /\ serving' = [serving EXCEPT ![q].pc = "commit", ![q].loaded = NoRow,
                                  ![q].write = Written(serving[q])]
    /\ UNCHANGED <<row, issued, lapsed, webhookEvents, history>>

Close(q) ==
    /\ serving' = [serving EXCEPT ![q] = Idle]
    /\ rowLock' = rowLock \ {q}

(* A transaction that has written has the lock; a webhook that found the   *)
(* row settled has written nothing.                                        *)
Stored(q) == row' = IF q \in rowLock THEN serving[q].write ELSE row

CommitRegister(q) ==
    /\ serving[q].op = "register" /\ serving[q].pc = "commit"
    /\ Stored(q)
    /\ issued' = issued + 1
    /\ paid' = {}
    /\ Close(q)
    /\ UNCHANGED <<lapsed, webhookEvents, together>>

CommitUpdate(q) ==
    /\ serving[q].op \in {"cancel", "sweep"} /\ serving[q].pc = "commit"
    /\ Stored(q)
    /\ Close(q)
    /\ UNCHANGED <<issued, lapsed, webhookEvents, history>>

(* Seeded fault: the key is not recorded.                                  *)
CommitWebhookUnrecorded(q) ==
    /\ serving[q].op = "webhook" /\ serving[q].pc = "commit"
    /\ serving[q].key \notin webhookEvents
    /\ UNCHANGED webhookEvents
    /\ Stored(q)
    /\ paid' = IF serving[q].status = "confirmed" /\ row'.status = "confirmada"
               THEN paid \cup {serving[q].key} ELSE paid
    /\ Close(q)
    /\ UNCHANGED <<issued, lapsed, together>>

CommitWebhook(q) ==
    /\ serving[q].op = "webhook" /\ serving[q].pc = "commit"
    /\ serving[q].key \notin webhookEvents
    /\ webhookEvents' = webhookEvents \cup {serving[q].key}
    /\ Stored(q)
    /\ paid' = IF serving[q].status = "confirmed" /\ row'.status = "confirmada"
               THEN paid \cup {serving[q].key} ELSE paid
    /\ Close(q)
    /\ UNCHANGED <<issued, lapsed, together>>

(* The UNIQUE key is taken, the event is full, a timeout, a crash.         *)
Abort(q) ==
    /\ serving[q].pc # "idle"
    /\ Close(q)
    /\ UNCHANGED <<row, issued, lapsed, webhookEvents, history>>

Step(q) ==
    \/ Register(q) \/ Cancel(q) \/ Sweep(q) \/ Webhook(q)
    \/ Reload(q) \/ Flush(q) \/ Abort(q)
    \/ CommitRegister(q) \/ CommitUpdate(q) \/ CommitWebhook(q)

Next == Lapse \/ \E q \in Requests : Step(q)

Spec == Init /\ [][Next]_vars

-----------------------------------------------------------------------------
(* Properties *)

TypeOK ==
    /\ row \in Row
    /\ issued \in {0} \cup Keys /\ lapsed \in 0 .. issued
    /\ webhookEvents \subseteq 1 .. issued
    /\ rowLock \subseteq Requests
    /\ serving \in [Requests -> Request]
    /\ paid \subseteq webhookEvents

(* Two payments confirm a reservation only if their webhooks are served at *)
(* the same time: confirm() refuses what it reads as confirmed.            *)
PaidTwiceOnlyTogether ==
    \A j, k \in paid : j # k => {j, k} \in together

(* A reservation ends early by the rejection of a payment of this user, be *)
(* it for an earlier reservation, or by a sweep that had listed an earlier *)
(* one; the sweep of what it lists never ends it early.                    *)
EarlyEndIsARejection ==
    [][(row.status = "pendiente_pago" /\ row.until > lapsed /\ row'.status = "expirada") =>
         \E q \in Requests :
            /\ q \in rowLock \ rowLock'
            /\ \/ serving[q].op = "webhook" /\ serving[q].status # "confirmed"
               \/ serving[q].op = "sweep" /\ serving[q].entity.until < row.until]_vars

(* A webhook answered "confirmada" leaves the enrollment confirmed, unless *)
(* another payment's webhook was served at the same time: the columns that *)
(* one has written already are not written again over what came after it.  *)
ConfirmedIsStoredUnlessTogether ==
    [][\A q \in Requests :
         CommitWebhook(q) /\ serving[q].status = "confirmed" /\ row'.status # "confirmada"
            => \E k \in Keys \ {serving[q].key} : {k, serving[q].key} \in together]_vars
=============================================================================
