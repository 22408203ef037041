----------------------------- MODULE Enrollment -----------------------------
(***************************************************************************)
(* Seats of an event: registration, payment webhooks, cancellation and the *)
(* sweep of lapsed reservations, as concurrent database transactions.      *)
(*                                                                         *)
(* EnrollmentService (application/enrollment_service.py) runs each request *)
(* in one PostgreSQL READ COMMITTED transaction (infrastructure/db.py);    *)
(* the worker (worker.py) runs _expire_reservations in another.  A SELECT  *)
(* sees what is committed when it runs.  A written row stays locked and    *)
(* invisible until the writer commits.  Only registration locks the row of *)
(* the event.                                                              *)
(*                                                                         *)
(* The repositories return detached entities: update() selects the row     *)
(* again (the identity map is weak and has dropped it), copies the columns *)
(* of the entity onto it, and flushes an UPDATE of the columns that differ *)
(* from the SELECT.  Get, Reload and Flush are therefore three steps.      *)
(***************************************************************************)
EXTENDS Integers, FiniteSets

CONSTANTS
    Events,      (* event ids                                              *)
    Users,       (* user ids                                               *)
    Keys,        (* idempotency keys the payment gateway may issue         *)
    Requests,    (* API requests being served                              *)
    Workers,     (* worker processes                                       *)
    Faulty,      (* transactions that may be aborted from outside          *)
    EventRows,   (* the rows an organizer may give to an event             *)
    Hold,        (* payment_reservation_timeout_minutes, in clock ticks    *)
    MaxNow,      (* bound on the clock                                     *)
    NoId, NoTx, NoKey

Txs == Requests \cup Workers

(* UNIQUE(event_id, user_id) and the reuse of the row by a later           *)
(* registration make the pair the identity of an enrollment.               *)
Ids == Events \X Users

RegistrationStatus == {"pendiente_pago", "confirmada", "cancelada", "expirada"}

Row == [status : RegistrationStatus \cup {"ninguna"}, until : Nat]

(* The row does not exist; in a transaction: nothing read, nothing written.*)
Absent == [status |-> "ninguna", until |-> 0]

EventRow == [status : {"publicado", "no_publicado"}, capacity : Nat \ {0},
             paid : BOOLEAN, starts : Nat]

ASSUME ConstantsAssumption ==
    /\ EventRows \subseteq EventRow
    /\ IsFiniteSet(Users)
    /\ Requests \cap Workers = {}
    /\ Faulty \subseteq Txs
    /\ Hold \in Nat \ {0}
    /\ MaxNow \in Nat
    /\ NoId \notin Ids
    /\ NoTx \notin Txs
    /\ NoKey \notin Keys

VARIABLES
    now,           (* the clock                                            *)
    events,        (* table events: the committed row of each event        *)
    enrollments,   (* table enrollments: the committed row of each pair    *)
    webhookEvents, (* table webhook_events: keys recorded                  *)
    payments,      (* the enrollment each issued payment key is for        *)
    outbox,        (* table queued_jobs: whose confirmation mail was queued*)
    eventLock,     (* who holds FOR NO KEY UPDATE on the row of the event  *)
    rowLock,       (* who has an uncommitted write of the enrollment       *)
    tx,            (* the open transaction of each request and worker      *)
    ceiling,       (* history: the largest capacity the event has had      *)
    revived,       (* history: seats taken back without a registration     *)
    applied        (* history: confirmations committed for each key        *)

vars == <<now, events, enrollments, webhookEvents, payments, outbox, eventLock,
          rowLock, tx, ceiling, revived, applied>>

db == <<events, enrollments, webhookEvents, payments, outbox, ceiling, revived,
        applied>>

-----------------------------------------------------------------------------
(* Seats *)

(* The condition of _count_occupied, also the duplicate check of           *)
(* reserve_capacity_and_create.                                            *)
IsActive(row, time) ==
    \/ row.status = "confirmada"
    \/ row.status = "pendiente_pago" /\ row.until > time

(* The condition of list_expired_pending.  At until = now a reservation is *)
(* neither active nor swept.                                               *)
IsLapsed(row, time) == row.status = "pendiente_pago" /\ row.until < time

Occupied(e) == {i \in Ids : i[1] = e /\ IsActive(enrollments[i], now)}

-----------------------------------------------------------------------------
(* Transactions *)

(* An open transaction: op, the operation; pc, its next step; id, the row  *)
(* in hand; cap, the capacity of the event as read before the lock; read,  *)
(* the entities still to be written; loaded, the row last selected; writes,*)
(* the rows written; key, the idempotency key of a webhook.                *)
Nothing == [i \in Ids |-> Absent]

Idle == [op |-> "idle", pc |-> "idle", id |-> NoId, cap |-> 0,
         read |-> Nothing, loaded |-> Absent, writes |-> Nothing, key |-> NoKey]

Transaction ==
    [op : {"idle", "register", "confirm", "reject", "cancel", "sweep"},
     pc : {"idle", "lock", "count", "insert", "update", "write"},
     id : Ids \cup {NoId}, cap : Nat, read : [Ids -> Row], loaded : Row,
     writes : [Ids -> Row], key : Keys \cup {NoKey}]

(* Seeded fault: update() forgets the status.                              *)
ColumnDiffNoStatus(row, entity, loaded) ==
    [status |-> row.status,
     until  |-> IF entity.until # loaded.until THEN entity.until ELSE row.until]

(* The UPDATE of a flush: columns where the entity differs from the SELECT *)
ColumnDiff(row, entity, loaded) ==
    [status |-> IF entity.status # loaded.status THEN entity.status ELSE row.status,
     until  |-> IF entity.until # loaded.until THEN entity.until ELSE row.until]

(* The tables as they are once the writes of t are committed.              *)
Written(t) ==
    [i \in Ids |-> IF tx[t].writes[i] = Absent THEN enrollments[i] ELSE tx[t].writes[i]]

(* Seeded fault: the row locks outlive the transaction.                    *)
CloseKeepsRows(t) ==
    /\ tx' = [tx EXCEPT ![t] = Idle]
    /\ eventLock' = [e \in Events |-> IF eventLock[e] = t THEN NoTx ELSE eventLock[e]]
    /\ UNCHANGED <<now, rowLock>>

(* Commit or rollback closes the transaction and releases its locks.       *)
Close(t) ==
    /\ tx' = [tx EXCEPT ![t] = Idle]
    /\ eventLock' = [e \in Events |-> IF eventLock[e] = t THEN NoTx ELSE eventLock[e]]
    /\ rowLock' = [i \in Ids |-> IF rowLock[i] = t THEN NoTx ELSE rowLock[i]]
    /\ UNCHANGED now

Rollback(t) == Close(t) /\ UNCHANGED db

Init ==
    /\ now = 1
    /\ events \in [Events -> {r \in EventRows : r.status = "publicado"}]
    /\ enrollments = Nothing
    /\ webhookEvents = {}
    /\ payments = [k \in Keys |-> NoId]
    /\ outbox = {}
    /\ eventLock = [e \in Events |-> NoTx]
    /\ rowLock = [i \in Ids |-> NoTx]
    /\ tx = [t \in Txs |-> Idle]
    /\ ceiling = [e \in Events |-> events[e].capacity]
    /\ revived = {}
    /\ applied = [k \in Keys |-> 0]

-----------------------------------------------------------------------------
(* Environment: the clock, the organizer, and failures *)

Tick ==
    /\ now < MaxNow
    /\ now' = now + 1
    /\ UNCHANGED <<db, eventLock, rowLock, tx>>

(* EventService commits any row to the event; its UPDATE waits for the     *)
(* lock of a registration.                                                 *)
EditEvent(e) ==
    /\ eventLock[e] = NoTx
    /\ \E row \in EventRows :
        /\ row # events[e]
        /\ events' = [events EXCEPT ![e] = row]
        /\ ceiling' = [ceiling EXCEPT ![e] = IF row.capacity > @ THEN row.capacity ELSE @]
    /\ UNCHANGED <<now, enrollments, webhookEvents, payments, outbox, eventLock,
                   rowLock, tx, revived, applied>>

(* statement_timeout, a lost connection or a crash.                        *)
Abort(t) ==
    /\ t \in Faulty
    /\ tx[t].op # "idle"
    /\ Rollback(t)

(* PostgreSQL aborts one transaction of a cycle of lock waits.             *)
Blocker(t) ==
    IF tx[t].pc = "lock" THEN eventLock[tx[t].id[1]]
    ELSE IF tx[t].pc \in {"insert", "write"} THEN rowLock[tx[t].id] ELSE NoTx

WaitEachOther(S) == S # {} /\ \A t \in S : Blocker(t) \in S

Victim(t) ==
    /\ \E cycle \in SUBSET Txs :
        /\ t \in cycle
        /\ WaitEachOther(cycle)
        /\ \A S \in SUBSET cycle : WaitEachOther(S) => S = cycle
    /\ Rollback(t)

-----------------------------------------------------------------------------
(* register: EnrollmentService.register and reserve_capacity_and_create *)

NewEnrollment(row) ==
    IF row.paid THEN [status |-> "pendiente_pago", until |-> now + Hold]
                ELSE [status |-> "confirmada", until |-> 0]

(* Bound: a payment reference is left for every open registration.         *)
KeyBudget ==
    Cardinality({t \in Txs : tx[t].op = "register"})
        < Cardinality({k \in Keys : payments[k] = NoId})

(* The event is read, and reserved_until computed, before any lock.        *)
RegisterGetEvent(t, i) ==
    /\ tx[t].op = "idle"
    /\ events[i[1]].status = "publicado"
    /\ events[i[1]].paid => KeyBudget
    /\ tx' = [tx EXCEPT ![t] =
                [Idle EXCEPT !.op = "register", !.pc = "lock", !.id = i,
                             !.cap = events[i[1]].capacity,
                             !.read[i] = NewEnrollment(events[i[1]])]]
    /\ UNCHANGED <<now, db, eventLock, rowLock>>

(* Seeded fault: the row of the event is read without FOR NO KEY UPDATE.   *)
RegisterLockShared(t) ==
    /\ tx[t].pc = "lock"
    /\ eventLock[tx[t].id[1]] = NoTx
    /\ ~ IsActive(enrollments[tx[t].id], now)
    /\ tx' = [tx EXCEPT ![t].pc = "count", ![t].loaded = enrollments[tx[t].id]]
    /\ UNCHANGED <<now, db, eventLock, rowLock>>

(* The event row is locked, then the enrollment of the user is selected.   *)
RegisterLock(t) ==
    /\ tx[t].pc = "lock"
    /\ eventLock[tx[t].id[1]] = NoTx
    /\ ~ IsActive(enrollments[tx[t].id], now)
    /\ eventLock' = [eventLock EXCEPT ![tx[t].id[1]] = t]
    /\ tx' = [tx EXCEPT ![t].pc = "count", ![t].loaded = enrollments[tx[t].id]]
    /\ UNCHANGED <<now, db, rowLock>>

RegisterDuplicate(t) ==
    /\ tx[t].pc = "lock"
    /\ eventLock[tx[t].id[1]] = NoTx
    /\ IsActive(enrollments[tx[t].id], now)
    /\ Rollback(t)

(* Seeded fault: > instead of >= against the capacity.                     *)
RegisterCountOneMore(t) ==
    /\ tx[t].pc = "count"
    /\ Cardinality(Occupied(tx[t].id[1])) <= tx[t].cap
    /\ tx' = [tx EXCEPT ![t].pc = "insert"]
    /\ UNCHANGED <<now, db, eventLock, rowLock>>

RegisterCount(t) ==
    /\ tx[t].pc = "count"
    /\ Cardinality(Occupied(tx[t].id[1])) < tx[t].cap
    /\ tx' = [tx EXCEPT ![t].pc = "insert"]
    /\ UNCHANGED <<now, db, eventLock, rowLock>>

RegisterNoCapacity(t) ==
    /\ tx[t].pc = "count"
    /\ Cardinality(Occupied(tx[t].id[1])) >= tx[t].cap
    /\ Rollback(t)

(* The row is inserted or reused.  A paid registration then updates it a   *)
(* second time to store the payment reference, which rewrites every column.*)
RegisterFlush(t) ==
    LET i == tx[t].id
        entity == tx[t].read[i]
        paid == entity.status = "pendiente_pago"
    IN  /\ tx[t].pc = "insert"
        /\ rowLock[i] = NoTx
        /\ rowLock' = [rowLock EXCEPT ![i] = t]
        /\ tx' = [tx EXCEPT ![t].pc = "update",
                            ![t].read[i] = Absent,
                            ![t].writes[i] =
                                IF paid THEN entity
                                ELSE ColumnDiff(enrollments[i], entity, tx[t].loaded)]
        /\ UNCHANGED <<now, db, eventLock>>

-----------------------------------------------------------------------------
(* Payment webhook, cancellation and sweep: what each reads and intends *)

(* t has read the entities of the non-absent rows and will update them.    *)
Begin(t, op, i, k, entities) ==
    /\ tx[t].op = "idle"
    /\ tx' = [tx EXCEPT ![t] = [Idle EXCEPT !.op = op, !.pc = "update", !.id = i,
                                            !.key = k, !.read = entities]]
    /\ UNCHANGED <<now, db, eventLock, rowLock>>

Entity(i, status) == [Nothing EXCEPT ![i] = [enrollments[i] EXCEPT !.status = status]]

(* handle_payment_webhook, status "confirmed".  The gateway delivers it    *)
(* late, repeatedly and in any order.  confirm() accepts a pending         *)
(* enrollment whatever its reserved_until.                                 *)
WebhookConfirm(t, k) ==
    /\ payments[k] # NoId
    /\ k \notin webhookEvents
    /\ enrollments[payments[k]].status = "pendiente_pago"
    /\ Begin(t, "confirm", payments[k], k, Entity(payments[k], "confirmada"))

(* Any other status: a pending enrollment expires; otherwise the key is    *)
(* recorded and nothing else changes.                                      *)
WebhookReject(t, k) ==
    /\ payments[k] # NoId
    /\ k \notin webhookEvents
    /\ Begin(t, "reject", payments[k], k,
             IF enrollments[payments[k]].status = "pendiente_pago"
             THEN Entity(payments[k], "expirada") ELSE Nothing)

(* cancel: allowed to the owner until the event starts.                    *)
Cancel(t, i) ==
    /\ enrollments[i].status \in {"pendiente_pago", "confirmada"}
    /\ events[i[1]].starts > now
    /\ Begin(t, "cancel", i, NoKey, Entity(i, "cancelada"))

(* _expire_reservations: list_expired_pending, then expire() on each.      *)
SweepList(w) ==
    LET lapsed == {i \in Ids : IsLapsed(enrollments[i], now)}
    IN  /\ lapsed # {}
        /\ Begin(w, "sweep", NoId, NoKey,
                 [i \in Ids |-> IF i \in lapsed
                                THEN [enrollments[i] EXCEPT !.status = "expirada"]
                                ELSE Absent])

-----------------------------------------------------------------------------
(* EnrollmentRepository.update: select again, copy, flush *)

Reload(t, i) ==
    /\ tx[t].pc = "update"
    /\ tx[t].read[i] # Absent
    /\ tx' = [tx EXCEPT ![t].pc = "write", ![t].id = i, ![t].loaded = enrollments[i]]
    /\ UNCHANGED <<now, db, eventLock, rowLock>>

Flush(t) ==
    LET i == tx[t].id
    IN  /\ tx[t].pc = "write"
        /\ rowLock[i] = NoTx
        /\ rowLock' = [rowLock EXCEPT ![i] = t]
        /\ tx' = [tx EXCEPT ![t].pc = "update",
                            ![t].read[i] = Absent,
                            ![t].writes[i] =
                                ColumnDiff(enrollments[i], tx[t].read[i], tx[t].loaded)]
        /\ UNCHANGED <<now, db, eventLock>>

-----------------------------------------------------------------------------
(* Commit *)

ReadyToCommit(t) == tx[t].pc = "update" /\ tx[t].read = Nothing

(* Seeded fault: the handler that enqueues the mail is not among the       *)
(* observers of a confirmation.                                            *)
PublishConfirmedNoMail(i) == UNCHANGED outbox

(* _publish_confirmed: the handlers run inside the transaction, and an     *)
(* error of the database in one of them fails the transaction (Abort).     *)
PublishConfirmed(i) == outbox' = outbox \cup {i}

(* The client of a paid registration learns a fresh payment reference; a   *)
(* free one is confirmed.                                                  *)
CommitRegister(t) ==
    LET i == tx[t].id
    IN  /\ tx[t].op = "register"
        /\ ReadyToCommit(t)
        /\ enrollments' = Written(t)
        /\ revived' = revived \ {i}
        /\ IF tx[t].writes[i].status = "pendiente_pago"
           THEN /\ \E k \in Keys : /\ payments[k] = NoId
                                  /\ payments' = [payments EXCEPT ![k] = i]
                /\ UNCHANGED outbox
           ELSE PublishConfirmed(i) /\ UNCHANGED payments
        /\ Close(t)
        /\ UNCHANGED <<events, webhookEvents, ceiling, applied>>

(* Seats that a commit other than a registration takes back.               *)
Retaken(t) ==
    {i \in Ids : IsActive(Written(t)[i], now) /\ ~ IsActive(enrollments[i], now)}

CommitUpdate(t) ==
    /\ tx[t].op \in {"cancel", "sweep"}
    /\ ReadyToCommit(t)
    /\ enrollments' = Written(t)
    /\ revived' = revived \cup Retaken(t)
    /\ Close(t)
    /\ UNCHANGED <<events, webhookEvents, payments, outbox, ceiling, applied>>

(* Seeded fault: no UNIQUE(idempotency_key), only is_processed.            *)
CommitWebhookNotUnique(t) ==
    /\ tx[t].op \in {"confirm", "reject"}
    /\ ReadyToCommit(t)
    /\ webhookEvents' = webhookEvents \cup {tx[t].key}
    /\ enrollments' = Written(t)
    /\ revived' = revived \cup Retaken(t)
    /\ IF tx[t].op = "confirm"
       THEN /\ applied' = [applied EXCEPT ![tx[t].key] = @ + 1]
            /\ PublishConfirmed(tx[t].id)
       ELSE UNCHANGED <<applied, outbox>>
    /\ Close(t)
    /\ UNCHANGED <<events, payments, ceiling>>

(* The UNIQUE idempotency key is inserted with the effects of the webhook. *)
CommitWebhook(t) ==
    /\ tx[t].op \in {"confirm", "reject"}
    /\ ReadyToCommit(t)
    /\ tx[t].key \notin webhookEvents
    /\ webhookEvents' = webhookEvents \cup {tx[t].key}
    /\ enrollments' = Written(t)
    /\ revived' = revived \cup Retaken(t)
    /\ IF tx[t].op = "confirm"
       THEN /\ applied' = [applied EXCEPT ![tx[t].key] = @ + 1]
            /\ PublishConfirmed(tx[t].id)
       ELSE UNCHANGED <<applied, outbox>>
    /\ Close(t)
    /\ UNCHANGED <<events, payments, ceiling>>

WebhookKeyTaken(t) ==
    /\ tx[t].op \in {"confirm", "reject"}
    /\ ReadyToCommit(t)
    /\ tx[t].key \in webhookEvents
    /\ Rollback(t)

-----------------------------------------------------------------------------
(* A request refused before it writes (event not published, duplicate      *)
(* webhook, transition not allowed) changes nothing: with every transaction*)
(* closed the server may stay as it is.                                    *)
Quiet == (\A t \in Txs : tx[t].op = "idle") /\ UNCHANGED vars

RegisterStep(t) ==
    \/ RegisterLock(t)
    \/ RegisterDuplicate(t)
    \/ RegisterCount(t)
    \/ RegisterNoCapacity(t)
    \/ RegisterFlush(t)

CommitStep(t) ==
    \/ CommitRegister(t)
    \/ CommitUpdate(t)
    \/ CommitWebhook(t)
    \/ WebhookKeyTaken(t)

(* The next step of an open transaction.                                   *)
Step(t) ==
    \/ RegisterStep(t)
    \/ \E i \in Ids : Reload(t, i)
    \/ Flush(t)
    \/ CommitStep(t)

Request(t) ==
    \/ \E i \in Ids : RegisterGetEvent(t, i)
    \/ \E i \in Ids : Cancel(t, i)
    \/ \E k \in Keys : WebhookConfirm(t, k)
    \/ \E k \in Keys : WebhookReject(t, k)

Next ==
    \/ Tick
    \/ \E e \in Events : EditEvent(e)
    \/ \E t \in Txs : Abort(t) \/ Victim(t)
    \/ \E t \in Requests : Request(t)
    \/ \E w \in Workers : SweepList(w)
    \/ \E t \in Txs : Step(t)
    \/ Quiet

Spec == Init /\ [][Next]_vars

(* The event loop resumes an open transaction, and PostgreSQL hands a      *)
(* released lock to the waiter that queued first, so a step that is enabled*)
(* again and again is taken.  Its deadlock detector runs after             *)
(* deadlock_timeout.  The worker sweeps for ever, the clock moves.         *)
Fairness ==
    /\ WF_vars(Tick)
    /\ WF_vars(\E t \in Txs : Victim(t))
    /\ \A t \in Txs : SF_vars(Step(t))
    /\ \A w \in Workers : WF_vars(SweepList(w))

FairSpec == Spec /\ Fairness

-----------------------------------------------------------------------------
(* Properties *)

(* Types of the tables, the locks and the open transactions.               *)
TypeOK ==
    /\ now \in Nat
    /\ events \in [Events -> EventRows]
    /\ enrollments \in [Ids -> Row]
    /\ webhookEvents \subseteq Keys
    /\ payments \in [Keys -> Ids \cup {NoId}]
    /\ outbox \subseteq Ids
    /\ eventLock \in [Events -> Txs \cup {NoTx}]
    /\ rowLock \in [Ids -> Txs \cup {NoTx}]
    /\ tx \in [Txs -> Transaction]
    /\ ceiling \in [Events -> Nat]
    /\ revived \subseteq Ids
    /\ applied \in [Keys -> Nat]

(* RN-01, as far as the code keeps it: the seats sold by registration never*)
(* exceed the largest capacity the event has had, whatever registrations,  *)
(* webhooks, cancellations, sweeps, edits and aborts interleave.  Only a   *)
(* seat taken back by another transaction (revived) escapes the count.     *)
SoldWithinCapacity ==
    \A e \in Events : Cardinality(Occupied(e) \ revived) <= ceiling[e]

(* Why SoldWithinCapacity holds.  A registration that has counted holds the*)
(* lock of its event until it commits, so at most one seat per event is    *)
(* claimed and not yet visible, and it was counted.                        *)
HoldsEvent(t) == tx[t].op = "register" /\ tx[t].pc \in {"count", "insert", "update"}

Claims(e) ==
    {i \in Ids : \E t \in Txs : /\ HoldsEvent(t)
                               /\ tx[t].pc # "count"
                               /\ tx[t].id = i
                               /\ i[1] = e}

Shape(t) ==
    /\ tx[t].pc \in {"lock", "count", "insert"} => tx[t].op = "register"
    /\ tx[t].pc = "write" => tx[t].id \in Ids /\ tx[t].read[tx[t].id] # Absent
    /\ tx[t].op \in {"confirm", "reject"} => tx[t].key \in Keys
    /\ tx[t].op \in {"register", "confirm", "reject", "cancel"} =>
        /\ tx[t].id \in Ids
        /\ \A i \in Ids \ {tx[t].id} : tx[t].read[i] = Absent /\ tx[t].writes[i] = Absent
    /\ tx[t].op = "register" =>
        /\ tx[t].pc \in {"lock", "count", "insert", "update"}
        /\ tx[t].cap <= ceiling[tx[t].id[1]]
        /\ tx[t].pc = "update" => tx[t].read[tx[t].id] = Absent

EventLocked(t) == HoldsEvent(t) => eventLock[tx[t].id[1]] = t

SeatsClaimed ==
    /\ \A t \in Txs : Shape(t) /\ EventLocked(t)
    /\ \A e \in Events :
        /\ events[e].capacity <= ceiling[e]
        /\ Cardinality((Occupied(e) \ revived) \cup Claims(e)) <= ceiling[e]

(* RN-06: deliveries of one payment, however repeated or concurrent,       *)
(* confirm at most once (is_processed alone does not suffice: the UNIQUE   *)
(* key of webhook_events stops the concurrent ones).                       *)
ConfirmedOncePerKey == \A k \in Keys : applied[k] <= 1

(* RF-15: an enrollment is never confirmed without the mail that says so:  *)
(* the job is committed with the confirmation, whichever transaction makes *)
(* it and whatever the row was when that transaction read it.              *)
ConfirmedIsMailed ==
    \A i \in Ids : enrollments[i].status = "confirmada" => i \in outbox

(* The promise stated in SeatLedger: every step of the transactions is a   *)
(* sale of a free seat, a release, a seat taken back, or nothing at all.   *)
Ledger == INSTANCE SeatLedger WITH
    sold <- {i \in Ids : IsActive(enrollments[i], now)} \ revived,
    retaken <- {i \in Ids : IsActive(enrollments[i], now)} \cap revived,
    capacity <- ceiling

ImplementsLedger == Ledger!Spec

(* CapacityCount (value_objects.py) and the docstring of the repository: no*)
(* event has more confirmed enrollments than its capacity.  A payment      *)
(* confirmed after its reservation lapsed and the seat was sold again      *)
(* violates it.                                                            *)
NoOversell ==
    \A e \in Events :
        Cardinality({i \in Occupied(e) : enrollments[i].status = "confirmada"})
            <= events[e].capacity

(* The transition table of entities.py: a confirmed enrollment never       *)
(* becomes expired.  update() writes a status decided on an older row.     *)
ConfirmedNeverExpires ==
    [][\A i \in Ids : enrollments[i].status = "confirmada"
                        => enrollments'[i].status # "expirada"]_vars

(* A transaction never waits for a lock for ever: two sweeps take the rows *)
(* in any order, and their cycles of waits are broken.                     *)
LockWaitsEnd == \A t \in Txs : Blocker(t) # NoTx ~> Blocker(t) = NoTx

(* A reservation whose time has passed does not stay pending for ever: the *)
(* sweep releases it unless something else settles it first.               *)
LapsedIsSettled ==
    \A i \in Ids : IsLapsed(enrollments[i], now) ~> ~ IsLapsed(enrollments[i], now)

(* No lock is left behind by a commit, a refusal, a duplicate key or an    *)
(* abort: every transaction that opens also closes.                        *)
TransactionsEnd == \A t \in Txs : tx[t].op # "idle" ~> tx[t].op = "idle"
=============================================================================
