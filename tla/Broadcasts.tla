----------------------------- MODULE Broadcasts -----------------------------
(***************************************************************************)
(* Mails to the people enrolled in one event: the notice of a cancellation *)
(* (EventService.cancel) and the messages of the organizer                 *)
(* (NotificationService.broadcast), against registrations, payments and    *)
(* updates in flight, and their deliveries by the workers of JobQueue.     *)
(*                                                                         *)
(* A registration reads the event and then locks its row until it commits; *)
(* it does not look at the event again.  A cancellation updates that row,  *)
(* so it waits for the lock, and lists the recipients after the update.    *)
(* Webhooks, the sweep and the cancellation of an enrollment neither lock  *)
(* the event nor look at its status.                                       *)
(***************************************************************************)
EXTENDS Integers, FiniteSets

CONSTANTS
    Users,
    Cancels,     (* requests that cancel the event                         *)
    Messages,    (* requests that send a message to its people             *)
    Patches,     (* requests that update the event: PATCH, publish, approve*)
    Changes,     (* webhooks, cancellations and sweeps of enrollments      *)
    Workers, MaxRetries, BackoffCap, Crashing, Unheard,
    NoOne, NoJob

Mailers == Cancels \cup Messages

Requests == Mailers \cup Patches

(* One row of notification_deliveries, and one job, per notification and   *)
(* recipient: the request names the notification it creates.               *)
Deliveries == Mailers \X Users

ASSUME ConstantsAssumption ==
    /\ IsFiniteSet(Users)
    /\ Cancels \cap Messages = {} /\ Mailers \cap Patches = {}
    /\ Requests \cap Users = {}
    /\ NoOne \notin Requests \cup Users
    /\ MaxRetries \in Nat \ {0}
    /\ BackoffCap \in Nat
    /\ Crashing \subseteq Workers /\ Unheard \subseteq Workers
    /\ NoJob \notin Deliveries

VARIABLES
    status,        (* status of the event, committed                       *)
    eventLock,     (* who holds the row of the event                       *)
    enrolled,      (* status of the enrollment of each user, committed     *)
    registering,   (* the registration of each user; under the lock, the   *)
                   (* status it has loaded                                 *)
    changing,      (* the enrollment each of Changes has loaded            *)
    request,       (* the requests being served: the status of the event   *)
                   (* that each is to write, the recipients it has listed  *)
    deliveries,    (* table notification_deliveries: status of each row    *)
    writer,        (* history: the request that wrote the status last      *)
    after,         (* history: by cancellation, users who came too late    *)
    queue, deadLetters, worker, sent, skipped, dropped   (* as in JobQueue *)

mail == <<queue, deadLetters, worker, sent, skipped, dropped, deliveries>>
event == <<status, eventLock, writer>>
people == <<enrolled, registering, changing, after>>
vars == <<event, people, request, mail>>

Queue == INSTANCE JobQueue WITH
    Jobs <- Deliveries, Created <- [d \in Deliveries |-> 0],
    recorded <- {d \in Deliveries : deliveries[d] = "sent"}

Statuses == {"none", "pendiente_pago", "confirmada", "expirada", "cancelada"}

(* _ENROLLMENT_TRANSITIONS; "none" is an enrollment that is not there.     *)
Successors(from) ==
    CASE from = "pendiente_pago" -> {"confirmada", "expirada", "cancelada"}
      [] from = "confirmada"     -> {"cancelada"}
      [] OTHER                   -> {}

NoChange == [user |-> NoOne, status |-> "none"]

At(pc, to) == [pc |-> pc, status |-> to, recipients |-> {}]

Done == At("done", "none")

Init ==
    /\ status = "publicado"
    /\ eventLock = NoOne
    /\ enrolled = [u \in Users |-> "none"]
    /\ registering = [u \in Users |-> "idle"]
    /\ changing = [t \in Changes |-> NoChange]
    /\ request = [r \in Requests |-> At("idle", "none")]
    /\ deliveries = [d \in Deliveries |-> "none"]
    /\ writer = NoOne
    /\ after = [r \in Cancels |-> {}]
    /\ Queue!Init

Released(p) == IF eventLock = p THEN NoOne ELSE eventLock

-----------------------------------------------------------------------------
(* Enrollments *)

(* A cancellation is out of reach of u once it has listed the recipients,  *)
(* while it stands.                                                        *)
TooLate(u) ==
    after' = [r \in Cancels |->
                IF writer = r \/ (eventLock = r /\ request[r].pc = "commit")
                THEN after[r] \cup {u} ELSE after[r]]

RegisterRead(u) ==
    /\ registering[u] = "idle"
    /\ status = "publicado"
    /\ registering' = [registering EXCEPT ![u] = "read"]
    /\ UNCHANGED <<event, enrolled, changing, after, request, mail>>

(* The duplicate check, of what the enrollment is: one whose reservation   *)
(* has lapsed is no duplicate.  A cancelled event is enrolled in like any. *)
Loads(u) ==
    /\ registering[u] = "read"
    /\ enrolled[u] # "confirmada"
    /\ registering' = [registering EXCEPT ![u] = enrolled[u]]
    /\ IF status = "cancelado" THEN TooLate(u) ELSE UNCHANGED after
    /\ UNCHANGED <<status, writer, enrolled, changing, request, mail>>

(* Seeded fault: no FOR NO KEY UPDATE on the event.                        *)
RegisterUnlocked(u) == Loads(u) /\ UNCHANGED eventLock

RegisterLock(u) ==
    /\ Loads(u)
    /\ eventLock = NoOne
    /\ eventLock' = u

(* A free event confirms; a paid one reserves, and leaves the status of a  *)
(* row alone that it had loaded as reserved.                               *)
RegisterCommit(u) ==
    /\ registering[u] \in Statuses
    /\ \/ enrolled' = [enrolled EXCEPT ![u] = "confirmada"]
       \/ /\ registering[u] # "pendiente_pago"
          /\ enrolled' = [enrolled EXCEPT ![u] = "pendiente_pago"]
       \/ registering[u] = "pendiente_pago" /\ UNCHANGED enrolled
    /\ registering' = [registering EXCEPT ![u] = "idle"]
    /\ eventLock' = Released(u)
    /\ UNCHANGED <<status, writer, changing, after, request, mail>>

(* Refused as a duplicate, out of seats or aborted.                        *)
RegisterEnd(u) ==
    /\ registering[u] # "idle"
    /\ registering' = [registering EXCEPT ![u] = "idle"]
    /\ eventLock' = Released(u)
    /\ UNCHANGED <<status, writer, enrolled, changing, after, request, mail>>

(* A webhook, a cancellation or a sweep loads an enrollment, ...           *)
ChangeRead(t, u) ==
    /\ changing[t] = NoChange
    /\ Successors(enrolled[u]) # {}
    /\ changing' = [changing EXCEPT ![t] = [user |-> u, status |-> enrolled[u]]]
    /\ UNCHANGED <<event, enrolled, registering, after, request, mail>>

(* ... and writes a successor of what it loaded over what is there by then.*)
ChangeCommit(t) ==
    LET u == changing[t].user
    IN  /\ changing[t] # NoChange
        /\ \E to \in Successors(changing[t].status) :
            /\ enrolled' = [enrolled EXCEPT ![u] = to]
            /\ IF to = "confirmada" /\ enrolled[u] # to THEN TooLate(u) ELSE UNCHANGED after
        /\ changing' = [changing EXCEPT ![t] = NoChange]
        /\ UNCHANGED <<event, registering, request, mail>>

(* Aborted, or it wrote what was there.                                    *)
ChangeEnd(t) ==
    /\ changing[t] # NoChange
    /\ changing' = [changing EXCEPT ![t] = NoChange]
    /\ UNCHANGED <<event, enrolled, registering, after, request, mail>>

-----------------------------------------------------------------------------
(* Requests of the organizer *)

Goes(r, from, to) ==
    /\ request[r].pc = from
    /\ request' = [request EXCEPT ![r] = to]

(* A cancellation must find the event not cancelled; a message only finds  *)
(* it.                                                                     *)
CancelRead(r) ==
    /\ r \in Cancels
    /\ Goes(r, "idle", IF status = "cancelado" THEN Done ELSE At("reload", "cancelado"))
    /\ UNCHANGED <<event, people, mail>>

MessageRead(r) ==
    /\ r \in Messages
    /\ Goes(r, "idle", At("list", "none"))
    /\ UNCHANGED <<event, people, mail>>

(* A PATCH of an event in any status; publish and approve, that found it a *)
(* draft, write what a PATCH writes that found it published.               *)
PatchRead(r) ==
    /\ r \in Patches
    /\ Goes(r, "idle", At("reload", status))
    /\ UNCHANGED <<event, people, mail>>

(* update(): select again; the status is written if it differs.  What else *)
(* a PATCH writes does not matter here.                                    *)
Reload(r) ==
    LET to == request[r].status
    IN  /\ Goes(r, "reload", IF status # to THEN At("flush", to)
                             ELSE IF r \in Cancels THEN At("list", to) ELSE Done)
        /\ UNCHANGED <<event, people, mail>>

Flush(r) ==
    /\ Goes(r, "flush", At(IF r \in Cancels THEN "list" ELSE "commit", request[r].status))
    /\ eventLock = NoOne
    /\ eventLock' = r
    /\ UNCHANGED <<status, writer, people, mail>>

RecipientsFor(segment) ==
    {u \in Users : CASE segment = "confirmed" -> enrolled[u] = "confirmada"
                     [] segment = "cancelled" -> enrolled[u] = "cancelada"
                     [] segment = "all"       -> enrolled[u] # "none"}

Segments(r) == IF r \in Cancels THEN {"confirmed"} ELSE {"all", "confirmed", "cancelled"}

ListRecipients(r) ==
    /\ \E segment \in Segments(r) :
        Goes(r, "list", [pc |-> "commit", status |-> request[r].status,
                         recipients |-> RecipientsFor(segment)])
    /\ UNCHANGED <<event, people, mail>>

Listed(r) == {<<r, u>> : u \in request[r].recipients}

(* The event and the deliveries are committed together, ...                *)
Commits(r) ==
    /\ Goes(r, "commit", Done)
    /\ IF eventLock = r
       THEN /\ status' = request[r].status
            /\ writer' = r
            /\ after' = [q \in Cancels |-> IF q = r THEN after[q] ELSE {}]
       ELSE UNCHANGED <<status, writer, after>>
    /\ eventLock' = Released(r)
    /\ deliveries' = [d \in Deliveries |->
                        IF d \in Listed(r) THEN "pending" ELSE deliveries[d]]
    /\ UNCHANGED <<enrolled, registering, changing>>

(* Seeded fault: the deliveries are stored but no job is enqueued.         *)
CommitUnqueued(r) ==
    Commits(r) /\ UNCHANGED <<queue, deadLetters, worker, sent, skipped, dropped>>

(* ... and with the jobs of the deliveries.                                *)
CommitRequest(r) == Commits(r) /\ Queue!Enqueue(Listed(r))

AbortRequest(r) ==
    /\ \E pc \in {"reload", "flush", "list", "commit"} : Goes(r, pc, Done)
    /\ eventLock' = Released(r)
    /\ UNCHANGED <<status, writer, people, mail>>

-----------------------------------------------------------------------------
(* Workers *)

(* _handle_send_email marks the delivery in the transaction that completes *)
(* the job.                                                                *)
MarkDelivery(w) ==
    /\ worker[w].pc = "acted"
    /\ deliveries' = [deliveries EXCEPT ![worker[w].job] = "sent"]
    /\ Queue!Complete(w)

(* Seeded fault: the delivery is marked in the claim's transaction.        *)
ClaimMarks(w) ==
    /\ worker[w].pc = "claimed"
    /\ deliveries' = [deliveries EXCEPT ![worker[w].job] = "sent"]
    /\ queue' = [queue EXCEPT ![worker[w].job].status = "processing"]
    /\ worker' = [worker EXCEPT ![w].pc = "working"]
    /\ UNCHANGED <<deadLetters, sent, skipped, dropped>>

ClaimCommit(w) == UNCHANGED deliveries /\ Queue!ClaimCommit(w)

(* The handler of a broadcast never finds nothing to do.                   *)
WorkerStep(w) ==
    \/ \E d \in Deliveries : UNCHANGED deliveries /\ Queue!Claim(w, d)
    \/ ClaimCommit(w)
    \/ UNCHANGED deliveries /\ Queue!Act(w)
    \/ MarkDelivery(w)
    \/ UNCHANGED deliveries /\ Queue!Fail(w)
    \/ UNCHANGED deliveries /\ Queue!FailJob(w)

(* The commit that marks it succeeds, but the worker is told that it failed.*)
MarkUnheard(w) ==
    /\ worker[w].pc = "acted"
    /\ deliveries' = [deliveries EXCEPT ![worker[w].job] = "sent"]
    /\ Queue!CompleteUnheard(w)

WorkerFaults(w) == MarkUnheard(w) \/ (UNCHANGED deliveries /\ Queue!Drop(w))

Mailing ==
    /\ \/ \E w \in Workers : WorkerStep(w) \/ WorkerFaults(w)
       \/ UNCHANGED deliveries /\ Queue!Tick
    /\ UNCHANGED <<event, people, request>>

Serve(r) ==
    \/ CancelRead(r) \/ MessageRead(r) \/ PatchRead(r) \/ Reload(r) \/ Flush(r)
    \/ ListRecipients(r) \/ CommitRequest(r) \/ AbortRequest(r)

Register(u) == RegisterRead(u) \/ RegisterLock(u) \/ RegisterCommit(u) \/ RegisterEnd(u)

Change(t) == (\E u \in Users : ChangeRead(t, u)) \/ ChangeCommit(t) \/ ChangeEnd(t)

Next ==
    \/ \E u \in Users : Register(u)
    \/ \E t \in Changes : Change(t)
    \/ \E r \in Requests : Serve(r)
    \/ Mailing

Spec == Init /\ [][Next]_vars

(* main() of the worker loops for ever and time passes; nothing is assumed *)
(* of the requests.                                                        *)
Passing(action) == action /\ UNCHANGED <<event, people, request>>

FairSpec ==
    /\ Spec
    /\ WF_vars(Passing(UNCHANGED deliveries /\ Queue!Tick))
    /\ \A w \in Workers : WF_vars(Passing(WorkerStep(w)))

-----------------------------------------------------------------------------
(* Properties *)

(* The types of everything but the queue, whose own JobQueue states.       *)
TypeOK ==
    /\ status \in {"publicado", "cancelado"}
    /\ eventLock \in Users \cup Requests \cup {NoOne}
    /\ enrolled \in [Users -> Statuses]
    /\ registering \in [Users -> {"idle", "read"} \cup Statuses]
    /\ changing \in [Changes -> [user : Users, status : Statuses] \cup {NoChange}]
    /\ request \in [Requests -> [pc : {"idle", "reload", "flush", "list", "commit", "done"},
                                 status : {"none", "publicado", "cancelado"},
                                 recipients : SUBSET Users]]
    /\ deliveries \in [Deliveries -> {"none", "pending", "sent"}]
    /\ writer \in Requests \cup {NoOne}
    /\ after \in [Cancels -> SUBSET Users]

(* The portal asks "Se notificara a los inscritos" before it cancels.  Of  *)
(* those confirmed in an event that a cancellation left cancelled, only one*)
(* misses its notice whose payment a webhook confirmed after the recipients*)
(* were listed, or whose registration locked the event when it was already *)
(* cancelled: a registration under way when the event was updated is waited*)
(* for and listed, whatever stale updates bring the event back and whoever *)
(* cancels it again.  An update that writes "cancelado" notices nobody.    *)
NoticedUnlessLate ==
    status = "cancelado" /\ writer \in Cancels =>
        \A u \in Users \ after[writer] :
            enrolled[u] = "confirmada" => deliveries[<<writer, u>>] # "none"

(* The argument: while a cancellation holds the event no registration is   *)
(* under way, and what it has listed stays everyone who is confirmed, but  *)
(* for payments.                                                           *)
ListedAreAll ==
    /\ \A u \in Users :
        registering[u] \in Statuses =>
            /\ eventLock = u
            /\ status = "cancelado" /\ writer \in Cancels => u \in after[writer]
    /\ \A r \in Cancels :
        request[r].pc = "commit" /\ eventLock = r =>
            \A u \in Users \ after[r] :
                enrolled[u] = "confirmada" => u \in request[r].recipients

(* Every mail of a committed broadcast is delivered and reported so, or    *)
(* ends in the dead letters, or its worker was lost with it in hand, once  *)
(* workers are lost no more: time and again no other mail is outstanding.  *)
EveryDeliverySettles ==
    <>[][\A w \in Workers : ~ Queue!Drop(w)]_vars =>
        []<>(\A d \in Deliveries :
                deliveries[d] = "pending" => queue[d].status = "failed" \/ d \in dropped)

(* The composition keeps the queue's own promises.                         *)
ImplementsQueue == Queue!Spec
=============================================================================
