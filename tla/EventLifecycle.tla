--------------------------- MODULE EventLifecycle ---------------------------
(***************************************************************************)
(* One event from its creation to its cancellation, changed by concurrent  *)
(* requests (application/event_service.py, routers/events.py).             *)
(*                                                                         *)
(* A request reads the event, moves the entity along the state machine of  *)
(* domain/entities.py, and EventRepository.update selects the row again,   *)
(* copies every column and flushes an UPDATE of the columns that differ    *)
(* from that SELECT.  No lock is held between the first read and the       *)
(* flush.  Publishing also stores an embedding, in between.                *)
(***************************************************************************)
EXTENDS Naturals

CONSTANTS
    Requests,   (* API requests; each is served once                       *)
    Sender,     (* who sends each request                                  *)
    Texts,      (* what title, description, dates... of the event may say  *)
    Overlap,    (* whether requests are served concurrently                *)
    NoText, NoRequest

EventStatus == {"borrador", "pendiente", "publicado", "cancelado"}

(* publishedAt is named by the request that set it: no two have one time.  *)
Row == [status : EventStatus \cup {"absent"}, text : Texts \cup {NoText},
        publishedAt : Requests \cup {NoRequest}, embedding : Texts \cup {NoText}]

Absent == [status |-> "absent", text |-> NoText, publishedAt |-> NoRequest,
           embedding |-> NoText]

Actors == {"admin", "owner", "other"}

ASSUME ConstantsAssumption ==
    /\ Sender \in [Requests -> Actors]
    /\ Overlap \in BOOLEAN
    /\ NoText \notin Texts
    /\ NoRequest \notin Requests

VARIABLES
    event,   (* the committed row of table events                          *)
    lock,    (* the request with an uncommitted write of the row           *)
    tx,      (* what each request is doing                                 *)
    unembedded   (* history: the requests whose embedding failed           *)

vars == <<event, lock, tx, unembedded>>

-----------------------------------------------------------------------------
(* The state machine of Event *)

Transitions ==
    [absent    |-> {},
     borrador  |-> {"pendiente", "publicado", "cancelado"},
     pendiente |-> {"publicado", "borrador", "cancelado"},
     publicado |-> {"cancelado"},
     cancelado |-> {}]

(* The row of a new event.                                                 *)
Draft(text) == [Absent EXCEPT !.status = "borrador", !.text = text]

(* Event.publish and Event.approve.                                        *)
Published(row, t) == [row EXCEPT !.status = "publicado", !.publishedAt = t]

-----------------------------------------------------------------------------
(* Requests *)

Operations == {"create", "update", "submit", "publish", "approve", "reject", "cancel"}

(* before is the row read by get, entity what is to be stored, loaded the  *)
(* row update() selected, written the uncommitted row (Absent if none).    *)
Request == [op : Operations \cup {"none"},
            pc : {"idle", "embed", "reload", "flush", "commit", "done", "failed"},
            before : Row, entity : Row, loaded : Row, written : Row]

Idle == [op |-> "none", pc |-> "idle", before |-> Absent, entity |-> Absent,
         loaded |-> Absent, written |-> Absent]

Open(t) == tx[t].pc \notin {"idle", "done", "failed"}

MayStart(t) == tx[t].pc = "idle" /\ (Overlap \/ \A u \in Requests : ~ Open(u))

(* require_role of the routers and _require_owner: approve and reject are  *)
(* for administrators, everything else for the owner or an administrator.  *)
Permitted(op, actor) ==
    \/ actor = "admin"
    \/ actor = "owner" /\ op \notin {"approve", "reject"}

Init ==
    /\ event = Absent
    /\ lock = NoRequest
    /\ tx = [t \in Requests |-> Idle]
    /\ unembedded = {}

(* The new row is invisible until the commit: no other request names it.   *)
CreateEvent(t) ==
    /\ MayStart(t)
    /\ Permitted("create", Sender[t])
    /\ event = Absent
    /\ \A u \in Requests : tx[u].op # "create"
    /\ \E text \in Texts :
        tx' = [tx EXCEPT ![t] = [Idle EXCEPT !.op = "create", !.pc = "commit",
                                         !.written = Draft(text)]]
    /\ UNCHANGED <<event, lock, unembedded>>

(* get, the checks of the actor, and a change of the entity.               *)
Begin(t, op, entity, pc) ==
    /\ MayStart(t)
    /\ event # Absent
    /\ Permitted(op, Sender[t])
    /\ tx' = [tx EXCEPT ![t] = [Idle EXCEPT !.op = op, !.pc = pc,
                                            !.before = event, !.entity = entity]]
    /\ UNCHANGED <<event, lock, unembedded>>

(* Seeded fault: the edited event starts over with the default status.     *)
UpdateEventFresh(t) ==
    \E text \in Texts :
        Begin(t, "update", [event EXCEPT !.text = text, !.status = "borrador"], "reload")

(* update looks at no status: a PATCH is accepted in every one.            *)
UpdateEvent(t) ==
    \E text \in Texts : Begin(t, "update", [event EXCEPT !.text = text], "reload")

SubmitForApproval(t) ==
    /\ "pendiente" \in Transitions[event.status]
    /\ Begin(t, "submit", [event EXCEPT !.status = "pendiente"], "reload")

PublishEvent(t) ==
    /\ "publicado" \in Transitions[event.status]
    /\ Begin(t, "publish", Published(event, t), "embed")

ApproveEvent(t) ==
    /\ "publicado" \in Transitions[event.status]
    /\ Begin(t, "approve", Published(event, t), "embed")

RejectEvent(t) ==
    /\ "borrador" \in Transitions[event.status]
    /\ Begin(t, "reject", [event EXCEPT !.status = "borrador"], "reload")

CancelEvent(t) ==
    /\ "cancelado" \in Transitions[event.status]
    /\ Begin(t, "cancel", [event EXCEPT !.status = "cancelado"], "reload")

(* Not found, not permitted, invalid data or an invalid transition.        *)
Refuse(t) ==
    /\ MayStart(t)
    /\ tx' = [tx EXCEPT ![t].pc = "failed"]
    /\ UNCHANGED <<event, lock, unembedded>>

-----------------------------------------------------------------------------
(* What a request does to the row *)

(* The row as t sees it: its own write hides the committed row.            *)
View(t) == IF tx[t].written = Absent THEN event ELSE tx[t].written

(* An UPDATE waits for the uncommitted write of another request.           *)
CanWrite(t) == lock \in {NoRequest, t}

(* set_embedding: the vector of the text read, in an UPDATE of its own.    *)
SetEmbedding(t) ==
    /\ tx[t].pc = "embed"
    /\ CanWrite(t)
    /\ lock' = t
    /\ tx' = [tx EXCEPT ![t].pc = "reload",
                        ![t].written = [View(t) EXCEPT !.embedding = tx[t].entity.text]]
    /\ UNCHANGED <<event, unembedded>>

(* The adapter fails: logged and ignored.                                  *)
EmbeddingFails(t) ==
    /\ tx[t].pc = "embed"
    /\ tx' = [tx EXCEPT ![t].pc = "reload"]
    /\ unembedded' = unembedded \cup {t}
    /\ UNCHANGED <<event, lock>>

Reload(t) ==
    /\ tx[t].pc = "reload"
    /\ tx' = [tx EXCEPT ![t].pc = "flush", ![t].loaded = View(t)]
    /\ UNCHANGED <<event, lock, unembedded>>

(* Seeded fault: every column is copied, the embedding too.                *)
UpdatedAllColumns(row, entity, loaded) == entity

(* A column is written when the entity differs from the SELECT.            *)
Column(current, entity, loaded) == IF entity # loaded THEN entity ELSE current

(* update() copies every column but the embedding.                         *)
Updated(row, entity, loaded) ==
    [status |-> Column(row.status, entity.status, loaded.status),
     text |-> Column(row.text, entity.text, loaded.text),
     publishedAt |-> Column(row.publishedAt, entity.publishedAt, loaded.publishedAt),
     embedding |-> row.embedding]

(* Nothing differs, no UPDATE; otherwise an UPDATE of the newest row.      *)
Flush(t) ==
    /\ tx[t].pc = "flush"
    /\ IF Updated(tx[t].loaded, tx[t].entity, tx[t].loaded) = tx[t].loaded
       THEN /\ tx' = [tx EXCEPT ![t].pc = "commit"]
            /\ UNCHANGED lock
       ELSE /\ CanWrite(t)
            /\ lock' = t
            /\ tx' = [tx EXCEPT ![t].pc = "commit",
                        ![t].written = Updated(View(t), tx[t].entity, tx[t].loaded)]
    /\ UNCHANGED <<event, unembedded>>

(* Commit or rollback releases the row.                                    *)
End(t, pc) ==
    /\ tx' = [tx EXCEPT ![t] = [Idle EXCEPT !.pc = pc]]
    /\ lock' = IF lock = t THEN NoRequest ELSE lock
    /\ UNCHANGED unembedded

(* get_session commits once the handler has returned.                      *)
Commit(t) ==
    /\ tx[t].pc = "commit"
    /\ event' = View(t)
    /\ End(t, "done")

(* A timeout, a lost connection or a crash.                                *)
Abort(t) ==
    /\ Open(t)
    /\ End(t, "failed")
    /\ UNCHANGED event

Start(t) ==
    \/ CreateEvent(t) \/ UpdateEvent(t) \/ SubmitForApproval(t) \/ PublishEvent(t)
    \/ ApproveEvent(t) \/ RejectEvent(t) \/ CancelEvent(t) \/ Refuse(t)

Step(t) ==
    \/ SetEmbedding(t) \/ EmbeddingFails(t) \/ Reload(t) \/ Flush(t) \/ Commit(t)

Next == \E t \in Requests : Start(t) \/ Step(t) \/ Abort(t)

Spec == Init /\ [][Next]_vars

-----------------------------------------------------------------------------
(* Properties *)

TypeOK ==
    /\ event \in Row
    /\ lock \in Requests \cup {NoRequest}
    /\ tx \in [Requests -> Request]
    /\ unembedded \subseteq Requests

(* What update() does keep: the status changes only to a successor of the  *)
(* status the writer read, or back to that status when a PATCH rewrites it;*)
(* no interleaving of column-wise updates invents any other.               *)
StatusFromWhatWasRead ==
    [][\A t \in Requests :
        Commit(t) /\ event'.status # event.status =>
            \/ tx[t].op = "create"
            \/ event'.status \in Transitions[tx[t].before.status]
            \/ tx[t].op = "update" /\ event'.status = tx[t].before.status]_vars

(* RF-30: an event is published without an embedding only if the adapter   *)
(* failed: no stale PATCH, cancellation or second publication removes one. *)
EmbeddedUnlessFailed ==
    event.status = "publicado" /\ event.embedding = NoText =>
        \E t \in unembedded : tx[t].pc = "done"

(* An uncommitted change of the row is its writer's alone until he ends,   *)
(* and nobody else keeps the row locked.                                   *)
OneWriter ==
    /\ lock # NoRequest => Open(lock) /\ tx[lock].written # Absent
    /\ \A t \in Requests :
        Open(t) /\ tx[t].op # "create" /\ tx[t].written # Absent => lock = t

(* Why StatusFromWhatWasRead holds: what an open request is about to store *)
(* is either still the committed status or the one it decided on.          *)
Creation(t) ==
    Open(t) /\ tx[t].op = "create" =>
        /\ tx[t].pc = "commit"
        /\ event.status = "absent"
        /\ tx[t].written.status = "borrador"

Decided(t) ==
    Open(t) /\ tx[t].op # "create" =>
        /\ event.status # "absent"
        /\ tx[t].before.status # "absent"
        /\ \/ tx[t].entity.status \in Transitions[tx[t].before.status]
           \/ tx[t].op = "update" /\ tx[t].entity.status = tx[t].before.status

Pending(t) ==
    Open(t) /\ tx[t].op # "create" /\ tx[t].written # Absent =>
        tx[t].written.status \in {event.status, tx[t].entity.status} \ {"absent"}

WritesWhatItDecided ==
    /\ event # Absent => event.status # "absent"
    /\ \A t, u \in Requests : tx[t].op = "create" /\ tx[u].op = "create" => t = u
    /\ \A t \in Requests : Creation(t) /\ Decided(t) /\ Pending(t)

(* One request at a time, the event lives as EventStates says.             *)
States == INSTANCE EventStates WITH
    status <- event.status, dated <- event.publishedAt # NoRequest

FollowsStates == States!Spec
=============================================================================
