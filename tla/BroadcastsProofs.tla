-------------------------- MODULE BroadcastsProofs --------------------------
(***************************************************************************)
(* Theorems about Broadcasts for every number of users, requests and       *)
(* workers: who is noticed of a cancellation, and that the composition     *)
(* keeps the promises of JobQueue.                                         *)
(***************************************************************************)
EXTENDS Broadcasts, TLAPS

USE ConstantsAssumption

(* A request that is to write the event knows what, and lists for a mail.  *)
Served(r) ==
    /\ eventLock = r => request[r].pc \in {"list", "commit"}
    /\ request[r].pc \in {"reload", "flush"} \/ eventLock = r => request[r].status # "none"
    /\ r \notin Mailers => request[r].pc # "list" /\ request[r].recipients = {}

IInv ==
    /\ TypeOK
    /\ ListedAreAll
    /\ NoticedUnlessLate
    /\ \A r \in Requests : Served(r)

-----------------------------------------------------------------------------
(* One lemma per actor *)

(* What the invariant says of the people and the event, and of the notice  *)
(* of one user.                                                            *)
Told(u) ==
    status = "cancelado" /\ writer \in Cancels /\ u \notin after[writer]
        /\ enrolled[u] = "confirmada" => deliveries[<<writer, u>>] # "none"

Held(u) ==
    registering[u] \in Statuses =>
        /\ eventLock = u
        /\ status = "cancelado" /\ writer \in Cancels => u \in after[writer]

ListedBy(r, u) ==
    request[r].pc = "commit" /\ eventLock = r /\ u \notin after[r]
        /\ enrolled[u] = "confirmada" => u \in request[r].recipients

LEMMA Parts ==
    IInv <=> /\ TypeOK
             /\ \A u \in Users : Told(u) /\ Held(u) /\ \A r \in Cancels : ListedBy(r, u)
             /\ \A r \in Requests : Served(r)
  BY DEF IInv, ListedAreAll, NoticedUnlessLate, Told, Held, ListedBy

LEMMA PartsNext ==
    ASSUME TypeOK',
           \A u \in Users : Told(u)' /\ Held(u)' /\ \A r \in Cancels : ListedBy(r, u)',
           \A r \in Requests : Served(r)'
    PROVE  IInv'
  BY DEF IInv, ListedAreAll, NoticedUnlessLate, Told, Held, ListedBy

(* Nobody is two: a user, a request, no one.                               *)
LEMMA Distinct ==
    /\ \A u \in Users : u \notin Requests /\ u # NoOne
    /\ \A r \in Cancels : r \in Mailers /\ r \in Requests
    /\ \A r \in Requests : r # NoOne
    /\ \A d \in Deliveries : d[1] \in Mailers /\ d[2] \in Users
  BY DEF Requests, Mailers, Deliveries

(* The mails change neither the enrollments nor the listed recipients, and *)
(* a delivery that exists goes on existing.                                *)
LEMMA MailingKeeps == ASSUME IInv, Mailing PROVE IInv'
<1>1. UNCHANGED <<status, eventLock, writer, enrolled, registering, changing, after, request>>
  BY DEF Mailing, people, event
<1>2. \/ deliveries' = deliveries
      \/ \E w \in Workers : deliveries' = [deliveries EXCEPT ![worker[w].job] = "sent"]
  BY DEF Mailing, WorkerStep, WorkerFaults, MarkDelivery, MarkUnheard, ClaimCommit
<1>3. /\ deliveries' \in [Deliveries -> {"none", "pending", "sent"}]
      /\ \A d \in Deliveries : deliveries[d] # "none" => deliveries'[d] # "none"
  BY <1>2 DEF IInv, TypeOK
<1>4. TypeOK'
  BY <1>1, <1>3 DEF IInv, TypeOK
<1>5. ASSUME NEW u \in Users PROVE Told(u)'
  <2>1. Told(u)
    BY Parts
  <2>2. writer \in Cancels => <<writer, u>> \in Deliveries
    BY Distinct DEF Deliveries
  <2> QED
    BY <1>1, <1>3, <2>1, <2>2 DEF Told
<1>6. \A u \in Users : Held(u)' /\ \A r \in Cancels : ListedBy(r, u)'
  BY <1>1, Parts DEF Held, ListedBy
<1>7. \A r \in Requests : Served(r)'
  BY <1>1, Parts DEF Served
<1> QED
  BY <1>4, <1>5, <1>6, <1>7, PartsNext

(* Who came too late is so for the cancellation that stands and for the one*)
(* that has listed, and never ceases to be.                                *)
LEMMA TooLateAdds ==
    ASSUME IInv, NEW u \in Users, TooLate(u)
    PROVE  /\ after' \in [Cancels -> SUBSET Users]
           /\ \A r \in Cancels : after[r] \subseteq after'[r]
           /\ writer \in Cancels => u \in after'[writer]
           /\ \A r \in Cancels :
                 eventLock = r /\ request[r].pc = "commit" => u \in after'[r]
<1>1. after \in [Cancels -> SUBSET Users]
  BY DEF IInv, TypeOK
<1>2. ASSUME NEW r \in Cancels
      PROVE  after'[r] = IF writer = r \/ (eventLock = r /\ request[r].pc = "commit")
                         THEN after[r] \cup {u} ELSE after[r]
  BY DEF TooLate
<1>3. after' \in [Cancels -> SUBSET Users]
  BY <1>1, <1>2 DEF TooLate
<1> QED
  BY <1>2, <1>3

(* A registration holds the event from the check on, so no cancellation    *)
(* does; one that finds it cancelled is too late.                          *)
LEMMA RegisterKeeps == ASSUME IInv, NEW u \in Users, Register(u) PROVE IInv'
<1>0. UNCHANGED <<status, writer, request, changing, deliveries>>
  BY DEF Register, RegisterRead, RegisterLock, Loads, RegisterCommit, RegisterEnd, event, mail
<1>s. eventLock' \in {eventLock, u, NoOne} => \A r \in Requests : Served(r)'
  BY <1>0, Distinct, Parts DEF Served
<1>1. CASE RegisterRead(u)
  <2>1. /\ UNCHANGED <<eventLock, enrolled, after>>
        /\ registering' = [registering EXCEPT ![u] = "read"]
    BY <1>1 DEF RegisterRead, event
  <2>2. TypeOK'
    BY <1>0, <2>1 DEF IInv, TypeOK
  <2>3. \A v \in Users : registering'[v] \in Statuses => registering'[v] = registering[v]
    BY <2>1 DEF IInv, TypeOK, Statuses
  <2>4. \A v \in Users : Told(v)' /\ Held(v)' /\ \A r \in Cancels : ListedBy(r, v)'
    BY <1>0, <2>1, <2>3, Parts DEF Told, Held, ListedBy
  <2> QED
    BY <1>s, <2>1, <2>2, <2>4, PartsNext
<1>2. CASE RegisterLock(u)
  <2>1. /\ enrolled' = enrolled /\ eventLock = NoOne /\ eventLock' = u
        /\ registering' = [registering EXCEPT ![u] = enrolled[u]]
        /\ IF status = "cancelado" THEN TooLate(u) ELSE UNCHANGED after
    BY <1>2 DEF RegisterLock, Loads
  <2>2. /\ after' \in [Cancels -> SUBSET Users]
        /\ \A r \in Cancels : after[r] \subseteq after'[r]
        /\ status = "cancelado" /\ writer \in Cancels => u \in after'[writer]
    BY <2>1, TooLateAdds DEF IInv, TypeOK
  <2>3. TypeOK'
    BY <1>0, <2>1, <2>2 DEF IInv, TypeOK
  <2>4. ASSUME NEW v \in Users PROVE Held(v)'
    <3>1. v # u => registering[v] \notin Statuses
      BY <2>1, Distinct, Parts DEF Held
    <3> QED
      BY <1>0, <2>1, <2>2, <3>1 DEF Held, IInv, TypeOK
  <2>5. ASSUME NEW v \in Users PROVE Told(v)'
    BY <1>0, <2>1, <2>2, Parts DEF Told
  <2>6. ASSUME NEW v \in Users, NEW r \in Cancels PROVE ListedBy(r, v)'
    BY <2>1, Distinct DEF ListedBy
  <2> QED
    BY <1>s, <2>1, <2>3, <2>4, <2>5, <2>6, PartsNext
<1>3. CASE RegisterCommit(u)
  <2>1. /\ registering[u] \in Statuses /\ after' = after
        /\ registering' = [registering EXCEPT ![u] = "idle"]
        /\ eventLock' = NoOne
        /\ \E to \in Statuses : enrolled' = [enrolled EXCEPT ![u] = to]
    <3>1. Held(u) /\ enrolled \in [Users -> Statuses]
      BY Parts DEF TypeOK
    <3>2. enrolled = [enrolled EXCEPT ![u] = enrolled[u]] /\ enrolled[u] \in Statuses
      BY <3>1
    <3> QED
      BY <1>3, <3>1, <3>2 DEF RegisterCommit, Released, Held, Statuses
  <2>2. TypeOK'
    BY <1>0, <2>1 DEF IInv, TypeOK
  <2>3. eventLock = u /\ (status = "cancelado" /\ writer \in Cancels => u \in after[writer])
    BY <2>1, Parts DEF Held
  <2>4. ASSUME NEW v \in Users PROVE Held(v)'
    <3>1. v # u => registering[v] \notin Statuses
      BY <2>3, Parts DEF Held
    <3> QED
      BY <2>1, <3>1 DEF Held, IInv, TypeOK, Statuses
  <2>5. ASSUME NEW v \in Users PROVE Told(v)'
    BY <1>0, <2>1, <2>3, Parts DEF Told, IInv, TypeOK
  <2>6. ASSUME NEW v \in Users, NEW r \in Cancels PROVE ListedBy(r, v)'
    BY <2>1, Distinct DEF ListedBy
  <2> QED
    BY <1>s, <2>1, <2>2, <2>4, <2>5, <2>6, PartsNext
<1>4. CASE RegisterEnd(u)
  <2>1. /\ UNCHANGED <<enrolled, after>>
        /\ registering' = [registering EXCEPT ![u] = "idle"]
        /\ eventLock' = IF eventLock = u THEN NoOne ELSE eventLock
    BY <1>4 DEF RegisterEnd, Released
  <2>2. TypeOK'
    BY <1>0, <2>1 DEF IInv, TypeOK
  <2>3. ASSUME NEW v \in Users PROVE Held(v)'
    <3>1. v # u => registering'[v] = registering[v]
      BY <2>1 DEF IInv, TypeOK
    <3>2. registering'[u] \notin Statuses
      BY <2>1 DEF IInv, TypeOK, Statuses
    <3> QED
      BY <1>0, <2>1, <3>1, <3>2, Parts DEF Held
  <2>4. ASSUME NEW v \in Users PROVE Told(v)' /\ \A r \in Cancels : ListedBy(r, v)'
    BY <1>0, <2>1, Distinct, Parts DEF Told, ListedBy
  <2> QED
    BY <1>s, <2>1, <2>2, <2>3, <2>4, PartsNext
<1> QED
  BY <1>1, <1>2, <1>3, <1>4 DEF Register

(* A webhook that confirms a payment makes its user too late; no other     *)
(* change of an enrollment confirms one.                                   *)
LEMMA ChangeKeeps == ASSUME IInv, NEW t \in Changes, Change(t) PROVE IInv'
<1>0. UNCHANGED <<status, eventLock, writer, registering, request, deliveries>>
  BY DEF Change, ChangeRead, ChangeCommit, ChangeEnd, event, mail
<1>s. \A r \in Requests : Served(r)'
  BY <1>0, Parts DEF Served
<1>1. CASE (\E u \in Users : ChangeRead(t, u)) \/ ChangeEnd(t)
  <2>1. UNCHANGED <<enrolled, after>>
    BY <1>1 DEF ChangeRead, ChangeEnd
  <2>2. PICK loaded \in [user : Users, status : Statuses] \cup {NoChange} :
            changing' = [changing EXCEPT ![t] = loaded]
    BY <1>1 DEF ChangeRead, ChangeEnd, IInv, TypeOK
  <2>3. TypeOK'
    BY <1>0, <2>1, <2>2 DEF IInv, TypeOK
  <2>4. \A v \in Users : Told(v)' /\ Held(v)' /\ \A r \in Cancels : ListedBy(r, v)'
    BY <1>0, <2>1, Parts DEF Told, Held, ListedBy
  <2> QED
    BY <1>s, <2>3, <2>4, PartsNext
<1>2. CASE ChangeCommit(t)
  <2> DEFINE u == changing[t].user
  <2>1. changing[t] \in [user : Users, status : Statuses]
    BY <1>2 DEF ChangeCommit, IInv, TypeOK
  <2>2. PICK to \in Successors(changing[t].status) :
          /\ enrolled' = [enrolled EXCEPT ![u] = to]
          /\ IF to = "confirmada" /\ enrolled[u] # to THEN TooLate(u) ELSE UNCHANGED after
    BY <1>2 DEF ChangeCommit
  <2>3. u \in Users /\ to \in Statuses
    BY <2>1, <2>2 DEF Successors, Statuses
  <2> HIDE DEF u
  <2>4. /\ after' \in [Cancels -> SUBSET Users]
        /\ \A r \in Cancels : after[r] \subseteq after'[r]
        /\ to = "confirmada" /\ enrolled[u] # to =>
              /\ writer \in Cancels => u \in after'[writer]
              /\ \A r \in Cancels :
                    eventLock = r /\ request[r].pc = "commit" => u \in after'[r]
    BY <2>2, <2>3, TooLateAdds DEF IInv, TypeOK
  <2>5. TypeOK'
    <3>1. changing' = [changing EXCEPT ![t] = NoChange]
      BY <1>2 DEF ChangeCommit
    <3> QED
      BY <1>0, <2>2, <2>3, <2>4, <3>1 DEF IInv, TypeOK
  <2>6. \A v \in Users : v # u \/ to # "confirmada" \/ enrolled[u] = to =>
            (enrolled'[v] = "confirmada" => enrolled[v] = "confirmada")
    BY <2>2, <2>3 DEF IInv, TypeOK
  <2>7. ASSUME NEW v \in Users PROVE Told(v)' /\ Held(v)'
    BY <1>0, <2>3, <2>4, <2>6, Parts DEF Told, Held
  <2>8. ASSUME NEW v \in Users, NEW r \in Cancels PROVE ListedBy(r, v)'
    BY <1>0, <2>3, <2>4, <2>6, Parts DEF ListedBy
  <2> QED
    BY <1>s, <2>5, <2>7, <2>8, PartsNext
<1> QED
  BY <1>1, <1>2 DEF Change

(* A request that goes on without the event, to a pc or to its end.        *)
LEMMA GoesOn ==
    ASSUME IInv, NEW r \in Requests, NEW from, NEW to,
           Goes(r, from, to),
           to \in [pc : {"idle", "reload", "flush", "list", "done"},
                   status : {"none", "publicado", "cancelado"}, recipients : SUBSET Users],
           to.pc \in {"reload", "flush"} => to.status # "none",
           r \notin Mailers => to.pc # "list" /\ to.recipients = {},
           eventLock' = Released(r) \/ (eventLock' = eventLock /\ from \in {"idle", "reload"}),
           UNCHANGED <<status, writer, enrolled, registering, changing, after, deliveries>>
    PROVE  IInv'
<1>1. /\ request'[r] = to /\ \A q \in Requests \ {r} : request'[q] = request[q]
      /\ eventLock' = eventLock \/ (eventLock = r /\ eventLock' = NoOne)
      /\ eventLock' # r
  BY Distinct, Parts DEF Goes, Released, TypeOK, Served
<1>2. TypeOK'
  BY <1>1 DEF Goes, IInv, TypeOK
<1>3. ASSUME NEW u \in Users PROVE Told(u)' /\ Held(u)'
  BY <1>1, Distinct, Parts DEF Told, Held
<1>4. ASSUME NEW u \in Users, NEW q \in Cancels PROVE ListedBy(q, u)'
  BY <1>1, Distinct, Parts DEF ListedBy
<1>5. ASSUME NEW q \in Requests PROVE Served(q)'
  BY <1>1, Distinct, Parts DEF Served
<1> QED
  BY <1>2, <1>3, <1>4, <1>5, PartsNext

(* What a cancellation lists while it holds the event is everyone, and it  *)
(* commits the notices with the cancellation.                              *)
LEMMA ServeKeeps == ASSUME IInv, NEW r \in Requests, Serve(r) PROVE IInv'
<1>0. UNCHANGED <<enrolled, registering, changing>>
  BY DEF Serve, CancelRead, MessageRead, PatchRead, Reload, Flush, ListRecipients,
         CommitRequest, Commits, AbortRequest, people
<1> DEFINE Idle == [pc : {"idle", "reload", "flush", "list", "done"},
                    status : {"none", "publicado", "cancelado"}, recipients : SUBSET Users]
<1>1. CASE CancelRead(r) \/ MessageRead(r) \/ PatchRead(r) \/ Reload(r) \/ AbortRequest(r)
  <2>1. UNCHANGED <<status, writer, after, deliveries>>
    BY <1>1 DEF CancelRead, MessageRead, PatchRead, Reload, AbortRequest, event, people, mail
  <2>2. \E from, to :
          /\ Goes(r, from, to) /\ to \in Idle
          /\ to.pc \in {"reload", "flush"} => to.status # "none"
          /\ r \notin Mailers => to.pc # "list" /\ to.recipients = {}
          /\ eventLock' = Released(r) \/ (eventLock' = eventLock /\ from \in {"idle", "reload"})
    <3>1. /\ status \in {"publicado", "cancelado"}
          /\ request[r].status \in {"none", "publicado", "cancelado"}
          /\ request[r].pc = "reload" => request[r].status # "none"
      BY Parts DEF TypeOK, Served
    <3>2. /\ Done \in Idle /\ Done.pc = "done" /\ Done.recipients = {}
          /\ \A pc \in {"reload", "flush", "list"} :
                \A to \in {"none", "publicado", "cancelado"} :
                    /\ At(pc, to) \in Idle
                    /\ At(pc, to).pc = pc /\ At(pc, to).status = to /\ At(pc, to).recipients = {}
      BY DEF At, Done
    <3>3. r \in Cancels \cup Messages => r \in Mailers
      BY DEF Mailers
    <3> HIDE DEF Idle
    <3>4. CASE CancelRead(r)
      <4> DEFINE to == IF status = "cancelado" THEN Done ELSE At("reload", "cancelado")
      <4>1. Goes(r, "idle", to) /\ eventLock' = eventLock /\ r \in Mailers
        BY <3>3, <3>4 DEF CancelRead, event
      <4>2. to \in Idle /\ (to.pc \in {"reload", "flush"} => to.status # "none")
        BY <3>2
      <4> QED
        BY <4>1, <4>2
    <3>5. CASE MessageRead(r)
      <4>1. Goes(r, "idle", At("list", "none")) /\ eventLock' = eventLock /\ r \in Mailers
        BY <3>3, <3>5 DEF MessageRead, event
      <4> QED
        BY <3>2, <4>1
    <3>6. CASE PatchRead(r)
      <4>1. Goes(r, "idle", At("reload", status)) /\ eventLock' = eventLock
        BY <3>6 DEF PatchRead, event
      <4> QED
        BY <3>1, <3>2, <4>1
    <3>7. CASE Reload(r)
      <4> DEFINE is == request[r].status
                 to == IF status # is THEN At("flush", is)
                       ELSE IF r \in Cancels THEN At("list", is) ELSE Done
      <4>1. /\ Goes(r, "reload", to) /\ eventLock' = eventLock
            /\ request[r].pc = "reload"
        BY <3>7 DEF Reload, Goes, event
      <4>2. /\ to \in Idle
            /\ to.pc \in {"reload", "flush"} => to.status # "none"
            /\ r \notin Mailers => to.pc # "list" /\ to.recipients = {}
        BY <3>1, <3>2, <3>3, <4>1
      <4> QED
        BY <4>1, <4>2
    <3>8. CASE AbortRequest(r)
      <4>1. PICK pc \in {"reload", "flush", "list", "commit"} : Goes(r, pc, Done)
        BY <3>8 DEF AbortRequest
      <4>2. eventLock' = Released(r)
        BY <3>8 DEF AbortRequest
      <4> QED
        BY <3>2, <4>1, <4>2
    <3> QED
      BY <1>1, <3>4, <3>5, <3>6, <3>7, <3>8
  <2> QED
    BY <1>0, <2>1, <2>2, GoesOn
<1>2. CASE Flush(r)
  <2>1. /\ eventLock = NoOne /\ eventLock' = r
        /\ UNCHANGED <<status, writer, after, deliveries>>
        /\ Goes(r, "flush", At(IF r \in Cancels THEN "list" ELSE "commit", request[r].status))
    BY <1>2 DEF Flush, people, mail
  <2>2. request[r].status \in {"none", "publicado", "cancelado"}
    BY DEF IInv, TypeOK
  <2>3. /\ request' \in [Requests -> [pc : {"idle", "reload", "flush", "list", "commit", "done"},
                                       status : {"none", "publicado", "cancelado"},
                                       recipients : SUBSET Users]]
        /\ request'[r].pc = (IF r \in Cancels THEN "list" ELSE "commit")
        /\ request'[r].status = request[r].status /\ request'[r].recipients = {}
        /\ \A q \in Requests \ {r} : request'[q] = request[q]
    BY <2>1, <2>2 DEF Goes, At, IInv, TypeOK
  <2>4. TypeOK'
    BY <1>0, <2>1, <2>3 DEF IInv, TypeOK
  <2>5. \A u \in Users : registering[u] \notin Statuses
    BY <2>1, Distinct, Parts DEF Held
  <2>6. ASSUME NEW u \in Users PROVE Told(u)' /\ Held(u)' /\ \A q \in Cancels : ListedBy(q, u)'
    BY <1>0, <2>1, <2>3, <2>5, Parts DEF Told, Held, ListedBy
  <2>7. \A q \in Requests : Served(q)'
    BY <2>1, <2>3, Distinct, Parts DEF Served, Goes
  <2> QED
    BY <2>4, <2>6, <2>7, PartsNext
<1>3. CASE ListRecipients(r)
  <2>1. UNCHANGED <<status, eventLock, writer, after, deliveries>>
    BY <1>3 DEF ListRecipients, event, people, mail
  <2>2. PICK segment \in Segments(r) :
          Goes(r, "list", [pc |-> "commit", status |-> request[r].status,
                           recipients |-> RecipientsFor(segment)])
    BY <1>3 DEF ListRecipients
  <2>3. /\ request' \in [Requests -> [pc : {"idle", "reload", "flush", "list", "commit", "done"},
                                       status : {"none", "publicado", "cancelado"},
                                       recipients : SUBSET Users]]
        /\ request'[r].recipients = RecipientsFor(segment)
        /\ request[r].pc = "list" /\ request'[r].pc = "commit"
        /\ request'[r].status = request[r].status
        /\ \A q \in Requests \ {r} : request'[q] = request[q]
    <3>1. RecipientsFor(segment) \in SUBSET Users
      BY DEF RecipientsFor
    <3>2. request[r].status \in {"none", "publicado", "cancelado"}
      BY DEF IInv, TypeOK
    <3> HIDE DEF Idle
    <3> QED
      BY <2>2, <3>1, <3>2 DEF Goes, IInv, TypeOK
  <2>4. TypeOK'
    BY <1>0, <2>1, <2>3 DEF IInv, TypeOK
  <2>5. r \in Cancels => RecipientsFor(segment) = {u \in Users : enrolled[u] = "confirmada"}
    BY DEF Segments, RecipientsFor
  <2>6. ASSUME NEW u \in Users PROVE Told(u)' /\ Held(u)'
    BY <1>0, <2>1, Parts DEF Told, Held
  <2>7. ASSUME NEW u \in Users, NEW q \in Cancels PROVE ListedBy(q, u)'
    BY <1>0, <2>1, <2>3, <2>5, Distinct, Parts DEF ListedBy
  <2>8. \A q \in Requests : Served(q)'
    BY <2>1, <2>3, Parts DEF Served
  <2> QED
    BY <2>4, <2>6, <2>7, <2>8, PartsNext
<1>4. CASE CommitRequest(r)
  <2>1. /\ request[r].pc = "commit" /\ request' = [request EXCEPT ![r] = Done]
        /\ IF eventLock = r
           THEN /\ status' = request[r].status /\ writer' = r
                /\ after' = [q \in Cancels |-> IF q = r THEN after[q] ELSE {}]
           ELSE UNCHANGED <<status, writer, after>>
        /\ eventLock' = Released(r)
        /\ deliveries' = [d \in Deliveries |->
                            IF d \in Listed(r) THEN "pending" ELSE deliveries[d]]
    BY <1>4 DEF CommitRequest, Commits, Goes
  <2>2. /\ request'[r] = Done /\ Done.pc = "done"
        /\ \A q \in Requests \ {r} : request'[q] = request[q]
        /\ eventLock' = IF eventLock = r THEN NoOne ELSE eventLock
    BY <2>1 DEF IInv, TypeOK, Done, At, Released
  <2>3. request[r].recipients \subseteq Users /\ after \in [Cancels -> SUBSET Users]
    BY DEF IInv, TypeOK
  <2>4. TypeOK'
    <3>1. status' \in {"publicado", "cancelado"}
      BY <2>1, Parts DEF TypeOK, Served
    <3>2. Done \in [pc : {"idle", "reload", "flush", "list", "commit", "done"},
                    status : {"none", "publicado", "cancelado"}, recipients : SUBSET Users]
      BY DEF Done, At
    <3> QED
      BY <1>0, <2>1, <2>2, <2>3, <3>1, <3>2 DEF IInv, TypeOK
  <2>5. \A d \in Deliveries : deliveries[d] # "none" => deliveries'[d] # "none"
    BY <2>1
  <2>s. \A q \in Requests : Served(q)'
    BY <2>2, Distinct, Parts DEF Served, Done, At
  <2>6. CASE eventLock # r
    <3>1. UNCHANGED <<status, writer, after, eventLock>>
      BY <2>1, <2>2, <2>6
    <3>2. ASSUME NEW u \in Users PROVE Told(u)'
      <4>1. writer \in Cancels => <<writer, u>> \in Deliveries
        BY Distinct DEF Deliveries
      <4> QED
        BY <1>0, <2>5, <3>1, <4>1, Parts DEF Told
    <3>3. ASSUME NEW u \in Users PROVE Held(u)' /\ \A q \in Cancels : ListedBy(q, u)'
      BY <1>0, <2>2, <3>1, Distinct, Parts DEF Held, ListedBy
    <3> QED
      BY <2>4, <2>s, <3>2, <3>3, PartsNext
  <2>7. CASE eventLock = r
    <3>1. writer' = r /\ eventLock' = NoOne /\ (r \in Cancels => after'[r] = after[r])
      BY <2>1, <2>2, <2>7
    <3>2. \A u \in Users : registering[u] \notin Statuses
      BY <2>7, Distinct, Parts DEF Held
    <3>3. ASSUME NEW u \in Users PROVE Told(u)'
      <4>1. SUFFICES ASSUME r \in Cancels, u \notin after[r], enrolled[u] = "confirmada"
                     PROVE  deliveries'[<<r, u>>] # "none"
        BY <1>0, <3>1 DEF Told
      <4>2. u \in request[r].recipients
        BY <2>1, <2>7, <4>1, Parts DEF ListedBy
      <4>3. <<r, u>> \in Deliveries /\ <<r, u>> \in Listed(r)
        BY <4>1, <4>2, Distinct DEF Deliveries, Listed
      <4> QED
        BY <2>1, <4>3
    <3>4. ASSUME NEW u \in Users PROVE Held(u)' /\ \A q \in Cancels : ListedBy(q, u)'
      BY <1>0, <3>1, <3>2, Distinct DEF Held, ListedBy
    <3> QED
      BY <2>4, <2>s, <3>3, <3>4, PartsNext
  <2> QED
    BY <2>6, <2>7
<1> QED
  BY <1>1, <1>2, <1>3, <1>4 DEF Serve

-----------------------------------------------------------------------------
(* Theorems *)

(* The invariant of every reachable state.                                 *)
LEMMA Invariant == Spec => []IInv
<1>1. ASSUME Init PROVE IInv
  <2>1. TypeOK
    BY <1>1 DEF Init, TypeOK, At, Statuses
  <2>2. ListedAreAll /\ NoticedUnlessLate
    BY <1>1 DEF Init, ListedAreAll, NoticedUnlessLate, At, Statuses, Mailers, Requests
  <2>3. \A r \in Requests : Served(r)
    BY <1>1, Distinct DEF Init, Served, At
  <2> QED
    BY <2>1, <2>2, <2>3 DEF IInv
<1>2. IInv /\ [Next]_vars => IInv'
  <2>1. ASSUME IInv, UNCHANGED vars PROVE IInv'
    BY <2>1 DEF vars, event, people, mail, IInv, TypeOK, ListedAreAll, NoticedUnlessLate,
                Served
  <2> QED
    BY <2>1, MailingKeeps, RegisterKeeps, ChangeKeeps, ServeKeeps DEF Next
<1> QED
  BY <1>1, <1>2, PTL DEF Spec

(* Every reachable state is well typed.                                    *)
THEOREM TypeCorrect == Spec => []TypeOK
  BY Invariant, PTL DEF IInv

(* Everyone confirmed in an event that a cancellation left cancelled was   *)
(* sent its notice, except who locked the event when it was cancelled and  *)
(* whose payment was confirmed after the recipients were listed.           *)
THEOREM NobodyElseMissesTheNotice == Spec => []NoticedUnlessLate
  BY Invariant, PTL DEF IInv

(* While a cancellation holds the event, what it listed is everyone but    *)
(* those whose payment was confirmed since.                                *)
THEOREM ListIsComplete == Spec => []ListedAreAll
  BY Invariant, PTL DEF IInv

(* Broadcasts puts jobs in the queue only with its own commits and takes   *)
(* them out only as the workers of JobQueue do.                            *)
THEOREM BroadcastsImplementsQueue == Spec => ImplementsQueue
<1>1. Init => Queue!Init
  BY DEF Init
<1>2. IInv /\ [Next]_vars => [Queue!Next]_(Queue!vars)
  <2>1. UNCHANGED mail => UNCHANGED Queue!vars
    BY DEF mail, Queue!vars
  <2>2. ASSUME IInv, NEW r \in Requests, Serve(r) PROVE [Queue!Next]_(Queue!vars)
    <3>1. CASE CommitRequest(r)
      <4>0. request[r].recipients \subseteq Users /\ (r \notin Mailers => Listed(r) = {})
        BY <2>2 DEF IInv, TypeOK, Served, Listed
      <4>1. Listed(r) \in SUBSET Deliveries
        BY <4>0 DEF Listed, Deliveries
      <4>2. Queue!Enqueue(Listed(r))
        BY <3>1 DEF CommitRequest
      <4> QED
        BY <4>1, <4>2 DEF Queue!Next
    <3>2. CASE ~ CommitRequest(r)
      BY <2>1, <2>2, <3>2 DEF Serve, CancelRead, MessageRead, PatchRead, Reload, Flush,
                              ListRecipients, AbortRequest
    <3> QED
      BY <3>1, <3>2
  <2>3. ASSUME (\E u \in Users : Register(u)) \/ (\E t \in Changes : Change(t))
        PROVE  UNCHANGED mail
    BY <2>3 DEF Register, RegisterRead, RegisterLock, Loads, RegisterCommit, RegisterEnd,
                Change, ChangeRead, ChangeCommit, ChangeEnd
  <2>4. ASSUME Mailing PROVE Queue!Next
    <3>1. CASE Queue!Tick
      BY <3>1 DEF Queue!Next
    <3>2. ASSUME NEW w \in Workers, WorkerStep(w) \/ WorkerFaults(w) PROVE Queue!Next
      BY <3>2 DEF WorkerStep, WorkerFaults, ClaimCommit, MarkDelivery, MarkUnheard, Queue!Next,
                  Queue!Work
    <3> QED
      BY <2>4, <3>1, <3>2 DEF Mailing
  <2>5. UNCHANGED vars => UNCHANGED mail
    BY DEF vars, mail
  <2> QED
    BY <2>1, <2>2, <2>3, <2>4, <2>5 DEF Next
<1> QED
  BY <1>1, <1>2, Invariant, PTL DEF Spec, ImplementsQueue, Queue!Spec
=============================================================================
