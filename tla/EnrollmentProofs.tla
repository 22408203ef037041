-------------------------- MODULE EnrollmentProofs --------------------------
(***************************************************************************)
(* Theorems about Enrollment for every number of events, users, keys,      *)
(* requests and workers, that it implements the seat ledger among them.    *)
(***************************************************************************)
EXTENDS Enrollment, FiniteSetTheorems, TLAPS

USE ConstantsAssumption

-----------------------------------------------------------------------------
(* Types *)

(* The blank transaction, and the constants it is made of, are well typed. *)
LEMMA IdleType ==
    /\ Absent \in Row
    /\ Nothing \in [Ids -> Row]
    /\ Idle \in Transaction
    /\ \A i \in Ids : Nothing[i] = Absent
  BY DEF Absent, Row, Nothing, Idle, Transaction

(* A row made of the columns of rows is a row.                             *)
LEMMA ColumnDiffType ==
    ASSUME NEW row \in Row, NEW entity \in Row, NEW loaded \in Row
    PROVE  ColumnDiff(row, entity, loaded) \in Row
  BY DEF ColumnDiff, Row

(* Closing a transaction keeps the types of the transactions and locks.    *)
LEMMA CloseType ==
    ASSUME TypeOK, NEW t \in Txs, Close(t)
    PROVE  /\ now' \in Nat
           /\ tx' \in [Txs -> Transaction]
           /\ eventLock' \in [Events -> Txs \cup {NoTx}]
           /\ rowLock' \in [Ids -> Txs \cup {NoTx}]
  BY IdleType DEF TypeOK, Close

(* The rows a transaction leaves behind are rows.                          *)
LEMMA WrittenType ==
    ASSUME TypeOK, NEW t \in Txs
    PROVE  Written(t) \in [Ids -> Row]
<1>1. tx[t].writes \in [Ids -> Row]
  BY DEF TypeOK, Transaction
<1> QED
  BY <1>1 DEF TypeOK, Written

(* Opening a webhook, cancellation or sweep keeps the types.               *)
LEMMA BeginType ==
    ASSUME TypeOK, NEW t \in Txs,
           NEW op \in {"confirm", "reject", "cancel", "sweep"},
           NEW i \in Ids \cup {NoId}, NEW k \in Keys \cup {NoKey},
           NEW entities \in [Ids -> Row], Begin(t, op, i, k, entities)
    PROVE  TypeOK'
<1>1. [Idle EXCEPT !.op = op, !.pc = "update", !.id = i, !.key = k, !.read = entities]
        \in Transaction
  BY IdleType DEF Idle, Transaction
<1> QED
  BY <1>1 DEF TypeOK, Begin, db

(* An entity with a new status is a row.                                   *)
LEMMA EntityType ==
    ASSUME TypeOK, NEW i \in Ids, NEW status \in RegistrationStatus
    PROVE  /\ Entity(i, status) \in [Ids -> Row]
           /\ Entity(i, status)[i].status = status
           /\ \A j \in Ids \ {i} : Entity(i, status)[j] = Absent
  BY IdleType DEF TypeOK, Entity, Row, RegistrationStatus

(* The sweep reads a row for every lapsed reservation.                     *)
LEMMA SweepEntities ==
    ASSUME TypeOK, NEW w \in Txs, SweepList(w)
    PROVE  \E entities \in [Ids -> Row] :
             /\ Begin(w, "sweep", NoId, NoKey, entities)
             /\ \A j \in Ids : entities[j].status # "confirmada"
<1> DEFINE expired(i) == [enrollments[i] EXCEPT !.status = "expirada"]
           entities == [i \in Ids |-> IF IsLapsed(enrollments[i], now)
                                      THEN expired(i) ELSE Absent]
<1>1. \A i \in Ids : expired(i) \in Row
  BY DEF TypeOK, Row, RegistrationStatus
<1>2. entities \in [Ids -> Row]
  BY <1>1, IdleType
<1>3. Begin(w, "sweep", NoId, NoKey, entities)
  BY DEF SweepList
<1>4. \A j \in Ids : entities[j].status # "confirmada"
  BY DEF TypeOK, Row, Absent
<1> HIDE DEF entities
<1> QED
  BY <1>2, <1>3, <1>4

(* Every action keeps the types.                                           *)
LEMMA TypeStep ==
    ASSUME TypeOK, \A t \in Txs : Shape(t), [Next]_vars
    PROVE  TypeOK'
<1>1. CASE Tick
  BY <1>1 DEF TypeOK, Tick, db
<1>2. ASSUME NEW e \in Events, EditEvent(e) PROVE TypeOK'
  <2> PICK row \in EventRows :
        /\ events' = [events EXCEPT ![e] = row]
        /\ ceiling' = [ceiling EXCEPT ![e] = IF row.capacity > @ THEN row.capacity ELSE @]
    BY <1>2 DEF EditEvent
  <2>1. row.capacity \in Nat
    BY DEF EventRow
  <2> QED
    BY <1>2, <2>1 DEF TypeOK, EditEvent
<1>3. ASSUME NEW t \in Txs, Rollback(t) PROVE TypeOK'
  BY <1>3, CloseType DEF Rollback, db, TypeOK
<1>4. ASSUME NEW t \in Txs, NEW i \in Ids, RegisterGetEvent(t, i) PROVE TypeOK'
  <2>1. events[i[1]] \in EventRow
    BY DEF TypeOK, Ids
  <2>2. NewEnrollment(events[i[1]]) \in Row
    BY <2>1 DEF NewEnrollment, Row, RegistrationStatus, TypeOK, EventRow
  <2>3. [Idle EXCEPT !.op = "register", !.pc = "lock", !.id = i,
                     !.cap = events[i[1]].capacity,
                     !.read[i] = NewEnrollment(events[i[1]])] \in Transaction
    BY <2>1, <2>2, IdleType DEF Idle, Transaction, EventRow
  <2> QED
    BY <1>4, <2>3 DEF TypeOK, RegisterGetEvent, db
<1>5. ASSUME NEW t \in Txs, RegisterLock(t) PROVE TypeOK'
  <2>1. tx[t].id \in Ids
    BY <1>5 DEF RegisterLock, Shape
  <2>2. tx[t] \in Transaction /\ enrollments[tx[t].id] \in Row
    BY <2>1 DEF TypeOK
  <2>3. [tx[t] EXCEPT !.pc = "count", !.loaded = enrollments[tx[t].id]] \in Transaction
    BY <2>2 DEF Transaction
  <2> QED
    BY <1>5, <2>1, <2>3 DEF TypeOK, RegisterLock, db, Ids
<1>6. ASSUME NEW t \in Txs, RegisterCount(t) PROVE TypeOK'
  <2>1. tx[t] \in Transaction
    BY DEF TypeOK
  <2>2. [tx[t] EXCEPT !.pc = "insert"] \in Transaction
    BY <2>1 DEF Transaction
  <2> QED
    BY <1>6, <2>2 DEF TypeOK, RegisterCount, db
<1>7. ASSUME NEW t \in Txs, NEW i \in Ids, NEW row \in Row,
             rowLock' = [rowLock EXCEPT ![i] = t],
             tx' = [tx EXCEPT ![t].pc = "update", ![t].read[i] = Absent,
                              ![t].writes[i] = row],
             UNCHANGED <<now, db, eventLock>>
      PROVE  TypeOK'
  <2>1. tx[t] \in Transaction
    BY DEF TypeOK
  <2>2. [tx[t] EXCEPT !.pc = "update", !.read[i] = Absent, !.writes[i] = row]
          \in Transaction
    BY <2>1, IdleType DEF Transaction
  <2>3. tx' \in [Txs -> Transaction]
    BY <1>7, <2>2 DEF TypeOK
  <2> QED
    BY <1>7, <2>3 DEF TypeOK, db
<1>8. ASSUME NEW t \in Txs, RegisterFlush(t) PROVE TypeOK'
  <2> DEFINE i == tx[t].id
             entity == tx[t].read[i]
  <2>1. i \in Ids
    BY <1>8 DEF RegisterFlush, Shape
  <2>2. entity \in Row /\ tx[t].loaded \in Row /\ enrollments[i] \in Row
    BY <2>1 DEF TypeOK, Transaction
  <2>3. ColumnDiff(enrollments[i], entity, tx[t].loaded) \in Row
    BY <2>2, ColumnDiffType
  <2> QED
    BY <1>7, <1>8, <2>1, <2>2, <2>3 DEF RegisterFlush
<1>9. ASSUME NEW t \in Txs, Flush(t) PROVE TypeOK'
  <2> DEFINE i == tx[t].id
  <2>1. i \in Ids
    BY <1>9 DEF Flush, Shape
  <2>2. tx[t].read[i] \in Row /\ tx[t].loaded \in Row /\ enrollments[i] \in Row
    BY <2>1 DEF TypeOK, Transaction
  <2>3. ColumnDiff(enrollments[i], tx[t].read[i], tx[t].loaded) \in Row
    BY <2>2, ColumnDiffType
  <2> QED
    BY <1>7, <1>9, <2>1, <2>3 DEF Flush
<1>10. ASSUME NEW t \in Txs, NEW i \in Ids, Reload(t, i) PROVE TypeOK'
  <2>1. tx[t] \in Transaction /\ enrollments[i] \in Row
    BY DEF TypeOK
  <2>2. [tx[t] EXCEPT !.pc = "write", !.id = i, !.loaded = enrollments[i]] \in Transaction
    BY <2>1 DEF Transaction
  <2> QED
    BY <1>10, <2>2 DEF TypeOK, Reload, db
<1>11. ASSUME NEW t \in Txs, NEW k \in Keys, WebhookConfirm(t, k) PROVE TypeOK'
  <2>1. payments[k] \in Ids
    BY <1>11 DEF TypeOK, WebhookConfirm
  <2>2. Entity(payments[k], "confirmada") \in [Ids -> Row]
    BY <2>1, EntityType DEF RegistrationStatus
  <2> QED
    BY <1>11, <2>1, <2>2, BeginType DEF WebhookConfirm
<1>12. ASSUME NEW t \in Txs, NEW k \in Keys, WebhookReject(t, k) PROVE TypeOK'
  <2>1. payments[k] \in Ids
    BY <1>12 DEF TypeOK, WebhookReject
  <2>2. Entity(payments[k], "expirada") \in [Ids -> Row]
    BY <2>1, EntityType DEF RegistrationStatus
  <2> QED
    BY <1>12, <2>1, <2>2, IdleType, BeginType DEF WebhookReject
<1>13. ASSUME NEW t \in Txs, NEW i \in Ids, Cancel(t, i) PROVE TypeOK'
  <2>1. Entity(i, "cancelada") \in [Ids -> Row]
    BY EntityType DEF RegistrationStatus
  <2> QED
    BY <1>13, <2>1, BeginType DEF Cancel
<1>14. ASSUME NEW w \in Txs, SweepList(w) PROVE TypeOK'
  <2>1. PICK entities \in [Ids -> Row] : Begin(w, "sweep", NoId, NoKey, entities)
    BY <1>14, SweepEntities
  <2> QED
    BY <2>1, BeginType
<1>15. ASSUME NEW t \in Txs, CommitRegister(t) PROVE TypeOK'
  <2>1. tx[t].id \in Ids
    BY <1>15 DEF CommitRegister, Shape
  <2>2. payments' \in [Keys -> Ids \cup {NoId}] /\ outbox' \subseteq Ids
    BY <1>15, <2>1 DEF CommitRegister, PublishConfirmed, TypeOK
  <2> QED
    BY <1>15, <2>2, CloseType, WrittenType DEF CommitRegister, TypeOK
<1>16. ASSUME NEW t \in Txs, CommitUpdate(t) PROVE TypeOK'
  BY <1>16, CloseType, WrittenType DEF CommitUpdate, Retaken, TypeOK
<1>17. ASSUME NEW t \in Txs, CommitWebhook(t) PROVE TypeOK'
  <2>1. tx[t].key \in Keys /\ tx[t].id \in Ids
    BY <1>17 DEF CommitWebhook, Shape
  <2>2. applied' \in [Keys -> Nat] /\ outbox' \subseteq Ids
    BY <1>17, <2>1 DEF CommitWebhook, PublishConfirmed, TypeOK
  <2>3. webhookEvents' \subseteq Keys
    BY <1>17, <2>1 DEF CommitWebhook, TypeOK
  <2>4. enrollments' \in [Ids -> Row]
    BY <1>17, WrittenType DEF CommitWebhook
  <2>5. revived' \subseteq Ids
    BY <1>17 DEF CommitWebhook, Retaken, TypeOK
  <2>6. UNCHANGED <<events, payments, ceiling>> /\ Close(t)
    BY <1>17 DEF CommitWebhook
  <2> QED
    BY <2>2, <2>3, <2>4, <2>5, <2>6, CloseType DEF TypeOK
<1>18. CASE UNCHANGED vars
  BY <1>18 DEF TypeOK, vars
<1> QED
  BY <1>1, <1>2, <1>3, <1>4, <1>5, <1>6, <1>8, <1>9, <1>10, <1>11, <1>12, <1>13, <1>14,
     <1>15, <1>16, <1>17, <1>18
     DEF Next, Txs, Abort, Victim, Request, Step, RegisterStep, CommitStep, RegisterDuplicate,
         RegisterNoCapacity, WebhookKeyTaken, Quiet
-----------------------------------------------------------------------------
(* Shape of the transactions and the lock of the event *)

(* What registration needs of a transaction, and of the event rows.        *)
Regular(t) == Shape(t) /\ EventLocked(t)

CapacityKnown == \A e \in Events : events[e].capacity <= ceiling[e]

(* A transaction that does not move stays regular while no ceiling drops   *)
(* and nobody takes its lock.                                              *)
LEMMA RegularFrame ==
    ASSUME TypeOK, TypeOK', NEW u \in Txs, Regular(u), tx'[u] = tx[u],
           \A e \in Events : ceiling'[e] >= ceiling[e],
           \A e \in Events : eventLock[e] = u => eventLock'[e] = u
    PROVE  Regular(u)'
<1>1. HoldsEvent(u) => tx[u].id \in Ids
  BY DEF HoldsEvent, Regular, Shape
<1>2. EventLocked(u)'
  BY <1>1 DEF Regular, EventLocked, HoldsEvent, Ids
<1>3. tx[u].op = "register" => tx[u].cap <= ceiling'[tx[u].id[1]]
  <2> SUFFICES ASSUME tx[u].op = "register" PROVE tx[u].cap <= ceiling'[tx[u].id[1]]
    OBVIOUS
  <2>1. tx[u].id[1] \in Events /\ tx[u].cap <= ceiling[tx[u].id[1]]
    BY DEF Regular, Shape, Ids
  <2>2. tx[u].cap \in Nat
    BY DEF TypeOK, Transaction
  <2> QED
    BY <2>1, <2>2 DEF TypeOK
<1> QED
  BY <1>2, <1>3 DEF Regular, Shape

(* A transaction that opens as anything but a registration is regular.     *)
LEMMA RegularBegin ==
    ASSUME TypeOK, NEW t \in Txs,
           NEW op \in {"confirm", "reject", "cancel", "sweep"},
           NEW i \in Ids \cup {NoId}, NEW k \in Keys \cup {NoKey},
           NEW entities \in [Ids -> Row], Begin(t, op, i, k, entities),
           op \in {"confirm", "reject"} => k \in Keys,
           op # "sweep" => i \in Ids /\ \A j \in Ids \ {i} : entities[j] = Absent
    PROVE  Regular(t)'
<1>1. /\ tx'[t].op = op
      /\ tx'[t].pc = "update"
      /\ tx'[t].key = k
      /\ tx'[t].id = i
      /\ tx'[t].read = entities
      /\ tx'[t].writes = Nothing
  BY DEF Begin, Idle, TypeOK
<1> QED
  BY <1>1, IdleType DEF Regular, Shape, EventLocked, HoldsEvent

(* A closed transaction is regular.                                        *)
LEMMA RegularClose ==
    ASSUME TypeOK, NEW t \in Txs, Close(t)
    PROVE  Regular(t)'
<1>1. tx'[t].op = "idle" /\ tx'[t].pc = "idle"
  BY DEF Close, Idle, TypeOK
<1> QED
  BY <1>1 DEF Regular, Shape, EventLocked, HoldsEvent

(* Every action keeps every transaction regular.                           *)
LEMMA RegularStep ==
    ASSUME TypeOK, TypeOK', CapacityKnown, \A t \in Txs : Regular(t), [Next]_vars
    PROVE  \A t \in Txs : Regular(t)'
<1>1. ASSUME UNCHANGED <<tx, eventLock>>, \A e \in Events : ceiling'[e] >= ceiling[e]
      PROVE  \A t \in Txs : Regular(t)'
  BY <1>1, RegularFrame
<1>2. ASSUME NEW t \in Txs, Regular(t)',
             \A u \in Txs \ {t} : tx'[u] = tx[u],
             UNCHANGED ceiling,
             \A e \in Events : eventLock[e] \notin {t, NoTx} => eventLock'[e] = eventLock[e]
      PROVE  \A u \in Txs : Regular(u)'
  <2> SUFFICES ASSUME NEW u \in Txs, u # t PROVE Regular(u)'
    BY <1>2
  <2>1. \A e \in Events : ceiling'[e] >= ceiling[e]
    BY <1>2 DEF TypeOK
  <2>2. \A e \in Events : eventLock[e] = u => eventLock'[e] = u
    BY <1>2
  <2> QED
    BY <1>2, <2>1, <2>2, RegularFrame
<1>3. CASE Tick
  BY <1>1, <1>3 DEF Tick, db, TypeOK
<1>4. ASSUME NEW e \in Events, EditEvent(e) PROVE \A t \in Txs : Regular(t)'
  <2>1. \A d \in Events : ceiling'[d] >= ceiling[d]
    BY <1>4 DEF EditEvent, TypeOK, EventRow
  <2> QED
    BY <1>1, <1>4, <2>1 DEF EditEvent
<1>5. ASSUME NEW t \in Txs, Close(t), UNCHANGED ceiling PROVE \A u \in Txs : Regular(u)'
  <2>1. \A u \in Txs \ {t} : tx'[u] = tx[u]
    BY <1>5 DEF Close, TypeOK
  <2>2. \A e \in Events : eventLock[e] \notin {t, NoTx} => eventLock'[e] = eventLock[e]
    BY <1>5 DEF Close
  <2> QED
    BY <1>2, <1>5, <2>1, <2>2, RegularClose
<1>6. ASSUME NEW t \in Txs, NEW i \in Ids, RegisterGetEvent(t, i)
      PROVE  \A u \in Txs : Regular(u)'
  <2>1. /\ tx'[t].op = "register"
        /\ tx'[t].pc = "lock"
        /\ tx'[t].id = i
        /\ tx'[t].cap = events[i[1]].capacity
        /\ tx'[t].writes = Nothing
        /\ \A j \in Ids \ {i} : tx'[t].read[j] = Absent
    BY <1>6, IdleType DEF RegisterGetEvent, Idle, TypeOK
  <2>2. events[i[1]].capacity <= ceiling'[i[1]]
    BY <1>6 DEF RegisterGetEvent, db, CapacityKnown, Ids
  <2>3. Regular(t)'
    BY <2>1, <2>2, IdleType DEF Regular, Shape, EventLocked, HoldsEvent
  <2> QED
    BY <1>2, <1>6, <2>3 DEF RegisterGetEvent, db, TypeOK
<1>7. ASSUME NEW t \in Txs, RegisterLock(t) PROVE \A u \in Txs : Regular(u)'
  <2>1. tx[t].op = "register" /\ tx[t].id \in Ids
    BY <1>7 DEF RegisterLock, Regular, Shape
  <2>2. tx'[t] = [tx[t] EXCEPT !.pc = "count", !.loaded = enrollments[tx[t].id]]
    BY <1>7 DEF RegisterLock, TypeOK
  <2>3. /\ tx'[t].op = "register" /\ tx'[t].pc = "count" /\ tx'[t].id = tx[t].id
        /\ tx'[t].cap = tx[t].cap /\ tx'[t].read = tx[t].read
        /\ tx'[t].writes = tx[t].writes
    BY <2>1, <2>2 DEF TypeOK, Transaction
  <2>4. eventLock'[tx[t].id[1]] = t
    BY <1>7, <2>1 DEF RegisterLock, TypeOK, Ids
  <2> UNCHANGED ceiling /\ Regular(t) /\ tx[t].pc = "lock"
    BY <1>7 DEF RegisterLock, db
  <2>5. Regular(t)'
    BY <2>1, <2>3, <2>4 DEF Regular, Shape, EventLocked, HoldsEvent
  <2>6. \A e \in Events : eventLock[e] \notin {t, NoTx} => eventLock'[e] = eventLock[e]
    BY <1>7 DEF RegisterLock, TypeOK
  <2> QED
    BY <1>2, <1>7, <2>5, <2>6 DEF RegisterLock, db, TypeOK
<1>8. ASSUME NEW t \in Txs, RegisterCount(t) PROVE \A u \in Txs : Regular(u)'
  <2>1. tx[t].op = "register" /\ tx[t].id \in Ids /\ HoldsEvent(t)
    BY <1>8 DEF RegisterCount, Regular, Shape, HoldsEvent
  <2>2. tx'[t] = [tx[t] EXCEPT !.pc = "insert"]
    BY <1>8 DEF RegisterCount, TypeOK
  <2>3. /\ tx'[t].op = "register" /\ tx'[t].pc = "insert" /\ tx'[t].id = tx[t].id
        /\ tx'[t].cap = tx[t].cap /\ tx'[t].read = tx[t].read
        /\ tx'[t].writes = tx[t].writes
    BY <2>1, <2>2 DEF TypeOK, Transaction
  <2>4. Regular(t)'
    BY <1>8, <2>1, <2>3 DEF RegisterCount, db, Regular, Shape, EventLocked, HoldsEvent
  <2> QED
    BY <1>2, <1>8, <2>4 DEF RegisterCount, db, TypeOK
<1>9. ASSUME NEW t \in Txs, RegisterFlush(t) PROVE \A u \in Txs : Regular(u)'
  <2> DEFINE i == tx[t].id
  <2>1. tx[t].op = "register" /\ i \in Ids /\ HoldsEvent(t)
    BY <1>9 DEF RegisterFlush, Regular, Shape, HoldsEvent
  <2>2. PICK row : tx' = [tx EXCEPT ![t].pc = "update", ![t].read[i] = Absent,
                                    ![t].writes[i] = row]
    BY <1>9 DEF RegisterFlush
  <2>3. tx'[t] = [tx[t] EXCEPT !.pc = "update", !.read[i] = Absent, !.writes[i] = row]
    BY <2>2 DEF TypeOK
  <2>4. /\ tx'[t].op = "register" /\ tx'[t].pc = "update" /\ tx'[t].id = i
        /\ tx'[t].cap = tx[t].cap
        /\ tx'[t].read[i] = Absent
        /\ \A j \in Ids \ {i} : /\ tx'[t].read[j] = tx[t].read[j]
                                /\ tx'[t].writes[j] = tx[t].writes[j]
    BY <2>1, <2>3 DEF TypeOK, Transaction
  <2> UNCHANGED <<ceiling, eventLock>> /\ Regular(t)
    BY <1>9 DEF RegisterFlush, db
  <2>5. Regular(t)'
    BY <2>1, <2>4 DEF Regular, Shape, EventLocked, HoldsEvent
  <2> QED
    BY <1>2, <1>9, <2>2, <2>5 DEF RegisterFlush, db, TypeOK
<1>10. ASSUME NEW t \in Txs, NEW op \in {"confirm", "reject", "cancel", "sweep"},
              NEW i \in Ids \cup {NoId}, NEW k \in Keys \cup {NoKey},
              NEW entities \in [Ids -> Row], Begin(t, op, i, k, entities),
              op \in {"confirm", "reject"} => k \in Keys,
              op # "sweep" => i \in Ids /\ \A j \in Ids \ {i} : entities[j] = Absent
       PROVE  \A u \in Txs : Regular(u)'
  <2>1. Regular(t)'
    BY <1>10, RegularBegin
  <2> QED
    BY <1>2, <1>10, <2>1 DEF Begin, db, TypeOK
<1>11. ASSUME NEW t \in Txs, NEW i \in Ids, Reload(t, i) PROVE \A u \in Txs : Regular(u)'
  <2>1. tx'[t] = [tx[t] EXCEPT !.pc = "write", !.id = i, !.loaded = enrollments[i]]
    BY <1>11 DEF Reload, TypeOK
  <2>2. tx[t].op # "register"
    BY <1>11 DEF Reload, Regular, Shape
  <2>3. /\ tx'[t].op = tx[t].op /\ tx'[t].pc = "write" /\ tx'[t].id = i
        /\ tx'[t].key = tx[t].key /\ tx'[t].read = tx[t].read
        /\ tx'[t].writes = tx[t].writes /\ tx[t].read[i] # Absent
        /\ tx[t].op \in {"confirm", "reject", "cancel"} => i = tx[t].id
    BY <1>11, <2>1 DEF Reload, Regular, Shape, TypeOK, Transaction
  <2>4. Regular(t)'
    BY <2>2, <2>3 DEF Regular, Shape, EventLocked, HoldsEvent
  <2> QED
    BY <1>2, <1>11, <2>4 DEF Reload, db, TypeOK
<1>12. ASSUME NEW t \in Txs, Flush(t) PROVE \A u \in Txs : Regular(u)'
  <2> DEFINE i == tx[t].id
  <2>1. PICK row : tx' = [tx EXCEPT ![t].pc = "update", ![t].read[i] = Absent,
                                    ![t].writes[i] = row]
    BY <1>12 DEF Flush
  <2>2. tx'[t] = [tx[t] EXCEPT !.pc = "update", !.read[i] = Absent, !.writes[i] = row]
    BY <2>1 DEF TypeOK
  <2>3. tx[t].op # "register"
    BY <1>12 DEF Flush, Regular, Shape
  <2>4. /\ tx'[t].op = tx[t].op /\ tx'[t].pc = "update" /\ tx'[t].key = tx[t].key
        /\ tx'[t].id = i
        /\ \A j \in Ids \ {i} : /\ tx'[t].read[j] = tx[t].read[j]
                                /\ tx'[t].writes[j] = tx[t].writes[j]
    BY <2>2 DEF TypeOK, Transaction
  <2>5. Regular(t)'
    BY <2>3, <2>4 DEF Regular, Shape, EventLocked, HoldsEvent
  <2> QED
    BY <1>2, <1>12, <2>1, <2>5 DEF Flush, db, TypeOK
<1>13. ASSUME NEW t \in Txs, NEW k \in Keys, WebhookConfirm(t, k)
       PROVE  \A u \in Txs : Regular(u)'
  <2> DEFINE i == payments[k]
             entities == Entity(i, "confirmada")
  <2>1. i \in Ids
    BY <1>13 DEF TypeOK, WebhookConfirm
  <2>2. entities \in [Ids -> Row] /\ \A j \in Ids \ {i} : entities[j] = Absent
    BY <2>1, EntityType DEF RegistrationStatus
  <2>3. Begin(t, "confirm", i, k, entities)
    BY <1>13 DEF WebhookConfirm
  <2> HIDE DEF i, entities
  <2> QED
    BY <1>10, <2>1, <2>2, <2>3
<1>14. ASSUME NEW t \in Txs, NEW k \in Keys, WebhookReject(t, k)
       PROVE  \A u \in Txs : Regular(u)'
  <2> DEFINE i == payments[k]
             entities == IF enrollments[i].status = "pendiente_pago"
                         THEN Entity(i, "expirada") ELSE Nothing
  <2>1. i \in Ids
    BY <1>14 DEF TypeOK, WebhookReject
  <2>2. entities \in [Ids -> Row] /\ \A j \in Ids \ {i} : entities[j] = Absent
    BY <2>1, EntityType, IdleType DEF RegistrationStatus
  <2>3. Begin(t, "reject", i, k, entities)
    BY <1>14 DEF WebhookReject
  <2> HIDE DEF i, entities
  <2> QED
    BY <1>10, <2>1, <2>2, <2>3
<1>15. ASSUME NEW t \in Txs, NEW i \in Ids, Cancel(t, i) PROVE \A u \in Txs : Regular(u)'
  <2>1. /\ Entity(i, "cancelada") \in [Ids -> Row]
        /\ \A j \in Ids \ {i} : Entity(i, "cancelada")[j] = Absent
    BY EntityType DEF RegistrationStatus
  <2>2. Begin(t, "cancel", i, NoKey, Entity(i, "cancelada"))
    BY <1>15 DEF Cancel
  <2> QED
    BY <1>10, <2>1, <2>2
<1>16. ASSUME NEW w \in Txs, SweepList(w) PROVE \A u \in Txs : Regular(u)'
  <2>1. PICK entities \in [Ids -> Row] : Begin(w, "sweep", NoId, NoKey, entities)
    BY <1>16, SweepEntities
  <2> QED
    BY <1>10, <2>1
<1>17. ASSUME NEW t \in Txs, CommitStep(t) PROVE \A u \in Txs : Regular(u)'
  BY <1>5, <1>17 DEF CommitStep, CommitRegister, CommitUpdate, CommitWebhook,
                     WebhookKeyTaken, Rollback, db
<1>18. CASE UNCHANGED vars
  BY <1>1, <1>18 DEF vars, TypeOK
<1>19. ASSUME NEW t \in Txs, Rollback(t) PROVE \A u \in Txs : Regular(u)'
  BY <1>5, <1>19 DEF Rollback, db
<1> QED
  BY <1>3, <1>4, <1>6, <1>7, <1>8, <1>9, <1>11, <1>12, <1>13, <1>14, <1>15, <1>16, <1>17,
     <1>18, <1>19
     DEF Next, Txs, Abort, Victim, Request, Step, RegisterStep, RegisterDuplicate,
         RegisterNoCapacity, Quiet

-----------------------------------------------------------------------------
(* Counting the seats *)

(* Seats sold by registration, committed or about to be.                   *)
Taken(e) == (Occupied(e) \ revived) \cup Claims(e)

SeatBound == \A e \in Events : Cardinality(Taken(e)) <= ceiling[e]

(* The sets of seats of one event are finite, because its users are.       *)
LEMMA SeatsFinite ==
    ASSUME NEW e \in Events
    PROVE  IsFiniteSet(Occupied(e)) /\ IsFiniteSet(Taken(e))
<1>1. IsFiniteSet({e} \X Users)
  BY FS_Singleton, FS_Product
<1>2. Occupied(e) \subseteq {e} \X Users /\ Claims(e) \subseteq {e} \X Users
  BY DEF Occupied, Claims, Ids
<1>3. Taken(e) \subseteq {e} \X Users
  BY <1>2 DEF Taken
<1> QED
  BY <1>1, <1>2, <1>3, FS_Subset

(* At most one transaction holds the row of an event.                      *)
LEMMA OneHolder ==
    ASSUME \A t \in Txs : Regular(t), NEW t \in Txs, NEW u \in Txs,
           HoldsEvent(t), HoldsEvent(u), tx[t].id[1] = tx[u].id[1]
    PROVE  t = u
  BY DEF Regular, EventLocked

(* A claim survives only in a transaction that already had it.             *)
LEMMA ClaimsShrink ==
    ASSUME NEW t \in Txs, \A u \in Txs \ {t} : tx'[u] = tx[u],
           ~ HoldsEvent(t)' \/ tx'[t].pc = "count"
             \/ (HoldsEvent(t) /\ tx[t].pc # "count" /\ tx'[t].id = tx[t].id)
    PROVE  \A e \in Events : Claims(e)' \subseteq Claims(e)
<1> SUFFICES ASSUME NEW e \in Events, NEW i \in Claims(e)' PROVE i \in Claims(e)
  OBVIOUS
<1>1. PICK u \in Txs : HoldsEvent(u)' /\ tx'[u].pc # "count" /\ tx'[u].id = i /\ i[1] = e
  BY DEF Claims
<1>2. i \in Ids
  BY DEF Claims
<1>3. CASE u = t
  BY <1>1, <1>2, <1>3 DEF Claims
<1>4. CASE u # t
  BY <1>1, <1>2, <1>4 DEF Claims, HoldsEvent
<1> QED
  BY <1>3, <1>4

(* Transactions that do not touch the tables add no seat.                  *)
LEMMA TakenShrinks ==
    ASSUME TypeOK, TypeOK', SeatBound,
           \A e \in Events : Taken(e)' \subseteq Taken(e),
           \A e \in Events : ceiling'[e] >= ceiling[e]
    PROVE  SeatBound'
<1> SUFFICES ASSUME NEW e \in Events PROVE Cardinality(Taken(e)') <= ceiling'[e]
  BY DEF SeatBound
<1>1. /\ Cardinality(Taken(e)) \in Nat /\ Cardinality(Taken(e)') \in Nat
      /\ Cardinality(Taken(e)') <= Cardinality(Taken(e))
  BY SeatsFinite, FS_Subset, FS_CardinalityType
<1> QED
  BY <1>1 DEF SeatBound, TypeOK

(* Every action keeps the seats sold within the ceiling.                   *)
LEMMA SeatStep ==
    ASSUME TypeOK, TypeOK', \A t \in Txs : Regular(t), \A t \in Txs : Regular(t)',
           SeatBound, [Next]_vars
    PROVE  SeatBound'
<1>1. ASSUME UNCHANGED <<now, enrollments, revived>>,
             \A e \in Events : Claims(e)' \subseteq Claims(e),
             \A e \in Events : ceiling'[e] >= ceiling[e]
      PROVE  SeatBound'
  <2>1. \A e \in Events : Taken(e)' \subseteq Taken(e)
    BY <1>1 DEF Taken, Occupied
  <2> QED
    BY <1>1, <2>1, TakenShrinks
<1>2. ASSUME NEW t \in Txs, UNCHANGED <<now, db>>,
             \A u \in Txs \ {t} : tx'[u] = tx[u],
             ~ HoldsEvent(t)' \/ tx'[t].pc = "count"
               \/ (HoldsEvent(t) /\ tx[t].pc # "count" /\ tx'[t].id = tx[t].id)
      PROVE  SeatBound'
  <2>1. \A e \in Events : Claims(e)' \subseteq Claims(e)
    BY <1>2, ClaimsShrink
  <2> QED
    BY <1>1, <1>2, <2>1 DEF db, TypeOK
<1>3. CASE Tick
  <2>1. \A row \in Row : IsActive(row, now') => IsActive(row, now)
    BY <1>3 DEF Tick, IsActive, Row, TypeOK
  <2>2. \A e \in Events : Claims(e)' = Claims(e)
    BY <1>3 DEF Tick, Claims, HoldsEvent
  <2>3. \A e \in Events : Occupied(e)' \subseteq Occupied(e)
    BY <1>3, <2>1 DEF Tick, db, Occupied, TypeOK
  <2>4. \A e \in Events : Taken(e)' \subseteq Taken(e)
    BY <1>3, <2>2, <2>3 DEF Taken, Tick, db
  <2> QED
    BY <1>3, <2>4, TakenShrinks DEF Tick, db, TypeOK
<1>4. ASSUME NEW e \in Events, EditEvent(e) PROVE SeatBound'
  <2>1. \A d \in Events : ceiling'[d] >= ceiling[d]
    BY <1>4 DEF EditEvent, TypeOK, EventRow
  <2>2. \A d \in Events : Claims(d)' = Claims(d)
    BY <1>4 DEF EditEvent, Claims, HoldsEvent
  <2> QED
    BY <1>1, <1>4, <2>1, <2>2 DEF EditEvent
<1>5. ASSUME NEW t \in Txs, Close(t)
      PROVE  \A e \in Events : Claims(e)' \subseteq Claims(e)
  <2>1. \A u \in Txs \ {t} : tx'[u] = tx[u]
    BY <1>5 DEF Close, TypeOK
  <2>2. ~ HoldsEvent(t)'
    BY <1>5 DEF Close, Idle, HoldsEvent, TypeOK
  <2> QED
    BY <2>1, <2>2, ClaimsShrink
<1>6. ASSUME NEW t \in Txs, Rollback(t) PROVE SeatBound'
  <2>1. Close(t) /\ UNCHANGED <<now, enrollments, revived, ceiling>>
    BY <1>6 DEF Rollback, Close, db
  <2>2. \A e \in Events : Claims(e)' \subseteq Claims(e)
    BY <1>5, <2>1
  <2> QED
    BY <1>1, <2>1, <2>2 DEF TypeOK
<1>7. ASSUME NEW t \in Txs, NEW i \in Ids, RegisterGetEvent(t, i) PROVE SeatBound'
  <2>1. tx'[t].pc = "lock"
    BY <1>7 DEF RegisterGetEvent, Idle, TypeOK
  <2>2. ~ HoldsEvent(t)'
    BY <2>1 DEF HoldsEvent
  <2> QED
    BY <1>2, <1>7, <2>2 DEF RegisterGetEvent, TypeOK
<1>8. ASSUME NEW t \in Txs, RegisterLock(t) PROVE SeatBound'
  <2>1. tx'[t].pc = "count"
    BY <1>8 DEF RegisterLock, TypeOK, Transaction
  <2> QED
    BY <1>2, <1>8, <2>1 DEF RegisterLock, TypeOK
<1>9. ASSUME NEW t \in Txs, RegisterCount(t) PROVE SeatBound'
  <2> DEFINE i == tx[t].id
  <2>1. /\ i \in Ids /\ i[1] \in Events /\ HoldsEvent(t)
        /\ tx[t].cap \in Nat /\ tx[t].cap <= ceiling[i[1]]
    BY <1>9 DEF RegisterCount, Regular, Shape, HoldsEvent, Ids, TypeOK, Transaction
  <2>2. /\ \A u \in Txs : tx'[u].op = tx[u].op /\ tx'[u].id = tx[u].id
        /\ \A u \in Txs \ {t} : tx'[u] = tx[u]
    BY <1>9 DEF RegisterCount, TypeOK, Transaction
  <2> SUFFICES ASSUME NEW e \in Events PROVE Cardinality(Taken(e)') <= ceiling'[e]
    BY DEF SeatBound
  <2>3. CASE e = i[1]
    <3>1. Claims(e)' \subseteq {i}
      <4> SUFFICES ASSUME NEW j \in Claims(e)' PROVE j = i
        OBVIOUS
      <4>1. PICK u \in Txs : HoldsEvent(u)' /\ tx'[u].id = j /\ j[1] = e
        BY DEF Claims
      <4>2. HoldsEvent(u)
        BY <2>1, <2>2, <4>1 DEF HoldsEvent
      <4> QED
        BY <2>1, <2>2, <2>3, <4>1, <4>2, OneHolder
    <3>2. Taken(e)' \subseteq Occupied(e) \cup {i}
      BY <1>9, <3>1 DEF Taken, Occupied, RegisterCount, db
    <3>3. /\ IsFiniteSet(Occupied(e)) /\ IsFiniteSet(Occupied(e) \cup {i})
          /\ Cardinality(Occupied(e)) \in Nat
          /\ Cardinality(Occupied(e) \cup {i}) \in Nat
          /\ Cardinality(Occupied(e) \cup {i}) <= Cardinality(Occupied(e)) + 1
      <4>1. IsFiniteSet(Occupied(e))
        BY SeatsFinite
      <4>2. /\ IsFiniteSet(Occupied(e) \cup {i})
            /\ Cardinality(Occupied(e) \cup {i})
                 = IF i \in Occupied(e) THEN Cardinality(Occupied(e))
                   ELSE Cardinality(Occupied(e)) + 1
        BY <4>1, FS_AddElement
      <4>3. Cardinality(Occupied(e)) \in Nat
        BY <4>1, FS_CardinalityType
      <4> QED
        BY <4>1, <4>2, <4>3
    <3>4. /\ Cardinality(Taken(e)') \in Nat
          /\ Cardinality(Taken(e)') <= Cardinality(Occupied(e) \cup {i})
      BY <3>2, <3>3, FS_Subset, FS_CardinalityType
    <3>5. Cardinality(Occupied(e)) < tx[t].cap
      BY <1>9, <2>3 DEF RegisterCount
    <3>6. ceiling'[e] = ceiling[e] /\ ceiling[e] \in Nat
      BY <1>9 DEF RegisterCount, db, TypeOK
    <3> QED
      BY <2>1, <2>3, <3>3, <3>4, <3>5, <3>6
  <2>4. CASE e # i[1]
    <3>1. Claims(e)' \subseteq Claims(e)
      <4> SUFFICES ASSUME NEW j \in Claims(e)' PROVE j \in Claims(e)
        OBVIOUS
      <4>1. PICK u \in Txs : /\ HoldsEvent(u)' /\ tx'[u].pc # "count"
                             /\ tx'[u].id = j /\ j[1] = e
        BY DEF Claims
      <4>2. u # t /\ j \in Ids
        BY <2>2, <2>4, <4>1 DEF Claims
      <4> QED
        BY <2>2, <4>1, <4>2 DEF Claims, HoldsEvent
    <3>2. Taken(e)' \subseteq Taken(e)
      BY <1>9, <3>1 DEF Taken, Occupied, RegisterCount, db
    <3>3. /\ Cardinality(Taken(e)) \in Nat /\ Cardinality(Taken(e)') \in Nat
          /\ Cardinality(Taken(e)') <= Cardinality(Taken(e))
      BY <3>2, SeatsFinite, FS_Subset, FS_CardinalityType
    <3> QED
      BY <1>9, <3>3 DEF SeatBound, RegisterCount, db, TypeOK
  <2> QED
    BY <2>3, <2>4
<1>10. ASSUME NEW t \in Txs, RegisterFlush(t) PROVE SeatBound'
  <2>1. HoldsEvent(t) /\ tx[t].pc = "insert"
    BY <1>10 DEF RegisterFlush, Regular, Shape, HoldsEvent
  <2> PICK row : tx' = [tx EXCEPT ![t].pc = "update", ![t].read[tx[t].id] = Absent,
                                  ![t].writes[tx[t].id] = row]
    BY <1>10 DEF RegisterFlush
  <2>2. tx'[t].id = tx[t].id /\ \A u \in Txs \ {t} : tx'[u] = tx[u]
    BY DEF TypeOK, Transaction
  <2>3. UNCHANGED <<now, db>>
    BY <1>10 DEF RegisterFlush
  <2> QED
    BY <1>2, <2>1, <2>2, <2>3
<1>11. ASSUME NEW t \in Txs, UNCHANGED <<now, db>>, tx'[t].op # "register",
              \A u \in Txs \ {t} : tx'[u] = tx[u]
       PROVE  SeatBound'
  BY <1>2, <1>11 DEF HoldsEvent
<1>12. ASSUME NEW t \in Txs, NEW op \in {"confirm", "reject", "cancel", "sweep"},
              NEW i, NEW k, NEW entities, Begin(t, op, i, k, entities)
       PROVE  SeatBound'
  <2>1. tx'[t].op = op
    BY <1>12 DEF Begin, Idle, TypeOK
  <2>2. \A u \in Txs \ {t} : tx'[u] = tx[u]
    BY <1>12 DEF Begin, TypeOK
  <2> QED
    BY <1>11, <1>12, <2>1, <2>2 DEF Begin
<1>13. ASSUME NEW t \in Txs, Request(t) PROVE SeatBound'
  BY <1>7, <1>12, <1>13 DEF Request, WebhookConfirm, WebhookReject, Cancel
<1>14. ASSUME NEW w \in Txs, SweepList(w) PROVE SeatBound'
  BY <1>12, <1>14, SweepEntities
<1>15. ASSUME NEW t \in Txs, NEW i \in Ids, Reload(t, i) PROVE SeatBound'
  <2>1. tx[t].op # "register"
    BY <1>15 DEF Reload, Regular, Shape
  <2>2. tx'[t].op = tx[t].op /\ \A u \in Txs \ {t} : tx'[u] = tx[u]
    BY <1>15 DEF Reload, TypeOK, Transaction
  <2> QED
    BY <1>11, <1>15, <2>1, <2>2 DEF Reload
<1>16. ASSUME NEW t \in Txs, Flush(t) PROVE SeatBound'
  <2>1. tx[t].op # "register"
    BY <1>16 DEF Flush, Regular, Shape
  <2> PICK row : tx' = [tx EXCEPT ![t].pc = "update", ![t].read[tx[t].id] = Absent,
                                  ![t].writes[tx[t].id] = row]
    BY <1>16 DEF Flush
  <2>2. tx'[t].op = tx[t].op /\ \A u \in Txs \ {t} : tx'[u] = tx[u]
    BY DEF TypeOK, Transaction
  <2>3. UNCHANGED <<now, db>>
    BY <1>16 DEF Flush
  <2> QED
    BY <1>11, <2>1, <2>2, <2>3
<1>17. ASSUME NEW t \in Txs, CommitRegister(t) PROVE SeatBound'
  <2> DEFINE i == tx[t].id
  <2>1. i \in Ids /\ i \in Claims(i[1])
    BY <1>17 DEF CommitRegister, ReadyToCommit, Regular, Shape, HoldsEvent, Claims
  <2>2. \A j \in Ids \ {i} : Written(t)[j] = enrollments[j]
    BY <1>17 DEF CommitRegister, Written, Regular, Shape
  <2>3. /\ Close(t) /\ enrollments' = Written(t) /\ revived' = revived \ {i}
        /\ UNCHANGED <<now, ceiling>>
    BY <1>17 DEF CommitRegister, Close
  <2>4. \A e \in Events : Claims(e)' \subseteq Claims(e)
    BY <1>5, <2>3
  <2>5. \A e \in Events : Occupied(e)' \ revived' \subseteq Taken(e)
    BY <2>1, <2>2, <2>3 DEF Occupied, Taken
  <2>6. \A e \in Events : Taken(e)' \subseteq Taken(e)
    BY <2>4, <2>5 DEF Taken
  <2> QED
    BY <2>3, <2>6, TakenShrinks DEF TypeOK
<1>18. ASSUME NEW t \in Txs, Close(t), enrollments' = Written(t),
              revived' = revived \cup Retaken(t), UNCHANGED ceiling
       PROVE  SeatBound'
  <2>1. \A e \in Events : Claims(e)' \subseteq Claims(e)
    BY <1>5, <1>18
  <2>2. \A e \in Events : Occupied(e)' \ revived' \subseteq Occupied(e) \ revived
    BY <1>18 DEF Occupied, Retaken, Close
  <2>3. \A e \in Events : Taken(e)' \subseteq Taken(e)
    BY <2>1, <2>2 DEF Taken
  <2> QED
    BY <1>18, <2>3, TakenShrinks DEF TypeOK
<1>19. ASSUME NEW t \in Txs, CommitStep(t) PROVE SeatBound'
  BY <1>6, <1>17, <1>18, <1>19 DEF CommitStep, CommitUpdate, CommitWebhook, WebhookKeyTaken
<1>20. CASE UNCHANGED vars
  <2>1. \A e \in Events : Claims(e)' = Claims(e)
    BY <1>20 DEF vars, Claims, HoldsEvent
  <2> QED
    BY <1>1, <1>20, <2>1 DEF vars, TypeOK
<1> QED
  BY <1>3, <1>4, <1>6, <1>8, <1>9, <1>10, <1>13, <1>14, <1>15, <1>16, <1>19, <1>20
     DEF Next, Txs, Abort, Victim, Step, RegisterStep, RegisterDuplicate, RegisterNoCapacity, Quiet

-----------------------------------------------------------------------------
(* The theorems *)

(* SeatsClaimed is the three parts above.                                  *)
LEMMA SeatsClaimedParts ==
    SeatsClaimed <=> (\A t \in Txs : Regular(t)) /\ CapacityKnown /\ SeatBound
  BY DEF SeatsClaimed, Regular, CapacityKnown, SeatBound, Taken

(* The committed row of an event is never above its ceiling.               *)
LEMMA CapacityStep ==
    ASSUME TypeOK, CapacityKnown, [Next]_vars
    PROVE  CapacityKnown'
<1>1. ASSUME UNCHANGED <<events, ceiling>> PROVE CapacityKnown'
  BY <1>1 DEF CapacityKnown
<1>2. ASSUME NEW e \in Events, EditEvent(e) PROVE CapacityKnown'
  BY <1>2 DEF EditEvent, CapacityKnown, TypeOK, EventRow
<1>3. (\E e \in Events : EditEvent(e)) \/ UNCHANGED <<events, ceiling>>
  BY DEF Next, vars, db, Tick, Abort, Victim, Rollback, Request, RegisterGetEvent, Cancel,
         WebhookConfirm, WebhookReject, SweepList, Begin, Step, RegisterStep, RegisterLock,
         RegisterDuplicate, RegisterCount, RegisterNoCapacity, RegisterFlush, Reload, Flush,
         CommitStep, CommitRegister, CommitUpdate, CommitWebhook, WebhookKeyTaken, Quiet
<1> QED
  BY <1>1, <1>2, <1>3

(* Initially nothing is open and no seat is taken.                         *)
LEMMA InitInvariant == Init => TypeOK /\ SeatsClaimed
<1> SUFFICES ASSUME Init PROVE TypeOK /\ SeatsClaimed
  OBVIOUS
<1>1. TypeOK
  BY IdleType DEF Init, TypeOK, EventRow
<1>2. \A t \in Txs : Regular(t)
  BY DEF Init, Idle, Regular, Shape, EventLocked, HoldsEvent
<1>3. CapacityKnown
  BY DEF Init, CapacityKnown, EventRow
<1>4. SeatBound
  <2> SUFFICES ASSUME NEW e \in Events PROVE Cardinality(Taken(e)) <= ceiling[e]
    BY DEF SeatBound
  <2>1. Occupied(e) = {} /\ Claims(e) = {}
    BY DEF Init, Occupied, Nothing, Absent, IsActive, Claims, HoldsEvent, Idle
  <2>2. Cardinality(Taken(e)) = 0
    BY <2>1, FS_EmptySet DEF Taken
  <2> QED
    BY <1>1, <2>2 DEF TypeOK
<1> QED
  BY <1>1, <1>2, <1>3, <1>4, SeatsClaimedParts

(* The types and the bookkeeping of the claims hold in every state.        *)
THEOREM SeatsClaimedAlways == Spec => [](TypeOK /\ SeatsClaimed)
<1>1. TypeOK /\ SeatsClaimed /\ [Next]_vars => TypeOK' /\ SeatsClaimed'
  <2> SUFFICES ASSUME TypeOK, SeatsClaimed, [Next]_vars PROVE TypeOK' /\ SeatsClaimed'
    OBVIOUS
  <2>1. (\A t \in Txs : Regular(t)) /\ CapacityKnown /\ SeatBound
    BY SeatsClaimedParts
  <2>2. TypeOK'
    BY <2>1, TypeStep DEF Regular
  <2>3. \A t \in Txs : Regular(t)'
    BY <2>1, <2>2, RegularStep
  <2>4. CapacityKnown' /\ SeatBound'
    BY <2>1, <2>2, <2>3, CapacityStep, SeatStep
  <2>5. SeatsClaimed'
    BY <2>3, <2>4 DEF SeatsClaimed, Regular, CapacityKnown, SeatBound, Taken
  <2> QED
    BY <2>2, <2>5
<1> QED
  BY <1>1, InitInvariant, PTL DEF Spec

(* Type correctness, for any number of transactions.                       *)
THEOREM TypeCorrect == Spec => []TypeOK
  BY SeatsClaimedAlways, PTL

(* No interleaving of registrations, webhooks, cancellations, sweeps, edits*)
(* and aborts makes registration sell a seat beyond the capacity.          *)
THEOREM SoldWithinCapacityAlways == Spec => []SoldWithinCapacity
<1>1. TypeOK /\ SeatsClaimed => SoldWithinCapacity
  <2> SUFFICES ASSUME TypeOK, SeatBound, NEW e \in Events
               PROVE  Cardinality(Occupied(e) \ revived) <= ceiling[e]
    BY SeatsClaimedParts DEF SoldWithinCapacity
  <2>1. Occupied(e) \ revived \subseteq Taken(e)
    BY DEF Taken
  <2>2. /\ Cardinality(Occupied(e) \ revived) \in Nat /\ Cardinality(Taken(e)) \in Nat
        /\ Cardinality(Occupied(e) \ revived) <= Cardinality(Taken(e))
    BY <2>1, SeatsFinite, FS_Subset, FS_CardinalityType
  <2> QED
    BY <2>2 DEF SeatBound, TypeOK
<1> QED
  BY <1>1, SeatsClaimedAlways, PTL

-----------------------------------------------------------------------------
(* Idempotency of the payment webhook *)

(* A key that has confirmed is recorded, so the UNIQUE constraint rejects  *)
(* every other transaction that carries it.                                *)
KeyRecorded ==
    \A k \in Keys : applied[k] = 0 \/ (applied[k] = 1 /\ k \in webhookEvents)

(* Deliveries of one payment confirm at most once, however they interleave.*)
THEOREM ConfirmedOnceAlways == Spec => []ConfirmedOncePerKey
<1>1. Init => KeyRecorded
  BY DEF Init, KeyRecorded
<1>2. TypeOK /\ SeatsClaimed /\ KeyRecorded /\ [Next]_vars => KeyRecorded'
  <2> SUFFICES ASSUME TypeOK, SeatsClaimed, KeyRecorded, [Next]_vars PROVE KeyRecorded'
    OBVIOUS
  <2>1. ASSUME NEW t \in Txs, CommitWebhook(t) PROVE KeyRecorded'
    <3>1. tx[t].key \in Keys /\ tx[t].key \notin webhookEvents
      BY <2>1 DEF CommitWebhook, SeatsClaimed, Shape
    <3>2. applied[tx[t].key] = 0
      BY <3>1 DEF KeyRecorded
    <3>3. /\ webhookEvents' = webhookEvents \cup {tx[t].key}
          /\ applied' \in {applied, [applied EXCEPT ![tx[t].key] = 1]}
      BY <2>1, <3>2 DEF CommitWebhook
    <3> QED
      BY <3>1, <3>2, <3>3 DEF KeyRecorded, TypeOK
  <2>2. (\E t \in Txs : CommitWebhook(t)) \/ UNCHANGED <<webhookEvents, applied>>
    BY DEF Next, vars, db, Txs, Tick, EditEvent, Abort, Victim, Rollback, Request,
           RegisterGetEvent, Cancel, WebhookConfirm, WebhookReject, SweepList, Begin, Step,
           RegisterStep, RegisterLock, RegisterDuplicate, RegisterCount, RegisterNoCapacity,
           RegisterFlush, Reload, Flush, CommitStep, CommitRegister, CommitUpdate,
           WebhookKeyTaken, Quiet
  <2> QED
    BY <2>1, <2>2 DEF KeyRecorded
<1>3. KeyRecorded => ConfirmedOncePerKey
  BY DEF KeyRecorded, ConfirmedOncePerKey
<1> QED
  BY <1>1, <1>2, <1>3, SeatsClaimedAlways, PTL DEF Spec

-----------------------------------------------------------------------------
(* The mail of a confirmation *)

(* Whoever is about to write a confirmed row is its registration or its    *)
(* payment, which queue the mail, or found it confirmed and mailed already.*)
MailOwed(t) ==
    \A i \in Ids :
        tx[t].read[i].status = "confirmada" \/ tx[t].writes[i].status = "confirmada"
          => \/ i \in outbox
             \/ tx[t].op \in {"register", "confirm"} /\ tx[t].id = i

Mailed == ConfirmedIsMailed /\ \A t \in Txs : MailOwed(t)

(* A transaction whose entities are confirmed only in its own row owes no  *)
(* other mail.                                                             *)
LEMMA MailBegin ==
    ASSUME TypeOK, NEW t \in Txs,
           NEW op \in {"confirm", "reject", "cancel", "sweep"},
           NEW i \in Ids \cup {NoId}, NEW k \in Keys \cup {NoKey},
           NEW entities \in [Ids -> Row], Begin(t, op, i, k, entities), Mailed,
           \A j \in Ids : entities[j].status = "confirmada" => op = "confirm" /\ j = i
    PROVE  Mailed'
<1>1. /\ tx'[t].op = op
      /\ tx'[t].id = i
      /\ tx'[t].read = entities
      /\ tx'[t].writes = Nothing
  BY DEF Begin, Idle, TypeOK
<1>2. \A j \in Ids : Nothing[j].status # "confirmada"
  BY DEF Nothing, Absent
<1>3. \A u \in Txs \ {t} : tx'[u] = tx[u]
  BY DEF Begin, TypeOK
<1> QED
  BY <1>1, <1>2, <1>3 DEF Mailed, MailOwed, ConfirmedIsMailed, Begin, db

(* Every action keeps the confirmed rows mailed.                           *)
LEMMA MailStep ==
    ASSUME TypeOK, TypeOK', \A t \in Txs : Regular(t), Mailed, [Next]_vars
    PROVE  Mailed'
<1>1. ASSUME UNCHANGED <<enrollments, outbox, tx>> PROVE Mailed'
  BY <1>1 DEF Mailed, MailOwed, ConfirmedIsMailed
<1>2. ASSUME NEW t \in Txs, Close(t), outbox \subseteq outbox',
             \A i \in Ids : enrollments'[i].status = "confirmada" => i \in outbox'
      PROVE  Mailed'
  <2>1. MailOwed(t)'
    BY <1>2 DEF Close, TypeOK, MailOwed, Idle, Nothing, Absent
  <2>2. \A u \in Txs \ {t} : tx'[u] = tx[u]
    BY <1>2 DEF Close, TypeOK
  <2> QED
    BY <1>2, <2>1, <2>2 DEF Mailed, MailOwed, ConfirmedIsMailed
<1>3. ASSUME NEW t \in Txs, Rollback(t) PROVE Mailed'
  BY <1>2, <1>3 DEF Rollback, db, Mailed, ConfirmedIsMailed
<1>4. ASSUME NEW t \in Txs, UNCHANGED <<now, db>>, \A u \in Txs \ {t} : tx'[u] = tx[u],
             MailOwed(t)'
      PROVE  Mailed'
  BY <1>4 DEF db, Mailed, MailOwed, ConfirmedIsMailed
<1>5. ASSUME NEW t \in Txs, NEW i \in Ids, RegisterGetEvent(t, i) PROVE Mailed'
  <2>1. /\ tx'[t].op = "register" /\ tx'[t].id = i /\ tx'[t].writes = Nothing
        /\ \A j \in Ids \ {i} : tx'[t].read[j] = Absent
    BY <1>5, IdleType DEF RegisterGetEvent, Idle, TypeOK
  <2>2. MailOwed(t)'
    BY <2>1, IdleType DEF MailOwed, Absent
  <2> QED
    BY <1>4, <1>5, <2>2 DEF RegisterGetEvent, TypeOK
<1>6. ASSUME NEW t \in Txs, RegisterLock(t) \/ RegisterCount(t) PROVE Mailed'
  <2>1. /\ tx'[t].op = tx[t].op /\ tx'[t].id = tx[t].id
        /\ tx'[t].read = tx[t].read /\ tx'[t].writes = tx[t].writes
    BY <1>6 DEF RegisterLock, RegisterCount, TypeOK, Transaction
  <2>2. MailOwed(t)'
    BY <1>6, <2>1 DEF Mailed, MailOwed, RegisterLock, RegisterCount, db
  <2> QED
    BY <1>4, <1>6, <2>2 DEF RegisterLock, RegisterCount, db, TypeOK
<1>7. ASSUME NEW t \in Txs, NEW i \in Ids, NEW row \in Row, tx[t].id = i,
             tx' = [tx EXCEPT ![t].pc = "update", ![t].read[i] = Absent,
                              ![t].writes[i] = row],
             UNCHANGED <<now, db>>,
             \/ tx[t].op = "register"
             \/ row.status = "confirmada" => \/ tx[t].read[i].status = "confirmada"
                                             \/ enrollments[i].status = "confirmada"
      PROVE  Mailed'
  <2>1. tx'[t] = [tx[t] EXCEPT !.pc = "update", !.read[i] = Absent, !.writes[i] = row]
    BY <1>7 DEF TypeOK
  <2>2. /\ tx'[t].op = tx[t].op /\ tx'[t].id = i
        /\ tx'[t].read[i] = Absent /\ tx'[t].writes[i] = row
        /\ \A j \in Ids \ {i} : /\ tx'[t].read[j] = tx[t].read[j]
                                /\ tx'[t].writes[j] = tx[t].writes[j]
    BY <1>7, <2>1 DEF TypeOK, Transaction
  <2>3. Absent.status # "confirmada"
    BY DEF Absent
  <2>4. outbox' = outbox
    BY <1>7 DEF db
  <2>5. \A j \in Ids \ {i} :
          \/ tx[t].read[j].status = "confirmada"
          \/ tx[t].writes[j].status = "confirmada"
          => j \in outbox
    BY <1>7 DEF Mailed, MailOwed
  <2>6. row.status = "confirmada" => i \in outbox \/ tx[t].op \in {"register", "confirm"}
    BY <1>7 DEF Mailed, MailOwed, ConfirmedIsMailed
  <2>7. MailOwed(t)'
    BY <2>2, <2>3, <2>4, <2>5, <2>6 DEF MailOwed
  <2> QED
    BY <1>4, <1>7, <2>7 DEF TypeOK
<1>8. ASSUME NEW t \in Txs, RegisterFlush(t) PROVE Mailed'
  <2> DEFINE i == tx[t].id
  <2>1. i \in Ids /\ tx[t].op = "register"
    BY <1>8 DEF RegisterFlush, Regular, Shape
  <2>2. tx[t].read[i] \in Row /\ tx[t].loaded \in Row /\ enrollments[i] \in Row
    BY <2>1 DEF TypeOK, Transaction
  <2>3. ColumnDiff(enrollments[i], tx[t].read[i], tx[t].loaded) \in Row
    BY <2>2, ColumnDiffType
  <2> QED
    BY <1>7, <1>8, <2>1, <2>2, <2>3 DEF RegisterFlush
<1>9. ASSUME NEW t \in Txs, Flush(t) PROVE Mailed'
  <2> DEFINE i == tx[t].id
             row == ColumnDiff(enrollments[i], tx[t].read[i], tx[t].loaded)
  <2>1. i \in Ids
    BY <1>9 DEF Flush, Regular, Shape
  <2>2. tx[t].read[i] \in Row /\ tx[t].loaded \in Row /\ enrollments[i] \in Row
    BY <2>1 DEF TypeOK, Transaction
  <2>3. row \in Row
    BY <2>2, ColumnDiffType
  <2>4. row.status \in {tx[t].read[i].status, enrollments[i].status}
    BY DEF ColumnDiff
  <2>5. /\ UNCHANGED <<now, db>>
        /\ tx' = [tx EXCEPT ![t].pc = "update", ![t].read[i] = Absent,
                            ![t].writes[i] = row]
    BY <1>9 DEF Flush
  <2> HIDE DEF i, row
  <2>6. tx[t].id = i
    BY DEF i
  <2> QED
    BY <1>7, <2>1, <2>3, <2>4, <2>5, <2>6
<1>10. ASSUME NEW t \in Txs, NEW i \in Ids, Reload(t, i) PROVE Mailed'
  <2>1. tx'[t] = [tx[t] EXCEPT !.pc = "write", !.id = i, !.loaded = enrollments[i]]
    BY <1>10 DEF Reload, TypeOK
  <2>2. /\ tx'[t].op = tx[t].op /\ tx'[t].id = i
        /\ tx'[t].read = tx[t].read /\ tx'[t].writes = tx[t].writes
    BY <2>1 DEF TypeOK, Transaction
  <2>3. tx[t].op # "register" /\ (tx[t].op = "confirm" => i = tx[t].id)
    BY <1>10 DEF Reload, Regular, Shape
  <2>4. MailOwed(t)'
    BY <1>10, <2>2, <2>3 DEF Mailed, MailOwed, Reload, db
  <2> QED
    BY <1>4, <1>10, <2>4 DEF Reload, TypeOK
<1>11. ASSUME NEW t \in Txs, NEW k \in Keys, WebhookConfirm(t, k) PROVE Mailed'
  <2> DEFINE i == payments[k]
             entities == Entity(i, "confirmada")
  <2>1. i \in Ids
    BY <1>11 DEF TypeOK, WebhookConfirm
  <2>2. entities \in [Ids -> Row] /\ \A j \in Ids \ {i} : entities[j] = Absent
    BY <2>1, EntityType DEF RegistrationStatus
  <2>3. Begin(t, "confirm", i, k, entities)
    BY <1>11 DEF WebhookConfirm
  <2>4. Absent.status # "confirmada"
    BY DEF Absent
  <2> HIDE DEF i, entities
  <2> QED
    BY <2>1, <2>2, <2>3, <2>4, MailBegin
<1>12. ASSUME NEW t \in Txs, NEW k \in Keys, WebhookReject(t, k) PROVE Mailed'
  <2> DEFINE i == payments[k]
             entities == IF enrollments[i].status = "pendiente_pago"
                         THEN Entity(i, "expirada") ELSE Nothing
  <2>1. i \in Ids
    BY <1>12 DEF TypeOK, WebhookReject
  <2>2. entities \in [Ids -> Row]
    BY <2>1, EntityType, IdleType DEF RegistrationStatus
  <2>3. Begin(t, "reject", i, k, entities)
    BY <1>12 DEF WebhookReject
  <2>4. \A j \in Ids : entities[j].status # "confirmada"
    <3>1. \A j \in Ids : Entity(i, "expirada")[j].status # "confirmada"
      BY <2>1, EntityType DEF RegistrationStatus, Absent
    <3>2. \A j \in Ids : Nothing[j].status # "confirmada"
      BY IdleType DEF Absent
    <3> QED
      BY <3>1, <3>2
  <2> HIDE DEF i, entities
  <2> QED
    BY <2>1, <2>2, <2>3, <2>4, MailBegin
<1>13. ASSUME NEW t \in Txs, NEW i \in Ids, Cancel(t, i) PROVE Mailed'
  <2>1. Entity(i, "cancelada") \in [Ids -> Row]
    BY EntityType DEF RegistrationStatus
  <2>2. \A j \in Ids : Entity(i, "cancelada")[j].status # "confirmada"
    BY EntityType DEF RegistrationStatus, Absent
  <2>3. Begin(t, "cancel", i, NoKey, Entity(i, "cancelada"))
    BY <1>13 DEF Cancel
  <2> QED
    BY <2>1, <2>2, <2>3, MailBegin
<1>14. ASSUME NEW w \in Txs, SweepList(w) PROVE Mailed'
  <2>1. PICK entities \in [Ids -> Row] :
          /\ Begin(w, "sweep", NoId, NoKey, entities)
          /\ \A j \in Ids : entities[j].status # "confirmada"
    BY <1>14, SweepEntities
  <2> QED
    BY <2>1, MailBegin
<1>15. ASSUME NEW t \in Txs
       PROVE  \A i \in Ids : Written(t)[i].status = "confirmada" =>
                \/ i \in outbox
                \/ tx[t].op \in {"register", "confirm"} /\ tx[t].id = i
  BY DEF Written, Mailed, MailOwed, ConfirmedIsMailed
<1>16. ASSUME NEW t \in Txs, CommitRegister(t) PROVE Mailed'
  <2> DEFINE i == tx[t].id
  <2>1. i \in Ids
    BY <1>16 DEF CommitRegister, Regular, Shape
  <2>2. Close(t) /\ enrollments' = Written(t) /\ outbox \subseteq outbox'
    BY <1>16 DEF CommitRegister, PublishConfirmed
  <2>3. Written(t)[i].status = "confirmada" => i \in outbox'
    <3>1. CASE tx[t].writes[i].status = "pendiente_pago"
      BY <2>1, <3>1 DEF Written, Absent
    <3>2. CASE tx[t].writes[i].status # "pendiente_pago"
      BY <1>16, <3>2 DEF CommitRegister, PublishConfirmed
    <3> QED
      BY <3>1, <3>2
  <2> QED
    BY <1>2, <1>15, <2>2, <2>3
<1>17. ASSUME NEW t \in Txs, CommitUpdate(t) PROVE Mailed'
  BY <1>2, <1>15, <1>17 DEF CommitUpdate
<1>18. ASSUME NEW t \in Txs, CommitWebhook(t) PROVE Mailed'
  BY <1>2, <1>15, <1>18 DEF CommitWebhook, PublishConfirmed
<1>19. CASE Tick \/ (\E e \in Events : EditEvent(e)) \/ UNCHANGED vars
  BY <1>1, <1>19 DEF Tick, EditEvent, db, vars
<1> QED
  BY <1>3, <1>5, <1>6, <1>8, <1>9, <1>10, <1>11, <1>12, <1>13, <1>14, <1>16, <1>17, <1>18,
     <1>19
     DEF Next, Txs, Abort, Victim, Request, Step, RegisterStep, CommitStep, RegisterDuplicate,
         RegisterNoCapacity, WebhookKeyTaken, Quiet

(* No enrollment is ever confirmed without its mail, whatever transactions *)
(* interleave and abort.                                                   *)
THEOREM ConfirmedIsMailedAlways == Spec => []ConfirmedIsMailed
<1>1. Init => Mailed
  BY DEF Init, Mailed, MailOwed, ConfirmedIsMailed, Idle, Nothing, Absent
<1>2. TypeOK /\ SeatsClaimed /\ TypeOK' /\ Mailed /\ [Next]_vars => Mailed'
  BY MailStep, SeatsClaimedParts
<1>3. Mailed => ConfirmedIsMailed
  BY DEF Mailed
<1> QED
  BY <1>1, <1>2, <1>3, SeatsClaimedAlways, PTL DEF Spec

-----------------------------------------------------------------------------
(* Who may write a row, and what the sweep writes *)

(* An uncommitted row is locked by its writer.                             *)
RowsHeld(t) == \A i \in Ids : tx[t].writes[i] # Absent => rowLock[i] = t

(* The sweep intends to expire reservations that had lapsed when it read   *)
(* them.  If another transaction settled the row before it was selected    *)
(* again, the UPDATE leaves the status alone, and can only move the end of *)
(* a reservation back to the lapsed one.                                   *)
SweepReleases(t) ==
    tx[t].op = "sweep" =>
        \A i \in Ids :
            /\ tx[t].read[i] # Absent =>
                tx[t].read[i].status = "expirada" /\ tx[t].read[i].until < now
            /\ tx[t].writes[i] # Absent =>
                \/ tx[t].writes[i].status = "expirada"
                \/ /\ tx[t].writes[i].status = enrollments[i].status
                   /\ \/ tx[t].writes[i].until = enrollments[i].until
                      \/ tx[t].writes[i].until < now

Rows == \A t \in Txs : RowsHeld(t) /\ SweepReleases(t)

(* Rows survives the steps that move no transaction.                       *)
LEMMA RowsFrame ==
    ASSUME TypeOK, TypeOK', Rows, UNCHANGED <<enrollments, rowLock, tx>>, now' >= now
    PROVE  Rows'
<1> SUFFICES ASSUME NEW t \in Txs PROVE RowsHeld(t)' /\ SweepReleases(t)'
  BY DEF Rows
<1>1. RowsHeld(t)'
  BY DEF Rows, RowsHeld
<1>2. \A i \in Ids : tx[t].read[i].until \in Nat /\ tx[t].writes[i].until \in Nat
  <2>1. \A i \in Ids : tx[t].read[i] \in Row /\ tx[t].writes[i] \in Row
    BY DEF TypeOK, Transaction
  <2> QED
    BY <2>1 DEF Row
<1>3. \A n \in Nat : n < now => n < now'
  BY DEF TypeOK
<1>4. SweepReleases(t)'
  BY <1>2, <1>3 DEF Rows, SweepReleases
<1> QED
  BY <1>1, <1>4

(* A commit or rollback of t leaves the rows of the others alone, because  *)
(* it writes only rows that t has locked.                                  *)
LEMMA RowsClose ==
    ASSUME TypeOK, TypeOK', Rows, NEW t \in Txs, Close(t),
           enrollments' \in {enrollments, Written(t)}
    PROVE  Rows'
<1>1. tx'[t].op = "idle" /\ tx'[t].writes = Nothing
  BY DEF Close, Idle, TypeOK
<1>2. RowsHeld(t)' /\ SweepReleases(t)'
  BY <1>1, IdleType DEF RowsHeld, SweepReleases
<1> SUFFICES ASSUME NEW u \in Txs, u # t PROVE RowsHeld(u)' /\ SweepReleases(u)'
  BY <1>2 DEF Rows
<1>3. tx'[u] = tx[u] /\ now' = now
  BY DEF Close, TypeOK
<1>4. \A i \in Ids : tx[u].writes[i] # Absent => rowLock[i] = u
  BY DEF Rows, RowsHeld
<1>5. \A i \in Ids : rowLock[i] = u => rowLock'[i] = u
  BY DEF Close
<1>6. \A i \in Ids : rowLock[i] = u => enrollments'[i] = enrollments[i]
  BY DEF Rows, RowsHeld, Written
<1>7. SweepReleases(u)
  BY DEF Rows
<1>8. RowsHeld(u)'
  BY <1>3, <1>4, <1>5 DEF RowsHeld
<1>9. SweepReleases(u)'
  BY <1>3, <1>4, <1>6, <1>7 DEF SweepReleases
<1> QED
  BY <1>8, <1>9

(* A step inside t takes no lock from the others.                          *)
LEMMA RowsLocal ==
    ASSUME TypeOK, TypeOK', Rows, NEW t \in Txs, UNCHANGED <<now, enrollments>>,
           \A u \in Txs \ {t} : tx'[u] = tx[u],
           \A i \in Ids : rowLock[i] # NoTx => rowLock'[i] = rowLock[i],
           RowsHeld(t)', SweepReleases(t)'
    PROVE  Rows'
<1> SUFFICES ASSUME NEW u \in Txs, u # t PROVE RowsHeld(u)' /\ SweepReleases(u)'
  BY DEF Rows
<1>1. tx'[u] = tx[u] /\ u # NoTx
  OBVIOUS
<1>2. RowsHeld(u)'
  BY <1>1 DEF Rows, RowsHeld
<1>3. SweepReleases(u)'
  BY <1>1 DEF Rows, SweepReleases
<1> QED
  BY <1>2, <1>3

(* Opening a transaction: nothing is written yet.                          *)
LEMMA RowsBegin ==
    ASSUME TypeOK, TypeOK', Rows, NEW t \in Txs, NEW op, NEW i, NEW k, NEW entities,
           Begin(t, op, i, k, entities),
           op = "sweep" => \A j \in Ids : entities[j] # Absent =>
                             entities[j].status = "expirada" /\ entities[j].until < now
    PROVE  Rows'
<1>1. tx'[t].op = op /\ tx'[t].read = entities /\ tx'[t].writes = Nothing
  BY DEF Begin, Idle, TypeOK
<1>2. UNCHANGED <<now, enrollments, rowLock>> /\ \A u \in Txs \ {t} : tx'[u] = tx[u]
  BY DEF Begin, db, TypeOK
<1>3. RowsHeld(t)'
  BY <1>1, IdleType DEF RowsHeld
<1>4. SweepReleases(t)'
  BY <1>1, <1>2, IdleType DEF SweepReleases
<1> QED
  BY <1>2, <1>3, <1>4, RowsLocal

(* A flush writes one row, which it locks.                                 *)
LEMMA RowsFlush ==
    ASSUME TypeOK, TypeOK', Rows, NEW t \in Txs, NEW i \in Ids, NEW row \in Row,
           UNCHANGED <<now, db>>, rowLock[i] = NoTx,
           rowLock' = [rowLock EXCEPT ![i] = t],
           tx' = [tx EXCEPT ![t].pc = "update", ![t].read[i] = Absent,
                            ![t].writes[i] = row],
           tx[t].op = "sweep" =>
             \/ row.status = "expirada"
             \/ /\ row.status = enrollments[i].status
                /\ row.until = enrollments[i].until \/ row.until < now
    PROVE  Rows'
<1>1. tx'[t] = [tx[t] EXCEPT !.pc = "update", !.read[i] = Absent, !.writes[i] = row]
  BY DEF TypeOK
<1>2. /\ tx'[t].op = tx[t].op
      /\ tx'[t].read[i] = Absent /\ tx'[t].writes[i] = row
      /\ \A j \in Ids \ {i} : /\ tx'[t].read[j] = tx[t].read[j]
                              /\ tx'[t].writes[j] = tx[t].writes[j]
  BY <1>1 DEF TypeOK, Transaction
<1>3. rowLock'[i] = t /\ \A j \in Ids \ {i} : rowLock'[j] = rowLock[j]
  BY DEF TypeOK
<1>4. UNCHANGED <<now, enrollments>> /\ \A u \in Txs \ {t} : tx'[u] = tx[u]
  BY DEF db, TypeOK
<1>5. RowsHeld(t)'
  BY <1>2, <1>3 DEF Rows, RowsHeld
<1>6. SweepReleases(t)'
  <2> SUFFICES ASSUME tx[t].op = "sweep", NEW j \in Ids
               PROVE  /\ tx'[t].read[j] # Absent =>
                          /\ tx'[t].read[j].status = "expirada"
                          /\ tx'[t].read[j].until < now
                      /\ tx'[t].writes[j] # Absent =>
                          \/ tx'[t].writes[j].status = "expirada"
                          \/ /\ tx'[t].writes[j].status = enrollments[j].status
                             /\ \/ tx'[t].writes[j].until = enrollments[j].until
                                \/ tx'[t].writes[j].until < now
    BY <1>2, <1>4 DEF SweepReleases
  <2>1. CASE j = i
    BY <1>2, <2>1
  <2>2. CASE j # i
    <3>1. tx'[t].read[j] = tx[t].read[j] /\ tx'[t].writes[j] = tx[t].writes[j]
      BY <1>2, <2>2
    <3>2. SweepReleases(t)
      BY DEF Rows
    <3> QED
      BY <3>1, <3>2 DEF SweepReleases
  <2> QED
    BY <2>1, <2>2
<1> QED
  BY <1>3, <1>4, <1>5, <1>6, RowsLocal

(* Every action keeps the rows held, and the sweep to releasing.           *)
LEMMA RowsStep ==
    ASSUME TypeOK, TypeOK', \A t \in Txs : Regular(t), Rows, [Next]_vars
    PROVE  Rows'
<1>1. CASE Tick \/ (\E e \in Events : EditEvent(e)) \/ UNCHANGED vars
  BY <1>1, RowsFrame DEF Tick, EditEvent, db, vars, TypeOK
<1>2. ASSUME NEW t \in Txs, Rollback(t) PROVE Rows'
  BY <1>2, RowsClose DEF Rollback, db
<1>3. ASSUME NEW t \in Txs, CommitStep(t) PROVE Rows'
  BY <1>2, <1>3, RowsClose
     DEF CommitStep, CommitRegister, CommitUpdate, CommitWebhook, WebhookKeyTaken
<1>4. ASSUME NEW t \in Txs, UNCHANGED <<now, db, rowLock>>,
             \A u \in Txs \ {t} : tx'[u] = tx[u],
             tx'[t].writes = tx[t].writes \/ tx'[t].writes = Nothing,
             tx'[t].op # "sweep" \/ (/\ tx'[t].op = tx[t].op /\ tx'[t].read = tx[t].read
                                     /\ tx'[t].writes = tx[t].writes)
      PROVE  Rows'
  <2>1. RowsHeld(t)'
    BY <1>4, IdleType DEF Rows, RowsHeld
  <2>2. SweepReleases(t)'
    BY <1>4 DEF Rows, SweepReleases, db
  <2> QED
    BY <1>4, <2>1, <2>2, RowsLocal DEF db
<1>5. ASSUME NEW t \in Txs, NEW i \in Ids, RegisterGetEvent(t, i) PROVE Rows'
  <2>1. tx'[t].op = "register" /\ tx'[t].writes = Nothing
    BY <1>5 DEF RegisterGetEvent, Idle, TypeOK
  <2> QED
    BY <1>4, <1>5, <2>1 DEF RegisterGetEvent, TypeOK
<1>6. ASSUME NEW t \in Txs, RegisterLock(t) \/ RegisterCount(t) PROVE Rows'
  <2>1. tx[t].op = "register"
    BY <1>6 DEF RegisterLock, RegisterCount, Regular, Shape
  <2>2. tx'[t].op = tx[t].op /\ tx'[t].writes = tx[t].writes
    BY <1>6 DEF RegisterLock, RegisterCount, TypeOK, Transaction
  <2>3. UNCHANGED <<now, db, rowLock>> /\ \A u \in Txs \ {t} : tx'[u] = tx[u]
    BY <1>6 DEF RegisterLock, RegisterCount, TypeOK
  <2> QED
    BY <1>4, <2>1, <2>2, <2>3
<1>7. ASSUME NEW t \in Txs, RegisterFlush(t) PROVE Rows'
  <2> DEFINE i == tx[t].id
  <2>1. i \in Ids /\ tx[t].op = "register"
    BY <1>7 DEF RegisterFlush, Regular, Shape
  <2>2. tx[t].read[i] \in Row /\ tx[t].loaded \in Row /\ enrollments[i] \in Row
    BY <2>1 DEF TypeOK, Transaction
  <2>3. ColumnDiff(enrollments[i], tx[t].read[i], tx[t].loaded) \in Row
    BY <2>2, ColumnDiffType
  <2> QED
    BY <1>7, <2>1, <2>2, <2>3, RowsFlush DEF RegisterFlush
<1>8. ASSUME NEW t \in Txs, NEW i \in Ids, Reload(t, i) PROVE Rows'
  <2>1. /\ tx'[t].op = tx[t].op /\ tx'[t].read = tx[t].read
        /\ tx'[t].writes = tx[t].writes
    BY <1>8 DEF Reload, TypeOK, Transaction
  <2> QED
    BY <1>4, <1>8, <2>1 DEF Reload, TypeOK
<1>9. ASSUME NEW t \in Txs, Flush(t) PROVE Rows'
  <2> DEFINE i == tx[t].id
             entity == tx[t].read[i]
             row == ColumnDiff(enrollments[i], entity, tx[t].loaded)
  <2>1. i \in Ids
    BY <1>9 DEF Flush, Regular, Shape
  <2>2. entity \in Row /\ tx[t].loaded \in Row /\ enrollments[i] \in Row
    BY <2>1 DEF TypeOK, Transaction
  <2>3. row \in Row
    BY <2>2, ColumnDiffType
  <2>4. entity # Absent
    BY <1>9 DEF Flush, Regular, Shape
  <2>5. tx[t].op = "sweep" => entity.status = "expirada" /\ entity.until < now
    BY <2>1, <2>4 DEF Rows, SweepReleases
  <2>6. tx[t].op = "sweep" =>
          \/ row.status = "expirada"
          \/ /\ row.status = enrollments[i].status
             /\ row.until = enrollments[i].until \/ row.until < now
    BY <2>5 DEF ColumnDiff
  <2>7. /\ UNCHANGED <<now, db>> /\ rowLock[i] = NoTx
        /\ rowLock' = [rowLock EXCEPT ![i] = t]
        /\ tx' = [tx EXCEPT ![t].pc = "update", ![t].read[i] = Absent,
                            ![t].writes[i] = row]
    BY <1>9 DEF Flush
  <2> HIDE DEF i, row
  <2> QED
    BY <2>1, <2>3, <2>6, <2>7, RowsFlush
<1>10. ASSUME NEW t \in Txs, Request(t) PROVE Rows'
  BY <1>5, <1>10, RowsBegin DEF Request, Cancel, WebhookConfirm, WebhookReject
<1>11. ASSUME NEW w \in Txs, SweepList(w) PROVE Rows'
  <2> DEFINE lapsed == {i \in Ids : IsLapsed(enrollments[i], now)}
             entities == [i \in Ids |-> IF i \in lapsed
                                        THEN [enrollments[i] EXCEPT !.status = "expirada"]
                                        ELSE Absent]
  <2>1. \A j \in Ids : entities[j] # Absent =>
          entities[j].status = "expirada" /\ entities[j].until < now
    BY DEF IsLapsed, TypeOK, Row
  <2>2. Begin(w, "sweep", NoId, NoKey, entities)
    BY <1>11 DEF SweepList
  <2> HIDE DEF entities
  <2> QED
    BY <2>1, <2>2, RowsBegin
<1> QED
  BY <1>1, <1>2, <1>3, <1>6, <1>7, <1>8, <1>9, <1>10, <1>11
     DEF Next, Txs, Abort, Victim, Step, RegisterStep, RegisterDuplicate,
         RegisterNoCapacity, Quiet

-----------------------------------------------------------------------------
(* Every step is a step of the ledger *)

(* The seats that are taken, by sale or otherwise.                         *)
Active == {i \in Ids : IsActive(enrollments[i], now)}

(* The ledger counts as FiniteSets does.                                   *)
LEMMA LedgerCardinality == \A S : Ledger!Cardinality(S) = Cardinality(S)
  BY Zenon DEF Cardinality, Ledger!Cardinality

(* Losing seats, or nothing at all, is a Release.                          *)
LEMMA LedgerRelease ==
    ASSUME UNCHANGED ceiling,
           (Active \ revived)' \subseteq Active \ revived,
           (Active \cap revived)' \subseteq Active \cap revived
    PROVE  Ledger!Next
  BY DEF Ledger!Next, Ledger!Release, Active

(* A commit that changes one row outside a registration releases its seat, *)
(* takes it back, or leaves it as it was.                                  *)
LEMMA LedgerUpdate ==
    ASSUME TypeOK, NEW t \in Txs, NEW i \in Ids,
           \A j \in Ids \ {i} : Written(t)[j] = enrollments[j],
           Close(t), enrollments' = Written(t),
           revived' = revived \cup Retaken(t), UNCHANGED ceiling
    PROVE  Ledger!Next
<1>1. \A j \in Ids \ {i} : j \in Active' <=> j \in Active
  BY DEF Active, Close
<1>2. Retaken(t) = Active' \ Active
  BY DEF Retaken, Active, Close
<1>3. CASE i \in Active' \ Active
  <2>1. Retaken(t) = {i} /\ Active' = Active \cup {i}
    BY <1>1, <1>2, <1>3 DEF Active
  <2>2. PICK e \in Events, u \in Users : i = <<e, u>>
    BY DEF Ids
  <2>3. i \notin Active \ revived /\ i \notin Active \cap revived
    BY <1>3
  <2>4. /\ (Active \ revived)' = Active \ revived
        /\ (Active \cap revived)' = (Active \cap revived) \cup {i}
    BY <1>3, <2>1
  <2>5. Ledger!Retake(e, u)
    BY <2>2, <2>3, <2>4 DEF Ledger!Retake, Active
  <2> QED
    BY <2>5 DEF Ledger!Next
<1>4. CASE i \notin Active' \ Active
  <2>1. Active' \subseteq Active
    BY <1>1, <1>4 DEF Active
  <2>2. revived' = revived
    BY <1>2, <2>1
  <2> QED
    BY <2>1, <2>2, LedgerRelease
<1> QED
  BY <1>3, <1>4

(* A sweep only releases seats.                                            *)
LEMMA LedgerSweep ==
    ASSUME TypeOK, Rows, NEW t \in Txs, tx[t].op = "sweep",
           Close(t), enrollments' = Written(t),
           revived' = revived \cup Retaken(t), UNCHANGED ceiling
    PROVE  Ledger!Next
<1>1. SweepReleases(t) /\ now' = now
  BY DEF Rows, Close
<1>2. ASSUME NEW i \in Ids, IsActive(Written(t)[i], now) PROVE IsActive(enrollments[i], now)
  <2>1. CASE tx[t].writes[i] = Absent
    BY <1>2, <2>1 DEF Written
  <2>2. CASE tx[t].writes[i] # Absent
    <3>1. IsActive(tx[t].writes[i], now)
      BY <1>2, <2>2 DEF Written
    <3>2. tx[t].writes[i].until \in Nat /\ now \in Nat
      <4>1. tx[t].writes[i] \in Row
        BY DEF TypeOK, Transaction
      <4> QED
        BY <4>1 DEF Row, TypeOK
    <3> QED
      BY <1>1, <2>2, <3>1, <3>2 DEF SweepReleases, IsActive
  <2> QED
    BY <2>1, <2>2
<1>3. Active' \subseteq Active /\ Retaken(t) = {}
  BY <1>1, <1>2 DEF Active, Retaken
<1> QED
  BY <1>3, LedgerRelease

(* The seat of a registration was claimed before its commit, so it was     *)
(* counted: one seat fewer than the ceiling is sold until then.            *)
LEMMA LedgerRegister ==
    ASSUME TypeOK, \A t \in Txs : Regular(t), SeatBound, NEW t \in Txs, CommitRegister(t)
    PROVE  Ledger!Next
<1> DEFINE i == tx[t].id
<1>1. i \in Ids /\ i \in Claims(i[1])
  BY DEF CommitRegister, ReadyToCommit, Regular, Shape, HoldsEvent, Claims
<1>2. \A j \in Ids \ {i} : Written(t)[j] = enrollments[j]
  BY DEF CommitRegister, Written, Regular, Shape
<1>3. /\ enrollments' = Written(t) /\ revived' = revived \ {i}
      /\ UNCHANGED <<now, ceiling>>
  BY DEF CommitRegister, Close
<1> HIDE DEF i
<1>4. \A j \in Ids \ {i} : j \in Active' <=> j \in Active
  BY <1>2, <1>3 DEF Active
<1>5. CASE i \in Active' /\ i \notin Active \ revived
  <2>1. PICK e \in Events, u \in Users : i = <<e, u>>
    BY <1>1 DEF Ids
  <2> DEFINE soldIn == {j \in Active \ revived : j[1] = e}
  <2>2. /\ (Active \ revived)' = (Active \ revived) \cup {i}
        /\ (Active \cap revived)' = (Active \cap revived) \ {i}
    BY <1>3, <1>4, <1>5 DEF Active
  <2>3. Cardinality(soldIn) < ceiling[e]
    <3>1. soldIn \cup {i} \subseteq Taken(e) /\ i \notin soldIn
      BY <1>1, <1>5, <2>1 DEF Taken, Occupied, Active
    <3>2. IsFiniteSet(soldIn) /\ IsFiniteSet(soldIn \cup {i})
      BY <3>1, SeatsFinite, FS_Subset
    <3>3. /\ Cardinality(soldIn) \in Nat
          /\ Cardinality(soldIn \cup {i}) = Cardinality(soldIn) + 1
      BY <3>1, <3>2, FS_AddElement, FS_CardinalityType
    <3>4. /\ Cardinality(Taken(e)) \in Nat
          /\ Cardinality(soldIn \cup {i}) <= Cardinality(Taken(e))
      BY <3>1, SeatsFinite, FS_Subset, FS_CardinalityType
    <3>5. Cardinality(Taken(e)) <= ceiling[e] /\ ceiling[e] \in Nat
      BY DEF SeatBound, TypeOK
    <3> HIDE DEF soldIn
    <3> QED
      BY <3>3, <3>4, <3>5
  <2>4. Ledger!Sell(e, u)
    BY <1>3, <1>5, <2>1, <2>2, <2>3, LedgerCardinality DEF Ledger!Sell, Ledger!SoldIn, Active
  <2> QED
    BY <2>4 DEF Ledger!Next
<1>6. CASE ~ (i \in Active' /\ i \notin Active \ revived)
  <2>1. /\ (Active \ revived)' \subseteq Active \ revived
        /\ (Active \cap revived)' \subseteq Active \cap revived
    BY <1>3, <1>4, <1>6 DEF Active
  <2> QED
    BY <1>3, <2>1, LedgerRelease
<1> QED
  BY <1>5, <1>6

(* Every step maps to a step of the ledger or to a stutter.                *)
LEMMA LedgerStep ==
    ASSUME TypeOK, TypeOK', \A t \in Txs : Regular(t), SeatBound, Rows, [Next]_vars
    PROVE  [Ledger!Next]_(Ledger!ledger)
<1>1. ASSUME UNCHANGED <<now, enrollments, revived, ceiling>> PROVE Ledger!Next
  BY <1>1, LedgerRelease DEF Active
<1>2. CASE Tick
  <2>1. \A row \in Row : IsActive(row, now') => IsActive(row, now)
    BY <1>2 DEF Tick, IsActive, Row, TypeOK
  <2>2. Active' \subseteq Active
    BY <1>2, <2>1 DEF Tick, db, Active, TypeOK
  <2> QED
    BY <1>2, <2>2, LedgerRelease DEF Tick, db
<1>3. ASSUME NEW e \in Events, EditEvent(e) PROVE Ledger!Next
  <2>1. ceiling' \in [Events -> Nat] /\ \A d \in Events : ceiling'[d] >= ceiling[d]
    BY <1>3 DEF EditEvent, TypeOK, EventRow
  <2>2. UNCHANGED <<now, enrollments, revived>>
    BY <1>3 DEF EditEvent
  <2> QED
    BY <2>1, <2>2 DEF Ledger!Next, Ledger!Enlarge
<1>4. ASSUME NEW t \in Txs, Rollback(t) PROVE Ledger!Next
  BY <1>1, <1>4 DEF Rollback, Close, db
<1>5. ASSUME NEW t \in Txs, CommitUpdate(t) \/ CommitWebhook(t) PROVE Ledger!Next
  <2>1. /\ Close(t) /\ enrollments' = Written(t) /\ revived' = revived \cup Retaken(t)
        /\ UNCHANGED ceiling
        /\ tx[t].op \in {"cancel", "sweep", "confirm", "reject"}
    BY <1>5 DEF CommitUpdate, CommitWebhook
  <2>2. CASE tx[t].op = "sweep"
    BY <2>1, <2>2, LedgerSweep
  <2>3. CASE tx[t].op # "sweep"
    <3>1. tx[t].id \in Ids /\ \A j \in Ids \ {tx[t].id} : Written(t)[j] = enrollments[j]
      BY <2>1, <2>3 DEF Regular, Shape, Written
    <3> QED
      BY <2>1, <3>1, LedgerUpdate
  <2> QED
    BY <2>2, <2>3
<1>6. ASSUME NEW t \in Txs, UNCHANGED <<now, db>> PROVE Ledger!Next
  BY <1>1, <1>6 DEF db
<1>7. CASE UNCHANGED vars
  BY <1>1, <1>7 DEF vars
<1>8. ASSUME NEW t \in Txs, Request(t) \/ SweepList(t) PROVE Ledger!Next
  BY <1>6, <1>8 DEF Request, RegisterGetEvent, Cancel, WebhookConfirm, WebhookReject,
                    SweepList, Begin
<1>9. ASSUME NEW t \in Txs, Step(t) PROVE Ledger!Next
  <2>1. CASE CommitStep(t)
    BY <1>4, <1>5, <2>1, LedgerRegister DEF CommitStep, WebhookKeyTaken
  <2>2. CASE ~ CommitStep(t)
    BY <1>4, <1>6, <1>9, <2>2
       DEF Step, RegisterStep, RegisterLock, RegisterDuplicate, RegisterCount,
           RegisterNoCapacity, RegisterFlush, Reload, Flush
  <2> QED
    BY <2>1, <2>2
<1> QED
  BY <1>2, <1>3, <1>4, <1>7, <1>8, <1>9 DEF Next, Txs, Abort, Victim, Quiet

(* Enrollment implements the ledger of seats.                              *)
THEOREM ImplementsLedgerAlways == Spec => ImplementsLedger
<1>1. Init => Ledger!Init
  <2> SUFFICES ASSUME Init PROVE Ledger!Init
    OBVIOUS
  <2>1. Active = {}
    BY DEF Init, Active, Nothing, Absent, IsActive
  <2>2. ceiling \in [Events -> Nat \ {0}]
    BY DEF Init, EventRow
  <2> QED
    BY <2>1, <2>2 DEF Ledger!Init, Active
<1>2. Init => Rows
  BY DEF Init, Rows, RowsHeld, SweepReleases, Idle, Nothing
<1>3. TypeOK /\ SeatsClaimed /\ TypeOK' /\ Rows /\ [Next]_vars => Rows'
  BY RowsStep, SeatsClaimedParts
<1>4. TypeOK /\ SeatsClaimed /\ TypeOK' /\ Rows /\ [Next]_vars
        => [Ledger!Next]_(Ledger!ledger)
  BY LedgerStep, SeatsClaimedParts
<1> QED
  BY <1>1, <1>2, <1>3, <1>4, SeatsClaimedAlways, PTL DEF Spec, ImplementsLedger, Ledger!Spec
=============================================================================
