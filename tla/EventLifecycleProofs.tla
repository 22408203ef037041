------------------------ MODULE EventLifecycleProofs ------------------------
(***************************************************************************)
(* Theorems about EventLifecycle for every number of requests and texts.   *)
(***************************************************************************)
EXTENDS EventLifecycle, TLAPS

USE ConstantsAssumption

-----------------------------------------------------------------------------
(* Types *)

(* The blank rows and requests are well typed.                             *)
LEMMA IdleType == Absent \in Row /\ Idle \in Request
  BY DEF Absent, Row, Idle, Request, EventStatus

(* What a request sees of the event is a row.                              *)
LEMMA ViewType == ASSUME TypeOK, NEW t \in Requests PROVE View(t) \in Row
<1>1. tx[t].written \in Row
  BY DEF TypeOK, Request
<1> QED
  BY <1>1 DEF TypeOK, View

(* The columns of rows make a row.                                         *)
LEMMA UpdatedType ==
    ASSUME NEW row \in Row, NEW entity \in Row, NEW loaded \in Row
    PROVE  Updated(row, entity, loaded) \in Row
<1>1. \A x, y, z : Column(x, y, z) \in {x, y}
  BY DEF Column
<1> QED
  BY <1>1 DEF Updated, Row

(* Opening a request keeps the types.                                      *)
LEMMA BeginType ==
    ASSUME TypeOK, NEW t \in Requests, NEW op \in Operations, NEW entity \in Row,
           NEW pc \in {"embed", "reload"}, Begin(t, op, entity, pc)
    PROVE  TypeOK'
<1>1. [Idle EXCEPT !.op = op, !.pc = pc, !.before = event, !.entity = entity] \in Request
  BY IdleType DEF TypeOK, Idle, Request
<1> QED
  BY <1>1 DEF Begin, TypeOK

(* Ending one keeps the types of the requests and of the lock.             *)
LEMMA EndType ==
    ASSUME TypeOK, NEW t \in Requests, NEW pc \in {"done", "failed"}, End(t, pc)
    PROVE  /\ tx' \in [Requests -> Request]
           /\ lock' \in Requests \cup {NoRequest}
           /\ unembedded' \subseteq Requests
<1>1. [Idle EXCEPT !.pc = pc] \in Request
  BY IdleType DEF Idle, Request
<1> QED
  BY <1>1 DEF End, TypeOK

(* The operations that start a request keep the types.                     *)
LEMMA StartType == ASSUME TypeOK, NEW t \in Requests, Start(t) PROVE TypeOK'
<1>0. event \in Row
  BY DEF TypeOK
<1>1. CASE CreateEvent(t)
  <2>1. PICK text \in Texts :
          tx' = [tx EXCEPT ![t] = [Idle EXCEPT !.op = "create", !.pc = "commit",
                                          !.written = Draft(text)]]
    BY <1>1 DEF CreateEvent
  <2>2. Draft(text) \in Row
    BY DEF Draft, Absent, Row, EventStatus
  <2>3. [Idle EXCEPT !.op = "create", !.pc = "commit", !.written = Draft(text)]
          \in Request
    BY <2>2, IdleType DEF Idle, Request, Operations
  <2> QED
    BY <1>1, <2>1, <2>3 DEF CreateEvent, TypeOK
<1>2. CASE UpdateEvent(t)
  <2>1. PICK text \in Texts : Begin(t, "update", [event EXCEPT !.text = text], "reload")
    BY <1>2 DEF UpdateEvent
  <2>2. [event EXCEPT !.text = text] \in Row
    BY <1>0 DEF Row
  <2> QED
    BY <2>1, <2>2, BeginType DEF Operations
<1>3. CASE SubmitForApproval(t)
  <2>1. [event EXCEPT !.status = "pendiente"] \in Row
    BY <1>0 DEF Row, EventStatus
  <2> QED
    BY <1>3, <2>1, BeginType DEF SubmitForApproval, Operations
<1>4. CASE PublishEvent(t) \/ ApproveEvent(t)
  <2>1. Published(event, t) \in Row
    BY <1>0 DEF Row, EventStatus, Published
  <2> QED
    BY <1>4, <2>1, BeginType DEF PublishEvent, ApproveEvent, Operations
<1>5. CASE RejectEvent(t)
  <2>1. [event EXCEPT !.status = "borrador"] \in Row
    BY <1>0 DEF Row, EventStatus
  <2> QED
    BY <1>5, <2>1, BeginType DEF RejectEvent, Operations
<1>6. CASE CancelEvent(t)
  <2>1. [event EXCEPT !.status = "cancelado"] \in Row
    BY <1>0 DEF Row, EventStatus
  <2> QED
    BY <1>6, <2>1, BeginType DEF CancelEvent, Operations
<1>7. CASE Refuse(t)
  BY <1>7 DEF Refuse, TypeOK, Request
<1> QED
  BY <1>1, <1>2, <1>3, <1>4, <1>5, <1>6, <1>7 DEF Start

(* The steps of an open request keep the types.                            *)
LEMMA StepType == ASSUME TypeOK, NEW t \in Requests, Step(t) \/ Abort(t) PROVE TypeOK'
<1>0. /\ View(t) \in Row
      /\ tx[t] \in Request
      /\ tx[t].entity \in Row /\ tx[t].loaded \in Row
  BY ViewType DEF TypeOK, Request
<1>1. CASE SetEmbedding(t)
  <2> DEFINE w == [View(t) EXCEPT !.embedding = tx[t].entity.text]
             s == [tx[t] EXCEPT !.pc = "reload", !.written = w]
  <2>1. w \in Row
    BY <1>0 DEF Row
  <2>2. tx' = [tx EXCEPT ![t] = s] /\ lock' = t /\ UNCHANGED <<event, unembedded>>
    BY <1>1 DEF SetEmbedding
  <2> HIDE DEF w
  <2>3. s \in Request
    BY <1>0, <2>1 DEF Request
  <2> HIDE DEF s
  <2> QED
    BY <2>2, <2>3 DEF TypeOK
<1>2. CASE EmbeddingFails(t)
  BY <1>2 DEF EmbeddingFails, TypeOK, Request
<1>3. CASE Reload(t)
  BY <1>3, <1>0 DEF Reload, TypeOK, Request
<1>4. CASE Flush(t)
  <2>1. Updated(View(t), tx[t].entity, tx[t].loaded) \in Row
    BY <1>0, UpdatedType
  <2> QED
    BY <1>4, <2>1 DEF Flush, TypeOK, Request
<1>5. CASE Commit(t)
  BY <1>5, <1>0, EndType DEF Commit, TypeOK
<1>6. CASE Abort(t)
  BY <1>6, EndType DEF Abort, TypeOK
<1> QED
  BY <1>1, <1>2, <1>3, <1>4, <1>5, <1>6 DEF Step

(* Every reachable state is well typed.                                    *)
THEOREM TypeCorrect == Spec => []TypeOK
<1>1. Init => TypeOK
  BY IdleType DEF Init, TypeOK
<1>2. TypeOK /\ [Next]_vars => TypeOK'
  <2>1. ASSUME TypeOK, UNCHANGED vars PROVE TypeOK'
    BY <2>1 DEF TypeOK, vars
  <2> QED
    BY <2>1, StartType, StepType DEF Next
<1> QED
  BY <1>1, <1>2, PTL DEF Spec

-----------------------------------------------------------------------------
(* One writer, who writes what he decided *)

IInv == TypeOK /\ OneWriter /\ WritesWhatItDecided

(* The table leads from statuses to statuses, and never out of "absent".   *)
LEMMA TransitionsType ==
    ASSUME NEW s \in EventStatus \cup {"absent"}
    PROVE  /\ Transitions[s] \subseteq EventStatus
           /\ "absent" \notin Transitions[s]
           /\ Transitions["absent"] = {}
  BY DEF Transitions, EventStatus

(* A request that opens with a decision of the table, or with a PATCH.     *)
LEMMA BeginDecided ==
    ASSUME IInv, NEW t \in Requests, NEW op \in Operations \ {"create"},
           NEW entity \in Row, NEW pc \in {"embed", "reload"},
           Begin(t, op, entity, pc),
           \/ entity.status \in Transitions[event.status]
           \/ op = "update" /\ entity.status = event.status
    PROVE  (OneWriter /\ WritesWhatItDecided)'
<1>1. /\ tx' = [tx EXCEPT ![t] = [Idle EXCEPT !.op = op, !.pc = pc,
                                              !.before = event, !.entity = entity]]
      /\ UNCHANGED <<event, lock, unembedded>>
      /\ tx[t].pc = "idle" /\ event # Absent
  BY DEF Begin, MayStart
<1>2. /\ tx'[t].op = op /\ tx'[t].pc = pc /\ tx'[t].before = event
      /\ tx'[t].entity = entity /\ tx'[t].written = Absent
  BY <1>1 DEF IInv, TypeOK, Idle
<1>3. \A u \in Requests \ {t} : tx'[u] = tx[u] /\ Open(u)' = Open(u)
  BY <1>1 DEF IInv, TypeOK, Open
<1>4. ~ Open(t) /\ event.status # "absent"
  BY <1>1 DEF Open, IInv, WritesWhatItDecided
<1>5. OneWriter'
  BY <1>1, <1>2, <1>3, <1>4 DEF IInv, OneWriter, TypeOK
<1>6. ASSUME NEW u \in Requests PROVE (Creation(u) /\ Decided(u) /\ Pending(u))'
  <2>1. CASE u = t
    BY <2>1, <1>1, <1>2, <1>4 DEF Creation, Decided, Pending
  <2>2. CASE u # t
    <3>1. Creation(u) /\ Decided(u) /\ Pending(u)
      BY DEF IInv, WritesWhatItDecided
    <3> QED
      BY <3>1, <2>2, <1>1, <1>3 DEF Creation, Decided, Pending
  <2> QED
    BY <2>1, <2>2
<1>7. \A u, v \in Requests : tx'[u].op = "create" /\ tx'[v].op = "create" => u = v
  BY <1>2, <1>3 DEF IInv, WritesWhatItDecided
<1> QED
  BY <1>1, <1>5, <1>6, <1>7 DEF IInv, WritesWhatItDecided

(* Every request that starts decides by the table.                         *)
LEMMA StartDecided ==
    ASSUME IInv, NEW t \in Requests, Start(t)
    PROVE  (OneWriter /\ WritesWhatItDecided)'
<1>0. event \in Row /\ TypeOK
  BY DEF IInv, TypeOK
<1>1. CASE CreateEvent(t)
  <2>1. PICK text \in Texts :
          tx' = [tx EXCEPT ![t] = [Idle EXCEPT !.op = "create", !.pc = "commit",
                                          !.written = Draft(text)]]
    BY <1>1 DEF CreateEvent
  <2>2. /\ UNCHANGED <<event, lock, unembedded>>
        /\ tx[t].pc = "idle" /\ event = Absent
        /\ \A u \in Requests : tx[u].op # "create"
    BY <1>1 DEF CreateEvent, MayStart
  <2>3. /\ tx'[t].op = "create" /\ tx'[t].pc = "commit"
        /\ tx'[t].written.status = "borrador"
    BY <2>1 DEF IInv, TypeOK, Idle, Draft, Absent
  <2>4. \A u \in Requests \ {t} : tx'[u] = tx[u] /\ Open(u)' = Open(u)
    BY <2>1 DEF IInv, TypeOK, Open
  <2>5. ~ Open(t) /\ event.status = "absent"
    BY <2>2 DEF Open, Absent
  <2>6. OneWriter'
    BY <2>2, <2>3, <2>4, <2>5 DEF IInv, OneWriter, TypeOK
  <2>7. ASSUME NEW u \in Requests PROVE (Creation(u) /\ Decided(u) /\ Pending(u))'
    <3>1. CASE u = t
      BY <3>1, <2>2, <2>3, <2>5 DEF Creation, Decided, Pending
    <3>2. CASE u # t
      <4>1. Creation(u) /\ Decided(u) /\ Pending(u)
        BY DEF IInv, WritesWhatItDecided
      <4> QED
        BY <4>1, <3>2, <2>2, <2>4 DEF Creation, Decided, Pending
    <3> QED
      BY <3>1, <3>2
  <2>8. \A u, v \in Requests : tx'[u].op = "create" /\ tx'[v].op = "create" => u = v
    BY <2>2, <2>4
  <2> QED
    BY <2>2, <2>6, <2>7, <2>8 DEF IInv, WritesWhatItDecided
<1>2. CASE UpdateEvent(t)
  <2>1. PICK text \in Texts : Begin(t, "update", [event EXCEPT !.text = text], "reload")
    BY <1>2 DEF UpdateEvent
  <2>2. /\ [event EXCEPT !.text = text] \in Row
        /\ [event EXCEPT !.text = text].status = event.status
    BY <1>0 DEF Row
  <2> QED
    BY <2>1, <2>2, BeginDecided DEF Operations
<1>3. CASE SubmitForApproval(t)
  <2>1. /\ [event EXCEPT !.status = "pendiente"] \in Row
        /\ [event EXCEPT !.status = "pendiente"].status = "pendiente"
    BY <1>0 DEF Row, EventStatus
  <2> QED
    BY <1>3, <2>1, BeginDecided DEF SubmitForApproval, Operations
<1>4. CASE PublishEvent(t) \/ ApproveEvent(t)
  <2>1. Published(event, t) \in Row /\ Published(event, t).status = "publicado"
    BY <1>0 DEF Row, EventStatus, Published
  <2> QED
    BY <1>4, <2>1, BeginDecided DEF PublishEvent, ApproveEvent, Operations
<1>5. CASE RejectEvent(t)
  <2>1. /\ [event EXCEPT !.status = "borrador"] \in Row
        /\ [event EXCEPT !.status = "borrador"].status = "borrador"
    BY <1>0 DEF Row, EventStatus
  <2> QED
    BY <1>5, <2>1, BeginDecided DEF RejectEvent, Operations
<1>6. CASE CancelEvent(t)
  <2>1. /\ [event EXCEPT !.status = "cancelado"] \in Row
        /\ [event EXCEPT !.status = "cancelado"].status = "cancelado"
    BY <1>0 DEF Row, EventStatus
  <2> QED
    BY <1>6, <2>1, BeginDecided DEF CancelEvent, Operations
<1>7. CASE Refuse(t)
  <2>1. /\ tx' = [tx EXCEPT ![t].pc = "failed"] /\ UNCHANGED <<event, lock>>
        /\ tx[t].pc = "idle"
    BY <1>7 DEF Refuse, MayStart
  <2>2. /\ ~ Open(t) /\ ~ Open(t)'
        /\ \A u \in Requests \ {t} : tx'[u] = tx[u] /\ Open(u)' = Open(u)
    BY <2>1 DEF Open, IInv, TypeOK
  <2>3. OneWriter'
    BY <2>1, <2>2 DEF IInv, OneWriter, TypeOK
  <2>4. ASSUME NEW u \in Requests PROVE (Creation(u) /\ Decided(u) /\ Pending(u))'
    <3>1. Creation(u) /\ Decided(u) /\ Pending(u)
      BY DEF IInv, WritesWhatItDecided
    <3> QED
      BY <3>1, <2>1, <2>2 DEF Creation, Decided, Pending
  <2>5. \A u \in Requests : tx'[u].op = tx[u].op
    BY <2>1 DEF IInv, TypeOK, Request
  <2> QED
    BY <2>1, <2>3, <2>4, <2>5 DEF IInv, WritesWhatItDecided
<1> QED
  BY <1>1, <1>2, <1>3, <1>4, <1>5, <1>6, <1>7 DEF Start

(* A step before the commit changes nothing but what t has in hand.        *)
LEMMA WorkDecided ==
    ASSUME IInv, NEW t \in Requests,
           SetEmbedding(t) \/ EmbeddingFails(t) \/ Reload(t) \/ Flush(t)
    PROVE  (OneWriter /\ WritesWhatItDecided)'
<1> DEFINE old == tx[t]
           new == tx'[t]
<1>0. old \in Request /\ event \in Row /\ old.entity \in Row /\ View(t) \in Row
  BY ViewType DEF IInv, TypeOK, Request
<1>1. Open(t) /\ Creation(t) /\ Decided(t) /\ Pending(t) /\ old.pc # "commit"
  BY DEF SetEmbedding, EmbeddingFails, Reload, Flush, Open, IInv, WritesWhatItDecided
<1>2. /\ old.op # "create" /\ event.status # "absent" /\ old.before \in Row
      /\ old.entity.status # "absent"
  BY <1>0, <1>1, TransitionsType DEF Creation, Decided, Row, Request
<1>3. /\ event' = event
      /\ Open(t)'
      /\ new.op = old.op /\ new.before = old.before /\ new.entity = old.entity
      /\ \A u \in Requests \ {t} : tx'[u] = tx[u] /\ Open(u)' = Open(u)
  BY <1>0 DEF SetEmbedding, EmbeddingFails, Reload, Flush, Open, IInv, TypeOK, Request
<1>4. View(t).status \in {event.status, old.entity.status} \ {"absent"}
  BY <1>1, <1>2 DEF View, Pending
<1>5. \/ lock' = lock /\ new.written = old.written
      \/ /\ CanWrite(t) /\ lock' = t
         /\ new.written.status \in {event.status, old.entity.status} \ {"absent"}
  <2>1. CASE SetEmbedding(t)
    <3>1. [View(t) EXCEPT !.embedding = tx[t].entity.text].status = View(t).status
      BY <1>0 DEF Row
    <3> QED
      BY <2>1, <3>1, <1>0, <1>4 DEF SetEmbedding, IInv, TypeOK, Request
  <2>2. CASE EmbeddingFails(t) \/ Reload(t)
    BY <2>2, <1>0 DEF EmbeddingFails, Reload, IInv, TypeOK, Request
  <2>3. CASE Flush(t)
    <3>1. Updated(View(t), old.entity, old.loaded).status
            \in {View(t).status, old.entity.status}
      BY DEF Updated, Column
    <3> QED
      BY <2>3, <3>1, <1>0, <1>2, <1>4 DEF Flush, IInv, TypeOK, Request
  <2> QED
    BY <2>1, <2>2, <2>3
<1>6. Absent.status = "absent"
  BY DEF Absent
<1>7. OneWriter'
  BY <1>1, <1>3, <1>5, <1>6, <1>2 DEF IInv, OneWriter, TypeOK, CanWrite
<1>8. ASSUME NEW u \in Requests PROVE (Creation(u) /\ Decided(u) /\ Pending(u))'
  <2>1. CASE u = t
    BY <2>1, <1>1, <1>2, <1>3, <1>5 DEF Creation, Decided, Pending
  <2>2. CASE u # t
    <3>1. Creation(u) /\ Decided(u) /\ Pending(u)
      BY DEF IInv, WritesWhatItDecided
    <3> QED
      BY <3>1, <2>2, <1>3 DEF Creation, Decided, Pending
  <2> QED
    BY <2>1, <2>2
<1>9. \A u \in Requests : tx'[u].op = tx[u].op
  BY <1>3
<1> QED
  BY <1>3, <1>7, <1>8, <1>9 DEF IInv, WritesWhatItDecided

(* The commit installs a status that is not "absent"; nobody else can have *)
(* an uncommitted row that the new one would contradict.                   *)
LEMMA EndDecided ==
    ASSUME IInv, NEW t \in Requests, Commit(t) \/ Abort(t)
    PROVE  (OneWriter /\ WritesWhatItDecided)'
<1>1. /\ Open(t) /\ ~ Open(t)'
      /\ \A u \in Requests \ {t} : tx'[u] = tx[u] /\ Open(u)' = Open(u)
      /\ lock' = IF lock = t THEN NoRequest ELSE lock
      /\ tx'[t].op = "none"
  <2>1. PICK pc \in {"done", "failed"} : End(t, pc)
    BY DEF Commit, Abort
  <2>2. tx' = [tx EXCEPT ![t] = [Idle EXCEPT !.pc = pc]] /\ tx'[t].pc = pc
    BY <2>1 DEF End, Idle, IInv, TypeOK
  <2>3. Open(t)
    BY DEF Commit, Abort, Open
  <2> QED
    BY <2>1, <2>2, <2>3 DEF End, Open, Idle, IInv, TypeOK
<1>2. Creation(t) /\ Decided(t) /\ Pending(t)
  BY DEF IInv, WritesWhatItDecided
<1>3. \/ event' = event
      \/ /\ tx[t].written # Absent /\ event' = tx[t].written
         /\ event'.status # "absent"
         /\ tx[t].op # "create" => lock = t
  BY <1>1, <1>2 DEF Commit, Abort, View, Creation, Pending, IInv, OneWriter
<1>4. Absent.status = "absent"
  BY DEF Absent
<1>5. OneWriter'
  BY <1>1 DEF IInv, OneWriter, TypeOK
<1>6. ASSUME NEW u \in Requests PROVE (Creation(u) /\ Decided(u) /\ Pending(u))'
  <2>0. Creation(u) /\ Decided(u) /\ Pending(u)
    BY DEF IInv, WritesWhatItDecided
  <2>1. CASE u = t
    BY <2>1, <1>1 DEF Creation, Decided, Pending
  <2>2. CASE u # t /\ event' = event
    BY <2>0, <2>2, <1>1 DEF Creation, Decided, Pending
  <2>3. CASE u # t /\ event' # event /\ tx[t].op = "create"
    <3>1. event.status = "absent"
      BY <1>1, <1>2, <2>3 DEF Creation
    <3>2. ~ Open(u)
      BY <3>1, <2>0, <2>3 DEF Decided, IInv, WritesWhatItDecided
    <3> QED
      BY <3>2, <2>3, <1>1 DEF Creation, Decided, Pending
  <2>4. CASE u # t /\ event' # event /\ tx[t].op # "create"
    <3>1. lock = t /\ event.status # "absent"
      BY <1>1, <1>2, <1>3, <2>4 DEF Decided
    <3>2. Open(u) => tx[u].op # "create" /\ tx[u].written = Absent
      BY <3>1, <2>0, <2>4 DEF Creation, IInv, OneWriter
    <3> QED
      BY <3>2, <2>0, <2>4, <1>1, <1>3 DEF Creation, Decided, Pending
  <2> QED
    BY <2>1, <2>2, <2>3, <2>4
<1>7. \A u, v \in Requests : tx'[u].op = "create" /\ tx'[v].op = "create" => u = v
  BY <1>1 DEF IInv, WritesWhatItDecided
<1> QED
  BY <1>3, <1>4, <1>5, <1>6, <1>7 DEF IInv, WritesWhatItDecided

(* The invariant of every reachable state.                                 *)
LEMMA Invariant == Spec => []IInv
<1>1. Init => IInv
  <2>1. Init => OneWriter /\ WritesWhatItDecided
    BY DEF Init, OneWriter, WritesWhatItDecided, Creation, Decided, Pending, Open, Idle
  <2> QED
    BY <2>1, IdleType DEF Init, TypeOK, IInv
<1>2. IInv /\ [Next]_vars => IInv'
  <2>1. ASSUME IInv, UNCHANGED vars PROVE IInv'
    <3>1. /\ TypeOK' /\ OneWriter'
      BY <2>1 DEF IInv, TypeOK, OneWriter, Open, vars
    <3>2. WritesWhatItDecided'
      BY <2>1 DEF IInv, WritesWhatItDecided, Creation, Decided, Pending, Open, vars
    <3> QED
      BY <3>1, <3>2 DEF IInv
  <2>2. ASSUME IInv, NEW t \in Requests, Start(t) \/ Step(t) \/ Abort(t) PROVE IInv'
    BY <2>2, StartType, StepType, StartDecided, WorkDecided, EndDecided DEF IInv, Step
  <2> QED
    BY <2>1, <2>2 DEF Next
<1> QED
  BY <1>1, <1>2, PTL DEF Spec

(* An uncommitted change of the event is its writer's alone, and a request *)
(* that has ended, however it ended, keeps no row locked.                  *)
THEOREM WriterIsAlone == Spec => []OneWriter
  BY Invariant, PTL DEF IInv

(* What an open request is about to store never mixes the statuses of two  *)
(* writers.                                                                *)
THEOREM WritesDecisions == Spec => []WritesWhatItDecided
  BY Invariant, PTL DEF IInv

(* The status of an event only moves to a successor of the status that the *)
(* writer read, or back to it when a PATCH rewrites it.                    *)
THEOREM StatusWasRead == Spec => StatusFromWhatWasRead
<1>1. ASSUME IInv, NEW t \in Requests, Commit(t), event'.status # event.status
      PROVE  \/ tx[t].op = "create"
             \/ event'.status \in Transitions[tx[t].before.status]
             \/ tx[t].op = "update" /\ event'.status = tx[t].before.status
  <2>1. Open(t) /\ Decided(t) /\ Pending(t)
    BY <1>1 DEF Commit, Open, IInv, WritesWhatItDecided
  <2>2. tx[t].written # Absent /\ event' = tx[t].written
    BY <1>1 DEF Commit, View
  <2> QED
    BY <1>1, <2>1, <2>2 DEF Decided, Pending
<1>2. IInv /\ [Next]_vars =>
        [\A t \in Requests :
            Commit(t) /\ event'.status # event.status =>
                \/ tx[t].op = "create"
                \/ event'.status \in Transitions[tx[t].before.status]
                \/ tx[t].op = "update" /\ event'.status = tx[t].before.status]_vars
  BY <1>1
<1> QED
  BY <1>2, Invariant, PTL DEF Spec, StatusFromWhatWasRead

-----------------------------------------------------------------------------
(* Published with an embedding *)

(* What excuses or makes needless the embedding of a published event; once *)
(* true it stays true.                                                     *)
Vouched == event.embedding # NoText \/ \E u \in unembedded : tx[u].pc = "done"

(* An uncommitted row has a text, and an embedding if the event has one.   *)
Carries(t) ==
    Open(t) /\ tx[t].written # Absent =>
        /\ tx[t].written.text # NoText
        /\ tx[t].op # "create" /\ tx[t].written.embedding = NoText
            => event.embedding = NoText

(* Who publishes has tried to embed; who finds the event published         *)
(* publishes nothing.                                                      *)
Announces(t) ==
    Open(t) /\ tx[t].op # "create" =>
        /\ tx[t].entity.text # NoText
        /\ tx[t].op \notin {"publish", "approve"} /\ tx[t].entity.status = "publicado"
            => Vouched
        /\ tx[t].op \in {"publish", "approve"} /\ tx[t].pc # "embed"
            => t \in unembedded \/ tx[t].written.embedding # NoText

Embedded ==
    /\ EmbeddedUnlessFailed
    /\ event # Absent => event.text # NoText
    /\ \A t \in Requests : Carries(t) /\ Announces(t)

(* Unless the event changes, a request that does nothing keeps its part.   *)
LEMMA EmbeddedFrame ==
    ASSUME IInv, Embedded, UNCHANGED event, unembedded \subseteq unembedded',
           \A u \in unembedded : tx[u].pc = "done" => tx'[u].pc = "done"
    PROVE  /\ EmbeddedUnlessFailed' /\ (event # Absent => event.text # NoText)'
           /\ Vouched => Vouched'
           /\ \A u \in Requests : tx'[u] = tx[u] => (Carries(u) /\ Announces(u))'
<1>1. Vouched => Vouched'
  BY DEF Vouched
<1>2. EmbeddedUnlessFailed'
  BY DEF Embedded, EmbeddedUnlessFailed
<1>3. ASSUME NEW u \in Requests, tx'[u] = tx[u] PROVE (Carries(u) /\ Announces(u))'
  <2>1. Carries(u) /\ Announces(u) /\ Open(u)' = Open(u)
    BY <1>3 DEF Embedded, Open
  <2> QED
    BY <1>1, <1>3, <2>1 DEF Carries, Announces
<1> QED
  BY <1>1, <1>2, <1>3 DEF Embedded

(* A request that opens: what it read is published only if vouched for.    *)
LEMMA BeginEmbedded ==
    ASSUME IInv, Embedded, NEW t \in Requests, NEW op \in Operations \ {"create"},
           NEW entity \in Row, NEW pc \in {"embed", "reload"},
           Begin(t, op, entity, pc),
           entity.text # NoText,
           IF op \in {"publish", "approve"} THEN pc = "embed"
           ELSE entity.status = "publicado" => event.status = "publicado"
    PROVE  Embedded'
<1>1. /\ tx' = [tx EXCEPT ![t] = [Idle EXCEPT !.op = op, !.pc = pc,
                                              !.before = event, !.entity = entity]]
      /\ UNCHANGED <<event, lock, unembedded>>
      /\ tx[t].pc = "idle"
  BY DEF Begin, MayStart
<1>2. /\ tx'[t].op = op /\ tx'[t].pc = pc /\ tx'[t].written = Absent
      /\ tx'[t].entity = entity
  BY <1>1 DEF IInv, TypeOK, Idle
<1>3. \A u \in Requests \ {t} : tx'[u] = tx[u]
  BY <1>1 DEF IInv, TypeOK
<1>4. \A u \in unembedded : tx[u].pc = "done" => tx'[u].pc = "done"
  BY <1>1, <1>3 DEF IInv, TypeOK
<1>5. Carries(t)'
  BY <1>2 DEF Carries
<1>6. event.status = "publicado" => Vouched
  BY DEF Embedded, EmbeddedUnlessFailed, Vouched
<1>7. Announces(t)'
  BY <1>1, <1>2, <1>4, <1>6, EmbeddedFrame DEF Announces
<1> QED
  BY <1>1, <1>3, <1>4, <1>5, <1>7, EmbeddedFrame DEF Embedded

(* The requests that start.                                                *)
LEMMA StartEmbedded ==
    ASSUME IInv, Embedded, NEW t \in Requests, Start(t) PROVE Embedded'
<1>0. event \in Row /\ (event # Absent => event.text # NoText)
  BY DEF IInv, TypeOK, Embedded
<1>1. CASE CreateEvent(t)
  <2>1. PICK text \in Texts :
          tx' = [tx EXCEPT ![t] = [Idle EXCEPT !.op = "create", !.pc = "commit",
                                          !.written = Draft(text)]]
    BY <1>1 DEF CreateEvent
  <2>2. UNCHANGED <<event, lock, unembedded>> /\ tx[t].pc = "idle"
    BY <1>1 DEF CreateEvent, MayStart
  <2>3. tx'[t].op = "create" /\ tx'[t].written.text # NoText
    BY <2>1 DEF IInv, TypeOK, Idle, Draft, Absent
  <2>4. \A u \in Requests \ {t} : tx'[u] = tx[u]
    BY <2>1 DEF IInv, TypeOK
  <2>5. \A u \in unembedded : tx[u].pc = "done" => tx'[u].pc = "done"
    BY <2>2, <2>4 DEF IInv, TypeOK
  <2>6. Carries(t)' /\ Announces(t)'
    BY <2>3 DEF Carries, Announces
  <2> QED
    BY <2>2, <2>4, <2>5, <2>6, EmbeddedFrame DEF Embedded
<1>2. CASE UpdateEvent(t)
  <2>1. PICK text \in Texts : Begin(t, "update", [event EXCEPT !.text = text], "reload")
    BY <1>2 DEF UpdateEvent
  <2>2. /\ [event EXCEPT !.text = text] \in Row
        /\ [event EXCEPT !.text = text].status = event.status
        /\ [event EXCEPT !.text = text].text # NoText
    BY <1>0 DEF Row
  <2> QED
    BY <2>1, <2>2, BeginEmbedded DEF Operations
<1>3. CASE SubmitForApproval(t)
  <2>1. /\ [event EXCEPT !.status = "pendiente"] \in Row
        /\ [event EXCEPT !.status = "pendiente"].status = "pendiente"
        /\ [event EXCEPT !.status = "pendiente"].text # NoText
    BY <1>0, <1>3 DEF Row, EventStatus, SubmitForApproval, Begin
  <2> QED
    BY <1>3, <2>1, BeginEmbedded DEF SubmitForApproval, Operations
<1>4. CASE PublishEvent(t) \/ ApproveEvent(t)
  <2>1. Published(event, t) \in Row /\ Published(event, t).text # NoText
    BY <1>0, <1>4
    DEF Row, EventStatus, Published, PublishEvent, ApproveEvent, Begin
  <2> QED
    BY <1>4, <2>1, BeginEmbedded DEF PublishEvent, ApproveEvent, Operations
<1>5. CASE RejectEvent(t)
  <2>1. /\ [event EXCEPT !.status = "borrador"] \in Row
        /\ [event EXCEPT !.status = "borrador"].status = "borrador"
        /\ [event EXCEPT !.status = "borrador"].text # NoText
    BY <1>0, <1>5 DEF Row, EventStatus, RejectEvent, Begin
  <2> QED
    BY <1>5, <2>1, BeginEmbedded DEF RejectEvent, Operations
<1>6. CASE CancelEvent(t)
  <2>1. /\ [event EXCEPT !.status = "cancelado"] \in Row
        /\ [event EXCEPT !.status = "cancelado"].status = "cancelado"
        /\ [event EXCEPT !.status = "cancelado"].text # NoText
    BY <1>0, <1>6 DEF Row, EventStatus, CancelEvent, Begin
  <2> QED
    BY <1>6, <2>1, BeginEmbedded DEF CancelEvent, Operations
<1>7. CASE Refuse(t)
  <2>1. /\ tx' = [tx EXCEPT ![t].pc = "failed"] /\ UNCHANGED <<event, unembedded>>
        /\ tx[t].pc = "idle"
    BY <1>7 DEF Refuse, MayStart
  <2>2. ~ Open(t)' /\ \A u \in Requests \ {t} : tx'[u] = tx[u]
    BY <2>1 DEF Open, IInv, TypeOK
  <2>3. \A u \in unembedded : tx[u].pc = "done" => tx'[u].pc = "done"
    BY <2>1, <2>2 DEF IInv, TypeOK
  <2>4. Carries(t)' /\ Announces(t)'
    BY <2>2 DEF Carries, Announces
  <2> QED
    BY <2>1, <2>2, <2>3, <2>4, EmbeddedFrame DEF Embedded
<1> QED
  BY <1>1, <1>2, <1>3, <1>4, <1>5, <1>6, <1>7 DEF Start

(* The steps of an open request: the embedding set is never taken back.    *)
LEMMA WorkEmbedded ==
    ASSUME IInv, Embedded, NEW t \in Requests,
           SetEmbedding(t) \/ EmbeddingFails(t) \/ Reload(t) \/ Flush(t)
    PROVE  Embedded'
<1> DEFINE old == tx[t]
           new == tx'[t]
<1>0. old \in Request /\ old.entity \in Row /\ View(t) \in Row
  BY ViewType DEF IInv, TypeOK, Request
<1>1. Open(t) /\ Carries(t) /\ Announces(t) /\ old.pc \notin {"commit", "done"}
  BY DEF SetEmbedding, EmbeddingFails, Reload, Flush, Open, Embedded
<1>2. old.op # "create" /\ event # Absent
  <2>1. Creation(t) /\ Decided(t)
    BY DEF IInv, WritesWhatItDecided
  <2> QED
    BY <1>1, <2>1 DEF Creation, Decided, Absent
<1>3. /\ event' = event /\ unembedded \subseteq unembedded'
      /\ new.op = old.op /\ new.entity = old.entity
      /\ \A u \in Requests \ {t} : tx'[u] = tx[u]
  BY <1>0 DEF SetEmbedding, EmbeddingFails, Reload, Flush, IInv, TypeOK, Request
<1>4. \A u \in unembedded : tx[u].pc = "done" => tx'[u].pc = "done"
  BY <1>1, <1>3 DEF IInv, TypeOK
<1>5. /\ View(t).text # NoText
      /\ View(t).embedding = NoText => event.embedding = NoText
      /\ View(t).embedding = NoText => old.written.embedding = NoText
  <2>1. Absent.embedding = NoText
    BY DEF Absent
  <2> QED
    BY <1>1, <1>2, <2>1 DEF View, Carries, Embedded
<1>6. /\ new.written.text # NoText \/ new.written = Absent
      /\ new.written # Absent /\ new.written.embedding = NoText
          => event.embedding = NoText
      /\ new.op \in {"publish", "approve"}
          => t \in unembedded' \/ new.written.embedding # NoText
  <2>1. CASE SetEmbedding(t)
    <3> DEFINE w == [View(t) EXCEPT !.embedding = old.entity.text]
    <3>1. w.text # NoText /\ w.embedding # NoText
      BY <1>0, <1>1, <1>2, <1>5 DEF Row, Announces
    <3>2. new.written = w
      BY <1>0, <2>1 DEF SetEmbedding, IInv, TypeOK, Request
    <3> QED
      BY <3>1, <3>2
  <2>2. CASE EmbeddingFails(t)
    <3>1. t \in unembedded' /\ new.written = old.written
      BY <1>0, <2>2 DEF EmbeddingFails, IInv, TypeOK, Request
    <3> QED
      BY <3>1, <1>1, <1>2 DEF Carries
  <2>3. CASE Reload(t)
    <3>1. new.written = old.written /\ old.pc = "reload"
      BY <1>0, <2>3 DEF Reload, IInv, TypeOK, Request
    <3> QED
      BY <3>1, <1>1, <1>2, <1>3 DEF Carries, Announces
  <2>4. CASE Flush(t)
    <3> DEFINE w == Updated(View(t), old.entity, old.loaded)
    <3>1. w.text # NoText /\ w.embedding = View(t).embedding
      BY <1>1, <1>2, <1>5 DEF Updated, Column, Announces
    <3>2. new.written \in {old.written, w} /\ old.pc = "flush"
      BY <1>0, <2>4 DEF Flush, IInv, TypeOK, Request
    <3> HIDE DEF w
    <3> QED
      BY <3>1, <3>2, <1>1, <1>2, <1>3, <1>5 DEF Carries, Announces
  <2> QED
    BY <2>1, <2>2, <2>3, <2>4
<1>7. Carries(t)'
  BY <1>3, <1>6 DEF Carries
<1>8. Announces(t)'
  BY <1>1, <1>2, <1>3, <1>4, <1>6, EmbeddedFrame DEF Announces
<1> QED
  BY <1>3, <1>4, <1>7, <1>8, EmbeddedFrame DEF Embedded

(* The commit: nobody else has an uncommitted row that lacks the embedding *)
(* the new one has.                                                        *)
LEMMA CommitEmbedded ==
    ASSUME IInv, Embedded, NEW t \in Requests, Commit(t) PROVE Embedded'
<1>1. /\ tx[t].pc = "commit" /\ Open(t) /\ event' = View(t)
      /\ Carries(t) /\ Announces(t) /\ Creation(t) /\ Decided(t) /\ Pending(t)
      /\ UNCHANGED unembedded
  BY DEF Commit, End, Open, IInv, WritesWhatItDecided, Embedded
<1>2. /\ tx'[t].pc = "done" /\ ~ Open(t)'
      /\ \A u \in Requests \ {t} : tx'[u] = tx[u] /\ Open(u)' = Open(u)
  BY DEF Commit, End, Idle, Open, IInv, TypeOK
<1>3. \A u \in unembedded : tx[u].pc = "done" => tx'[u].pc = "done"
  BY <1>2 DEF IInv, TypeOK
<1>4. Carries(t)' /\ Announces(t)'
  BY <1>2 DEF Carries, Announces
<1>5. CASE event' = event
  BY <1>1, <1>2, <1>3, <1>4, <1>5, EmbeddedFrame DEF Embedded
<1>6. CASE event' # event
  <2>1. /\ tx[t].written # Absent /\ event' = tx[t].written
        /\ event'.text # NoText
    BY <1>1, <1>6 DEF View, Carries
  <2>2. Absent.embedding = NoText /\ Absent.status = "absent"
    BY DEF Absent
  <2>3. event'.embedding = NoText => event.embedding = NoText
    BY <1>1, <2>1, <2>2 DEF Carries, Creation, IInv, WritesWhatItDecided
  <2>4. Vouched => Vouched'
    BY <1>1, <1>3, <2>3 DEF Vouched
  <2>5. event'.status = "publicado" => Vouched'
    <3>1. CASE tx[t].op = "create"
      BY <3>1, <1>1, <2>1 DEF Creation
    <3>2. CASE tx[t].op # "create" /\ event.status = "publicado"
      BY <3>2, <2>4 DEF Embedded, EmbeddedUnlessFailed, Vouched
    <3>3. CASE /\ tx[t].op \notin {"create", "publish", "approve"}
               /\ event.status # "publicado"
      BY <3>3, <1>1, <2>1, <2>4 DEF Pending, Announces
    <3>4. CASE tx[t].op \in {"publish", "approve"}
      BY <3>4, <1>1, <1>2, <2>1 DEF Announces, Vouched
    <3> QED
      BY <3>1, <3>2, <3>3, <3>4
  <2>6. EmbeddedUnlessFailed'
    BY <2>5 DEF EmbeddedUnlessFailed, Vouched
  <2>7. ASSUME NEW u \in Requests, u # t PROVE (Carries(u) /\ Announces(u))'
    <3>1. Carries(u) /\ Announces(u) /\ Creation(u) /\ Decided(u)
      BY DEF IInv, WritesWhatItDecided, Embedded
    <3>2. Open(u) /\ tx[u].op # "create" => tx[u].written = Absent
      <4>1. tx[t].op = "create" => event.status = "absent"
        BY <1>1 DEF Creation
      <4>2. tx[t].op # "create" => lock = t
        BY <1>1, <2>1 DEF IInv, OneWriter
      <4> QED
        BY <2>7, <3>1, <4>1, <4>2 DEF Decided, IInv, OneWriter
    <3> QED
      BY <1>1, <1>2, <2>4, <2>7, <3>1, <3>2 DEF Carries, Announces
  <2> QED
    BY <1>4, <2>1, <2>6, <2>7 DEF Embedded
<1> QED
  BY <1>5, <1>6

(* RF-30: an event is published without an embedding only if the adapter   *)
(* failed for a request that succeeded; no stale PATCH, cancellation or    *)
(* second publication of concurrent requests loses one.                    *)
THEOREM PublishedWithEmbedding == Spec => []EmbeddedUnlessFailed
<1>1. Init => Embedded
  BY DEF Init, Embedded, EmbeddedUnlessFailed, Carries, Announces, Open, Idle, Absent
<1>2. IInv /\ Embedded /\ [Next]_vars => Embedded'
  <2>1. ASSUME IInv, Embedded, UNCHANGED vars PROVE Embedded'
    BY <2>1, EmbeddedFrame DEF vars, Embedded
  <2>2. ASSUME IInv, Embedded, NEW t \in Requests, Abort(t) PROVE Embedded'
    <3>1. UNCHANGED <<event, unembedded>> /\ tx[t].pc # "done"
      BY <2>2 DEF Abort, End, Open
    <3>2. ~ Open(t)' /\ \A u \in Requests \ {t} : tx'[u] = tx[u]
      BY <2>2 DEF Abort, End, Idle, Open, IInv, TypeOK
    <3>3. \A u \in unembedded : tx[u].pc = "done" => tx'[u].pc = "done"
      BY <2>2, <3>1, <3>2 DEF IInv, TypeOK
    <3>4. Carries(t)' /\ Announces(t)'
      BY <3>2 DEF Carries, Announces
    <3> QED
      BY <2>2, <3>1, <3>2, <3>3, <3>4, EmbeddedFrame DEF Embedded
  <2>3. ASSUME IInv, Embedded, NEW t \in Requests, Start(t) \/ Step(t) PROVE Embedded'
    BY <2>3, StartEmbedded, WorkEmbedded, CommitEmbedded DEF Step
  <2> QED
    BY <2>1, <2>2, <2>3 DEF Next
<1>3. Embedded => EmbeddedUnlessFailed
  BY DEF Embedded
<1> QED
  BY <1>1, <1>2, <1>3, Invariant, PTL DEF Spec

-----------------------------------------------------------------------------
(* One request at a time *)

(* A decision moves the row as a transition of the table does, or keeps it.*)
Moved(t, row, entity) ==
    \/ entity.status = row.status /\ entity.publishedAt = row.publishedAt
    \/ /\ entity.status \in Transitions[row.status]
       /\ entity.publishedAt = IF entity.status = "publicado" THEN t ELSE row.publishedAt

Same(a, b) == a.status = b.status /\ a.publishedAt = b.publishedAt

(* While one request is served the event stays what that request read.     *)
Alone(t) ==
    Open(t) =>
        /\ tx[t].op = "create" =>
            /\ event = Absent /\ tx[t].pc = "commit"
            /\ tx[t].written.status = "borrador" /\ tx[t].written.publishedAt = NoRequest
        /\ tx[t].op # "create" =>
            /\ event.status # "absent"
            /\ Moved(t, event, tx[t].entity)
            /\ tx[t].pc = "flush" => Same(tx[t].loaded, event)
            /\ tx[t].written # Absent =>
                IF tx[t].pc = "commit" THEN Same(tx[t].written, tx[t].entity)
                ELSE Same(tx[t].written, event)

OneAtATime ==
    /\ \A t, u \in Requests : Open(t) /\ Open(u) => t = u
    /\ \A t \in Requests : Alone(t)
    /\ event # Absent => event.status # "absent"

(* A request that starts by a transition of the table, or a PATCH.         *)
LEMMA BeginAlone ==
    ASSUME Overlap = FALSE, TypeOK, OneAtATime, NEW t \in Requests,
           NEW op \in Operations \ {"create"}, NEW entity \in Row,
           NEW pc \in {"embed", "reload"}, Begin(t, op, entity, pc),
           Moved(t, event, entity)
    PROVE  OneAtATime' /\ UNCHANGED event
<1>1. /\ tx' = [tx EXCEPT ![t] = [Idle EXCEPT !.op = op, !.pc = pc,
                                              !.before = event, !.entity = entity]]
      /\ event' = event /\ event # Absent
      /\ \A u \in Requests : ~ Open(u)
  BY DEF Begin, MayStart
<1>2. /\ tx'[t].op = op /\ tx'[t].pc = pc /\ tx'[t].written = Absent
      /\ tx'[t].entity = entity
  BY <1>1 DEF TypeOK, Idle
<1>3. \A u \in Requests \ {t} : ~ Open(u)'
  BY <1>1 DEF TypeOK, Open
<1>4. Alone(t)'
  BY <1>1, <1>2 DEF Alone, Moved, OneAtATime
<1> QED
  BY <1>1, <1>3, <1>4 DEF OneAtATime, Alone

(* A request that starts leaves the event alone.                           *)
LEMMA StartAlone ==
    ASSUME Overlap = FALSE, TypeOK, OneAtATime, NEW t \in Requests, Start(t)
    PROVE  OneAtATime' /\ UNCHANGED event
<1>0. event \in Row
  BY DEF TypeOK
<1>1. CASE CreateEvent(t)
  <2>1. PICK text \in Texts :
          tx' = [tx EXCEPT ![t] = [Idle EXCEPT !.op = "create", !.pc = "commit",
                                          !.written = Draft(text)]]
    BY <1>1 DEF CreateEvent
  <2>2. event' = event /\ event = Absent /\ \A u \in Requests : ~ Open(u)
    BY <1>1 DEF CreateEvent, MayStart
  <2>3. /\ tx'[t].op = "create" /\ tx'[t].pc = "commit"
        /\ tx'[t].written.status = "borrador" /\ tx'[t].written.publishedAt = NoRequest
    BY <2>1 DEF TypeOK, Idle, Draft, Absent
  <2>4. \A u \in Requests \ {t} : ~ Open(u)'
    BY <2>1, <2>2 DEF TypeOK, Open
  <2> QED
    BY <2>2, <2>3, <2>4 DEF OneAtATime, Alone
<1>2. CASE UpdateEvent(t)
  <2>1. PICK text \in Texts : Begin(t, "update", [event EXCEPT !.text = text], "reload")
    BY <1>2 DEF UpdateEvent
  <2>2. /\ [event EXCEPT !.text = text] \in Row
        /\ Moved(t, event, [event EXCEPT !.text = text])
    BY <1>0 DEF Row, Moved
  <2> QED
    BY <2>1, <2>2, BeginAlone DEF Operations
<1>3. CASE SubmitForApproval(t)
  <2>1. /\ [event EXCEPT !.status = "pendiente"] \in Row
        /\ Moved(t, event, [event EXCEPT !.status = "pendiente"])
    BY <1>0, <1>3 DEF Row, EventStatus, Moved, SubmitForApproval
  <2> QED
    BY <1>3, <2>1, BeginAlone DEF SubmitForApproval, Operations
<1>4. CASE PublishEvent(t) \/ ApproveEvent(t)
  <2>1. Published(event, t) \in Row /\ Moved(t, event, Published(event, t))
    BY <1>0, <1>4 DEF Row, EventStatus, Published, Moved, PublishEvent, ApproveEvent
  <2> QED
    BY <1>4, <2>1, BeginAlone DEF PublishEvent, ApproveEvent, Operations
<1>5. CASE RejectEvent(t)
  <2>1. /\ [event EXCEPT !.status = "borrador"] \in Row
        /\ Moved(t, event, [event EXCEPT !.status = "borrador"])
    BY <1>0, <1>5 DEF Row, EventStatus, Moved, RejectEvent
  <2> QED
    BY <1>5, <2>1, BeginAlone DEF RejectEvent, Operations
<1>6. CASE CancelEvent(t)
  <2>1. /\ [event EXCEPT !.status = "cancelado"] \in Row
        /\ Moved(t, event, [event EXCEPT !.status = "cancelado"])
    BY <1>0, <1>6 DEF Row, EventStatus, Moved, CancelEvent
  <2> QED
    BY <1>6, <2>1, BeginAlone DEF CancelEvent, Operations
<1>7. CASE Refuse(t)
  <2>1. event' = event /\ \A u \in Requests : ~ Open(u)'
    BY <1>7 DEF Refuse, MayStart, TypeOK, Open
  <2> QED
    BY <2>1 DEF OneAtATime, Alone
<1> QED
  BY <1>1, <1>2, <1>3, <1>4, <1>5, <1>6, <1>7 DEF Start

(* A step before the commit leaves the event alone.                        *)
LEMMA WorkAlone ==
    ASSUME TypeOK, OneAtATime, NEW t \in Requests,
           SetEmbedding(t) \/ EmbeddingFails(t) \/ Reload(t) \/ Flush(t)
    PROVE  OneAtATime' /\ UNCHANGED event
<1> DEFINE old == tx[t]
           new == tx'[t]
<1>0. old \in Request /\ View(t) \in Row
  BY ViewType DEF TypeOK
<1>1. Open(t) /\ Alone(t) /\ old.pc # "commit"
  BY DEF SetEmbedding, EmbeddingFails, Reload, Flush, Open, OneAtATime
<1>2. old.op # "create" /\ event.status # "absent" /\ Moved(t, event, old.entity)
  BY <1>1 DEF Alone
<1>3. Same(View(t), event)
  BY <1>1, <1>2 DEF Alone, View, Same
<1>4. /\ event' = event
      /\ new.op = old.op /\ new.entity = old.entity
      /\ \A u \in Requests \ {t} : Open(u)' = Open(u)
  BY <1>0 DEF SetEmbedding, EmbeddingFails, Reload, Flush, Open, TypeOK, Request
<1>5. \A u \in Requests \ {t} : ~ Open(u)'
  BY <1>1, <1>4 DEF OneAtATime
<1>6. /\ new.pc = "flush" => Same(new.loaded, event)
      /\ new.written # Absent =>
            IF new.pc = "commit" THEN Same(new.written, old.entity)
            ELSE Same(new.written, event)
  <2>1. CASE SetEmbedding(t)
    <3>1. Same([View(t) EXCEPT !.embedding = tx[t].entity.text], event)
      BY <1>0, <1>3 DEF Row, Same
    <3> QED
      BY <2>1, <3>1, <1>0 DEF SetEmbedding, TypeOK, Request
  <2>2. CASE EmbeddingFails(t)
    BY <2>2, <1>0, <1>1, <1>2 DEF EmbeddingFails, TypeOK, Request, Alone
  <2>3. CASE Reload(t)
    BY <2>3, <1>0, <1>1, <1>2, <1>3 DEF Reload, TypeOK, Request, Alone
  <2>4. CASE Flush(t)
    <3>0. Same(old.loaded, event)
      BY <2>4, <1>1, <1>2 DEF Flush, Alone
    <3>1. Same(Updated(View(t), old.entity, old.loaded), old.entity)
      BY <3>0, <1>3 DEF Updated, Column, Same
    <3>2. CASE Updated(old.loaded, old.entity, old.loaded) = old.loaded
      <4>1. Same(old.loaded, old.entity)
        BY <3>2 DEF Updated, Column, Same
      <4>2. new = [old EXCEPT !.pc = "commit"]
        BY <2>4, <3>2 DEF Flush, TypeOK
      <4>3. new.pc = "commit" /\ new.written = old.written
        BY <4>2, <1>0 DEF Request
      <4>4. old.pc = "flush"
        BY <2>4 DEF Flush
      <4> QED
        BY <4>1, <4>3, <4>4, <3>0, <1>1, <1>2 DEF Alone, Same
    <3>3. CASE Updated(old.loaded, old.entity, old.loaded) # old.loaded
      BY <3>1, <3>3, <2>4, <1>0 DEF Flush, TypeOK, Request
    <3> QED
      BY <3>2, <3>3
  <2> QED
    BY <2>1, <2>2, <2>3, <2>4
<1>7. Alone(t)'
  BY <1>2, <1>4, <1>6 DEF Alone, Moved, Same
<1> QED
  BY <1>1, <1>4, <1>5, <1>7 DEF OneAtATime, Alone

(* A commit is a move of EventStates or keeps status and date.             *)
LEMMA EndAlone ==
    ASSUME TypeOK, OneAtATime, NEW t \in Requests, Commit(t) \/ Abort(t)
    PROVE  OneAtATime' /\ [States!Move]_(States!life)
<1>1. Open(t) /\ Alone(t) /\ \A u \in Requests \ {t} : ~ Open(u)
  BY DEF Commit, Abort, Open, OneAtATime
<1>2. \A u \in Requests : ~ Open(u)'
  <2>1. PICK pc \in {"done", "failed"} : End(t, pc)
    BY DEF Commit, Abort
  <2>2. tx' = [tx EXCEPT ![t] = [Idle EXCEPT !.pc = pc]] /\ tx'[t].pc = pc
    BY <2>1 DEF End, Idle, TypeOK
  <2> QED
    BY <1>1, <2>2 DEF Open, TypeOK
<1>3. event \in Row /\ Absent.status = "absent" /\ Absent.publishedAt = NoRequest
  BY DEF TypeOK, Absent
<1>4. \/ event' = event
      \/ /\ tx[t].written # Absent /\ event' = tx[t].written
         /\ tx[t].pc = "commit"
  BY DEF Commit, Abort, View, Same
<1>5. CASE Same(event', event)
  <2>1. event' = event => (event' # Absent => event'.status # "absent")
    BY DEF OneAtATime
  <2>2. event' # event => event'.status # "absent"
    BY <1>1, <1>4, <1>5 DEF Same, Alone
  <2> QED
    BY <2>1, <2>2, <1>2, <1>5 DEF Same, OneAtATime, Alone, States!life
<1>6. CASE /\ tx[t].written # Absent /\ event' = tx[t].written
           /\ tx[t].pc = "commit" /\ tx[t].op = "create"
  <2>1. event = Absent /\ event'.status = "borrador" /\ event'.publishedAt = NoRequest
    BY <1>1, <1>6 DEF Alone
  <2>2. event'.status \in States!Transitions[event.status]
    BY <2>1, <1>3 DEF States!Transitions
  <2> QED
    BY <1>2, <1>3, <2>1, <2>2 DEF OneAtATime, Alone, States!Move
<1>7. CASE /\ tx[t].written # Absent /\ event' = tx[t].written
           /\ tx[t].pc = "commit" /\ tx[t].op # "create"
  <2>1. /\ Same(event', tx[t].entity) /\ Moved(t, event, tx[t].entity)
        /\ event.status # "absent"
    BY <1>1, <1>7 DEF Alone
  <2>2. /\ event'.status \in Transitions[event.status]
        /\ event'.publishedAt = IF event'.status = "publicado" THEN t ELSE event.publishedAt
        \/ Same(event', event)
    BY <2>1 DEF Same, Moved
  <2>3. event'.status # "absent"
    BY <2>1, <2>2, <1>3, TransitionsType DEF Same, Row
  <2>4. event'.status \in Transitions[event.status]
          => event'.status \in States!Transitions[event.status]
    BY <1>3, <2>1 DEF Transitions, States!Transitions, Row, EventStatus
  <2> QED
    BY <1>2, <2>2, <2>3, <2>4 DEF OneAtATime, Alone, Same, States!Move, States!life
<1>8. event' = event => Same(event', event)
  BY DEF Same
<1> QED
  BY <1>4, <1>5, <1>6, <1>7, <1>8

(* Served one at a time, requests give the event the life EventStates      *)
(* tells: every commit is one transition of the table, dated when it       *)
(* publishes, or changes neither status nor date.                          *)
THEOREM SerialImplementsStates == Overlap = FALSE => (Spec => FollowsStates)
<1> SUFFICES ASSUME Overlap = FALSE PROVE Spec => FollowsStates
  OBVIOUS
<1>1. Init => TypeOK /\ OneAtATime /\ States!Init
  BY IdleType
  DEF Init, TypeOK, OneAtATime, Alone, Open, Idle, Absent, States!Init
<1>2. TypeOK /\ OneAtATime /\ [Next]_vars =>
        TypeOK' /\ OneAtATime' /\ [States!Move]_(States!life)
  <2>1. ASSUME TypeOK, OneAtATime, UNCHANGED vars
        PROVE  TypeOK' /\ OneAtATime' /\ UNCHANGED event
    BY <2>1 DEF TypeOK, OneAtATime, Alone, Open, vars, Moved, Same
  <2>2. ASSUME TypeOK, OneAtATime, NEW t \in Requests, Start(t) \/ Step(t) \/ Abort(t)
        PROVE  TypeOK' /\ OneAtATime' /\ [States!Move]_(States!life)
    <3>1. UNCHANGED event => UNCHANGED States!life
      BY DEF States!life
    <3> QED
      BY <2>2, <3>1, StartType, StepType, StartAlone, WorkAlone, EndAlone DEF Step
  <2>3. UNCHANGED event => UNCHANGED States!life
    BY DEF States!life
  <2> QED
    BY <2>1, <2>2, <2>3 DEF Next
<1> QED
  BY <1>1, <1>2, PTL DEF Spec, FollowsStates, States!Spec
=============================================================================
