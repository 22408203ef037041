---------------------------- MODULE RecordsProofs ----------------------------
(***************************************************************************)
(* Theorems about the components that Records composes, but for Search     *)
(* (SearchProofs), for every number of requests, people and rows: first    *)
(* each component by itself, in the order Payments, Agenda, Speakers,      *)
(* Certificates, Accounts, then their composition.                         *)
(***************************************************************************)
EXTENDS Records, TLAPS

USE ConstantsAssumption

-----------------------------------------------------------------------------
(* The invariant *)

(* What the operation of a request writes as the status of the row.        *)
Target(s) ==
    IF s.op = "cancel" THEN "cancelada"
    ELSE IF s.op = "webhook" /\ s.status = "confirmed" THEN "confirmada"
    ELSE "expirada"

(* One that registers will commit a reservation, the next.                 *)
Registers(q) ==
    serving[q].op = "register" =>
        /\ issued < MaxReservations
        /\ serving[q].pc \in {"write", "commit"}
        /\ serving[q].entity.status = "pendiente_pago"
        /\ q \in rowLock => serving[q].write.status = "pendiente_pago"

(* Any other intends its target, and may find it there already.            *)
Updates(q) ==
    serving[q].op # "register" =>
        /\ serving[q].pc \in {"update", "write"} => serving[q].entity.status = Target(serving[q])
        /\ q \in rowLock => serving[q].write.status \in {row.status, Target(serving[q])}

(* A sweep has read a lapsed reservation.                                  *)
Sweeps(q) == serving[q].op = "sweep" => serving[q].entity.until <= lapsed

(* A payment that will confirm is together with those that have.           *)
Pays(q) ==
    IF serving[q].op = "webhook"
    THEN /\ serving[q].key \in 1 .. issued
         /\ serving[q].status = "confirmed" =>
               \A j \in paid : j # serving[q].key => {j, serving[q].key} \in together
    ELSE serving[q].key = 0

Shape(q) ==
    /\ serving[q].pc = "idle" <=> serving[q].op = "none"
    /\ q \in rowLock => serving[q].pc = "commit"

Together(p, q) ==
    p # q /\ serving[p].key # 0 /\ serving[q].key # 0 =>
        {serving[p].key, serving[q].key} \in together

Alone(p, q) ==
    /\ p \in rowLock /\ q \in rowLock => p = q
    /\ serving[p].op = "register" /\ serving[q].op = "register" => p = q

Inv ==
    /\ TypeOK
    /\ PaidTwiceOnlyTogether
    /\ row.status = "pendiente_pago" => paid = {}
    /\ \A q \in Requests : Shape(q) /\ Registers(q) /\ Updates(q) /\ Sweeps(q) /\ Pays(q)
    /\ \A p, q \in Requests : Together(p, q) /\ Alone(p, q)

-----------------------------------------------------------------------------
(* Types *)

(* The blank row and request are well typed.                               *)
LEMMA IdleType == NoRow \in Row /\ Idle \in Request
  BY DEF NoRow, Row, Idle, Serving, Request, Keys

(* Changing the columns of a row keeps its type.                           *)
LEMMA ColumnsType ==
    ASSUME NEW r \in Row, NEW status \in {"cancelada", "expirada"}
    PROVE  /\ [r EXCEPT !.status = status] \in Row
           /\ [r EXCEPT !.status = status].status = status
           /\ [r EXCEPT !.status = status].until = r.until
  BY DEF Row

LEMMA PaidType ==
    ASSUME NEW r \in Row, NEW k \in Keys
    PROVE  /\ [r EXCEPT !.status = "confirmada", !.payment_reference = k] \in Row
           /\ [r EXCEPT !.status = "confirmada", !.payment_reference = k].status = "confirmada"
  BY DEF Row

(* What a flush writes is a row.                                           *)
LEMMA WrittenType ==
    ASSUME row \in Row, NEW s \in Request
    PROVE  Written(s) \in Row
<1>1. s.entity \in Row /\ s.loaded \in Row
  BY DEF Request
<1> QED
  BY <1>1 DEF Written, Row

-----------------------------------------------------------------------------
(* Steps *)

(* A request that starts, with what it has read.                           *)
LEMMA StartStep ==
    ASSUME Inv, NEW q \in Requests, NEW s \in Request,
           serving[q].pc = "idle",
           serving' = [serving EXCEPT ![q] = s],
           UNCHANGED <<row, issued, lapsed, webhookEvents, rowLock, paid>>,
           together \subseteq together',
           s.pc \in {"update", "write", "commit"}, s.op # "none",
           s.op = "register" =>
               /\ issued < MaxReservations /\ s.pc = "write"
               /\ s.entity.status = "pendiente_pago"
               /\ \A p \in Requests : serving[p].op # "register",
           s.op # "register" /\ s.pc # "commit" => s.entity.status = Target(s),
           s.op = "sweep" => s.entity.until <= lapsed,
           IF s.op = "webhook"
           THEN /\ s.key \in 1 .. issued
                /\ s.status = "confirmed" => paid = {}
                /\ \A p \in Requests : serving[p].key # 0 => {s.key, serving[p].key} \in together'
           ELSE s.key = 0
    PROVE  Inv'
<1>1. /\ serving'[q] = s
      /\ \A p \in Requests : p # q => serving'[p] = serving[p]
      /\ serving' \in [Requests -> Request]
  BY DEF Inv, TypeOK
<1>2. q \notin rowLock
  BY DEF Inv, Shape
<1>3. TypeOK' /\ PaidTwiceOnlyTogether' /\ (row.status = "pendiente_pago" => paid = {})'
  BY <1>1 DEF Inv, TypeOK, PaidTwiceOnlyTogether
<1>4. ASSUME NEW p \in Requests
      PROVE  (Shape(p) /\ Registers(p) /\ Updates(p) /\ Sweeps(p) /\ Pays(p))'
  <2>1. CASE p = q
    BY <1>1, <1>2, <2>1 DEF Shape, Registers, Updates, Sweeps, Pays, Target
  <2>2. CASE p # q
    BY <1>1, <2>2 DEF Inv, Shape, Registers, Updates, Sweeps, Pays, Target
  <2> QED
    BY <2>1, <2>2
<1>5. ASSUME NEW p \in Requests, NEW r \in Requests
      PROVE  (Together(p, r) /\ Alone(p, r))'
  <2>1. Together(p, r) /\ Alone(p, r)
    BY DEF Inv
  <2>2. {s.key, serving[p].key} = {serving[p].key, s.key}
    OBVIOUS
  <2> QED
    BY <1>1, <1>2, <2>1, <2>2 DEF Together, Alone
<1> QED
  BY <1>3, <1>4, <1>5 DEF Inv

(* The end of a request, once it is known to leave the row and the payments*)
(* as the others need them.                                                *)
LEMMA CloseStep ==
    ASSUME Inv, NEW q \in Requests, Close(q), serving[q].pc # "idle",
           UNCHANGED <<lapsed, together>>,
           TypeOK', PaidTwiceOnlyTogether',
           (row.status = "pendiente_pago" => paid = {})',
           row' # row => q \in rowLock,
           issued' = issued \/ (serving[q].op = "register" /\ issued' = issued + 1),
           paid' \subseteq paid \cup {serving[q].key}, 
           paid' \subseteq paid \/ serving[q].op = "webhook"
    PROVE  Inv'
<1>1. /\ serving'[q] = Idle
      /\ \A p \in Requests : p # q => serving'[p] = serving[p]
      /\ rowLock' = rowLock \ {q}
  BY DEF Inv, TypeOK, Close
<1>2. ASSUME NEW p \in Requests
      PROVE  (Shape(p) /\ Registers(p) /\ Updates(p) /\ Sweeps(p) /\ Pays(p))'
  <2>1. CASE p = q
    BY <1>1, <2>1 DEF Idle, Serving, Shape, Registers, Updates, Sweeps, Pays, Target
  <2>2. CASE p # q
    <3>1. /\ Shape(p) /\ Registers(p) /\ Updates(p) /\ Sweeps(p) /\ Pays(p)
          /\ Alone(p, q) /\ Together(q, p) /\ Pays(q)
      BY DEF Inv
    <3>2. serving'[p] = serving[p] /\ (p \in rowLock' => p \in rowLock /\ row' = row)
      BY <1>1, <2>2, <3>1 DEF Alone
    <3>3. Registers(p)'
      BY <2>2, <3>1, <3>2 DEF Registers, Alone
    <3>4. Pays(p)'
      <4>1. issued \in Nat /\ issued' \in Nat /\ issued <= issued'
        BY DEF Inv, TypeOK, Keys
      <4>2. CASE serving[p].op # "webhook"
        BY <3>1, <3>2, <4>2 DEF Pays
      <4>3. CASE serving[p].op = "webhook"
        <5>1. serving[p].key \in 1 .. issued' /\ serving[p].key # 0
          BY <3>1, <4>1, <4>3 DEF Pays
        <5>2. ASSUME serving[p].status = "confirmed", NEW j \in paid', j # serving[p].key
              PROVE  {j, serving[p].key} \in together
          <6>1. CASE j \in paid
            BY <3>1, <4>3, <5>2, <6>1 DEF Pays
          <6>2. CASE j \notin paid
            <7>1. serving[q].op = "webhook" /\ j = serving[q].key
              BY <5>2, <6>2
            <7>2. serving[q].key # 0
              BY <3>1, <4>1, <7>1 DEF Pays
            <7> QED
              BY <2>2, <3>1, <5>1, <7>1, <7>2 DEF Together
          <6> QED
            BY <6>1, <6>2
        <5> QED
          BY <3>2, <4>3, <5>1, <5>2 DEF Pays
      <4> QED
        BY <4>2, <4>3
    <3> QED
      BY <3>1, <3>2, <3>3, <3>4 DEF Shape, Updates, Sweeps, Target
  <2> QED
    BY <2>1, <2>2
<1>3. ASSUME NEW p \in Requests, NEW r \in Requests
      PROVE  (Together(p, r) /\ Alone(p, r))'
  <2>1. Together(p, r) /\ Alone(p, r)
    BY DEF Inv
  <2>2. serving'[q].key = 0 /\ serving'[q].op = "none"
    BY <1>1 DEF Idle, Serving
  <2>3. Together(p, r)'
    BY <1>1, <2>1, <2>2 DEF Together
  <2>4. Alone(p, r)'
    BY <1>1, <2>1, <2>2 DEF Alone
  <2> QED
    BY <2>3, <2>4
<1> QED
  BY <1>2, <1>3 DEF Inv

(* The operations that start.                                              *)
LEMMA RegisterStep == ASSUME Inv, NEW q \in Requests, Register(q) PROVE Inv'
<1> DEFINE n == issued + 1
           entity == [status |-> "pendiente_pago", until |-> n, payment_reference |-> n]
           s == Serving("register", "write", 0, "confirmed", entity, row)
<1>1. n \in Keys /\ issued < MaxReservations
  BY DEF Register, Inv, TypeOK, Keys
<1>2. s \in Request
  BY <1>1, IdleType DEF Inv, TypeOK, Row, Serving, Request
<1>3. /\ s.op = "register" /\ s.pc = "write" /\ s.key = 0
      /\ s.entity.status = "pendiente_pago"
  BY DEF Serving
<1> HIDE DEF s, n
<1> QED
  BY <1>1, <1>2, <1>3, StartStep DEF Register, s, n, history

LEMMA BeginStep ==
    ASSUME Inv, NEW q \in Requests, NEW op \in {"cancel", "sweep"}, NEW entity \in Row,
           Begin(q, op, entity),
           entity.status = IF op = "cancel" THEN "cancelada" ELSE "expirada",
           op = "sweep" => entity.until <= lapsed
    PROVE  Inv'
<1> DEFINE s == Serving(op, "update", 0, "confirmed", entity, NoRow)
<1>1. s \in Request
  BY IdleType DEF Serving, Request
<1>2. s.op = op /\ s.pc = "update" /\ s.key = 0 /\ s.entity = entity
  BY DEF Serving
<1>3. s.entity.status = Target(s)
  BY <1>2 DEF Target
<1>4. serving' = [serving EXCEPT ![q] = s]
  BY DEF Begin
<1> HIDE DEF s
<1> QED
  BY <1>1, <1>2, <1>3, <1>4, StartStep DEF Begin, history

LEMMA CancelStep == ASSUME Inv, NEW q \in Requests, Cancel(q) PROVE Inv'
<1> DEFINE entity == [row EXCEPT !.status = "cancelada"]
<1>1. entity \in Row /\ entity.status = "cancelada"
  BY ColumnsType DEF Inv, TypeOK
<1>2. Begin(q, "cancel", entity)
  BY DEF Cancel
<1> HIDE DEF entity
<1> QED
  BY <1>1, <1>2, BeginStep

LEMMA SweepStep == ASSUME Inv, NEW q \in Requests, Sweep(q) PROVE Inv'
<1> DEFINE entity == [row EXCEPT !.status = "expirada"]
<1>1. entity \in Row /\ entity.status = "expirada" /\ entity.until = row.until
  BY ColumnsType DEF Inv, TypeOK
<1>2. Begin(q, "sweep", entity) /\ row.until <= lapsed
  BY DEF Sweep
<1> HIDE DEF entity
<1> QED
  BY <1>1, <1>2, BeginStep

LEMMA WebhookStep == ASSUME Inv, NEW q \in Requests, Webhook(q) PROVE Inv'
<1>1. row \in Row /\ issued \in Nat /\ issued <= MaxReservations
  BY DEF Inv, TypeOK, Keys
<1>2. PICK key \in (1 .. issued) \ webhookEvents, status \in Outcomes :
        \E entity \in Entity(key, status) :
            /\ serving' = [serving EXCEPT ![q] =
                  Serving("webhook", IF entity = row THEN "commit" ELSE "update",
                          key, status, entity, NoRow)]
            /\ together' = together \cup
                 {{key, serving[p].key} : p \in {p \in Requests : serving[p].key # 0}}
  BY DEF Webhook
<1>3. PICK entity \in Entity(key, status) :
        /\ serving' = [serving EXCEPT ![q] =
              Serving("webhook", IF entity = row THEN "commit" ELSE "update",
                      key, status, entity, NoRow)]
        /\ together' = together \cup
             {{key, serving[p].key} : p \in {p \in Requests : serving[p].key # 0}}
  BY <1>2
<1>4. key \in Keys
  BY <1>1 DEF Keys
<1>5. /\ entity \in Row
      /\ status = "confirmed" => row.status = "pendiente_pago" /\ entity.status = "confirmada"
      /\ status # "confirmed" /\ entity # row => entity.status = "expirada"
  <2>1. CASE status = "confirmed"
    <3>1. /\ row.status = "pendiente_pago"
          /\ entity = [row EXCEPT !.status = "confirmada", !.payment_reference = key]
      BY <2>1 DEF Entity
    <3> QED
      BY <1>1, <1>4, <2>1, <3>1, PaidType
  <2>2. CASE status # "confirmed"
    <3>1. entity \in {row, [row EXCEPT !.status = "expirada"]}
      BY <2>2 DEF Entity
    <3> QED
      BY <1>1, <2>2, <3>1, ColumnsType
  <2> QED
    BY <2>1, <2>2
<1> DEFINE s == Serving("webhook", IF entity = row THEN "commit" ELSE "update",
                        key, status, entity, NoRow)
<1>6. s \in Request
  BY <1>4, <1>5, IdleType DEF Serving, Request
<1>7. /\ s.op = "webhook" /\ s.key = key /\ s.status = status /\ s.entity = entity
      /\ s.pc \in {"update", "commit"} /\ (s.pc # "commit" => entity # row)
  BY DEF Serving
<1>8. s.pc # "commit" => s.entity.status = Target(s)
  BY <1>5, <1>7 DEF Target
<1>9. s.status = "confirmed" => paid = {}
  BY <1>5, <1>7 DEF Inv
<1>10. serving' = [serving EXCEPT ![q] = s]
  BY <1>3
<1>11. \A p \in Requests : serving[p].key # 0 => {s.key, serving[p].key} \in together'
  BY <1>3, <1>7
<1> HIDE DEF s
<1> QED
  BY <1>3, <1>6, <1>7, <1>8, <1>9, <1>10, <1>11, StartStep DEF Webhook

-----------------------------------------------------------------------------

LEMMA ReloadStep == ASSUME Inv, NEW q \in Requests, Reload(q) PROVE Inv'
<1>1. serving[q] \in Request /\ row \in Row
  BY DEF Inv, TypeOK
<1> DEFINE s == [serving[q] EXCEPT !.pc = "write", !.loaded = row]
<1>2. /\ s \in Request /\ s.pc = "write" /\ s.op = serving[q].op
      /\ s.key = serving[q].key /\ s.status = serving[q].status
      /\ s.entity = serving[q].entity /\ s.write = serving[q].write
  BY <1>1 DEF Request
<1>3. serving' = [serving EXCEPT ![q] = s]
  BY <1>1 DEF Reload, Inv, TypeOK
<1> HIDE DEF s
<1>4. /\ serving'[q] = s
      /\ \A p \in Requests : p # q => serving'[p] = serving[p]
  BY <1>3 DEF Inv, TypeOK
<1>5. q \notin rowLock /\ serving[q].op \notin {"none", "register"}
  BY DEF Reload, Inv, Shape, Registers
<1>6. /\ UNCHANGED <<row, issued, lapsed, webhookEvents, rowLock, paid, together>>
      /\ serving[q].pc = "update"
  BY DEF Reload, history
<1>7. TypeOK' /\ PaidTwiceOnlyTogether'
  BY <1>2, <1>3, <1>6 DEF Inv, TypeOK, PaidTwiceOnlyTogether
<1>8. ASSUME NEW p \in Requests
      PROVE  (Shape(p) /\ Registers(p) /\ Updates(p) /\ Sweeps(p) /\ Pays(p))'
  <2>1. Shape(p) /\ Registers(p) /\ Updates(p) /\ Sweeps(p) /\ Pays(p)
    BY DEF Inv
  <2>2. CASE p = q
    BY <1>2, <1>4, <1>5, <1>6, <2>1, <2>2
       DEF Shape, Registers, Updates, Sweeps, Pays, Target
  <2>3. CASE p # q
    BY <1>4, <1>6, <2>1, <2>3 DEF Shape, Registers, Updates, Sweeps, Pays, Target
  <2> QED
    BY <2>2, <2>3
<1>9. ASSUME NEW p \in Requests, NEW r \in Requests
      PROVE  (Together(p, r) /\ Alone(p, r))'
  <2>1. Together(p, r) /\ Alone(p, r)
    BY DEF Inv
  <2>2. Together(p, r)'
    BY <1>2, <1>4, <1>6, <2>1 DEF Together
  <2>3. Alone(p, r)'
    BY <1>2, <1>4, <1>6, <2>1 DEF Alone
  <2> QED
    BY <2>2, <2>3
<1> QED
  BY <1>6, <1>7, <1>8, <1>9 DEF Inv

LEMMA FlushStep == ASSUME Inv, NEW q \in Requests, Flush(q) PROVE Inv'
<1>1. serving[q] \in Request /\ row \in Row
  BY DEF Inv, TypeOK
<1> DEFINE w == Written(serving[q])
           s == [serving[q] EXCEPT !.pc = "commit", !.loaded = NoRow, !.write = w]
<1>2. w \in Row
  BY <1>1, WrittenType
<1>3. IF serving[q].op = "register" THEN w.status = serving[q].entity.status
      ELSE w.status \in {row.status, serving[q].entity.status}
  BY DEF Written
<1> HIDE DEF w
<1>4. /\ s \in Request /\ s.pc = "commit" /\ s.op = serving[q].op
      /\ s.key = serving[q].key /\ s.status = serving[q].status
      /\ s.entity = serving[q].entity /\ s.write = w
  BY <1>1, <1>2, IdleType DEF Request
<1>5. serving' = [serving EXCEPT ![q] = s]
  BY <1>1 DEF Flush, Inv, TypeOK, w
<1> HIDE DEF s
<1>6. /\ serving'[q] = s
      /\ \A p \in Requests : p # q => serving'[p] = serving[p]
  BY <1>5 DEF Inv, TypeOK
<1>7. /\ UNCHANGED <<row, issued, lapsed, webhookEvents, paid, together>>
      /\ rowLock = {} /\ rowLock' = {q} /\ serving[q].pc = "write"
  BY DEF Flush, history
<1>8. TypeOK' /\ PaidTwiceOnlyTogether'
  BY <1>4, <1>5, <1>7 DEF Inv, TypeOK, PaidTwiceOnlyTogether
<1>9. ASSUME NEW p \in Requests
      PROVE  (Shape(p) /\ Registers(p) /\ Updates(p) /\ Sweeps(p) /\ Pays(p))'
  <2>1. Shape(p) /\ Registers(p) /\ Updates(p) /\ Sweeps(p) /\ Pays(p)
    BY DEF Inv
  <2>2. CASE p = q
    BY <1>3, <1>4, <1>6, <1>7, <2>1, <2>2
       DEF Shape, Registers, Updates, Sweeps, Pays, Target
  <2>3. CASE p # q
    BY <1>6, <1>7, <2>1, <2>3 DEF Shape, Registers, Updates, Sweeps, Pays, Target
  <2> QED
    BY <2>2, <2>3
<1>10. ASSUME NEW p \in Requests, NEW r \in Requests
       PROVE  (Together(p, r) /\ Alone(p, r))'
  <2>1. Together(p, r) /\ Alone(p, r)
    BY DEF Inv
  <2>2. Together(p, r)'
    BY <1>4, <1>6, <1>7, <2>1 DEF Together
  <2>3. Alone(p, r)'
    BY <1>4, <1>6, <1>7, <2>1 DEF Alone
  <2> QED
    BY <2>2, <2>3
<1> QED
  BY <1>7, <1>8, <1>9, <1>10 DEF Inv

-----------------------------------------------------------------------------
(* Commits *)

(* The row a commit stores: the write of whoever holds the lock.           *)
LEMMA StoredRow ==
    ASSUME Inv, NEW q \in Requests, Stored(q)
    PROVE  /\ row' \in Row
           /\ row' # row => q \in rowLock /\ row' = serving[q].write
  BY DEF Inv, TypeOK, Request, Stored

(* A registration that has written ends any earlier payment.               *)
LEMMA CommitRegisterStep == ASSUME Inv, NEW q \in Requests, CommitRegister(q) PROVE Inv'
<1>1. Close(q) /\ Stored(q) /\ issued' = issued + 1 /\ paid' = {}
      /\ UNCHANGED <<lapsed, webhookEvents, together>>
      /\ serving[q].op = "register" /\ serving[q].pc = "commit"
  BY DEF CommitRegister
<1>2. issued' \in {0} \cup Keys /\ lapsed' \in 0 .. issued' /\ 1 .. issued \subseteq 1 .. issued'
  BY <1>1 DEF Inv, TypeOK, Registers, Keys
<1>3. serving' \in [Requests -> Request] /\ rowLock' \subseteq Requests
  BY <1>1, IdleType DEF Inv, TypeOK, Close
<1>4. TypeOK'
  BY <1>1, <1>2, <1>3, StoredRow DEF Inv, TypeOK
<1>5. PaidTwiceOnlyTogether'
  BY <1>1 DEF PaidTwiceOnlyTogether
<1>6. row' # row => q \in rowLock
  BY <1>1, StoredRow
<1> QED
  BY <1>1, <1>4, <1>5, <1>6, CloseStep

(* Neither a cancellation nor a sweep makes the row pending.               *)
LEMMA StillPending ==
    ASSUME Inv, NEW q \in Requests, Stored(q), serving[q].op # "register",
           row'.status = "pendiente_pago"
    PROVE  row.status = "pendiente_pago"
<1>1. q \in rowLock => serving[q].write.status \in {row.status, Target(serving[q])}
  BY DEF Inv, Updates
<1>2. Target(serving[q]) # "pendiente_pago"
  BY DEF Target
<1> QED
  BY <1>1, <1>2, StoredRow

LEMMA CommitUpdateStep == ASSUME Inv, NEW q \in Requests, CommitUpdate(q) PROVE Inv'
<1>1. Close(q) /\ Stored(q) /\ UNCHANGED <<issued, lapsed, webhookEvents, paid, together>>
      /\ serving[q].op \in {"cancel", "sweep"} /\ serving[q].pc = "commit"
  BY DEF CommitUpdate, history
<1>2. serving' \in [Requests -> Request] /\ rowLock' \subseteq Requests
  BY <1>1, IdleType DEF Inv, TypeOK, Close
<1>3. TypeOK'
  BY <1>1, <1>2, StoredRow DEF Inv, TypeOK
<1>4. PaidTwiceOnlyTogether'
  BY <1>1 DEF Inv, PaidTwiceOnlyTogether
<1>5. (row.status = "pendiente_pago" => paid = {})'
  BY <1>1, StillPending DEF Inv
<1>6. row' # row => q \in rowLock
  BY <1>1, StoredRow
<1> QED
  BY <1>1, <1>3, <1>4, <1>5, <1>6, CloseStep

LEMMA CommitWebhookStep == ASSUME Inv, NEW q \in Requests, CommitWebhook(q) PROVE Inv'
<1>1. Close(q) /\ Stored(q) /\ UNCHANGED <<issued, lapsed, together>>
      /\ serving[q].op = "webhook" /\ serving[q].pc = "commit"
      /\ webhookEvents' = webhookEvents \cup {serving[q].key}
      /\ paid' = IF serving[q].status = "confirmed" /\ row'.status = "confirmada"
                 THEN paid \cup {serving[q].key} ELSE paid
  BY DEF CommitWebhook
<1>2. serving' \in [Requests -> Request] /\ rowLock' \subseteq Requests
  BY <1>1, IdleType DEF Inv, TypeOK, Close
<1>3. Pays(q)
  BY DEF Inv
<1>4. TypeOK'
  BY <1>1, <1>2, <1>3, StoredRow DEF Inv, TypeOK, Pays
<1>5. ASSUME NEW j \in paid', NEW k \in paid', j # k
      PROVE  {j, k} \in together
  <2>1. CASE j \in paid /\ k \in paid
    BY <1>5, <2>1 DEF Inv, PaidTwiceOnlyTogether
  <2>2. CASE j \notin paid
    <3>1. j = serving[q].key /\ k \in paid /\ serving[q].status = "confirmed"
      BY <1>1, <1>5, <2>2
    <3>2. {k, j} \in together
      BY <1>1, <1>3, <1>5, <3>1 DEF Pays
    <3>3. {k, j} = {j, k}
      OBVIOUS
    <3> QED
      BY <3>2, <3>3
  <2>3. CASE k \notin paid
    <3>1. k = serving[q].key /\ j \in paid /\ serving[q].status = "confirmed"
      BY <1>1, <1>5, <2>3
    <3> QED
      BY <1>1, <1>3, <1>5, <3>1 DEF Pays
  <2> QED
    BY <2>1, <2>2, <2>3
<1>6. PaidTwiceOnlyTogether'
  BY <1>1, <1>5 DEF PaidTwiceOnlyTogether
<1>7. (row.status = "pendiente_pago" => paid = {})'
  BY <1>1, StillPending DEF Inv
<1>8. row' # row => q \in rowLock
  BY <1>1, StoredRow
<1> QED
  BY <1>1, <1>4, <1>6, <1>7, <1>8, CloseStep

LEMMA AbortStep == ASSUME Inv, NEW q \in Requests, Abort(q) PROVE Inv'
<1>1. Close(q) /\ UNCHANGED <<row, issued, lapsed, webhookEvents, paid, together>>
      /\ serving[q].pc # "idle"
  BY DEF Abort, history
<1>2. serving' \in [Requests -> Request] /\ rowLock' \subseteq Requests
  BY <1>1, IdleType DEF Inv, TypeOK, Close
<1>3. TypeOK' /\ PaidTwiceOnlyTogether' /\ (row.status = "pendiente_pago" => paid = {})'
  BY <1>1, <1>2 DEF Inv, TypeOK, PaidTwiceOnlyTogether
<1> QED
  BY <1>1, <1>3, CloseStep

LEMMA LapseStep == ASSUME Inv, Lapse PROVE Inv'
<1>1. /\ UNCHANGED <<row, issued, webhookEvents, rowLock, serving, paid, together>>
      /\ lapsed < issued /\ lapsed' = lapsed + 1
  BY DEF Lapse, history
<1>2. lapsed \in Nat /\ issued \in Nat
  BY DEF Inv, TypeOK, Keys
<1>3. TypeOK' /\ PaidTwiceOnlyTogether' /\ (row.status = "pendiente_pago" => paid = {})'
  BY <1>1, <1>2 DEF Inv, TypeOK, PaidTwiceOnlyTogether
<1>4. ASSUME NEW q \in Requests
      PROVE  (Shape(q) /\ Registers(q) /\ Updates(q) /\ Sweeps(q) /\ Pays(q))'
  <2>1. Shape(q) /\ Registers(q) /\ Updates(q) /\ Sweeps(q) /\ Pays(q)
    BY DEF Inv
  <2>2. serving[q].entity.until \in Nat
    BY DEF Inv, TypeOK, Request, Row, Keys
  <2>3. Sweeps(q)'
    BY <1>1, <1>2, <2>1, <2>2 DEF Sweeps
  <2> QED
    BY <1>1, <2>1, <2>3 DEF Shape, Registers, Updates, Pays, Target
<1>5. \A p, q \in Requests : (Together(p, q) /\ Alone(p, q))'
  BY <1>1 DEF Inv, Together, Alone
<1> QED
  BY <1>3, <1>4, <1>5 DEF Inv

-----------------------------------------------------------------------------
(* Theorems *)

LEMMA InvInit == Init => Inv
<1> SUFFICES ASSUME Init PROVE Inv
  OBVIOUS
<1>1. TypeOK /\ PaidTwiceOnlyTogether
  BY IdleType DEF Init, TypeOK, PaidTwiceOnlyTogether
<1>2. /\ Idle.op = "none" /\ Idle.pc = "idle" /\ Idle.key = 0
      /\ NoRow.status = "none"
  BY DEF Idle, Serving, NoRow
<1> QED
  BY <1>1, <1>2 DEF Init, Inv, Shape, Registers, Updates, Sweeps, Pays, Together, Alone

LEMMA InvNext == Inv /\ [Next]_vars => Inv'
<1> SUFFICES ASSUME Inv, [Next]_vars PROVE Inv'
  OBVIOUS
<1>1. CASE Lapse
  BY <1>1, LapseStep
<1>2. ASSUME NEW q \in Requests, Step(q)
      PROVE  Inv'
  BY <1>2, RegisterStep, CancelStep, SweepStep, WebhookStep, ReloadStep, FlushStep,
     CommitRegisterStep, CommitUpdateStep, CommitWebhookStep, AbortStep DEF Step
<1>3. CASE UNCHANGED vars
  <2>1. UNCHANGED <<row, issued, lapsed, webhookEvents, rowLock, serving, paid, together>>
    BY <1>3 DEF vars, history
  <2> QED
    BY <2>1 DEF Inv, TypeOK, PaidTwiceOnlyTogether, Shape, Registers, Updates, Sweeps, Pays,
                Target, Together, Alone
<1> QED
  BY <1>1, <1>2, <1>3 DEF Next

LEMMA InvAlways == Spec => []Inv
  BY InvInit, InvNext, PTL DEF Spec

(* The row, the keys and the requests of the payments are well typed.      *)
THEOREM TypeCorrect == Spec => []TypeOK
<1>1. Inv => TypeOK
  BY DEF Inv
<1> QED
  BY <1>1, InvAlways, PTL

(* Payments that were not served at the same time never both confirm a     *)
(* reservation (handle_payment_webhook), for any number of them.           *)
THEOREM PaidOnceUnlessTogether == Spec => []PaidTwiceOnlyTogether
<1>1. Inv => PaidTwiceOnlyTogether
  BY DEF Inv
<1> QED
  BY <1>1, InvAlways, PTL

(* The step that ends a reservation before its time is the commit of a     *)
(* rejection, or of a sweep that had listed an earlier reservation.        *)
LEMMA EarlyEnd ==
    ASSUME Inv, [Next]_vars,
           row.status = "pendiente_pago", row.until > lapsed, row'.status = "expirada"
    PROVE  \E q \in Requests :
              /\ q \in rowLock \ rowLock'
              /\ \/ serving[q].op = "webhook" /\ serving[q].status # "confirmed"
                 \/ serving[q].op = "sweep" /\ serving[q].entity.until < row.until
<1>1. row' # row
  OBVIOUS
<1>2. PICK q \in Requests : CommitRegister(q) \/ CommitUpdate(q) \/ CommitWebhook(q)
  BY <1>1 DEF Next, vars, history, Step, Lapse, Register, Cancel, Sweep, Webhook, Begin,
              Reload, Flush, Abort
<1>3. Stored(q) /\ Close(q) /\ serving[q].op \in {"register", "cancel", "sweep", "webhook"}
  BY <1>2 DEF CommitRegister, CommitUpdate, CommitWebhook
<1>4. q \in rowLock /\ row' = serving[q].write /\ q \notin rowLock'
  BY <1>1, <1>3, StoredRow DEF Close
<1>5. serving[q].write.status = "expirada"
  BY <1>4
<1>6. serving[q].op # "register" /\ Target(serving[q]) = "expirada"
  BY <1>4, <1>5 DEF Inv, Registers, Updates
<1>7. /\ serving[q].op = "webhook" => serving[q].status # "confirmed"
      /\ serving[q].op # "cancel"
  BY <1>6 DEF Target
<1>8. serving[q].op = "sweep" => serving[q].entity.until < row.until
  <2>1. serving[q].entity.until \in Nat /\ row.until \in Nat /\ lapsed \in Nat
    BY DEF Inv, TypeOK, Request, Row, Keys
  <2> QED
    BY <2>1 DEF Inv, Sweeps
<1> QED
  BY <1>3, <1>4, <1>6, <1>7, <1>8

(* A sweep never ends early the reservation it has listed.                 *)
THEOREM OnlyRejectionsEndEarly == Spec => EarlyEndIsARejection
<1>1. Inv /\ [Next]_vars =>
        [(row.status = "pendiente_pago" /\ row.until > lapsed /\ row'.status = "expirada") =>
           \E q \in Requests :
              /\ q \in rowLock \ rowLock'
              /\ \/ serving[q].op = "webhook" /\ serving[q].status # "confirmed"
                 \/ serving[q].op = "sweep" /\ serving[q].entity.until < row.until]_vars
  BY EarlyEnd
<1> QED
  BY <1>1, InvAlways, PTL DEF Spec, EarlyEndIsARejection

-----------------------------------------------------------------------------
(* What a confirmation stores *)

(* Another payment was served with this one, or a delivery of the same key *)
(* has been recorded, so that this one cannot commit.                      *)
Excused(q) ==
    \/ serving[q].key \in webhookEvents
    \/ \E k \in Keys \ {serving[q].key} : {k, serving[q].key} \in together

(* A confirmation will write its status, unless it is excused.             *)
Confirms(q) ==
    serving[q].op = "webhook" /\ serving[q].status = "confirmed" =>
        /\ serving[q].pc = "update" /\ row.status = "confirmada" => Excused(q)
        /\ serving[q].pc = "write" /\ serving[q].loaded.status = "confirmada" => Excused(q)
        /\ serving[q].pc = "commit" =>
              q \in rowLock /\ (serving[q].write.status = "confirmada" \/ Excused(q))

(* Keys and pairs that are recorded stay so.                               *)
LEMMA ExcusedStays ==
    ASSUME [Next]_vars, NEW q \in Requests, serving'[q].key = serving[q].key, Excused(q)
    PROVE  Excused(q)'
<1>1. webhookEvents \subseteq webhookEvents' /\ together \subseteq together'
  BY DEF Next, vars, history, Step, Lapse, Register, Cancel, Sweep, Webhook, Begin, Reload,
         Flush, Abort, CommitRegister, CommitUpdate, CommitWebhook
<1> QED
  BY <1>1 DEF Excused

(* The steps of one request leave the others and their locks alone.        *)
LEMMA OthersStay ==
    ASSUME Inv, NEW p \in Requests, Step(p), NEW q \in Requests, p # q
    PROVE  serving'[q] = serving[q] /\ (q \in rowLock' <=> q \in rowLock)
  BY DEF Inv, TypeOK, Step, Register, Cancel, Sweep, Webhook, Begin, Reload, Flush, Abort,
         CommitRegister, CommitUpdate, CommitWebhook, Close

(* Whoever confirms the row excuses the confirmations under way.           *)
LEMMA ConfirmedByAnother ==
    ASSUME Inv, NEW p \in Requests, Step(p), NEW q \in Requests, p # q,
           serving[q].op = "webhook", row.status # "confirmada", row'.status = "confirmada"
    PROVE  Excused(q)'
<1>1. CommitRegister(p) \/ CommitUpdate(p) \/ CommitWebhook(p)
  BY DEF Step, history, Register, Cancel, Sweep, Webhook, Begin, Reload, Flush, Abort
<1>2. Stored(p)
  BY <1>1 DEF CommitRegister, CommitUpdate, CommitWebhook
<1>3. p \in rowLock /\ serving[p].write.status = "confirmada"
  BY <1>2, StoredRow
<1>4. serving[p].op # "register" /\ Target(serving[p]) = "confirmada"
  BY <1>3 DEF Inv, Registers, Updates
<1>5. serving[p].op = "webhook" /\ CommitWebhook(p)
  BY <1>1, <1>4 DEF Target, CommitRegister, CommitUpdate
<1>6. serving[p].key \in Keys /\ serving[q].key \in Keys
  BY <1>5 DEF Inv, TypeOK, Pays, Keys
<1>7. {serving[p].key, serving[q].key} \in together
  BY <1>6 DEF Inv, Together, Keys
<1>8. serving'[q] = serving[q] /\ serving[p].key \in webhookEvents' /\ together' = together
  BY <1>5, OthersStay DEF CommitWebhook
<1> QED
  BY <1>6, <1>7, <1>8 DEF Excused

(* A step of another request.                                              *)
LEMMA ConfirmsForeign ==
    ASSUME Inv, NEW p \in Requests, Step(p), NEW q \in Requests, p # q, Confirms(q),
           serving[q].op = "webhook", serving[q].status = "confirmed"
    PROVE  Confirms(q)'
<1>1. serving'[q] = serving[q] /\ (q \in rowLock' <=> q \in rowLock)
  BY OthersStay
<1>2. [Next]_vars
  BY DEF Next
<1>3. Excused(q) => Excused(q)'
  BY <1>1, <1>2, ExcusedStays
<1>4. row.status # "confirmada" /\ row'.status = "confirmada" => Excused(q)'
  BY ConfirmedByAnother
<1> QED
  BY <1>1, <1>3, <1>4 DEF Confirms

(* A step of its own: it starts from a pending row, loads the row, writes. *)
LEMMA ConfirmsOwn ==
    ASSUME Inv, NEW q \in Requests, Step(q), Confirms(q),
           serving'[q].op = "webhook", serving'[q].status = "confirmed"
    PROVE  Confirms(q)'
<1>1. serving \in [Requests -> Request]
  BY DEF Inv, TypeOK
<1>2. CASE Webhook(q)
  <2>1. PICK key \in (1 .. issued) \ webhookEvents, status \in Outcomes :
           \E entity \in Entity(key, status) :
              serving' = [serving EXCEPT ![q] =
                 Serving("webhook", IF entity = row THEN "commit" ELSE "update",
                         key, status, entity, NoRow)]
    BY <1>2 DEF Webhook
  <2>2. PICK entity \in Entity(key, status) :
              serving' = [serving EXCEPT ![q] =
                 Serving("webhook", IF entity = row THEN "commit" ELSE "update",
                         key, status, entity, NoRow)]
    BY <2>1
  <2>3. serving'[q].status = status /\ serving'[q].pc = (IF entity = row THEN "commit" ELSE "update")
    BY <1>1, <2>2 DEF Serving
  <2>4. row.status = "pendiente_pago" /\ entity.status = "confirmada"
    BY <2>3 DEF Entity, Inv, TypeOK, Row
  <2>5. serving'[q].pc = "update" /\ row' = row
    BY <1>2, <2>3, <2>4 DEF Webhook
  <2> QED
    BY <2>4, <2>5 DEF Confirms
<1>3. CASE Reload(q)
  <2>1. /\ serving'[q].pc = "write" /\ serving'[q].loaded = row
        /\ serving'[q].op = serving[q].op /\ serving'[q].status = serving[q].status
        /\ serving'[q].key = serving[q].key /\ serving[q].pc = "update"
    BY <1>1, <1>3 DEF Reload, Request
  <2>2. Excused(q) => Excused(q)'
    BY <2>1, ExcusedStays DEF Next
  <2> QED
    BY <2>1, <2>2 DEF Confirms
<1>4. CASE Flush(q)
  <2>1. /\ serving'[q].pc = "commit" /\ serving'[q].write = Written(serving[q])
        /\ serving'[q].op = serving[q].op /\ serving'[q].status = serving[q].status
        /\ serving'[q].key = serving[q].key /\ serving[q].pc = "write" /\ rowLock' = {q}
    BY <1>1, <1>4 DEF Flush, Request
  <2>2. Excused(q) => Excused(q)'
    BY <2>1, ExcusedStays DEF Next
  <2>3. serving[q].entity.status = "confirmada"
    BY <2>1 DEF Inv, Updates, Target
  <2>4. serving[q].loaded.status # "confirmada" => Written(serving[q]).status = "confirmada"
    BY <2>3 DEF Written
  <2> QED
    BY <2>1, <2>2, <2>4 DEF Confirms
<1>5. serving'[q].op # "webhook" \/ Webhook(q) \/ Reload(q) \/ Flush(q)
  BY <1>1 DEF Step, Register, Cancel, Sweep, Begin, Abort, CommitRegister, CommitUpdate,
              CommitWebhook, Close, Idle, Serving
<1> QED
  BY <1>2, <1>3, <1>4, <1>5

LEMMA ConfirmsNext ==
    ASSUME Inv, [Next]_vars, NEW q \in Requests, Confirms(q)
    PROVE  Confirms(q)'
<1>1. CASE UNCHANGED <<row, webhookEvents, rowLock, serving, together>>
  BY <1>1 DEF Confirms, Excused
<1>2. ASSUME NEW p \in Requests, Step(p), p # q
      PROVE  Confirms(q)'
  <2>1. serving'[q] = serving[q]
    BY <1>2, OthersStay
  <2> QED
    BY <1>2, <2>1, ConfirmsForeign DEF Confirms
<1>3. CASE Step(q)
  BY <1>3, ConfirmsOwn DEF Confirms
<1> QED
  BY <1>1, <1>2, <1>3 DEF Next, vars, history, Lapse

LEMMA ConfirmsAlways == Spec => [](\A q \in Requests : Confirms(q))
<1>1. Init => \A q \in Requests : Confirms(q)
  BY DEF Init, Idle, Serving, Confirms
<1>2. Inv /\ (\A q \in Requests : Confirms(q)) /\ [Next]_vars
        => (\A q \in Requests : Confirms(q))'
  BY ConfirmsNext
<1> QED
  BY <1>1, <1>2, InvAlways, PTL DEF Spec

(* A webhook answered "confirmada" leaves the enrollment confirmed unless  *)
(* another payment was served with it, for any number of them.             *)
THEOREM StoredUnlessTogether == Spec => ConfirmedIsStoredUnlessTogether
<1>1. ASSUME Inv, \A q \in Requests : Confirms(q), NEW q \in Requests, CommitWebhook(q),
             serving[q].status = "confirmed", row'.status # "confirmada"
      PROVE  \E k \in Keys \ {serving[q].key} : {k, serving[q].key} \in together
  <2>1. q \in rowLock /\ (serving[q].write.status = "confirmada" \/ Excused(q))
    BY <1>1 DEF Confirms, CommitWebhook
  <2>2. row' = serving[q].write
    BY <1>1, <2>1 DEF CommitWebhook, Stored
  <2> QED
    BY <1>1, <2>1, <2>2 DEF Excused, CommitWebhook
<1>2. Inv /\ (\A q \in Requests : Confirms(q)) /\ [Next]_vars =>
        [\A q \in Requests :
           CommitWebhook(q) /\ serving[q].status = "confirmed" /\ row'.status # "confirmada"
              => \E k \in Keys \ {serving[q].key} : {k, serving[q].key} \in together]_vars
  BY <1>1
<1> QED
  BY <1>2, InvAlways, ConfirmsAlways, PTL DEF Spec, ConfirmedIsStoredUnlessTogether

-----------------------------------------------------------------------------
(* Agenda: sessions of one track overlap only if added together            *)

(* Requests under way are together with one another.                       *)
AddsTogether ==
    \A r, s \in Agenda!Open : r # s => {r, s} \in addOverlap

(* What a request under way will insert passed the validator.              *)
SlotsLast ==
    \A r \in Agenda!Open : add[r].slot.starts_at < add[r].slot.ends_at

(* One that has been checked conflicts only with sessions added meanwhile. *)
CheckedSinceTogether ==
    \A r, s \in Adds :
        /\ r # s
        /\ add[r].pc = "commit"
        /\ add[r].slot.track # NoTrack
        /\ sessions[s].track = add[r].slot.track
        /\ Agenda!Meet(sessions[s], add[r].slot)
        => {r, s} \in addOverlap

AgendaInv ==
    /\ Agenda!TypeOK
    /\ AddsTogether
    /\ SlotsLast
    /\ CheckedSinceTogether
    /\ OnlyConcurrentSessionsClash

(* A request that begins is together with those under way.                 *)
LEMMA AgendaBegins ==
    ASSUME AgendaInv, NEW r \in Adds, Agenda!AddSession(r)
    PROVE  AgendaInv'
<1>1. PICK slot \in Agenda!Slot :
        /\ sessions' = sessions
        /\ add[r].pc = "idle"
        /\ add' = [add EXCEPT ![r] =
                     [pc |-> IF Agenda!SessionCreate(slot) THEN "check" ELSE "refused",
                      slot |-> slot]]
        /\ addOverlap' = addOverlap \cup {{r, q} : q \in Agenda!Open}
  BY DEF Agenda!AddSession
<1>2. \A q \in Agenda!Open : q \in Adds /\ q # r
  BY <1>1 DEF Agenda!Open
<1>3. Agenda!TypeOK'
  BY <1>1, <1>2 DEF AgendaInv, Agenda!TypeOK, Agenda!Add, Agenda!SessionCreate
<1>4. AddsTogether'
  BY <1>1, <1>2 DEF AgendaInv, AddsTogether, Agenda!TypeOK, Agenda!Open
<1>5. SlotsLast'
  BY <1>1 DEF AgendaInv, SlotsLast, Agenda!TypeOK, Agenda!Open, Agenda!SessionCreate
<1>6. CheckedSinceTogether'
  BY <1>1 DEF AgendaInv, CheckedSinceTogether, Agenda!TypeOK
<1>7. OnlyConcurrentSessionsClash'
  BY <1>1 DEF AgendaInv, OnlyConcurrentSessionsClash, Agenda!OnlyConcurrentSessionsClash,
              Agenda!Clash
<1> QED
  BY <1>3, <1>4, <1>5, <1>6, <1>7 DEF AgendaInv

(* One that commits was under way with all those that are.                 *)
LEMMA AgendaCommits ==
    ASSUME AgendaInv, NEW r \in Adds, Agenda!CommitSession(r)
    PROVE  AgendaInv'
<1>1. /\ add[r].pc = "commit" /\ r \in Agenda!Open
      /\ add' = [add EXCEPT ![r].pc = "done"]
      /\ sessions' = [sessions EXCEPT ![r] = add[r].slot]
      /\ addOverlap' = addOverlap
  BY DEF Agenda!CommitSession, Agenda!Open
<1>2. add[r].slot \in Agenda!Slot
  BY DEF AgendaInv, Agenda!TypeOK, Agenda!Add
<1>3. Agenda!TypeOK'
  BY <1>1, <1>2 DEF AgendaInv, Agenda!TypeOK, Agenda!Add, SlotsLast
<1>4. AddsTogether'
  BY <1>1 DEF AgendaInv, AddsTogether, Agenda!TypeOK, Agenda!Open
<1>5. SlotsLast'
  BY <1>1 DEF AgendaInv, SlotsLast, Agenda!TypeOK, Agenda!Open
<1>6. CheckedSinceTogether'
  <2> SUFFICES ASSUME NEW q \in Adds, NEW s \in Adds, q # s, add'[q].pc = "commit",
                      add'[q].slot.track # NoTrack,
                      sessions'[s].track = add'[q].slot.track,
                      Agenda!Meet(sessions'[s], add'[q].slot)
               PROVE  {q, s} \in addOverlap
    BY <1>1 DEF CheckedSinceTogether, Agenda!Meet
  <2>1. q # r /\ add'[q] = add[q] /\ q \in Agenda!Open
    BY <1>1 DEF AgendaInv, Agenda!TypeOK, Agenda!Open
  <2>2. CASE s = r
    BY <1>1, <2>1, <2>2 DEF AgendaInv, AddsTogether
  <2>3. CASE s # r
    BY <1>1, <2>1, <2>3 DEF AgendaInv, CheckedSinceTogether, Agenda!TypeOK
  <2> QED
    BY <2>2, <2>3
<1>7. OnlyConcurrentSessionsClash'
  <2> SUFFICES ASSUME NEW q \in Adds, NEW s \in Adds, q # s,
                      sessions'[q].track # NoTrack,
                      sessions'[q].track = sessions'[s].track,
                      Agenda!Meet(sessions'[q], sessions'[s])
               PROVE  {q, s} \in addOverlap
    BY <1>1 DEF OnlyConcurrentSessionsClash, Agenda!OnlyConcurrentSessionsClash, Agenda!Clash,
                Agenda!Meet
  <2>1. Agenda!Meet(sessions'[s], sessions'[q])
    BY DEF Agenda!Meet
  <2>2. CASE q = r
    BY <1>1, <2>1, <2>2 DEF AgendaInv, CheckedSinceTogether, Agenda!TypeOK
  <2>3. CASE s = r
    <3>1. {s, q} \in addOverlap
      BY <1>1, <2>3 DEF AgendaInv, CheckedSinceTogether, Agenda!TypeOK
    <3>2. {s, q} = {q, s}
      OBVIOUS
    <3> QED
      BY <3>1, <3>2
  <2>4. CASE q # r /\ s # r
    BY <1>1, <2>4
    DEF AgendaInv, OnlyConcurrentSessionsClash, Agenda!OnlyConcurrentSessionsClash, Agenda!Clash,
        Agenda!TypeOK
  <2> QED
    BY <2>2, <2>3, <2>4
<1> QED
  BY <1>3, <1>4, <1>5, <1>6, <1>7 DEF AgendaInv

(* A check that passes finds no session that meets the new one.            *)
LEMMA AgendaGoesOn ==
    ASSUME AgendaInv, NEW r \in Adds, Agenda!Check(r) \/ Agenda!Abort(r)
    PROVE  AgendaInv'
<1>1. PICK pc \in {"refused", "commit"} :
        /\ r \in Agenda!Open
        /\ add' = [add EXCEPT ![r].pc = pc]
        /\ pc = "commit" => ~ Agenda!Conflict(add[r].slot)
        /\ sessions' = sessions
        /\ addOverlap' = addOverlap
  BY DEF Agenda!Check, Agenda!Abort, Agenda!Open
<1>2. Agenda!TypeOK'
  BY <1>1 DEF AgendaInv, Agenda!TypeOK, Agenda!Add
<1>3. Agenda!Open' \subseteq Agenda!Open
  BY <1>1 DEF AgendaInv, Agenda!TypeOK, Agenda!Open
<1>4. AddsTogether'
  BY <1>1, <1>3 DEF AgendaInv, AddsTogether
<1>5. SlotsLast'
  BY <1>1, <1>3 DEF AgendaInv, SlotsLast, Agenda!TypeOK
<1>6. CheckedSinceTogether'
  BY <1>1 DEF AgendaInv, CheckedSinceTogether, Agenda!TypeOK, Agenda!Conflict
<1>7. OnlyConcurrentSessionsClash'
  BY <1>1 DEF AgendaInv, OnlyConcurrentSessionsClash, Agenda!OnlyConcurrentSessionsClash,
              Agenda!Clash
<1> QED
  BY <1>2, <1>4, <1>5, <1>6, <1>7 DEF AgendaInv

(* The agenda is well typed, and sessions whose requests were not together *)
(* do not clash.                                                           *)
THEOREM AgendaCorrect == Agenda!Spec => []AgendaInv
<1>1. Agenda!Init => AgendaInv
  BY AgendaAssumption
  DEF Agenda!ConstantsAssumption, Agenda!Init, AgendaInv, Agenda!TypeOK, AddsTogether, SlotsLast,
      CheckedSinceTogether, OnlyConcurrentSessionsClash, Agenda!OnlyConcurrentSessionsClash,
      Agenda!Clash, Agenda!Open, Agenda!NoSlot, Agenda!Slot, Agenda!Add
<1>2. AgendaInv /\ UNCHANGED Agenda!vars => AgendaInv'
  BY DEF Agenda!vars, AgendaInv, Agenda!TypeOK, AddsTogether, SlotsLast,
      CheckedSinceTogether, OnlyConcurrentSessionsClash, Agenda!OnlyConcurrentSessionsClash,
      Agenda!Clash, Agenda!Open
<1>3. AgendaInv /\ Agenda!Next => AgendaInv'
  BY AgendaBegins, AgendaCommits, AgendaGoesOn DEF Agenda!Next
<1> QED
  BY <1>1, <1>2, <1>3, PTL DEF Agenda!Spec

(* RF-09: two sessions of a track overlap only if added at the same time.  *)
THEOREM SessionsClashOnlyTogether == Agenda!Spec => []OnlyConcurrentSessionsClash
<1>1. AgendaInv => OnlyConcurrentSessionsClash
  BY DEF AgendaInv
<1> QED
  BY <1>1, AgendaCorrect, PTL

-----------------------------------------------------------------------------
(* Speakers: an invitation is answered twice only together                 *)

(* Answers under way are together with one another.                        *)
AnswersTogether ==
    \A r, s \in Speakers!Open : r # s => {r, s} \in answerOverlap

(* An answer names an invitation, and one that was committed cleared its   *)
(* token, which nothing sets again.                                        *)
TokensAreSpent ==
    /\ \A r \in Answers : answer[r].pc # "idle" => answer[r].to \in Invitations
    /\ \A r \in answered :
        /\ answer[r].pc = "done"
        /\ invitation[answer[r].to].status # "none"
        /\ ~ invitation[answer[r].to].token

(* One that found the token is answered besides only by those meanwhile.   *)
FoundSinceTogether ==
    \A r \in Answers, s \in answered :
        answer[r].pc \in {"update", "commit"} /\ answer[r].to = answer[s].to
            => {r, s} \in answerOverlap

SpeakersInv ==
    /\ Speakers!TypeOK
    /\ AnswersTogether
    /\ TokensAreSpent
    /\ FoundSinceTogether
    /\ OnlyConcurrentAnswersRepeat

(* An invitation is new: no answer names it.                               *)
LEMMA SpeakersInvites ==
    ASSUME SpeakersInv, NEW i \in Invitations, Speakers!Invite(i)
    PROVE  SpeakersInv'
<1>1. /\ invitation[i].status = "none"
      /\ invitation' = [invitation EXCEPT ![i] = [status |-> "invitado", token |-> TRUE]]
      /\ UNCHANGED <<invitationLock, answer, answered, answerOverlap>>
  BY DEF Speakers!Invite
<1>2. Speakers!TypeOK'
  BY <1>1 DEF SpeakersInv, Speakers!TypeOK, Speakers!Row
<1>3. AnswersTogether' /\ FoundSinceTogether' /\ OnlyConcurrentAnswersRepeat'
  BY <1>1 DEF SpeakersInv, AnswersTogether, FoundSinceTogether, OnlyConcurrentAnswersRepeat,
              Speakers!OnlyConcurrentAnswersRepeat, Speakers!Open
<1>4. TokensAreSpent'
  BY <1>1 DEF SpeakersInv, TokensAreSpent, Speakers!TypeOK
<1> QED
  BY <1>2, <1>3, <1>4 DEF SpeakersInv

(* An answer that begins is together with those under way.                 *)
LEMMA SpeakersRespond ==
    ASSUME SpeakersInv, NEW r \in Answers, Speakers!Respond(r)
    PROVE  SpeakersInv'
<1>1. PICK i \in Invitations, accept \in BOOLEAN :
        /\ answer[r].pc = "idle"
        /\ answer' = [answer EXCEPT ![r] = [pc |-> "find", to |-> i, accept |-> accept]]
        /\ answerOverlap' = answerOverlap \cup {{r, q} : q \in Speakers!Open}
        /\ UNCHANGED <<invitation, invitationLock, answered>>
  BY DEF Speakers!Respond
<1>2. r \notin answered /\ \A q \in Speakers!Open : q \in Answers /\ q # r
  BY <1>1 DEF SpeakersInv, TokensAreSpent, Speakers!Open
<1>3. Speakers!TypeOK'
  BY <1>1, <1>2 DEF SpeakersInv, Speakers!TypeOK, Speakers!Answer
<1>4. AnswersTogether'
  BY <1>1, <1>2 DEF SpeakersInv, AnswersTogether, Speakers!TypeOK, Speakers!Open
<1>5. TokensAreSpent' /\ FoundSinceTogether'
  BY <1>1, <1>2 DEF SpeakersInv, TokensAreSpent, FoundSinceTogether, Speakers!TypeOK
<1>6. OnlyConcurrentAnswersRepeat'
  BY <1>1, <1>2 DEF SpeakersInv, OnlyConcurrentAnswersRepeat, Speakers!TypeOK,
                    Speakers!OnlyConcurrentAnswersRepeat
<1> QED
  BY <1>3, <1>4, <1>5, <1>6 DEF SpeakersInv

(* A commit was under way with all answers that are.                       *)
LEMMA SpeakersCommit ==
    ASSUME SpeakersInv, NEW r \in Answers, Speakers!Commit(r)
    PROVE  SpeakersInv'
<1>1. /\ answer[r].pc = "commit" /\ r \in Speakers!Open
      /\ answer' = [answer EXCEPT ![r].pc = "done"]
      /\ invitation' = [invitation EXCEPT ![answer[r].to] = Speakers!Responded(r)]
      /\ invitationLock' = [invitationLock EXCEPT ![answer[r].to] = Nobody]
      /\ answered' = answered \cup {r}
      /\ answerOverlap' = answerOverlap
  BY DEF Speakers!Commit, Speakers!Open
<1>2. answer[r].to \in Invitations
  BY <1>1 DEF SpeakersInv, TokensAreSpent
<1>3. /\ Speakers!Responded(r) \in Speakers!Row
      /\ Speakers!Responded(r).status # "none"
      /\ ~ Speakers!Responded(r).token
  BY DEF Speakers!Responded, Speakers!Row
<1>4. Speakers!TypeOK'
  BY <1>1, <1>2, <1>3 DEF SpeakersInv, Speakers!TypeOK, Speakers!Answer
<1>5. AnswersTogether'
  BY <1>1 DEF SpeakersInv, AnswersTogether, Speakers!TypeOK, Speakers!Open
<1>6. TokensAreSpent'
  BY <1>1, <1>2, <1>3 DEF SpeakersInv, TokensAreSpent, Speakers!TypeOK
<1>7. \A q \in Answers, s \in answered' :
        /\ q # r /\ answer'[q].pc \in {"update", "commit"} /\ answer'[q].to = answer'[s].to
        => {q, s} \in answerOverlap
  BY <1>1 DEF SpeakersInv, AnswersTogether, FoundSinceTogether, Speakers!TypeOK, Speakers!Open
<1>8. FoundSinceTogether'
  BY <1>1, <1>7 DEF SpeakersInv, FoundSinceTogether, Speakers!TypeOK
<1>9. \A s \in answered : answer[s].to = answer[r].to =>
        {r, s} \in answerOverlap /\ {s, r} \in answerOverlap
  <2>1. \A s \in answered : {r, s} = {s, r}
    OBVIOUS
  <2> QED
    BY <1>1, <2>1 DEF SpeakersInv, FoundSinceTogether
<1>10. OnlyConcurrentAnswersRepeat'
  BY <1>1, <1>9 DEF SpeakersInv, OnlyConcurrentAnswersRepeat, Speakers!TypeOK,
                    Speakers!OnlyConcurrentAnswersRepeat
<1> QED
  BY <1>4, <1>5, <1>6, <1>8, <1>10 DEF SpeakersInv

(* A token that is found is of an invitation that has not been answered.   *)
LEMMA SpeakersGoOn ==
    ASSUME SpeakersInv, NEW r \in Answers,
           Speakers!GetByToken(r) \/ Speakers!Flush(r) \/ Speakers!Abort(r)
    PROVE  SpeakersInv'
<1>1. PICK pc \in {"update", "commit", "refused"} :
        /\ r \in Speakers!Open
        /\ answer' = [answer EXCEPT ![r].pc = pc]
        /\ pc = "update" => invitation[answer[r].to].token
        /\ pc = "commit" => answer[r].pc = "update"
        /\ UNCHANGED <<invitation, answered, answerOverlap>>
  BY DEF Speakers!GetByToken, Speakers!Flush, Speakers!Abort, Speakers!Goes, Speakers!Open
<1>2. r \notin answered
  BY <1>1 DEF SpeakersInv, TokensAreSpent, Speakers!Open
<1>3. invitationLock' \in [Invitations -> Answers \cup {Nobody}]
  BY DEF Speakers!GetByToken, Speakers!Flush, Speakers!Abort, SpeakersInv, Speakers!TypeOK
<1>4. Speakers!TypeOK'
  BY <1>1, <1>3 DEF SpeakersInv, Speakers!TypeOK, Speakers!Answer
<1>5. Speakers!Open' \subseteq Speakers!Open
  BY <1>1 DEF SpeakersInv, Speakers!TypeOK, Speakers!Open
<1>6. AnswersTogether'
  BY <1>1, <1>5 DEF SpeakersInv, AnswersTogether
<1>7. TokensAreSpent'
  BY <1>1, <1>2 DEF SpeakersInv, TokensAreSpent, Speakers!TypeOK, Speakers!Open
<1>8. FoundSinceTogether'
  BY <1>1, <1>2 DEF SpeakersInv, TokensAreSpent, FoundSinceTogether, Speakers!TypeOK
<1>9. OnlyConcurrentAnswersRepeat'
  BY <1>1, <1>2 DEF SpeakersInv, OnlyConcurrentAnswersRepeat, Speakers!TypeOK,
                    Speakers!OnlyConcurrentAnswersRepeat
<1> QED
  BY <1>4, <1>6, <1>7, <1>8, <1>9 DEF SpeakersInv

(* Invitations and answers are well typed, and answers of one invitation   *)
(* were under way together.                                                *)
THEOREM SpeakersCorrect == Speakers!Spec => []SpeakersInv
<1>1. Speakers!Init => SpeakersInv
  BY DEF Speakers!Init, SpeakersInv, Speakers!TypeOK, AnswersTogether, TokensAreSpent,
         FoundSinceTogether, OnlyConcurrentAnswersRepeat, Speakers!OnlyConcurrentAnswersRepeat,
         Speakers!Open, Speakers!Row, Speakers!Answer
<1>2. SpeakersInv /\ UNCHANGED Speakers!vars => SpeakersInv'
  BY DEF Speakers!vars, SpeakersInv, Speakers!TypeOK, AnswersTogether, TokensAreSpent,
         FoundSinceTogether, OnlyConcurrentAnswersRepeat, Speakers!OnlyConcurrentAnswersRepeat,
         Speakers!Open
<1>3. SpeakersInv /\ Speakers!Next => SpeakersInv'
  BY SpeakersInvites, SpeakersRespond, SpeakersCommit, SpeakersGoOn DEF Speakers!Next
<1> QED
  BY <1>1, <1>2, <1>3, PTL DEF Speakers!Spec

(* RF-10: an invitation is answered twice only at the same time.           *)
THEOREM AnswersRepeatOnlyTogether == Speakers!Spec => []OnlyConcurrentAnswersRepeat
<1>1. SpeakersInv => OnlyConcurrentAnswersRepeat
  BY DEF SpeakersInv
<1> QED
  BY <1>1, SpeakersCorrect, PTL

-----------------------------------------------------------------------------
(* Certificates: attendance first, and a file for what is ready            *)

(* Requests under way are together with one another.                       *)
CertsTogether ==
    \A r, q \in CertRequests :
        r # q /\ Certificates!Open(r) /\ Certificates!Open(q) => {r, q} \in certOverlap

Accompanied(r) == \E q \in CertRequests \ {r} : {q, r} \in certOverlap

(* What a request has read still holds of rows that only come, and a look  *)
(* for an attendance misses only what is recorded meanwhile.               *)
CertReads(r) ==
    /\ certTx[r].pc \in {"attended", "existing", "record", "insert", "recorded", "evaluate"}
            => certTx[r].user \in Users
    /\ certTx[r].pc = "existing" /\ certTx[r].type = Asistencia => certTx[r].user \in attendance
    /\ certTx[r].pc = "evaluate" => certTx[r].user \in attendance
    /\ certTx[r].pc \in {"record", "insert", "recorded"} => certTx[r].user \in everConfirmed
    /\ certTx[r].pc = "insert" /\ certTx[r].user \in attendance => Accompanied(r)
    /\ certTx[r].pc = "collided" => Accompanied(r)

(* A certificate inserted and not committed: its code is nobody else's, its*)
(* user is not drafted twice, and whoever issued one to him did meanwhile. *)
CertDraft(r, c) ==
    LET u == certTx[r].drafts[c]
    IN  u # NoUser =>
          /\ certTx[r].pc \in {"batch", "commit"}
          /\ u \notin certTx[r].todo
          /\ certTx[r].type = Asistencia => u \in attendance
          /\ certs[c] = Certificates!NoCert
          /\ \A d \in Codes \ {c} : certTx[r].drafts[d] # u
          /\ \A q \in CertRequests \ {r} : certTx[q].drafts[c] = NoUser
          /\ \A d \in Certificates!Issued :
                certs[d].user = u /\ certs[d].type = certTx[r].type
                    => {r, certs[d].by} \in certOverlap

CertDrafts(r) == \A c \in Codes : CertDraft(r, c)

(* A job exists with its certificate, is done only when the certificate is *)
(* ready, has then left its file, and is retried within the budget, also by*)
(* a worker that did not hear that it is done; no other loses "done".      *)
CertJob(c) ==
    /\ jobs[c].state \in {"pending", "processing"} \/ c \in unheard => jobs[c].retries < MaxRetries
    /\ certs[c] = Certificates!NoCert <=> jobs[c].state = "none"
    /\ certs[c] # Certificates!NoCert =>
            /\ certs[c].ready => c \in files
            /\ jobs[c].state = "done" => certs[c].ready
            /\ certs[c].ready => jobs[c].state = "done" \/ c \in everUnheard
    /\ c \in unheard => jobs[c].state = "done"

CertJobs == \A c \in Codes : CertJob(c)

CertInv ==
    /\ Certificates!TypeOK
    /\ CertsTogether
    /\ \A r \in CertRequests : CertReads(r) /\ CertDrafts(r)
    /\ CertJobs
    /\ AttendanceFirst
    /\ Certificates!DuplicatesOverlap

(* The parts of the state, one by one.                                     *)
LEMMA CertTypes ==
    ASSUME Certificates!TypeOK, NEW r \in CertRequests
    PROVE  /\ certTx[r] \in Certificates!Tx
           /\ \A c \in Codes : certs[c] \in Certificates!Cert \cup {Certificates!NoCert}
           /\ \A c \in Certificates!Issued : certs[c] \in Certificates!Cert
           /\ \A c \in Codes : jobs[c] \in Certificates!Job
  BY DEF Certificates!TypeOK, Certificates!Issued

(* A step of one transaction that drafts under no code but a fresh one.    *)
LEMMA CertTxStep ==
    ASSUME CertInv, NEW r \in CertRequests, NEW t \in Certificates!Tx,
           certTx' = [certTx EXCEPT ![r] = t],
           UNCHANGED <<confirmed, everConfirmed, attendance, evaluated, certs, jobs, files,
                      unheard, everUnheard>>,
           certOverlap \subseteq certOverlap', certOverlap' \subseteq SUBSET CertRequests,
           \A c \in Codes : \/ t.drafts[c] \in {certTx[r].drafts[c], NoUser}
                            \/ c \in Certificates!FreshCodes,
           CertsTogether', CertReads(r)', CertDrafts(r)'
    PROVE  CertInv'
<1>1. Certificates!TypeOK'
  BY DEF CertInv, Certificates!TypeOK
<1>2. ASSUME NEW q \in CertRequests, q # r PROVE CertReads(q)' /\ CertDrafts(q)'
  <2>1. certTx'[q] = certTx[q] /\ certTx'[r] = t
    BY <1>2 DEF CertInv, Certificates!TypeOK
  <2>2. CertReads(q)'
    <3>1. CertReads(q)
      BY DEF CertInv
    <3>2. Accompanied(q) => Accompanied(q)'
      BY DEF Accompanied
    <3> QED
      BY <2>1, <3>1, <3>2 DEF CertReads
  <2>3. ASSUME NEW c \in Codes, certTx[q].drafts[c] # NoUser PROVE CertDraft(q, c)'
    <3>1. CertDraft(q, c)
      BY DEF CertInv, CertDrafts
    <3>2. c \notin Certificates!FreshCodes
      BY <2>3 DEF Certificates!FreshCodes
    <3>3. \A p \in CertRequests \ {q} : certTx'[p].drafts[c] = NoUser
      BY <1>2, <2>1, <2>3, <3>1, <3>2 DEF CertDraft, CertInv, Certificates!TypeOK
    <3> QED
      BY <2>1, <3>1, <3>3 DEF CertDraft, Certificates!Issued
  <2> QED
    BY <2>1, <2>2, <2>3 DEF CertDrafts, CertDraft
<1>3. CertJobs' /\ AttendanceFirst'
  BY DEF CertInv, CertJobs, CertJob, AttendanceFirst, Certificates!AttendanceFirst,
         Certificates!Issued
<1>4. Certificates!DuplicatesOverlap'
  BY DEF CertInv, Certificates!DuplicatesOverlap, Certificates!Issued
<1> QED
  BY <1>1, <1>2, <1>3, <1>4 DEF CertInv

(* A transaction that goes on, or ends, as nothing was open but what is.   *)
LEMMA CertOpenStep ==
    ASSUME CertInv, NEW r \in CertRequests, NEW t \in Certificates!Tx,
           certTx' = [certTx EXCEPT ![r] = t], Certificates!Open(r),
           certOverlap' = certOverlap
    PROVE  CertsTogether'
  BY DEF CertInv, CertsTogether, Certificates!Open, Certificates!TypeOK

(* A transaction begins together with those under way, with what it read.  *)
LEMMA CertBegins ==
    ASSUME CertInv, NEW r \in CertRequests, Certificates!Handle(r)
    PROVE  CertInv'
<1> DEFINE pcs == {"attended", "existing", "batch", "record", "evaluate", "refused"}
           begins(pc, u, type, todo) ==
               /\ Certificates!Begin(r, Certificates!NewTx(pc, u, type, todo))
               /\ pc \in {"attended", "existing", "record", "evaluate"} => u \in Users
               /\ pc = "existing" => type # Asistencia
               /\ pc = "record" => u \in confirmed
               /\ pc = "evaluate" => u \in attendance
<1>1. PICK pc \in pcs, u \in Users \cup {NoUser}, type \in Types, todo \in SUBSET Users :
        begins(pc, u, type, todo)
  <2>1. confirmed \in SUBSET Users /\ {} \in SUBSET Users /\ Asistencia \in Types
    BY CertificatesAssumption DEF Certificates!ConstantsAssumption, CertInv, Certificates!TypeOK
  <2>2. ASSUME NEW u \in Users, NEW type \in Types, Certificates!RequestCertificate(r, u, type)
        PROVE  \E pc \in pcs : begins(pc, u, type, {})
    BY <2>2 DEF Certificates!RequestCertificate
  <2>3. ASSUME NEW type \in Types, Certificates!GenerateBatch(r, type)
        PROVE  begins("batch", NoUser, type, confirmed)
    BY <2>3 DEF Certificates!GenerateBatch
  <2>4. ASSUME NEW u \in Users, Certificates!RecordAttendance(r, u)
        PROVE  \E pc \in pcs : begins(pc, u, Asistencia, {})
    BY <2>4 DEF Certificates!RecordAttendance
  <2>5. ASSUME NEW u \in Users, Certificates!SubmitEvaluation(r, u)
        PROVE  \E pc \in pcs : begins(pc, u, Asistencia, {})
    BY <2>5 DEF Certificates!SubmitEvaluation
  <2> HIDE DEF begins
  <2> QED
    BY <2>1, <2>2, <2>3, <2>4, <2>5 DEF Certificates!Handle
<1> DEFINE t == Certificates!NewTx(pc, u, type, todo)
<1>2. /\ certTx[r].pc = "idle"
      /\ certTx' = [certTx EXCEPT ![r] = t]
      /\ certOverlap' = certOverlap \cup
            {{r, q} : q \in {q \in CertRequests \ {r} : Certificates!Open(q)}}
      /\ UNCHANGED <<confirmed, everConfirmed, attendance, evaluated, certs, jobs, files,
                      unheard, everUnheard>>
  BY <1>1 DEF Certificates!Begin, Certificates!people, Certificates!issued
<1>3. /\ t \in Certificates!Tx
      /\ t.pc = pc /\ t.user = u /\ t.type = type
      /\ \A c \in Codes : t.drafts[c] = NoUser
  BY DEF Certificates!NewTx, Certificates!Tx
<1>4. CertsTogether'
  BY <1>2 DEF CertInv, CertsTogether, Certificates!Open, Certificates!TypeOK
<1>5. certTx'[r] = t
  BY <1>2 DEF CertInv, Certificates!TypeOK
<1>6. CertReads(r)'
  BY <1>1, <1>2, <1>3, <1>5 DEF CertReads, CertInv, Certificates!TypeOK
<1>7. CertDrafts(r)'
  BY <1>3, <1>5 DEF CertDrafts, CertDraft
<1>8. certOverlap' \subseteq SUBSET CertRequests
  BY <1>2 DEF CertInv, Certificates!TypeOK
<1> QED
  BY <1>2, <1>3, <1>4, <1>6, <1>7, <1>8, CertTxStep

(* A step to another pc, with what it has read and drafted.                *)
LEMMA CertGoes ==
    ASSUME CertInv, NEW r \in CertRequests, NEW from, NEW to,
           Certificates!Goes(r, from, to), Certificates!Open(r),
           to \in {"existing", "insert", "recorded", "commit", "done", "refused", "ambiguous",
                  "collided"},
           from \in {"attended", "existing", "batch", "record", "insert"},
           from = "batch" => to = "commit",
           CertReads(r)'
    PROVE  CertInv'
<1> DEFINE t == [certTx[r] EXCEPT !.pc = to]
<1>1. /\ certTx[r].pc = from
      /\ certTx' = [certTx EXCEPT ![r] = t]
      /\ certOverlap' = certOverlap
      /\ UNCHANGED <<confirmed, everConfirmed, attendance, evaluated, certs, jobs, files,
                      unheard, everUnheard>>
  BY DEF Certificates!Goes, Certificates!people, Certificates!issued
<1>2. /\ t \in Certificates!Tx
      /\ t.drafts = certTx[r].drafts /\ t.type = certTx[r].type /\ t.todo = certTx[r].todo
      /\ t.pc = to
  BY CertTypes DEF CertInv, Certificates!Tx
<1>3. certTx'[r] = t
  BY <1>1 DEF CertInv, Certificates!TypeOK
<1>4. \A q \in CertRequests \ {r} : certTx'[q] = certTx[q]
  BY <1>1 DEF CertInv, Certificates!TypeOK
<1>5. ASSUME NEW c \in Codes PROVE CertDraft(r, c)'
  <2>1. CertDraft(r, c)
    BY DEF CertInv, CertDrafts
  <2> HIDE DEF t
  <2> QED
    BY <1>1, <1>2, <1>3, <1>4, <2>1 DEF CertDraft, Certificates!Issued
<1>6. CertDrafts(r)' /\ CertsTogether'
  BY <1>1, <1>2, <1>5, CertOpenStep DEF CertDrafts
<1>7. certOverlap' \subseteq SUBSET CertRequests
  BY <1>1 DEF CertInv, Certificates!TypeOK
<1> HIDE DEF t
<1> QED
  BY <1>1, <1>2, <1>6, <1>7, CertTxStep

(* A certificate is drafted for a user who has none and is in no draft.    *)
LEMMA CertInserts ==
    ASSUME CertInv, NEW r \in CertRequests, NEW u \in Users, NEW todo \in SUBSET Users,
           NEW to \in {"batch", "commit"},
           Certificates!Inserts(r, u, todo, to),
           \/ certTx[r].pc = "existing"
           \/ certTx[r].pc = "batch" /\ u \in certTx[r].todo,
           todo \subseteq certTx[r].todo \ {u},
           Certificates!CertsOf(u, certTx[r].type) = {},
           certTx[r].type = Asistencia => u \in attendance
    PROVE  CertInv'
<1>0. PICK code \in Certificates!FreshCodes : code = CHOOSE c \in Certificates!FreshCodes : TRUE
  BY DEF Certificates!Inserts
<1> DEFINE t == [pc |-> to, user |-> certTx[r].user, type |-> certTx[r].type, todo |-> todo,
                 drafts |-> [certTx[r].drafts EXCEPT ![code] = u]]
<1>1. /\ certTx' = [certTx EXCEPT ![r] = t]
      /\ certOverlap' = certOverlap
      /\ UNCHANGED <<confirmed, everConfirmed, attendance, evaluated, certs, jobs, files,
                      unheard, everUnheard>>
  BY <1>0 DEF Certificates!Inserts, Certificates!people, Certificates!issued
<1>2. /\ code \in Codes /\ certs[code] = Certificates!NoCert
      /\ \A q \in CertRequests : certTx[q].drafts[code] = NoUser
  BY DEF Certificates!FreshCodes, Certificates!Issued
<1>3. /\ t \in Certificates!Tx
      /\ \A c \in Codes : t.drafts[c] = IF c = code THEN u ELSE certTx[r].drafts[c]
      /\ t.type = certTx[r].type /\ t.todo = todo /\ t.pc = to
  <2>1. /\ certTx[r].user \in Users \cup {NoUser} /\ certTx[r].type \in Types
        /\ certTx[r].drafts \in [Codes -> Users \cup {NoUser}]
    BY CertTypes DEF CertInv, Certificates!Tx
  <2>2. t.drafts \in [Codes -> Users \cup {NoUser}]
    BY <1>2, <2>1
  <2> QED
    BY <1>2, <2>1, <2>2 DEF Certificates!Tx
<1> HIDE DEF t
<1>4. certTx'[r] = t /\ \A q \in CertRequests \ {r} : certTx'[q] = certTx[q]
  BY <1>1 DEF CertInv, Certificates!TypeOK
<1>5. \A c \in Codes : certTx[r].drafts[c] # u
  BY CertificatesAssumption
  DEF Certificates!ConstantsAssumption, CertInv, CertDrafts, CertDraft
<1>6. ASSUME NEW c \in Codes, c # code PROVE CertDraft(r, c)'
  <2>1. CertDraft(r, c)
    BY DEF CertInv, CertDrafts
  <2> QED
    BY <1>1, <1>3, <1>4, <1>5, <1>6, <2>1 DEF CertDraft, Certificates!Issued
<1>7. CertDraft(r, code)'
  <2>1. \A d \in Certificates!Issued : ~ (certs[d].user = u /\ certs[d].type = certTx[r].type)
    BY DEF Certificates!CertsOf
  <2>2. /\ certTx'[r].drafts[code] = u /\ certTx'[r].pc \in {"batch", "commit"}
        /\ u \notin certTx'[r].todo /\ certTx'[r].type = certTx[r].type
        /\ \A d \in Codes \ {code} : certTx'[r].drafts[d] # u
        /\ \A q \in CertRequests \ {r} : certTx'[q].drafts[code] = NoUser
    BY <1>2, <1>3, <1>4, <1>5
  <2> QED
    BY <1>1, <1>2, <2>1, <2>2 DEF CertDraft, Certificates!Issued
<1>8. CertReads(r)'
  BY <1>1, <1>3, <1>4 DEF CertReads
<1>9. CertDrafts(r)' /\ CertsTogether'
  <2>1. Certificates!Open(r)
    BY DEF Certificates!Open
  <2>2. CertsTogether'
    BY <1>1, <1>3, <2>1, CertOpenStep
  <2> QED
    BY <1>6, <1>7, <2>2 DEF CertDrafts
<1>10. certOverlap' \subseteq SUBSET CertRequests
  BY <1>1 DEF CertInv, Certificates!TypeOK
<1> QED
  BY <1>1, <1>2, <1>3, <1>8, <1>9, <1>10, CertTxStep

(* Looks: for an attendance, for a certificate.                            *)
LEMMA CertLooks ==
    ASSUME CertInv, NEW r \in CertRequests,
           Certificates!Attended(r) \/ Certificates!Existing(r) \/ Certificates!Recorded(r)
    PROVE  CertInv'
<1>1. CertReads(r)
  BY DEF CertInv
<1>2. CASE Certificates!Attended(r)
  <2> DEFINE to == IF certTx[r].user \in attendance THEN "existing" ELSE "refused"
  <2>1. Certificates!Goes(r, "attended", to)
    BY <1>2 DEF Certificates!Attended
  <2>2. CertReads(r)'
    BY <1>1, <2>1, CertTypes
    DEF CertReads, CertInv, Certificates!TypeOK, Certificates!Goes, Certificates!Tx,
        Certificates!people, Certificates!issued
  <2> QED
    BY <2>1, <2>2, CertGoes DEF Certificates!Goes, Certificates!Open
<1>3. CASE Certificates!Existing(r)
  <2>1. CASE /\ Certificates!CertsOf(certTx[r].user, certTx[r].type) = {}
             /\ certTx[r].pc = "existing"
             /\ Certificates!Inserts(r, certTx[r].user, {}, "commit")
    BY <1>1, <2>1, CertInserts DEF CertReads
  <2>2. ASSUME NEW to \in {"done", "ambiguous"}, Certificates!Goes(r, "existing", to)
        PROVE  CertInv'
    <3>1. CertReads(r)'
      BY <2>2, CertTypes DEF CertReads, CertInv, Certificates!TypeOK, Certificates!Goes
    <3> QED
      BY <2>2, <3>1, CertGoes DEF Certificates!Goes, Certificates!Open
  <2> QED
    BY <1>3, <2>1, <2>2 DEF Certificates!Existing
<1>4. CASE Certificates!Recorded(r)
  <2> DEFINE to == IF certTx[r].user \in attendance THEN "done" ELSE "insert"
  <2>1. Certificates!Goes(r, "record", to)
    BY <1>4 DEF Certificates!Recorded
  <2>2. CertReads(r)'
    BY <1>1, <2>1, CertTypes
    DEF CertReads, CertInv, Certificates!TypeOK, Certificates!Goes, Certificates!Tx,
        Certificates!people, Certificates!issued
  <2> QED
    BY <2>1, <2>2, CertGoes DEF Certificates!Goes, Certificates!Open
<1> QED
  BY <1>2, <1>3, <1>4

(* The steps of a batch, and the insert of an attendance.                  *)
LEMMA CertWrites ==
    ASSUME CertInv, NEW r \in CertRequests,
           \/ \E u \in Users : Certificates!BatchNext(r, u)
           \/ Certificates!BatchEnd(r)
           \/ Certificates!InsertAttendance(r)
    PROVE  CertInv'
<1>1. CertReads(r) /\ certTx[r] \in Certificates!Tx
  BY CertTypes DEF CertInv
<1>2. ASSUME NEW u \in Users, Certificates!BatchNext(r, u) PROVE CertInv'
  <2> DEFINE left == certTx[r].todo \ {u}
  <2>1. /\ certTx[r].pc = "batch" /\ u \in certTx[r].todo
        /\ left \in SUBSET Users
    BY <1>1, <1>2 DEF Certificates!BatchNext, Certificates!Tx
  <2>2. CASE /\ u \in attendance
             /\ Certificates!CertsOf(u, certTx[r].type) = {}
             /\ Certificates!Inserts(r, u, left, "batch")
    BY <2>1, <2>2, CertInserts
  <2>3. CASE /\ certTx' = [certTx EXCEPT ![r].todo = left]
             /\ UNCHANGED <<Certificates!people, attendance, evaluated, Certificates!issued,
                            certOverlap>>
    <3> DEFINE t == [certTx[r] EXCEPT !.todo = left]
    <3>1. /\ certTx' = [certTx EXCEPT ![r] = t]
          /\ certOverlap' = certOverlap
          /\ UNCHANGED <<confirmed, everConfirmed, attendance, evaluated, certs, jobs, files,
                      unheard, everUnheard>>
      BY <2>3 DEF Certificates!people, Certificates!issued
    <3>2. /\ t \in Certificates!Tx /\ t.drafts = certTx[r].drafts
          /\ t.type = certTx[r].type /\ t.todo \subseteq certTx[r].todo
          /\ t.pc = "batch"
      BY <1>1, <2>1 DEF Certificates!Tx
    <3> HIDE DEF t
    <3>3. certTx'[r] = t /\ \A q \in CertRequests \ {r} : certTx'[q] = certTx[q]
      BY <3>1 DEF CertInv, Certificates!TypeOK
    <3>4. ASSUME NEW c \in Codes PROVE CertDraft(r, c)'
      <4>1. CertDraft(r, c)
        BY DEF CertInv, CertDrafts
      <4> QED
        BY <2>1, <3>1, <3>2, <3>3, <4>1 DEF CertDraft, Certificates!Issued
    <3>5. CertReads(r)'
      BY <3>1, <3>2, <3>3 DEF CertReads
    <3>6. CertDrafts(r)' /\ CertsTogether' /\ certOverlap' \subseteq SUBSET CertRequests
      BY <2>1, <3>1, <3>2, <3>4, CertOpenStep
      DEF CertDrafts, Certificates!Open, CertInv, Certificates!TypeOK
    <3> QED
      BY <3>1, <3>2, <3>5, <3>6, CertTxStep
  <2> QED
    BY <1>2, <2>2, <2>3 DEF Certificates!BatchNext
<1>3. CASE Certificates!BatchEnd(r)
  <2>1. Certificates!Goes(r, "batch", "commit")
    BY <1>3 DEF Certificates!BatchEnd
  <2>2. CertReads(r)'
    BY <2>1, CertTypes DEF CertReads, CertInv, Certificates!TypeOK, Certificates!Goes
  <2> QED
    BY <2>1, <2>2, CertGoes DEF Certificates!Goes, Certificates!Open
<1>4. CASE Certificates!InsertAttendance(r)
  <2> DEFINE to == IF certTx[r].user \in attendance THEN "collided" ELSE "recorded"
  <2>1. Certificates!Goes(r, "insert", to)
    BY <1>4 DEF Certificates!InsertAttendance
  <2>2. CertReads(r)'
    BY <1>1, <2>1, CertTypes
    DEF CertReads, CertInv, Certificates!TypeOK, Certificates!Goes, Certificates!Tx,
        Certificates!people, Certificates!issued, Accompanied
  <2> QED
    BY <2>1, <2>2, CertGoes DEF Certificates!Goes, Certificates!Open
<1> QED
  BY <1>2, <1>3, <1>4

(* A transaction that ends has read and drafted nothing.                   *)
LEMMA CertClosed ==
    ASSUME CertInv, NEW r \in CertRequests, certTx' = Certificates!Closed(r)
    PROVE  /\ certTx' \in [CertRequests -> Certificates!Tx]
           /\ certTx'[r].pc = "done"
           /\ \A c \in Codes : certTx'[r].drafts[c] = NoUser
           /\ \A q \in CertRequests \ {r} : certTx'[q] = certTx[q]
           /\ CertReads(r)' /\ CertDrafts(r)'
           /\ Certificates!Open(r) /\ certOverlap' = certOverlap => CertsTogether'
<1> DEFINE t == Certificates!NewTx("done", NoUser, Asistencia, {})
<1>1. certTx' = [certTx EXCEPT ![r] = t]
  BY DEF Certificates!Closed
<1>2. /\ t \in Certificates!Tx /\ t.pc = "done"
      /\ \A c \in Codes : t.drafts[c] = NoUser
  BY CertificatesAssumption
  DEF Certificates!ConstantsAssumption, Certificates!NewTx, Certificates!Tx
<1> HIDE DEF t
<1>3. /\ certTx' \in [CertRequests -> Certificates!Tx] /\ certTx'[r] = t
      /\ \A q \in CertRequests \ {r} : certTx'[q] = certTx[q]
  BY <1>1, <1>2 DEF CertInv, Certificates!TypeOK
<1>4. CertReads(r)' /\ CertDrafts(r)'
  BY <1>2, <1>3 DEF CertReads, CertDrafts, CertDraft
<1>5. Certificates!Open(r) /\ certOverlap' = certOverlap => CertsTogether'
  BY <1>1, <1>2, CertOpenStep
<1> QED
  BY <1>2, <1>3, <1>4, <1>5

(* Drafts become certificates: whoever had one to him was there meanwhile. *)
LEMMA CertCommits ==
    ASSUME CertInv, NEW r \in CertRequests, Certificates!CommitCertificates(r)
    PROVE  CertInv'
<1> DEFINE D == {c \in Codes : certTx[r].drafts[c] # NoUser}
           cert(c) == [user |-> certTx[r].drafts[c], type |-> certTx[r].type,
                       ready |-> FALSE, by |-> r]
<1>1. /\ certTx[r].pc = "commit"
      /\ certTx' = Certificates!Closed(r)
      /\ certs' = [c \in Codes |-> IF c \in D THEN cert(c) ELSE certs[c]]
      /\ jobs' = [c \in Codes |->
                    IF c \in D THEN [state |-> "pending", retries |-> 0] ELSE jobs[c]]
      /\ UNCHANGED <<confirmed, everConfirmed, attendance, evaluated, files, unheard,
                      everUnheard, certOverlap>>
  BY DEF Certificates!CommitCertificates, Certificates!Drafts, Certificates!people
<1>2. /\ certTx' \in [CertRequests -> Certificates!Tx]
      /\ CertReads(r)' /\ CertDrafts(r)' /\ CertsTogether'
      /\ \A q \in CertRequests \ {r} : certTx'[q] = certTx[q]
      /\ \A c \in Codes : certTx'[r].drafts[c] = NoUser
  BY <1>1, CertClosed DEF Certificates!Open
<1>3. \A c \in D : CertDraft(r, c) /\ certTx[r].drafts[c] # NoUser
  BY DEF CertInv, CertDrafts
<1>4. \A c \in D : /\ certs'[c] = cert(c) /\ cert(c) \in Certificates!Cert
                   /\ cert(c) # Certificates!NoCert /\ certs[c] = Certificates!NoCert
  <2>1. \A c \in D : certTx[r].drafts[c] \in Users /\ certTx[r].type \in Types
    BY CertTypes DEF CertInv, Certificates!Tx
  <2>2. \A c \in D : cert(c).user # NoUser /\ Certificates!NoCert.user = NoUser
    BY DEF Certificates!NoCert
  <2> QED
    BY <1>1, <1>3, <2>1, <2>2 DEF CertDraft, Certificates!Cert
<1> HIDE DEF cert
<1>5. Certificates!Issued' = Certificates!Issued \cup D
      /\ \A c \in Codes \ D : certs'[c] = certs[c] /\ jobs'[c] = jobs[c]
  BY <1>1, <1>4 DEF Certificates!Issued
<1>6. \A c \in D : jobs'[c] = [state |-> "pending", retries |-> 0] /\ c \in Codes
  BY <1>1
<1>7. \A c \in D : /\ cert(c).user = certTx[r].drafts[c] /\ cert(c).type = certTx[r].type
                   /\ cert(c).by = r /\ cert(c).ready = FALSE
  BY DEF cert
<1> HIDE DEF D
<1>8. Certificates!TypeOK'
  <2>1. certs' \in [Codes -> Certificates!Cert \cup {Certificates!NoCert}]
    BY <1>1, <1>4 DEF CertInv, Certificates!TypeOK
  <2>2. jobs' \in [Codes -> Certificates!Job]
    BY <1>1, <1>6, CertificatesAssumption
    DEF CertInv, Certificates!TypeOK, Certificates!Job, Certificates!ConstantsAssumption
  <2> QED
    BY <1>1, <1>2, <2>1, <2>2 DEF CertInv, Certificates!TypeOK
<1>9. ASSUME NEW q \in CertRequests, q # r PROVE CertReads(q)' /\ CertDrafts(q)'
  <2>1. CertReads(q) /\ certTx'[q] = certTx[q]
    BY <1>2, <1>9 DEF CertInv
  <2>2. CertReads(q)'
    BY <1>1, <2>1 DEF CertReads, Accompanied
  <2>3. ASSUME NEW c \in Codes, certTx[q].drafts[c] # NoUser PROVE CertDraft(q, c)'
    <3>1. CertDraft(q, c)
      BY DEF CertInv, CertDrafts
    <3>2. c \notin D
      BY <1>3, <1>9, <2>3 DEF CertDraft
    <3>3. {q, r} \in certOverlap
      BY <1>1, <1>9, <2>3, <3>1 DEF CertDraft, CertInv, CertsTogether, Certificates!Open
    <3>4. \A d \in Certificates!Issued' :
            certs'[d].user = certTx[q].drafts[c] /\ certs'[d].type = certTx[q].type
                => {q, certs'[d].by} \in certOverlap
      <4> SUFFICES ASSUME NEW d \in Certificates!Issued \cup D,
                          certs'[d].user = certTx[q].drafts[c], certs'[d].type = certTx[q].type
                   PROVE  {q, certs'[d].by} \in certOverlap
        BY <1>5
      <4>1. CASE d \in D
        BY <1>4, <1>7, <3>3, <4>1
      <4>2. CASE d \notin D
        BY <1>5, <2>3, <3>1, <4>2 DEF CertDraft, Certificates!Issued
      <4> QED
        BY <4>1, <4>2
    <3>5. \A p \in CertRequests \ {q} : certTx'[p].drafts[c] = NoUser
      BY <1>2, <2>3, <3>1 DEF CertDraft
    <3> QED
      BY <1>1, <1>5, <2>1, <3>1, <3>2, <3>4, <3>5 DEF CertDraft
  <2> QED
    BY <2>1, <2>2, <2>3 DEF CertDrafts, CertDraft
<1>10. CertJobs'
  <2>1. 0 < MaxRetries
    BY CertificatesAssumption DEF Certificates!ConstantsAssumption
  <2>2. ASSUME NEW c \in D
        PROVE  /\ jobs'[c].state = "pending" /\ jobs'[c].retries = 0
               /\ certs'[c] # Certificates!NoCert /\ ~ certs'[c].ready
    BY <1>4, <1>6, <1>7
  <2> QED
    <3> SUFFICES ASSUME NEW c \in Codes PROVE CertJob(c)'
      BY DEF CertJobs
    <3>1. CertJob(c)
      BY DEF CertInv, CertJobs
    <3>2. CASE c \in D
      <4>1. c \notin unheard
        BY <1>4, <3>1, <3>2 DEF CertJob
      <4> QED
        BY <1>1, <2>1, <2>2, <3>2, <4>1 DEF CertJob
    <3>3. CASE c \notin D
      BY <1>1, <1>5, <3>1, <3>3 DEF CertJob
    <3> QED
      BY <3>2, <3>3
<1>11. AttendanceFirst'
  <2>1. \A c \in Certificates!Issued' :
          certs'[c].type = Asistencia => certs'[c].user \in attendance
    BY <1>3, <1>4, <1>5, <1>7
    DEF CertDraft, CertInv, AttendanceFirst, Certificates!AttendanceFirst, Certificates!Issued
  <2> QED
    BY <1>1, <2>1 DEF CertInv, AttendanceFirst, Certificates!AttendanceFirst
<1>12. Certificates!DuplicatesOverlap'
  <2>1. ASSUME NEW c \in D, NEW d \in Certificates!Issued', c # d,
               certs'[c].user = certs'[d].user, certs'[c].type = certs'[d].type
        PROVE  {certs'[c].by, certs'[d].by} \in certOverlap
    <3>1. CertDraft(r, c) /\ c \in Codes
      BY <1>3, <1>6
    <3>2. d \notin D
      BY <1>3, <1>4, <1>6, <1>7, <2>1, <3>1 DEF CertDraft
    <3> QED
      BY <1>3, <1>4, <1>5, <1>7, <2>1, <3>1, <3>2 DEF CertDraft, Certificates!Issued
  <2>2. ASSUME NEW c \in Certificates!Issued', NEW d \in Certificates!Issued', c # d,
               certs'[c].user = certs'[d].user, certs'[c].type = certs'[d].type
        PROVE  {certs'[c].by, certs'[d].by} \in certOverlap
    <3>1. CASE c \in D
      BY <2>1, <2>2, <3>1
    <3>2. CASE d \in D
      <4>1. {certs'[d].by, certs'[c].by} \in certOverlap
        BY <2>1, <2>2, <3>2
      <4>2. {certs'[d].by, certs'[c].by} = {certs'[c].by, certs'[d].by}
        OBVIOUS
      <4> QED
        BY <4>1, <4>2
    <3>3. CASE c \notin D /\ d \notin D
      BY <1>5, <2>2, <3>3 DEF CertInv, Certificates!DuplicatesOverlap, Certificates!Issued
    <3> QED
      BY <3>1, <3>2, <3>3
  <2> QED
    BY <1>1, <2>2 DEF Certificates!DuplicatesOverlap
<1> QED
  BY <1>2, <1>8, <1>9, <1>10, <1>11, <1>12 DEF CertInv

(* An attendance or an evaluation is committed, or nothing is.             *)
LEMMA CertEnds ==
    ASSUME CertInv, NEW r \in CertRequests,
           \/ Certificates!CommitAttendance(r)
           \/ Certificates!CommitEvaluation(r)
           \/ Certificates!Abort(r)
    PROVE  CertInv'
<1>1. /\ certTx' = Certificates!Closed(r)
      /\ Certificates!Open(r)
      /\ UNCHANGED <<confirmed, everConfirmed, certs, jobs, files, unheard, everUnheard, certOverlap>>
      /\ \/ attendance' = attendance
         \/ certTx[r].pc = "recorded" /\ attendance' = attendance \cup {certTx[r].user}
      /\ \/ evaluated' = evaluated
         \/ certTx[r].pc = "evaluate" /\ evaluated' = evaluated \cup {certTx[r].user}
  BY DEF Certificates!CommitAttendance, Certificates!CommitEvaluation, Certificates!Abort,
         Certificates!people, Certificates!issued, Certificates!Open
<1>2. /\ certTx' \in [CertRequests -> Certificates!Tx]
      /\ CertReads(r)' /\ CertDrafts(r)' /\ CertsTogether'
      /\ \A q \in CertRequests \ {r} : certTx'[q] = certTx[q]
      /\ \A c \in Codes : certTx'[r].drafts[c] = NoUser
  BY <1>1, CertClosed
<1>3. CertReads(r)
  BY DEF CertInv
<1>4. Certificates!TypeOK'
  BY <1>1, <1>2, <1>3 DEF CertInv, Certificates!TypeOK, CertReads
<1>5. AttendanceFirst' /\ CertJobs' /\ Certificates!DuplicatesOverlap'
  BY <1>1, <1>3
  DEF CertInv, CertReads, AttendanceFirst, Certificates!AttendanceFirst, Certificates!Issued,
      CertJobs, CertJob, Certificates!DuplicatesOverlap
<1>6. ASSUME NEW q \in CertRequests, q # r PROVE CertReads(q)' /\ CertDrafts(q)'
  <2>1. CertReads(q) /\ CertDrafts(q) /\ certTx'[q] = certTx[q]
    BY <1>2, <1>6 DEF CertInv
  <2>2. Accompanied(q) => Accompanied(q)'
    BY <1>1 DEF Accompanied
  <2>3. certTx[q].pc = "insert" => Accompanied(q)'
    BY <1>1, <1>6 DEF Accompanied, CertInv, CertsTogether, Certificates!Open
  <2>4. CertReads(q)'
    BY <1>1, <2>1, <2>2, <2>3 DEF CertReads
  <2>5. CertDrafts(q)'
    BY <1>1, <1>2, <2>1 DEF CertDrafts, CertDraft, Certificates!Issued
  <2> QED
    BY <2>4, <2>5
<1> QED
  BY <1>2, <1>4, <1>5, <1>6 DEF CertInv

(* A job is retried within its budget, and done once its file is there.    *)
LEMMA CertWorks ==
    ASSUME CertInv, NEW c \in Codes,
           \/ Certificates!Claim(c) \/ Certificates!Render(c)
           \/ Certificates!Complete(c) \/ Certificates!CompleteUnheard(c)
           \/ Certificates!Fail(c)
    PROVE  CertInv'
<1> USE DEF Certificates!others, Certificates!worker, Certificates!people
<1>1. /\ UNCHANGED <<confirmed, everConfirmed, attendance, evaluated, certTx, certOverlap>>
      /\ files \subseteq files' /\ files' \subseteq files \cup {c}
  BY DEF Certificates!Claim, Certificates!Render, Certificates!Complete,
         Certificates!CompleteUnheard, Certificates!Finish, Certificates!Fail
<1>2. jobs[c] \in Certificates!Job /\ MaxRetries \in Nat \ {0} /\ CertJob(c)
  BY CertTypes, CertificatesAssumption
  DEF CertInv, Certificates!ConstantsAssumption, Certificates!TypeOK, CertJobs
<1>0. jobs[c].state # "none" =>
        certs[c] # Certificates!NoCert /\ certs[c] \in Certificates!Cert
  <2>1. certs[c] \in Certificates!Cert \cup {Certificates!NoCert}
    BY DEF CertInv, Certificates!TypeOK
  <2> QED
    BY <1>2, <2>1 DEF CertJob
<1>3. PICK job \in Certificates!Job :
        /\ jobs' = [jobs EXCEPT ![c] = job]
        /\ jobs[c].state \in {"pending", "processing"} \/ c \in unheard \/ jobs' = jobs
        /\ job.state # "none" \/ jobs' = jobs
        /\ job.state \in {"pending", "processing"} \/ c \in unheard' => job.retries < MaxRetries
        /\ \/ /\ certs' = certs
              /\ job.state = "done" => jobs[c].state = "done"
              /\ jobs[c].state = "done" => job.state = "done" \/ c \in unheard
           \/ /\ certs' = [certs EXCEPT ![c].ready = TRUE]
              /\ jobs[c].state = "processing" /\ job.state = "done" /\ c \in files
        /\ c \in unheard' => job.state = "done" /\ c \in everUnheard'
        /\ everUnheard \subseteq everUnheard' /\ everUnheard' \subseteq everUnheard \cup {c}
        /\ \A d \in unheard' \ {c} : d \in unheard
  <2>1. /\ jobs[c].state \in {"none", "pending", "processing", "done", "failed"}
        /\ jobs[c].retries \in 0 .. MaxRetries
        /\ jobs[c].state \in {"pending", "processing"} \/ c \in unheard
              => jobs[c].retries < MaxRetries
        /\ c \in unheard => jobs[c].state = "done" /\ c \in everUnheard
    BY <1>2 DEF CertInv, CertJob, Certificates!Job, Certificates!TypeOK
  <2>2. CASE Certificates!Claim(c)
    <3> DEFINE job == [jobs[c] EXCEPT !.state = "processing"]
    <3>1. /\ job \in Certificates!Job /\ job.state = "processing"
          /\ job.retries = jobs[c].retries
      BY <1>2 DEF Certificates!Job
    <3>2. /\ jobs' = [jobs EXCEPT ![c] = job] /\ certs' = certs /\ jobs[c].state = "pending"
          /\ unheard' = unheard /\ everUnheard' = everUnheard
      BY <2>2 DEF Certificates!Claim
    <3> HIDE DEF job
    <3> QED
      BY <2>1, <3>1, <3>2
  <2>3. CASE Certificates!Render(c)
    <3>1. /\ jobs' = jobs /\ certs' = certs
          /\ unheard' = unheard /\ everUnheard' = everUnheard
      BY <2>3 DEF Certificates!Render
    <3>2. jobs' = [jobs EXCEPT ![c] = jobs[c]]
      BY <3>1 DEF CertInv, Certificates!TypeOK
    <3> QED
      BY <1>2, <2>1, <3>1, <3>2
  <2>4. CASE Certificates!Complete(c) \/ Certificates!CompleteUnheard(c)
    <3> DEFINE job == [jobs[c] EXCEPT !.state = "done"]
    <3>1. job \in Certificates!Job /\ job.state = "done" /\ job.retries = jobs[c].retries
      BY <1>2 DEF Certificates!Job
    <3>2. /\ jobs' = [jobs EXCEPT ![c] = job] /\ certs' = [certs EXCEPT ![c].ready = TRUE]
          /\ jobs[c].state = "processing" /\ c \in files
          /\ \/ unheard' = unheard /\ everUnheard' = everUnheard
             \/ unheard' = unheard \cup {c} /\ everUnheard' = everUnheard \cup {c}
      BY <2>4 DEF Certificates!Complete, Certificates!CompleteUnheard, Certificates!Finish
    <3> HIDE DEF job
    <3> QED
      BY <2>1, <3>1, <3>2
  <2>5. CASE Certificates!Fail(c)
    <3> DEFINE state == IF jobs[c].retries + 1 < MaxRetries THEN "pending" ELSE "failed"
               job == [state |-> state, retries |-> jobs[c].retries + 1]
    <3>1. /\ jobs' = [jobs EXCEPT ![c] = job] /\ certs' = certs
          /\ jobs[c].state = "processing" \/ c \in unheard
          /\ unheard' = unheard \ {c} /\ everUnheard' = everUnheard
      BY <2>5 DEF Certificates!Fail
    <3>2. jobs[c].retries + 1 \in 0 .. MaxRetries
      BY <1>2, <2>1, <3>1
    <3>3. /\ job \in Certificates!Job
          /\ job.state \in {"pending", "failed"} /\ job.retries = jobs[c].retries + 1
          /\ job.state = "pending" => job.retries < MaxRetries
      BY <3>2 DEF Certificates!Job
    <3> HIDE DEF job
    <3> QED
      BY <2>1, <3>1, <3>3
  <2> QED
    BY <2>2, <2>3, <2>4, <2>5
<1>4. jobs'[c] = job /\ \A d \in Codes \ {c} : jobs'[d] = jobs[d] /\ certs'[d] = certs[d]
  BY <1>3 DEF CertInv, Certificates!TypeOK
<1>5. jobs' # jobs => certs[c] # Certificates!NoCert
  BY <1>2, <1>3 DEF CertJob
<1>6. /\ Certificates!Issued' = Certificates!Issued
      /\ certs' \in [Codes -> Certificates!Cert \cup {Certificates!NoCert}]
      /\ \A d \in Certificates!Issued :
            /\ certs'[d].user = certs[d].user /\ certs'[d].type = certs[d].type
            /\ certs'[d].by = certs[d].by
      /\ \A d \in Codes : certs'[d] = Certificates!NoCert <=> certs[d] = Certificates!NoCert
  <2>1. CASE certs' = certs
    BY <2>1 DEF CertInv, Certificates!TypeOK, Certificates!Issued
  <2>2. CASE certs' = [certs EXCEPT ![c].ready = TRUE] /\ jobs[c].state = "processing"
    <3>1. certs[c] # Certificates!NoCert /\ certs[c] \in Certificates!Cert
      BY <1>0, <2>2
    <3>2. /\ certs'[c] \in Certificates!Cert
          /\ certs'[c].user = certs[c].user /\ certs'[c].type = certs[c].type
          /\ certs'[c].by = certs[c].by
      BY <2>2, <3>1 DEF CertInv, Certificates!TypeOK, Certificates!Cert
    <3>3. certs'[c] # Certificates!NoCert
      BY <3>2, CertificatesAssumption
      DEF Certificates!Cert, Certificates!NoCert, Certificates!ConstantsAssumption
    <3> QED
      BY <2>2, <3>1, <3>2, <3>3, <1>4 DEF CertInv, Certificates!TypeOK, Certificates!Issued
  <2> QED
    BY <1>3, <2>1, <2>2
<1>7. Certificates!TypeOK'
  <2>1. unheard' \subseteq everUnheard' /\ everUnheard' \subseteq Codes
    BY <1>3 DEF CertInv, Certificates!TypeOK
  <2> QED
    BY <1>1, <1>3, <1>6, <2>1 DEF CertInv, Certificates!TypeOK
<1>8. CertJobs'
  <2>1. certs'[c] # Certificates!NoCert =>
            /\ certs'[c].ready => c \in files'
            /\ jobs'[c].state = "done" => certs'[c].ready
            /\ certs'[c].ready => jobs'[c].state = "done" \/ c \in everUnheard'
    <3>1. CASE /\ certs' = certs
               /\ job.state = "done" => jobs[c].state = "done"
               /\ jobs[c].state = "done" => job.state = "done" \/ c \in unheard
      <4>1. c \in unheard => c \in everUnheard
        BY DEF CertInv, Certificates!TypeOK
      <4> QED
        BY <1>1, <1>2, <1>3, <1>4, <3>1, <4>1 DEF CertJob
    <3>2. CASE /\ certs' = [certs EXCEPT ![c].ready = TRUE] /\ jobs[c].state = "processing"
               /\ job.state = "done" /\ c \in files
      <4>1. certs[c] \in Certificates!Cert
        BY <1>0, <3>2
      <4>2. certs'[c].ready = TRUE
        BY <3>2, <4>1 DEF CertInv, Certificates!TypeOK, Certificates!Cert
      <4> QED
        BY <1>1, <1>4, <3>2, <4>2
    <3> QED
      BY <1>3, <3>1, <3>2
  <2>2. /\ jobs'[c].state \in {"pending", "processing"} \/ c \in unheard'
              => jobs'[c].retries < MaxRetries
        /\ certs'[c] = Certificates!NoCert <=> jobs'[c].state = "none"
        /\ c \in unheard' => jobs'[c].state = "done"
    BY <1>2, <1>3, <1>4, <1>5, <1>6 DEF CertJob
  <2>3. ASSUME NEW d \in Codes, d # c PROVE CertJob(d)'
    <3>1. CertJob(d) /\ jobs'[d] = jobs[d] /\ certs'[d] = certs[d]
      BY <1>4, <2>3 DEF CertInv, CertJobs
    <3>2. (d \in unheard' => d \in unheard) /\ (d \in everUnheard => d \in everUnheard')
      BY <1>3, <2>3
    <3> QED
      BY <1>1, <3>1, <3>2 DEF CertJob
  <2> QED
    BY <2>1, <2>2, <2>3 DEF CertJobs, CertJob
<1>9. AttendanceFirst' /\ Certificates!DuplicatesOverlap'
  BY <1>1, <1>6
  DEF CertInv, AttendanceFirst, Certificates!AttendanceFirst, Certificates!DuplicatesOverlap
<1>10. CertsTogether'
  BY <1>1 DEF CertInv, CertsTogether, Certificates!Open
<1>11. ASSUME NEW r \in CertRequests PROVE CertReads(r)' /\ CertDrafts(r)'
  <2>1. CertReads(r) /\ CertDrafts(r)
    BY DEF CertInv
  <2> QED
    BY <1>1, <1>6, <2>1 DEF CertReads, Accompanied, CertDrafts, CertDraft
<1> QED
  BY <1>7, <1>8, <1>9, <1>10, <1>11 DEF CertInv

(* Confirmations and cancellations of enrollments disturb nothing.         *)
LEMMA CertPeople ==
    ASSUME CertInv, UNCHANGED <<attendance, evaluated, certs, jobs, files, unheard, everUnheard, certTx,
                      certOverlap>>,
           confirmed' \subseteq everConfirmed', everConfirmed' \subseteq Users,
           everConfirmed \subseteq everConfirmed'
    PROVE  CertInv'
<1>1. Certificates!TypeOK'
  BY DEF CertInv, Certificates!TypeOK
<1>2. Certificates!Issued' = Certificates!Issued
  BY DEF Certificates!Issued
<1>3. AttendanceFirst' /\ Certificates!DuplicatesOverlap'
  BY <1>2 DEF CertInv, AttendanceFirst, Certificates!AttendanceFirst,
              Certificates!DuplicatesOverlap
<1>4. CertsTogether' /\ CertJobs'
  BY DEF CertInv, CertsTogether, Certificates!Open, CertJobs, CertJob
<1>5. ASSUME NEW r \in CertRequests PROVE CertReads(r)' /\ CertDrafts(r)'
  <2>1. CertReads(r) /\ CertDrafts(r)
    BY DEF CertInv
  <2> QED
    BY <1>2, <2>1 DEF CertReads, Accompanied, CertDrafts, CertDraft
<1> QED
  BY <1>1, <1>3, <1>4, <1>5 DEF CertInv

(* The invariant of Certificates, of every number of users, codes, requests*)
(* and retries.                                                            *)
THEOREM CertificatesCorrect == Certificates!Spec => []CertInv
<1>1. Certificates!Init => CertInv
  <2> SUFFICES ASSUME Certificates!Init PROVE CertInv
    OBVIOUS
  <2>1. /\ certTx = [r \in CertRequests |-> Certificates!NewTx("idle", NoUser, Asistencia, {})]
        /\ certs = [c \in Codes |-> Certificates!NoCert]
        /\ jobs = [c \in Codes |-> [state |-> "none", retries |-> 0]]
        /\ confirmed = {} /\ everConfirmed = {} /\ attendance = {} /\ evaluated = {}
        /\ files = {} /\ unheard = {} /\ everUnheard = {} /\ certOverlap = {}
    BY DEF Certificates!Init
  <2>2. Certificates!NewTx("idle", NoUser, Asistencia, {}) \in Certificates!Tx
    BY CertificatesAssumption
    DEF Certificates!ConstantsAssumption, Certificates!NewTx, Certificates!Tx
  <2>3. Certificates!TypeOK
    BY <2>1, <2>2, CertificatesAssumption
    DEF Certificates!ConstantsAssumption, Certificates!TypeOK, Certificates!Job
  <2>4. \A r \in CertRequests : certTx[r].pc = "idle"
                               /\ \A c \in Codes : certTx[r].drafts[c] = NoUser
    BY <2>1 DEF Certificates!NewTx
  <2>5. CertsTogether /\ \A r \in CertRequests : CertReads(r) /\ CertDrafts(r)
    BY <2>4 DEF CertsTogether, Certificates!Open, CertReads, CertDrafts, CertDraft
  <2>6. CertJobs /\ AttendanceFirst /\ Certificates!DuplicatesOverlap
    BY <2>1 DEF CertJobs, CertJob, AttendanceFirst, Certificates!AttendanceFirst,
                Certificates!DuplicatesOverlap, Certificates!Issued
  <2> QED
    BY <2>3, <2>5, <2>6 DEF CertInv
<1>2. CertInv /\ UNCHANGED Certificates!vars => CertInv'
  BY CertPeople DEF Certificates!vars, Certificates!people, Certificates!issued, CertInv,
                    Certificates!TypeOK
<1>3. CertInv /\ Certificates!EnrollmentChanges => CertInv'
  <2> SUFFICES ASSUME CertInv, Certificates!EnrollmentChanges PROVE CertInv'
    OBVIOUS
  <2>1. /\ confirmed' \subseteq everConfirmed' /\ everConfirmed' \subseteq Users
        /\ everConfirmed \subseteq everConfirmed'
        /\ UNCHANGED <<attendance, evaluated, certs, jobs, files, unheard, everUnheard, certTx,
                      certOverlap>>
    BY DEF Certificates!EnrollmentChanges, Certificates!issued, CertInv, Certificates!TypeOK
  <2> QED
    BY <2>1, CertPeople
<1>4. CertInv /\ Certificates!Next => CertInv'
  BY <1>3, CertBegins, CertLooks, CertWrites, CertCommits, CertEnds, CertWorks
  DEF Certificates!Next, Certificates!Continue
<1> QED
  BY <1>1, <1>2, <1>4, PTL DEF Certificates!Spec

(* RN-05: certificates of attendance and evaluations follow attendances,   *)
(* and these confirmed enrollments.                                        *)
THEOREM AttendanceAlwaysFirst == Certificates!Spec => []AttendanceFirst
<1>1. CertInv => AttendanceFirst
  BY DEF CertInv
<1> QED
  BY <1>1, CertificatesCorrect, PTL

(* Requests served one at a time issue no certificate twice, and collide   *)
(* with no attendance.                                                     *)
THEOREM RepetitionsOverlap == Certificates!Spec => []RepeatedOnlyTogether
<1>1. CertInv => RepeatedOnlyTogether
  BY DEF CertInv, CertReads, Accompanied, RepeatedOnlyTogether,
         Certificates!CollidesOnlyTogether
<1> QED
  BY <1>1, CertificatesCorrect, PTL

(* A certificate that says it is ready can be downloaded, and its job is   *)
(* done unless the worker that did it was told that it had failed.         *)
THEOREM ReadyAlwaysThere == Certificates!Spec => []ReadyIsThere
<1>1. CertInv => ReadyIsThere
  BY DEF CertInv, CertJobs, CertJob, ReadyIsThere, Certificates!ReadyIsThere, Certificates!Issued
<1> QED
  BY <1>1, CertificatesCorrect, PTL

-----------------------------------------------------------------------------
(* Accounts: one account per e-mail, recent claims, erased for good        *)

(* What a request is about to do with the row it has read or made up: a row*)
(* to insert has an id and an e-mail of its own, any other is there, and   *)
(* no e-mail is written over one but that of an erased account.            *)
AccountTx(c) ==
    /\ accountTx[c].pc = "idle" => accountTx[c] = Accounts!Idle
    /\ accountTx[c].stale <= accountTx[c].age
    /\ accountTx[c].pc = "add" =>
        accountTx[c].row.email \in Emails /\ accountTx[c].row.role \in Roles
    /\ accountTx[c].pc \in {"issue", "reload", "flush", "commit"} =>
        accountTx[c].id \in Ids /\ accountTx[c].row \in Accounts!Row
    /\ accountTx[c].pc \in {"reload", "flush", "commit"} => Accounts!Has(accountTx[c].id)
    /\ accountTx[c].pc = "issue" /\ accountTx[c].cols = {} => Accounts!Has(accountTx[c].id)
    /\ accountTx[c].pc = "issue" /\ accountTx[c].cols # {} =>
        /\ accountTx[c].cols = {"email", "role"}
        /\ ~ Accounts!Has(accountTx[c].id)
        /\ accountTx[c].row.email \in Emails
        /\ \A i \in Ids : users[i].email # accountTx[c].row.email
    /\ accountTx[c].pc = "reload" => accountTx[c].row.email = Anonymous
    /\ accountTx[c].pc \in {"flush", "commit"} /\ "email" \in accountTx[c].cols =>
        accountTx[c].row.email = Anonymous

(* The UNIQUE: two uncommitted rows have neither id nor e-mail in common.  *)
InsertedApart ==
    \A p, q \in Accounts!Inserted :
        p # q => /\ accountTx[p].id # accountTx[q].id
                 /\ accountTx[p].row.email # accountTx[q].row.email

(* A token is of an account, does not outlive its expiry, and what it says *)
(* has been untrue for no longer than since it was read.                   *)
AccountToken(c) ==
    \/ access[c] = Accounts!NoToken
    \/ /\ access[c].of \in Accounts!Claims
       /\ Accounts!Has(access[c].of[1])
       /\ access[c].age <= AccessTtl
       /\ access[c].stale <= access[c].age + Delay

AccountsInv ==
    /\ Accounts!TypeOK
    /\ \A c \in Requests : AccountTx(c) /\ AccountToken(c)
    /\ InsertedApart
    /\ OneAccountPerEmail
    /\ ClaimsAreRecent

(* The parts of the state, one by one.                                     *)
LEMMA AccountTypes ==
    ASSUME Accounts!TypeOK
    PROVE  /\ \A i \in Ids : users[i] \in Accounts!Row \cup {Accounts!NoRow}
           /\ \A i \in Ids : Accounts!Has(i) => users[i] \in Accounts!Row
           /\ \A c \in Requests : accountTx[c] \in Accounts!Tx /\ access[c] \in Accounts!Token
           /\ AccessTtl \in Nat /\ Delay \in Nat
           /\ Anonymous \notin Emails /\ "attendee" \in Roles
           /\ NoId \notin Ids
           /\ \A account \in Accounts!Row : account # Accounts!NoRow
  BY AccountsAssumption
  DEF Accounts!ConstantsAssumption, Accounts!TypeOK, Accounts!Has, Accounts!Row, Accounts!NoRow

(* A request as it begins.                                                 *)
LEMMA AccountRequestType ==
    ASSUME NEW pc \in {"idle", "add", "issue", "reload", "flush", "commit"},
           NEW id \in Ids \cup {NoId}, NEW account \in Accounts!Row \cup {Accounts!NoRow},
           NEW cols \in SUBSET {"email", "role"}
    PROVE  LET t == Accounts!Request(pc, id, account, cols)
           IN  /\ t \in Accounts!Tx
               /\ t.pc = pc /\ t.id = id /\ t.row = account /\ t.cols = cols
               /\ t.age = 0 /\ t.stale = 0
  BY AccountsAssumption
  DEF Accounts!ConstantsAssumption, Accounts!Request, Accounts!Tx, Accounts!Stale

(* A step of one request that writes no account and issues no token.       *)
LEMMA AccountTxStep ==
    ASSUME AccountsInv, NEW c \in Requests, NEW t \in Accounts!Tx,
           accountTx' = [accountTx EXCEPT ![c] = t],
           UNCHANGED <<users, access>>,
           userLock' \in [Ids -> Requests \cup {NoId}],
           \/ shown' = shown
           \/ access[c] # Accounts!NoToken /\ shown' = access[c].stale,
           AccountTx(c)',
           t.pc = "issue" /\ t.cols # {} =>
               \A q \in Accounts!Inserted : /\ accountTx[q].id # t.id
                                            /\ accountTx[q].row.email # t.row.email
    PROVE  AccountsInv'
<1>1. access[c] # Accounts!NoToken => access[c].stale <= AccessTtl + Delay
  <2>1. AccountToken(c) /\ access[c] \in Accounts!Token
    BY AccountTypes DEF AccountsInv
  <2> QED
    BY <2>1, AccountTypes DEF AccountToken, AccountsInv, Accounts!Token, Accounts!Stale
<1>2. access[c].stale \in Accounts!Stale
  BY AccountTypes DEF AccountsInv, Accounts!Token
<1>3. Accounts!TypeOK' /\ ClaimsAreRecent'
  BY <1>1, <1>2 DEF AccountsInv, Accounts!TypeOK, ClaimsAreRecent, Accounts!ClaimsAreRecent
<1>4. OneAccountPerEmail'
  BY DEF AccountsInv, OneAccountPerEmail, Accounts!OneAccountPerEmail
<1>5. accountTx'[c] = t /\ \A q \in Requests \ {c} : accountTx'[q] = accountTx[q]
  BY DEF AccountsInv, Accounts!TypeOK
<1>6. \A q \in Requests : AccountToken(q)'
  BY DEF AccountsInv, AccountToken, Accounts!Has
<1>7. ASSUME NEW q \in Requests, q # c PROVE AccountTx(q)'
  <2>1. AccountTx(q) /\ accountTx'[q] = accountTx[q]
    BY <1>5, <1>7 DEF AccountsInv
  <2> QED
    BY <2>1 DEF AccountTx, Accounts!Has
<1>8. InsertedApart'
  BY <1>5 DEF AccountsInv, InsertedApart, Accounts!Inserted
<1> QED
  BY <1>3, <1>4, <1>6, <1>7, <1>8 DEF AccountsInv

(* A request begins with a row that is there, or that it makes up.         *)
LEMMA AccountStarts ==
    ASSUME AccountsInv, NEW c \in Requests,
           NEW pc \in {"add", "issue", "reload", "flush"},
           NEW id \in Ids \cup {NoId}, NEW account \in Accounts!Row,
           NEW cols \in SUBSET {"role"},
           Accounts!Starts(c, Accounts!Request(pc, id, account, cols)),
           \/ shown' = shown
           \/ access[c] # Accounts!NoToken /\ shown' = access[c].stale,
           pc = "add" => account.email \in Emails,
           pc # "add" => id \in Ids /\ Accounts!Has(id),
           pc = "issue" => cols = {},
           pc = "reload" => account.email = Anonymous
    PROVE  AccountsInv'
<1> DEFINE t == Accounts!Request(pc, id, account, cols)
<1>1. /\ t \in Accounts!Tx
      /\ t.pc = pc /\ t.id = id /\ t.row = account /\ t.cols = cols /\ t.age = 0 /\ t.stale = 0
  BY AccountRequestType
<1>2. /\ accountTx' = [accountTx EXCEPT ![c] = t]
      /\ UNCHANGED <<users, access, userLock>>
  BY DEF Accounts!Starts, Accounts!rows
<1> HIDE DEF t
<1>3. accountTx'[c] = t
  BY <1>2 DEF AccountsInv, Accounts!TypeOK
<1>4. AccountTx(c)'
  BY <1>1, <1>2, <1>3 DEF AccountTx, Accounts!Has, Accounts!Row
<1>5. userLock' \in [Ids -> Requests \cup {NoId}]
  BY <1>2 DEF AccountsInv, Accounts!TypeOK
<1> QED
  BY <1>1, <1>2, <1>4, <1>5, AccountTxStep

(* Logins, refreshes, changes of role and erasures begin.                  *)
LEMMA AccountReads ==
    ASSUME AccountsInv, NEW c \in Requests,
           \/ \E e \in Emails : Accounts!LoginRead(c, e)
           \/ \E i \in Ids : Accounts!RefreshRead(c, i)
           \/ \E i \in Ids, role \in Roles : Accounts!SetRole(c, i, role)
           \/ Accounts!Erase(c)
    PROVE  AccountsInv'
<1>1. ASSUME NEW e \in Emails, Accounts!LoginRead(c, e) PROVE AccountsInv'
  <2>1. ASSUME NEW i \in Ids, users[i].email = e,
               Accounts!Starts(c, Accounts!Request("issue", i, users[i], {}))
        PROVE  AccountsInv'
    <3>1. Accounts!Has(i) /\ users[i] \in Accounts!Row
      BY <2>1, AccountTypes DEF AccountsInv, Accounts!Has, Accounts!NoRow
    <3> QED
      BY <1>1, <2>1, <3>1, AccountStarts DEF Accounts!LoginRead
  <2>2. ASSUME Accounts!Starts(c, Accounts!Request("add", NoId,
                                     [email |-> e, role |-> "attendee"], {}))
        PROVE  AccountsInv'
    <3> DEFINE account == [email |-> e, role |-> "attendee"]
    <3>1. account \in Accounts!Row /\ account.email \in Emails
      BY AccountTypes DEF AccountsInv, Accounts!Row
    <3> HIDE DEF account
    <3>2. Accounts!Starts(c, Accounts!Request("add", NoId, account, {}))
      BY <2>2 DEF account
    <3>3. shown' = shown
      BY <1>1 DEF Accounts!LoginRead
    <3> QED
      BY <3>1, <3>2, <3>3, AccountStarts
  <2> QED
    BY <1>1, <2>1, <2>2 DEF Accounts!LoginRead
<1>2. ASSUME NEW i \in Ids, Accounts!RefreshRead(c, i) PROVE AccountsInv'
  BY <1>2, AccountStarts, AccountTypes DEF Accounts!RefreshRead, AccountsInv
<1>3. ASSUME NEW i \in Ids, NEW role \in Roles, Accounts!SetRole(c, i, role) PROVE AccountsInv'
  <2> DEFINE account == [email |-> users[i].email, role |-> role]
  <2>1. Accounts!Has(i) /\ account \in Accounts!Row
    BY <1>3, AccountTypes DEF AccountsInv, Accounts!SetRole, Accounts!Row
  <2>2. Accounts!Starts(c, Accounts!Request("flush", i, account, {"role"}))
    BY <1>3 DEF Accounts!SetRole
  <2>3. access[c] # Accounts!NoToken /\ shown' = access[c].stale
    BY <1>3 DEF Accounts!SetRole, Accounts!Admitted
  <2> HIDE DEF account
  <2> QED
    BY <2>1, <2>2, <2>3, AccountStarts
<1>4. CASE Accounts!Erase(c)
  <2> DEFINE i == access[c].of[1]
             account == [email |-> Anonymous, role |-> users[i].role]
  <2>1. access[c] # Accounts!NoToken /\ shown' = access[c].stale
    BY <1>4 DEF Accounts!Erase, Accounts!Admitted
  <2>2. i \in Ids /\ Accounts!Has(i)
    BY <2>1 DEF AccountsInv, AccountToken, Accounts!Claims
  <2>3. account \in Accounts!Row /\ account.email = Anonymous
    BY <2>2, AccountTypes DEF AccountsInv, Accounts!Row
  <2>4. Accounts!Starts(c, Accounts!Request("reload", i, account, {}))
    BY <1>4 DEF Accounts!Erase
  <2> HIDE DEF i, account
  <2> QED
    BY <2>1, <2>2, <2>3, <2>4, AccountStarts
<1> QED
  BY <1>1, <1>2, <1>3, <1>4

(* The end of a request leaves it idle.                                    *)
LEMMA AccountIdle ==
    ASSUME AccountsInv, NEW c \in Requests, accountTx' = [accountTx EXCEPT ![c] = Accounts!Idle]
    PROVE  /\ Accounts!Idle \in Accounts!Tx /\ Accounts!Idle.pc = "idle"
           /\ Accounts!Idle.stale = 0 /\ Accounts!Idle.age = 0
           /\ accountTx' \in [Requests -> Accounts!Tx]
           /\ accountTx'[c] = Accounts!Idle
           /\ \A q \in Requests \ {c} : accountTx'[q] = accountTx[q]
           /\ AccountTx(c)'
<1>1. /\ Accounts!Idle \in Accounts!Tx /\ Accounts!Idle.pc = "idle"
      /\ Accounts!Idle.stale = 0 /\ Accounts!Idle.age = 0
  BY AccountRequestType DEF Accounts!Idle
<1>2. /\ accountTx' \in [Requests -> Accounts!Tx]
      /\ accountTx'[c] = Accounts!Idle
      /\ \A q \in Requests \ {c} : accountTx'[q] = accountTx[q]
  BY <1>1 DEF AccountsInv, Accounts!TypeOK
<1>3. AccountTx(c)'
  BY <1>1, <1>2 DEF AccountTx
<1> QED
  BY <1>1, <1>2, <1>3

(* A first access inserts a row that nobody has and nobody inserts.        *)
LEMMA AccountInserts ==
    ASSUME AccountsInv, NEW c \in Requests, Accounts!LoginAdd(c)
    PROVE  AccountsInv'
<1>1. /\ accountTx[c].pc = "add"
      /\ UNCHANGED <<users, userLock, access, shown>>
      /\ \A q \in Accounts!Inserted : accountTx[q].row.email # accountTx[c].row.email
  BY DEF Accounts!LoginAdd, Accounts!rows
<1>2. userLock' \in [Ids -> Requests \cup {NoId}]
  BY <1>1 DEF AccountsInv, Accounts!TypeOK
<1>3. CASE accountTx' = [accountTx EXCEPT ![c] = Accounts!Idle]
  BY <1>1, <1>2, <1>3, AccountIdle, AccountTxStep
<1>4. CASE /\ \A i \in Ids : users[i].email # accountTx[c].row.email
           /\ Accounts!FreshIds # {}
           /\ accountTx' = [accountTx EXCEPT ![c] = Accounts!Inserting(c)]
  <2>1. PICK i \in Accounts!FreshIds : i = CHOOSE j \in Accounts!FreshIds : TRUE
    BY <1>4
  <2> DEFINE t == Accounts!Request("issue", i, accountTx[c].row, {"email", "role"})
  <2>2. /\ accountTx[c].row \in Accounts!Row \cup {Accounts!NoRow}
        /\ accountTx[c].row.email \in Emails /\ accountTx[c].row.role \in Roles
    BY <1>1, AccountTypes DEF AccountsInv, Accounts!Tx, AccountTx
  <2>3. accountTx[c].row \in Accounts!Row
    BY <2>2, AccountTypes DEF AccountsInv, Accounts!Row, Accounts!NoRow
  <2>4. /\ i \in Ids /\ ~ Accounts!Has(i)
        /\ \A q \in Accounts!Inserted : accountTx[q].id # i
    BY DEF Accounts!FreshIds
  <2>5. /\ t \in Accounts!Tx
        /\ t.pc = "issue" /\ t.id = i /\ t.row = accountTx[c].row /\ t.cols = {"email", "role"}
        /\ t.age = 0 /\ t.stale = 0
    BY <2>3, <2>4, AccountRequestType
  <2>6. accountTx' = [accountTx EXCEPT ![c] = t]
    BY <1>4, <2>1 DEF Accounts!Inserting
  <2> HIDE DEF t
  <2>7. accountTx'[c] = t
    BY <2>6 DEF AccountsInv, Accounts!TypeOK
  <2>8. AccountTx(c)'
    BY <1>1, <1>4, <2>2, <2>3, <2>4, <2>5, <2>7 DEF AccountTx, Accounts!Has
  <2> QED
    BY <1>1, <1>2, <2>4, <2>5, <2>6, <2>8, AccountTxStep
<1> QED
  BY <1>3, <1>4 DEF Accounts!LoginAdd

(* Requests that go on without writing, or end.                            *)
LEMMA AccountGoesOn ==
    ASSUME AccountsInv, NEW c \in Requests,
           \/ Accounts!EraseReload(c) \/ Accounts!Flush(c) \/ Accounts!Abort(c)
    PROVE  AccountsInv'
<1>0. AccountTx(c) /\ accountTx[c] \in Accounts!Tx
  BY AccountTypes DEF AccountsInv
<1>1. CASE Accounts!EraseReload(c)
  <2>1. PICK cols \in SUBSET {"email", "role"} :
          /\ accountTx[c].pc = "reload"
          /\ accountTx' = [accountTx EXCEPT ![c] =
                IF cols = {} THEN Accounts!Idle
                ELSE Accounts!Request("flush", accountTx[c].id, accountTx[c].row, cols)]
          /\ UNCHANGED <<users, userLock, access, shown>>
    BY <1>1 DEF Accounts!EraseReload, Accounts!rows
  <2>2. userLock' \in [Ids -> Requests \cup {NoId}]
    BY <2>1 DEF AccountsInv, Accounts!TypeOK
  <2>3. CASE cols = {}
    BY <2>1, <2>2, <2>3, AccountIdle, AccountTxStep
  <2>4. CASE cols # {}
    <3> DEFINE t == Accounts!Request("flush", accountTx[c].id, accountTx[c].row, cols)
    <3>1. /\ accountTx[c].id \in Ids /\ accountTx[c].row \in Accounts!Row
          /\ accountTx[c].row.email = Anonymous /\ Accounts!Has(accountTx[c].id)
      BY <1>0, <2>1 DEF AccountTx
    <3>2. /\ t \in Accounts!Tx
          /\ t.pc = "flush" /\ t.id = accountTx[c].id /\ t.row = accountTx[c].row
          /\ t.age = 0 /\ t.stale = 0
      BY <3>1, AccountRequestType
    <3>3. accountTx' = [accountTx EXCEPT ![c] = t]
      BY <2>1, <2>4
    <3> HIDE DEF t
    <3>4. accountTx'[c] = t
      BY <3>3 DEF AccountsInv, Accounts!TypeOK
    <3>5. AccountTx(c)'
      BY <2>1, <3>1, <3>2, <3>4 DEF AccountTx, Accounts!Has
    <3> QED
      BY <2>1, <2>2, <3>2, <3>3, <3>5, AccountTxStep
  <2> QED
    BY <2>3, <2>4
<1>2. CASE Accounts!Flush(c)
  <2> DEFINE t == [accountTx[c] EXCEPT !.pc = "commit"]
  <2>1. /\ accountTx[c].pc = "flush"
        /\ accountTx' = [accountTx EXCEPT ![c] = t]
        /\ UNCHANGED <<users, access, shown>>
        /\ userLock' \in [Ids -> Requests \cup {NoId}]
    BY <1>2 DEF Accounts!Flush, AccountsInv, Accounts!TypeOK
  <2>2. /\ t \in Accounts!Tx
        /\ t.pc = "commit" /\ t.id = accountTx[c].id /\ t.row = accountTx[c].row
        /\ t.cols = accountTx[c].cols /\ t.age = accountTx[c].age /\ t.stale = accountTx[c].stale
    BY <1>0 DEF Accounts!Tx
  <2> HIDE DEF t
  <2>3. accountTx'[c] = t
    BY <2>1 DEF AccountsInv, Accounts!TypeOK
  <2>4. AccountTx(c)'
    BY <1>0, <2>1, <2>2, <2>3 DEF AccountTx, Accounts!Has
  <2> QED
    BY <2>1, <2>2, <2>4, AccountTxStep
<1>3. CASE Accounts!Abort(c)
  <2>1. /\ accountTx' = [accountTx EXCEPT ![c] = Accounts!Idle]
        /\ UNCHANGED <<users, access, shown>>
        /\ userLock' \in [Ids -> Requests \cup {NoId}]
    BY <1>3 DEF Accounts!Abort, Accounts!Unlocked, AccountsInv, Accounts!TypeOK
  <2> QED
    BY <2>1, AccountIdle, AccountTxStep
<1> QED
  BY <1>1, <1>2, <1>3

(* A write puts a row where there is one, or the first with its e-mail;    *)
(* it changes an e-mail only to that of an erased account.                 *)
LEMMA AccountWritten ==
    ASSUME AccountsInv, NEW c \in Requests,
           accountTx[c].pc \in {"issue", "commit"}, Accounts!Writes(c)
    PROVE  /\ accountTx[c].id \in Ids /\ accountTx[c].row \in Accounts!Row
           /\ users' = [users EXCEPT ![accountTx[c].id] = Accounts!Written(c)]
           /\ Accounts!Written(c) \in Accounts!Row
           /\ IF c \in Accounts!Inserted
              THEN /\ ~ Accounts!Has(accountTx[c].id)
                   /\ Accounts!Written(c).email = accountTx[c].row.email
              ELSE /\ Accounts!Has(accountTx[c].id)
                   /\ Accounts!Written(c).email \in {users[accountTx[c].id].email, Anonymous}
<1>1. AccountTx(c) /\ accountTx[c] \in Accounts!Tx
  BY AccountTypes DEF AccountsInv
<1>2. /\ accountTx[c].id \in Ids /\ accountTx[c].row \in Accounts!Row
      /\ users' = [users EXCEPT ![accountTx[c].id] = Accounts!Written(c)]
  BY <1>1 DEF AccountTx, Accounts!Writes
<1>3. CASE c \in Accounts!Inserted
  <2>1. accountTx[c].cols = {"email", "role"} /\ ~ Accounts!Has(accountTx[c].id)
    BY <1>1, <1>3 DEF AccountTx, Accounts!Inserted
  <2>2. Accounts!Written(c) = [email |-> accountTx[c].row.email, role |-> accountTx[c].row.role]
    BY <2>1 DEF Accounts!Written
  <2> QED
    BY <1>2, <1>3, <2>1, <2>2 DEF Accounts!Row
<1>4. CASE c \notin Accounts!Inserted
  <2>1. Accounts!Has(accountTx[c].id) /\ users[accountTx[c].id] \in Accounts!Row
    BY <1>1, <1>2, <1>4, AccountTypes DEF AccountTx, Accounts!Inserted, AccountsInv
  <2>2. "email" \in accountTx[c].cols => accountTx[c].row.email = Anonymous
    BY <1>1, <1>4 DEF AccountTx, Accounts!Inserted
  <2> QED
    BY <1>2, <1>4, <2>1, <2>2 DEF Accounts!Written, Accounts!Row
<1> QED
  BY <1>3, <1>4

(* Issue and Commit: the rows after a write, and the other requests.       *)
LEMMA AccountWrites ==
    ASSUME AccountsInv, NEW c \in Requests,
           accountTx[c].pc \in {"issue", "commit"}, Accounts!Writes(c),
           accountTx' = [accountTx EXCEPT ![c] = Accounts!Idle],
           userLock' \in [Ids -> Requests \cup {NoId}],
           shown' = shown,
           access' \in [Requests -> Accounts!Token],
           \A q \in Requests \ {c} : access'[q] = access[q],
           access'[c] = access[c] \/ AccountToken(c)'
    PROVE  AccountsInv'
<1> DEFINE id == accountTx[c].id
           account == Accounts!Written(c)
<1>1. /\ id \in Ids /\ account \in Accounts!Row
      /\ users' = [users EXCEPT ![id] = account]
      /\ IF c \in Accounts!Inserted
         THEN ~ Accounts!Has(id) /\ account.email = accountTx[c].row.email
         ELSE Accounts!Has(id) /\ account.email \in {users[id].email, Anonymous}
  BY AccountWritten
<1>2. /\ accountTx' \in [Requests -> Accounts!Tx]
      /\ accountTx'[c] = Accounts!Idle /\ Accounts!Idle.pc = "idle"
      /\ \A q \in Requests \ {c} : accountTx'[q] = accountTx[q]
      /\ AccountTx(c)'
  BY AccountIdle
<1> HIDE DEF account
<1>3. /\ users'[id] = account /\ account # Accounts!NoRow
      /\ \A i \in Ids \ {id} : users'[i] = users[i]
  BY <1>1, AccountTypes DEF AccountsInv, Accounts!TypeOK
<1>4. Accounts!TypeOK' /\ ClaimsAreRecent'
  BY <1>1, <1>2 DEF AccountsInv, Accounts!TypeOK, ClaimsAreRecent, Accounts!ClaimsAreRecent
<1>5. \A i \in Ids : Accounts!Has(i) => Accounts!Has(i)'
  BY <1>1, <1>3 DEF Accounts!Has
<1>6. \A q \in Accounts!Inserted \ {c} : accountTx[q].id # id
  <2>1. \A q \in Accounts!Inserted : ~ Accounts!Has(accountTx[q].id)
    BY DEF AccountsInv, AccountTx, Accounts!Inserted
  <2> QED
    BY <1>1, <2>1 DEF AccountsInv, InsertedApart
<1>7. \A q \in Accounts!Inserted \ {c} : account.email # accountTx[q].row.email
  <2>1. \A q \in Accounts!Inserted : /\ accountTx[q].row.email \in Emails
                                     /\ \A i \in Ids : users[i].email # accountTx[q].row.email
    BY DEF AccountsInv, AccountTx, Accounts!Inserted
  <2> QED
    BY <1>1, <2>1, AccountTypes DEF AccountsInv, InsertedApart
<1>8. ASSUME NEW q \in Requests, q # c PROVE AccountTx(q)'
  <2>1. AccountTx(q) /\ accountTx'[q] = accountTx[q]
    BY <1>2, <1>8 DEF AccountsInv
  <2>2. accountTx[q].pc = "issue" /\ accountTx[q].cols # {} =>
          /\ ~ Accounts!Has(accountTx[q].id)'
          /\ \A i \in Ids : users'[i].email # accountTx[q].row.email
    <3> SUFFICES ASSUME q \in Accounts!Inserted
                 PROVE  /\ ~ Accounts!Has(accountTx[q].id)'
                        /\ \A i \in Ids : users'[i].email # accountTx[q].row.email
      BY DEF Accounts!Inserted
    <3>1. accountTx[q].id # id /\ account.email # accountTx[q].row.email
      BY <1>6, <1>7, <1>8
    <3>2. /\ accountTx[q].id \in Ids /\ ~ Accounts!Has(accountTx[q].id)
          /\ \A i \in Ids : users[i].email # accountTx[q].row.email
      BY <2>1 DEF AccountTx, Accounts!Inserted
    <3> QED
      BY <1>3, <2>1, <3>1, <3>2 DEF Accounts!Has
  <2>3. \A i \in Ids : Accounts!Has(i) => users'[i] # Accounts!NoRow
    BY <1>5 DEF Accounts!Has
  <2> QED
    BY <2>1, <2>2, <2>3 DEF AccountTx, Accounts!Has
<1>9. InsertedApart'
  BY <1>2 DEF AccountsInv, InsertedApart, Accounts!Inserted
<1>10. ASSUME NEW q \in Requests PROVE AccountToken(q)'
  <2>1. CASE access'[q] = access[q]
    <3>1. AccountToken(q)
      BY DEF AccountsInv
    <3>2. access[q].of \in Accounts!Claims => access[q].of[1] \in Ids
      BY DEF Accounts!Claims
    <3> QED
      BY <1>5, <2>1, <3>1, <3>2 DEF AccountToken, Accounts!Has
  <2> QED
    BY <2>1
<1>11. OneAccountPerEmail'
  <2>1. \A i \in Ids \ {id} : account.email = users[i].email => account.email = Anonymous
    <3>1. CASE c \in Accounts!Inserted
      BY <1>1, <3>1 DEF AccountsInv, AccountTx, Accounts!Inserted
    <3>2. CASE c \notin Accounts!Inserted
      BY <1>1, <3>2 DEF AccountsInv, OneAccountPerEmail, Accounts!OneAccountPerEmail
    <3> QED
      BY <3>1, <3>2
  <2> QED
    BY <1>1, <1>3, <2>1 DEF AccountsInv, OneAccountPerEmail, Accounts!OneAccountPerEmail
<1> QED
  BY <1>2, <1>4, <1>8, <1>9, <1>10, <1>11 DEF AccountsInv

(* A token that is issued is as old as the read it comes from.             *)
LEMMA AccountIssues ==
    ASSUME AccountsInv, NEW c \in Requests, Accounts!Issue(c)
    PROVE  AccountsInv'
<1> DEFINE token == [of |-> <<accountTx[c].id, accountTx[c].row>>, age |-> 0,
                     stale |-> IF Accounts!Written(c) = accountTx[c].row THEN 0
                               ELSE accountTx[c].stale]
<1>1. /\ accountTx[c].pc = "issue" /\ Accounts!Writes(c)
      /\ access' = [access EXCEPT ![c] = token]
      /\ accountTx' = [accountTx EXCEPT ![c] = Accounts!Idle]
      /\ UNCHANGED <<userLock, shown>>
  BY DEF Accounts!Issue
<1>2. /\ accountTx[c].id \in Ids /\ accountTx[c].row \in Accounts!Row
      /\ users' = [users EXCEPT ![accountTx[c].id] = Accounts!Written(c)]
      /\ Accounts!Written(c) \in Accounts!Row
  BY <1>1, AccountWritten
<1>3. /\ accountTx[c].stale \in Accounts!Stale /\ accountTx[c].age \in 0 .. Delay
      /\ accountTx[c].stale <= accountTx[c].age
  BY AccountTypes DEF AccountsInv, AccountTx, Accounts!Tx
<1>4. AccessTtl \in Nat /\ Delay \in Nat
  BY AccountTypes DEF AccountsInv
<1>5. /\ token \in Accounts!Token /\ token.of \in Accounts!Claims
      /\ token.of[1] = accountTx[c].id /\ token.age = 0 /\ token.stale <= Delay
  <2>1. token.of \in Accounts!Claims /\ token.of[1] = accountTx[c].id /\ token.age = 0
    BY <1>2 DEF Accounts!Claims
  <2>2. token.stale \in {0, accountTx[c].stale} /\ 0 \in Accounts!Stale
    BY <1>4 DEF Accounts!Stale
  <2>3. token.stale \in Accounts!Stale /\ token.stale <= Delay
    BY <1>3, <1>4, <2>2 DEF Accounts!Stale
  <2>4. 0 \in 0 .. AccessTtl + 1
    BY <1>4
  <2> QED
    BY <2>1, <2>3, <2>4 DEF Accounts!Token
<1> HIDE DEF token
<1>6. /\ access' \in [Requests -> Accounts!Token] /\ access'[c] = token
      /\ \A q \in Requests \ {c} : access'[q] = access[q]
      /\ userLock' \in [Ids -> Requests \cup {NoId}]
  BY <1>1, <1>5 DEF AccountsInv, Accounts!TypeOK
<1>7. users'[accountTx[c].id] # Accounts!NoRow
  BY <1>2, AccountTypes DEF AccountsInv, Accounts!TypeOK
<1>8. AccountToken(c)'
  BY <1>4, <1>5, <1>6, <1>7 DEF AccountToken, Accounts!Has
<1> QED
  BY <1>1, <1>6, <1>8, AccountWrites

(* A commit that issues no token.                                          *)
LEMMA AccountCommits ==
    ASSUME AccountsInv, NEW c \in Requests, Accounts!Commit(c)
    PROVE  AccountsInv'
<1>1. /\ accountTx[c].pc = "commit" /\ Accounts!Writes(c)
      /\ accountTx' = [accountTx EXCEPT ![c] = Accounts!Idle]
      /\ UNCHANGED <<access, shown>>
      /\ userLock' \in [Ids -> Requests \cup {NoId}]
  BY DEF Accounts!Commit, Accounts!Unlocked, AccountsInv, Accounts!TypeOK
<1>2. access' \in [Requests -> Accounts!Token]
  BY <1>1 DEF AccountsInv, Accounts!TypeOK
<1> QED
  BY <1>1, <1>2, AccountWrites

(* A tick ages everything by one, and tokens expire before they are older  *)
(* than their life.                                                        *)
LEMMA AccountTicks ==
    ASSUME AccountsInv, Accounts!Tick
    PROVE  AccountsInv'
<1>1. /\ accountTx' = [c \in Requests |->
            IF accountTx[c] = Accounts!Idle THEN Accounts!Idle
            ELSE Accounts!Aged(accountTx[c], <<accountTx[c].id, accountTx[c].row>>, Delay)]
      /\ access' = [c \in Requests |->
            IF Accounts!Expired(c) THEN Accounts!NoToken
            ELSE Accounts!Aged(access[c], access[c].of, AccessTtl)]
      /\ \A c \in Requests : accountTx[c] # Accounts!Idle => accountTx[c].age < Delay
      /\ shown' = 0
      /\ UNCHANGED <<users, userLock>>
  BY DEF Accounts!Tick, Accounts!rows
<1>2. AccessTtl \in Nat /\ Delay \in Nat
  BY AccountTypes DEF AccountsInv
<1>3. ASSUME NEW c \in Requests
      PROVE  /\ accountTx'[c] \in Accounts!Tx
             /\ accountTx'[c].pc = accountTx[c].pc /\ accountTx'[c].id = accountTx[c].id
             /\ accountTx'[c].row = accountTx[c].row /\ accountTx'[c].cols = accountTx[c].cols
             /\ accountTx'[c].stale <= accountTx'[c].age
             /\ accountTx[c] = Accounts!Idle => accountTx'[c] = Accounts!Idle
  <2>1. accountTx[c] \in Accounts!Tx /\ AccountTx(c)
    BY AccountTypes DEF AccountsInv
  <2>2. CASE accountTx[c] = Accounts!Idle
    BY <1>1, <2>1, <2>2 DEF AccountTx
  <2>3. CASE accountTx[c] # Accounts!Idle
    <3> DEFINE t == accountTx[c]
               stale == IF t.id \in Ids /\ users[t.id] = t.row THEN 0
                        ELSE Accounts!Older(t.stale, AccessTtl + Delay + 1)
    <3>1. t.age \in 0 .. Delay /\ t.age < Delay /\ t.stale \in Nat /\ t.stale <= t.age
      BY <1>1, <2>1, <2>3 DEF AccountTx, Accounts!Tx, Accounts!Stale
    <3>2. accountTx'[c] = [t EXCEPT !.age = t.age + 1, !.stale = stale]
      BY <1>1, <2>3, <3>1 DEF Accounts!Aged, Accounts!Older
    <3>3. stale \in Accounts!Stale /\ stale <= t.age + 1
      BY <1>2, <3>1 DEF Accounts!Older, Accounts!Stale
    <3>4. t.age + 1 \in 0 .. Delay
      BY <1>2, <3>1
    <3> HIDE DEF stale
    <3> QED
      BY <2>1, <2>3, <3>2, <3>3, <3>4 DEF Accounts!Tx
  <2> QED
    BY <2>2, <2>3
<1>4. ASSUME NEW c \in Requests
      PROVE  access'[c] \in Accounts!Token /\ AccountToken(c)'
  <2>1. access[c] \in Accounts!Token /\ AccountToken(c)
    BY AccountTypes DEF AccountsInv
  <2>2. Accounts!NoToken \in Accounts!Token /\ Accounts!NoToken.age = AccessTtl + 1
    BY <1>2 DEF Accounts!NoToken, Accounts!Token, Accounts!Stale
  <2>3. CASE Accounts!Expired(c)
    BY <1>1, <2>2, <2>3 DEF AccountToken
  <2>4. CASE ~ Accounts!Expired(c)
    <3> DEFINE t == access[c]
               stale == IF t.of[1] \in Ids /\ users[t.of[1]] = t.of[2] THEN 0
                        ELSE Accounts!Older(t.stale, AccessTtl + Delay + 1)
    <3>1. t.age \in Nat /\ t.age < AccessTtl /\ t.stale \in Nat
      BY <1>2, <2>1, <2>4 DEF Accounts!Expired, Accounts!Token, Accounts!Stale
    <3>2. /\ t.of \in Accounts!Claims /\ Accounts!Has(t.of[1])
          /\ t.stale <= t.age + Delay
      BY <1>2, <2>1, <2>2, <3>1 DEF AccountToken
    <3>3. access'[c] = [t EXCEPT !.age = t.age + 1, !.stale = stale]
      BY <1>1, <2>4, <3>1 DEF Accounts!Aged, Accounts!Older
    <3>4. stale \in Accounts!Stale /\ stale <= t.age + 1 + Delay
      BY <1>2, <3>1, <3>2 DEF Accounts!Older, Accounts!Stale
    <3>5. t.age + 1 \in 0 .. AccessTtl + 1 /\ t.age + 1 <= AccessTtl
      BY <1>2, <3>1
    <3> HIDE DEF stale
    <3>6. /\ access'[c] \in Accounts!Token /\ access'[c].of = t.of
          /\ access'[c].age = t.age + 1 /\ access'[c].stale = stale
      BY <2>1, <3>3, <3>4, <3>5 DEF Accounts!Token
    <3> QED
      BY <1>1, <3>2, <3>4, <3>5, <3>6 DEF AccountToken, Accounts!Has
  <2> QED
    BY <2>3, <2>4
<1>5. Accounts!TypeOK' /\ ClaimsAreRecent'
  <2>1. 0 \in Accounts!Stale /\ 0 <= AccessTtl + Delay
    BY <1>2 DEF Accounts!Stale
  <2> QED
    BY <1>1, <1>3, <1>4, <2>1
    DEF AccountsInv, Accounts!TypeOK, ClaimsAreRecent, Accounts!ClaimsAreRecent
<1>6. \A c \in Requests : AccountTx(c)'
  BY <1>1, <1>3 DEF AccountsInv, AccountTx, Accounts!Has
<1>7. InsertedApart' /\ OneAccountPerEmail'
  BY <1>1, <1>3 DEF AccountsInv, InsertedApart, Accounts!Inserted, OneAccountPerEmail,
                    Accounts!OneAccountPerEmail
<1> QED
  BY <1>4, <1>5, <1>6, <1>7 DEF AccountsInv

(* The invariant of Accounts, for every number of accounts and clients and *)
(* every life of a token.                                                  *)
THEOREM AccountsCorrect == Accounts!Spec => []AccountsInv
<1>1. Accounts!Init => AccountsInv
  <2> SUFFICES ASSUME Accounts!Init PROVE AccountsInv
    OBVIOUS
  <2>1. /\ Accounts!Idle \in Accounts!Tx /\ Accounts!Idle.pc = "idle"
        /\ Accounts!Idle.stale = 0 /\ Accounts!Idle.age = 0
    BY AccountRequestType DEF Accounts!Idle
  <2>2. Accounts!NoToken \in Accounts!Token /\ 0 \in Accounts!Stale /\ 0 <= AccessTtl + Delay
    BY AccountsAssumption
    DEF Accounts!ConstantsAssumption, Accounts!NoToken, Accounts!Token, Accounts!Stale
  <2>3. [email |-> RootEmail, role |-> "admin"] \in Accounts!Row
    BY AccountsAssumption DEF Accounts!ConstantsAssumption, Accounts!Row
  <2>4. Accounts!TypeOK
    BY <2>1, <2>2, <2>3 DEF Accounts!Init, Accounts!TypeOK
  <2>5. ASSUME NEW c \in Requests PROVE AccountTx(c) /\ AccountToken(c)
    <3>1. accountTx[c] = Accounts!Idle /\ access[c] = Accounts!NoToken
      BY DEF Accounts!Init
    <3>2. AccountTx(c)
      BY <2>1, <3>1 DEF AccountTx
    <3> QED
      BY <3>1, <3>2 DEF AccountToken
  <2>6. InsertedApart
    BY <2>1 DEF Accounts!Init, InsertedApart, Accounts!Inserted
  <2>7. OneAccountPerEmail /\ ClaimsAreRecent
    BY <2>2 DEF Accounts!Init, OneAccountPerEmail, Accounts!OneAccountPerEmail, Accounts!NoRow,
                ClaimsAreRecent, Accounts!ClaimsAreRecent
  <2> QED
    BY <2>4, <2>5, <2>6, <2>7 DEF AccountsInv
<1>2. AccountsInv /\ UNCHANGED Accounts!vars => AccountsInv'
  BY DEF Accounts!vars, Accounts!rows, AccountsInv, Accounts!TypeOK, AccountTx, AccountToken,
         Accounts!Has, InsertedApart, Accounts!Inserted, OneAccountPerEmail,
         Accounts!OneAccountPerEmail, ClaimsAreRecent, Accounts!ClaimsAreRecent
<1>3. ASSUME AccountsInv, NEW c \in Requests, Accounts!Me(c) PROVE AccountsInv'
  <2>1. /\ UNCHANGED <<users, userLock, accountTx, access>>
        /\ access[c] # Accounts!NoToken /\ shown' = access[c].stale
    BY <1>3 DEF Accounts!Me, Accounts!Admitted, Accounts!rows
  <2>2. accountTx' = [accountTx EXCEPT ![c] = accountTx[c]] /\ accountTx[c] \in Accounts!Tx
    BY <1>3, <2>1, AccountTypes DEF AccountsInv, Accounts!TypeOK
  <2>3. AccountTx(c)' /\ userLock' \in [Ids -> Requests \cup {NoId}]
    BY <1>3, <2>1 DEF AccountsInv, Accounts!TypeOK, AccountTx, Accounts!Has
  <2>4. accountTx[c].pc # "issue"
    BY <1>3, AccountRequestType DEF Accounts!Me, Accounts!Idle
  <2> QED
    BY <1>3, <2>1, <2>2, <2>3, <2>4, AccountTxStep
<1>4. AccountsInv /\ Accounts!Next => AccountsInv'
  BY <1>3, AccountReads, AccountInserts, AccountGoesOn, AccountIssues, AccountCommits,
     AccountTicks
  DEF Accounts!Next, Accounts!Serve
<1> QED
  BY <1>1, <1>2, <1>4, PTL DEF Accounts!Spec

(* Concurrent first accesses and erasures leave one account per e-mail.    *)
THEOREM AlwaysOneAccount == Accounts!Spec => []OneAccountPerEmail
<1>1. AccountsInv => OneAccountPerEmail
  BY DEF AccountsInv
<1> QED
  BY <1>1, AccountsCorrect, PTL

(* Nobody is admitted by what was last true longer ago than a token lives. *)
THEOREM ClaimsAlwaysRecent == Accounts!Spec => []ClaimsAreRecent
<1>1. AccountsInv => ClaimsAreRecent
  BY DEF AccountsInv
<1> QED
  BY <1>1, AccountsCorrect, PTL

(* RN-07: no step brings the personal data of an erased account back.      *)
THEOREM ErasureIsForGood == Accounts!Spec => ErasedStaysErased
<1>1. AccountsInv /\ [Accounts!Next]_Accounts!vars => [Accounts!StaysErased]_accountsVars
  <2> SUFFICES ASSUME AccountsInv, [Accounts!Next]_Accounts!vars PROVE Accounts!StaysErased
    OBVIOUS
  <2>1. CASE users' = users
    BY <2>1 DEF Accounts!StaysErased
  <2>2. ASSUME NEW c \in Requests, accountTx[c].pc \in {"issue", "commit"}, Accounts!Writes(c)
        PROVE  Accounts!StaysErased
    <3>1. \A i \in Ids : i # accountTx[c].id => users'[i] = users[i]
      BY <2>2, AccountWritten DEF AccountsInv, Accounts!TypeOK
    <3>2. /\ users'[accountTx[c].id] = Accounts!Written(c)
          /\ IF c \in Accounts!Inserted
             THEN ~ Accounts!Has(accountTx[c].id)
             ELSE Accounts!Written(c).email \in {users[accountTx[c].id].email, Anonymous}
      BY <2>2, AccountWritten DEF AccountsInv, Accounts!TypeOK
    <3> QED
      BY <3>1, <3>2 DEF Accounts!StaysErased
  <2>3. \/ users' = users
        \/ \E c \in Requests : accountTx[c].pc \in {"issue", "commit"} /\ Accounts!Writes(c)
    BY DEF Accounts!Next, Accounts!Serve, Accounts!vars, Accounts!rows, Accounts!LoginRead,
           Accounts!LoginAdd, Accounts!Issue, Accounts!Me, Accounts!Erase, Accounts!EraseReload,
           Accounts!RefreshRead, Accounts!SetRole, Accounts!Flush, Accounts!Commit,
           Accounts!Abort, Accounts!Tick, Accounts!Starts
  <2> QED
    BY <2>1, <2>2, <2>3
<1> QED
  BY <1>1, AccountsCorrect, PTL DEF Accounts!Spec, ErasedStaysErased

-----------------------------------------------------------------------------
(* The composition                                                         *)

SearchTheorems == INSTANCE SearchProofs

(* The theorems of SearchProofs are about the Search that Records composes.*)
LEMMA SameSearch ==
    /\ Search!Spec <=> SearchTheorems!Spec
    /\ Search!TypeOK <=> SearchTheorems!TypeOK
    /\ Search!PagesListAll <=> SearchTheorems!PagesListAll
    /\ Search!NothingMeansNone <=> SearchTheorems!NothingMeansNone
    /\ Search!ConstantsAssumption <=> SearchTheorems!ConstantsAssumption
<1>1. Search!Init <=> SearchTheorems!Init
  BY Zenon
  DEF Search!Init, SearchTheorems!Init, Search!Event, SearchTheorems!Event
<1>2. UNCHANGED Search!vars <=> UNCHANGED SearchTheorems!vars
  BY Zenon
  DEF Search!vars, SearchTheorems!vars, Search!catalogue,
      SearchTheorems!catalogue, Search!history, SearchTheorems!history
<1>3. Search!TypeOK <=> SearchTheorems!TypeOK
  BY Zenon
  DEF Search!TypeOK, SearchTheorems!TypeOK, Search!Event,
      SearchTheorems!Event, Search!Client, SearchTheorems!Client,
      Search!Queries, SearchTheorems!Queries
<1>4. Search!ConstantsAssumption <=> SearchTheorems!ConstantsAssumption
  BY Zenon
  DEF Search!ConstantsAssumption, SearchTheorems!ConstantsAssumption,
      Search!IsFiniteSet, SearchTheorems!IsFiniteSet
<1>5. Search!Next <=> SearchTheorems!Next
  <2>1. \A a, q : Search!Ask(a, q) <=> SearchTheorems!Ask(a, q)
    BY Zenon
    DEF Search!Ask, SearchTheorems!Ask, Search!FirstStrategy,
        SearchTheorems!FirstStrategy, Search!catalogue,
        SearchTheorems!catalogue, Search!Matching, SearchTheorems!Matching,
        Search!OfTopic, SearchTheorems!OfTopic, Search!Places, SearchTheorems!Places
  <2>2. Search!NextPage <=> SearchTheorems!NextPage
    BY Zenon
    DEF Search!NextPage, SearchTheorems!NextPage, Search!FirstStrategy,
        SearchTheorems!FirstStrategy, Search!catalogue,
        SearchTheorems!catalogue, Search!history, SearchTheorems!history
  <2>3. Search!Curated <=> SearchTheorems!Curated
    BY Zenon
    DEF Search!Curated, SearchTheorems!Curated, Search!CuratedPages,
        SearchTheorems!CuratedPages, Search!OfTopic, SearchTheorems!OfTopic,
        Search!Ordered, SearchTheorems!Ordered,
        Search!Page, SearchTheorems!Page, Search!SetToSeqs,
        SearchTheorems!SetToSeqs, Search!Cardinality,
        SearchTheorems!Cardinality, Search!Min, SearchTheorems!Min,
        Search!Answer, SearchTheorems!Answer, Search!Continue,
        SearchTheorems!Continue, Search!catalogue, SearchTheorems!catalogue,
        Search!history, SearchTheorems!history
  <2>4. Search!Vector <=> SearchTheorems!Vector
    BY Zenon
    DEF Search!Vector, SearchTheorems!Vector, Search!VectorPages,
        SearchTheorems!VectorPages, Search!Page, SearchTheorems!Page,
        Search!SetToSeqs, SearchTheorems!SetToSeqs, Search!Cardinality,
        SearchTheorems!Cardinality, Search!Min, SearchTheorems!Min,
        Search!Answer, SearchTheorems!Answer, Search!Continue,
        SearchTheorems!Continue, Search!catalogue, SearchTheorems!catalogue,
        Search!history, SearchTheorems!history
  <2>5. /\ Search!EmbedFails <=> SearchTheorems!EmbedFails
        /\ Search!SelectFails <=> SearchTheorems!SelectFails
    BY Zenon
    DEF Search!EmbedFails, SearchTheorems!EmbedFails, Search!SelectFails,
        SearchTheorems!SelectFails, Search!Continue, SearchTheorems!Continue,
        Search!catalogue, SearchTheorems!catalogue, Search!history,
        SearchTheorems!history
  <2>6. Search!Text <=> SearchTheorems!Text
    BY Zenon
    DEF Search!Text, SearchTheorems!Text, Search!TextPages,
        SearchTheorems!TextPages, Search!Ordered, SearchTheorems!Ordered,
        Search!Matching, SearchTheorems!Matching, Search!Page,
        SearchTheorems!Page, Search!SetToSeqs, SearchTheorems!SetToSeqs,
        Search!Cardinality, SearchTheorems!Cardinality, Search!Min,
        SearchTheorems!Min, Search!Answer, SearchTheorems!Answer,
        Search!Continue, SearchTheorems!Continue, Search!catalogue,
        SearchTheorems!catalogue, Search!history, SearchTheorems!history
  <2>7. \A e : Search!Change(e) <=> SearchTheorems!Change(e)
    BY Zenon
    DEF Search!Change, SearchTheorems!Change, Search!Event, SearchTheorems!Event,
        Search!Matching, SearchTheorems!Matching, Search!OfTopic, SearchTheorems!OfTopic,
        Search!Places, SearchTheorems!Places
  <2>8. Search!Cardinality(Events) = SearchTheorems!Cardinality(Events)
    BY Zenon DEF Search!Cardinality, SearchTheorems!Cardinality
  <2> QED
    BY <2>1, <2>2, <2>3, <2>4, <2>5, <2>6, <2>7, <2>8, Zenon
    DEF Search!Next, SearchTheorems!Next, Search!Queries,
        SearchTheorems!Queries
<1>6. Search!PagesListAll <=> SearchTheorems!PagesListAll
  BY Zenon
  DEF Search!PagesListAll, SearchTheorems!PagesListAll, Search!FirstStrategy,
      SearchTheorems!FirstStrategy, Search!NotAfter, SearchTheorems!NotAfter,
      Search!Ties, SearchTheorems!Ties
<1>7. Search!NothingMeansNone <=> SearchTheorems!NothingMeansNone
  BY Zenon DEF Search!NothingMeansNone, SearchTheorems!NothingMeansNone
<1> QED
  BY <1>1, <1>2, <1>3, <1>4, <1>5, <1>6, <1>7, PTL DEF Search!Spec, SearchTheorems!Spec

allVars == <<focus, vars, certificatesVars, agendaVars, speakersVars, accountsVars, searchVars>>

(* The variables of a component are those of its instance.                 *)
LEMMA SameVars ==
    /\ UNCHANGED certificatesVars <=> UNCHANGED Certificates!vars
    /\ UNCHANGED agendaVars <=> UNCHANGED Agenda!vars
    /\ UNCHANGED speakersVars <=> UNCHANGED Speakers!vars
    /\ UNCHANGED accountsVars <=> UNCHANGED Accounts!vars
    /\ UNCHANGED searchVars <=> UNCHANGED Search!vars
  BY DEF certificatesVars, Certificates!vars, Certificates!people, Certificates!issued,
         agendaVars, Agenda!vars, speakersVars, Speakers!vars,
         accountsVars, Accounts!vars, Accounts!rows,
         searchVars, Search!vars, Search!catalogue, Search!history

(* A behaviour of the composition is one of every component.               *)
THEOREM ComponentsBehave ==
    ComponentsSpec =>
        Spec /\ Certificates!Spec /\ Agenda!Spec /\ Speakers!Spec /\ Accounts!Spec /\ Search!Spec
<1>1. ComponentsInit => /\ Init /\ Certificates!Init /\ Agenda!Init
                        /\ Speakers!Init /\ Accounts!Init /\ Search!Init
  BY DEF ComponentsInit
<1>2. [ComponentsNext]_allVars =>
        /\ [Next]_vars /\ [Certificates!Next]_(Certificates!vars)
        /\ [Agenda!Next]_(Agenda!vars) /\ [Speakers!Next]_(Speakers!vars)
        /\ [Accounts!Next]_(Accounts!vars) /\ [Search!Next]_(Search!vars)
  <2>1. ASSUME UNCHANGED allVars
        PROVE  /\ UNCHANGED vars /\ UNCHANGED certificatesVars /\ UNCHANGED agendaVars
               /\ UNCHANGED speakersVars /\ UNCHANGED accountsVars /\ UNCHANGED searchVars
    BY <2>1 DEF allVars
  <2>2. ASSUME ComponentsNext
        PROVE  /\ [Next]_vars /\ [Certificates!Next]_certificatesVars
               /\ [Agenda!Next]_agendaVars /\ [Speakers!Next]_speakersVars
               /\ [Accounts!Next]_accountsVars /\ [Search!Next]_searchVars
    BY <2>2 DEF ComponentsNext
  <2> QED
    BY <2>1, <2>2, SameVars
<1> QED
  BY <1>1, <1>2, PTL
  DEF ComponentsSpec, Spec, Certificates!Spec, Agenda!Spec, Speakers!Spec, Accounts!Spec,
      Search!Spec, allVars

(* Every table, transaction and token of the six components is well typed. *)
THEOREM RecordsTypeCorrect == ComponentsSpec => []RecordsTypeOK
<1>1. ComponentsSpec => []TypeOK
  BY ComponentsBehave, TypeCorrect, PTL
<1>2. ComponentsSpec => []Search!TypeOK
  BY ComponentsBehave, SameSearch, SearchTheorems!TypeCorrect, SearchAssumption, PTL
<1>3. /\ CertInv => Certificates!TypeOK
      /\ AgendaInv => Agenda!TypeOK
      /\ SpeakersInv => Speakers!TypeOK
      /\ AccountsInv => Accounts!TypeOK
  BY DEF CertInv, AgendaInv, SpeakersInv, AccountsInv
<1> QED
  BY <1>1, <1>2, <1>3, ComponentsBehave, CertificatesCorrect, AgendaCorrect,
     SpeakersCorrect, AccountsCorrect, PTL
  DEF RecordsTypeOK

(* RF-01: by text, pages miss or repeat an event only as rows move or tie. *)
THEOREM SearchListsAll == ComponentsSpec => []PagesListAll
  BY ComponentsBehave, SameSearch, SearchTheorems!PagesMissNothing, SearchAssumption, PTL
  DEF PagesListAll

(* RF-30: an empty answer means that no event matched the text all along,  *)
(* nor had the topic asked for.                                            *)
THEOREM SearchFindsNone == ComponentsSpec => []NothingMeansNone
  BY ComponentsBehave, SameSearch, SearchTheorems!EmptyMeansNone, SearchAssumption, PTL
  DEF NothingMeansNone

(* What the components promise holds of their composition: this is what    *)
(* the run of MCRecords checks on a small instance.                        *)
THEOREM RecordsCorrect ==
    ComponentsSpec =>
        /\ [](PaidTwiceOnlyTogether /\ AttendanceFirst /\ RepeatedOnlyTogether)
        /\ [](ReadyIsThere /\ OnlyConcurrentSessionsClash /\ OnlyConcurrentAnswersRepeat)
        /\ [](OneAccountPerEmail /\ ClaimsAreRecent /\ PagesListAll /\ NothingMeansNone)
        /\ EarlyEndIsARejection /\ ConfirmedIsStoredUnlessTogether /\ ErasedStaysErased
  BY ComponentsBehave, PaidOnceUnlessTogether, AttendanceAlwaysFirst, RepetitionsOverlap,
     ReadyAlwaysThere, SessionsClashOnlyTogether, AnswersRepeatOnlyTogether,
     AlwaysOneAccount, ClaimsAlwaysRecent, SearchListsAll, SearchFindsNone,
     OnlyRejectionsEndEarly, StoredUnlessTogether, ErasureIsForGood, PTL
=============================================================================
