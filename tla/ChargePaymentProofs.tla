-------------------------- MODULE ChargePaymentProofs --------------------------
(***************************************************************************)
(* Proofs about ChargePayment, for any number of charges, amounts, keys,   *)
(* requests and editors.                                                   *)
(***************************************************************************)
EXTENDS ChargePayment, TLAPS

(* A request that is past its look at the record works under a record of   *)
(* its own payload, and has a paid charge once it says so.                 *)
WorksWell(r) ==
    request[r].phase # "idle" =>
        /\ request[r].of \in Charges
        /\ request[r].amount \in Amounts
        /\ request[r].key \in Keys
        /\ request[r].phase \notin {"begin", "exists"} =>
              /\ record[request[r].key].status # "ABSENT"
              /\ record[request[r].key].payload = <<request[r].of, request[r].amount>>
        /\ request[r].phase = "paid" => charge[request[r].of].status = "PAID"

Working == \A r \in Requests : WorksWell(r)

(* An editor whose updatedAt is still that of the row has seen its status. *)
EditsWell(x) ==
    editor[x].phase # "idle" =>
        /\ editor[x].of \in Charges
        /\ editor[x].phase = "read" /\ editor[x].fresh =>
              /\ editor[x].seen = charge[editor[x].of].status
              /\ editor[x].cancels => editor[x].seen # "PAID"

Editing == \A x \in Editors : EditsWell(x)

IInv == TypeOK /\ PaidOnce /\ CompletedPaid /\ Working /\ Editing

(* The statuses that are final stay.                                       *)
Final == \A c \in Charges : charge[c].status \notin Open => charge'[c].status = charge[c].status

(* A record never goes away, nor does its payload.                         *)
Kept ==
    \A k \in Keys : record[k].status # "ABSENT" =>
        /\ record'[k].status # "ABSENT"
        /\ record'[k].payload = record[k].payload

-------------------------------------------------------------------------------
(* Type correctness.                                                       *)
LEMMA TypeInit == Init => TypeOK
<1> SUFFICES ASSUME Init PROVE TypeOK
  OBVIOUS
<1> USE DEF Init
<1>1. charge \in [Charges -> Charge]
  BY DEF Charge, Open
<1>2. payments \in [Charges -> Seq(Amounts)]
  OBVIOUS
<1>3. announced \subseteq Charges \X Keys
  OBVIOUS
<1>4. IdempotencyTypeOK
  BY DEF IdempotencyTypeOK, IdempotencyInit, Record
<1>5. request \in [Requests -> Request]
  BY DEF IdleRequest, Request
<1>6. editor \in [Editors -> Editor]
  BY DEF IdleEditor, Editor, Open
<1> QED
  BY <1>1, <1>2, <1>3, <1>4, <1>5, <1>6 DEF TypeOK

LEMMA GoesType ==
    ASSUME TypeOK, NEW r \in Requests, NEW phase,
           phase \in {"exists", "reclaim", "execute", "checked", "paid", "failing"},
           Goes(r, phase)
    PROVE  request' \in [Requests -> Request]
  BY DEF TypeOK, Goes, Request

LEMMA EndsType ==
    ASSUME TypeOK, NEW r \in Requests, Ends(r)
    PROVE  request' \in [Requests -> Request]
  BY DEF TypeOK, Ends, IdleRequest, Request

LEMMA RecordType ==
    ASSUME TypeOK, NEW k \in Keys, Reclaim(k) \/ Complete(k) \/ Failed(k)
    PROVE  IdempotencyTypeOK'
  BY DEF TypeOK, IdempotencyTypeOK, Reclaim, Complete, Failed, Record

LEMMA CreateType ==
    ASSUME TypeOK, NEW k \in Keys, NEW p \in Payloads, Create(k, p)
    PROVE  IdempotencyTypeOK'
  BY DEF TypeOK, IdempotencyTypeOK, Create, Record

LEMMA TouchedType ==
    ASSUME TypeOK, NEW cs
    PROVE  Touched(cs) \in [Editors -> Editor]
  BY DEF TypeOK, Touched, Editor

LEMMA AskedType ==
    ASSUME TypeOK, NEW r \in Requests, NEW c \in Charges, NEW a \in Amounts, NEW k \in Keys,
           Asked(r, c, a, k)
    PROVE  request' \in [Requests -> Request]
  BY DEF TypeOK, Asked, Request

LEMMA TypeStep ==
    ASSUME TypeOK, Working, Editing, [Next]_vars
    PROVE  TypeOK'
<1>1. ASSUME NEW r \in Requests, PayLoad(r) PROVE TypeOK'
  <2>1. PICK c \in Charges, a \in Amounts, k \in Keys : Asked(r, c, a, k)
    BY <1>1 DEF PayLoad, Keys, Payloads
  <2> QED
    BY <2>1, AskedType DEF TypeOK, Asked, IdempotencyTypeOK
<1>2. ASSUME NEW r \in Requests, AdoptLoad(r) PROVE TypeOK'
  <2>1. PICK c \in Charges, a \in Amounts, k \in Keys : Asked(r, c, a, k)
    BY <1>2 DEF AdoptLoad, Keys, Payloads, TypeOK, Charge
  <2> QED
    BY <2>1, AskedType DEF TypeOK, Asked, IdempotencyTypeOK
<1>3. ASSUME NEW r \in Requests, Begin(r) PROVE TypeOK'
  <2>1. Payload(r) \in Payloads /\ request[r].key \in Keys
    BY <1>3 DEF Begin, Working, WorksWell, Payload, Payloads
  <2>2. IdempotencyTypeOK'
    BY <1>3, <2>1, CreateType DEF Begin, TypeOK, IdempotencyTypeOK
  <2>3. request' \in [Requests -> Request]
    BY <1>3, GoesType DEF Begin
  <2> QED
    BY <1>3, <2>2, <2>3 DEF Begin, TypeOK
<1>4. ASSUME NEW r \in Requests, BeginExisting(r) PROVE TypeOK'
  <2>1. request' \in [Requests -> Request]
    BY <1>4, GoesType, EndsType DEF BeginExisting
  <2> QED
    BY <1>4, <2>1 DEF BeginExisting, TypeOK, IdempotencyTypeOK
<1>5. ASSUME NEW r \in Requests, BeginAgain(r) PROVE TypeOK'
  <2>1. request[r].key \in Keys
    BY <1>5 DEF BeginAgain, Working, WorksWell
  <2>2. IdempotencyTypeOK'
    BY <1>5, <2>1, RecordType DEF BeginAgain
  <2>3. request' \in [Requests -> Request]
    BY <1>5, GoesType DEF BeginAgain
  <2> QED
    BY <1>5, <2>2, <2>3 DEF BeginAgain, TypeOK
<1>6. ASSUME NEW r \in Requests, PayRead(r) \/ PayMissed(r) \/ PayError(r) PROVE TypeOK'
  <2>1. request' \in [Requests -> Request]
    BY <1>6, GoesType DEF PayRead, PayMissed, PayError
  <2> QED
    BY <1>6, <2>1 DEF PayRead, PayMissed, PayError, TypeOK, IdempotencyTypeOK
<1>7. ASSUME NEW r \in Requests, PayWrite(r) PROVE TypeOK'
  <2>1. PICK c \in Charges, a \in Amounts, k \in Keys :
            request[r].of = c /\ request[r].amount = a /\ request[r].key = k
    BY <1>7 DEF PayWrite, Working, WorksWell
  <2>2. charge' \in [Charges -> Charge]
    BY <1>7, <2>1 DEF PayWrite, TypeOK, Charge
  <2>3. payments' \in [Charges -> Seq(Amounts)]
    BY <1>7, <2>1 DEF PayWrite, TypeOK
  <2>4. announced' \subseteq Charges \X Keys
    BY <1>7, <2>1 DEF PayWrite, TypeOK
  <2>5. request' \in [Requests -> Request]
    BY <1>7, GoesType DEF PayWrite
  <2>6. editor' \in [Editors -> Editor]
    BY <1>7, <2>1, TouchedType DEF PayWrite
  <2> QED
    BY <1>7, <2>2, <2>3, <2>4, <2>5, <2>6 DEF PayWrite, TypeOK, IdempotencyTypeOK
<1>8. ASSUME NEW r \in Requests, PayComplete(r) PROVE TypeOK'
  <2>1. request[r].key \in Keys
    BY <1>8 DEF PayComplete, Working, WorksWell
  <2>2. IdempotencyTypeOK'
    BY <1>8, <2>1, RecordType DEF PayComplete, TypeOK, IdempotencyTypeOK
  <2>3. request' \in [Requests -> Request]
    BY <1>8, GoesType, EndsType DEF PayComplete
  <2> QED
    BY <1>8, <2>2, <2>3 DEF PayComplete, TypeOK
<1>9. ASSUME NEW r \in Requests, PayFail(r) PROVE TypeOK'
  <2>1. request[r].key \in Keys
    BY <1>9 DEF PayFail, Working, WorksWell
  <2>2. IdempotencyTypeOK'
    BY <1>9, <2>1, RecordType DEF PayFail
  <2>3. request' \in [Requests -> Request]
    BY <1>9, EndsType DEF PayFail
  <2> QED
    BY <1>9, <2>2, <2>3 DEF PayFail, TypeOK
<1>10. ASSUME NEW r \in Requests, PayAbort(r) PROVE TypeOK'
  <2>1. request' \in [Requests -> Request]
    BY <1>10, EndsType DEF PayAbort
  <2> QED
    BY <1>10, <2>1 DEF PayAbort, TypeOK, IdempotencyTypeOK
<1>11. ASSUME NEW x \in Editors, EditLoad(x) PROVE TypeOK'
  <2>1. editor' \in [Editors -> Editor]
    BY <1>11 DEF EditLoad, TypeOK, Editor, Open
  <2> QED
    BY <1>11, <2>1 DEF EditLoad, TypeOK, IdempotencyTypeOK
<1>12. ASSUME NEW x \in Editors, EditRead(x) PROVE TypeOK'
  <2>1. editor[x].of \in Charges /\ charge[editor[x].of].status \in Open \cup {"PAID", "CANCELED"}
    BY <1>12 DEF EditRead, Editing, EditsWell, TypeOK, Charge
  <2>2. editor[x].fresh \in BOOLEAN
    BY DEF TypeOK, Editor
  <2>3. editor' \in [Editors -> Editor]
    BY <1>12, <2>1, <2>2 DEF EditRead, TypeOK, Editor
  <2> QED
    BY <1>12, <2>3 DEF EditRead, TypeOK, IdempotencyTypeOK
<1>13. ASSUME NEW x \in Editors, EditWrite(x) PROVE TypeOK'
  <2>1. PICK c \in Charges : editor[x].of = c
    BY <1>13 DEF EditWrite, Editing, EditsWell
  <2>2. charge' \in [Charges -> Charge]
    BY <1>13, <2>1 DEF EditWrite, TypeOK, Charge
  <2>3. editor' \in [Editors -> Editor]
    BY <1>13, <2>1, TouchedType DEF EditWrite, IdleEditor, Editor, Open
  <2> QED
    BY <1>13, <2>2, <2>3 DEF EditWrite, TypeOK, IdempotencyTypeOK
<1>14. ASSUME NEW x \in Editors, EditEnd(x) PROVE TypeOK'
  <2>1. editor' \in [Editors -> Editor]
    BY <1>14 DEF EditEnd, TypeOK, IdleEditor, Editor, Open
  <2> QED
    BY <1>14, <2>1 DEF EditEnd, TypeOK, IdempotencyTypeOK
<1>15. ASSUME Overdue PROVE TypeOK'
  <2>1. charge' \in [Charges -> Charge]
    BY <1>15 DEF Overdue, TypeOK, Charge, Open
  <2>2. editor' \in [Editors -> Editor]
    BY <1>15, TouchedType DEF Overdue
  <2> QED
    BY <1>15, <2>1, <2>2 DEF Overdue, TypeOK, IdempotencyTypeOK
<1>16. CASE UNCHANGED vars
  BY <1>16 DEF vars, TypeOK, IdempotencyTypeOK
<1> QED
  BY <1>1, <1>2, <1>3, <1>4, <1>5, <1>6, <1>7, <1>8, <1>9, <1>10, <1>11, <1>12, <1>13, <1>14,
     <1>15, <1>16 DEF Next, PayStep, EditStep

-------------------------------------------------------------------------------
(* What no step undoes.                                                    *)
LEMMA KeptStep ==
    ASSUME TypeOK, Working, [Next]_vars
    PROVE  Kept
<1>0. record \in [Keys -> Record]
  BY DEF TypeOK, IdempotencyTypeOK
<1>1. ASSUME NEW r \in Requests, Begin(r) PROVE Kept
  BY <1>0, <1>1 DEF Begin, Create, Kept
<1>2. ASSUME NEW r \in Requests, BeginAgain(r) \/ PayComplete(r) \/ PayFail(r) PROVE Kept
  <2>1. PICK k \in Keys : UNCHANGED record \/ Reclaim(k) \/ Complete(k) \/ Failed(k)
    BY <1>2 DEF BeginAgain, PayComplete, PayFail, Working, WorksWell
  <2> QED
    BY <1>0, <2>1 DEF Kept, Reclaim, Complete, Failed, Record
<1>3. CASE UNCHANGED record
  BY <1>3 DEF Kept
<1> QED
  BY <1>1, <1>2, <1>3 DEF Next, PayStep, EditStep, PayLoad, AdoptLoad, Asked, BeginExisting,
     PayRead, PayMissed, PayError, PayWrite, PayAbort, EditLoad, EditRead, EditWrite, EditEnd,
     Overdue, vars

LEMMA FinalStep ==
    ASSUME TypeOK, Working, Editing, [Next]_vars
    PROVE  Final
<1>0. charge \in [Charges -> Charge]
  BY DEF TypeOK
<1>1. ASSUME NEW r \in Requests, PayWrite(r) PROVE Final
  <2>1. PICK c \in Charges : request[r].of = c
    BY <1>1 DEF PayWrite, Working, WorksWell
  <2> QED
    BY <1>0, <1>1, <2>1 DEF PayWrite, Payable, Final, Charge
<1>2. ASSUME NEW x \in Editors, EditWrite(x) PROVE Final
  <2>1. PICK c \in Charges : editor[x].of = c
    BY <1>2 DEF EditWrite, Editing, EditsWell
  <2>2. editor[x].cancels => charge[c].status # "PAID"
    BY <1>2, <2>1 DEF EditWrite, UnchangedSince, Editing, EditsWell
  <2>3. charge[c].status \notin Open /\ charge[c].status # "PAID" => charge[c].status = "CANCELED"
    BY <1>0 DEF Charge
  <2>4. PICK a \in Amounts : charge' = [charge EXCEPT ![c] =
            [status |-> IF editor[x].cancels THEN "CANCELED" ELSE charge[c].status,
             amount |-> a]]
    BY <1>2, <2>1 DEF EditWrite
  <2> QED
    BY <1>0, <2>2, <2>3, <2>4 DEF Final
<1>3. ASSUME Overdue PROVE Final
  BY <1>0, <1>3 DEF Overdue, Final, Open
<1>4. CASE UNCHANGED charge
  BY <1>4 DEF Final
<1> QED
  BY <1>1, <1>2, <1>3, <1>4 DEF Next, PayStep, EditStep, PayLoad, AdoptLoad, Asked, Begin,
     BeginExisting, BeginAgain, PayRead, PayMissed, PayError, PayComplete, PayFail, PayAbort,
     EditLoad, EditRead, EditEnd, vars

-------------------------------------------------------------------------------
(* The rest of the invariant.                                              *)
LEMMA PaidOnceStep ==
    ASSUME TypeOK, PaidOnce, Working, Editing, [Next]_vars
    PROVE  PaidOnce'
<1>0. charge \in [Charges -> Charge] /\ payments \in [Charges -> Seq(Amounts)]
  BY DEF TypeOK
<1>1. ASSUME NEW r \in Requests, PayWrite(r) PROVE PaidOnce'
  <2>1. PICK c \in Charges, a \in Amounts, k \in Keys :
            request[r].of = c /\ request[r].amount = a /\ request[r].key = k
    BY <1>1 DEF PayWrite, Working, WorksWell
  <2>2. charge[c].status \in Open
    BY <1>1, <2>1 DEF PayWrite, Payable
  <2>3. charge'[c].status = "PAID" /\ \A d \in Charges \ {c} : charge'[d] = charge[d]
    BY <1>0, <1>1, <2>1 DEF PayWrite, Charge
  <2>4. /\ payments'[c] = Append(payments[c], a)
        /\ \A d \in Charges \ {c} : payments'[d] = payments[d]
    BY <1>0, <1>1, <2>1 DEF PayWrite
  <2>5. announced' = announced \cup {<<c, k>>}
    BY <1>1, <2>1 DEF PayWrite
  <2>6. Len(payments[c]) = 0 /\ payments[c] = <<>>
    BY <1>0, <2>2 DEF PaidOnce, Open
  <2>7. Len(payments'[c]) = 1 /\ payments'[c] # <<>>
    BY <1>0, <2>4, <2>6
  <2>8. \A j \in Keys : <<c, j>> \notin announced
    BY <2>6 DEF PaidOnce
  <2>9. ASSUME NEW d \in Charges \ {c}
        PROVE  \A j \in Keys : <<d, j>> \in announced' <=> <<d, j>> \in announced
    BY <2>5
  <2> QED
    BY <2>3, <2>4, <2>5, <2>7, <2>8, <2>9 DEF PaidOnce
<1>2. ASSUME UNCHANGED <<payments, announced>>,
             \A c \in Charges : charge'[c].status = "PAID" <=> charge[c].status = "PAID"
      PROVE  PaidOnce'
  BY <1>2 DEF PaidOnce
<1>3. ASSUME NEW x \in Editors, EditWrite(x) PROVE PaidOnce'
  <2>1. PICK c \in Charges : editor[x].of = c
    BY <1>3 DEF EditWrite, Editing, EditsWell
  <2>2. editor[x].cancels => charge[c].status # "PAID"
    BY <1>3, <2>1 DEF EditWrite, UnchangedSince, Editing, EditsWell
  <2>3. PICK a \in Amounts : charge' = [charge EXCEPT ![c] =
            [status |-> IF editor[x].cancels THEN "CANCELED" ELSE charge[c].status,
             amount |-> a]]
    BY <1>3, <2>1 DEF EditWrite
  <2>4. \A d \in Charges : charge'[d].status = "PAID" <=> charge[d].status = "PAID"
    BY <1>0, <2>2, <2>3
  <2> QED
    BY <1>2, <1>3, <2>4 DEF EditWrite
<1>4. ASSUME Overdue PROVE PaidOnce'
  <2>1. \A d \in Charges : charge'[d].status = "PAID" <=> charge[d].status = "PAID"
    BY <1>4 DEF Overdue
  <2> QED
    BY <1>2, <1>4, <2>1 DEF Overdue
<1>5. CASE UNCHANGED <<charge, payments, announced>>
  BY <1>2, <1>5
<1> QED
  BY <1>1, <1>3, <1>4, <1>5 DEF Next, PayStep, EditStep, PayLoad, AdoptLoad, Asked, Begin,
     BeginExisting, BeginAgain, PayRead, PayMissed, PayError, PayComplete, PayFail, PayAbort,
     EditLoad, EditRead, EditEnd, vars

(* Only a request that says so completes a record, and its charge is paid. *)
LEMMA CompletedPaidStep ==
    ASSUME TypeOK, CompletedPaid, Working, Editing, [Next]_vars
    PROVE  CompletedPaid'
<1>0. record \in [Keys -> Record]
  BY DEF TypeOK, IdempotencyTypeOK
<1>1. Final /\ Kept
  BY FinalStep, KeptStep
<1>2. ASSUME NEW k \in Keys, record[k].status = "COMPLETED"
      PROVE  \E c \in Charges, a \in Amounts :
                record'[k].payload = <<c, a>> /\ charge'[c].status = "PAID"
  BY <1>1, <1>2 DEF CompletedPaid, Final, Kept, Open
<1>3. ASSUME NEW r \in Requests, PayComplete(r),
             NEW k \in Keys, record'[k].status = "COMPLETED", record[k].status # "COMPLETED"
      PROVE  \E c \in Charges, a \in Amounts :
                record'[k].payload = <<c, a>> /\ charge'[c].status = "PAID"
  <2>1. request[r].key = k /\ Complete(k)
    BY <1>0, <1>3 DEF PayComplete, Complete, Working, WorksWell
  <2>2. /\ record[k].status # "ABSENT"
        /\ record[k].payload = <<request[r].of, request[r].amount>>
        /\ charge[request[r].of].status = "PAID"
        /\ request[r].of \in Charges /\ request[r].amount \in Amounts
    BY <1>3, <2>1 DEF PayComplete, Working, WorksWell
  <2> QED
    BY <1>1, <2>2 DEF Kept, Final, Open
<1>4. ASSUME ~ \E r \in Requests : PayComplete(r)
      PROVE  \A k \in Keys : record'[k].status = "COMPLETED" => record[k].status = "COMPLETED"
  <2>1. ASSUME NEW r \in Requests, Begin(r), NEW k \in Keys, record'[k].status = "COMPLETED"
        PROVE  record[k].status = "COMPLETED"
    BY <1>0, <2>1 DEF Begin, Create
  <2>2. ASSUME NEW r \in Requests, BeginAgain(r) \/ PayFail(r),
               NEW k \in Keys, record'[k].status = "COMPLETED"
        PROVE  record[k].status = "COMPLETED"
    BY <1>0, <2>2 DEF BeginAgain, PayFail, Reclaim, Failed, Record
  <2>3. CASE UNCHANGED record
    BY <2>3
  <2> QED
    BY <1>4, <2>1, <2>2, <2>3 DEF Next, PayStep, EditStep, PayLoad, AdoptLoad, Asked,
       BeginExisting, PayRead, PayMissed, PayError, PayWrite, PayAbort, EditLoad, EditRead,
       EditWrite, EditEnd, Overdue, vars
<1> QED
  BY <1>2, <1>3, <1>4 DEF CompletedPaid

(* A request that does not move keeps what it works on.                    *)
LEMMA Unmoved ==
    ASSUME Working, Final, Kept, NEW q \in Requests, request'[q] = request[q]
    PROVE  WorksWell(q)'
  BY DEF Working, WorksWell, Final, Kept, Open

(* A request whose phase moves on has the same work, and the new phase may *)
(* ask more of record and charge.                                          *)
LEMMA MovedOn ==
    ASSUME TypeOK, Working, Final, Kept, NEW q \in Requests, NEW phase,
           request[q].phase # "idle", Goes(q, phase),
           phase \notin {"begin", "exists"} =>
              /\ record'[request[q].key].status # "ABSENT"
              /\ record'[request[q].key].payload = <<request[q].of, request[q].amount>>,
           phase = "paid" => charge'[request[q].of].status = "PAID"
    PROVE  WorksWell(q)'
  BY DEF Working, WorksWell, Goes, TypeOK, Request

LEMMA Ended ==
    ASSUME TypeOK, NEW q \in Requests, Ends(q)
    PROVE  WorksWell(q)'
  BY DEF WorksWell, Ends, IdleRequest, TypeOK

LEMMA Others ==
    ASSUME TypeOK, NEW q \in Requests,
           (\E phase \in {"exists", "reclaim", "execute", "checked", "paid", "failing"} :
               Goes(q, phase)) \/ Ends(q)
    PROVE  \A r \in Requests \ {q} : request'[r] = request[r]
  BY DEF TypeOK, Goes, Ends

LEMMA WorkingStep ==
    ASSUME TypeOK, PaidOnce, Working, Editing, [Next]_vars
    PROVE  Working'
<1>0. Final /\ Kept
  BY FinalStep, KeptStep
<1>1. SUFFICES ASSUME NEW q \in Requests PROVE WorksWell(q)'
  BY <1>1 DEF Working, WorksWell
<1>2. ASSUME NEW r \in Requests, PayLoad(r) \/ AdoptLoad(r) PROVE WorksWell(q)'
  <2>1. PICK c \in Charges, a \in Amounts, k \in Keys : Asked(r, c, a, k)
    BY <1>2 DEF PayLoad, AdoptLoad, Keys, Payloads, TypeOK, Charge
  <2>2. CASE q = r
    BY <2>1, <2>2 DEF Asked, WorksWell, TypeOK
  <2>3. CASE q # r
    BY <1>0, <2>1, <2>3, Unmoved DEF Asked, TypeOK
  <2> QED
    BY <2>2, <2>3
<1>3. ASSUME NEW r \in Requests, Begin(r) PROVE WorksWell(q)'
  <2>1. CASE q = r
    <3>1. CASE Create(request[r].key, Payload(r)) /\ Goes(r, "execute")
      <4>1. /\ record'[request[r].key].status # "ABSENT"
            /\ record'[request[r].key].payload = <<request[r].of, request[r].amount>>
        BY <1>3, <3>1 DEF Create, Payload, TypeOK, IdempotencyTypeOK, Begin, Working, WorksWell
      <4> QED
        BY <1>0, <1>3, <2>1, <3>1, <4>1, MovedOn DEF Begin
    <3>2. CASE Goes(r, "exists")
      BY <1>0, <1>3, <2>1, <3>2, MovedOn DEF Begin
    <3> QED
      BY <1>3, <3>1, <3>2 DEF Begin
  <2>2. CASE q # r
    BY <1>0, <1>3, <2>2, Unmoved, Others DEF Begin
  <2> QED
    BY <2>1, <2>2
<1>4. ASSUME NEW r \in Requests, BeginExisting(r) PROVE WorksWell(q)'
  <2>1. CASE q = r /\ Ends(r)
    BY <2>1, Ended
  <2>2. CASE q = r /\ Verdict(request[r].key, Payload(r)) = "reclaim" /\ Goes(r, "reclaim")
    <3>1. /\ record[request[r].key].status = "FAILED"
          /\ record[request[r].key].payload = <<request[r].of, request[r].amount>>
      BY <2>2 DEF Verdict, Payload
    <3> QED
      BY <1>0, <1>4, <2>2, <3>1, MovedOn DEF BeginExisting
  <2>3. CASE q # r
    BY <1>0, <1>4, <2>3, Unmoved, Others DEF BeginExisting
  <2> QED
    BY <1>4, <2>1, <2>2, <2>3 DEF BeginExisting
<1>5. ASSUME NEW r \in Requests, BeginAgain(r) PROVE WorksWell(q)'
  <2>1. CASE q = r
    <3>1. /\ record[request[r].key].status # "ABSENT"
          /\ record[request[r].key].payload = <<request[r].of, request[r].amount>>
          /\ request[r].key \in Keys
      BY <1>5 DEF BeginAgain, Working, WorksWell
    <3> QED
      BY <1>0, <1>5, <2>1, <3>1, MovedOn DEF BeginAgain, Kept
  <2>2. CASE q # r
    BY <1>0, <1>5, <2>2, Unmoved, Others DEF BeginAgain
  <2> QED
    BY <2>1, <2>2
<1>6. ASSUME NEW r \in Requests, PayRead(r) \/ PayMissed(r) \/ PayError(r) \/ PayWrite(r)
      PROVE  WorksWell(q)'
  <2>1. CASE q = r
    <3>1. /\ record[request[r].key].status # "ABSENT"
          /\ record[request[r].key].payload = <<request[r].of, request[r].amount>>
          /\ request[r].key \in Keys /\ request[r].of \in Charges
      BY <1>6 DEF PayRead, PayMissed, PayError, PayWrite, Working, WorksWell
    <3>2. PICK phase \in {"checked", "failing", "paid"} : Goes(r, phase)
      BY <1>6 DEF PayRead, PayMissed, PayError, PayWrite
    <3>3. ASSUME phase = "paid" PROVE charge'[request[r].of].status = "PAID"
      <4>1. CASE PayWrite(r)
        BY <3>1, <4>1 DEF PayWrite, TypeOK, Charge
      <4>2. CASE PayMissed(r) /\ AlreadyPaid(request[r].of)
        BY <4>2 DEF PayMissed, AlreadyPaid
      <4>3. CASE Goes(r, "checked") \/ Goes(r, "failing")
        BY <3>2, <3>3, <4>3 DEF Goes, TypeOK, Request
      <4> QED
        BY <1>6, <4>1, <4>2, <4>3 DEF PayRead, PayMissed, PayError
    <3> QED
      BY <1>0, <1>6, <2>1, <3>1, <3>2, <3>3, MovedOn
         DEF PayRead, PayMissed, PayError, PayWrite, Kept
  <2>2. CASE q # r
    BY <1>0, <1>6, <2>2, Unmoved, Others DEF PayRead, PayMissed, PayError, PayWrite
  <2> QED
    BY <2>1, <2>2
<1>7. ASSUME NEW r \in Requests, PayComplete(r) \/ PayFail(r) \/ PayAbort(r)
      PROVE  WorksWell(q)'
  <2>1. CASE q = r /\ Ends(r)
    BY <2>1, Ended
  <2>2. CASE q = r /\ PayComplete(r) /\ Goes(r, "failing")
    <3>1. /\ record[request[r].key].status # "ABSENT"
          /\ record[request[r].key].payload = <<request[r].of, request[r].amount>>
          /\ request[r].key \in Keys
      BY <2>2 DEF PayComplete, Working, WorksWell
    <3> QED
      BY <1>0, <2>2, <3>1, MovedOn DEF PayComplete, Kept
  <2>3. CASE q # r
    BY <1>0, <1>7, <2>3, Unmoved, Others DEF PayComplete, PayFail, PayAbort
  <2> QED
    BY <1>7, <2>1, <2>2, <2>3 DEF PayComplete, PayFail, PayAbort
<1>8. CASE UNCHANGED request
  BY <1>0, <1>8, Unmoved
<1> QED
  BY <1>2, <1>3, <1>4, <1>5, <1>6, <1>7, <1>8 DEF Next, PayStep, EditStep, EditLoad, EditRead,
     EditWrite, EditEnd, Overdue, vars

(* Every write of a charge makes the editors of this charge stale.         *)
LEMMA TouchedEdits ==
    ASSUME TypeOK, Editing, NEW y \in Editors, NEW cs, editor'[y] = Touched(cs)[y],
           \A c \in Charges \ cs : charge'[c] = charge[c]
    PROVE  EditsWell(y)'
<1>1. CASE editor[y].of \in cs
  <2>1. /\ editor'[y].phase = editor[y].phase /\ editor'[y].of = editor[y].of
        /\ editor'[y].fresh = FALSE
    BY <1>1 DEF Touched, TypeOK, Editor
  <2> QED
    BY <2>1 DEF EditsWell, Editing
<1>2. CASE editor[y].of \notin cs
  <2>1. editor'[y] = editor[y]
    BY <1>2 DEF Touched
  <2> QED
    BY <1>2, <2>1 DEF EditsWell, Editing
<1> QED
  BY <1>1, <1>2

LEMMA EditingStep ==
    ASSUME TypeOK, Working, Editing, [Next]_vars
    PROVE  Editing'
<1>1. SUFFICES ASSUME NEW y \in Editors PROVE EditsWell(y)'
  BY <1>1 DEF Editing, EditsWell
<1>2. ASSUME NEW r \in Requests, PayWrite(r) PROVE EditsWell(y)'
  <2>1. PICK c \in Charges : request[r].of = c
    BY <1>2 DEF PayWrite, Working, WorksWell
  <2>2. \A d \in Charges \ {c} : charge'[d] = charge[d]
    BY <1>2, <2>1 DEF PayWrite, TypeOK
  <2>3. editor' = Touched({c})
    BY <1>2, <2>1 DEF PayWrite
  <2> QED
    BY <2>2, <2>3, TouchedEdits
<1>3. ASSUME NEW x \in Editors, EditWrite(x) PROVE EditsWell(y)'
  <2>1. PICK c \in Charges : editor[x].of = c
    BY <1>3 DEF EditWrite, Editing, EditsWell
  <2>2. \A d \in Charges \ {c} : charge'[d] = charge[d]
    BY <1>3, <2>1 DEF EditWrite, TypeOK
  <2>3. editor' = [Touched({c}) EXCEPT ![x] = IdleEditor]
    BY <1>3, <2>1 DEF EditWrite
  <2>4. CASE x = y
    BY <2>3, <2>4 DEF Touched, EditsWell, IdleEditor
  <2>5. CASE x # y
    <3>1. editor'[y] = Touched({c})[y]
      BY <2>3, <2>5 DEF Touched
    <3> QED
      BY <2>2, <3>1, TouchedEdits
  <2> QED
    BY <2>4, <2>5
<1>4. ASSUME Overdue PROVE EditsWell(y)'
  <2>1. PICK due \in SUBSET Charges :
            /\ \A c \in Charges \ due : charge'[c] = charge[c]
            /\ editor' = Touched(due)
    BY <1>4 DEF Overdue
  <2> QED
    BY <2>1, TouchedEdits
<1>5. ASSUME UNCHANGED charge, editor'[y] = editor[y] PROVE EditsWell(y)'
  BY <1>5 DEF Editing, EditsWell
<1>6. ASSUME NEW x \in Editors, EditLoad(x) PROVE EditsWell(y)'
  <2>1. CASE x = y
    BY <1>6, <2>1 DEF EditLoad, EditsWell, TypeOK
  <2>2. CASE x # y
    BY <1>5, <1>6, <2>2 DEF EditLoad, TypeOK
  <2> QED
    BY <2>1, <2>2
<1>7. ASSUME NEW x \in Editors, EditRead(x) PROVE EditsWell(y)'
  <2>1. CASE x = y
    BY <1>7, <2>1 DEF EditRead, EditsWell, TypeOK, Editing
  <2>2. CASE x # y
    BY <1>5, <1>7, <2>2 DEF EditRead, TypeOK
  <2> QED
    BY <2>1, <2>2
<1>8. ASSUME NEW x \in Editors, EditEnd(x) PROVE EditsWell(y)'
  <2>1. CASE x = y
    BY <1>8, <2>1 DEF EditEnd, EditsWell, TypeOK, IdleEditor
  <2>2. CASE x # y
    BY <1>5, <1>8, <2>2 DEF EditEnd, TypeOK
  <2> QED
    BY <2>1, <2>2
<1>9. CASE UNCHANGED <<charge, editor>>
  BY <1>5, <1>9
<1> QED
  BY <1>2, <1>3, <1>4, <1>6, <1>7, <1>8, <1>9 DEF Next, PayStep, EditStep, PayLoad, AdoptLoad,
     Asked, Begin, BeginExisting, BeginAgain, PayRead, PayMissed, PayError, PayComplete, PayFail,
     PayAbort, vars

-------------------------------------------------------------------------------
(* IInv is an inductive invariant.                                         *)
LEMMA InvInit == Init => IInv
<1> SUFFICES ASSUME Init PROVE IInv
  OBVIOUS
<1>1. TypeOK
  BY TypeInit
<1>2. PaidOnce
  <2>1. SUFFICES ASSUME NEW c \in Charges
                 PROVE  /\ Len(payments[c]) = (IF charge[c].status = "PAID" THEN 1 ELSE 0)
                        /\ payments[c] = <<>>
    BY <2>1 DEF Init, PaidOnce
  <2>2. charge[c].status = "PENDING" /\ payments[c] = <<>>
    BY DEF Init
  <2> QED
    BY <2>2
<1>3. CompletedPaid
  BY DEF Init, IdempotencyInit, CompletedPaid
<1>4. Working /\ Editing
  BY DEF Init, IdleRequest, IdleEditor, Working, WorksWell, Editing, EditsWell
<1> QED
  BY <1>1, <1>2, <1>3, <1>4 DEF IInv

LEMMA InvStep == IInv /\ [Next]_vars => IInv'
  BY TypeStep, PaidOnceStep, CompletedPaidStep, WorkingStep, EditingStep DEF IInv

THEOREM Invariant == Spec => []IInv
  BY InvInit, InvStep, PTL DEF Spec

(* Charges, payments, records, requests and editors keep their shape.      *)
THEOREM TypeCorrect == Spec => []TypeOK
  BY Invariant, PTL DEF IInv

(* PAID means one payment and one event, in every interleaving of requests *)
(* under any keys (the transaction of payCharge).                          *)
THEOREM ChargesArePaidOnce == Spec => []PaidOnce
  BY Invariant, PTL DEF IInv

(* A key is COMPLETED only for a paid charge (complete and fail by id).    *)
THEOREM CompletedKeysArePaid == Spec => []CompletedPaid
  BY Invariant, PTL DEF IInv

(* A stored answer is given only about a charge that is paid (begin).      *)
THEOREM ReplaysAreTrue == Spec => ReplayPaid
<1>1. ASSUME IInv, NEW r \in Requests, BeginExisting(r),
             Verdict(request[r].key, Payload(r)) = "replay"
      PROVE  charge[request[r].of].status = "PAID"
  <2>1. request[r].key \in Keys
    BY <1>1 DEF IInv, Working, WorksWell, BeginExisting
  <2>2. /\ record[request[r].key].status = "COMPLETED"
        /\ record[request[r].key].payload = <<request[r].of, request[r].amount>>
    BY <1>1 DEF Verdict, Payload
  <2> QED
    BY <1>1, <2>1, <2>2 DEF IInv, CompletedPaid
<1>2. IInv /\ [Next]_vars =>
        [\A r \in Requests :
            BeginExisting(r) /\ Verdict(request[r].key, Payload(r)) = "replay" =>
                charge[request[r].of].status = "PAID"]_vars
  BY <1>1
<1> QED
  BY <1>2, Invariant, PTL DEF Spec, ReplayPaid

(* Nobody takes a charge out of PAID or CANCELED: payments go by status,   *)
(* cancellations by updatedAt.                                             *)
THEOREM PaidAndCanceledStay == Spec => ChargeFinal
<1>1. IInv /\ [Next]_vars =>
        [\A c \in Charges :
            charge[c].status \notin Open => charge'[c].status = charge[c].status]_vars
  BY FinalStep DEF IInv, Final
<1> QED
  BY <1>1, Invariant, PTL DEF Spec, ChargeFinal

-------------------------------------------------------------------------------
(* The ledger of charges.                                                  *)
LEMMA InitLedger == Init => Ledger!Init
<1> SUFFICES ASSUME Init PROVE Ledger!Init
  OBVIOUS
<1>1. \A c \in Charges : State(c) = "open"
  <2>1. ASSUME NEW c \in Charges PROVE charge[c].status = "PENDING"
    BY DEF Init
  <2> QED
    BY <2>1 DEF State, Open
<1>2. payments = [c \in Charges |-> <<>>] /\ announced = {}
  BY DEF Init
<1> QED
  BY <1>1, <1>2 DEF Ledger!Init

(* What moves no status across "open" and books nothing is no step.        *)
LEMMA SameLedger ==
    ASSUME UNCHANGED <<payments, announced>>, \A c \in Charges : State(c)' = State(c)
    PROVE  UNCHANGED Ledger!vars
  BY DEF Ledger!vars

(* The transaction of a payment is the step that pays.                     *)
LEMMA PayLedger ==
    ASSUME IInv, NEW r \in Requests, PayWrite(r)
    PROVE  \E c \in Charges : Ledger!Pay(c)
<1>0. charge \in [Charges -> Charge] /\ payments \in [Charges -> Seq(Amounts)]
  BY DEF IInv, TypeOK
<1>1. PICK c \in Charges, a \in Amounts, k \in Keys :
          request[r].of = c /\ request[r].amount = a /\ request[r].key = k
  BY DEF IInv, PayWrite, Working, WorksWell
<1>2. charge[c].status \in Open /\ State(c) = "open"
  BY <1>1 DEF PayWrite, Payable, State
<1>3. payments[c] = <<>>
  BY <1>0, <1>2 DEF IInv, PaidOnce, Open
<1>4. payments' = [payments EXCEPT ![c] = <<a>>]
  BY <1>1, <1>3 DEF PayWrite
<1>5. /\ charge'[c].status = "PAID"
      /\ \A d \in Charges \ {c} : charge'[d] = charge[d]
  BY <1>0, <1>1 DEF PayWrite, Charge
<1>6. State(c)' = "PAID" /\ \A d \in Charges \ {c} : State(d)' = State(d)
  BY <1>5 DEF State, Open
<1>7. [d \in Charges |-> State(d)]' = [[d \in Charges |-> State(d)] EXCEPT ![c] = "PAID"]
  BY <1>6
<1>8. announced' = announced \cup {<<c, k>>}
  BY <1>1 DEF PayWrite
<1>9. {d \in Charges : \E j \in Keys : <<d, j>> \in announced}'
          = {d \in Charges : \E j \in Keys : <<d, j>> \in announced} \cup {c}
  BY <1>8
<1> QED
  BY <1>2, <1>4, <1>7, <1>9 DEF Ledger!Pay

(* A write of updateCharge cancels an open charge or moves nothing.        *)
LEMMA EditLedger ==
    ASSUME IInv, NEW x \in Editors, EditWrite(x)
    PROVE  (\E c \in Charges : Ledger!Cancel(c)) \/ UNCHANGED Ledger!vars
<1>0. charge \in [Charges -> Charge]
  BY DEF IInv, TypeOK
<1>1. PICK c \in Charges : editor[x].of = c
  BY DEF IInv, EditWrite, Editing, EditsWell
<1>2. editor[x].cancels => charge[c].status # "PAID"
  BY <1>1 DEF IInv, EditWrite, UnchangedSince, Editing, EditsWell
<1>3. PICK a \in Amounts : charge' = [charge EXCEPT ![c] =
          [status |-> IF editor[x].cancels THEN "CANCELED" ELSE charge[c].status,
           amount |-> a]]
  BY <1>1 DEF EditWrite
<1>4. \A d \in Charges \ {c} : State(d)' = State(d)
  BY <1>0, <1>3 DEF State
<1>5. UNCHANGED <<payments, announced>>
  BY DEF EditWrite
<1>6. CASE editor[x].cancels /\ charge[c].status \in Open
  <2>1. State(c) = "open" /\ State(c)' = "CANCELED"
    BY <1>0, <1>3, <1>6 DEF State, Open
  <2>2. [d \in Charges |-> State(d)]'
            = [[d \in Charges |-> State(d)] EXCEPT ![c] = "CANCELED"]
    BY <1>4, <2>1
  <2> QED
    BY <1>5, <2>1, <2>2 DEF Ledger!Cancel
<1>7. CASE ~ (editor[x].cancels /\ charge[c].status \in Open)
  <2>1. charge'[c].status = charge[c].status
    BY <1>0, <1>2, <1>3, <1>7 DEF Charge
  <2>2. State(c)' = State(c)
    BY <2>1 DEF State
  <2> QED
    BY <1>4, <1>5, <2>2, SameLedger
<1> QED
  BY <1>6, <1>7

LEMMA NextLedger ==
    ASSUME IInv, [Next]_vars
    PROVE  [Ledger!Next]_Ledger!vars
<1>1. ASSUME NEW r \in Requests, PayWrite(r) PROVE Ledger!Next
  BY <1>1, PayLedger DEF Ledger!Next
<1>2. ASSUME NEW x \in Editors, EditWrite(x) PROVE Ledger!Next \/ UNCHANGED Ledger!vars
  BY <1>2, EditLedger DEF Ledger!Next
<1>3. ASSUME Overdue PROVE UNCHANGED Ledger!vars
  <2>1. \A c \in Charges : State(c)' = State(c)
    BY <1>3 DEF Overdue, State, Open
  <2> QED
    BY <1>3, <2>1, SameLedger DEF Overdue
<1>4. CASE UNCHANGED <<charge, payments, announced>>
  <2>1. \A c \in Charges : State(c)' = State(c)
    BY <1>4 DEF State
  <2> QED
    BY <1>4, <2>1, SameLedger
<1> QED
  BY <1>1, <1>2, <1>3, <1>4 DEF Next, PayStep, EditStep, PayLoad, AdoptLoad, Asked, Begin,
     BeginExisting, BeginAgain, PayRead, PayMissed, PayError, PayComplete, PayFail, PayAbort,
     EditLoad, EditRead, EditEnd, vars

(* Payments, edits, cancellations and the overdue sweep implement the      *)
(* ledger: one step books, announces and settles an open charge.           *)
THEOREM ImplementsLedger == Spec => LedgerSpec
  BY InitLedger, NextLedger, Invariant, PTL DEF Spec, LedgerSpec, Ledger!Spec

-------------------------------------------------------------------------------
(* A request past its comparison has the amount of its charge, as long as  *)
(* nobody edits the charge in between.                                     *)
Compared ==
    \A r \in Requests : request[r].phase = "checked" =>
        request[r].amount = charge[request[r].of].amount

(* A request that is "checked" was so before, or has just compared.        *)
LEMMA CheckedSteps ==
    ASSUME TypeOK, Working, [Next]_vars,
           NEW r \in Requests, request'[r].phase = "checked"
    PROVE  \/ request'[r] = request[r]
           \/ /\ request'[r].of = request[r].of /\ request'[r].amount = request[r].amount
              /\ request[r].of \in Charges
              /\ request[r].amount = charge[request[r].of].amount
              /\ UNCHANGED charge
<1>1. CASE UNCHANGED request
  BY <1>1
<1>2. ASSUME NEW q \in Requests, \E c \in Charges, a \in Amounts : \E k : Asked(q, c, a, k)
      PROVE  request'[r] = request[r]
  BY <1>2 DEF Asked, TypeOK
<1>3. ASSUME NEW q \in Requests, NEW phase, phase # "checked", Goes(q, phase) \/ Ends(q)
      PROVE  request'[r] = request[r]
  BY <1>3 DEF Goes, Ends, IdleRequest, TypeOK, Request
<1>4. ASSUME NEW q \in Requests, PayRead(q), q # r \/ Goes(q, "failing")
      PROVE  request'[r] = request[r]
  BY <1>4 DEF PayRead, Goes, TypeOK, Request
<1>5. CASE PayRead(r) /\ ~ Goes(r, "failing")
  BY <1>5 DEF PayRead, Goes, TypeOK, Request, Working, WorksWell
<1>6. ASSUME NEW q \in Requests,
             PayLoad(q) \/ AdoptLoad(q)
      PROVE  \E c \in Charges, a \in Amounts : \E k : Asked(q, c, a, k)
  BY <1>6 DEF PayLoad, AdoptLoad, TypeOK, Charge
<1>7. ASSUME NEW q \in Requests,
             \/ Begin(q) \/ BeginExisting(q) \/ BeginAgain(q) \/ PayMissed(q) \/ PayError(q)
             \/ PayWrite(q) \/ PayComplete(q) \/ PayFail(q) \/ PayAbort(q)
      PROVE  \E phase \in {"exists", "reclaim", "execute", "paid", "failing"} :
                Goes(q, phase) \/ Ends(q)
  BY <1>7 DEF Begin, BeginExisting, BeginAgain, PayMissed, PayError, PayWrite, PayComplete,
     PayFail, PayAbort
<1> QED
  BY <1>1, <1>2, <1>3, <1>4, <1>5, <1>6, <1>7 DEF Next, PayStep, EditStep, EditLoad, EditRead,
     EditWrite, EditEnd, Overdue, vars

(* A payment differs from its charge only if an edit fell between the      *)
(* comparison and the update: this window is the only one.                 *)
THEOREM OnlyAnEditBetween == Spec /\ NoEditBetween => PaymentMatchesCharge
<1> DEFINE Fixed == \A r \in Requests :
                        request[r].phase = "checked" =>
                            charge'[request[r].of].amount = charge[request[r].of].amount
           Matches == \A c \in Charges :
                          payments'[c] # payments[c] =>
                              payments'[c] = Append(payments[c], charge[c].amount)
<1>1. Init => Compared
  BY DEF Init, Compared, IdleRequest
<1>2. IInv /\ Compared /\ [Next]_vars /\ [Fixed]_vars => Compared'
  <2> SUFFICES ASSUME IInv, Compared, [Next]_vars, [Fixed]_vars,
                      NEW r \in Requests, request'[r].phase = "checked"
               PROVE  request'[r].amount = charge'[request'[r].of].amount
    BY DEF Compared
  <2>1. CASE request'[r] = request[r]
    <3>1. charge'[request[r].of].amount = charge[request[r].of].amount
      BY <2>1 DEF vars
    <3> QED
      BY <2>1, <3>1 DEF Compared
  <2>2. CASE /\ request'[r].of = request[r].of /\ request'[r].amount = request[r].amount
             /\ request[r].amount = charge[request[r].of].amount
             /\ UNCHANGED charge
    BY <2>2
  <2> QED
    BY <2>1, <2>2, CheckedSteps DEF IInv
<1>3. IInv /\ Compared /\ [Next]_vars => [Matches]_vars
  <2> SUFFICES ASSUME IInv, Compared, [Next]_vars PROVE Matches
    OBVIOUS
  <2>1. ASSUME NEW r \in Requests, PayWrite(r) PROVE Matches
    <3>1. PICK c \in Charges : request[r].of = c /\ request[r].amount = charge[c].amount
      BY <2>1 DEF IInv, Working, WorksWell, PayWrite, Compared
    <3> QED
      BY <2>1, <3>1 DEF PayWrite, IInv, TypeOK
  <2>2. CASE UNCHANGED payments
    BY <2>2
  <2> QED
    BY <2>1, <2>2 DEF Next, PayStep, EditStep, PayLoad, AdoptLoad, Asked, Begin,
       BeginExisting, BeginAgain, PayRead, PayMissed, PayError, PayComplete, PayFail, PayAbort,
       EditLoad, EditRead, EditWrite, EditEnd, Overdue, vars
<1> QED
  BY <1>1, <1>2, <1>3, Invariant, PTL DEF Spec, NoEditBetween, PaymentMatchesCharge

-------------------------------------------------------------------------------
(* A step of one request, seen from the keys: it begins its work, goes on  *)
(* with it, ends it by writing a record that is not in progress, or stops. *)
LEMMA KeySteps ==
    ASSUME IInv, [Next]_vars, NEW k \in Keys, NEW r \in Requests, AtWork(r, k),
           record[k].status = "PROCESSING"
    PROVE  AtWork(r, k)' \/ record'[k].status # "PROCESSING" \/ PayAbort(r)
<1> DEFINE Goal == AtWork(r, k)' \/ record'[k].status # "PROCESSING" \/ PayAbort(r)
<1>1. CASE request'[r] = request[r]
  BY <1>1 DEF AtWork
<1>2. CASE request'[r] # request[r]
  <2>1. ASSUME NEW q \in Requests, PayStep(q) PROVE q = r
    BY <1>2, <2>1 DEF PayStep, PayLoad, AdoptLoad, Asked, Begin, BeginExisting, BeginAgain,
       PayRead, PayWrite, PayMissed, PayError, PayComplete, PayFail, PayAbort, Goes, Ends,
       IInv, TypeOK
  <2>2. CASE PayStep(r)
    <3>1. CASE PayRead(r) \/ PayWrite(r) \/ PayMissed(r) \/ PayError(r)
      BY <3>1 DEF PayRead, PayWrite, PayMissed, PayError, Goes, AtWork, IInv, TypeOK, Request
    <3>2. CASE PayComplete(r)
      <4>1. CASE Goes(r, "failing")
        BY <4>1 DEF Goes, AtWork, IInv, TypeOK, Request
      <4>2. CASE Complete(request[r].key)
        BY <4>2 DEF Complete, AtWork, IInv, TypeOK, IdempotencyTypeOK, Record
      <4> QED
        BY <3>2, <4>1, <4>2 DEF PayComplete
    <3>3. CASE PayFail(r)
      BY <3>3 DEF PayFail, Failed, AtWork, IInv, TypeOK, IdempotencyTypeOK, Record
    <3> QED
      BY <2>2, <3>1, <3>2, <3>3
      DEF PayStep, PayLoad, AdoptLoad, Asked, Begin, BeginExisting, BeginAgain, AtWork
  <2> QED
    BY <1>2, <2>1, <2>2 DEF Next, EditStep, EditLoad, EditRead, EditWrite, EditEnd, Overdue, vars
<1> QED
  BY <1>1, <1>2

(* Whoever puts a key in progress is at work under it.                     *)
LEMMA KeyTaken ==
    ASSUME IInv, [Next]_vars, NEW k \in Keys, record[k].status # "PROCESSING",
           record'[k].status = "PROCESSING"
    PROVE  \E r \in Requests : AtWork(r, k)'
<1>1. ASSUME NEW r \in Requests, Begin(r) \/ BeginAgain(r) PROVE \E q \in Requests : AtWork(q, k)'
  <2>1. request[r].key \in Keys
    BY <1>1 DEF IInv, Working, WorksWell, Begin, BeginAgain
  <2>2. request[r].key = k /\ Goes(r, "execute")
    BY <1>1, <2>1 DEF Begin, BeginAgain, Create, Reclaim, IInv, TypeOK, IdempotencyTypeOK, Record
  <2> QED
    BY <2>2 DEF Goes, AtWork, IInv, TypeOK, Request
<1>2. ASSUME NEW r \in Requests, PayComplete(r) \/ PayFail(r) PROVE FALSE
  BY <1>2 DEF PayComplete, PayFail, Complete, Failed, IInv, TypeOK, IdempotencyTypeOK, Record
<1>3. record' # record
  OBVIOUS
<1> QED
  BY <1>1, <1>2, <1>3
  DEF Next, PayStep, PayLoad, AdoptLoad, Asked, BeginExisting, PayRead, PayWrite, PayMissed,
      PayError, PayAbort, EditStep, EditLoad, EditRead, EditWrite, EditEnd, Overdue, vars

(* Only a stop between begin and complete or fail leaves a key in progress *)
(* for ever: reclaims by id, two owners of one key and complete() or       *)
(* COMMIT that throw do not.                                               *)
THEOREM OnlyAStopBlocksAKey == Spec /\ NoStopAtWork => []InProgressIsWorkedOn
<1> DEFINE NoStop == \A r \in Requests, k \in Keys :
                        AtWork(r, k) /\ record[k].status = "PROCESSING" => ~ PayAbort(r)
<1>1. Init => InProgressIsWorkedOn
  BY DEF Init, InProgressIsWorkedOn, IdempotencyInit
<1>2. IInv /\ InProgressIsWorkedOn /\ [Next]_vars /\ [NoStop]_vars => InProgressIsWorkedOn'
  <2> SUFFICES ASSUME IInv, InProgressIsWorkedOn, [Next]_vars, [NoStop]_vars,
                      NEW k \in Keys, record'[k].status = "PROCESSING"
               PROVE  \E r \in Requests : AtWork(r, k)'
    BY DEF InProgressIsWorkedOn
  <2>1. CASE record[k].status # "PROCESSING"
    BY <2>1, KeyTaken
  <2>2. CASE record[k].status = "PROCESSING"
    <3>1. PICK r \in Requests : AtWork(r, k)
      BY <2>2 DEF InProgressIsWorkedOn
    <3>2. CASE NoStop
      BY <2>2, <3>1, <3>2, KeySteps
    <3>3. CASE UNCHANGED vars
      BY <3>1, <3>3 DEF vars, AtWork
    <3> QED
      BY <3>2, <3>3
  <2> QED
    BY <2>1, <2>2
<1> QED
  BY <1>1, <1>2, Invariant, PTL DEF Spec, NoStopAtWork
===============================================================================
