------------------------------ MODULE Idempotency ------------------------------
(***************************************************************************)
(* The IdempotencyRecord rows of one scope (idempotency.service.ts).       *)
(* Each operator is one statement; what happens between them is up to the  *)
(* operation that is guarded.                                              *)
(***************************************************************************)
CONSTANTS
    Keys,        \* idempotency keys
    Payloads,    \* what the payload hash tells apart
    None

VARIABLE record

Record == [status : {"ABSENT", "PROCESSING", "COMPLETED", "FAILED"},
           payload : Payloads \cup {None}]

IdempotencyTypeOK == record \in [Keys -> Record]

IdempotencyInit == record = [k \in Keys |-> [status |-> "ABSENT", payload |-> None]]

-------------------------------------------------------------------------------
(* Mutation: the key is stored in the place of the payload.                *)
CreateSwapped(k, p) ==
    /\ record[k].status = "ABSENT"
    /\ record' = [record EXCEPT ![k] = [status |-> "PROCESSING", payload |-> k]]

(* begin, first statement: the insert, or P2002.                           *)
Create(k, p) ==
    /\ record[k].status = "ABSENT"
    /\ record' = [record EXCEPT ![k] = [status |-> "PROCESSING", payload |-> p]]

Exists(k) == record[k].status # "ABSENT"

(* Mutation: the payload is not compared.                                  *)
VerdictAnyPayload(k, p) ==
    IF record[k].status = "COMPLETED" THEN "replay"
    ELSE IF record[k].status = "FAILED" THEN "reclaim"
    ELSE "busy"

(* begin, second statement: what the row it found tells the caller.        *)
Verdict(k, p) ==
    IF record[k].payload # p THEN "conflict"
    ELSE IF record[k].status = "COMPLETED" THEN "replay"
    ELSE IF record[k].status = "FAILED" THEN "reclaim"
    ELSE "busy"

(* Updates by id: a FAILED row is taken again, complete and fail.  None of *)
(* them looks at the status.                                               *)
Reclaim(k)  == record' = [record EXCEPT ![k].status = "PROCESSING"]
Complete(k) == record' = [record EXCEPT ![k].status = "COMPLETED"]
Failed(k)   == record' = [record EXCEPT ![k].status = "FAILED"]
===============================================================================
