----------------------------- MODULE ChargePayment -----------------------------
(***************************************************************************)
(* Paying, changing, cancelling and expiring charges (finance.service.ts,  *)
(* payments.service.ts).  payCharge runs under an idempotency record and   *)
(* one transaction (READ COMMITTED: read the charge, then update it by     *)
(* status); everybody else changes the charge with one statement.          *)
(*                                                                         *)
(* Left out: the WhatsApp receipt after a payment, the timeline and audit  *)
(* rows, due dates and notes, and Payment.externalRef.                     *)
(***************************************************************************)
EXTENDS Naturals, Sequences

CONSTANTS
    Charges,       \* charges of the organisation
    Amounts,       \* amountCents
    ClientKeys,    \* idempotency keys that clients choose
    Requests,      \* payCharge calls at the same time
    Editors,       \* updateCharge and cancelCharge calls at the same time
    None

(* Without a key of the client the key is made of the charge and the       *)
(* amount; the payload is the same pair.                                   *)
Payloads == Charges \X Amounts
Keys     == ClientKeys \cup Payloads

ASSUME ChargeAssumption == None \notin Charges \cup Amounts \cup Keys \cup Payloads

VARIABLES
    charge,      \* the Charge rows
    payments,    \* amounts of the Payment rows of each charge
    announced,   \* PAYMENT_RECEIVED events in the outbox: <<charge, key>>
    record,      \* IdempotencyRecord rows of scope finance.pay_charge
    request,     \* payCharge calls
    editor       \* updateCharge and cancelCharge calls

vars == <<charge, payments, announced, record, request, editor>>

INSTANCE Idempotency

Open == {"PENDING", "OVERDUE"}

Charge  == [status : Open \cup {"PAID", "CANCELED"}, amount : Amounts]
Request == [phase : {"idle", "begin", "exists", "reclaim", "execute", "checked", "paid", "failing"},
            of : Charges \cup {None}, amount : Amounts \cup {None}, key : Keys \cup {None}]
Editor  == [phase : {"idle", "loaded", "read"}, of : Charges \cup {None},
            seen : Open \cup {"PAID", "CANCELED"}, cancels : BOOLEAN,
            fresh : BOOLEAN]    \* expectedUpdatedAt is the updatedAt of the row

IdleRequest == [phase |-> "idle", of |-> None, amount |-> None, key |-> None]
IdleEditor  == [phase |-> "idle", of |-> None, seen |-> "PENDING", cancels |-> FALSE,
                fresh |-> FALSE]

TypeOK ==
    /\ charge \in [Charges -> Charge]
    /\ payments \in [Charges -> Seq(Amounts)]
    /\ announced \subseteq Charges \X Keys
    /\ IdempotencyTypeOK
    /\ request \in [Requests -> Request]
    /\ editor \in [Editors -> Editor]

Init ==
    /\ \E a \in Amounts : charge = [c \in Charges |-> [status |-> "PENDING", amount |-> a]]
    /\ payments = [c \in Charges |-> <<>>]
    /\ announced = {}
    /\ IdempotencyInit
    /\ request = [r \in Requests |-> IdleRequest]
    /\ editor = [x \in Editors |-> IdleEditor]

-------------------------------------------------------------------------------
(* payCharge.  PayLoad is a request of the API, an amount and a key of the *)
(* client's; AdoptLoad the Stripe webhook or the legacy route, which take  *)
(* the amount of the charge as they read it and the key made of it.        *)
Payload(r) == <<request[r].of, request[r].amount>>

Asked(r, c, a, k) ==
    /\ request[r].phase = "idle"
    /\ request' = [request EXCEPT ![r] = [phase |-> "begin", of |-> c, amount |-> a, key |-> k]]
    /\ UNCHANGED <<charge, payments, announced, record, editor>>

PayLoad(r) ==
    \E c \in Charges, a \in Amounts : \E k \in ClientKeys \cup {<<c, a>>} : Asked(r, c, a, k)

AdoptLoad(r) ==
    \E c \in Charges : Asked(r, c, charge[c].amount, <<c, charge[c].amount>>)

Goes(r, phase) == request' = [request EXCEPT ![r].phase = phase]
Ends(r)        == request' = [request EXCEPT ![r] = IdleRequest]

Begin(r) ==
    /\ request[r].phase = "begin"
    /\ \/ Create(request[r].key, Payload(r)) /\ Goes(r, "execute")
       \/ Exists(request[r].key) /\ Goes(r, "exists") /\ UNCHANGED record
    /\ UNCHANGED <<charge, payments, announced, editor>>

(* Replays, conflicts and keys in progress are answered at once.           *)
BeginExisting(r) ==
    /\ request[r].phase = "exists"
    /\ IF Verdict(request[r].key, Payload(r)) = "reclaim" THEN Goes(r, "reclaim") ELSE Ends(r)
    /\ UNCHANGED <<charge, payments, announced, record, editor>>

BeginAgain(r) ==
    /\ request[r].phase = "reclaim"
    /\ Reclaim(request[r].key)
    /\ Goes(r, "execute")
    /\ UNCHANGED <<charge, payments, announced, editor>>

(* The transaction reads the charge ...                                    *)
PayRead(r) ==
    LET c == request[r].of
    IN  /\ request[r].phase = "execute"
        /\ IF charge[c].status # "CANCELED" /\ request[r].amount = charge[c].amount
           THEN Goes(r, "checked")
           ELSE Goes(r, "failing")
        /\ UNCHANGED <<charge, payments, announced, record, editor>>

(* Every write of charges changes their updatedAt.                         *)
Touched(cs) ==
    [x \in Editors |-> IF editor[x].of \in cs THEN [editor[x] EXCEPT !.fresh = FALSE]
                                             ELSE editor[x]]

(* Mutation: the update of the charge has no condition on the status.      *)
PayableAlways(c) == TRUE

Payable(c) == charge[c].status \in Open

(* ... updates it by status and adds payment and outbox event, or nothing  *)
(* of it (the event's key is unique).  COMMIT may be reported as an error. *)
PayWrite(r) ==
    LET c == request[r].of
    IN  /\ request[r].phase = "checked"
        /\ Payable(c)
        /\ \A d \in Charges : <<d, request[r].key>> \notin announced
        /\ charge' = [charge EXCEPT ![c].status = "PAID"]
        /\ payments' = [payments EXCEPT ![c] = Append(payments[c], request[r].amount)]
        /\ announced' = announced \cup {<<c, request[r].key>>}
        /\ editor' = Touched({c})
        /\ Goes(r, "paid") \/ Goes(r, "failing")
        /\ UNCHANGED record

(* Mutation: whoever finds no open charge takes it for a paid one.         *)
AlreadyPaidAlways(c) == TRUE

(* The update found nothing: somebody else has paid, and there is a        *)
(* payment, or the charge was cancelled.                                   *)
AlreadyPaid(c) == charge[c].status = "PAID" /\ payments[c] # <<>>

PayMissed(r) ==
    LET c == request[r].of
    IN  /\ request[r].phase = "checked"
        /\ ~ Payable(c)
        /\ IF AlreadyPaid(c) THEN Goes(r, "paid") ELSE Goes(r, "failing")
        /\ UNCHANGED <<charge, payments, announced, record, editor>>

(* The transaction is rolled back.                                         *)
PayError(r) ==
    /\ request[r].phase \in {"execute", "checked"}
    /\ Goes(r, "failing")
    /\ UNCHANGED <<charge, payments, announced, record, editor>>

(* complete() may throw, having written or not; fail() follows.            *)
PayComplete(r) ==
    /\ request[r].phase = "paid"
    /\ \/ Complete(request[r].key) /\ (Ends(r) \/ Goes(r, "failing"))
       \/ Goes(r, "failing") /\ UNCHANGED record
    /\ UNCHANGED <<charge, payments, announced, editor>>

PayFail(r) ==
    /\ request[r].phase = "failing"
    /\ Failed(request[r].key)
    /\ Ends(r)
    /\ UNCHANGED <<charge, payments, announced, editor>>

(* The process stops, or begin or fail() cannot reach the database.        *)
PayAbort(r) ==
    /\ request[r].phase # "idle"
    /\ Ends(r)
    /\ UNCHANGED <<charge, payments, announced, record, editor>>

-------------------------------------------------------------------------------
(* updateCharge and cancelCharge: the client loads the charge and sends    *)
(* its updatedAt with the change.                                          *)
EditLoad(x) ==
    \E c \in Charges :
        /\ editor[x].phase = "idle"
        /\ editor' = [editor EXCEPT ![x] = [phase |-> "loaded", of |-> c, seen |-> "PENDING",
                                            cancels |-> FALSE, fresh |-> TRUE]]
        /\ UNCHANGED <<charge, payments, announced, record, request>>

(* The service reads the row and checks the transition it is asked for.    *)
EditRead(x) ==
    LET c == editor[x].of
    IN  \E cancels \in BOOLEAN :
            /\ editor[x].phase = "loaded"
            /\ cancels => charge[c].status # "PAID"
            /\ editor' = [editor EXCEPT ![x] = [phase |-> "read", of |-> c,
                                                seen |-> charge[c].status, cancels |-> cancels,
                                                fresh |-> editor[x].fresh]]
            /\ UNCHANGED <<charge, payments, announced, record, request>>

(* Mutation: the update goes by id alone.                                  *)
UnchangedSinceAlways(x) == TRUE

(* WHERE "updatedAt" = expectedUpdatedAt.                                  *)
UnchangedSince(x) == editor[x].fresh

EditWrite(x) ==
    LET c == editor[x].of
    IN  /\ editor[x].phase = "read"
        /\ UnchangedSince(x)
        /\ \E a \in Amounts :
              charge' = [charge EXCEPT ![c] =
                  [status |-> IF editor[x].cancels THEN "CANCELED" ELSE charge[c].status,
                   amount |-> a]]
        /\ editor' = [Touched({c}) EXCEPT ![x] = IdleEditor]
        /\ UNCHANGED <<payments, announced, record, request>>

(* Refusals, conflicts, errors.                                            *)
EditEnd(x) ==
    /\ editor[x].phase # "idle"
    /\ editor' = [editor EXCEPT ![x] = IdleEditor]
    /\ UNCHANGED <<charge, payments, announced, record, request>>

(* automateOverdueLifecycle: one update of all that are due.               *)
Overdue ==
    \E due \in SUBSET {c \in Charges : charge[c].status = "PENDING"} :
        /\ due # {}
        /\ charge' = [c \in Charges |-> IF c \in due
                                        THEN [status |-> "OVERDUE", amount |-> charge[c].amount]
                                        ELSE charge[c]]
        /\ editor' = Touched(due)
        /\ UNCHANGED <<payments, announced, record, request>>

-------------------------------------------------------------------------------
PayStep(r) ==
    \/ PayLoad(r)
    \/ AdoptLoad(r)
    \/ Begin(r)
    \/ BeginExisting(r)
    \/ BeginAgain(r)
    \/ PayRead(r)
    \/ PayWrite(r)
    \/ PayMissed(r)
    \/ PayError(r)
    \/ PayComplete(r)
    \/ PayFail(r)
    \/ PayAbort(r)

EditStep(x) == EditLoad(x) \/ EditRead(x) \/ EditWrite(x) \/ EditEnd(x)

Next ==
    \/ \E r \in Requests : PayStep(r)
    \/ \E x \in Editors : EditStep(x)
    \/ Overdue

Spec == Init /\ [][Next]_vars

-------------------------------------------------------------------------------
(* A charge is PAID exactly when it has a payment, it has at most one, and *)
(* the outbox has one PAYMENT_RECEIVED for it: whatever keys clients use,  *)
(* retries of FAILED keys running twice, lost answers of COMMIT.           *)
PaidOnce ==
    \A c \in Charges :
        /\ Len(payments[c]) = (IF charge[c].status = "PAID" THEN 1 ELSE 0)
        /\ \A j, k \in Keys : {<<c, j>>, <<c, k>>} \subseteq announced => j = k
        /\ (\E k \in Keys : <<c, k>> \in announced) <=> payments[c] # <<>>

(* A key that is COMPLETED has the charge of its payload paid, though      *)
(* complete() and fail() write by id and look at nothing.                  *)
CompletedPaid ==
    \A k \in Keys : record[k].status = "COMPLETED" =>
        \E c \in Charges, a \in Amounts : record[k].payload = <<c, a>> /\ charge[c].status = "PAID"

(* Whoever is answered with the stored result of an earlier request has    *)
(* the charge paid that he asks about, not just one with the same key.     *)
ReplayPaid ==
    [][\A r \in Requests :
          BeginExisting(r) /\ Verdict(request[r].key, Payload(r)) = "replay" =>
              charge[request[r].of].status = "PAID"]_vars

(* PAID and CANCELED are final: finance.service.ts:674 "Cobrança paga não  *)
(* pode ser cancelada" and :953 "Cobrança cancelada não pode receber novo  *)
(* pagamento", also when the cancellation has read the charge before the   *)
(* payment, or the other way round.                                        *)
ChargeFinal ==
    [][\A c \in Charges :
          charge[c].status \notin Open => charge'[c].status = charge[c].status]_vars

(* A charge as its debtor and the accounts see it.                         *)
State(c) == IF charge[c].status \in Open THEN "open" ELSE charge[c].status

Ledger == INSTANCE ChargeLedger WITH
    state  <- [c \in Charges |-> State(c)],
    booked <- payments,
    told   <- {c \in Charges : \E k \in Keys : <<c, k>> \in announced}

(* All of this together implements the ledger of charges: one step books,  *)
(* announces and settles an open charge, another cancels it, and requests, *)
(* records, retries and edits in between move nothing else.                *)
LedgerSpec == Ledger!Spec

(* finance.service.ts:968 "O valor do pagamento deve corresponder          *)
(* exatamente ao valor da cobrança".                                       *)
PaymentMatchesCharge ==
    [][\A c \in Charges :
          payments'[c] # payments[c] => payments'[c] = Append(payments[c], charge[c].amount)]_vars

(* Nobody changes the amount of a charge while a request is between its    *)
(* comparison and its update.                                              *)
NoEditBetween ==
    [][\A r \in Requests :
          request[r].phase = "checked" =>
              charge'[request[r].of].amount = charge[request[r].of].amount]_vars

(* A key that is in progress answers every retry with a conflict: some     *)
(* request should be at work under it, and end that by complete or fail.   *)
AtWork(r, k) ==
    request[r].phase \in {"execute", "checked", "paid", "failing"} /\ request[r].key = k

InProgressIsWorkedOn ==
    \A k \in Keys : record[k].status = "PROCESSING" => \E r \in Requests : AtWork(r, k)

(* No process stops, and no fail() is lost, while the key is in progress.  *)
NoStopAtWork ==
    [][\A r \in Requests, k \in Keys :
          AtWork(r, k) /\ record[k].status = "PROCESSING" => ~ PayAbort(r)]_vars
===============================================================================
