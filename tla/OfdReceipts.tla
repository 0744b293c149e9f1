----------------------------- MODULE OfdReceipts -----------------------------
(***************************************************************************)
(* Fiscal receipts: OFDReceiptService (ofd/services.py) and the numbering  *)
(* of OFDReceipt.save (ofd/models.py), as called by the closing of an      *)
(* order and by a card payment (inside their transactions), by             *)
(* create_receipts and by hand.                                            *)
(*                                                                         *)
(* Every method takes a number, inserts a row, asks the operator of fiscal *)
(* data (the OFD) to register the receipt and saves the answer, all in one *)
(* transaction.  What the OFD registered stays registered when the         *)
(* transaction rolls back.                                                 *)
(***************************************************************************)
EXTENDS Naturals, FiniteSets

CONSTANTS
    Workers,     \* processes that make receipts
    Payments,    \* Payment rows that may come to exist
    Certs,       \* OFDCertificate rows that may come to exist
    NoJob,       \* a worker without a call
    NoPayment, NoCert,
    MaxRows,     \* bound: OFDReceipt rows inserted
    MaxVersion,  \* bound: saves of certificates
    MaxCalls     \* bound: calls of the service

Ids  == 1..MaxRows
NoId == 0
\* The contract of a row that gets an uuid of its own: the row's id stands for it.
OwnContract == MaxRows + 1

ASSUME BoundAssumption == MaxRows \in Nat /\ MaxVersion \in Nat /\ MaxCalls \in Nat

Types == {"SALE", "REFUND", "CREDIT", "PREPAYMENT"}

\* An OFDReceipt row; "open" until its transaction commits.  "after" is a
\* history: the rows committed when this one looked for its number.
Row == [state    : {"none", "open", "saved"},
        type     : Types,
        payment  : Payments \cup {NoPayment},
        cert     : Certs \cup {NoCert},
        seq      : Nat,                             \* receipt_seq
        refund   : Ids \cup {NoId},                 \* refund_receipt
        contract : Ids \cup {NoId},                 \* advance_contract_id
        after    : SUBSET Ids]

Blank == [state |-> "none", type |-> "SALE", payment |-> NoPayment, cert |-> NoCert,
          seq |-> 0, refund |-> NoId, contract |-> NoId, after |-> {}]

\* What the OFD keeps of the request for a row: "of" is the receipt it refunds.
Registered == [state   : {"none", "registered", "answered"},
               type    : Types,
               payment : Payments \cup {NoPayment},
               cert    : Certs \cup {NoCert},
               seq     : Nat,
               of      : Ids \cup {NoId}]

Unknown == [state |-> "none", type |-> "SALE", payment |-> NoPayment, cert |-> NoCert,
            seq |-> 0, of |-> NoId]

\* "close": a Payment and its sale, in the transaction of an order.
Kinds  == {"close", "sale", "refund", "prepay", "credit"}
Stages == {"called", "checked", "looked", "inserted", "answered", "over"}

\* A call: the receipt it is making ("type", "id", "number"), the receipt it
\* refunds with its refund_receipt as loaded, the rows of its transaction
\* ("made") and the rows it holds locked.
Job == [kind     : Kinds,
        payment  : Payments,
        cert     : Certs \cup {NoCert},
        stage    : Stages,
        type     : Types,
        target   : Ids \cup {NoId},
        refunded : BOOLEAN,
        last     : Ids \cup {NoId},
        after    : SUBSET Ids,
        number   : Nat,
        contract : 0..OwnContract,
        id       : Ids \cup {NoId},
        made     : SUBSET Ids,
        locks    : SUBSET Ids]

ASSUME SentinelAssumption == NoJob \notin Job

VARIABLES
    version,   \* version of each certificate, 0 before it is saved
    payments,  \* committed Payment rows, receipt_required all of them
    rows,      \* OFDReceipt rows by id
    nextId,    \* the sequence of ids; it never rolls back
    ofd,       \* what the OFD registered, by row
    job,       \* what each worker is doing
    calls,     \* calls so far
    overlap,   \* history: payments with two calls in flight at once
    lost       \* history: rows whose answer was lost, whose worker was killed, or
               \* whose sale was undone with the credit receipt it was made for

vars == <<version, payments, rows, nextId, ofd, job, calls, overlap, lost>>

Init ==
    /\ version = [c \in Certs |-> 0]
    /\ payments = {}
    /\ rows = [i \in Ids |-> Blank]
    /\ nextId = 1
    /\ ofd = [i \in Ids |-> Unknown]
    /\ job = [w \in Workers |-> NoJob]
    /\ calls = 0
    /\ overlap = {}
    /\ lost = [why \in {"answer", "killed", "undone"} |-> {}]

-----------------------------------------------------------------------------
(* Certificates.                                                           *)

Newest(c) == version[c] # 0 /\ \A d \in Certs : version[d] <= version[c]

\* get_active_certificate; versions differ, see SaveCertificate.
Active == IF \E c \in Certs : Newest(c) THEN CHOOSE c \in Certs : Newest(c) ELSE NoCert

\* Saving a certificate, a new one or an old one, makes it the newest.
SaveCertificate(c) ==
    /\ \E last \in Certs :
         /\ \A d \in Certs : version[d] <= version[last]
         /\ version[last] < MaxVersion
         /\ version' = [version EXCEPT ![c] = version[last] + 1]
    /\ UNCHANGED <<payments, rows, nextId, ofd, job, calls, overlap, lost>>

-----------------------------------------------------------------------------
(* Calls of the service.  A worker constructs it, with the certificate, and *)
(* then calls one method.                                                  *)

Busy(p) == \E w \in Workers : job[w] # NoJob /\ job[w].payment = p

Call(w, kind, type, p, target) ==
    /\ job[w] = NoJob
    /\ calls < MaxCalls
    /\ calls' = calls + 1
    /\ job' = [job EXCEPT ![w] =
                  [kind |-> kind, payment |-> p, cert |-> Active, stage |-> "called",
                   type |-> type, target |-> target,
                   refunded |-> target # NoId /\ rows[target].refund # NoId,
                   last |-> NoId, after |-> {}, number |-> 0, contract |-> NoId,
                   id |-> NoId, made |-> {}, locks |-> {}]]
    /\ overlap' = IF Busy(p) THEN overlap \cup {p} ELSE overlap
    /\ UNCHANGED <<version, payments, rows, nextId, ofd, lost>>

\* Closing an order not paid yet, or a paid Payme receipt: a new Payment.
Close(w, p) ==
    /\ p \notin payments /\ ~Busy(p)
    /\ Call(w, "close", "SALE", p, NoId)

Of(p) == {i \in Ids : rows[i].state = "saved" /\ rows[i].payment = p}

\* create_receipts: payments without any receipt
CreateReceipts(w, p) ==
    /\ p \in payments /\ Of(p) = {}
    /\ Call(w, "sale", "SALE", p, NoId)

CallRefund(w, p, i) ==
    /\ p \in payments /\ rows[i].state = "saved"
    /\ Call(w, "refund", "REFUND", p, i)

CallPrepayment(w, p) == p \in payments /\ Call(w, "prepay", "PREPAYMENT", p, NoId)

CallCredit(w, p) == p \in payments /\ Call(w, "credit", "CREDIT", p, NoId)

-----------------------------------------------------------------------------
(* The steps of a method.                                                  *)

At(w, stage, types) == job[w] # NoJob /\ job[w].stage = stage /\ job[w].type \in types

\* (Mutant: set_rollback is missing.)
GiveUpKeepsRows(w) ==
    /\ rows' = [i \in Ids |-> IF i \in job[w].made THEN [rows[i] EXCEPT !.state = "saved"] ELSE rows[i]]
    /\ job' = [job EXCEPT ![w] =
                  IF @.kind = "close" THEN [@ EXCEPT !.stage = "over", !.made = {}] ELSE NoJob]
    /\ UNCHANGED <<version, payments, nextId, calls, overlap>>

\* The method rolls back.  A closing goes on without a receipt; a credit
\* without its sale raises.
GiveUp(w) ==
    /\ rows' = [i \in Ids |-> IF i \in job[w].made THEN Blank ELSE rows[i]]
    /\ job' = [job EXCEPT ![w] =
                  IF @.kind = "close"
                  THEN [@ EXCEPT !.stage = "over", !.id = NoId, !.made = {}, !.locks = {}]
                  ELSE NoJob]
    /\ UNCHANGED <<version, payments, nextId, calls, overlap>>

Proceed(w, contract) ==
    /\ job' = [job EXCEPT ![w] = [@ EXCEPT !.stage = "checked", !.contract = contract]]
    /\ UNCHANGED <<version, payments, rows, nextId, ofd, calls, overlap, lost>>

Refuse(w) == GiveUp(w) /\ UNCHANGED <<ofd, lost>>

\* (Mutant: refund_receipt__isnull=False.)
StandingRefunded(p, type) == {i \in Of(p) : rows[i].type = type /\ rows[i].refund # NoId}

\* Receipts of a payment that are not refunded.
Standing(p, type) == {i \in Of(p) : rows[i].type = type /\ rows[i].refund = NoId}

\* (Mutant: ordered by number, the lowest first.)
IsLowest(i, S) == i \in S /\ \A k \in S : rows[i].seq <= rows[k].seq

\* .first(): the ordering of OFDReceipt is by number, the highest first.
IsFirst(i, S) == i \in S /\ \A k \in S : rows[k].seq <= rows[i].seq

\* create_sale_receipt; the contract is that of any prepayment, refunded or not.
SaleCheck(w) ==
    LET j == job[w]
        prepaid == {i \in Of(j.payment) : rows[i].type = "PREPAYMENT"}
    IN  /\ At(w, "called", {"SALE"})
        /\ IF j.cert = NoCert \/ Standing(j.payment, "SALE") # {}
           THEN Refuse(w)
           ELSE \/ prepaid = {} /\ Proceed(w, NoId)
                \/ \E i \in prepaid : IsFirst(i, prepaid) /\ Proceed(w, rows[i].contract)

\* (Mutant: the check of refund_receipt is missing.)
RefundUnchecked(w) ==
    /\ At(w, "called", {"REFUND"})
    /\ IF job[w].cert = NoCert \/ rows[job[w].target].payment # job[w].payment
       THEN Refuse(w)
       ELSE Proceed(w, rows[job[w].target].contract)

\* create_refund_receipt; it looks at the receipt as it was loaded.
RefundCheck(w) ==
    LET j == job[w]
    IN  /\ At(w, "called", {"REFUND"})
        /\ IF j.cert = NoCert \/ j.refunded \/ rows[j.target].payment # j.payment
           THEN Refuse(w)
           ELSE Proceed(w, rows[j.target].contract)

\* (Mutant: the earlier prepayment is not looked for.)
PrepaymentAlwaysNew(w) ==
    /\ At(w, "called", {"PREPAYMENT"})
    /\ IF job[w].cert = NoCert \/ Standing(job[w].payment, "SALE") # {}
       THEN Refuse(w)
       ELSE Proceed(w, OwnContract)

\* create_prepayment_receipt; further prepayments keep the contract.
PrepaymentCheck(w) ==
    LET j == job[w]
        prepaid == Standing(j.payment, "PREPAYMENT")
    IN  /\ At(w, "called", {"PREPAYMENT"})
        /\ IF j.cert = NoCert \/ Standing(j.payment, "SALE") # {}
           THEN Refuse(w)
           ELSE \/ prepaid = {} /\ Proceed(w, OwnContract)
                \/ \E i \in prepaid : IsFirst(i, prepaid) /\ Proceed(w, rows[i].contract)

\* create_credit_receipt; without a sale it makes one first.
CreditCheck(w) ==
    LET j == job[w]
    IN  /\ At(w, "called", {"CREDIT"})
        /\ \/ j.cert = NoCert /\ Refuse(w)
           \/ j.cert # NoCert /\ Standing(j.payment, "SALE") # {} /\ Proceed(w, OwnContract)
           \/ /\ j.cert # NoCert /\ Standing(j.payment, "SALE") = {}
              /\ job' = [job EXCEPT ![w].type = "SALE"]
              /\ UNCHANGED <<version, payments, rows, nextId, ofd, calls, overlap, lost>>

\* OFDReceipt.save: the rows of the certificate that the transaction sees.
Seen(j) == {i \in Ids : rows[i].cert = j.cert /\ (rows[i].state = "saved" \/ i \in j.made)}

\* The number is one above that of the last row as the query finds it, before
\* it waits for the row's lock.
Look(w) ==
    LET j == job[w]
        Take(i, n) == job' = [job EXCEPT ![w] = [@ EXCEPT !.stage = "looked", !.last = i,
                                                         !.number = n, !.after = Seen(j)]]
    IN  /\ At(w, "checked", Types)
        /\ \/ Seen(j) = {} /\ Take(NoId, 1)
           \/ \E i \in Seen(j) : IsFirst(i, Seen(j)) /\ Take(i, rows[i].seq + 1)
        /\ UNCHANGED <<version, payments, rows, nextId, ofd, calls, overlap, lost>>

LockFree(w, i) == \A v \in Workers \ {w} : job[v] # NoJob => i \notin job[v].locks

\* The lock is had, the row inserted.
Insert(w) ==
    LET j == job[w]
    IN  /\ At(w, "looked", Types)
        /\ LockFree(w, j.last)
        /\ nextId \in Ids
        /\ nextId' = nextId + 1
        /\ rows' = [rows EXCEPT ![nextId] =
                      [state |-> "open", type |-> j.type, payment |-> j.payment,
                       cert |-> j.cert, seq |-> j.number, refund |-> NoId,
                       contract |-> IF j.contract = OwnContract THEN nextId ELSE j.contract,
                       after |-> j.after]]
        /\ job' = [job EXCEPT ![w] = [@ EXCEPT !.stage = "inserted", !.id = nextId,
                                              !.made = j.made \cup {nextId},
                                              !.locks = j.locks \cup ({j.last} \ {NoId})]]
        /\ UNCHANGED <<version, payments, ofd, calls, overlap, lost>>

-----------------------------------------------------------------------------
(* The request to the OFD and what it comes to.                            *)

\* There is nothing to send for the refund of a refund or of a credit.
Sendable(j) == j.type = "REFUND" => rows[j.target].type \in {"SALE", "PREPAYMENT"}

\* What the request says of the receipt, with the number the OFD answers.
Entry(j, n, state) == [state |-> state, type |-> j.type, payment |-> j.payment,
                       cert |-> j.cert, seq |-> n, of |-> j.target]

\* The OFD registers the receipt, under the number it was given or under the
\* number above its own last one.
Register(w, n, state) ==
    LET j == job[w]
        mine == {i \in Ids : ofd[i].state # "none" /\ ofd[i].cert = j.cert}
    IN  /\ At(w, "inserted", Types) /\ Sendable(j)
        /\ \/ n = j.number
           \/ \E i \in mine : n = ofd[i].seq + 1 /\ \A k \in mine : ofd[k].seq <= ofd[i].seq
        /\ ofd' = [ofd EXCEPT ![j.id] = Entry(j, n, state)]

Numbers == 1..(MaxRows + 1)

Answer(w) ==
    \E n \in Numbers :
        /\ Register(w, n, "answered")
        /\ job' = [job EXCEPT ![w] = [@ EXCEPT !.stage = "answered", !.number = n]]
        /\ UNCHANGED <<version, payments, rows, nextId, calls, overlap, lost>>

\* The sale a credit receipt has made rolls back with it.
Undone(w) == job[w].made \ {job[w].id}

LoseAnswer(w) ==
    /\ \E n \in Numbers : Register(w, n, "registered")
    /\ GiveUp(w)
    /\ lost' = [lost EXCEPT !["answer"] = @ \cup {job[w].id}, !["undone"] = @ \cup Undone(w)]

\* Signing fails, the OFD is not reached, or it answers with an error code.
RefuseReceipt(w) ==
    /\ At(w, "inserted", Types)
    /\ GiveUp(w)
    /\ lost' = [lost EXCEPT !["undone"] = @ \cup Undone(w)]
    /\ UNCHANGED ofd

-----------------------------------------------------------------------------
(* Saving the answer.                                                      *)

\* The rows once the answer is saved.  save() does not number a row again.
WithAnswer(j) == [rows EXCEPT ![j.id].seq = j.number]

Commit(w, table) ==
    /\ rows' = [i \in Ids |-> IF i \in job[w].made THEN [table[i] EXCEPT !.state = "saved"]
                                                  ELSE table[i]]
    /\ job' = [job EXCEPT ![w] = NoJob]
    /\ UNCHANGED <<version, nextId, ofd, calls, overlap, lost>>

\* The method ends and its caller goes on: the closing of an order.
SaveInClosing(w) ==
    /\ At(w, "answered", {"SALE"}) /\ job[w].kind = "close"
    /\ rows' = WithAnswer(job[w])
    /\ job' = [job EXCEPT ![w].stage = "over"]
    /\ UNCHANGED <<version, payments, nextId, ofd, calls, overlap, lost>>

\* The same: create_credit_receipt, which now makes its own receipt.
SaveInCredit(w) ==
    /\ At(w, "answered", {"SALE"}) /\ job[w].kind = "credit"
    /\ rows' = WithAnswer(job[w])
    /\ job' = [job EXCEPT ![w] = [@ EXCEPT !.stage = "checked", !.type = "CREDIT",
                                          !.contract = OwnContract]]
    /\ UNCHANGED <<version, payments, nextId, ofd, calls, overlap, lost>>

Save(w) ==
    /\ At(w, "answered", {"SALE", "PREPAYMENT", "CREDIT"})
    /\ job[w].type = "SALE" => job[w].kind = "sale"
    /\ Commit(w, WithAnswer(job[w]))
    /\ UNCHANGED payments

\* The refunded receipt is saved as it was loaded, with its refund_receipt.
SaveRefund(w) ==
    LET j == job[w]
    IN  /\ At(w, "answered", {"REFUND"})
        /\ LockFree(w, j.target)
        /\ Commit(w, [WithAnswer(j) EXCEPT ![j.target].refund = j.id])
        /\ UNCHANGED payments

\* The transaction of the order commits.
CommitClosing(w) ==
    /\ At(w, "over", {"SALE"})
    /\ Commit(w, rows)
    /\ payments' = payments \cup {job[w].payment}

\* The worker is killed, or the caller's transaction rolls back.
Kill(w) ==
    /\ job[w] # NoJob
    /\ rows' = [i \in Ids |-> IF i \in job[w].made THEN Blank ELSE rows[i]]
    /\ job' = [job EXCEPT ![w] = NoJob]
    /\ lost' = [lost EXCEPT !["killed"] = @ \cup {i \in job[w].made : ofd[i].state # "none"}]
    /\ UNCHANGED <<version, payments, nextId, ofd, calls, overlap>>

-----------------------------------------------------------------------------
Begin(w) ==
    \E p \in Payments :
        \/ Close(w, p) \/ CreateReceipts(w, p) \/ CallPrepayment(w, p) \/ CallCredit(w, p)
        \/ \E i \in Ids : CallRefund(w, p, i)

Step(w) ==
    \/ SaleCheck(w) \/ RefundCheck(w) \/ PrepaymentCheck(w) \/ CreditCheck(w)
    \/ Look(w) \/ Insert(w)
    \/ Answer(w) \/ LoseAnswer(w) \/ RefuseReceipt(w)
    \/ SaveInClosing(w) \/ SaveInCredit(w) \/ Save(w) \/ SaveRefund(w) \/ CommitClosing(w)
    \/ Kill(w)

Next ==
    \/ \E c \in Certs : SaveCertificate(c)
    \/ \E w \in Workers : Begin(w) \/ Step(w)

Spec == Init /\ [][Next]_vars

-----------------------------------------------------------------------------
(* Properties.                                                             *)

TypeOK ==
    /\ version \in [Certs -> 0..MaxVersion]
    /\ payments \subseteq Payments
    /\ rows \in [Ids -> Row]
    /\ nextId \in 1..(MaxRows + 1)
    /\ ofd \in [Ids -> Registered]
    /\ job \in [Workers -> Job \cup {NoJob}]
    /\ calls \in 0..MaxCalls
    /\ overlap \subseteq Payments
    /\ lost \in [{"answer", "killed", "undone"} -> SUBSET Ids]

Forgotten == lost["answer"] \cup lost["killed"] \cup lost["undone"]

\* A committed receipt is one that the OFD registered and answered, under the
\* number and certificate the row has; a receipt the OFD registered and answered
\* is a row, unless its worker was killed or it was undone with a credit receipt
\* (create_*_receipt: save on Code 0, set_rollback otherwise).
OfdAgrees ==
    \A i \in Ids :
        /\ rows[i].state = "saved" =>
             /\ ofd[i].state = "answered"
             /\ ofd[i].type = rows[i].type /\ ofd[i].payment = rows[i].payment
             /\ ofd[i].cert = rows[i].cert /\ ofd[i].seq = rows[i].seq
        /\ ofd[i].state # "none" => rows[i].state # "none" \/ i \in Forgotten

\* The number of a receipt is above those of all receipts of its certificate
\* that were committed when it looked (OFDReceipt.save), whatever number the OFD
\* answers with; only receipts in flight together may have the same.
NumbersGrow ==
    \A i \in Ids : rows[i].state # "none" =>
        \A k \in rows[i].after :
            rows[k].state = "saved" /\ rows[k].cert = rows[i].cert => rows[k].seq < rows[i].seq

\* Calls for one payment that never overlapped, and lost nothing, register one
\* sale at the OFD, or a further one once the first is refunded (the check of
\* create_sale_receipt, create_prepayment_receipt and create_credit_receipt).
SoldOnce ==
    \A i, k \in Ids :
        /\ ofd[i].state # "none" /\ ofd[i].type = "SALE"
        /\ ofd[k].state # "none" /\ ofd[k].type = "SALE"
        /\ i # k /\ ofd[i].payment = ofd[k].payment
        /\ ofd[i].payment \notin overlap
        /\ {i, k} \cap Forgotten = {}
        => \E r \in Ids : ofd[r].state # "none" /\ ofd[r].type = "REFUND" /\ ofd[r].of \in {i, k}

\* A refund is linked from the one receipt it was registered for, and a receipt
\* is refunded once, unless two calls for the payment overlapped
\* (create_refund_receipt, its check of refund_receipt).
RefundsLinked ==
    \A i \in Ids :
        rows[i].state = "saved" /\ rows[i].type = "REFUND" /\ rows[i].payment \notin overlap =>
            /\ ofd[i].of # NoId /\ rows[ofd[i].of].refund = i
            /\ rows[ofd[i].of].state = "saved" /\ rows[ofd[i].of].payment = rows[i].payment

\* Prepayments of a payment that are not refunded have one contract between
\* them, unless calls overlapped (create_prepayment_receipt).
OneContract ==
    \A p \in Payments \ overlap :
        \A i, k \in Standing(p, "PREPAYMENT") : rows[i].contract = rows[k].contract

=============================================================================
