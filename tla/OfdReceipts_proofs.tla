------------------------- MODULE OfdReceipts_proofs -------------------------
(***************************************************************************)
(* Theorems about OfdReceipts, for any workers, payments, certificates and *)
(* bounds.                                                                 *)
(***************************************************************************)
EXTENDS OfdReceipts, TLAPS

\* In the tables R and F of rows and of the OFD: the answer is in the row.
Settled(i, R, F) ==
    /\ F[i].state = "answered"
    /\ F[i].type = R[i].type /\ F[i].payment = R[i].payment
    /\ F[i].cert = R[i].cert /\ F[i].seq = R[i].seq

\* The number n is above those that the OFD gave to the rows A of certificate c.
Above(A, c, n, F) == \A k \in A : F[k].state # "none" /\ F[k].cert = c /\ F[k].seq < n

JobOK(j, R, F) ==
    /\ j.type = "REFUND" => j.target \in Ids
    /\ \A i \in j.made : R[i].state = "open"
    /\ \A i \in j.made : Settled(i, R, F) \/ (j.stage \in {"inserted", "answered"} /\ i = j.id)
    /\ j.stage = "called" => j.made = {}
    /\ j.stage = "looked" => Above(j.after, j.cert, j.number, F)
    /\ j.stage \in {"inserted", "answered"} =>
         /\ j.id \in j.made
         /\ R[j.id].type = j.type /\ R[j.id].payment = j.payment /\ R[j.id].cert = j.cert
         /\ Above(R[j.id].after, j.cert, j.number, F)
    /\ j.stage = "inserted" => F[j.id].state = "none"
    /\ j.stage = "answered" =>
         /\ F[j.id].state = "answered" /\ F[j.id].type = j.type
         /\ F[j.id].payment = j.payment /\ F[j.id].cert = j.cert
         /\ F[j.id].seq = j.number

RowOK(i, R, F, next, gone) ==
    /\ R[i].state = "saved" => Settled(i, R, F)
    /\ R[i].state # "none" => i < next /\ Above(R[i].after, R[i].cert, R[i].seq, F)
    /\ F[i].state # "none" => i < next
    /\ F[i].state # "none" => R[i].state # "none" \/ i \in gone

JobsOK == \A w \in Workers : job[w] # NoJob => JobOK(job[w], rows, ofd)
RowsOK == \A i \in Ids : RowOK(i, rows, ofd, nextId, Forgotten)
Apart  == \A v, w \in Workers :
              v # w /\ job[v] # NoJob /\ job[w] # NoJob => job[v].made \cap job[w].made = {}

\* The number of a row stays above those of the rows seen before, because the
\* OFD forgets nothing and a row gets its number from what the OFD answered.
IInv == TypeOK /\ JobsOK /\ RowsOK /\ Apart

-----------------------------------------------------------------------------
(* Types.                                                                  *)

LEMMA Numbering ==
    /\ Ids \subseteq Nat /\ NoId \notin Ids
    /\ OwnContract \in Nat /\ OwnContract \notin Ids
    /\ Ids \cup {NoId} \subseteq 0..OwnContract
BY BoundAssumption DEF Ids, NoId, OwnContract

LEMMA BlankType == Blank \in Row /\ Unknown \in Registered
BY DEF Blank, Row, Unknown, Registered, Types

LEMMA InitType == Init => TypeOK
<1> SUFFICES ASSUME Init PROVE TypeOK
  OBVIOUS
<1>1. rows \in [Ids -> Row] /\ ofd \in [Ids -> Registered]
  BY BlankType DEF Init
<1>2. version \in [Certs -> 0..MaxVersion] /\ nextId \in 1..(MaxRows + 1) /\ calls \in 0..MaxCalls
  BY BoundAssumption DEF Init
<1>3. lost \in [{"answer", "killed", "undone"} -> SUBSET Ids]
  BY DEF Init
<1>4. job \in [Workers -> Job \cup {NoJob}]
  BY DEF Init
<1> QED BY <1>1, <1>2, <1>3, <1>4 DEF Init, TypeOK

LEMMA CertificateType ==
    ASSUME TypeOK, NEW c \in Certs, SaveCertificate(c)
    PROVE  TypeOK'
<1>1. PICK last \in Certs : version[last] < MaxVersion
                            /\ version' = [version EXCEPT ![c] = version[last] + 1]
  BY DEF SaveCertificate
<1>2. version[last] + 1 \in 0..MaxVersion
  BY <1>1, BoundAssumption DEF TypeOK
<1>3. version' \in [Certs -> 0..MaxVersion]
  BY <1>1, <1>2 DEF TypeOK
<1> QED BY <1>3 DEF TypeOK, SaveCertificate

LEMMA ActiveType == Active \in Certs \cup {NoCert}
BY DEF Active

LEMMA CallType ==
    ASSUME TypeOK, NEW w \in Workers, NEW kind \in Kinds, NEW type \in Types, NEW p \in Payments,
           NEW target \in Ids \cup {NoId}, Call(w, kind, type, p, target)
    PROVE  TypeOK'
<1> DEFINE refunded == target # NoId /\ rows[target].refund # NoId
           new == [kind |-> kind, payment |-> p, cert |-> Active, stage |-> "called",
                   type |-> type, target |-> target, refunded |-> refunded,
                   last |-> NoId, after |-> {}, number |-> 0, contract |-> NoId,
                   id |-> NoId, made |-> {}, locks |-> {}]
<1>1. new \in Job
  <2>1. refunded \in BOOLEAN
    OBVIOUS
  <2> HIDE DEF refunded
  <2>2. NoId \in 0..OwnContract
    BY Numbering
  <2> QED BY <2>1, <2>2, ActiveType DEF Job, Stages
<1>2. job' = [job EXCEPT ![w] = new]
  BY DEF Call
<1> HIDE DEF new
<1>3. job' \in [Workers -> Job \cup {NoJob}]
  BY <1>1, <1>2 DEF TypeOK
<1>4. calls' \in 0..MaxCalls
  BY BoundAssumption DEF TypeOK, Call
<1>5. overlap' \subseteq Payments
  BY DEF TypeOK, Call
<1> QED BY <1>3, <1>4, <1>5 DEF TypeOK, Call

LEMMA BeginType ==
    ASSUME TypeOK, NEW w \in Workers, Begin(w)
    PROVE  TypeOK'
<1>1. PICK p \in Payments :
        \/ Close(w, p) \/ CreateReceipts(w, p) \/ CallPrepayment(w, p) \/ CallCredit(w, p)
        \/ \E i \in Ids : CallRefund(w, p, i)
  BY DEF Begin
<1>2. PICK kind \in Kinds, type \in Types, target \in Ids \cup {NoId} :
        Call(w, kind, type, p, target)
  <2>1. Kinds = {"close", "sale", "refund", "prepay", "credit"} /\ Types = {"SALE", "REFUND", "CREDIT", "PREPAYMENT"}
    BY DEF Kinds, Types
  <2> QED BY <1>1, <2>1 DEF Close, CreateReceipts, CallPrepayment, CallCredit, CallRefund
<1> QED BY <1>2, CallType

\* A worker whose call is new next: the calls keep their type.
LEMMA JobType ==
    ASSUME TypeOK, NEW w \in Workers, NEW new \in Job \cup {NoJob},
           job' = [job EXCEPT ![w] = new]
    PROVE  job' \in [Workers -> Job \cup {NoJob}]
BY DEF TypeOK

LEMMA ProceedType ==
    ASSUME TypeOK, NEW w \in Workers, job[w] # NoJob, NEW contract \in 0..OwnContract,
           Proceed(w, contract)
    PROVE  TypeOK'
<1> DEFINE new == [job[w] EXCEPT !.stage = "checked", !.contract = contract]
<1>1. new \in Job
  <2>1. job[w] \in Job
    BY DEF TypeOK
  <2> QED BY <2>1 DEF Job, Stages
<1>2. job' = [job EXCEPT ![w] = new]
  BY DEF Proceed
<1>3. job' \in [Workers -> Job \cup {NoJob}]
  BY <1>1, <1>2, JobType
<1> QED BY <1>3 DEF TypeOK, Proceed

\* GiveUp, but for what the OFD has and what is lost.
LEMMA GiveUpType ==
    ASSUME TypeOK, NEW w \in Workers, job[w] # NoJob, GiveUp(w),
           ofd' \in [Ids -> Registered],
           lost' \in [{"answer", "killed", "undone"} -> SUBSET Ids]
    PROVE  TypeOK'
<1>1. rows' \in [Ids -> Row]
  BY BlankType DEF TypeOK, GiveUp
<1> DEFINE over == [job[w] EXCEPT !.stage = "over", !.id = NoId, !.made = {}, !.locks = {}]
           new  == IF job[w].kind = "close" THEN over ELSE NoJob
<1>2. over \in Job
  <2>1. job[w] \in Job
    BY DEF TypeOK
  <2> QED BY <2>1 DEF Job, Stages
<1>3. job' = [job EXCEPT ![w] = new]
  BY DEF GiveUp
<1>4. job' \in [Workers -> Job \cup {NoJob}]
  BY <1>2, <1>3, JobType
<1> QED BY <1>1, <1>4 DEF TypeOK, GiveUp

LEMMA RefuseType ==
    ASSUME TypeOK, NEW w \in Workers, job[w] # NoJob, Refuse(w)
    PROVE  TypeOK'
BY GiveUpType DEF Refuse, TypeOK

\* Every check either refuses or proceeds with a contract.
LEMMA CheckSteps ==
    ASSUME TypeOK, JobsOK, NEW w \in Workers,
           SaleCheck(w) \/ RefundCheck(w) \/ PrepaymentCheck(w) \/ CreditCheck(w)
    PROVE  /\ job[w] # NoJob /\ job[w].stage = "called"
           /\ \/ Refuse(w)
              \/ \E contract \in 0..OwnContract : Proceed(w, contract)
              \/ /\ job' = [job EXCEPT ![w].type = "SALE"]
                 /\ UNCHANGED <<version, payments, rows, nextId, ofd, calls, overlap, lost>>
<1>1. \A i \in Ids : rows[i].contract \in 0..OwnContract
  BY Numbering DEF TypeOK, Row
<1>2. NoId \in 0..OwnContract /\ OwnContract \in 0..OwnContract
  BY Numbering DEF NoId
<1>3. CASE SaleCheck(w)
  BY <1>1, <1>2, <1>3 DEF SaleCheck, At, Of
<1>4. CASE RefundCheck(w)
  <2>1. job[w].target \in Ids
    BY <1>4 DEF RefundCheck, At, JobsOK, JobOK
  <2> QED BY <1>1, <1>4, <2>1 DEF RefundCheck, At
<1>5. CASE PrepaymentCheck(w)
  BY <1>1, <1>2, <1>5 DEF PrepaymentCheck, At, Standing, Of
<1>6. CASE CreditCheck(w)
  BY <1>2, <1>6 DEF CreditCheck, At
<1> QED BY <1>3, <1>4, <1>5, <1>6

LEMMA CheckType ==
    ASSUME TypeOK, JobsOK, NEW w \in Workers,
           SaleCheck(w) \/ RefundCheck(w) \/ PrepaymentCheck(w) \/ CreditCheck(w)
    PROVE  TypeOK'
<1>1. job[w] # NoJob
  BY CheckSteps
<1>2. CASE Refuse(w)
  BY <1>1, <1>2, RefuseType
<1>3. CASE \E contract \in 0..OwnContract : Proceed(w, contract)
  BY <1>1, <1>3, ProceedType
<1>4. CASE /\ job' = [job EXCEPT ![w].type = "SALE"]
           /\ UNCHANGED <<version, payments, rows, nextId, ofd, calls, overlap, lost>>
  <2> DEFINE new == [job[w] EXCEPT !.type = "SALE"]
  <2>1. new \in Job
    <3>1. job[w] \in Job
      BY <1>1 DEF TypeOK
    <3> QED BY <3>1 DEF Job, Types
  <2>2. job' = [job EXCEPT ![w] = new]
    BY <1>4
  <2>3. job' \in [Workers -> Job \cup {NoJob}]
    BY <2>1, <2>2, JobType
  <2> QED BY <1>4, <2>3 DEF TypeOK
<1> QED BY <1>2, <1>3, <1>4, CheckSteps

\* What a look finds: nothing, or the row of the highest number.
Looked(j, last, n) == [j EXCEPT !.stage = "looked", !.last = last, !.number = n,
                                !.after = Seen(j)]

LEMMA LookSteps ==
    ASSUME TypeOK, NEW w \in Workers, Look(w)
    PROVE  /\ job[w] \in Job /\ job[w] # NoJob /\ job[w].stage = "checked"
           /\ UNCHANGED <<version, payments, rows, nextId, ofd, calls, overlap, lost>>
           /\ \E last \in Ids \cup {NoId}, n \in Nat :
                /\ job' = [job EXCEPT ![w] = Looked(job[w], last, n)]
                /\ \A k \in Seen(job[w]) : rows[k].seq < n
<1>1. job[w] \in Job /\ job[w] # NoJob /\ job[w].stage = "checked"
  BY DEF Look, At, TypeOK
<1>2. UNCHANGED <<version, payments, rows, nextId, ofd, calls, overlap, lost>>
  BY DEF Look
<1>3. Seen(job[w]) \subseteq Ids /\ \A k \in Seen(job[w]) : rows[k].seq \in Nat
  BY DEF Seen, TypeOK, Row
<1>4. \/ Seen(job[w]) = {} /\ job' = [job EXCEPT ![w] = Looked(job[w], NoId, 1)]
      \/ \E i \in Seen(job[w]) :
           /\ IsFirst(i, Seen(job[w]))
           /\ job' = [job EXCEPT ![w] = Looked(job[w], i, rows[i].seq + 1)]
  BY DEF Look, Looked
<1>5. \E last \in Ids \cup {NoId}, n \in Nat :
        /\ job' = [job EXCEPT ![w] = Looked(job[w], last, n)]
        /\ \A k \in Seen(job[w]) : rows[k].seq < n
  <2>1. CASE Seen(job[w]) = {} /\ job' = [job EXCEPT ![w] = Looked(job[w], NoId, 1)]
    BY <2>1
  <2>2. ASSUME NEW i \in Seen(job[w]), IsFirst(i, Seen(job[w])),
               job' = [job EXCEPT ![w] = Looked(job[w], i, rows[i].seq + 1)]
        PROVE  \E last \in Ids \cup {NoId}, n \in Nat :
                 /\ job' = [job EXCEPT ![w] = Looked(job[w], last, n)]
                 /\ \A k \in Seen(job[w]) : rows[k].seq < n
    <3>1. \A k \in Seen(job[w]) : rows[k].seq < rows[i].seq + 1
      BY <1>3, <2>2 DEF IsFirst
    <3>2. i \in Ids \cup {NoId} /\ rows[i].seq + 1 \in Nat
      BY <1>3
    <3> QED BY <2>2, <3>1, <3>2
  <2> QED BY <1>4, <2>1, <2>2
<1> QED BY <1>1, <1>2, <1>5

LEMMA LookType ==
    ASSUME TypeOK, NEW w \in Workers, Look(w)
    PROVE  TypeOK'
<1>1. PICK last \in Ids \cup {NoId}, n \in Nat : job' = [job EXCEPT ![w] = Looked(job[w], last, n)]
  BY LookSteps
<1>2. Looked(job[w], last, n) \in Job
  <2>1. Seen(job[w]) \in SUBSET Ids
    BY DEF Seen
  <2> QED BY <2>1, LookSteps DEF Looked, Job, Stages
<1>3. job' \in [Workers -> Job \cup {NoJob}]
  BY <1>1, <1>2, JobType
<1> QED BY <1>3, LookSteps DEF TypeOK

\* The row that is inserted.
NewRow(j) == [state |-> "open", type |-> j.type, payment |-> j.payment,
              cert |-> j.cert, seq |-> j.number, refund |-> NoId,
              contract |-> IF j.contract = OwnContract THEN nextId ELSE j.contract,
              after |-> j.after]

Inserted(j) == [j EXCEPT !.stage = "inserted", !.id = nextId, !.made = j.made \cup {nextId},
                         !.locks = j.locks \cup ({j.last} \ {NoId})]

LEMMA InsertSteps ==
    ASSUME TypeOK, NEW w \in Workers, Insert(w)
    PROVE  /\ job[w] \in Job /\ job[w] # NoJob /\ job[w].stage = "looked"
           /\ nextId \in Ids /\ nextId' = nextId + 1
           /\ rows' = [rows EXCEPT ![nextId] = NewRow(job[w])]
           /\ job' = [job EXCEPT ![w] = Inserted(job[w])]
           /\ UNCHANGED <<version, payments, ofd, calls, overlap, lost>>
<1>1. job[w] \in Job /\ job[w] # NoJob /\ job[w].stage = "looked"
  BY DEF Insert, At, TypeOK
<1>2. rows' = [rows EXCEPT ![nextId] = NewRow(job[w])]
  BY DEF Insert, NewRow
<1>3. job' = [job EXCEPT ![w] = Inserted(job[w])]
  BY DEF Insert, Inserted
<1> QED BY <1>1, <1>2, <1>3 DEF Insert

LEMMA InsertedType ==
    ASSUME TypeOK, NEW w \in Workers, Insert(w)
    PROVE  Inserted(job[w]) \in Job
<1> DEFINE made == job[w].made \cup {nextId}
           locks == job[w].locks \cup ({job[w].last} \ {NoId})
<1>1. made \in SUBSET Ids /\ locks \in SUBSET Ids
  BY InsertSteps DEF Job
<1>2. Inserted(job[w]) = [job[w] EXCEPT !.stage = "inserted", !.id = nextId, !.made = made,
                                        !.locks = locks]
  BY InsertSteps DEF Inserted, Job
<1> HIDE DEF made, locks
<1> QED BY <1>1, <1>2, InsertSteps DEF Job, Stages

LEMMA InsertType ==
    ASSUME TypeOK, NEW w \in Workers, Insert(w)
    PROVE  TypeOK'
<1>1. NewRow(job[w]) \in Row
  <2> DEFINE contract == IF job[w].contract = OwnContract THEN nextId ELSE job[w].contract
  <2>1. contract \in Ids \cup {NoId}
    BY InsertSteps, BoundAssumption DEF Job, Ids, NoId, OwnContract
  <2> HIDE DEF contract
  <2>2. NewRow(job[w]) = [state |-> "open", type |-> job[w].type, payment |-> job[w].payment,
                          cert |-> job[w].cert, seq |-> job[w].number, refund |-> NoId,
                          contract |-> contract, after |-> job[w].after]
    BY DEF NewRow, contract
  <2> QED BY <2>1, <2>2, InsertSteps DEF Row, Job
<1>2. rows' \in [Ids -> Row]
  BY <1>1, InsertSteps DEF TypeOK
<1>3. Inserted(job[w]) \in Job
  BY InsertedType
<1>4. job' \in [Workers -> Job \cup {NoJob}]
  BY <1>3, InsertSteps, JobType
<1>5. nextId' \in 1..(MaxRows + 1)
  BY InsertSteps, BoundAssumption DEF Ids
<1> QED BY <1>2, <1>4, <1>5, InsertSteps DEF TypeOK

\* What the OFD registers of a call.
LEMMA RegisterSteps ==
    ASSUME TypeOK, NEW w \in Workers, NEW n \in Nat, NEW state \in {"registered", "answered"},
           Register(w, n, state)
    PROVE  /\ job[w] \in Job /\ job[w] # NoJob /\ job[w].stage = "inserted"
           /\ ofd' = [ofd EXCEPT ![job[w].id] = Entry(job[w], n, state)]
           /\ ofd' \in [Ids -> Registered]
           /\ \/ n = job[w].number
              \/ \A k \in Ids : ofd[k].state # "none" /\ ofd[k].cert = job[w].cert => ofd[k].seq < n
<1>1. job[w] \in Job /\ job[w] # NoJob /\ job[w].stage = "inserted"
  BY DEF Register, At, TypeOK
<1>2. ofd' = [ofd EXCEPT ![job[w].id] = Entry(job[w], n, state)]
  BY DEF Register
<1>3. Entry(job[w], n, state) \in Registered
  BY <1>1 DEF Entry, Registered, Job
<1>4. ofd' \in [Ids -> Registered]
  BY <1>2, <1>3 DEF TypeOK
<1>5. \/ n = job[w].number
      \/ \A k \in Ids : ofd[k].state # "none" /\ ofd[k].cert = job[w].cert => ofd[k].seq < n
  <2>1. \A i \in Ids : ofd[i].seq \in Nat
    BY DEF TypeOK, Registered
  <2> QED BY <2>1 DEF Register
<1> QED BY <1>1, <1>2, <1>4, <1>5

Answered(j, n) == [j EXCEPT !.stage = "answered", !.number = n]

LEMMA AnswerSteps ==
    ASSUME TypeOK, NEW w \in Workers, Answer(w)
    PROVE  \E n \in Nat :
              /\ Register(w, n, "answered")
              /\ job' = [job EXCEPT ![w] = Answered(job[w], n)]
              /\ UNCHANGED <<version, payments, rows, nextId, calls, overlap, lost>>
<1>1. Numbers \subseteq Nat
  BY BoundAssumption DEF Numbers
<1> QED BY <1>1 DEF Answer, Answered

LEMMA AnswerType ==
    ASSUME TypeOK, NEW w \in Workers, Answer(w)
    PROVE  TypeOK'
<1>1. PICK n \in Nat : /\ Register(w, n, "answered")
                       /\ job' = [job EXCEPT ![w] = Answered(job[w], n)]
                       /\ UNCHANGED <<version, payments, rows, nextId, calls, overlap, lost>>
  BY AnswerSteps
<1>2. job[w] \in Job /\ ofd' \in [Ids -> Registered]
  BY <1>1, RegisterSteps
<1>3. Answered(job[w], n) \in Job
  BY <1>2 DEF Answered, Job, Stages
<1>4. job' \in [Workers -> Job \cup {NoJob}]
  BY <1>1, <1>3, JobType
<1> QED BY <1>1, <1>2, <1>4 DEF TypeOK

LEMMA LoseAnswerType ==
    ASSUME TypeOK, JobsOK, NEW w \in Workers, LoseAnswer(w)
    PROVE  TypeOK'
<1>1. PICK n \in Nat : Register(w, n, "registered")
  BY BoundAssumption DEF LoseAnswer, Numbers
<1>2. job[w] \in Job /\ job[w] # NoJob /\ job[w].stage = "inserted" /\ ofd' \in [Ids -> Registered]
  BY <1>1, RegisterSteps
<1>3. job[w].id \in Ids /\ job[w].made \in SUBSET Ids
  BY <1>2 DEF JobsOK, JobOK, Job
<1>4. {job[w].id} \in SUBSET Ids /\ Undone(w) \in SUBSET Ids
  BY <1>3 DEF Undone
<1>5. lost' \in [{"answer", "killed", "undone"} -> SUBSET Ids]
  BY <1>4 DEF LoseAnswer, TypeOK
<1> QED BY <1>2, <1>5, GiveUpType DEF LoseAnswer

LEMMA RefuseReceiptType ==
    ASSUME TypeOK, NEW w \in Workers, RefuseReceipt(w)
    PROVE  TypeOK'
<1>1. job[w] \in Job /\ job[w] # NoJob
  BY DEF RefuseReceipt, At, TypeOK
<1>2. Undone(w) \in SUBSET Ids
  BY <1>1 DEF Undone, Job
<1>3. lost' \in [{"answer", "killed", "undone"} -> SUBSET Ids]
  BY <1>2 DEF RefuseReceipt, TypeOK
<1>4. ofd' \in [Ids -> Registered]
  BY DEF RefuseReceipt, TypeOK
<1> QED BY <1>1, <1>3, <1>4, GiveUpType DEF RefuseReceipt

LEMMA WithAnswerType ==
    ASSUME TypeOK, NEW w \in Workers, job[w] # NoJob
    PROVE  WithAnswer(job[w]) \in [Ids -> Row]
<1>1. job[w].number \in Nat
  BY DEF TypeOK, Job
<1>2. \A r \in Row : [r EXCEPT !.seq = job[w].number] \in Row
  BY <1>1 DEF Row
<1> QED BY <1>2 DEF TypeOK, WithAnswer

LEMMA CommitType ==
    ASSUME TypeOK, NEW w \in Workers, job[w] # NoJob, NEW table \in [Ids -> Row],
           Commit(w, table), payments' \subseteq Payments
    PROVE  TypeOK'
<1>1. \A i \in Ids : [table[i] EXCEPT !.state = "saved"] \in Row
  BY DEF Row
<1>2. rows' \in [Ids -> Row]
  BY <1>1 DEF Commit
<1>3. job' \in [Workers -> Job \cup {NoJob}]
  BY DEF Commit, TypeOK
<1> QED BY <1>2, <1>3 DEF Commit, TypeOK

\* The method ends inside another transaction, with its row saved.
Continued(j) == IF j.kind = "close"
                THEN [j EXCEPT !.stage = "over"]
                ELSE [j EXCEPT !.stage = "checked", !.type = "CREDIT", !.contract = OwnContract]

LEMMA SaveInsideSteps ==
    ASSUME TypeOK, NEW w \in Workers, SaveInClosing(w) \/ SaveInCredit(w)
    PROVE  /\ job[w] \in Job /\ job[w] # NoJob /\ job[w].stage = "answered"
           /\ rows' = WithAnswer(job[w])
           /\ job' = [job EXCEPT ![w] = Continued(job[w])]
           /\ UNCHANGED <<version, payments, nextId, ofd, calls, overlap, lost>>
BY DEF SaveInClosing, SaveInCredit, At, TypeOK, Continued

LEMMA ContinuedType ==
    ASSUME TypeOK, NEW w \in Workers, SaveInClosing(w) \/ SaveInCredit(w)
    PROVE  Continued(job[w]) \in Job
<1>1. OwnContract \in 0..OwnContract
  BY Numbering
<1>2. [job[w] EXCEPT !.stage = "over"] \in Job
  BY SaveInsideSteps DEF Job, Stages
<1>3. [job[w] EXCEPT !.stage = "checked", !.type = "CREDIT", !.contract = OwnContract] \in Job
  BY <1>1, SaveInsideSteps DEF Job, Stages, Types
<1> QED BY <1>2, <1>3 DEF Continued

LEMMA SaveInsideType ==
    ASSUME TypeOK, NEW w \in Workers, SaveInClosing(w) \/ SaveInCredit(w)
    PROVE  TypeOK'
<1>1. Continued(job[w]) \in Job
  BY ContinuedType
<1>2. job' \in [Workers -> Job \cup {NoJob}]
  BY <1>1, SaveInsideSteps, JobType
<1>3. rows' \in [Ids -> Row]
  BY SaveInsideSteps, WithAnswerType
<1> QED BY <1>2, <1>3, SaveInsideSteps DEF TypeOK

\* The table a commit leaves, for any of the actions that commit.
RefundTable(j) == [WithAnswer(j) EXCEPT ![j.target].refund = j.id]

LEMMA CommitSteps ==
    ASSUME TypeOK, JobsOK, NEW w \in Workers, Save(w) \/ SaveRefund(w) \/ CommitClosing(w)
    PROVE  /\ job[w] \in Job /\ job[w] # NoJob
           /\ payments' \subseteq Payments
           /\ \/ job[w].stage = "answered" /\ Commit(w, WithAnswer(job[w]))
              \/ /\ job[w].stage = "answered" /\ Commit(w, RefundTable(job[w]))
                 /\ job[w].target \in Ids /\ job[w].id \in Ids
              \/ job[w].stage = "over" /\ Commit(w, rows)
<1>1. job[w] \in Job /\ job[w] # NoJob /\ JobOK(job[w], rows, ofd)
  BY DEF Save, SaveRefund, CommitClosing, At, TypeOK, JobsOK
<1>2. payments' \subseteq Payments
  BY <1>1 DEF Save, SaveRefund, CommitClosing, TypeOK, Job
<1>3. CASE SaveRefund(w)
  <2>1. job[w].stage = "answered" /\ Commit(w, RefundTable(job[w]))
    BY <1>3 DEF SaveRefund, At, RefundTable
  <2>2. job[w].target \in Ids /\ job[w].id \in Ids
    BY <1>1, <1>3 DEF SaveRefund, At, JobOK, Job
  <2> QED BY <1>1, <1>2, <2>1, <2>2
<1>4. CASE Save(w) \/ CommitClosing(w)
  BY <1>1, <1>2, <1>4 DEF Save, CommitClosing, At
<1> QED BY <1>3, <1>4

LEMMA RefundTableType ==
    ASSUME TypeOK, NEW w \in Workers, job[w] # NoJob, job[w].id \in Ids
    PROVE  RefundTable(job[w]) \in [Ids -> Row]
<1>1. \A r \in Row : [r EXCEPT !.refund = job[w].id] \in Row
  BY DEF Row
<1> QED BY <1>1, WithAnswerType DEF RefundTable

LEMMA CommitsType ==
    ASSUME TypeOK, JobsOK, NEW w \in Workers, Save(w) \/ SaveRefund(w) \/ CommitClosing(w)
    PROVE  TypeOK'
<1>1. \E table \in [Ids -> Row] : Commit(w, table)
  <2>1. rows \in [Ids -> Row]
    BY DEF TypeOK
  <2> QED BY <2>1, CommitSteps, WithAnswerType, RefundTableType
<1> QED BY <1>1, CommitSteps, CommitType

LEMMA KillType ==
    ASSUME TypeOK, NEW w \in Workers, Kill(w)
    PROVE  TypeOK'
<1>1. rows' \in [Ids -> Row]
  BY BlankType DEF TypeOK, Kill
<1>2. job' \in [Workers -> Job \cup {NoJob}]
  BY DEF TypeOK, Kill
<1>3. lost' \in [{"answer", "killed", "undone"} -> SUBSET Ids]
  <2>1. {i \in job[w].made : ofd[i].state # "none"} \in SUBSET Ids
    BY DEF TypeOK, Kill, Job
  <2> QED BY <2>1 DEF TypeOK, Kill
<1> QED BY <1>1, <1>2, <1>3 DEF TypeOK, Kill

LEMMA StepType ==
    ASSUME TypeOK, JobsOK, NEW w \in Workers, Step(w)
    PROVE  TypeOK'
BY CheckType, LookType, InsertType, AnswerType, LoseAnswerType, RefuseReceiptType,
   SaveInsideType, CommitsType, KillType DEF Step

-----------------------------------------------------------------------------
(* The invariant.                                                          *)

\* All of a row but the refund it is linked to.
Same(r, s) ==
    /\ r.state = s.state /\ r.type = s.type /\ r.payment = s.payment
    /\ r.cert = s.cert /\ r.seq = s.seq /\ r.after = s.after

\* The OFD forgets nothing and changes nothing.
Keeps(F, G) == \A k \in Ids : F[k].state # "none" => G[k] = F[k]

LEMMA AboveStays ==
    ASSUME NEW A \in SUBSET Ids, NEW c, NEW n, NEW F, NEW G, Above(A, c, n, F), Keeps(F, G)
    PROVE  Above(A, c, n, G)
BY DEF Above, Keeps

\* What a call relies on stays when its own rows do.
LEMMA JobStays ==
    ASSUME NEW j \in Job, NEW R \in [Ids -> Row], NEW S, NEW F, NEW G, JobOK(j, R, F), Keeps(F, G),
           \A i \in j.made : Same(R[i], S[i]) /\ G[i] = F[i]
    PROVE  JobOK(j, S, G)
<1>1. j.after \in SUBSET Ids /\ j.made \subseteq Ids /\ \A i \in j.made : R[i].after \in SUBSET Ids
  BY DEF Job, Row
<1>2. j.stage = "looked" => Above(j.after, j.cert, j.number, G)
  BY <1>1, AboveStays DEF JobOK
<1>3. j.stage \in {"inserted", "answered"} => Above(S[j.id].after, j.cert, j.number, G)
  BY <1>1, AboveStays DEF JobOK, Same
<1> QED BY <1>2, <1>3 DEF JobOK, Same, Settled

LEMMA RowStays ==
    ASSUME NEW i \in Ids, NEW R \in [Ids -> Row], NEW S, NEW F, NEW G, NEW n \in Nat, NEW m \in Nat,
           NEW gone, NEW more, RowOK(i, R, F, n, gone), Keeps(F, G),
           Same(R[i], S[i]), G[i] = F[i], n <= m, gone \subseteq more
    PROVE  RowOK(i, S, G, m, more)
<1>1. R[i].after \in SUBSET Ids /\ i \in Nat
  BY Numbering DEF Row
<1>2. R[i].state # "none" => Above(S[i].after, S[i].cert, S[i].seq, G)
  BY <1>1, AboveStays DEF RowOK, Same
<1> QED BY <1>1, <1>2 DEF RowOK, Same, Settled

\* The rows of the other workers' calls stay.
Others(w) ==
    \A v \in Workers \ {w} : job[v] # NoJob =>
        \A i \in job[v].made : Same(rows[i], rows'[i]) /\ ofd'[i] = ofd[i]

\* One worker's call is new next: the calls are as well formed as before.
LEMMA JobsStep ==
    ASSUME IInv, NEW w \in Workers, NEW new \in Job \cup {NoJob},
           job' = [job EXCEPT ![w] = new],
           new # NoJob => JobOK(new, rows', ofd'),
           new # NoJob => \A v \in Workers \ {w} : job[v] # NoJob => job[v].made \cap new.made = {},
           Others(w), Keeps(ofd, ofd')
    PROVE  JobsOK' /\ Apart'
<1>1. \A v \in Workers \ {w} : job'[v] = job[v]
  BY DEF IInv, TypeOK
<1>2. job'[w] = new
  BY DEF IInv, TypeOK
<1>3. ASSUME NEW v \in Workers \ {w}, job[v] # NoJob
      PROVE  JobOK(job[v], rows', ofd')
  <2>1. job[v] \in Job /\ rows \in [Ids -> Row] /\ JobOK(job[v], rows, ofd)
    BY <1>3 DEF IInv, TypeOK, JobsOK
  <2> QED BY <1>3, <2>1, JobStays DEF Others
<1>4. JobsOK'
  BY <1>1, <1>2, <1>3 DEF JobsOK
<1>5. Apart'
  BY <1>1, <1>2 DEF Apart, IInv
<1> QED BY <1>4, <1>5

\* A step that leaves the tables alone.
LEMMA QuietStep ==
    ASSUME IInv, NEW w \in Workers, NEW new \in Job \cup {NoJob},
           job' = [job EXCEPT ![w] = new],
           new # NoJob => JobOK(new, rows, ofd),
           new # NoJob => new.made = {} \/ (job[w] # NoJob /\ new.made = job[w].made),
           UNCHANGED <<rows, nextId, ofd, lost>>
    PROVE  JobsOK' /\ RowsOK' /\ Apart'
<1>1. Others(w) /\ Keeps(ofd, ofd')
  BY DEF Others, Keeps, Same
<1>2. new # NoJob => \A v \in Workers \ {w} : job[v] # NoJob => job[v].made \cap new.made = {}
  BY DEF IInv, Apart
<1>3. JobsOK' /\ Apart'
  BY <1>1, <1>2, JobsStep
<1>4. RowsOK'
  BY DEF IInv, RowsOK, Forgotten
<1> QED BY <1>3, <1>4

\* A step that rolls back the rows of a call.
LEMMA BlankStep ==
    ASSUME IInv, NEW w \in Workers, job[w] # NoJob, NEW new \in Job \cup {NoJob},
           job' = [job EXCEPT ![w] = new],
           new # NoJob => JobOK(new, rows', ofd') /\ new.made = {},
           rows' = [i \in Ids |-> IF i \in job[w].made THEN Blank ELSE rows[i]],
           nextId' = nextId, Keeps(ofd, ofd'),
           \A i \in Ids \ job[w].made : ofd'[i] = ofd[i],
           Forgotten \subseteq Forgotten',
           \A i \in job[w].made : ofd'[i].state # "none" => i \in Forgotten'
    PROVE  JobsOK' /\ RowsOK' /\ Apart'
<1>1. \A v \in Workers \ {w} : job[v] # NoJob => job[v].made \cap job[w].made = {} /\ job[v].made \subseteq Ids
  BY DEF IInv, Apart, TypeOK, Job
<1>2. Others(w)
  BY <1>1 DEF Others, Same
<1>3. JobsOK' /\ Apart'
  BY <1>2, JobsStep
<1>4. ASSUME NEW i \in Ids
      PROVE  RowOK(i, rows', ofd', nextId', Forgotten')
  <2>1. RowOK(i, rows, ofd, nextId, Forgotten) /\ rows \in [Ids -> Row] /\ nextId \in Nat
    BY DEF IInv, RowsOK, TypeOK
  <2>2. CASE i \in job[w].made
    <3>1. rows[i].state = "open"
      BY <2>2 DEF IInv, JobsOK, JobOK
    <3>2. i < nextId
      BY <2>1, <3>1 DEF RowOK
    <3>3. rows'[i].state = "none"
      BY <2>2 DEF Blank
    <3> QED BY <2>2, <3>2, <3>3 DEF RowOK
  <2>3. CASE i \notin job[w].made
    <3>1. Same(rows[i], rows'[i]) /\ ofd'[i] = ofd[i]
      BY <2>3 DEF Same
    <3> QED BY <2>1, <3>1, RowStays
  <2> QED BY <2>2, <2>3
<1>5. RowsOK'
  BY <1>4 DEF RowsOK
<1> QED BY <1>3, <1>5

LEMMA InitInv == Init => IInv
<1> SUFFICES ASSUME Init PROVE IInv
  OBVIOUS
<1>1. \A w \in Workers : job[w] = NoJob
  BY DEF Init
<1>2. \A i \in Ids : rows[i].state = "none" /\ ofd[i].state = "none"
  BY DEF Init, Blank, Unknown
<1> QED BY <1>1, <1>2, InitType DEF IInv, JobsOK, RowsOK, RowOK, Apart

LEMMA CertificateInv ==
    ASSUME IInv, NEW c \in Certs, SaveCertificate(c)
    PROVE  IInv'
<1>1. TypeOK'
  BY CertificateType DEF IInv
<1> QED BY <1>1 DEF IInv, SaveCertificate, JobsOK, RowsOK, Apart, Forgotten

LEMMA CallInv ==
    ASSUME IInv, NEW w \in Workers, NEW kind \in Kinds, NEW type \in Types, NEW p \in Payments,
           NEW target \in Ids \cup {NoId}, type = "REFUND" => target \in Ids,
           Call(w, kind, type, p, target)
    PROVE  JobsOK' /\ RowsOK' /\ Apart'
<1> DEFINE new == [kind |-> kind, payment |-> p, cert |-> Active, stage |-> "called",
                   type |-> type, target |-> target,
                   refunded |-> target # NoId /\ rows[target].refund # NoId,
                   last |-> NoId, after |-> {}, number |-> 0, contract |-> NoId,
                   id |-> NoId, made |-> {}, locks |-> {}]
<1>1. job' = [job EXCEPT ![w] = new] /\ UNCHANGED <<rows, nextId, ofd, lost>>
  BY DEF Call
<1>2. JobOK(new, rows, ofd) /\ new.made = {}
  BY DEF JobOK
<1>3. new \in Job \cup {NoJob}
  <2>1. TypeOK'
    BY CallType DEF IInv
  <2>2. job'[w] = new
    BY <1>1 DEF IInv, TypeOK
  <2> QED BY <2>1, <2>2 DEF TypeOK
<1> HIDE DEF new
<1> QED BY <1>1, <1>2, <1>3, QuietStep

LEMMA BeginInv ==
    ASSUME IInv, NEW w \in Workers, Begin(w)
    PROVE  IInv'
<1>1. TypeOK'
  BY BeginType DEF IInv
<1>2. PICK p \in Payments :
        \/ Close(w, p) \/ CreateReceipts(w, p) \/ CallPrepayment(w, p) \/ CallCredit(w, p)
        \/ \E i \in Ids : CallRefund(w, p, i)
  BY DEF Begin
<1>3. PICK kind \in Kinds, type \in Types, target \in Ids \cup {NoId} :
        (type = "REFUND" => target \in Ids) /\ Call(w, kind, type, p, target)
  <2>1. Kinds = {"close", "sale", "refund", "prepay", "credit"} /\ Types = {"SALE", "REFUND", "CREDIT", "PREPAYMENT"}
    BY DEF Kinds, Types
  <2> QED BY <1>2, <2>1 DEF Close, CreateReceipts, CallPrepayment, CallCredit, CallRefund
<1>4. JobsOK' /\ RowsOK' /\ Apart'
  BY <1>3, CallInv
<1> QED BY <1>1, <1>4 DEF IInv

\* The new call of GiveUp.
GivenUp(j) == IF j.kind = "close"
              THEN [j EXCEPT !.stage = "over", !.id = NoId, !.made = {}, !.locks = {}]
              ELSE NoJob

LEMMA GiveUpInv ==
    ASSUME IInv, NEW w \in Workers, job[w] # NoJob, GiveUp(w), Keeps(ofd, ofd'),
           \A i \in Ids \ job[w].made : ofd'[i] = ofd[i],
           Forgotten \subseteq Forgotten',
           \A i \in job[w].made : ofd'[i].state # "none" => i \in Forgotten'
    PROVE  JobsOK' /\ RowsOK' /\ Apart'
<1>1. job' = [job EXCEPT ![w] = GivenUp(job[w])] /\ nextId' = nextId
  BY DEF GiveUp, GivenUp
<1>2. job[w] \in Job /\ JobOK(job[w], rows, ofd)
  BY DEF IInv, TypeOK, JobsOK
<1>3. GivenUp(job[w]) \in Job \cup {NoJob}
  BY <1>2 DEF GivenUp, Job, Stages
<1>4. GivenUp(job[w]) # NoJob => JobOK(GivenUp(job[w]), rows', ofd') /\ GivenUp(job[w]).made = {}
  BY <1>2 DEF GivenUp, JobOK, Job
<1>5. rows' = [i \in Ids |-> IF i \in job[w].made THEN Blank ELSE rows[i]]
  BY DEF GiveUp
<1> QED BY <1>1, <1>3, <1>4, <1>5, BlankStep

LEMMA CheckInv ==
    ASSUME IInv, NEW w \in Workers,
           SaleCheck(w) \/ RefundCheck(w) \/ PrepaymentCheck(w) \/ CreditCheck(w)
    PROVE  JobsOK' /\ RowsOK' /\ Apart'
<1>1. /\ job[w] \in Job /\ job[w] # NoJob /\ job[w].stage = "called"
      /\ JobOK(job[w], rows, ofd) /\ job[w].made = {}
  BY CheckSteps DEF IInv, TypeOK, JobsOK, JobOK
<1>2. CASE Refuse(w)
  <2>1. GiveUp(w) /\ UNCHANGED <<ofd, lost>>
    BY <1>2 DEF Refuse
  <2>2. Keeps(ofd, ofd') /\ Forgotten' = Forgotten
    BY <2>1 DEF Keeps, Forgotten
  <2> QED BY <1>1, <2>1, <2>2, GiveUpInv
<1>3. ASSUME NEW contract \in 0..OwnContract, Proceed(w, contract)
      PROVE  JobsOK' /\ RowsOK' /\ Apart'
  <2> DEFINE new == [job[w] EXCEPT !.stage = "checked", !.contract = contract]
  <2>1. new \in Job
    BY <1>1 DEF Job, Stages
  <2>2. JobOK(new, rows, ofd) /\ new.made = job[w].made
    BY <1>1 DEF Job, JobOK
  <2>3. job' = [job EXCEPT ![w] = new] /\ UNCHANGED <<rows, nextId, ofd, lost>>
    BY <1>3 DEF Proceed
  <2> HIDE DEF new
  <2> QED BY <1>1, <2>1, <2>2, <2>3, QuietStep
<1>4. ASSUME job' = [job EXCEPT ![w].type = "SALE"], UNCHANGED <<rows, nextId, ofd, lost>>
      PROVE  JobsOK' /\ RowsOK' /\ Apart'
  <2> DEFINE new == [job[w] EXCEPT !.type = "SALE"]
  <2>1. new \in Job
    BY <1>1 DEF Job, Types
  <2>2. JobOK(new, rows, ofd) /\ new.made = job[w].made
    BY <1>1 DEF Job, JobOK
  <2>3. job' = [job EXCEPT ![w] = new]
    BY <1>4
  <2> HIDE DEF new
  <2> QED BY <1>1, <1>4, <2>1, <2>2, <2>3, QuietStep
<1>5. \/ Refuse(w)
      \/ \E contract \in 0..OwnContract : Proceed(w, contract)
      \/ /\ job' = [job EXCEPT ![w].type = "SALE"]
         /\ UNCHANGED <<version, payments, rows, nextId, ofd, calls, overlap, lost>>
  BY CheckSteps DEF IInv
<1> QED BY <1>2, <1>3, <1>4, <1>5

LEMMA LookInv ==
    ASSUME IInv, NEW w \in Workers, Look(w)
    PROVE  JobsOK' /\ RowsOK' /\ Apart'
<1>1. TypeOK
  BY DEF IInv
<1>2. PICK last \in Ids \cup {NoId}, n \in Nat :
        /\ job' = [job EXCEPT ![w] = Looked(job[w], last, n)]
        /\ \A k \in Seen(job[w]) : rows[k].seq < n
  BY <1>1, LookSteps
<1>3. /\ job[w] \in Job /\ job[w] # NoJob /\ job[w].stage = "checked"
      /\ UNCHANGED <<rows, nextId, ofd, lost>> /\ JobOK(job[w], rows, ofd)
  BY <1>1, LookSteps DEF IInv, JobsOK
<1>4. \A k \in Seen(job[w]) : Settled(k, rows, ofd) /\ rows[k].cert = job[w].cert
  BY <1>3 DEF Seen, IInv, RowsOK, RowOK, JobOK
<1>5. Above(Seen(job[w]), job[w].cert, n, ofd)
  BY <1>2, <1>4 DEF Above, Settled
<1>6. Looked(job[w], last, n) \in Job
  <2>1. Seen(job[w]) \in SUBSET Ids
    BY DEF Seen
  <2> QED BY <1>3, <2>1 DEF Looked, Job, Stages
<1>7. JobOK(Looked(job[w], last, n), rows, ofd) /\ Looked(job[w], last, n).made = job[w].made
  BY <1>3, <1>5 DEF Looked, Job, JobOK
<1> QED BY <1>2, <1>3, <1>6, <1>7, QuietStep

LEMMA InsertInv ==
    ASSUME IInv, NEW w \in Workers, Insert(w)
    PROVE  JobsOK' /\ RowsOK' /\ Apart'
<1>1. TypeOK
  BY DEF IInv
<1>2. /\ job[w] \in Job /\ job[w] # NoJob /\ job[w].stage = "looked"
      /\ nextId \in Ids /\ nextId \in Nat /\ nextId' = nextId + 1
      /\ rows' = [rows EXCEPT ![nextId] = NewRow(job[w])]
      /\ job' = [job EXCEPT ![w] = Inserted(job[w])]
      /\ UNCHANGED <<ofd, lost>>
  BY <1>1, InsertSteps, Numbering
<1>3. JobOK(job[w], rows, ofd)
  BY <1>2 DEF IInv, JobsOK
<1>4. rows[nextId].state = "none" /\ ofd[nextId].state = "none"
  BY <1>2 DEF IInv, RowsOK, RowOK
<1>5. \A v \in Workers : job[v] # NoJob => nextId \notin job[v].made /\ job[v].made \subseteq Ids
  BY <1>4 DEF IInv, JobsOK, JobOK, TypeOK, Job
<1>6. rows'[nextId] = NewRow(job[w]) /\ \A i \in Ids \ {nextId} : rows'[i] = rows[i]
  BY <1>2 DEF IInv, TypeOK
<1>7. Others(w) /\ Keeps(ofd, ofd')
  BY <1>2, <1>5, <1>6 DEF Others, Keeps, Same
<1>8. Inserted(job[w]) \in Job
  BY <1>1, InsertedType
<1>9. JobOK(Inserted(job[w]), rows', ofd')
  <2>1. \A i \in job[w].made : rows'[i] = rows[i]
    BY <1>2, <1>5, <1>6
  <2>2. Above(rows'[nextId].after, job[w].cert, job[w].number, ofd)
    BY <1>2, <1>3, <1>6 DEF JobOK, NewRow
  <2>3. /\ Inserted(job[w]).stage = "inserted" /\ Inserted(job[w]).id = nextId
        /\ Inserted(job[w]).made = job[w].made \cup {nextId}
        /\ Inserted(job[w]).type = job[w].type /\ Inserted(job[w]).payment = job[w].payment
        /\ Inserted(job[w]).cert = job[w].cert /\ Inserted(job[w]).target = job[w].target
        /\ Inserted(job[w]).number = job[w].number
    BY <1>2 DEF Inserted, Job
  <2>4. /\ rows'[nextId].state = "open" /\ rows'[nextId].type = job[w].type
        /\ rows'[nextId].payment = job[w].payment /\ rows'[nextId].cert = job[w].cert
    BY <1>6 DEF NewRow
  <2>5. ofd'[nextId].state = "none"
    BY <1>2, <1>4
  <2> QED BY <1>2, <1>3, <2>1, <2>2, <2>3, <2>4, <2>5 DEF JobOK, Settled
<1>10. \A v \in Workers \ {w} : job[v] # NoJob => job[v].made \cap Inserted(job[w]).made = {}
  BY <1>2, <1>5 DEF IInv, Apart, Inserted, Job
<1>11. JobsOK' /\ Apart'
  BY <1>2, <1>7, <1>8, <1>9, <1>10, JobsStep
<1>12. ASSUME NEW i \in Ids
       PROVE  RowOK(i, rows', ofd', nextId', Forgotten')
  <2>1. /\ RowOK(i, rows, ofd, nextId, Forgotten) /\ rows \in [Ids -> Row]
        /\ nextId' \in Nat /\ nextId <= nextId' /\ Forgotten' = Forgotten /\ ofd' = ofd
    BY <1>2 DEF IInv, RowsOK, TypeOK, Forgotten
  <2>2. CASE i = nextId
    <3>1. Above(rows'[i].after, rows'[i].cert, rows'[i].seq, ofd)
      BY <1>2, <1>3, <1>6, <2>2 DEF JobOK, NewRow
    <3>2. rows'[i].state = "open" /\ ofd'[i].state = "none" /\ i < nextId'
      BY <1>2, <1>4, <1>6, <2>2 DEF NewRow
    <3> QED BY <2>1, <3>1, <3>2 DEF RowOK
  <2>3. CASE i # nextId
    <3>1. Same(rows[i], rows'[i])
      BY <1>6, <2>3 DEF Same
    <3> QED BY <1>2, <1>7, <2>1, <3>1, RowStays
  <2> QED BY <2>2, <2>3
<1>13. RowsOK'
  BY <1>12 DEF RowsOK
<1> QED BY <1>11, <1>13

\* What registering a receipt does to the OFD.
LEMMA RegisterKeeps ==
    ASSUME IInv, NEW w \in Workers, NEW n \in Nat, NEW state \in {"registered", "answered"},
           Register(w, n, state)
    PROVE  /\ job[w] \in Job /\ job[w] # NoJob /\ job[w].stage = "inserted"
           /\ JobOK(job[w], rows, ofd)
           /\ job[w].id \in job[w].made /\ job[w].made \subseteq Ids
           /\ ofd' = [ofd EXCEPT ![job[w].id] = Entry(job[w], n, state)]
           /\ Keeps(ofd, ofd')
           /\ \A i \in Ids \ {job[w].id} : ofd'[i] = ofd[i]
           /\ ofd'[job[w].id] = Entry(job[w], n, state)
           /\ Above(rows[job[w].id].after, job[w].cert, n, ofd')
<1>1. TypeOK
  BY DEF IInv
<1>2. /\ job[w] \in Job /\ job[w] # NoJob /\ job[w].stage = "inserted"
      /\ ofd' = [ofd EXCEPT ![job[w].id] = Entry(job[w], n, state)]
      /\ \/ n = job[w].number
         \/ \A k \in Ids : ofd[k].state # "none" /\ ofd[k].cert = job[w].cert => ofd[k].seq < n
  BY <1>1, RegisterSteps
<1>3. JobOK(job[w], rows, ofd)
  BY <1>2 DEF IInv, JobsOK
<1>4. job[w].id \in job[w].made /\ job[w].made \subseteq Ids /\ ofd[job[w].id].state = "none"
  BY <1>2, <1>3 DEF JobOK, Job
<1>5. /\ \A i \in Ids \ {job[w].id} : ofd'[i] = ofd[i]
      /\ ofd'[job[w].id] = Entry(job[w], n, state)
  BY <1>1, <1>2, <1>4 DEF TypeOK
<1>6. Keeps(ofd, ofd')
  BY <1>4, <1>5 DEF Keeps
<1>7. rows[job[w].id].after \in SUBSET Ids
  BY <1>1, <1>4 DEF TypeOK, Row
<1>8. Above(rows[job[w].id].after, job[w].cert, job[w].number, ofd)
  BY <1>2, <1>3 DEF JobOK
<1>9. Above(rows[job[w].id].after, job[w].cert, n, ofd)
  BY <1>2, <1>7, <1>8 DEF Above
<1>10. Above(rows[job[w].id].after, job[w].cert, n, ofd')
  BY <1>6, <1>7, <1>9, AboveStays
<1> QED BY <1>2, <1>3, <1>4, <1>5, <1>6, <1>10

\* The rows of two calls differ.
LEMMA OthersApart ==
    ASSUME IInv, NEW w \in Workers, job[w] # NoJob
    PROVE  \A v \in Workers \ {w} : job[v] # NoJob =>
              job[v].made \subseteq Ids /\ job[v].made \cap job[w].made = {}
BY DEF IInv, Apart, TypeOK, Job

LEMMA AnswerInv ==
    ASSUME IInv, NEW w \in Workers, Answer(w)
    PROVE  JobsOK' /\ RowsOK' /\ Apart'
<1>1. PICK n \in Nat : /\ Register(w, n, "answered")
                       /\ job' = [job EXCEPT ![w] = Answered(job[w], n)]
                       /\ UNCHANGED <<version, payments, rows, nextId, calls, overlap, lost>>
  BY AnswerSteps DEF IInv
<1>2. /\ job[w] \in Job /\ job[w] # NoJob /\ job[w].stage = "inserted"
      /\ JobOK(job[w], rows, ofd)
      /\ job[w].id \in job[w].made /\ job[w].made \subseteq Ids
      /\ Keeps(ofd, ofd')
      /\ \A i \in Ids \ {job[w].id} : ofd'[i] = ofd[i]
      /\ ofd'[job[w].id] = Entry(job[w], n, "answered")
      /\ Above(rows[job[w].id].after, job[w].cert, n, ofd')
  BY <1>1, RegisterKeeps
<1>3. Others(w)
  BY <1>1, <1>2, OthersApart DEF Others, Same
<1>4. Answered(job[w], n) \in Job /\ Answered(job[w], n).made = job[w].made
  BY <1>2 DEF Answered, Job, Stages
<1>5. JobOK(Answered(job[w], n), rows', ofd')
  <2>1. /\ Answered(job[w], n).stage = "answered" /\ Answered(job[w], n).id = job[w].id
        /\ Answered(job[w], n).made = job[w].made /\ Answered(job[w], n).number = n
        /\ Answered(job[w], n).type = job[w].type /\ Answered(job[w], n).payment = job[w].payment
        /\ Answered(job[w], n).cert = job[w].cert /\ Answered(job[w], n).target = job[w].target
    BY <1>2 DEF Answered, Job
  <2>2. \A i \in job[w].made : Settled(i, rows, ofd') \/ i = job[w].id
    BY <1>2 DEF JobOK, Settled
  <2>3. /\ ofd'[job[w].id].state = "answered" /\ ofd'[job[w].id].type = job[w].type
        /\ ofd'[job[w].id].payment = job[w].payment /\ ofd'[job[w].id].cert = job[w].cert
        /\ ofd'[job[w].id].seq = n
    BY <1>2 DEF Entry
  <2> QED BY <1>1, <1>2, <2>1, <2>2, <2>3 DEF JobOK
<1>6. \A v \in Workers \ {w} : job[v] # NoJob => job[v].made \cap Answered(job[w], n).made = {}
  BY <1>2, <1>4, OthersApart
<1>7. JobsOK' /\ Apart'
  BY <1>1, <1>2, <1>3, <1>4, <1>5, <1>6, JobsStep
<1>8. ASSUME NEW i \in Ids
      PROVE  RowOK(i, rows', ofd', nextId', Forgotten')
  <2> Forgotten' = Forgotten
    BY <1>1 DEF Forgotten
  <2>1. /\ RowOK(i, rows, ofd, nextId, Forgotten) /\ rows \in [Ids -> Row] /\ rows' = rows
        /\ nextId' = nextId /\ nextId \in Nat /\ Forgotten' = Forgotten
    BY <1>1 DEF IInv, RowsOK, TypeOK
  <2>2. CASE i = job[w].id
    <3>1. rows[i].state = "open" /\ rows[i].after \in SUBSET Ids
      BY <1>2, <2>1, <2>2 DEF JobOK, Row
    <3>2. Above(rows[i].after, rows[i].cert, rows[i].seq, ofd')
      BY <1>2, <2>1, <3>1, AboveStays DEF RowOK
    <3> QED BY <2>1, <3>1, <3>2 DEF RowOK
  <2>3. CASE i # job[w].id
    <3>1. Same(rows[i], rows'[i]) /\ ofd'[i] = ofd[i]
      BY <1>2, <2>1, <2>3 DEF Same
    <3> QED BY <1>2, <2>1, <3>1, RowStays
  <2> QED BY <2>2, <2>3
<1>9. RowsOK'
  BY <1>8 DEF RowsOK
<1> QED BY <1>7, <1>9

LEMMA LoseAnswerInv ==
    ASSUME IInv, NEW w \in Workers, LoseAnswer(w)
    PROVE  JobsOK' /\ RowsOK' /\ Apart'
<1>1. PICK n \in Nat : Register(w, n, "registered")
  BY BoundAssumption DEF LoseAnswer, Numbers
<1>2. /\ job[w] # NoJob /\ job[w].id \in job[w].made
      /\ Keeps(ofd, ofd') /\ \A i \in Ids \ {job[w].id} : ofd'[i] = ofd[i]
  BY <1>1, RegisterKeeps
<1>3. Forgotten' = Forgotten \cup job[w].made
  <2>1. {job[w].id} \cup Undone(w) = job[w].made
    BY <1>2 DEF Undone
  <2>2. /\ lost'["answer"] = lost["answer"] \cup {job[w].id}
        /\ lost'["undone"] = lost["undone"] \cup Undone(w)
        /\ lost'["killed"] = lost["killed"]
    BY DEF LoseAnswer, IInv, TypeOK
  <2> QED BY <2>1, <2>2 DEF Forgotten
<1>4. GiveUp(w)
  BY DEF LoseAnswer
<1> QED BY <1>2, <1>3, <1>4, GiveUpInv

LEMMA RefuseReceiptInv ==
    ASSUME IInv, NEW w \in Workers, RefuseReceipt(w)
    PROVE  JobsOK' /\ RowsOK' /\ Apart'
<1>1. GiveUp(w) /\ ofd' = ofd /\ job[w] # NoJob /\ job[w].stage = "inserted"
  BY DEF RefuseReceipt, At
<1>2. ofd[job[w].id].state = "none" /\ job[w].id \in job[w].made
  BY <1>1 DEF IInv, JobsOK, JobOK
<1>3. Forgotten' = Forgotten \cup Undone(w)
  <2>1. /\ lost'["answer"] = lost["answer"] /\ lost'["killed"] = lost["killed"]
        /\ lost'["undone"] = lost["undone"] \cup Undone(w)
    BY DEF RefuseReceipt, IInv, TypeOK
  <2> QED BY <2>1 DEF Forgotten
<1>4. \A i \in job[w].made : ofd'[i].state # "none" => i \in Forgotten'
  BY <1>1, <1>2, <1>3 DEF Undone
<1>5. Keeps(ofd, ofd')
  BY <1>1 DEF Keeps
<1> QED BY <1>1, <1>3, <1>4, <1>5, GiveUpInv

LEMMA KillInv ==
    ASSUME IInv, NEW w \in Workers, Kill(w)
    PROVE  JobsOK' /\ RowsOK' /\ Apart'
<1>1. /\ job[w] # NoJob /\ job' = [job EXCEPT ![w] = NoJob] /\ UNCHANGED <<ofd, nextId>>
      /\ rows' = [i \in Ids |-> IF i \in job[w].made THEN Blank ELSE rows[i]]
  BY DEF Kill
<1>2. Forgotten' = Forgotten \cup {i \in job[w].made : ofd[i].state # "none"}
  <2>1. /\ lost'["answer"] = lost["answer"] /\ lost'["undone"] = lost["undone"]
        /\ lost'["killed"] = lost["killed"] \cup {i \in job[w].made : ofd[i].state # "none"}
    BY DEF Kill, IInv, TypeOK
  <2> QED BY <2>1 DEF Forgotten
<1>3. Keeps(ofd, ofd')
  BY <1>1 DEF Keeps
<1> QED BY <1>1, <1>2, <1>3, BlankStep

\* The answer is in the row of the call, the other rows are as they were, and
\* the rows are as well formed as before.
AnswerSaved(w) ==
    LET T == WithAnswer(job[w])
    IN  /\ \A i \in Ids \ {job[w].id} : T[i] = rows[i]
        /\ \A i \in job[w].made : T[i].state = "open" /\ Settled(i, T, ofd)
        /\ \A i \in Ids : RowOK(i, T, ofd, nextId, Forgotten)

LEMMA AnswerIsSaved ==
    ASSUME IInv, NEW w \in Workers, job[w] # NoJob, job[w].stage = "answered"
    PROVE  AnswerSaved(w)
<1> DEFINE T == WithAnswer(job[w])
           me == job[w].id
<1>1. job[w] \in Job /\ rows \in [Ids -> Row]
  BY DEF IInv, TypeOK
<1>2. JobOK(job[w], rows, ofd) /\ me \in job[w].made /\ job[w].made \subseteq Ids
  BY <1>1 DEF IInv, JobsOK, JobOK, Job
<1>3. /\ \A i \in Ids \ {me} : T[i] = rows[i]
      /\ T[me] = [rows[me] EXCEPT !.seq = job[w].number]
  BY <1>1, <1>2 DEF WithAnswer
<1> HIDE DEF T
<1>4. /\ T[me].state = "open" /\ T[me].type = rows[me].type /\ T[me].payment = rows[me].payment
      /\ T[me].cert = rows[me].cert /\ T[me].after = rows[me].after
      /\ T[me].seq = job[w].number
  BY <1>1, <1>2, <1>3 DEF JobOK, Row
<1>5. Settled(me, T, ofd)
  BY <1>2, <1>4 DEF JobOK, Settled
<1>6. \A i \in job[w].made : T[i].state = "open" /\ Settled(i, T, ofd)
  <2>1. ASSUME NEW i \in job[w].made, i # me
        PROVE  T[i].state = "open" /\ Settled(i, T, ofd)
    <3>1. T[i] = rows[i] /\ rows[i].state = "open" /\ Settled(i, rows, ofd)
      BY <1>2, <1>3, <2>1 DEF JobOK
    <3> QED BY <3>1 DEF Settled
  <2> QED BY <1>4, <1>5, <2>1
<1>7. ASSUME NEW i \in Ids
      PROVE  RowOK(i, T, ofd, nextId, Forgotten)
  <2>1. RowOK(i, rows, ofd, nextId, Forgotten)
    BY DEF IInv, RowsOK
  <2>2. CASE i = me
    <3>1. i < nextId
      BY <1>2, <2>1, <2>2 DEF JobOK, RowOK
    <3>2. Above(T[i].after, T[i].cert, T[i].seq, ofd)
      BY <1>2, <1>4, <2>2 DEF JobOK
    <3> QED BY <1>4, <1>5, <2>2, <3>1, <3>2 DEF RowOK
  <2>3. CASE i # me
    BY <1>3, <2>1, <2>3 DEF RowOK, Settled
  <2> QED BY <2>2, <2>3
<1> QED BY <1>3, <1>6, <1>7 DEF AnswerSaved, T

LEMMA SaveInsideInv ==
    ASSUME IInv, NEW w \in Workers, SaveInClosing(w) \/ SaveInCredit(w)
    PROVE  JobsOK' /\ RowsOK' /\ Apart'
<1>1. TypeOK
  BY DEF IInv
<1>2. /\ job[w] \in Job /\ job[w] # NoJob /\ job[w].stage = "answered"
      /\ rows' = WithAnswer(job[w])
      /\ job' = [job EXCEPT ![w] = Continued(job[w])]
      /\ UNCHANGED <<nextId, ofd, lost>>
  BY <1>1, SaveInsideSteps
<1>3. JobOK(job[w], rows, ofd) /\ job[w].id \in job[w].made /\ job[w].made \subseteq Ids
  BY <1>2 DEF IInv, JobsOK, JobOK, Job
<1>4. AnswerSaved(w)
  BY <1>1, <1>2, <1>3, AnswerIsSaved
<1>5. Others(w) /\ Keeps(ofd, ofd')
  <2>1. \A i \in Ids \ {job[w].id} : rows'[i] = rows[i]
    BY <1>2, <1>4 DEF AnswerSaved
  <2> QED BY <1>2, <1>3, <2>1, OthersApart DEF Others, Keeps, Same
<1>6. Continued(job[w]) \in Job
  BY <1>1, ContinuedType
<1>7. JobOK(Continued(job[w]), rows', ofd') /\ Continued(job[w]).made = job[w].made
  <2>1. /\ Continued(job[w]).stage \in {"over", "checked"}
        /\ Continued(job[w]).made = job[w].made
        /\ Continued(job[w]).target = job[w].target
        /\ Continued(job[w]).type = "REFUND" => job[w].type = "REFUND"
    BY <1>2 DEF Continued, Job
  <2>2. \A i \in job[w].made : rows'[i].state = "open" /\ Settled(i, rows', ofd)
    BY <1>2, <1>3, <1>4 DEF AnswerSaved, JobOK
  <2> QED BY <1>2, <1>3, <2>1, <2>2 DEF JobOK
<1>8. \A v \in Workers \ {w} : job[v] # NoJob => job[v].made \cap Continued(job[w]).made = {}
  BY <1>2, <1>7, OthersApart
<1>9. JobsOK' /\ Apart'
  BY <1>2, <1>5, <1>6, <1>7, <1>8, JobsStep
<1>10. RowsOK'
  <2> Forgotten' = Forgotten
    BY <1>2 DEF Forgotten
  <2> QED BY <1>2, <1>4 DEF RowsOK, AnswerSaved
<1> QED BY <1>9, <1>10

\* The rows of a call commit, once all of them are settled in the table.
LEMMA CommitStep ==
    ASSUME IInv, NEW w \in Workers, job[w] # NoJob, NEW T \in [Ids -> Row], Commit(w, T),
           \A i \in Ids : RowOK(i, T, ofd, nextId, Forgotten),
           \A i \in job[w].made : T[i].state = "open" /\ Settled(i, T, ofd),
           \A i \in Ids \ job[w].made : Same(rows[i], T[i])
    PROVE  JobsOK' /\ RowsOK' /\ Apart'
<1>1. /\ rows' = [i \in Ids |-> IF i \in job[w].made THEN [T[i] EXCEPT !.state = "saved"] ELSE T[i]]
      /\ job' = [job EXCEPT ![w] = NoJob] /\ UNCHANGED <<nextId, ofd, lost>>
  BY DEF Commit
<1>2. Others(w) /\ Keeps(ofd, ofd')
  BY <1>1, OthersApart DEF Others, Keeps
<1>3. JobsOK' /\ Apart'
  BY <1>1, <1>2, JobsStep
<1>4. Forgotten' = Forgotten
  BY <1>1 DEF Forgotten
<1>5. ASSUME NEW i \in Ids
      PROVE  RowOK(i, rows', ofd, nextId, Forgotten)
  <2>1. CASE i \in job[w].made
    <3>1. rows'[i] = [T[i] EXCEPT !.state = "saved"]
      BY <1>1, <2>1
    <3>2. /\ rows'[i].state = "saved" /\ rows'[i].type = T[i].type
          /\ rows'[i].payment = T[i].payment /\ rows'[i].cert = T[i].cert
          /\ rows'[i].seq = T[i].seq /\ rows'[i].after = T[i].after
      BY <3>1 DEF Row
    <3> QED BY <2>1, <3>2 DEF RowOK, Settled
  <2>2. CASE i \notin job[w].made
    <3>1. rows'[i] = T[i]
      BY <1>1, <2>2
    <3> QED BY <3>1 DEF RowOK, Settled
  <2> QED BY <2>1, <2>2
<1>6. RowsOK'
  BY <1>1, <1>4, <1>5 DEF RowsOK
<1> QED BY <1>3, <1>6

LEMMA CommitInv ==
    ASSUME IInv, NEW w \in Workers, Save(w) \/ SaveRefund(w) \/ CommitClosing(w)
    PROVE  JobsOK' /\ RowsOK' /\ Apart'
<1>1. TypeOK /\ JobsOK
  BY DEF IInv
<1>2. /\ job[w] \in Job /\ job[w] # NoJob
      /\ \/ job[w].stage = "answered" /\ Commit(w, WithAnswer(job[w]))
         \/ /\ job[w].stage = "answered" /\ Commit(w, RefundTable(job[w]))
            /\ job[w].target \in Ids /\ job[w].id \in Ids
         \/ job[w].stage = "over" /\ Commit(w, rows)
  BY <1>1, CommitSteps
<1>3. JobOK(job[w], rows, ofd) /\ job[w].made \subseteq Ids /\ rows \in [Ids -> Row]
  BY <1>1, <1>2 DEF JobsOK, Job, TypeOK
<1>4. CASE job[w].stage = "over" /\ Commit(w, rows)
  <2>1. \A i \in job[w].made : rows[i].state = "open" /\ Settled(i, rows, ofd)
    BY <1>3, <1>4 DEF JobOK
  <2>2. \A i \in Ids : RowOK(i, rows, ofd, nextId, Forgotten) /\ Same(rows[i], rows[i])
    BY DEF IInv, RowsOK, Same
  <2> QED BY <1>2, <1>3, <1>4, <2>1, <2>2, CommitStep
<1>5. CASE job[w].stage = "answered"
  <2> DEFINE T == WithAnswer(job[w])
  <2>1. AnswerSaved(w)
    BY <1>2, <1>5, AnswerIsSaved
  <2>2. T \in [Ids -> Row]
    BY <1>1, <1>2, WithAnswerType
  <2>3. job[w].id \in job[w].made
    BY <1>3, <1>5 DEF JobOK
  <2>4. /\ \A i \in Ids : RowOK(i, T, ofd, nextId, Forgotten)
        /\ \A i \in job[w].made : T[i].state = "open" /\ Settled(i, T, ofd)
        /\ \A i \in Ids \ job[w].made : Same(rows[i], T[i])
    BY <2>1, <2>3 DEF AnswerSaved, Same
  <2>5. CASE Commit(w, T)
    <3> HIDE DEF T
    <3> QED BY <1>2, <2>2, <2>4, <2>5, CommitStep
  <2>6. CASE Commit(w, RefundTable(job[w])) /\ job[w].target \in Ids /\ job[w].id \in Ids
    <3> DEFINE U == RefundTable(job[w])
    <3>1. U \in [Ids -> Row]
      BY <1>1, <1>2, <2>6, RefundTableType
    <3>2. \A i \in Ids : Same(T[i], U[i])
      <4>1. U = [T EXCEPT ![job[w].target].refund = job[w].id]
        BY DEF RefundTable
      <4> HIDE DEF T, U
      <4> QED BY <2>2, <4>1 DEF Same, Row
    <3> HIDE DEF T, U
    <3>3. \A i \in Ids : RowOK(i, U, ofd, nextId, Forgotten)
      BY <2>4, <3>2 DEF RowOK, Same, Settled
    <3>4. \A i \in job[w].made : U[i].state = "open" /\ Settled(i, U, ofd)
      BY <1>3, <2>4, <3>2 DEF Same, Settled
    <3>5. \A i \in Ids \ job[w].made : Same(rows[i], U[i])
      BY <2>4, <3>2 DEF Same
    <3>6. Commit(w, U)
      BY <2>6 DEF U
    <3> QED BY <1>2, <3>1, <3>3, <3>4, <3>5, <3>6, CommitStep
  <2>7. CASE job[w].stage = "over" /\ Commit(w, rows)
    BY <1>5, <2>7
  <2> QED BY <1>2, <2>5, <2>6, <2>7
<1> QED BY <1>2, <1>4, <1>5

LEMMA StepInv ==
    ASSUME IInv, NEW w \in Workers, Step(w)
    PROVE  IInv'
<1>1. TypeOK'
  BY StepType DEF IInv
<1>2. JobsOK' /\ RowsOK' /\ Apart'
  BY CheckInv, LookInv, InsertInv, AnswerInv, LoseAnswerInv, RefuseReceiptInv, SaveInsideInv,
     CommitInv, KillInv DEF Step
<1> QED BY <1>1, <1>2 DEF IInv

LEMMA NextInv ==
    ASSUME IInv, [Next]_vars
    PROVE  IInv'
<1>1. CASE UNCHANGED vars
  BY <1>1 DEF vars, IInv, TypeOK, JobsOK, RowsOK, Apart, Forgotten
<1>2. CASE Next
  BY <1>2, CertificateInv, BeginInv, StepInv DEF Next
<1> QED BY <1>1, <1>2

\* IInv is an invariant: what a call holds, what it wrote, and what the OFD knows of it.
THEOREM Invariance == Spec => []IInv
<1>1. IInv /\ [Next]_vars => IInv'
  BY NextInv
<1> QED BY InitInv, <1>1, PTL DEF Spec

-----------------------------------------------------------------------------
(* The theorems.                                                           *)

\* Every variable keeps its type.
THEOREM TypeCorrect == Spec => []TypeOK
<1>1. IInv => TypeOK
  BY DEF IInv
<1> QED BY Invariance, <1>1, PTL

\* A committed receipt is as the OFD registered and answered it, and nothing the
\* OFD registered is without a row but for the causes it names: every method of
\* OFDReceiptService saves on Code 0 and rolls back otherwise.
THEOREM ReceiptsAgree == Spec => []OfdAgrees
<1>1. IInv => OfdAgrees
  BY DEF IInv, RowsOK, RowOK, Settled, OfdAgrees
<1> QED BY Invariance, <1>1, PTL

\* The number of a receipt is above those of all the receipts of its certificate
\* that had been committed when OFDReceipt.save looked for it.
THEOREM NumbersAreFresh == Spec => []NumbersGrow
<1>1. ASSUME IInv, NEW i \in Ids, rows[i].state # "none", NEW k \in rows[i].after,
             rows[k].state = "saved"
      PROVE  rows[k].seq < rows[i].seq
  <2>1. k \in Ids
    BY <1>1 DEF IInv, TypeOK, Row
  <2>2. ofd[k].seq < rows[i].seq
    BY <1>1 DEF IInv, RowsOK, RowOK, Above
  <2>3. ofd[k].seq = rows[k].seq
    BY <1>1, <2>1 DEF IInv, RowsOK, RowOK, Settled
  <2> QED BY <2>2, <2>3
<1>2. IInv => NumbersGrow
  BY <1>1 DEF NumbersGrow
<1> QED BY Invariance, <1>2, PTL

-----------------------------------------------------------------------------
(* Calls for one payment that do not overlap.                              *)
(*                                                                         *)
(* What a method checks before it asks the OFD still holds when it saves   *)
(* the answer, as only its own call writes committed rows of its payment.  *)

\* The receipts of a payment in table R that are not refunded.
StandingIn(R, p, type) ==
    {i \in Ids : /\ R[i].state = "saved" /\ R[i].payment = p
                 /\ R[i].type = type /\ R[i].refund = NoId}

\* The rows of a call: the sale it has made, if any, and the one in the making;
\* a refund works on a committed receipt of its payment.
CallOK(j, R, F) ==
    /\ \A i \in j.made :
         /\ R[i].payment = j.payment /\ R[i].refund = NoId
         /\ R[i].type # "SALE" => j.stage \in {"inserted", "answered"} /\ i = j.id
    /\ \A i, k \in j.made : R[i].type = "SALE" /\ R[k].type = "SALE" => i = k
    /\ j.type # "CREDIT" /\ j.stage \in {"called", "checked", "looked"} => j.made = {}
    /\ j.type # "CREDIT" /\ j.stage \in {"inserted", "answered"} => j.made = {j.id}
    /\ j.kind = "close" => j.type = "SALE"
    /\ j.type = "REFUND" =>
         /\ j.kind = "refund" /\ R[j.target].state = "saved"
         /\ j.stage # "called" => R[j.target].payment = j.payment /\ ~j.refunded
         /\ j.stage = "answered" => F[j.id].of = j.target

\* The call has found no sale of its payment and is making one.
Sells(j, R) ==
    \/ j.type = "SALE" /\ j.stage \in {"checked", "looked", "inserted", "answered"}
    \/ \E i \in j.made : R[i].type = "SALE"

\* What the call has checked is still so.
Fresh(j, R) ==
    /\ Sells(j, R) => StandingIn(R, j.payment, "SALE") = {}
    /\ j.type = "PREPAYMENT" => \A i \in StandingIn(R, j.payment, "PREPAYMENT") :
         /\ j.stage \in {"checked", "looked"} => R[i].contract = j.contract
         /\ j.stage \in {"inserted", "answered"} => R[i].contract = R[j.id].contract
    /\ j.type = "REFUND" /\ ~j.refunded /\ R[j.target].payment = j.payment =>
         R[j.target].refund = NoId

\* The committed rows of a payment: one sale, one contract, and every refund
\* linked from the receipt it was registered for.
PaymentOK(p, R, F) ==
    /\ \A i, k \in StandingIn(R, p, "SALE") : i = k
    /\ \A i, k \in StandingIn(R, p, "PREPAYMENT") : R[i].contract = R[k].contract
    /\ \A i \in Ids : R[i].state = "saved" /\ R[i].type = "REFUND" /\ R[i].payment = p =>
         /\ F[i].of # NoId /\ R[F[i].of].refund = i
         /\ R[F[i].of].state = "saved" /\ R[F[i].of].payment = p

\* A receipt marked refunded is committed, and the OFD registered that refund.
Linked(R, F) ==
    \A i \in Ids : R[i].refund # NoId =>
        /\ R[i].state = "saved" /\ F[R[i].refund].state # "none"
        /\ F[R[i].refund].type = "REFUND" /\ F[R[i].refund].of = i

Receivers == Payments \cup {NoPayment}

OpenOwned  == \A i \in Ids : rows[i].state = "open" => \E w \in Workers : job[w] # NoJob /\ i \in job[w].made
CallsOK    == \A w \in Workers : job[w] # NoJob => CallOK(job[w], rows, ofd)
Alone      == \A v, w \in Workers :
                 job[v] # NoJob /\ job[w] # NoJob /\ job[v].payment = job[w].payment =>
                     v = w \/ job[w].payment \in overlap
FreshCalls == \A w \in Workers : job[w] # NoJob /\ job[w].payment \notin overlap => Fresh(job[w], rows)
TablesOK   == \A p \in Receivers \ overlap : PaymentOK(p, rows, ofd)

\* The inductive invariant behind SoldOnce, RefundsLinked and OneContract.
Ledger == Linked(rows, ofd) /\ OpenOwned /\ CallsOK /\ Alone /\ FreshCalls /\ TablesOK

\* The committed rows of a payment are the same in both tables.
SameFor(p, R, S) ==
    \A i \in Ids : (R[i].state = "saved" /\ R[i].payment = p) \/ (S[i].state = "saved" /\ S[i].payment = p)
                   => S[i] = R[i]

\* A committed row stays committed, for the same payment.
SavedStay(R, S) == \A i \in Ids : R[i].state = "saved" => S[i].state = "saved" /\ S[i].payment = R[i].payment

LEMMA StandingSame ==
    ASSUME NEW p, NEW R, NEW S, SameFor(p, R, S), NEW type
    PROVE  StandingIn(S, p, type) = StandingIn(R, p, type)
BY DEF SameFor, StandingIn

LEMMA CallStays ==
    ASSUME NEW j \in Job, NEW R, NEW S, NEW F, NEW G, JobOK(j, R, F), CallOK(j, R, F),
           Keeps(F, G), SavedStay(R, S), \A i \in j.made : S[i] = R[i]
    PROVE  CallOK(j, S, G)
<1>1. j.type = "REFUND" => j.target \in Ids
  BY DEF JobOK
<1>2. j.stage = "answered" => G[j.id] = F[j.id]
  BY DEF JobOK, Keeps, Job
<1> QED BY <1>1, <1>2 DEF CallOK, SavedStay

LEMMA FreshStays ==
    ASSUME NEW j \in Job, NEW R, NEW S, NEW F, JobOK(j, R, F), CallOK(j, R, F), Fresh(j, R),
           SameFor(j.payment, R, S), SavedStay(R, S), \A i \in j.made : S[i] = R[i]
    PROVE  Fresh(j, S)
<1>1. \A type : StandingIn(S, j.payment, type) = StandingIn(R, j.payment, type)
  BY StandingSame
<1>2. \A type : \A i \in StandingIn(R, j.payment, type) : S[i] = R[i]
  BY DEF StandingIn, SameFor
<1>3. Sells(j, S) => Sells(j, R)
  BY DEF Sells
<1>4. j.stage \in {"inserted", "answered"} => S[j.id] = R[j.id]
  BY DEF JobOK
<1>5. j.type = "REFUND" /\ S[j.target].payment = j.payment => S[j.target] = R[j.target]
  BY DEF JobOK, CallOK, SameFor, SavedStay
<1> QED BY <1>1, <1>2, <1>3, <1>4, <1>5 DEF Fresh

LEMMA PaymentStays ==
    ASSUME NEW p, NEW R, NEW S, NEW F \in [Ids -> Registered], NEW G, PaymentOK(p, R, F), SameFor(p, R, S),
           Keeps(F, G), \A i \in Ids : R[i].state = "saved" => F[i].state = "answered"
    PROVE  PaymentOK(p, S, G)
<1>1. \A type : StandingIn(S, p, type) = StandingIn(R, p, type)
  BY StandingSame
<1>2. \A type : \A i \in StandingIn(R, p, type) : S[i] = R[i]
  BY DEF StandingIn, SameFor
<1>3. ASSUME NEW i \in Ids, S[i].state = "saved", S[i].type = "REFUND", S[i].payment = p
      PROVE  /\ G[i].of # NoId /\ S[G[i].of].refund = i
             /\ S[G[i].of].state = "saved" /\ S[G[i].of].payment = p
  <2>1. S[i] = R[i]
    BY <1>3 DEF SameFor
  <2>2. G[i] = F[i] /\ F[i].of \in Ids \cup {NoId}
    BY <1>3, <2>1 DEF Keeps, Registered
  <2>3. /\ F[i].of # NoId /\ R[F[i].of].refund = i
        /\ R[F[i].of].state = "saved" /\ R[F[i].of].payment = p
    BY <1>3, <2>1 DEF PaymentOK
  <2> QED BY <2>2, <2>3 DEF SameFor
<1> QED BY <1>1, <1>2, <1>3 DEF PaymentOK

\* A step of one call that writes no committed row but of its own payment.
LEMMA LedgerStep ==
    ASSUME IInv, Ledger, NEW w \in Workers, job[w] # NoJob,
           overlap' = overlap, Keeps(ofd, ofd'),
           \A v \in Workers \ {w} : job'[v] = job[v],
           job'[w] # NoJob =>
               /\ job'[w].payment = job[w].payment /\ CallOK(job'[w], rows', ofd')
               /\ job[w].payment \notin overlap => Fresh(job'[w], rows'),
           Linked(rows', ofd'), SavedStay(rows, rows'),
           \A q \in Receivers \ {job[w].payment} : SameFor(q, rows, rows'),
           job[w].payment \notin overlap => PaymentOK(job[w].payment, rows', ofd'),
           \A v \in Workers \ {w} : job[v] # NoJob => \A i \in job[v].made : rows'[i] = rows[i],
           \A i \in Ids : rows'[i].state = "open" =>
               \/ job'[w] # NoJob /\ i \in job'[w].made
               \/ rows[i].state = "open" /\ i \notin job[w].made
    PROVE  Ledger'
<1>1. \A i \in Ids : rows[i].state = "saved" => ofd[i].state = "answered"
  BY DEF IInv, RowsOK, RowOK, Settled
<1>2. ASSUME NEW v \in Workers \ {w}, job[v] # NoJob
      PROVE  /\ job'[v] = job[v] /\ job[v] \in Job /\ JobOK(job[v], rows, ofd) /\ CallOK(job[v], rows, ofd)
             /\ job[v].payment \in Receivers
             /\ CallOK(job'[v], rows', ofd')
             /\ job[v].payment \notin overlap => Fresh(job'[v], rows')
  <2>1. job'[v] = job[v] /\ job[v] \in Job /\ JobOK(job[v], rows, ofd) /\ CallOK(job[v], rows, ofd)
    BY <1>2 DEF IInv, TypeOK, JobsOK, Ledger, CallsOK
  <2>2. job[v].payment \in Receivers
    BY <2>1 DEF Receivers, Job
  <2>3. CallOK(job'[v], rows', ofd')
    BY <1>2, <2>1, CallStays
  <2>4. ASSUME job[v].payment \notin overlap
        PROVE  Fresh(job'[v], rows')
    <3>1. Fresh(job[v], rows)
      BY <1>2, <2>4 DEF Ledger, FreshCalls
    <3>2. job[v].payment # job[w].payment
      BY <1>2, <2>4 DEF Ledger, Alone
    <3>3. SameFor(job[v].payment, rows, rows')
      BY <2>2, <3>2
    <3> QED BY <1>2, <2>1, <3>1, <3>3, FreshStays
  <2> QED BY <2>1, <2>2, <2>3, <2>4
<1>3. CallsOK' /\ FreshCalls'
  BY <1>2 DEF CallsOK, FreshCalls
<1>4. Alone'
  <2>1. \A v \in Workers : job'[v] # NoJob => job[v] # NoJob /\ job'[v].payment = job[v].payment
    OBVIOUS
  <2> QED BY <2>1 DEF Ledger, Alone
<1>5. TablesOK'
  <2>1. ASSUME NEW q \in Receivers \ overlap, q # job[w].payment
        PROVE  PaymentOK(q, rows', ofd')
    <3>1. PaymentOK(q, rows, ofd) /\ ofd \in [Ids -> Registered]
      BY <2>1 DEF Ledger, TablesOK, IInv, TypeOK
    <3>2. SameFor(q, rows, rows')
      BY <2>1
    <3> QED BY <1>1, <3>1, <3>2, PaymentStays
  <2> QED BY <2>1 DEF TablesOK
<1>6. OpenOwned'
  <2>1. ASSUME NEW i \in Ids, rows'[i].state = "open"
        PROVE  \E v \in Workers : job'[v] # NoJob /\ i \in job'[v].made
    <3>1. CASE job'[w] # NoJob /\ i \in job'[w].made
      BY <3>1
    <3>2. CASE rows[i].state = "open" /\ i \notin job[w].made
      <4>1. PICK v \in Workers : job[v] # NoJob /\ i \in job[v].made
        BY <3>2 DEF Ledger, OpenOwned
      <4> QED BY <1>2, <3>2, <4>1
    <3> QED BY <2>1, <3>1, <3>2
  <2> QED BY <2>1 DEF OpenOwned
<1> QED BY <1>3, <1>4, <1>5, <1>6 DEF Ledger

\* A step that writes no committed row.
LEMMA QuietLedger ==
    ASSUME IInv, Ledger, NEW w \in Workers, job[w] # NoJob,
           overlap' = overlap, Keeps(ofd, ofd'),
           \A v \in Workers \ {w} : job'[v] = job[v],
           job'[w] # NoJob =>
               /\ job'[w].payment = job[w].payment /\ CallOK(job'[w], rows', ofd')
               /\ job[w].payment \notin overlap => Fresh(job'[w], rows'),
           \A i \in Ids : \/ rows'[i] = rows[i]
                          \/ /\ rows[i].state # "saved" /\ rows'[i].state # "saved"
                             /\ rows'[i].refund = NoId
                             /\ \A v \in Workers \ {w} : job[v] # NoJob => i \notin job[v].made,
           \A i \in Ids : rows'[i].state = "open" =>
               \/ job'[w] # NoJob /\ i \in job'[w].made
               \/ rows[i].state = "open" /\ i \notin job[w].made
    PROVE  Ledger'
<1>1. SavedStay(rows, rows') /\ \A q : SameFor(q, rows, rows')
  BY DEF SavedStay, SameFor
<1>2. Linked(rows', ofd')
  <2>1. ASSUME NEW i \in Ids, rows'[i].refund # NoId
        PROVE  /\ rows'[i].state = "saved" /\ ofd'[rows'[i].refund].state # "none"
               /\ ofd'[rows'[i].refund].type = "REFUND" /\ ofd'[rows'[i].refund].of = i
    <3>1. rows'[i] = rows[i] /\ rows[i].refund \in Ids
      BY <2>1 DEF IInv, TypeOK, Row
    <3> QED BY <2>1, <3>1 DEF Ledger, Linked, Keeps
  <2> QED BY <2>1 DEF Linked
<1>3. job[w].payment \notin overlap => PaymentOK(job[w].payment, rows', ofd')
  <2>1. \A i \in Ids : rows[i].state = "saved" => ofd[i].state = "answered"
    BY DEF IInv, RowsOK, RowOK, Settled
  <2>2. job[w].payment \in Receivers /\ ofd \in [Ids -> Registered]
    BY DEF IInv, TypeOK, Job, Receivers
  <2> QED BY <1>1, <2>1, <2>2, PaymentStays DEF Ledger, TablesOK
<1>4. \A v \in Workers \ {w} : job[v] # NoJob => \A i \in job[v].made : rows'[i] = rows[i]
  BY DEF IInv, TypeOK, Job
<1> QED BY <1>1, <1>2, <1>3, <1>4, LedgerStep

LEMMA CallLedger ==
    ASSUME IInv, Ledger, NEW w \in Workers, NEW kind \in Kinds, NEW type \in Types, NEW p \in Payments,
           NEW target \in Ids \cup {NoId}, kind = "close" => type = "SALE",
           type = "REFUND" => kind = "refund" /\ target \in Ids /\ rows[target].state = "saved",
           Call(w, kind, type, p, target)
    PROVE  Ledger'
<1> DEFINE new == [kind |-> kind, payment |-> p, cert |-> Active, stage |-> "called",
                   type |-> type, target |-> target,
                   refunded |-> target # NoId /\ rows[target].refund # NoId,
                   last |-> NoId, after |-> {}, number |-> 0, contract |-> NoId,
                   id |-> NoId, made |-> {}, locks |-> {}]
<1>1. /\ job[w] = NoJob /\ job' = [job EXCEPT ![w] = new] /\ UNCHANGED <<rows, ofd>>
      /\ overlap' = IF Busy(p) THEN overlap \cup {p} ELSE overlap
  BY DEF Call
<1>2. CallOK(new, rows, ofd)
  BY DEF CallOK
<1>3. Fresh(new, rows)
  <2>1. ~ Sells(new, rows)
    BY DEF Sells
  <2>2. type = "REFUND" /\ ~ new.refunded => rows[target].refund = NoId
    BY Numbering
  <2> QED BY <2>1, <2>2 DEF Fresh
<1>4. new.payment = p
  OBVIOUS
<1> HIDE DEF new
<1>5. job'[w] = new /\ \A v \in Workers \ {w} : job'[v] = job[v]
  BY <1>1 DEF IInv, TypeOK
<1>6. overlap \subseteq overlap'
  BY <1>1
<1>7. Linked(rows', ofd')
  BY <1>1 DEF Ledger
<1>8. OpenOwned'
  <2>1. ASSUME NEW i \in Ids, rows'[i].state = "open"
        PROVE  \E v \in Workers : job'[v] # NoJob /\ i \in job'[v].made
    <3>1. PICK v \in Workers : job[v] # NoJob /\ i \in job[v].made
      BY <1>1, <2>1 DEF Ledger, OpenOwned
    <3> QED BY <1>1, <1>5, <3>1
  <2> QED BY <2>1 DEF OpenOwned
<1>9. CallsOK'
  BY <1>1, <1>2, <1>5 DEF Ledger, CallsOK
<1>10. Alone'
  <2>1. ASSUME NEW v \in Workers \ {w}, job[v] # NoJob, job[v].payment = p
        PROVE  p \in overlap'
    BY <1>1, <2>1 DEF Busy
  <2> QED BY <1>4, <1>5, <1>6, <2>1 DEF Ledger, Alone
<1>11. FreshCalls'
  BY <1>1, <1>3, <1>5, <1>6 DEF Ledger, FreshCalls
<1>12. TablesOK'
  BY <1>1, <1>6 DEF Ledger, TablesOK
<1> QED BY <1>7, <1>8, <1>9, <1>10, <1>11, <1>12 DEF Ledger

LEMMA BeginLedger ==
    ASSUME IInv, Ledger, NEW w \in Workers, Begin(w)
    PROVE  Ledger'
<1>1. PICK p \in Payments :
        \/ Close(w, p) \/ CreateReceipts(w, p) \/ CallPrepayment(w, p) \/ CallCredit(w, p)
        \/ \E i \in Ids : CallRefund(w, p, i)
  BY DEF Begin
<1>2. PICK kind \in Kinds, type \in Types, target \in Ids \cup {NoId} :
        /\ kind = "close" => type = "SALE"
        /\ type = "REFUND" => kind = "refund" /\ target \in Ids /\ rows[target].state = "saved"
        /\ Call(w, kind, type, p, target)
  <2>1. Kinds = {"close", "sale", "refund", "prepay", "credit"} /\ Types = {"SALE", "REFUND", "CREDIT", "PREPAYMENT"}
    BY DEF Kinds, Types
  <2> QED BY <1>1, <2>1 DEF Close, CreateReceipts, CallPrepayment, CallCredit, CallRefund
<1> QED BY <1>2, CallLedger

\* A step that rolls back the rows of a call, which is over or has ended.
LEMMA BlankLedger ==
    ASSUME IInv, Ledger, NEW w \in Workers, job[w] # NoJob, overlap' = overlap, Keeps(ofd, ofd'),
           job' = [job EXCEPT ![w] = job'[w]],
           job'[w] # NoJob => job'[w] = GivenUp(job[w]),
           rows' = [i \in Ids |-> IF i \in job[w].made THEN Blank ELSE rows[i]]
    PROVE  Ledger'
<1>1. job[w] \in Job /\ JobOK(job[w], rows, ofd)
  BY DEF IInv, TypeOK, JobsOK
<1>2. \A v \in Workers \ {w} : job'[v] = job[v]
  BY DEF IInv, TypeOK
<1>3. ASSUME job'[w] # NoJob
      PROVE  /\ job'[w].payment = job[w].payment /\ CallOK(job'[w], rows', ofd')
             /\ Fresh(job'[w], rows')
  <2>1. /\ job[w].kind = "close" /\ job'[w].payment = job[w].payment /\ job'[w].type = job[w].type
        /\ job'[w].stage = "over" /\ job'[w].made = {} /\ job'[w].kind = "close"
    BY <1>1, <1>3 DEF GivenUp, Job
  <2>2. job[w].type = "SALE"
    BY <2>1 DEF Ledger, CallsOK, CallOK
  <2> QED BY <2>1, <2>2 DEF CallOK, Fresh, Sells
<1>4. \A i \in job[w].made : rows[i].state = "open"
  BY <1>1 DEF JobOK
<1>5. \A i \in job[w].made : \A v \in Workers \ {w} : job[v] # NoJob => i \notin job[v].made
  BY OthersApart
<1>6. Blank.state = "none" /\ Blank.refund = NoId
  BY DEF Blank
<1>7. \A i \in Ids : rows'[i] = IF i \in job[w].made THEN Blank ELSE rows[i]
  OBVIOUS
<1>8. \A i \in Ids : \/ rows'[i] = rows[i]
                     \/ /\ rows[i].state # "saved" /\ rows'[i].state # "saved"
                        /\ rows'[i].refund = NoId
                        /\ \A v \in Workers \ {w} : job[v] # NoJob => i \notin job[v].made
  BY <1>4, <1>5, <1>6, <1>7
<1>9. \A i \in Ids : rows'[i].state = "open" => rows[i].state = "open" /\ i \notin job[w].made
  BY <1>6, <1>7
<1> QED BY <1>2, <1>3, <1>8, <1>9, QuietLedger

\* A step of a call that writes no row.
LEMMA SameRowsLedger ==
    ASSUME IInv, Ledger, NEW w \in Workers, job[w] # NoJob, NEW new \in Job, job' = [job EXCEPT ![w] = new],
           overlap' = overlap, rows' = rows, Keeps(ofd, ofd'),
           new.payment = job[w].payment, new.made = job[w].made,
           CallOK(new, rows, ofd'),
           job[w].payment \notin overlap => Fresh(new, rows)
    PROVE  Ledger'
<1>1. job'[w] = new /\ new # NoJob /\ \A v \in Workers \ {w} : job'[v] = job[v]
  BY SentinelAssumption DEF IInv, TypeOK
<1>2. \A i \in Ids : rows'[i].state = "open" =>
         i \in job'[w].made \/ (rows[i].state = "open" /\ i \notin job[w].made)
  BY <1>1
<1>3. /\ job'[w].payment = job[w].payment /\ CallOK(job'[w], rows', ofd')
      /\ job[w].payment \notin overlap => Fresh(job'[w], rows')
  BY <1>1
<1>4. \A i \in Ids : rows'[i] = rows[i]
  OBVIOUS
<1> QED BY <1>1, <1>2, <1>3, <1>4, QuietLedger

Checked(j, contract) == [j EXCEPT !.stage = "checked", !.contract = contract]

\* What each check has found when the method goes on.
LEMMA CheckFinds ==
    ASSUME TypeOK, JobsOK, NEW w \in Workers,
           SaleCheck(w) \/ RefundCheck(w) \/ PrepaymentCheck(w) \/ CreditCheck(w)
    PROVE  \/ Refuse(w)
           \/ \E contract \in 0..OwnContract :
                /\ Proceed(w, contract)
                /\ job[w].type = "SALE" => StandingIn(rows, job[w].payment, "SALE") = {}
                /\ job[w].type = "REFUND" =>
                     ~job[w].refunded /\ rows[job[w].target].payment = job[w].payment
                /\ job[w].type = "PREPAYMENT" =>
                     LET prepaid == StandingIn(rows, job[w].payment, "PREPAYMENT")
                     IN  prepaid = {} \/ \E i \in prepaid : contract = rows[i].contract
           \/ /\ job[w].type = "CREDIT" /\ job' = [job EXCEPT ![w].type = "SALE"]
              /\ UNCHANGED <<version, payments, rows, nextId, ofd, calls, overlap, lost>>
<1>1. \A i \in Ids : rows[i].contract \in 0..OwnContract
  BY Numbering DEF TypeOK, Row
<1>2. NoId \in 0..OwnContract /\ OwnContract \in 0..OwnContract
  BY Numbering DEF NoId
<1>3. \A type : Standing(job[w].payment, type) = StandingIn(rows, job[w].payment, type)
  BY DEF Standing, Of, StandingIn
<1>4. CASE SaleCheck(w)
  <2>1. job[w].type = "SALE"
    BY <1>4 DEF SaleCheck, At
  <2>2. CASE ~ Refuse(w)
    <3>1. StandingIn(rows, job[w].payment, "SALE") = {}
      BY <1>3, <1>4, <2>2 DEF SaleCheck
    <3>2. \E contract \in 0..OwnContract : Proceed(w, contract)
      BY <1>1, <1>2, <1>4, <2>2 DEF SaleCheck, Of
    <3> QED BY <2>1, <3>1, <3>2
  <2> QED BY <2>2
<1>5. CASE RefundCheck(w)
  <2>1. job[w].target \in Ids /\ job[w].type = "REFUND"
    BY <1>5 DEF RefundCheck, At, JobsOK, JobOK
  <2> QED BY <1>1, <1>5, <2>1 DEF RefundCheck
<1>6. CASE PrepaymentCheck(w)
  <2>1. job[w].type = "PREPAYMENT"
    BY <1>6 DEF PrepaymentCheck, At
  <2>2. StandingIn(rows, job[w].payment, "PREPAYMENT") \subseteq Ids
    BY DEF StandingIn
  <2>3. CASE Refuse(w)
    BY <2>3
  <2>4. CASE StandingIn(rows, job[w].payment, "PREPAYMENT") = {} /\ Proceed(w, OwnContract)
    BY <1>2, <2>1, <2>4
  <2>5. ASSUME NEW i \in StandingIn(rows, job[w].payment, "PREPAYMENT"), Proceed(w, rows[i].contract)
        PROVE  \E contract \in 0..OwnContract :
                 /\ Proceed(w, contract)
                 /\ \E k \in StandingIn(rows, job[w].payment, "PREPAYMENT") : contract = rows[k].contract
    <3>1. rows[i].contract \in 0..OwnContract
      BY <1>1, <2>2
    <3> QED BY <2>5, <3>1
  <2>6. \/ Refuse(w)
        \/ StandingIn(rows, job[w].payment, "PREPAYMENT") = {} /\ Proceed(w, OwnContract)
        \/ \E i \in StandingIn(rows, job[w].payment, "PREPAYMENT") : Proceed(w, rows[i].contract)
    BY <1>3, <1>6 DEF PrepaymentCheck
  <2> QED BY <2>1, <2>3, <2>4, <2>5, <2>6
<1>7. CASE CreditCheck(w)
  <2>1. job[w].type = "CREDIT"
    BY <1>7 DEF CreditCheck, At
  <2> QED BY <1>2, <1>7, <2>1 DEF CreditCheck
<1> QED BY <1>4, <1>5, <1>6, <1>7

LEMMA GiveUpLedger ==
    ASSUME IInv, Ledger, NEW w \in Workers, job[w] # NoJob, GiveUp(w), Keeps(ofd, ofd')
    PROVE  Ledger'
<1>1. /\ job' = [job EXCEPT ![w] = GivenUp(job[w])] /\ overlap' = overlap
      /\ rows' = [i \in Ids |-> IF i \in job[w].made THEN Blank ELSE rows[i]]
  BY DEF GiveUp, GivenUp
<1>2. job'[w] = GivenUp(job[w])
  BY <1>1 DEF IInv, TypeOK
<1> QED BY <1>1, <1>2, BlankLedger

LEMMA CheckLedger ==
    ASSUME IInv, Ledger, NEW w \in Workers,
           SaleCheck(w) \/ RefundCheck(w) \/ PrepaymentCheck(w) \/ CreditCheck(w)
    PROVE  Ledger'
<1>1. TypeOK /\ JobsOK
  BY DEF IInv
<1>2. /\ job[w] \in Job /\ job[w] # NoJob /\ job[w].stage = "called"
      /\ JobOK(job[w], rows, ofd) /\ job[w].made = {} /\ CallOK(job[w], rows, ofd)
  BY <1>1, CheckSteps DEF TypeOK, JobsOK, JobOK, Ledger, CallsOK
<1>3. CASE Refuse(w)
  BY <1>2, <1>3, GiveUpLedger DEF Refuse, Keeps
<1>4. ASSUME NEW contract \in 0..OwnContract, Proceed(w, contract),
             job[w].type = "SALE" => StandingIn(rows, job[w].payment, "SALE") = {},
             job[w].type = "REFUND" => ~job[w].refunded /\ rows[job[w].target].payment = job[w].payment,
             job[w].type = "PREPAYMENT" =>
               \/ StandingIn(rows, job[w].payment, "PREPAYMENT") = {}
               \/ \E i \in StandingIn(rows, job[w].payment, "PREPAYMENT") : contract = rows[i].contract
      PROVE  Ledger'
  <2> DEFINE new == Checked(job[w], contract)
  <2>1. /\ new \in Job /\ new.stage = "checked" /\ new.contract = contract /\ new.made = {}
        /\ new.payment = job[w].payment /\ new.type = job[w].type /\ new.kind = job[w].kind
        /\ new.target = job[w].target /\ new.refunded = job[w].refunded
    BY <1>2 DEF Checked, Job, Stages
  <2>2. /\ job' = [job EXCEPT ![w] = new] /\ overlap' = overlap /\ rows' = rows /\ ofd' = ofd
    BY <1>4 DEF Proceed, Checked
  <2> HIDE DEF new
  <2>3. CallOK(new, rows, ofd)
    BY <1>2, <1>4, <2>1 DEF CallOK
  <2>4. ASSUME job[w].payment \notin overlap
        PROVE  Fresh(new, rows)
    <3>1. Fresh(job[w], rows)
      BY <1>2, <2>4 DEF Ledger, FreshCalls
    <3>2. PaymentOK(job[w].payment, rows, ofd)
      BY <1>2, <2>4 DEF Ledger, TablesOK, Receivers, Job
    <3>3. Sells(new, rows) => new.type = "SALE"
      BY <2>1 DEF Sells
    <3>4. new.type = "PREPAYMENT" =>
            \A i \in StandingIn(rows, new.payment, "PREPAYMENT") : rows[i].contract = new.contract
      BY <1>4, <2>1, <3>2 DEF PaymentOK
    <3> QED BY <1>4, <2>1, <3>1, <3>3, <3>4 DEF Fresh
  <2> QED BY <1>2, <2>1, <2>2, <2>3, <2>4, SameRowsLedger DEF Keeps
<1>5. ASSUME job[w].type = "CREDIT", job' = [job EXCEPT ![w].type = "SALE"],
             UNCHANGED <<rows, ofd, overlap>>
      PROVE  Ledger'
  <2> DEFINE new == [job[w] EXCEPT !.type = "SALE"]
  <2>1. /\ new \in Job /\ new.stage = "called" /\ new.made = {} /\ new.payment = job[w].payment
        /\ new.type = "SALE"
    BY <1>2 DEF Job, Types
  <2>2. job' = [job EXCEPT ![w] = new]
    BY <1>5
  <2> HIDE DEF new
  <2>3. CallOK(new, rows, ofd) /\ Fresh(new, rows)
    BY <2>1 DEF CallOK, Fresh, Sells
  <2> QED BY <1>2, <1>5, <2>1, <2>2, <2>3, SameRowsLedger DEF Keeps
<1> QED BY <1>1, <1>3, <1>4, <1>5, CheckFinds

LEMMA LookLedger ==
    ASSUME IInv, Ledger, NEW w \in Workers, Look(w)
    PROVE  Ledger'
<1>1. TypeOK
  BY DEF IInv
<1>2. PICK last \in Ids \cup {NoId}, n \in Nat : job' = [job EXCEPT ![w] = Looked(job[w], last, n)]
  BY <1>1, LookSteps
<1>3. /\ job[w] \in Job /\ job[w] # NoJob /\ job[w].stage = "checked"
      /\ UNCHANGED <<rows, ofd, overlap>> /\ CallOK(job[w], rows, ofd)
  BY <1>1, LookSteps DEF Ledger, CallsOK
<1> DEFINE new == Looked(job[w], last, n)
<1>4. new \in Job
  <2>1. Seen(job[w]) \in SUBSET Ids
    BY DEF Seen
  <2> QED BY <1>3, <2>1 DEF Looked, Job, Stages
<1>5. /\ new.stage = "looked" /\ new.contract = job[w].contract /\ new.made = job[w].made
      /\ new.payment = job[w].payment /\ new.type = job[w].type /\ new.kind = job[w].kind
      /\ new.target = job[w].target /\ new.refunded = job[w].refunded
  BY <1>3 DEF Looked, Job
<1> HIDE DEF new
<1>6. CallOK(new, rows, ofd)
  BY <1>3, <1>5 DEF CallOK
<1>7. ASSUME job[w].payment \notin overlap
      PROVE  Fresh(new, rows)
  <2>1. Fresh(job[w], rows)
    BY <1>3, <1>7 DEF Ledger, FreshCalls
  <2>2. Sells(new, rows) => Sells(job[w], rows)
    BY <1>3, <1>5 DEF Sells
  <2> QED BY <1>3, <1>5, <2>1, <2>2 DEF Fresh
<1>8. job' = [job EXCEPT ![w] = new]
  BY <1>2 DEF new
<1> QED BY <1>3, <1>4, <1>5, <1>6, <1>7, <1>8, SameRowsLedger DEF Keeps

LEMMA InsertLedger ==
    ASSUME IInv, Ledger, NEW w \in Workers, Insert(w)
    PROVE  Ledger'
<1>1. TypeOK
  BY DEF IInv
<1>2. /\ job[w] \in Job /\ job[w] # NoJob /\ job[w].stage = "looked" /\ nextId \in Ids
      /\ rows' = [rows EXCEPT ![nextId] = NewRow(job[w])]
      /\ job' = [job EXCEPT ![w] = Inserted(job[w])]
      /\ UNCHANGED <<ofd, overlap>>
  BY <1>1, InsertSteps
<1>3. JobOK(job[w], rows, ofd) /\ CallOK(job[w], rows, ofd)
  BY <1>2 DEF IInv, JobsOK, Ledger, CallsOK
<1>4. rows[nextId].state = "none"
  BY <1>2, Numbering DEF IInv, RowsOK, RowOK
<1>5. \A v \in Workers : job[v] # NoJob => nextId \notin job[v].made
  BY <1>4 DEF IInv, JobsOK, JobOK
<1>6. rows'[nextId] = NewRow(job[w]) /\ \A i \in Ids \ {nextId} : rows'[i] = rows[i]
  BY <1>1, <1>2 DEF TypeOK
<1> DEFINE new == Inserted(job[w])
           row == NewRow(job[w])
<1>7. new \in Job
  BY <1>1, InsertedType
<1>8. /\ new.stage = "inserted" /\ new.id = nextId /\ new.made = job[w].made \cup {nextId}
      /\ new.payment = job[w].payment /\ new.type = job[w].type /\ new.kind = job[w].kind
      /\ new.target = job[w].target /\ new.refunded = job[w].refunded
  BY <1>2 DEF Inserted, Job
<1>9. /\ row.state = "open" /\ row.type = job[w].type /\ row.payment = job[w].payment
      /\ row.refund = NoId
      /\ job[w].contract # OwnContract => row.contract = job[w].contract
  BY DEF NewRow
<1> HIDE DEF new, row
<1>10. rows'[nextId] = row /\ job'[w] = new /\ \A v \in Workers \ {w} : job'[v] = job[v]
  BY <1>1, <1>2, <1>6 DEF new, row, TypeOK
<1>11. new # NoJob
  BY <1>7, SentinelAssumption
<1>12. CallOK(new, rows', ofd')
  <2>1. \A i \in job[w].made : rows'[i] = rows[i] /\ rows[i].type = "SALE"
    BY <1>2, <1>3, <1>5, <1>6 DEF CallOK, Job
  <2>2. job[w].type # "CREDIT" => job[w].made = {}
    BY <1>2, <1>3 DEF CallOK
  <2>3. job[w].type = "REFUND" =>
          job[w].target \in Ids \ {nextId} /\ rows'[job[w].target] = rows[job[w].target]
    BY <1>3, <1>4, <1>6 DEF CallOK, JobOK
  <2>4. \A i \in new.made :
          /\ rows'[i].payment = new.payment /\ rows'[i].refund = NoId
          /\ rows'[i].type # "SALE" => i = new.id
    BY <1>3, <1>8, <1>9, <1>10, <2>1 DEF CallOK
  <2>5. \A i, k \in new.made : rows'[i].type = "SALE" /\ rows'[k].type = "SALE" => i = k
    BY <1>3, <1>8, <1>9, <1>10, <2>1, <2>2 DEF CallOK
  <2>6. new.type # "CREDIT" => new.made = {new.id}
    BY <1>8, <2>2
  <2>7. new.kind = "close" => new.type = "SALE"
    BY <1>3, <1>8 DEF CallOK
  <2>8. new.type = "REFUND" =>
          /\ new.kind = "refund" /\ rows'[new.target].state = "saved"
          /\ rows'[new.target].payment = new.payment /\ ~new.refunded
    BY <1>2, <1>3, <1>8, <2>3 DEF CallOK
  <2> QED BY <1>8, <2>4, <2>5, <2>6, <2>7, <2>8 DEF CallOK
<1>13. SameFor(new.payment, rows, rows')
  BY <1>4, <1>6, <1>9, <1>10 DEF SameFor
<1>14. ASSUME job[w].payment \notin overlap
       PROVE  Fresh(new, rows')
  <2>1. Fresh(job[w], rows)
    BY <1>2, <1>14 DEF Ledger, FreshCalls
  <2>2. \A type : StandingIn(rows', new.payment, type) = StandingIn(rows, new.payment, type)
    BY <1>13, StandingSame
  <2>3. Sells(new, rows') => Sells(job[w], rows)
    <3>1. \A i \in job[w].made : rows'[i] = rows[i]
      BY <1>2, <1>5, <1>6 DEF Job
    <3> QED BY <1>2, <1>8, <1>9, <1>10, <3>1 DEF Sells
  <2>4. ASSUME new.type = "PREPAYMENT", NEW i \in StandingIn(rows, new.payment, "PREPAYMENT")
        PROVE  rows'[i].contract = rows'[new.id].contract
    <3>1. i \in Ids /\ i # nextId /\ rows'[i] = rows[i]
      BY <1>4, <1>6 DEF StandingIn
    <3>2. rows[i].contract = job[w].contract
      BY <1>2, <1>8, <2>1, <2>4 DEF Fresh
    <3>3. rows[i].contract \in Ids \cup {NoId}
      BY <1>1, <3>1 DEF TypeOK, Row
    <3>4. job[w].contract # OwnContract
      BY <3>2, <3>3, BoundAssumption DEF Ids, NoId, OwnContract
    <3> QED BY <1>8, <1>9, <1>10, <3>1, <3>2, <3>4
  <2>5. new.type = "REFUND" /\ ~new.refunded /\ rows'[new.target].payment = new.payment
          => rows'[new.target].refund = NoId
    <3>1. job[w].type = "REFUND" => job[w].target \in Ids \ {nextId}
      BY <1>3, <1>4 DEF CallOK, JobOK
    <3> QED BY <1>6, <1>8, <2>1, <3>1 DEF Fresh
  <2> QED BY <1>8, <2>1, <2>2, <2>3, <2>4, <2>5 DEF Fresh
<1>15. \A i \in Ids : \/ rows'[i] = rows[i]
                      \/ /\ rows[i].state # "saved" /\ rows'[i].state # "saved"
                         /\ rows'[i].refund = NoId
                         /\ \A v \in Workers \ {w} : job[v] # NoJob => i \notin job[v].made
  BY <1>4, <1>5, <1>6, <1>9, <1>10
<1>16. \A i \in Ids : rows'[i].state = "open" =>
         \/ job'[w] # NoJob /\ i \in job'[w].made
         \/ rows[i].state = "open" /\ i \notin job[w].made
  BY <1>6, <1>8, <1>10, <1>11
<1>17. Keeps(ofd, ofd')
  BY <1>2 DEF Keeps
<1>18. job'[w].payment = job[w].payment
  BY <1>8, <1>10
<1> QED BY <1>2, <1>10, <1>12, <1>14, <1>15, <1>16, <1>17, <1>18, QuietLedger

LEMMA AnswerLedger ==
    ASSUME IInv, Ledger, NEW w \in Workers, Answer(w)
    PROVE  Ledger'
<1>1. PICK n \in Nat : /\ Register(w, n, "answered")
                       /\ job' = [job EXCEPT ![w] = Answered(job[w], n)]
                       /\ UNCHANGED <<version, payments, rows, nextId, calls, overlap, lost>>
  BY AnswerSteps DEF IInv
<1>2. /\ job[w] \in Job /\ job[w] # NoJob /\ job[w].stage = "inserted"
      /\ job[w].id \in job[w].made /\ Keeps(ofd, ofd')
      /\ ofd'[job[w].id] = Entry(job[w], n, "answered")
      /\ CallOK(job[w], rows, ofd)
  BY <1>1, RegisterKeeps DEF Ledger, CallsOK
<1> DEFINE new == Answered(job[w], n)
<1>3. new \in Job
  BY <1>2 DEF Answered, Job, Stages
<1>4. /\ new.stage = "answered" /\ new.id = job[w].id /\ new.made = job[w].made
      /\ new.payment = job[w].payment /\ new.type = job[w].type /\ new.kind = job[w].kind
      /\ new.target = job[w].target /\ new.refunded = job[w].refunded
  BY <1>2 DEF Answered, Job
<1>5. job' = [job EXCEPT ![w] = new] /\ rows' = rows /\ overlap' = overlap
  BY <1>1
<1> HIDE DEF new
<1>6. ofd'[job[w].id].of = job[w].target
  BY <1>2 DEF Entry
<1>7. CallOK(new, rows, ofd')
  BY <1>2, <1>4, <1>6 DEF CallOK
<1>8. ASSUME job[w].payment \notin overlap
      PROVE  Fresh(new, rows)
  <2>1. Fresh(job[w], rows)
    BY <1>2, <1>8 DEF Ledger, FreshCalls
  <2>2. Sells(new, rows) => Sells(job[w], rows)
    BY <1>2, <1>4 DEF Sells
  <2> QED BY <1>2, <1>4, <2>1, <2>2 DEF Fresh
<1> QED BY <1>2, <1>3, <1>4, <1>5, <1>7, <1>8, SameRowsLedger

LEMMA LoseAnswerLedger ==
    ASSUME IInv, Ledger, NEW w \in Workers, LoseAnswer(w)
    PROVE  Ledger'
<1>1. PICK n \in Nat : Register(w, n, "registered")
  BY BoundAssumption DEF LoseAnswer, Numbers
<1>2. job[w] # NoJob /\ Keeps(ofd, ofd')
  BY <1>1, RegisterKeeps
<1> QED BY <1>2, GiveUpLedger DEF LoseAnswer

LEMMA RefuseReceiptLedger ==
    ASSUME IInv, Ledger, NEW w \in Workers, RefuseReceipt(w)
    PROVE  Ledger'
<1>1. job[w] # NoJob /\ GiveUp(w) /\ Keeps(ofd, ofd')
  BY DEF RefuseReceipt, At, Keeps
<1> QED BY <1>1, GiveUpLedger

LEMMA KillLedger ==
    ASSUME IInv, Ledger, NEW w \in Workers, Kill(w)
    PROVE  Ledger'
<1>1. /\ job[w] # NoJob /\ job' = [job EXCEPT ![w] = NoJob] /\ UNCHANGED <<ofd, overlap>>
      /\ rows' = [i \in Ids |-> IF i \in job[w].made THEN Blank ELSE rows[i]]
  BY DEF Kill
<1>2. job'[w] = NoJob
  BY <1>1 DEF IInv, TypeOK
<1>3. Keeps(ofd, ofd')
  BY <1>1 DEF Keeps
<1> QED BY <1>1, <1>2, <1>3, BlankLedger

LEMMA SaveInsideLedger ==
    ASSUME IInv, Ledger, NEW w \in Workers, SaveInClosing(w) \/ SaveInCredit(w)
    PROVE  Ledger'
<1>1. TypeOK
  BY DEF IInv
<1>2. /\ job[w] \in Job /\ job[w] # NoJob /\ job[w].stage = "answered" /\ job[w].type = "SALE"
      /\ rows' = WithAnswer(job[w])
      /\ job' = [job EXCEPT ![w] = Continued(job[w])]
      /\ UNCHANGED <<ofd, overlap>>
  BY <1>1, SaveInsideSteps DEF SaveInClosing, SaveInCredit, At
<1>3. JobOK(job[w], rows, ofd) /\ CallOK(job[w], rows, ofd)
  BY <1>2 DEF IInv, JobsOK, Ledger, CallsOK
<1> DEFINE new == Continued(job[w])
           me  == job[w].id
<1>4. job[w].made = {me} /\ me \in Ids /\ rows[me].state = "open" /\ rows[me].type = "SALE"
  BY <1>2, <1>3 DEF JobOK, CallOK, Job
<1>5. rows'[me] = [rows[me] EXCEPT !.seq = job[w].number] /\ \A i \in Ids \ {me} : rows'[i] = rows[i]
  BY <1>1, <1>2, <1>4 DEF WithAnswer, TypeOK
<1>6. /\ rows'[me].state = "open" /\ rows'[me].type = "SALE" /\ rows'[me].refund = NoId
      /\ rows'[me].payment = job[w].payment
  BY <1>1, <1>3, <1>4, <1>5 DEF TypeOK, Row, CallOK
<1>7. new \in Job /\ new # NoJob
  BY <1>1, ContinuedType, SentinelAssumption
<1>8. /\ new.made = {me} /\ new.payment = job[w].payment
      /\ \/ new.stage = "over" /\ new.type = "SALE"
         \/ new.stage = "checked" /\ new.type = "CREDIT" /\ new.kind # "close"
  BY <1>2, <1>4 DEF Continued, Job
<1> HIDE DEF new
<1>9. job'[w] = new /\ \A v \in Workers \ {w} : job'[v] = job[v]
  BY <1>1, <1>2 DEF new, TypeOK
<1>10. CallOK(new, rows', ofd')
  BY <1>6, <1>8 DEF CallOK
<1>11. ASSUME job[w].payment \notin overlap
       PROVE  Fresh(new, rows')
  <2>1. SameFor(job[w].payment, rows, rows')
    BY <1>4, <1>5, <1>6 DEF SameFor
  <2>2. StandingIn(rows, job[w].payment, "SALE") = {}
    BY <1>2, <1>11 DEF Ledger, FreshCalls, Fresh, Sells
  <2>3. StandingIn(rows', job[w].payment, "SALE") = {}
    BY <2>1, <2>2, StandingSame
  <2> QED BY <1>8, <2>3 DEF Fresh
<1>12. \A v \in Workers \ {w} : job[v] # NoJob => me \notin job[v].made
  BY <1>2, <1>4, OthersApart
<1>13. \A i \in Ids : \/ rows'[i] = rows[i]
                      \/ /\ rows[i].state # "saved" /\ rows'[i].state # "saved"
                         /\ rows'[i].refund = NoId
                         /\ \A v \in Workers \ {w} : job[v] # NoJob => i \notin job[v].made
  BY <1>4, <1>5, <1>6, <1>12
<1>14. \A i \in Ids : rows'[i].state = "open" =>
         \/ job'[w] # NoJob /\ i \in job'[w].made
         \/ rows[i].state = "open" /\ i \notin job[w].made
  BY <1>4, <1>5, <1>7, <1>8, <1>9
<1>15. Keeps(ofd, ofd')
  BY <1>2 DEF Keeps
<1>16. job'[w].payment = job[w].payment
  BY <1>8, <1>9
<1> QED BY <1>2, <1>9, <1>10, <1>11, <1>13, <1>14, <1>15, <1>16, QuietLedger

\* What commits of a row: everything but the answer's number is as it was.
CommitsRow(r, s) ==
    /\ s.state = "saved" /\ s.type = r.type /\ s.payment = r.payment
    /\ s.contract = r.contract /\ s.refund = r.refund

LinksRow(r, s, i) == s = [r EXCEPT !.refund = i]

\* The made rows of a call once they are committed: its payment, and no refund
\* but the one in the making.
MadeRows(w) ==
    \A i \in job[w].made :
        /\ i \in Ids /\ rows[i].state = "open" /\ rows[i].payment = job[w].payment /\ rows[i].refund = NoId
        /\ rows[i].type # "SALE" =>
             job[w].stage \in {"inserted", "answered"} /\ i = job[w].id /\ rows[i].type = job[w].type

LEMMA MadeRowsOK ==
    ASSUME IInv, Ledger, NEW w \in Workers, job[w] # NoJob
    PROVE  MadeRows(w)
<1>1. job[w] \in Job /\ JobOK(job[w], rows, ofd) /\ CallOK(job[w], rows, ofd)
  BY DEF IInv, TypeOK, JobsOK, Ledger, CallsOK
<1>2. job[w].made \subseteq Ids
  BY <1>1 DEF Job
<1> QED BY <1>1, <1>2 DEF MadeRows, JobOK, CallOK

LEMMA CommitLedger ==
    ASSUME IInv, Ledger, NEW w \in Workers, job[w] # NoJob, job[w].type # "REFUND",
           job' = [job EXCEPT ![w] = NoJob], ofd' = ofd, overlap' = overlap,
           \A i \in job[w].made : CommitsRow(rows[i], rows'[i]),
           \A i \in Ids \ job[w].made : rows'[i] = rows[i]
    PROVE  Ledger'
<1> DEFINE p == job[w].payment
<1>1. /\ job[w] \in Job /\ JobOK(job[w], rows, ofd) /\ CallOK(job[w], rows, ofd)
      /\ MadeRows(w) /\ job[w].made \subseteq Ids
  BY MadeRowsOK DEF IInv, TypeOK, JobsOK, Ledger, CallsOK, Job
<1>2. job'[w] = NoJob /\ \A v \in Workers \ {w} : job'[v] = job[v]
  BY DEF IInv, TypeOK
<1>3. \A i \in job[w].made :
        /\ rows'[i].state = "saved" /\ rows'[i].type = rows[i].type /\ rows'[i].payment = p
        /\ rows'[i].contract = rows[i].contract /\ rows'[i].refund = NoId
        /\ rows[i].state = "open" /\ rows[i].type # "REFUND"
  BY <1>1 DEF MadeRows, CommitsRow
<1>4. Linked(rows', ofd')
  <2>1. ASSUME NEW i \in Ids, rows'[i].refund # NoId
        PROVE  rows'[i] = rows[i]
    BY <1>3, <2>1
  <2> QED BY <2>1 DEF Ledger, Linked
<1>5. SavedStay(rows, rows')
  BY <1>3 DEF SavedStay
<1>6. \A q \in Receivers \ {p} : SameFor(q, rows, rows')
  <2>1. ASSUME NEW q \in Receivers \ {p}, NEW i \in Ids,
               (rows[i].state = "saved" /\ rows[i].payment = q) \/ (rows'[i].state = "saved" /\ rows'[i].payment = q)
        PROVE  rows'[i] = rows[i]
    BY <1>3, <2>1
  <2> QED BY <2>1 DEF SameFor
<1>7. ASSUME p \notin overlap
      PROVE  PaymentOK(p, rows', ofd')
  <2>1. PaymentOK(p, rows, ofd) /\ Fresh(job[w], rows)
    BY <1>1, <1>7 DEF Ledger, TablesOK, FreshCalls, Receivers, Job
  <2>2. \A type : \A i \in StandingIn(rows', p, type) :
          \/ i \in StandingIn(rows, p, type) /\ rows'[i] = rows[i]
          \/ i \in job[w].made /\ rows[i].type = type
    BY <1>3 DEF StandingIn
  <2>3. ASSUME NEW i \in StandingIn(rows', p, "SALE"), NEW k \in StandingIn(rows', p, "SALE")
        PROVE  i = k
    <3>1. CASE \E m \in job[w].made : rows[m].type = "SALE"
      <4>1. StandingIn(rows, p, "SALE") = {}
        BY <2>1, <3>1 DEF Fresh, Sells
      <4> QED BY <1>1, <2>2, <2>3, <4>1 DEF CallOK
    <3>2. CASE \A m \in job[w].made : rows[m].type # "SALE"
      BY <2>1, <2>2, <2>3, <3>2 DEF PaymentOK
    <3> QED BY <3>1, <3>2
  <2>4. ASSUME NEW i \in StandingIn(rows', p, "PREPAYMENT"), NEW k \in StandingIn(rows', p, "PREPAYMENT")
        PROVE  rows'[i].contract = rows'[k].contract
    <3>1. \A m \in job[w].made : rows[m].type = "PREPAYMENT" =>
            /\ m = job[w].id /\ rows'[m].contract = rows[m].contract
            /\ \A n \in StandingIn(rows, p, "PREPAYMENT") : rows[n].contract = rows[m].contract
      BY <1>1, <1>3, <2>1 DEF MadeRows, Fresh
    <3>2. i \in job[w].made \/ rows'[i] = rows[i]
      BY <2>2, <2>4
    <3>3. k \in job[w].made \/ rows'[k] = rows[k]
      BY <2>2, <2>4
    <3> QED BY <2>1, <2>2, <2>4, <3>1, <3>2, <3>3 DEF PaymentOK
  <2>5. ASSUME NEW i \in Ids, rows'[i].state = "saved", rows'[i].type = "REFUND", rows'[i].payment = p
        PROVE  /\ ofd[i].of # NoId /\ rows'[ofd[i].of].refund = i
               /\ rows'[ofd[i].of].state = "saved" /\ rows'[ofd[i].of].payment = p
    <3>1. rows'[i] = rows[i]
      BY <1>3, <2>5
    <3>2. /\ ofd[i].of # NoId /\ rows[ofd[i].of].refund = i
          /\ rows[ofd[i].of].state = "saved" /\ rows[ofd[i].of].payment = p
      BY <2>1, <2>5, <3>1 DEF PaymentOK
    <3>3. ofd[i].of \in Ids
      BY <3>2 DEF IInv, TypeOK, Registered
    <3>4. rows'[ofd[i].of] = rows[ofd[i].of]
      BY <1>3, <3>2, <3>3
    <3> QED BY <3>2, <3>4
  <2> QED BY <2>3, <2>4, <2>5 DEF PaymentOK
<1>8. \A v \in Workers \ {w} : job[v] # NoJob => \A i \in job[v].made : rows'[i] = rows[i]
  BY OthersApart
<1>9. \A i \in Ids : rows'[i].state = "open" => rows[i].state = "open" /\ i \notin job[w].made
  BY <1>3
<1>10. Keeps(ofd, ofd')
  BY DEF Keeps
<1> QED BY <1>2, <1>4, <1>5, <1>6, <1>7, <1>8, <1>9, <1>10, LedgerStep

\* A refund commits: its own row, and the link in the row it refunds.
LEMMA RefundLedger ==
    ASSUME IInv, Ledger, NEW w \in Workers, job[w] # NoJob, job[w].type = "REFUND",
           job[w].stage = "answered",
           job' = [job EXCEPT ![w] = NoJob], ofd' = ofd, overlap' = overlap,
           CommitsRow(rows[job[w].id], rows'[job[w].id]),
           LinksRow(rows[job[w].target], rows'[job[w].target], job[w].id),
           \A i \in Ids \ {job[w].id, job[w].target} : rows'[i] = rows[i]
    PROVE  Ledger'
<1> DEFINE p  == job[w].payment
           me == job[w].id
           to == job[w].target
<1>1. /\ job[w] \in Job /\ JobOK(job[w], rows, ofd) /\ CallOK(job[w], rows, ofd) /\ MadeRows(w)
  BY MadeRowsOK DEF IInv, TypeOK, JobsOK, Ledger, CallsOK
<1>2. job'[w] = NoJob /\ \A v \in Workers \ {w} : job'[v] = job[v]
  BY DEF IInv, TypeOK
<1>3. /\ job[w].made = {me} /\ me \in Ids /\ to \in Ids
      /\ rows[to].state = "saved" /\ rows[to].payment = p /\ ~job[w].refunded
      /\ rows[me].state = "open" /\ rows[me].type = "REFUND" /\ rows[me].payment = p /\ rows[me].refund = NoId
      /\ ofd[me].state = "answered" /\ ofd[me].type = "REFUND" /\ ofd[me].of = to
  BY <1>1 DEF JobOK, CallOK, MadeRows, Job
<1>4. me # to
  BY <1>3
<1>5. /\ rows'[me].state = "saved" /\ rows'[me].type = "REFUND" /\ rows'[me].payment = p
      /\ rows'[me].refund = NoId
  BY <1>3 DEF CommitsRow
<1>6. /\ rows'[to].state = "saved" /\ rows'[to].type = rows[to].type /\ rows'[to].payment = p
      /\ rows'[to].contract = rows[to].contract /\ rows'[to].refund = me
  BY <1>3 DEF LinksRow, IInv, TypeOK, Row
<1>7. Linked(rows', ofd')
  <2>1. ASSUME NEW i \in Ids, rows'[i].refund # NoId, i # to
        PROVE  rows'[i] = rows[i]
    BY <1>5, <2>1
  <2> QED BY <1>3, <1>6, <2>1 DEF Ledger, Linked
<1>8. SavedStay(rows, rows')
  BY <1>3, <1>6 DEF SavedStay
<1>9. \A q \in Receivers \ {p} : SameFor(q, rows, rows')
  <2>1. ASSUME NEW q \in Receivers \ {p}, NEW i \in Ids,
               (rows[i].state = "saved" /\ rows[i].payment = q) \/ (rows'[i].state = "saved" /\ rows'[i].payment = q)
        PROVE  rows'[i] = rows[i]
    BY <1>3, <1>5, <1>6, <2>1
  <2> QED BY <2>1 DEF SameFor
<1>10. ASSUME p \notin overlap
       PROVE  PaymentOK(p, rows', ofd')
  <2>1. PaymentOK(p, rows, ofd) /\ Fresh(job[w], rows)
    BY <1>1, <1>10 DEF Ledger, TablesOK, FreshCalls, Receivers, Job
  <2>2. rows[to].refund = NoId
    BY <1>3, <2>1 DEF Fresh
  <2>3. \A type \in {"SALE", "PREPAYMENT"} : \A i \in StandingIn(rows', p, type) :
          i \in StandingIn(rows, p, type) /\ rows'[i] = rows[i]
    BY <1>3, <1>5, <1>6, Numbering DEF StandingIn
  <2>4. ASSUME NEW i \in Ids, rows'[i].state = "saved", rows'[i].type = "REFUND", rows'[i].payment = p
        PROVE  /\ ofd[i].of # NoId /\ rows'[ofd[i].of].refund = i
               /\ rows'[ofd[i].of].state = "saved" /\ rows'[ofd[i].of].payment = p
    <3>1. CASE i = me
      BY <1>3, <1>6, <3>1, Numbering
    <3>2. CASE i # me
      <4>1. rows[i].state = "saved" /\ rows[i].type = "REFUND" /\ rows[i].payment = p
        BY <1>3, <1>6, <2>4, <3>2
      <4>2. /\ ofd[i].of # NoId /\ rows[ofd[i].of].refund = i
            /\ rows[ofd[i].of].state = "saved" /\ rows[ofd[i].of].payment = p
        BY <2>1, <4>1 DEF PaymentOK
      <4>3. ofd[i].of \in Ids \ {me, to}
        BY <1>3, <2>2, <4>2, Numbering DEF IInv, TypeOK, Registered
      <4> QED BY <4>2, <4>3
    <3> QED BY <3>1, <3>2
  <2> QED BY <2>1, <2>3, <2>4 DEF PaymentOK
<1>11. \A v \in Workers \ {w} : job[v] # NoJob => \A i \in job[v].made : rows'[i] = rows[i]
  <2>1. ASSUME NEW v \in Workers \ {w}, job[v] # NoJob, NEW i \in job[v].made
        PROVE  i \in Ids \ {me, to}
    <3>1. i \in Ids /\ i # me
      BY <1>3, <2>1, OthersApart
    <3>2. rows[i].state = "open"
      BY <2>1 DEF IInv, JobsOK, JobOK
    <3> QED BY <1>3, <3>1, <3>2
  <2> QED BY <2>1
<1>12. \A i \in Ids : rows'[i].state = "open" => rows[i].state = "open" /\ i \notin job[w].made
  BY <1>3, <1>5, <1>6
<1>13. Keeps(ofd, ofd')
  BY DEF Keeps
<1> QED BY <1>2, <1>7, <1>8, <1>9, <1>10, <1>11, <1>12, <1>13, LedgerStep

LEMMA CommitsLedger ==
    ASSUME IInv, Ledger, NEW w \in Workers, Save(w) \/ SaveRefund(w) \/ CommitClosing(w)
    PROVE  Ledger'
<1>1. TypeOK /\ JobsOK /\ rows \in [Ids -> Row]
  BY DEF IInv, TypeOK
<1>2. job[w] \in Job /\ job[w] # NoJob
  BY <1>1, CommitSteps
<1>3. /\ JobOK(job[w], rows, ofd) /\ CallOK(job[w], rows, ofd)
      /\ job[w].made \subseteq Ids
  BY <1>2 DEF IInv, JobsOK, Ledger, CallsOK, Job
<1>4. \A r \in Row : \A n : CommitsRow(r, [[r EXCEPT !.seq = n] EXCEPT !.state = "saved"])
  BY DEF CommitsRow, Row
<1>5. \A r \in Row : CommitsRow(r, [r EXCEPT !.state = "saved"])
  BY DEF CommitsRow, Row
<1>6. CASE CommitClosing(w)
  <2>1. /\ job[w].type # "REFUND" /\ job' = [job EXCEPT ![w] = NoJob] /\ UNCHANGED <<ofd, overlap>>
        /\ rows' = [i \in Ids |-> IF i \in job[w].made THEN [rows[i] EXCEPT !.state = "saved"] ELSE rows[i]]
    BY <1>6 DEF CommitClosing, Commit, At
  <2>2. \A i \in job[w].made : CommitsRow(rows[i], rows'[i])
    BY <1>1, <1>3, <1>5, <2>1
  <2>3. \A i \in Ids \ job[w].made : rows'[i] = rows[i]
    BY <2>1
  <2> QED BY <1>2, <2>1, <2>2, <2>3, CommitLedger
<1>7. CASE Save(w) \/ SaveRefund(w)
  <2> DEFINE T  == WithAnswer(job[w])
             me == job[w].id
  <2>1. job[w].stage = "answered" /\ me \in job[w].made /\ me \in Ids
    BY <1>3, <1>7 DEF Save, SaveRefund, At, JobOK
  <2>2. T[me] = [rows[me] EXCEPT !.seq = job[w].number] /\ \A i \in Ids \ {me} : T[i] = rows[i]
    BY <1>1, <2>1 DEF WithAnswer
  <2> HIDE DEF T
  <2>3. \A i \in job[w].made : CommitsRow(rows[i], [T[i] EXCEPT !.state = "saved"])
    <3>1. CommitsRow(rows[me], [T[me] EXCEPT !.state = "saved"])
      BY <1>1, <1>4, <2>1, <2>2
    <3>2. ASSUME NEW i \in job[w].made, i # me
          PROVE  CommitsRow(rows[i], [T[i] EXCEPT !.state = "saved"])
      BY <1>1, <1>3, <1>5, <2>2, <3>2
    <3> QED BY <3>1, <3>2
  <2>4. CASE Save(w)
    <3>1. /\ job[w].type # "REFUND" /\ job' = [job EXCEPT ![w] = NoJob] /\ UNCHANGED <<ofd, overlap>>
          /\ rows' = [i \in Ids |-> IF i \in job[w].made THEN [T[i] EXCEPT !.state = "saved"] ELSE T[i]]
      BY <2>4 DEF Save, Commit, At, T
    <3>2. \A i \in job[w].made : CommitsRow(rows[i], rows'[i])
      BY <1>3, <2>3, <3>1
    <3>3. \A i \in Ids \ job[w].made : rows'[i] = rows[i]
      BY <2>1, <2>2, <3>1
    <3> QED BY <1>2, <3>1, <3>2, <3>3, CommitLedger
  <2>5. CASE SaveRefund(w)
    <3> DEFINE U  == [T EXCEPT ![job[w].target].refund = me]
               to == job[w].target
    <3>1. /\ job[w].type = "REFUND" /\ job' = [job EXCEPT ![w] = NoJob] /\ UNCHANGED <<ofd, overlap>>
          /\ rows' = [i \in Ids |-> IF i \in job[w].made THEN [U[i] EXCEPT !.state = "saved"] ELSE U[i]]
      BY <2>5 DEF SaveRefund, Commit, At, T
    <3>2. job[w].made = {me} /\ to \in Ids /\ to # me
      BY <1>3, <2>1, <3>1 DEF CallOK, JobOK
    <3>3. T \in [Ids -> Row]
      BY <1>1, <1>2, WithAnswerType DEF T
    <3>4. U[to] = [T[to] EXCEPT !.refund = me] /\ \A i \in Ids \ {to} : U[i] = T[i]
      BY <3>2, <3>3
    <3> HIDE DEF U
    <3>5. CommitsRow(rows[me], rows'[me])
      BY <2>1, <2>3, <3>1, <3>2, <3>4
    <3>6. LinksRow(rows[to], rows'[to], me)
      BY <2>2, <3>1, <3>2, <3>4 DEF LinksRow
    <3>7. \A i \in Ids \ {me, to} : rows'[i] = rows[i]
      BY <2>2, <3>1, <3>2, <3>4
    <3> QED BY <1>2, <2>1, <3>1, <3>5, <3>6, <3>7, RefundLedger
  <2> QED BY <1>7, <2>4, <2>5
<1> QED BY <1>6, <1>7

LEMMA InitLedger == Init => Ledger
<1> SUFFICES ASSUME Init PROVE Ledger
  OBVIOUS
<1>1. \A w \in Workers : job[w] = NoJob
  BY DEF Init
<1>2. \A i \in Ids : rows[i].state = "none" /\ rows[i].refund = NoId
  BY DEF Init, Blank
<1> QED BY <1>1, <1>2 DEF Ledger, Linked, OpenOwned, CallsOK, Alone, FreshCalls, TablesOK,
                          PaymentOK, StandingIn

LEMMA NextLedger ==
    ASSUME IInv, Ledger, [Next]_vars
    PROVE  Ledger'
<1>1. CASE UNCHANGED <<rows, ofd, job, overlap>>
  BY <1>1 DEF Ledger, OpenOwned, CallsOK, Alone, FreshCalls, TablesOK
<1>2. ASSUME NEW w \in Workers, Step(w)
      PROVE  Ledger'
  BY <1>2, CheckLedger, LookLedger, InsertLedger, AnswerLedger, LoseAnswerLedger,
     RefuseReceiptLedger, SaveInsideLedger, CommitsLedger, KillLedger DEF Step
<1> QED BY <1>1, <1>2, BeginLedger DEF Next, vars, SaveCertificate

\* While calls for a payment do not overlap, its committed rows stay as the
\* methods check them: one sale, one contract, every refund linked.
THEOREM LedgerKept == Spec => []Ledger
<1>1. Init => IInv /\ Ledger
  BY InitInv, InitLedger
<1>2. IInv /\ Ledger /\ [Next]_vars => IInv' /\ Ledger'
  BY NextInv, NextLedger
<1> QED BY <1>1, <1>2, PTL DEF Spec

\* A registered receipt that is not forgotten is the row it was registered for.
LEMMA RegisteredRow ==
    ASSUME IInv, NEW i \in Ids, ofd[i].state # "none", i \notin Forgotten
    PROVE  \/ rows[i].state = "saved" /\ Settled(i, rows, ofd)
           \/ /\ rows[i].state = "open"
              /\ \A w \in Workers : job[w] # NoJob /\ i \in job[w].made =>
                   rows[i].type = ofd[i].type /\ rows[i].payment = ofd[i].payment
<1>1. RowOK(i, rows, ofd, nextId, Forgotten) /\ rows[i] \in Row
  BY DEF IInv, RowsOK, TypeOK
<1>2. rows[i].state = "saved" \/ rows[i].state = "open"
  BY <1>1 DEF RowOK, Row
<1>3. ASSUME NEW w \in Workers, job[w] # NoJob, i \in job[w].made
      PROVE  rows[i].type = ofd[i].type /\ rows[i].payment = ofd[i].payment
  BY <1>3 DEF IInv, JobsOK, JobOK, Settled
<1> QED BY <1>1, <1>2, <1>3 DEF RowOK

\* The OFD registers one sale of a payment whose calls did not overlap and lost
\* nothing, or a further one after a refund: the checks of create_sale_receipt and
\* create_credit_receipt are made before the request, and still hold when it goes out.
THEOREM OneSale == Spec => []SoldOnce
<1>1. ASSUME IInv, Ledger, NEW i \in Ids, rows[i].state = "saved", rows[i].refund # NoId
      PROVE  \E r \in Ids : ofd[r].state # "none" /\ ofd[r].type = "REFUND" /\ ofd[r].of = i
  <2>1. rows[i].refund \in Ids
    BY <1>1 DEF IInv, TypeOK, Row
  <2> QED BY <1>1, <2>1 DEF Ledger, Linked
<1>2. ASSUME IInv, Ledger, NEW i \in Ids, NEW w \in Workers, job[w] # NoJob, i \in job[w].made,
             rows[i].type = "SALE", job[w].payment \notin overlap
      PROVE  /\ rows[i].payment = job[w].payment
             /\ StandingIn(rows, job[w].payment, "SALE") = {}
             /\ \A k \in job[w].made : rows[k].type = "SALE" => i = k
  BY <1>2 DEF Ledger, CallsOK, CallOK, FreshCalls, Fresh, Sells
<1>3. ASSUME IInv, Ledger, NEW i \in Ids, NEW k \in Ids, i # k,
             ofd[i].state # "none", ofd[i].type = "SALE", i \notin Forgotten,
             ofd[k].state # "none", ofd[k].type = "SALE", k \notin Forgotten,
             ofd[i].payment = ofd[k].payment, ofd[i].payment \notin overlap,
             rows[i].state = "open"
      PROVE  rows[k].state = "saved" /\ rows[k].refund # NoId
  <2>1. PICK w \in Workers : job[w] # NoJob /\ i \in job[w].made
    BY <1>3 DEF Ledger, OpenOwned
  <2>2. /\ rows[i].type = "SALE" /\ rows[i].payment = ofd[i].payment
        /\ rows[i].payment = job[w].payment
    BY <1>3, <2>1, RegisteredRow DEF Ledger, CallsOK, CallOK
  <2>3. CASE rows[k].state = "saved"
    <3>1. rows[k].type = "SALE" /\ rows[k].payment = job[w].payment
      BY <1>3, <2>2, <2>3, RegisteredRow DEF Settled
    <3>2. k \notin StandingIn(rows, job[w].payment, "SALE")
      BY <1>2, <1>3, <2>1, <2>2
    <3> QED BY <2>3, <3>1, <3>2 DEF StandingIn
  <2>4. CASE rows[k].state = "open"
    <3>1. PICK v \in Workers : job[v] # NoJob /\ k \in job[v].made
      BY <1>3, <2>4 DEF Ledger, OpenOwned
    <3>2. /\ rows[k].type = "SALE" /\ rows[k].payment = ofd[k].payment
          /\ rows[k].payment = job[v].payment
      BY <1>3, <2>4, <3>1, RegisteredRow DEF Ledger, CallsOK, CallOK
    <3>3. v = w
      BY <1>3, <2>1, <2>2, <3>1, <3>2 DEF Ledger, Alone
    <3>4. i = k
      BY <1>2, <1>3, <2>1, <2>2, <3>1, <3>2, <3>3
    <3> QED BY <1>3, <3>4
  <2> QED BY <1>3, <2>3, <2>4, RegisteredRow
<1>4. ASSUME IInv, Ledger, NEW i \in Ids, NEW k \in Ids, i # k,
             ofd[i].state # "none", ofd[i].type = "SALE", i \notin Forgotten,
             ofd[k].state # "none", ofd[k].type = "SALE", k \notin Forgotten,
             ofd[i].payment = ofd[k].payment, ofd[i].payment \notin overlap
      PROVE  \E r \in Ids : ofd[r].state # "none" /\ ofd[r].type = "REFUND" /\ ofd[r].of \in {i, k}
  <2>1. CASE rows[i].state = "open"
    BY <1>1, <1>3, <1>4, <2>1
  <2>2. CASE rows[k].state = "open"
    BY <1>1, <1>3, <1>4, <2>2
  <2>3. CASE rows[i].state = "saved" /\ rows[k].state = "saved"
    <3>1. /\ rows[i].type = "SALE" /\ rows[i].payment = ofd[i].payment
          /\ rows[k].type = "SALE" /\ rows[k].payment = ofd[i].payment
      BY <1>4, <2>3, RegisteredRow DEF Settled
    <3>2. ofd[i].payment \in Receivers
      BY <1>4 DEF IInv, TypeOK, Registered, Receivers
    <3>3. PaymentOK(ofd[i].payment, rows, ofd)
      BY <1>4, <3>2 DEF Ledger, TablesOK
    <3>4. rows[i].refund # NoId \/ rows[k].refund # NoId
      BY <1>4, <2>3, <3>1, <3>3 DEF PaymentOK, StandingIn
    <3> QED BY <1>1, <1>4, <2>3, <3>4
  <2> QED BY <1>4, <2>1, <2>2, <2>3, RegisteredRow
<1>5. IInv /\ Ledger => SoldOnce
  BY <1>4 DEF SoldOnce
<1> QED BY <1>5, Invariance, LedgerKept, PTL

\* A committed refund is linked from the receipt it was registered for, and from
\* no other: create_refund_receipt looks at refund_receipt as it was loaded.
THEOREM RefundsAreLinked == Spec => []RefundsLinked
<1>1. ASSUME IInv, Ledger, NEW i \in Ids, rows[i].state = "saved", rows[i].type = "REFUND",
             rows[i].payment \notin overlap
      PROVE  /\ ofd[i].of # NoId /\ rows[ofd[i].of].refund = i
             /\ rows[ofd[i].of].state = "saved" /\ rows[ofd[i].of].payment = rows[i].payment
  <2>1. rows[i].payment \in Receivers
    BY <1>1 DEF IInv, TypeOK, Row, Receivers
  <2> QED BY <1>1, <2>1 DEF Ledger, TablesOK, PaymentOK
<1>2. IInv /\ Ledger => RefundsLinked
  BY <1>1 DEF RefundsLinked
<1> QED BY <1>2, Invariance, LedgerKept, PTL

\* The standing prepayments of a payment share a contract: create_prepayment_receipt
\* takes that of the last one, and no call of the payment comes in between.
THEOREM ContractsAgree == Spec => []OneContract
<1>1. Ledger => OneContract
  BY DEF Ledger, TablesOK, PaymentOK, Receivers, OneContract, Standing, Of, StandingIn
<1> QED BY <1>1, LedgerKept, PTL

=============================================================================
