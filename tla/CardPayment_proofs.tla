------------------------- MODULE CardPayment_proofs -------------------------
(***************************************************************************)
(* Theorems about CardPayment, for any orders, handlers, totals and number *)
(* of receipts.                                                            *)
(***************************************************************************)
EXTENDS CardPayment, FiniteSetTheorems, TLAPS

JobsOK == /\ job \in [Handlers -> Job \cup {NoJob}]
          /\ \A h \in Handlers : job[h] # NoJob => RequestOK(job[h])

\* Receipts keep their order, and one that was made stays made.
Keeps == \A r \in Receipts : payme[r].state # "none" =>
            payme'[r].order = payme[r].order /\ payme'[r].state # "none"

\* RequestOK of a given request in the next state.
RequestOKNext(j) ==
    /\ j.stage \in StagesOf(j.kind)
    /\ j.stage \in {"created", "locked", "charged", "declined", "pending"} =>
         /\ j.receipt # NoReceipt /\ ~j.row.paid
         /\ payme'[j.receipt].order = j.order /\ payme'[j.receipt].state # "none"
    /\ j.stage = "exists" => ~j.row.paid
    /\ j.stage = "cancelled" => j.row.receipt # NoReceipt
    /\ j.stage \in {"loaded", "refused"} => j.found = NoReceipt

LEMMA RequestStays ==
    ASSUME Keeps, NEW j \in Job, RequestOK(j)
    PROVE  RequestOKNext(j)
<1>1. j.receipt \in Receipts \cup {NoReceipt}
  BY DEF Job
<1> QED BY <1>1 DEF Keeps, RequestOK, RequestOKNext

\* One handler goes on with the request new, or ends it: the others are as well
\* formed as before.
LEMMA StepJobs ==
    ASSUME JobsOK, Keeps, NEW h \in Handlers, NEW new \in Job \cup {NoJob},
           job' = [job EXCEPT ![h] = new],
           new # NoJob => RequestOKNext(new)
    PROVE  JobsOK'
<1>1. job' \in [Handlers -> Job \cup {NoJob}]
  BY DEF JobsOK
<1>2. \A g \in Handlers : job'[g] # NoJob => RequestOKNext(job'[g])
  BY RequestStays DEF JobsOK
<1>3. \A g \in Handlers : (job[g] # NoJob => RequestOK(job[g]))'
  BY <1>2 DEF RequestOK, RequestOKNext
<1> QED BY <1>1, <1>3 DEF JobsOK

LEMMA InitType == Init => TypeOK
<1> SUFFICES ASSUME Init PROVE TypeOK
  OBVIOUS
<1>1. order \in [Orders -> Row]
  <2>1. [status : {"created"}, paid : {FALSE}, receipt : {NoReceipt}, total : Totals] \subseteq Row
    BY DEF Row, Statuses
  <2> QED BY <2>1 DEF Init
<1>2. payme \in [Receipts -> Receipt]
  BY DEF Init, Receipt
<1>3. requests \in 0..MaxRequests /\ payments \in [Orders -> Nat]
  BY BoundAssumption DEF Init
<1>4. job \in [Handlers -> Job \cup {NoJob}] /\ \A h \in Handlers : job[h] = NoJob
  BY DEF Init
<1> QED BY <1>1, <1>2, <1>3, <1>4 DEF Init, TypeOK

LEMMA LoadType ==
    ASSUME TypeOK, NEW h \in Handlers, NEW o \in Orders, NEW kind \in Kinds, NEW t \in Totals,
           Load(h, o, kind, t)
    PROVE  TypeOK'
<1> DEFINE new == [kind |-> kind, order |-> o, stage |-> "loaded", row |-> order[o],
                   receipt |-> NoReceipt, found |-> NoReceipt, total |-> t]
<1>1. new \in Job
  BY DEF TypeOK, Job, Stages
<1>2. RequestOKNext(new)
  BY DEF RequestOKNext, StagesOf, Kinds, Stages
<1>3. Keeps /\ job' = [job EXCEPT ![h] = new]
  BY DEF Load, Keeps
<1>4. JobsOK'
  <2> HIDE DEF new
  <2> QED BY <1>1, <1>2, <1>3, StepJobs DEF TypeOK, JobsOK
<1>5. requests' \in 0..MaxRequests /\ trouble' \subseteq Orders
  BY BoundAssumption DEF Load, TypeOK
<1> QED BY <1>4, <1>5 DEF Load, TypeOK, JobsOK, dbVars

\* The rows the commits write are rows.
LEMMA RowTypes ==
    ASSUME NEW j \in Job
    PROVE  /\ Accepted(j) \in Row /\ Rejected(j) \in Row
           /\ [j.row EXCEPT !.total = j.total] \in Row
           /\ \A s \in Statuses : [j.row EXCEPT !.status = s] \in Row
<1>1. /\ j.row \in Row /\ j.total \in Totals /\ j.receipt \in Receipts \cup {NoReceipt}
  BY DEF Job
<1> QED BY <1>1 DEF Row, Accepted, Rejected, Statuses

LEMMA FinishType ==
    ASSUME TypeOK, NEW h \in Handlers,
           \/ AcceptPaid(h) \/ FindPaid(h) \/ CreateReceipt(h) \/ SaveReceipt(h) \/ Pay(h)
           \/ AcceptCommit(h) \/ ExistsCommit(h) \/ CancelReceipt(h) \/ RejectCommit(h)
           \/ SaveCommit(h) \/ Rollback(h)
    PROVE  TypeOK'
<1> DEFINE j == job[h]
<1>1. j \in Job /\ RequestOK(j)
  <2>1. j # NoJob
    BY DEF At, AcceptPaid, FindPaid, CreateReceipt, SaveReceipt, Pay, AcceptCommit, ExistsCommit,
           CancelReceipt, RejectCommit, SaveCommit, Rollback
  <2> QED BY <2>1 DEF TypeOK
<1>2. /\ j.order \in Orders /\ j.row \in Row /\ j.stage \in Stages /\ j.kind \in Kinds
      /\ j.receipt \in Receipts \cup {NoReceipt} /\ j.found \in Receipts \cup {NoReceipt}
      /\ j.row.receipt \in Receipts \cup {NoReceipt} /\ j.row.total \in Totals
  BY <1>1 DEF Job, Row
<1>3. /\ Accepted(j) \in Row /\ Rejected(j) \in Row
      /\ [j.row EXCEPT !.total = j.total] \in Row
      /\ \A s \in Statuses : [j.row EXCEPT !.status = s] \in Row
  BY <1>1, RowTypes
<1>4. JobsOK
  BY DEF TypeOK, JobsOK
<1> HIDE DEF j
\* A request that ends leaves a well-formed set of requests.
<1>5. ASSUME Keeps, Done(h) PROVE JobsOK'
  BY <1>4, <1>5, StepJobs DEF Done
<1>6. ASSUME UNCHANGED payme PROVE Keeps
  BY <1>6 DEF Keeps
<1>7. CASE AcceptPaid(h)
  <2>1. order' \in [Orders -> Row]
    BY <1>2, <1>3, <1>7 DEF AcceptPaid, Save, TypeOK, Statuses, j
  <2> QED BY <2>1, <1>5, <1>6, <1>7 DEF AcceptPaid, TypeOK, JobsOK
<1>8. CASE FindPaid(h)
  <2>1. [j EXCEPT !.stage = "exists"] \in Job /\ RequestOKNext([j EXCEPT !.stage = "exists"])
    BY <1>1, <1>2, <1>8 DEF FindPaid, At, Payable, Job, Stages, RequestOKNext, StagesOf, j
  <2>2. Keeps /\ job' = [job EXCEPT ![h] = [j EXCEPT !.stage = "exists"]]
    BY <1>6, <1>8 DEF FindPaid, j
  <2>3. JobsOK'
    BY <1>4, <2>1, <2>2, StepJobs
  <2> QED BY <2>3, <1>8 DEF FindPaid, TypeOK, JobsOK, dbVars
<1>9. CASE CreateReceipt(h)
  <2>1. PICK r \in Receipts :
          /\ FirstUnmade(r)
          /\ payme' = [payme EXCEPT ![r] = [state |-> "open", order |-> j.order]]
          /\ \E id \in IF Matches(j) = {} THEN {NoReceipt} ELSE {p.id : p \in Matches(j)} :
               job' = [job EXCEPT ![h] = [j EXCEPT !.stage = "created", !.receipt = r, !.found = id]]
    BY <1>9 DEF CreateReceipt, j
  <2>2. PICK id \in IF Matches(j) = {} THEN {NoReceipt} ELSE {p.id : p \in Matches(j)} :
          job' = [job EXCEPT ![h] = [j EXCEPT !.stage = "created", !.receipt = r, !.found = id]]
    BY <2>1
  <2>3. id \in Receipts \cup {NoReceipt}
    BY <2>2 DEF Matches, TypeOK, PaymePayment
  <2>4. payme' \in [Receipts -> Receipt] /\ payme'[r] = [state |-> "open", order |-> j.order]
    BY <1>2, <2>1 DEF TypeOK, Receipt
  <2>5. Keeps
    BY <2>1 DEF Keeps, FirstUnmade, TypeOK
  <2> DEFINE new == [j EXCEPT !.stage = "created", !.receipt = r, !.found = id]
  <2>6. new \in Job
    BY <1>1, <2>3 DEF Job, Stages
  <2>7. RequestOKNext(new)
    <3>1. j.kind = "accept" /\ ~j.row.paid
      BY <1>9 DEF CreateReceipt, At, Payable, j
    <3>2. /\ new.kind = "accept" /\ new.stage = "created" /\ new.receipt = r
          /\ new.row = j.row /\ new.order = j.order
      BY <1>1, <3>1 DEF Job
    <3>3. r # NoReceipt
      BY DEF Receipts, NoReceipt
    <3> HIDE DEF new
    <3> QED BY <2>4, <3>1, <3>2, <3>3 DEF RequestOKNext, StagesOf, Stages
  <2>8. JobsOK'
    <3> HIDE DEF new
    <3> QED BY <1>4, <2>2, <2>5, <2>6, <2>7, StepJobs DEF new
  <2> QED BY <2>4, <2>8, <1>9 DEF CreateReceipt, TypeOK, JobsOK, dbVars
<1>10. CASE SaveReceipt(h)
  <2>1. [j EXCEPT !.stage = "locked"] \in Job /\ RequestOKNext([j EXCEPT !.stage = "locked"])
    BY <1>1, <1>2, <1>10 DEF SaveReceipt, At, Job, Stages, RequestOK, RequestOKNext, StagesOf, j
  <2>2. Keeps /\ job' = [job EXCEPT ![h] = [j EXCEPT !.stage = "locked"]]
    BY <1>6, <1>10 DEF SaveReceipt, j
  <2>3. JobsOK'
    BY <1>4, <2>1, <2>2, StepJobs
  <2> QED BY <2>3, <1>10 DEF SaveReceipt, TypeOK, JobsOK, dbVars
<1>11. CASE Pay(h)
  <2>1. PICK s \in {"charged", "declined", "pending"} :
          job' = [job EXCEPT ![h] = [j EXCEPT !.stage = s]]
    BY <1>11 DEF Pay, j
  <2>2. payme' = payme \/ \E t \in {"waiting", "paid"} : payme' = [payme EXCEPT ![j.receipt].state = t]
    BY <1>11 DEF Pay, j
  <2>3. payme' \in [Receipts -> Receipt] /\ Keeps
    BY <2>2, <1>6 DEF TypeOK, Receipt, Keeps
  <2>4. j.receipt \in Receipts /\ charged' \subseteq Receipts
    BY <1>1, <1>2, <1>11 DEF Pay, At, RequestOK, TypeOK, j
  <2> DEFINE new == [j EXCEPT !.stage = s]
  <2>5. new \in Job
    BY <1>1 DEF Job, Stages
  <2>6. RequestOKNext(new)
    BY <1>1, <1>2, <1>11, <2>3, <2>4 DEF Pay, At, Job, Stages, RequestOK, RequestOKNext, StagesOf,
       Keeps, j
  <2>7. JobsOK'
    <3> HIDE DEF new
    <3> QED BY <1>4, <2>1, <2>3, <2>5, <2>6, StepJobs DEF new
  <2> QED BY <2>3, <2>4, <2>7, <1>11 DEF Pay, TypeOK, JobsOK, dbVars
<1>12. CASE AcceptCommit(h)
  <2>1. order' \in [Orders -> Row]
    BY <1>2, <1>3, <1>12 DEF AcceptCommit, Save, TypeOK, j
  <2>2. Recorded(j) \in PaymePayment
    BY <1>1, <1>2, <1>12 DEF AcceptCommit, At, RequestOK, Recorded, PaymePayment, j
  <2>3. pays' \subseteq PaymePayment
    BY <2>2, <1>12 DEF AcceptCommit, TypeOK, j
  <2>4. payments' \in [Orders -> Nat]
    <3>1. (IF Books(j.stage) THEN payments[j.order] + 1 ELSE payments[j.order]) \in Nat
      BY <1>2 DEF TypeOK
    <3>2. payments' = [payments EXCEPT ![j.order] =
                         IF Books(j.stage) THEN payments[j.order] + 1 ELSE payments[j.order]]
      BY <1>12 DEF AcceptCommit, j
    <3> QED BY <3>1, <3>2 DEF TypeOK
  <2> QED BY <2>1, <2>3, <2>4, <1>5, <1>6, <1>12 DEF AcceptCommit, TypeOK, JobsOK
<1>13. CASE ExistsCommit(h)
  <2>1. order' \in [Orders -> Row]
    BY <1>2, <1>3, <1>13 DEF ExistsCommit, Save, TypeOK, j
  <2> QED BY <2>1, <1>5, <1>6, <1>13 DEF ExistsCommit, TypeOK, JobsOK
<1>14. CASE CancelReceipt(h)
  <2>1. PICK s \in {"cancelled", "refused"}, id \in Receipts \cup {NoReceipt} :
          /\ job' = [job EXCEPT ![h] = [j EXCEPT !.stage = s, !.found = id]]
          /\ s = "cancelled" => j.row.receipt # NoReceipt
          /\ s = "refused" => id = NoReceipt
    <3>1. CASE /\ j.row.receipt # NoReceipt
               /\ \E id \in Found(j.row.receipt) :
                    job' = [job EXCEPT ![h] = [j EXCEPT !.stage = "cancelled", !.found = id]]
      <4>1. Found(j.row.receipt) \subseteq Receipts \cup {NoReceipt}
        BY DEF Found, TypeOK, PaymePayment
      <4> QED BY <3>1, <4>1
    <3>2. CASE job' = [job EXCEPT ![h].stage = "refused"]
      <4>1. j.found = NoReceipt /\ j = [j EXCEPT !.found = NoReceipt]
        BY <1>1, <1>14 DEF CancelReceipt, At, RequestOK, Job, j
      <4>2. [j EXCEPT !.stage = "refused"] = [j EXCEPT !.stage = "refused", !.found = NoReceipt]
        BY <1>1, <4>1 DEF Job
      <4> QED BY <3>2, <4>2 DEF j
    <3> QED BY <3>1, <3>2, <1>14 DEF CancelReceipt, j
  <2>2. payme' = payme \/ payme' = [payme EXCEPT ![j.row.receipt].state = "cancelled"]
    BY <1>14 DEF CancelReceipt, j
  <2>3. payme' \in [Receipts -> Receipt] /\ Keeps
    BY <2>2, <1>6 DEF TypeOK, Receipt, Keeps
  <2>4. trouble' \subseteq Orders
    BY <1>2, <1>14 DEF CancelReceipt, TypeOK, j
  <2> DEFINE new == [j EXCEPT !.stage = s, !.found = id]
  <2>5. new \in Job
    BY <1>1 DEF Job, Stages
  <2>6. RequestOKNext(new)
    BY <1>1, <1>2, <1>14, <2>1 DEF CancelReceipt, At, Job, Stages, RequestOKNext, StagesOf, j
  <2>7. JobsOK'
    <3> HIDE DEF new
    <3> QED BY <1>4, <2>1, <2>3, <2>5, <2>6, StepJobs DEF new
  <2> QED BY <2>3, <2>4, <2>7, <1>14 DEF CancelReceipt, TypeOK, JobsOK, dbVars
<1>15. CASE RejectCommit(h)
  <2>1. order' \in [Orders -> Row]
    BY <1>2, <1>3, <1>15 DEF RejectCommit, Save, TypeOK, j
  <2>2. ASSUME NEW p \in pays, p.id = j.found
        PROVE  [p EXCEPT !.receipt = j.row.receipt, !.state = "cancelled"] \in PaymePayment
    <3>1. p \in PaymePayment
      BY DEF TypeOK
    <3>2. j.row.receipt \in Receipts
      BY <1>1, <1>2, <1>15, <2>2, <3>1
         DEF RejectCommit, At, RequestOK, PaymePayment, Receipts, NoReceipt, j
    <3> QED BY <3>1, <3>2 DEF PaymePayment
  <2>3. pays' \subseteq PaymePayment
    BY <2>2, <1>15 DEF RejectCommit, TypeOK, j
  <2> QED BY <2>1, <2>3, <1>5, <1>6, <1>15 DEF RejectCommit, TypeOK, JobsOK
<1>16. CASE SaveCommit(h)
  <2>1. order' \in [Orders -> Row]
    BY <1>2, <1>3, <1>16 DEF SaveCommit, Save, TypeOK, Statuses, j
  <2> QED BY <2>1, <1>5, <1>6, <1>16 DEF SaveCommit, TypeOK, JobsOK
<1>17. CASE Rollback(h)
  <2>1. trouble' \subseteq Orders
    BY <1>2, <1>17 DEF Rollback, TypeOK, j
  <2> QED BY <2>1, <1>5, <1>6, <1>17 DEF Rollback, TypeOK, JobsOK, dbVars
<1> QED BY <1>7, <1>8, <1>9, <1>10, <1>11, <1>12, <1>13, <1>14, <1>15, <1>16, <1>17

LEMMA TakesType == ASSUME TypeOK, NEW r \in Receipts, PaymeTakes(r) PROVE TypeOK'
<1>1. payme' = [payme EXCEPT ![r].state = "taken"] /\ UNCHANGED <<dbVars, job, requests, charged, trouble>>
  BY DEF PaymeTakes
<1>2. payme' \in [Receipts -> Receipt] /\ Keeps
  BY <1>1 DEF TypeOK, Receipt, Keeps, PaymeTakes
<1>3. ASSUME NEW h \in Handlers, job[h] # NoJob PROVE RequestOKNext(job[h])
  BY <1>2, <1>3, RequestStays DEF TypeOK
<1>4. \A h \in Handlers : (job[h] # NoJob => RequestOK(job[h]))'
  BY <1>1, <1>3 DEF RequestOK, RequestOKNext
<1> QED BY <1>1, <1>2, <1>4 DEF TypeOK, dbVars

LEMMA NextType == TypeOK /\ [Next]_vars => TypeOK'
<1> SUFFICES ASSUME TypeOK, [Next]_vars PROVE TypeOK'
  OBVIOUS
<1>1. CASE UNCHANGED vars
  BY <1>1 DEF vars, dbVars, TypeOK, RequestOK
<1>2. CASE Next
  <2>1. ASSUME NEW h \in Handlers, NEW o \in Orders,
               Accept(h, o) \/ Reject(h, o) \/ Move(h, o) \/ \E t \in Totals : EditItems(h, o, t)
        PROVE  TypeOK'
    <3>1. order[o].total \in Totals
      BY DEF TypeOK, Row
    <3>2. \E kind \in Kinds, t \in Totals : Load(h, o, kind, t)
      BY <2>1, <3>1 DEF Accept, Reject, Move, EditItems, Kinds
    <3> QED BY <3>2, LoadType
  <2> QED BY <1>2, <2>1, FinishType, TakesType DEF Next, Serve
<1> QED BY <1>1, <1>2

\* Every reachable state is well typed, and a request that works on a receipt has
\* one that Payme made for its own order.
THEOREM TypeCorrect == Spec => []TypeOK
<1> QED BY InitType, NextType, PTL DEF Spec

-----------------------------------------------------------------------------
(* Honesty: no row is marked paid, committed or in memory, without a charge. *)

HonestNext(o, row) == row.paid => row.receipt \in charged' /\ payme'[row.receipt].order = o

\* What a request carries, in the next state.
HonestJobNext(j) == /\ HonestNext(j.order, j.row)
                    /\ j.stage = "charged" => j.receipt \in charged'

\* Receipts paid stay paid and keep their order.
Monotone == Keeps /\ charged \subseteq charged'

LEMMA HonestStays ==
    ASSUME TypeOK, Honesty, Monotone, NEW o, NEW row, Honest(o, row)
    PROVE  HonestNext(o, row)
BY DEF TypeOK, Honesty, Monotone, Keeps, Honest, HonestNext

\* The part of Honesty about the requests, when one of them goes on with new.
LEMMA StepHonest ==
    ASSUME TypeOK, Honesty, Monotone, NEW h \in Handlers, NEW new,
           job' = [job EXCEPT ![h] = new],
           new # NoJob => HonestJobNext(new)
    PROVE  \A g \in Handlers : job'[g] # NoJob => HonestJobNext(job'[g])
<1>1. ASSUME NEW g \in Handlers, g # h, job[g] # NoJob
      PROVE  HonestJobNext(job[g])
  <2>1. Honest(job[g].order, job[g].row) /\ (job[g].stage = "charged" => job[g].receipt \in charged)
    BY <1>1 DEF Honesty
  <2> QED BY <2>1, HonestStays DEF HonestJobNext, Monotone
<1> QED BY <1>1 DEF TypeOK

\* Honesty in the next state, from its parts.
LEMMA HonestyNext ==
    ASSUME \A o \in Orders : HonestNext(o, order'[o]),
           \A g \in Handlers : job'[g] # NoJob => HonestJobNext(job'[g]),
           \A p \in pays' : p.state = "paid" => p.receipt \in charged',
           \A r \in charged' : payme'[r].state # "none"
    PROVE  Honesty'
BY DEF Honesty, Honest, HonestNext, HonestJobNext, RecordedWasCharged

LEMMA InitHonesty == Init => Honesty
<1> SUFFICES ASSUME Init PROVE Honesty
  OBVIOUS
<1>1. \A o \in Orders : order[o].paid = FALSE
  BY DEF Init
<1> QED BY <1>1 DEF Init, Honesty, Honest, RecordedWasCharged

LEMMA LoadHonesty ==
    ASSUME TypeOK, Honesty, NEW h \in Handlers, NEW o \in Orders, NEW kind, NEW t,
           Load(h, o, kind, t)
    PROVE  Honesty'
<1> DEFINE new == [kind |-> kind, order |-> o, stage |-> "loaded", row |-> order[o],
                   receipt |-> NoReceipt, found |-> NoReceipt, total |-> t]
<1>1. Monotone /\ job' = [job EXCEPT ![h] = new]
  BY DEF Load, Monotone, Keeps
<1>2. \A q \in Orders : HonestNext(q, order'[q])
  BY <1>1, HonestStays DEF Honesty, Load, dbVars
<1>3. HonestJobNext(new)
  BY <1>2 DEF Load, dbVars, HonestJobNext
<1>4. \A g \in Handlers : job'[g] # NoJob => HonestJobNext(job'[g])
  <2> HIDE DEF new
  <2> QED BY <1>1, <1>3, StepHonest
<1> QED BY <1>2, <1>4, HonestyNext DEF Load, dbVars, Honesty, RecordedWasCharged

LEMMA FinishHonesty ==
    ASSUME TypeOK, Honesty, NEW h \in Handlers,
           \/ AcceptPaid(h) \/ FindPaid(h) \/ CreateReceipt(h) \/ SaveReceipt(h) \/ Pay(h)
           \/ AcceptCommit(h) \/ ExistsCommit(h) \/ CancelReceipt(h) \/ RejectCommit(h)
           \/ SaveCommit(h) \/ Rollback(h)
    PROVE  Honesty'
<1> DEFINE j == job[h]
<1>1. j # NoJob /\ j \in Job /\ RequestOK(j)
  <2>1. j # NoJob
    BY DEF At, AcceptPaid, FindPaid, CreateReceipt, SaveReceipt, Pay, AcceptCommit, ExistsCommit,
           CancelReceipt, RejectCommit, SaveCommit, Rollback
  <2> QED BY <2>1 DEF TypeOK
<1>2. j.order \in Orders /\ j.row \in Row /\ j.receipt \in Receipts \cup {NoReceipt}
  BY <1>1 DEF Job
<1>3. Honest(j.order, j.row) /\ (j.stage = "charged" => j.receipt \in charged)
  BY <1>1 DEF Honesty
<1> HIDE DEF j
\* Steps that end the request and leave Payme alone: the row saved must be honest.
<1>4. ASSUME UNCHANGED <<payme, charged>>, Done(h),
             \A p \in pays' : p.state = "paid" => p.receipt \in charged,
             \/ order' = order
             \/ \E row : order' = [order EXCEPT ![j.order] = row] /\ Honest(j.order, row)
      PROVE  Honesty'
  <2>1. Monotone
    BY <1>4 DEF Monotone, Keeps
  <2>2. \A o \in Orders : Honest(o, order'[o])
    BY <1>2, <1>4 DEF Honesty, TypeOK
  <2>3. \A o \in Orders : HonestNext(o, order'[o])
    BY <2>1, <2>2, HonestStays
  <2>4. \A g \in Handlers : job'[g] # NoJob => HonestJobNext(job'[g])
    BY <1>4, <2>1, StepHonest DEF Done
  <2> QED BY <1>4, <2>3, <2>4, HonestyNext DEF Honesty
\* Steps that go on: the request keeps its object, and is charged only if it was.
<1>5. ASSUME Monotone, UNCHANGED <<order, pays>>, NEW new,
             job' = [job EXCEPT ![h] = new],
             new.order = j.order, new.row = j.row,
             new.stage = "charged" => new.receipt \in charged',
             \A r \in charged' : payme'[r].state # "none"
      PROVE  Honesty'
  <2>1. \A o \in Orders : HonestNext(o, order'[o])
    BY <1>5, HonestStays DEF Honesty
  <2>2. HonestJobNext(new)
    BY <1>3, <1>5, HonestStays DEF HonestJobNext
  <2>3. \A g \in Handlers : job'[g] # NoJob => HonestJobNext(job'[g])
    BY <1>5, <2>2, StepHonest
  <2>4. \A p \in pays' : p.state = "paid" => p.receipt \in charged'
    BY <1>5 DEF Honesty, RecordedWasCharged, Monotone
  <2> QED BY <1>5, <2>1, <2>3, <2>4, HonestyNext
<1>6. \A p \in pays : p.state = "paid" => p.receipt \in charged
  BY DEF Honesty, RecordedWasCharged
<1>7. CASE AcceptPaid(h)
  <2>1. Honest(j.order, [j.row EXCEPT !.status = "accepted"])
    BY <1>2, <1>3 DEF Honest, Row
  <2> QED BY <1>4, <1>6, <1>7, <2>1 DEF AcceptPaid, Save, j
<1>8. CASE FindPaid(h)
  <2> DEFINE new == [j EXCEPT !.stage = "exists"]
  <2>1. Monotone /\ job' = [job EXCEPT ![h] = new] /\ UNCHANGED <<order, pays>>
    BY <1>8 DEF FindPaid, Monotone, Keeps, dbVars, j
  <2>2. new.order = j.order /\ new.row = j.row /\ new.stage = "exists"
    BY <1>1 DEF Job
  <2> HIDE DEF new
  <2> QED BY <1>5, <1>8, <2>1, <2>2 DEF FindPaid, Honesty
<1>9. CASE CreateReceipt(h)
  <2>1. PICK r, id :
          /\ r \in Receipts
          /\ FirstUnmade(r)
          /\ payme' = [payme EXCEPT ![r] = [state |-> "open", order |-> j.order]]
          /\ job' = [job EXCEPT ![h] = [j EXCEPT !.stage = "created", !.receipt = r, !.found = id]]
    BY <1>9 DEF CreateReceipt, j
  <2> DEFINE new == [j EXCEPT !.stage = "created", !.receipt = r, !.found = id]
  <2>2. Monotone /\ UNCHANGED <<order, pays>>
    BY <1>9, <2>1 DEF CreateReceipt, Monotone, Keeps, FirstUnmade, TypeOK, dbVars
  <2>3. \A q \in charged' : payme'[q].state # "none"
    BY <1>9, <2>2, <2>1 DEF CreateReceipt, Monotone, Keeps, Honesty, TypeOK
  <2>4. new.order = j.order /\ new.row = j.row /\ new.stage = "created"
    BY <1>1 DEF Job
  <2>5. job' = [job EXCEPT ![h] = new]
    BY <2>1
  <2> HIDE DEF new
  <2> QED BY <1>5, <2>2, <2>3, <2>4, <2>5
<1>10. CASE SaveReceipt(h)
  <2> DEFINE new == [j EXCEPT !.stage = "locked"]
  <2>1. Monotone /\ job' = [job EXCEPT ![h] = new] /\ UNCHANGED <<order, pays>>
    BY <1>10 DEF SaveReceipt, Monotone, Keeps, dbVars, j
  <2>2. new.order = j.order /\ new.row = j.row /\ new.stage = "locked"
    BY <1>1 DEF Job
  <2> HIDE DEF new
  <2> QED BY <1>5, <1>10, <2>1, <2>2 DEF SaveReceipt, Honesty
<1>11. CASE Pay(h)
  <2>1. j.receipt \in Receipts /\ payme[j.receipt].state # "none"
    BY <1>1, <1>2, <1>11 DEF Pay, At, RequestOK, j
  <2>2. CASE /\ payme' = [payme EXCEPT ![j.receipt].state = "paid"]
             /\ charged' = charged \cup {j.receipt}
             /\ job' = [job EXCEPT ![h].stage = "charged"]
    <3> DEFINE new == [j EXCEPT !.stage = "charged"]
    <3>1. Monotone /\ UNCHANGED <<order, pays>>
      BY <1>11, <2>2 DEF Pay, Monotone, Keeps, TypeOK, Receipt, dbVars
    <3>2. \A q \in charged' : payme'[q].state # "none"
      BY <2>1, <2>2 DEF Honesty, TypeOK, Receipt
    <3>3. job' = [job EXCEPT ![h] = new]
      BY <2>2 DEF j
    <3>4. new.order = j.order /\ new.row = j.row /\ new.receipt \in charged'
      BY <1>1, <2>2 DEF Job
    <3> HIDE DEF new
    <3> QED BY <1>5, <3>1, <3>2, <3>3, <3>4
  <2>3. CASE /\ \E s \in {"declined", "pending"} : job' = [job EXCEPT ![h].stage = s]
             /\ payme' = payme \/ payme' = [payme EXCEPT ![j.receipt].state = "waiting"]
             /\ UNCHANGED charged
    <3>1. PICK s \in {"declined", "pending"} : job' = [job EXCEPT ![h] = [j EXCEPT !.stage = s]]
      BY <2>3 DEF j
    <3> DEFINE new == [j EXCEPT !.stage = s]
    <3>2. Monotone /\ UNCHANGED <<order, pays>>
      BY <1>11, <2>3 DEF Pay, Monotone, Keeps, TypeOK, Receipt, dbVars
    <3>5. \A q \in charged' : payme'[q].state # "none"
      BY <2>3, <3>2 DEF Honesty, Monotone, Keeps, TypeOK
    <3>3. new.order = j.order /\ new.row = j.row /\ new.stage # "charged"
      BY <1>1, <3>1 DEF Job
    <3>4. job' = [job EXCEPT ![h] = new]
      BY <3>1
    <3> HIDE DEF new
    <3> QED BY <1>5, <3>2, <3>3, <3>4, <3>5
  <2> QED BY <1>11, <2>2, <2>3 DEF Pay, j
<1>12. CASE AcceptCommit(h)
  <2>1. j.stage \in {"charged", "declined", "pending"} /\ payme[j.receipt].order = j.order
    BY <1>1, <1>12 DEF AcceptCommit, At, RequestOK, j
  <2>2. Honest(j.order, Accepted(j))
    BY <1>2, <1>3, <2>1 DEF Honest, Accepted, Row
  <2>3. Recorded(j).state = "paid" => Recorded(j).receipt \in charged
    BY <1>3 DEF Recorded
  <2>4. \A p \in pays' : p.state = "paid" => p.receipt \in charged
    BY <1>6, <1>12, <2>3 DEF AcceptCommit, j
  <2> QED BY <1>4, <1>12, <2>2, <2>4 DEF AcceptCommit, Save, j
<1>13. CASE ExistsCommit(h)
  <2>1. Honest(j.order, Accepted(j))
    BY <1>2, <1>13 DEF ExistsCommit, At, Honest, Accepted, Row, j
  <2> QED BY <1>4, <1>6, <1>13, <2>1 DEF ExistsCommit, Save, j
<1>14. CASE CancelReceipt(h)
  <2>1. PICK s \in {"cancelled", "refused"}, id \in Receipts \cup {NoReceipt} :
          job' = [job EXCEPT ![h] = [j EXCEPT !.stage = s, !.found = id]]
    <3>1. CASE \E id \in Found(j.row.receipt) :
                 job' = [job EXCEPT ![h] = [j EXCEPT !.stage = "cancelled", !.found = id]]
      <4>1. Found(j.row.receipt) \subseteq Receipts \cup {NoReceipt}
        BY DEF Found, TypeOK, PaymePayment
      <4> QED BY <3>1, <4>1
    <3>2. CASE job' = [job EXCEPT ![h].stage = "refused"]
      <4>1. [j EXCEPT !.stage = "refused"] = [j EXCEPT !.stage = "refused", !.found = j.found]
        BY <1>1 DEF Job
      <4>2. j.found \in Receipts \cup {NoReceipt}
        BY <1>1 DEF Job
      <4> QED BY <3>2, <4>1, <4>2 DEF j
    <3> QED BY <3>1, <3>2, <1>14 DEF CancelReceipt, j
  <2> DEFINE new == [j EXCEPT !.stage = s, !.found = id]
  <2>2. payme' = payme \/ payme' = [payme EXCEPT ![j.row.receipt].state = "cancelled"]
    BY <1>14 DEF CancelReceipt, j
  <2>3. UNCHANGED <<order, pays, charged>>
    BY <1>14 DEF CancelReceipt, dbVars
  <2>4. Monotone /\ \A q \in charged' : payme'[q].state # "none"
    BY <2>2, <2>3 DEF Monotone, Keeps, Honesty, TypeOK, Receipt
  <2>5. new.order = j.order /\ new.row = j.row /\ new.stage # "charged"
    BY <1>1, <2>1 DEF Job
  <2>6. job' = [job EXCEPT ![h] = new]
    BY <2>1
  <2> HIDE DEF new
  <2> QED BY <1>5, <2>3, <2>4, <2>5, <2>6
<1>15. CASE RejectCommit(h)
  <2>1. Honest(j.order, Rejected(j))
    BY <1>2 DEF Honest, Rejected, Row
  <2>2. \A p \in pays : p \in PaymePayment
    BY DEF TypeOK
  <2>3. \A p \in pays' : p.state = "paid" => p.receipt \in charged
    BY <1>6, <1>15, <2>2 DEF RejectCommit, PaymePayment, j
  <2> QED BY <1>4, <1>15, <2>1, <2>3 DEF RejectCommit, Save, j
<1>16. CASE SaveCommit(h)
  <2>1. /\ Honest(j.order, [j.row EXCEPT !.status = "later"])
        /\ Honest(j.order, [j.row EXCEPT !.total = j.total])
    BY <1>2, <1>3 DEF Honest, Row
  <2> QED BY <1>4, <1>6, <1>16, <2>1 DEF SaveCommit, Save, j
<1>17. CASE Rollback(h)
  BY <1>4, <1>6, <1>17 DEF Rollback, dbVars
<1> QED BY <1>7, <1>8, <1>9, <1>10, <1>11, <1>12, <1>13, <1>14, <1>15, <1>16, <1>17

LEMMA TakesHonesty ==
    ASSUME TypeOK, Honesty, NEW r \in Receipts, PaymeTakes(r)
    PROVE  Honesty'
<1>1. payme' = [payme EXCEPT ![r].state = "taken"] /\ UNCHANGED <<dbVars, job, charged>>
  BY DEF PaymeTakes
<1>2. Monotone
  BY <1>1 DEF Monotone, Keeps, TypeOK, Receipt
<1>3. \A o \in Orders : HonestNext(o, order'[o])
  BY <1>1, <1>2, HonestStays DEF Honesty, dbVars
<1>4. ASSUME NEW h \in Handlers, job[h] # NoJob PROVE HonestJobNext(job[h])
  <2>1. Honest(job[h].order, job[h].row) /\ (job[h].stage = "charged" => job[h].receipt \in charged)
    BY <1>4 DEF Honesty
  <2> QED BY <1>1, <1>2, <2>1, HonestStays DEF HonestJobNext
<1>5. \A q \in charged' : payme'[q].state # "none"
  BY <1>1, <1>2 DEF Honesty, Monotone, Keeps, TypeOK
<1> QED BY <1>1, <1>3, <1>4, <1>5, HonestyNext DEF Honesty, RecordedWasCharged, dbVars

LEMMA NextHonesty == TypeOK /\ Honesty /\ [Next]_vars => Honesty'
<1> SUFFICES ASSUME TypeOK, Honesty, [Next]_vars PROVE Honesty'
  OBVIOUS
<1>1. CASE UNCHANGED vars
  BY <1>1 DEF vars, dbVars, Honesty, Honest, RecordedWasCharged
<1>2. CASE Next
  <2>1. ASSUME NEW h \in Handlers, NEW o \in Orders,
               Accept(h, o) \/ Reject(h, o) \/ Move(h, o) \/ \E t \in Totals : EditItems(h, o, t)
        PROVE  Honesty'
    BY <2>1, LoadHonesty DEF Accept, Reject, Move, EditItems
  <2> QED BY <1>2, <2>1, FinishHonesty, TakesHonesty DEF Next, Serve
<1> QED BY <1>1, <1>2

\* The inductive invariant: no row is marked paid, committed or in a handler's
\* memory, but for a receipt charged for its order.
THEOREM RowsHonest == Spec => []Honesty
<1> QED BY InitHonesty, NextHonesty, TypeCorrect, PTL DEF Spec

\* An order is marked paid only with a receipt that was charged for it, whatever
\* was rolled back, lost or overwritten.
THEOREM PaidOrdersWereCharged == Spec => []PaidWasCharged
<1>1. Honesty => PaidWasCharged
  BY DEF Honesty, Honest, PaidWasCharged
<1> QED BY <1>1, RowsHonest, PTL

\* make_payment says "Transaction exists" only of a receipt that was charged.
THEOREM RecordedPaymentsWereCharged == Spec => []RecordedWasCharged
<1>1. Honesty => RecordedWasCharged
  BY DEF Honesty
<1> QED BY <1>1, RowsHonest, PTL

-----------------------------------------------------------------------------
(* What Payme holds for an order.                                          *)
(*                                                                         *)
(* An order without trouble has at most one request at a time, so that     *)
(* request works on the committed row, and Payme holds exactly the money   *)
(* that row stands for but between a call to Payme and its commit.         *)

Serves(h, o) == job[h] # NoJob /\ job[h].order = o

\* The receipts that hold an order's money and whose payment was answered as such.
Answered(o) == Held(o) \ Late(o)

\* The receipts that hold the money of an order with this row.
Money(row) == IF row.paid THEN {row.receipt} ELSE {}

\* The same while request j is served: charged or paid back, and not yet saved.
MoneyAt(j) == CASE j.stage = "charged"                  -> {j.receipt}
                [] j.stage \in {"cancelled", "refused"} -> {}
                [] OTHER                                -> Money(j.row)

OwnReceipt(o, row) ==
    row.receipt # NoReceipt => payme[row.receipt].order = o /\ payme[row.receipt].state # "none"

\* Every row, committed or in memory, names a receipt made for its own order.
Ownership ==
    /\ \A o \in Orders : OwnReceipt(o, order[o])
    /\ \A h \in Handlers : job[h] # NoJob => OwnReceipt(job[h].order, job[h].row)

Agrees(o) ==
    /\ \A g, h \in Handlers : Serves(g, o) /\ Serves(h, o) => g = h
    /\ ~Busy(o) => Answered(o) = Money(order[o])
    /\ \A h \in Handlers : Serves(h, o) => job[h].row = order[o] /\ Answered(o) = MoneyAt(job[h])

\* The inductive invariant behind HeldOnce and BooksAgree.
Accounts == \A o \in Orders \ trouble : Agrees(o)

OwnReceiptNext(o, row) ==
    row.receipt # NoReceipt => payme'[row.receipt].order = o /\ payme'[row.receipt].state # "none"

LEMMA OwnReceiptStays ==
    ASSUME Keeps, NEW o, NEW row, row.receipt \in Receipts \cup {NoReceipt}, OwnReceipt(o, row)
    PROVE  OwnReceiptNext(o, row)
BY DEF Keeps, OwnReceipt, OwnReceiptNext

\* The handler that takes a step, its request and its row.
LEMMA FinishingJob ==
    ASSUME TypeOK, NEW h \in Handlers,
           \/ AcceptPaid(h) \/ FindPaid(h) \/ CreateReceipt(h) \/ SaveReceipt(h) \/ Pay(h)
           \/ AcceptCommit(h) \/ ExistsCommit(h) \/ CancelReceipt(h) \/ RejectCommit(h)
           \/ SaveCommit(h) \/ Rollback(h)
    PROVE  /\ job[h] # NoJob /\ job[h] \in Job /\ RequestOK(job[h])
           /\ job[h].order \in Orders /\ job[h].row \in Row
           /\ job[h].receipt \in Receipts \cup {NoReceipt}
           /\ job[h].row.receipt \in Receipts \cup {NoReceipt}
<1>1. job[h] # NoJob
  BY DEF At, AcceptPaid, FindPaid, CreateReceipt, SaveReceipt, Pay, AcceptCommit, ExistsCommit,
         CancelReceipt, RejectCommit, SaveCommit, Rollback
<1>2. job[h] \in Job /\ RequestOK(job[h])
  BY <1>1 DEF TypeOK
<1> QED BY <1>1, <1>2 DEF Job, Row

\* What a step that does not end its request does: the request keeps its order
\* and its row, the committed rows stay, and Payme keeps its receipts.
LEMMA GoesOn ==
    ASSUME TypeOK, NEW h \in Handlers,
           FindPaid(h) \/ CreateReceipt(h) \/ SaveReceipt(h) \/ Pay(h) \/ CancelReceipt(h)
    PROVE  /\ job'[h] # NoJob /\ job'[h].order = job[h].order /\ job'[h].row = job[h].row
           /\ job' = [job EXCEPT ![h] = job'[h]]
           /\ UNCHANGED <<order, pays, payments>> /\ Keeps
<1> DEFINE j == job[h]
<1>1. j \in Job /\ j.order \in Orders /\ RequestOK(j)
  BY FinishingJob
<1>2. \E new \in Job : new.order = j.order /\ new.row = j.row /\ job' = [job EXCEPT ![h] = new]
  <2>2. CASE \E s \in Stages : job' = [job EXCEPT ![h].stage = s]
    <3>1. PICK s \in Stages : job' = [job EXCEPT ![h].stage = s]
      BY <2>2
    <3>2. job' = [job EXCEPT ![h] = [j EXCEPT !.stage = s]]
      BY <3>1
    <3>3. /\ [j EXCEPT !.stage = s] \in Job
          /\ [j EXCEPT !.stage = s].order = j.order /\ [j EXCEPT !.stage = s].row = j.row
      BY <1>1 DEF Job
    <3> HIDE DEF j
    <3> QED BY <3>2, <3>3
  <2>3. CASE CreateReceipt(h)
    <3>1. PICK r \in Receipts, id \in IF Matches(j) = {} THEN {NoReceipt} ELSE {p.id : p \in Matches(j)} :
            job' = [job EXCEPT ![h] = [j EXCEPT !.stage = "created", !.receipt = r, !.found = id]]
      BY <2>3 DEF CreateReceipt
    <3>2. id \in Receipts \cup {NoReceipt}
      BY <3>1 DEF Matches, TypeOK, PaymePayment
    <3> DEFINE new == [j EXCEPT !.stage = "created", !.receipt = r, !.found = id]
    <3>3. new \in Job /\ new.order = j.order /\ new.row = j.row
      BY <1>1, <3>2 DEF Job, Stages
    <3>4. job' = [job EXCEPT ![h] = new]
      BY <3>1
    <3> HIDE DEF new, j
    <3> QED BY <3>3, <3>4
  <2>4. CASE \E id \in Found(j.row.receipt) :
               job' = [job EXCEPT ![h] = [j EXCEPT !.stage = "cancelled", !.found = id]]
    <3>1. PICK id \in Found(j.row.receipt) :
            job' = [job EXCEPT ![h] = [j EXCEPT !.stage = "cancelled", !.found = id]]
      BY <2>4
    <3>2. id \in Receipts \cup {NoReceipt}
      BY <3>1 DEF Found, TypeOK, PaymePayment
    <3> DEFINE new == [j EXCEPT !.stage = "cancelled", !.found = id]
    <3>3. new \in Job /\ new.order = j.order /\ new.row = j.row
      BY <1>1, <3>2 DEF Job, Stages
    <3>4. job' = [job EXCEPT ![h] = new]
      BY <3>1
    <3> HIDE DEF new, j
    <3> QED BY <3>3, <3>4
  <2> QED BY <2>2, <2>3, <2>4 DEF FindPaid, SaveReceipt, Pay, CancelReceipt, Stages
<1>3. PICK new \in Job : new.order = j.order /\ new.row = j.row /\ job' = [job EXCEPT ![h] = new]
  BY <1>2
<1>4. job'[h] = new /\ job' = [job EXCEPT ![h] = job'[h]]
  BY <1>3 DEF TypeOK
<1>5. UNCHANGED <<order, pays, payments>>
  BY DEF FindPaid, CreateReceipt, SaveReceipt, Pay, CancelReceipt, dbVars
<1>6. Keeps
  <2>1. ASSUME NEW q, NEW s \in {"waiting", "paid", "cancelled"}, payme' = [payme EXCEPT ![q].state = s]
        PROVE  Keeps
    BY <2>1 DEF Keeps, TypeOK, Receipt
  <2>2. CASE UNCHANGED payme
    BY <2>2 DEF Keeps
  <2>3. CASE CreateReceipt(h)
    BY <2>3 DEF CreateReceipt, FirstUnmade, Keeps, TypeOK
  <2>4. CASE Pay(h)
    <3>1. CASE \E s \in {"waiting", "paid"} : payme' = [payme EXCEPT ![j.receipt].state = s]
      BY <2>1, <3>1
    <3> QED BY <2>2, <2>4, <3>1 DEF Pay
  <2>5. CASE CancelReceipt(h)
    <3>1. CASE payme' = [payme EXCEPT ![j.row.receipt].state = "cancelled"]
      BY <2>1, <3>1
    <3> QED BY <2>2, <2>5, <3>1 DEF CancelReceipt
  <2> QED BY <2>2, <2>3, <2>4, <2>5 DEF FindPaid, SaveReceipt
<1> QED BY <1>3, <1>4, <1>5, <1>6, SentinelAssumption

LEMMA InitOwnership == Init => Ownership /\ Accounts
<1> SUFFICES ASSUME Init PROVE Ownership /\ Accounts
  OBVIOUS
<1>1. \A o \in Orders : order[o].paid = FALSE /\ order[o].receipt = NoReceipt
  BY DEF Init
<1>2. \A h \in Handlers : job[h] = NoJob
  BY DEF Init
<1>3. \A o : Answered(o) = {}
  BY DEF Init, Answered, Held
<1> QED BY <1>1, <1>2, <1>3 DEF Ownership, OwnReceipt, Accounts, Agrees, Money, Serves

LEMMA NextOwnership ==
    ASSUME TypeOK, Ownership, Next
    PROVE  Ownership'
\* A request that starts on a committed row, one that goes on, and one that ends.
<1>1. ASSUME Keeps, NEW h \in Handlers, NEW new,
             job' = [job EXCEPT ![h] = new],
             new = NoJob \/ OwnReceiptNext(new.order, new.row),
             \A o \in Orders : OwnReceiptNext(o, order'[o])
      PROVE  Ownership'
  <2>1. ASSUME NEW g \in Handlers, g # h, job[g] # NoJob
        PROVE  OwnReceiptNext(job[g].order, job[g].row)
    <3>1. job[g].row.receipt \in Receipts \cup {NoReceipt}
      BY <2>1 DEF TypeOK, Job, Row
    <3> QED BY <1>1, <2>1, <3>1, OwnReceiptStays DEF Ownership
  <2>2. \A g \in Handlers : job'[g] # NoJob => OwnReceiptNext(job'[g].order, job'[g].row)
    BY <1>1, <2>1 DEF TypeOK
  <2> QED BY <1>1, <2>2 DEF Ownership, OwnReceipt, OwnReceiptNext
<1>2. ASSUME Keeps PROVE \A o \in Orders : OwnReceiptNext(o, order[o])
  <2>1. \A o \in Orders : order[o].receipt \in Receipts \cup {NoReceipt}
    BY DEF TypeOK, Row
  <2> QED BY <1>2, <2>1, OwnReceiptStays DEF Ownership
<1>3. ASSUME NEW h \in Handlers, NEW o \in Orders,
             Accept(h, o) \/ Reject(h, o) \/ Move(h, o) \/ \E t \in Totals : EditItems(h, o, t)
      PROVE  Ownership'
  <2>1. PICK kind, t : Load(h, o, kind, t)
    BY <1>3 DEF Accept, Reject, Move, EditItems
  <2>2. Keeps /\ order' = order
    BY <2>1 DEF Load, Keeps, dbVars
  <2> DEFINE new == [kind |-> kind, order |-> o, stage |-> "loaded", row |-> order[o],
                     receipt |-> NoReceipt, found |-> NoReceipt, total |-> t]
  <2>3. job' = [job EXCEPT ![h] = new]
    BY <2>1 DEF Load
  <2>4. OwnReceiptNext(new.order, new.row)
    BY <1>2, <2>2
  <2> HIDE DEF new
  <2> QED BY <1>1, <1>2, <2>2, <2>3, <2>4
<1>4. ASSUME NEW h \in Handlers,
             FindPaid(h) \/ CreateReceipt(h) \/ SaveReceipt(h) \/ Pay(h) \/ CancelReceipt(h)
      PROVE  Ownership'
  <2>1. /\ job'[h].order = job[h].order /\ job'[h].row = job[h].row
        /\ job' = [job EXCEPT ![h] = job'[h]] /\ order' = order /\ Keeps
    BY <1>4, GoesOn
  <2>2. OwnReceipt(job[h].order, job[h].row) /\ job[h].row.receipt \in Receipts \cup {NoReceipt}
    BY <1>4, FinishingJob DEF Ownership
  <2> QED BY <1>1, <1>2, <2>1, <2>2, OwnReceiptStays
<1>5. ASSUME NEW h \in Handlers,
             \/ AcceptPaid(h) \/ AcceptCommit(h) \/ ExistsCommit(h) \/ RejectCommit(h)
             \/ SaveCommit(h) \/ Rollback(h)
      PROVE  Ownership'
  <2> DEFINE j == job[h]
  <2>1. /\ j # NoJob /\ j \in Job /\ RequestOK(j) /\ j.order \in Orders /\ j.row \in Row
        /\ j.receipt \in Receipts \cup {NoReceipt}
    BY <1>5, FinishingJob
  <2>2. OwnReceipt(j.order, j.row)
    BY <2>1 DEF Ownership
  <2> HIDE DEF j
  <2>3. Keeps /\ Done(h) /\ payme' = payme
    BY <1>5 DEF AcceptPaid, AcceptCommit, ExistsCommit, RejectCommit, SaveCommit, Rollback, Keeps
  <2>4. \/ order' = order
        \/ \E row : order' = [order EXCEPT ![j.order] = row] /\ OwnReceipt(j.order, row)
    <3>1. CASE AcceptPaid(h)
      <4>1. OwnReceipt(j.order, [j.row EXCEPT !.status = "accepted"])
        BY <2>1, <2>2 DEF OwnReceipt, Row
      <4> QED BY <3>1, <4>1 DEF AcceptPaid, Save, j
    <3>2. CASE AcceptCommit(h) \/ ExistsCommit(h)
      <4>1. OwnReceipt(j.order, Accepted(j))
        <5>1. Accepted(j).receipt = IF j.stage = "exists" THEN j.row.receipt ELSE j.receipt
          BY <2>1 DEF Accepted, Row
        <5> QED BY <2>1, <2>2, <3>2, <5>1 DEF OwnReceipt, AcceptCommit, ExistsCommit, At, RequestOK, j
      <4> QED BY <3>2, <4>1 DEF AcceptCommit, ExistsCommit, Save, j
    <3>3. CASE RejectCommit(h)
      <4>1. OwnReceipt(j.order, Rejected(j))
        BY <2>1, <2>2 DEF OwnReceipt, Rejected, Row
      <4> QED BY <3>3, <4>1 DEF RejectCommit, Save, j
    <3>4. CASE SaveCommit(h)
      <4>1. /\ OwnReceipt(j.order, [j.row EXCEPT !.status = "later"])
            /\ OwnReceipt(j.order, [j.row EXCEPT !.total = j.total])
        BY <2>1, <2>2 DEF OwnReceipt, Row
      <4> QED BY <3>4, <4>1 DEF SaveCommit, Save, j
    <3>5. CASE Rollback(h)
      BY <3>5 DEF Rollback, dbVars
    <3> QED BY <1>5, <3>1, <3>2, <3>3, <3>4, <3>5
  <2>5. \A o \in Orders : OwnReceipt(o, order'[o])
    BY <2>1, <2>4 DEF Ownership, TypeOK
  <2>6. \A o \in Orders : OwnReceiptNext(o, order'[o])
    BY <2>3, <2>5 DEF OwnReceipt, OwnReceiptNext
  <2> QED BY <1>1, <2>3, <2>6 DEF Done
<1>6. ASSUME NEW r \in Receipts, PaymeTakes(r)
      PROVE  Ownership'
  <2>1. payme' = [payme EXCEPT ![r].state = "taken"] /\ UNCHANGED <<order, job>>
    BY <1>6 DEF PaymeTakes, dbVars
  <2>2. Keeps
    BY <2>1 DEF Keeps, TypeOK, Receipt
  <2>3. ASSUME NEW h \in Handlers, job[h] # NoJob PROVE OwnReceiptNext(job[h].order, job[h].row)
    <3>1. job[h].row.receipt \in Receipts \cup {NoReceipt}
      BY <2>3 DEF TypeOK, Job, Row
    <3> QED BY <2>2, <2>3, <3>1, OwnReceiptStays DEF Ownership
  <2> QED BY <1>2, <2>1, <2>2, <2>3 DEF Ownership, OwnReceipt, OwnReceiptNext
<1> QED BY <1>3, <1>4, <1>5, <1>6 DEF Next, Serve

AnsweredNext(o) == {r \in Receipts : payme'[r].order = o /\ payme'[r].state = "paid"}

LEMMA AnsweredIs ==
    /\ \A o : Answered(o) = {r \in Receipts : payme[r].order = o /\ payme[r].state = "paid"}
    /\ \A o : (Held(o) \ Late(o))' = AnsweredNext(o)
BY DEF Answered, AnsweredNext, Held, Late

\* The receipts that hold an order's money when one receipt of it is paid, is
\* cancelled or not yet paid, or none changes.
LEMMA AnsweredAfter ==
    ASSUME TypeOK, NEW o, NEW r \in Receipts, payme[r].order = o
    PROVE  /\ payme' = [payme EXCEPT ![r].state = "paid"] => AnsweredNext(o) = Answered(o) \cup {r}
           /\ payme' = [payme EXCEPT ![r].state = "cancelled"] => AnsweredNext(o) = Answered(o) \ {r}
           /\ payme' = [payme EXCEPT ![r].state = "waiting"] => AnsweredNext(o) = Answered(o) \ {r}
BY AnsweredIs DEF TypeOK, Receipt, AnsweredNext

LEMMA AnsweredKept ==
    ASSUME TypeOK, NEW o,
           \/ payme' = payme
           \/ \E r \in Receipts : \E s : payme' = [payme EXCEPT ![r].state = s] /\ payme[r].order # o
           \/ \E r \in Receipts : \E q :
                payme[r].state = "none" /\ payme' = [payme EXCEPT ![r] = [state |-> "open", order |-> q]]
    PROVE  AnsweredNext(o) = Answered(o)
<1>1. ASSUME NEW r \in Receipts, NEW s, payme' = [payme EXCEPT ![r].state = s], payme[r].order # o
      PROVE  AnsweredNext(o) = Answered(o)
  BY <1>1, AnsweredIs DEF TypeOK, Receipt, AnsweredNext
<1>2. ASSUME NEW r \in Receipts, NEW q, payme[r].state = "none",
             payme' = [payme EXCEPT ![r] = [state |-> "open", order |-> q]]
      PROVE  AnsweredNext(o) = Answered(o)
  BY <1>2, AnsweredIs DEF TypeOK, Receipt, AnsweredNext
<1>3. ASSUME payme' = payme PROVE AnsweredNext(o) = Answered(o)
  BY <1>3, AnsweredIs DEF AnsweredNext
<1> QED BY <1>1, <1>2, <1>3

\* One handler takes a step of a request for order o: what must hold of o itself.
LEMMA StepAccounts ==
    ASSUME TypeOK, Accounts, NEW h \in Handlers, NEW o \in Orders,
           Serves(h, o) \/ job[h] = NoJob,
           o \notin trouble' => Serves(h, o) \/ ~Busy(o),
           job' = [job EXCEPT ![h] = job'[h]],
           trouble \subseteq trouble',
           \A q \in Orders \ {o} : order'[q] = order[q] /\ AnsweredNext(q) = Answered(q),
           job'[h] # NoJob => job'[h].order = o,
           o \notin trouble' =>
             IF job'[h] = NoJob THEN AnsweredNext(o) = Money(order'[o])
             ELSE job'[h].row = order'[o] /\ AnsweredNext(o) = MoneyAt(job'[h])
    PROVE  Accounts'
<1>1. \A g \in Handlers \ {h} : job'[g] = job[g]
  BY DEF TypeOK
<1>2. ASSUME NEW q \in Orders \ {o}, q \notin trouble
      PROVE  Agrees(q)'
  <2>1. Agrees(q)
    BY <1>2 DEF Accounts
  <2>2. ~Serves(h, q) /\ ~Serves(h, q)'
    BY <1>1 DEF Serves
  <2>3. \A g \in Handlers : g # h => job'[g] = job[g]
    BY <1>1
  <2>4. \A g \in Handlers : Serves(g, q)' => Serves(g, q) /\ job'[g] = job[g]
    BY <2>2, <2>3 DEF Serves
  <2>5. Busy(q) => Busy(q)'
    BY <2>2, <2>3 DEF Busy, Serves
  <2>6. Answered(q)' = AnsweredNext(q) /\ AnsweredNext(q) = Answered(q)
    BY AnsweredIs DEF Answered
  <2> QED BY <2>1, <2>4, <2>5, <2>6 DEF Agrees
<1>3. ASSUME o \notin trouble'
      PROVE  Agrees(o)'
  <2>1. \A g \in Handlers : Serves(g, o)' => g = h
    BY <1>1, <1>3 DEF Accounts, Agrees, Serves, Busy
  <2>2. job'[h] = NoJob => ~Busy(o)'
    BY <1>1, <2>1 DEF Busy, Serves
  <2>3. job'[h] # NoJob => Busy(o)'
    BY <1>1 DEF Busy
  <2>4. job'[h] # NoJob => job'[h].row = order'[o] /\ AnsweredNext(o) = MoneyAt(job'[h])
    BY <1>1, <1>3
  <2>5. \A g \in Handlers : Serves(g, o)' => job'[g].row = order'[o] /\ AnsweredNext(o) = MoneyAt(job'[g])
    BY <1>1, <2>1, <2>4 DEF Serves
  <2>6. ~Busy(o)' => AnsweredNext(o) = Money(order'[o])
    BY <1>3, <2>3
  <2>7. Answered(o)' = AnsweredNext(o)
    BY AnsweredIs DEF Answered
  <2> QED BY <2>1, <2>5, <2>6, <2>7 DEF Agrees
<1> QED BY <1>2, <1>3 DEF Accounts

LEMMA NextAccounts ==
    ASSUME TypeOK, Honesty, Ownership, Accounts, Next
    PROVE  Accounts'
<1>1. ASSUME NEW h \in Handlers, NEW o \in Orders,
             Accept(h, o) \/ Reject(h, o) \/ Move(h, o) \/ \E t \in Totals : EditItems(h, o, t)
      PROVE  Accounts'
  <2>1. PICK kind, t : Load(h, o, kind, t)
    BY <1>1 DEF Accept, Reject, Move, EditItems
  <2> DEFINE new == [kind |-> kind, order |-> o, stage |-> "loaded", row |-> order[o],
                     receipt |-> NoReceipt, found |-> NoReceipt, total |-> t]
  <2>2. new.order = o /\ new.row = order[o] /\ MoneyAt(new) = Money(order[o])
    BY DEF MoneyAt
  <2>3. job' = [job EXCEPT ![h] = new] /\ job[h] = NoJob /\ order' = order /\ payme' = payme
    BY <2>1 DEF Load, dbVars
  <2>4. \A q \in Orders : AnsweredNext(q) = Answered(q)
    BY <2>3, AnsweredKept
  <2>5. trouble \subseteq trouble' /\ (o \notin trouble' => ~Busy(o))
    BY <2>1 DEF Load
  <2>6. o \notin trouble' => AnsweredNext(o) = Money(order'[o])
    BY <2>3, <2>4, <2>5 DEF Accounts, Agrees
  <2>7. job'[h] = new
    BY <2>3 DEF TypeOK
  <2> HIDE DEF new
  <2> QED BY <2>2, <2>3, <2>4, <2>5, <2>6, <2>7, StepAccounts
\* The rest are steps of handler h, which serves request j for order o.
<1>2. ASSUME NEW h \in Handlers,
             \/ AcceptPaid(h) \/ FindPaid(h) \/ CreateReceipt(h) \/ SaveReceipt(h) \/ Pay(h)
             \/ AcceptCommit(h) \/ ExistsCommit(h) \/ CancelReceipt(h) \/ RejectCommit(h)
             \/ SaveCommit(h) \/ Rollback(h)
      PROVE  Accounts'
  <2> DEFINE j == job[h]
             o == job[h].order
  <2>1. /\ j # NoJob /\ j \in Job /\ RequestOK(j) /\ o \in Orders /\ o = j.order
        /\ j.row \in Row /\ j.receipt \in Receipts \cup {NoReceipt}
        /\ j.row.receipt \in Receipts \cup {NoReceipt}
    BY <1>2, FinishingJob
  <2>2. Serves(h, o)
    BY <2>1 DEF Serves
  <2>3. o \notin trouble => j.row = order[o] /\ Answered(o) = MoneyAt(j)
    BY <2>1, <2>2 DEF Accounts, Agrees
  <2>4. OwnReceipt(o, j.row)
    BY <2>1 DEF Ownership
  <2>5. trouble \subseteq trouble'
    BY <1>2 DEF AcceptPaid, FindPaid, CreateReceipt, SaveReceipt, Pay, AcceptCommit, ExistsCommit,
                CancelReceipt, RejectCommit, SaveCommit, Rollback
  <2>6. j.row.paid => j.row.receipt \in Receipts
    BY <2>1 DEF Honesty, Honest, TypeOK
  <2> HIDE DEF j, o
  \* A request that goes on: what Payme then holds is for StepAccounts to use.
  <2>7. ASSUME FindPaid(h) \/ CreateReceipt(h) \/ SaveReceipt(h) \/ Pay(h) \/ CancelReceipt(h),
               \A q \in Orders \ {o} : AnsweredNext(q) = Answered(q),
               o \notin trouble' => AnsweredNext(o) = MoneyAt(job'[h])
        PROVE  Accounts'
    <3>1. /\ job'[h] # NoJob /\ job'[h].order = o /\ job'[h].row = j.row
          /\ job' = [job EXCEPT ![h] = job'[h]] /\ order' = order
      BY <2>7, GoesOn DEF j, o
    <3> QED BY <2>1, <2>2, <2>3, <2>5, <2>7, <3>1, StepAccounts
  \* A request that ends with Payme left alone.
  <2>8. ASSUME Done(h), payme' = payme,
               order' = order \/ \E row : order' = [order EXCEPT ![o] = row],
               o \notin trouble' => Money(order'[o]) = MoneyAt(j)
        PROVE  Accounts'
    <3>1. \A q : AnsweredNext(q) = Answered(q)
      BY <2>8, AnsweredKept
    <3>2. \A q \in Orders \ {o} : order'[q] = order[q]
      BY <2>8 DEF TypeOK
    <3>3. o \notin trouble' => AnsweredNext(o) = Money(order'[o])
      BY <2>3, <2>5, <2>8, <3>1
    <3>4. job' = [job EXCEPT ![h] = job'[h]] /\ job'[h] = NoJob
      BY <2>8 DEF Done, TypeOK
    <3> QED BY <2>1, <2>2, <2>5, <3>1, <3>2, <3>3, <3>4, StepAccounts
  <2>9. CASE FindPaid(h) \/ SaveReceipt(h)
    <3>1. payme' = payme /\ job'[h] = [j EXCEPT !.stage = job'[h].stage]
          /\ job'[h].stage \in {"exists", "locked"} /\ j.stage \in {"loaded", "created"}
      BY <2>1, <2>9 DEF FindPaid, SaveReceipt, At, TypeOK, Job, j
    <3>2. MoneyAt(job'[h]) = MoneyAt(j)
      BY <2>1, <3>1 DEF MoneyAt, Job
    <3>3. \A q : AnsweredNext(q) = Answered(q)
      BY <3>1, AnsweredKept
    <3> QED BY <2>3, <2>5, <2>7, <2>9, <3>2, <3>3
  <2>10. CASE CreateReceipt(h)
    <3>1. PICK r, id :
            /\ r \in Receipts /\ payme[r].state = "none"
            /\ payme' = [payme EXCEPT ![r] = [state |-> "open", order |-> o]]
            /\ job' = [job EXCEPT ![h] = [j EXCEPT !.stage = "created", !.receipt = r, !.found = id]]
      BY <2>10 DEF CreateReceipt, FirstUnmade, j, o
    <3>2. job'[h].stage = "created" /\ job'[h].row = j.row /\ j.stage = "loaded"
      BY <2>1, <2>10, <3>1 DEF CreateReceipt, At, TypeOK, Job, j
    <3>3. MoneyAt(job'[h]) = MoneyAt(j)
      BY <3>2 DEF MoneyAt
    <3>4. \A q : AnsweredNext(q) = Answered(q)
      BY <3>1, AnsweredKept
    <3> QED BY <2>3, <2>5, <2>7, <2>10, <3>3, <3>4
  <2>11. CASE Pay(h)
    <3>1. j.stage = "locked" /\ j.receipt \in Receipts /\ payme[j.receipt].order = o /\ ~j.row.paid
      BY <2>1, <2>11 DEF Pay, At, RequestOK, j
    <3>2. MoneyAt(j) = {}
      BY <3>1 DEF MoneyAt, Money
    <3>3. CASE /\ payme' = [payme EXCEPT ![j.receipt].state = "paid"]
               /\ job' = [job EXCEPT ![h].stage = "charged"]
      <4>1. MoneyAt(job'[h]) = {j.receipt}
        <5>1. job'[h] = [j EXCEPT !.stage = "charged"]
          BY <3>3 DEF TypeOK, j
        <5> QED BY <2>1, <5>1 DEF MoneyAt, Job
      <4>2. AnsweredNext(o) = Answered(o) \cup {j.receipt}
        BY <3>1, <3>3, AnsweredAfter
      <4>3. \A q \in Orders \ {o} : AnsweredNext(q) = Answered(q)
        BY <3>1, <3>3, AnsweredKept
      <4> QED BY <2>3, <2>5, <2>7, <2>11, <3>2, <4>1, <4>2, <4>3
    <3>4. CASE /\ payme' = payme \/ payme' = [payme EXCEPT ![j.receipt].state = "waiting"]
               /\ \E s \in {"declined", "pending"} : job' = [job EXCEPT ![h].stage = s]
      <4>1. PICK s \in {"declined", "pending"} : job'[h] = [j EXCEPT !.stage = s]
        BY <3>4 DEF TypeOK, j
      <4>2. MoneyAt(job'[h]) = {}
        BY <2>1, <3>1, <4>1 DEF MoneyAt, Money, Job
      <4>3. \A q \in Orders \ {o} : AnsweredNext(q) = Answered(q)
        BY <3>1, <3>4, AnsweredKept
      <4>4. AnsweredNext(o) \subseteq Answered(o)
        <5>1. CASE payme' = payme
          BY <5>1, AnsweredKept
        <5>2. CASE payme' = [payme EXCEPT ![j.receipt].state = "waiting"]
          <6>1. AnsweredNext(o) = Answered(o) \ {j.receipt}
            BY <3>1, <5>2, AnsweredAfter
          <6> QED BY <6>1
        <5> QED BY <3>4, <5>1, <5>2
      <4> QED BY <2>3, <2>5, <2>7, <2>11, <3>2, <4>2, <4>3, <4>4
    <3> QED BY <2>11, <3>3, <3>4 DEF Pay, j
  <2>12. CASE CancelReceipt(h)
    <3>1. j.stage = "loaded" /\ MoneyAt(j) = Money(j.row)
      BY <2>12 DEF CancelReceipt, At, MoneyAt, j
    <3>2. CASE /\ j.row.receipt # NoReceipt
               /\ payme' = [payme EXCEPT ![j.row.receipt].state = "cancelled"]
               /\ \E id : job' = [job EXCEPT ![h] = [j EXCEPT !.stage = "cancelled", !.found = id]]
      <4>1. j.row.receipt \in Receipts /\ payme[j.row.receipt].order = o
        BY <2>1, <2>4, <3>2 DEF OwnReceipt
      <4>2. PICK id : job'[h] = [j EXCEPT !.stage = "cancelled", !.found = id]
        BY <3>2 DEF TypeOK
      <4>3. MoneyAt(job'[h]) = {}
        BY <2>1, <4>2 DEF MoneyAt, Job
      <4>4. AnsweredNext(o) = Answered(o) \ {j.row.receipt}
        BY <3>2, <4>1, AnsweredAfter
      <4>5. \A q \in Orders \ {o} : AnsweredNext(q) = Answered(q)
        BY <3>2, <4>1, AnsweredKept
      <4>6. o \notin trouble' => AnsweredNext(o) = {}
        BY <2>3, <2>5, <3>1, <4>4 DEF Money
      <4> QED BY <2>7, <2>12, <4>3, <4>5, <4>6
    <3>3. CASE /\ job' = [job EXCEPT ![h].stage = "refused"]
               /\ trouble' = IF j.row.receipt = NoReceipt THEN trouble ELSE trouble \cup {o}
               /\ payme' = payme
      <4>1. job'[h] = [j EXCEPT !.stage = "refused"]
        BY <3>3 DEF TypeOK, j
      <4>2. MoneyAt(job'[h]) = {}
        BY <2>1, <4>1 DEF MoneyAt, Job
      <4>3. \A q : AnsweredNext(q) = Answered(q)
        BY <3>3, AnsweredKept
      <4>4. o \notin trouble' => j.row.receipt = NoReceipt
        BY <3>3
      <4>5. o \notin trouble' => Money(j.row) = {}
        BY <2>6, <4>4 DEF Money, Receipts, NoReceipt
      <4> QED BY <2>3, <2>5, <2>7, <2>12, <3>1, <4>2, <4>3, <4>5
    <3> QED BY <2>12, <3>2, <3>3 DEF CancelReceipt, j, o
  <2>13. CASE AcceptPaid(h)
    <3>1. j.stage = "loaded" /\ order' = [order EXCEPT ![o] = [j.row EXCEPT !.status = "accepted"]]
      BY <2>13 DEF AcceptPaid, At, Save, j, o
    <3>2. Money([j.row EXCEPT !.status = "accepted"]) = MoneyAt(j)
      BY <2>1, <3>1 DEF Money, MoneyAt, Row
    <3>3. Money(order'[o]) = MoneyAt(j)
      BY <2>1, <3>1, <3>2 DEF TypeOK
    <3> QED BY <2>8, <2>13, <3>1, <3>3 DEF AcceptPaid
  <2>14. CASE AcceptCommit(h) \/ ExistsCommit(h)
    <3>1. /\ j.stage \in {"exists", "charged", "declined", "pending"}
          /\ order' = [order EXCEPT ![o] = Accepted(j)] /\ ~j.row.paid
      BY <2>1, <2>14 DEF AcceptCommit, ExistsCommit, At, Save, RequestOK, j, o
    <3>2. Accepted(j).paid = (j.stage = "charged")
          /\ Accepted(j).receipt = IF j.stage = "exists" THEN j.row.receipt ELSE j.receipt
      BY <2>1 DEF Accepted, Row
    <3>3. Money(Accepted(j)) = MoneyAt(j)
      BY <3>1, <3>2 DEF Money, MoneyAt
    <3>4. Money(order'[o]) = MoneyAt(j)
      BY <2>1, <3>1, <3>3 DEF TypeOK
    <3> QED BY <2>8, <2>14, <3>1, <3>4 DEF AcceptCommit, ExistsCommit
  <2>15. CASE RejectCommit(h)
    <3>1. j.stage \in {"cancelled", "refused"} /\ order' = [order EXCEPT ![o] = Rejected(j)]
      BY <2>15 DEF RejectCommit, At, Save, j, o
    <3>2. Money(Rejected(j)) = {} /\ MoneyAt(j) = {}
      BY <2>1, <3>1 DEF Money, MoneyAt, Rejected, Row
    <3>3. Money(order'[o]) = MoneyAt(j)
      BY <2>1, <3>1, <3>2 DEF TypeOK
    <3> QED BY <2>8, <2>15, <3>1, <3>3 DEF RejectCommit
  <2>16. CASE SaveCommit(h)
    <3>1. PICK row \in {[j.row EXCEPT !.status = "later"], [j.row EXCEPT !.total = j.total]} :
            order' = [order EXCEPT ![o] = row]
      BY <2>16 DEF SaveCommit, Save, j, o
    <3>2. j.stage = "loaded"
      BY <2>16 DEF SaveCommit, At, j
    <3>3. Money(row) = MoneyAt(j)
      BY <2>1, <3>1, <3>2 DEF Money, MoneyAt, Row
    <3>4. Money(order'[o]) = MoneyAt(j)
      BY <2>1, <3>1, <3>3 DEF TypeOK
    <3> QED BY <2>8, <2>16, <3>1, <3>4 DEF SaveCommit
  <2>17. CASE Rollback(h)
    <3>1. order' = order /\ payme' = payme /\ Done(h)
      BY <2>17 DEF Rollback, dbVars
    <3>2. o \notin trouble' => j.stage \in {"loaded", "exists"}
      BY <2>17 DEF Rollback, j, o
    <3>3. o \notin trouble' => Money(order'[o]) = MoneyAt(j)
      BY <2>3, <2>5, <3>1, <3>2 DEF MoneyAt
    <3> QED BY <2>8, <3>1, <3>3
  <2> QED BY <1>2, <2>9, <2>10, <2>11, <2>12, <2>13, <2>14, <2>15, <2>16, <2>17
<1>3. ASSUME NEW r \in Receipts, PaymeTakes(r)
      PROVE  Accounts'
  <2>1. payme' = [payme EXCEPT ![r].state = "taken"] /\ payme[r].state = "waiting"
        /\ UNCHANGED <<order, job, trouble>>
    BY <1>3 DEF PaymeTakes, dbVars
  <2>2. \A o : AnsweredNext(o) = Answered(o)
    BY <2>1, AnsweredIs DEF TypeOK, Receipt, AnsweredNext
  <2>3. \A o : Answered(o)' = Answered(o)
    BY <2>2, AnsweredIs DEF Answered
  <2> QED BY <2>1, <2>3 DEF Accounts, Agrees, Serves, Busy
<1> QED BY <1>1, <1>2, <1>3 DEF Next, Serve

LEMMA StutterAccounts ==
    ASSUME UNCHANGED vars PROVE (Ownership /\ Accounts <=> (Ownership /\ Accounts)')
BY DEF vars, dbVars, Ownership, OwnReceipt, Accounts, Agrees, Serves, Busy, Answered, Held, Late

\* Every row names a receipt of its own order, and Payme holds for an order
\* without trouble the money its row, or the request serving it, stands for.
THEOREM AccountsKept == Spec => [](Ownership /\ Accounts)
<1>1. TypeOK /\ Honesty /\ Ownership /\ Accounts /\ [Next]_vars => (Ownership /\ Accounts)'
  BY NextOwnership, NextAccounts, StutterAccounts
<1> QED BY <1>1, InitOwnership, TypeCorrect, RowsHonest, PTL DEF Spec

\* An order without trouble is never charged for twice, but for payments that Payme
\* had answered with another state and carried out all the same.
THEOREM ChargedOnce == Spec => []HeldOnce
<1>1. Accounts => HeldOnce
  <2> SUFFICES ASSUME Accounts, NEW o \in Orders \ trouble
               PROVE  Cardinality(Answered(o)) <= 1
    BY DEF HeldOnce, Answered
  <2>1. Answered(o) = {} \/ \E r : Answered(o) = {r}
    <3>1. \A row : Money(row) = {} \/ \E r : Money(row) = {r}
      BY DEF Money
    <3>2. \A j : MoneyAt(j) = {} \/ \E r : MoneyAt(j) = {r}
      BY <3>1 DEF MoneyAt
    <3>3. CASE Busy(o)
      <4>1. PICK h \in Handlers : Serves(h, o)
        BY <3>3 DEF Busy, Serves
      <4>2. Answered(o) = MoneyAt(job[h])
        BY <4>1 DEF Accounts, Agrees
      <4> QED BY <3>2, <4>2
    <3> QED BY <3>1, <3>3 DEF Accounts, Agrees
  <2>2. CASE Answered(o) = {}
    BY <2>2, FS_EmptySet
  <2>3. ASSUME NEW r, Answered(o) = {r} PROVE Cardinality(Answered(o)) <= 1
    <3>1. Cardinality({r}) = 1
      BY FS_Singleton
    <3> QED BY <2>3, <3>1
  <2> QED BY <2>1, <2>2, <2>3
<1> QED BY <1>1, AccountsKept, PTL

\* At rest and without trouble, the books and Payme differ by exactly those payments:
\* what else Payme holds for an order is what the order is marked paid with.
THEOREM RestingBooksAgree == Spec => []BooksAgree
<1>1. Accounts => BooksAgree
  BY DEF Accounts, Agrees, Answered, Money, BooksAgree
<1> QED BY <1>1, AccountsKept, PTL

-----------------------------------------------------------------------------
(* The Payment rows do not run ahead of Payme.                             *)
(*                                                                         *)
(* A commit adds a Payment row for a receipt charged earlier, so the       *)
(* charges not yet booked are counted with the rows; the lock of the order *)
(* row keeps them to one an order, and every request works on a receipt of *)
(* its own, so that a charge is a new one.                                 *)

Holding == {"locked", "charged", "declined", "pending"}
Working == Holding \cup {"created"}

In(h, stages) == job[h] # NoJob /\ job[h].stage \in stages

Charged(o) == {r \in charged : payme[r].order = o}

\* One request for o has been charged and has not committed.
Pending(o) == \E h \in Handlers : In(h, {"charged"}) /\ job[h].order = o

\* At most one request an order is past the lock of the order row.
OneHolder == \A g, h \in Handlers :
    In(g, Holding) /\ In(h, Holding) /\ job[g].order = job[h].order => g = h

\* No two requests work on the same receipt, and none was charged before its Pay.
OwnReceipts ==
    /\ \A g, h \in Handlers :
         In(g, Working) /\ In(h, Working) /\ job[g].receipt = job[h].receipt => g = h
    /\ \A h \in Handlers : In(h, {"created", "locked"}) => job[h].receipt \notin charged

Booked(o) == payments[o] + (IF Pending(o) THEN 1 ELSE 0) <= Cardinality(Charged(o))

\* The inductive invariant behind BooksNotAhead.
Booking == OneHolder /\ OwnReceipts /\ \A o \in Orders : Booked(o)

InNext(h, stages) == job'[h] # NoJob /\ job'[h].stage \in stages
ChargedNext(o)    == {r \in charged' : payme'[r].order = o}
PendingNext(o)    == \E h \in Handlers : InNext(h, {"charged"}) /\ job'[h].order = o
BookedNext(o)     == payments'[o] + (IF PendingNext(o) THEN 1 ELSE 0) <= Cardinality(ChargedNext(o))

\* A step of handler h: its request stays, goes on or ends, and enters the lock
\* of the order row only when nobody holds it.
LEMMA StepHolder ==
    ASSUME TypeOK, OneHolder, NEW h \in Handlers, job' = [job EXCEPT ![h] = job'[h]],
           InNext(h, Holding) =>
             /\ job[h] # NoJob /\ job'[h].order = job[h].order
             /\ In(h, Holding) \/ Unlocked(job[h].order)
    PROVE  OneHolder'
<1>1. \A g \in Handlers : g # h => job'[g] = job[g]
  BY DEF TypeOK
<1>2. \A g \in Handlers : In(g, Holding) => At(g, "accept", {"locked", "charged", "declined", "pending"})
  <2>1. \A g \in Handlers : In(g, Holding) => job[g].kind = "accept"
    BY DEF TypeOK, In, Holding, RequestOK, StagesOf, Job, Kinds
  <2> QED BY <2>1 DEF In, At, Holding
<1>3. ASSUME NEW g \in Handlers, g # h, InNext(g, Holding), InNext(h, Holding),
             job'[g].order = job'[h].order
      PROVE  FALSE
  <2>1. In(g, Holding) /\ job[g].order = job[h].order
    BY <1>1, <1>3 DEF In, InNext
  <2> QED BY <1>2, <1>3, <2>1 DEF OneHolder, Unlocked
<1>4. \A f, g \in Handlers :
        InNext(f, Holding) /\ InNext(g, Holding) /\ job'[f].order = job'[g].order => f = g
  <2> SUFFICES ASSUME NEW f \in Handlers, NEW g \in Handlers, InNext(f, Holding), InNext(g, Holding),
                      job'[f].order = job'[g].order
               PROVE  f = g
    OBVIOUS
  <2>1. CASE f # h /\ g # h
    BY <1>1, <2>1 DEF OneHolder, In, InNext
  <2> QED BY <1>3, <2>1
<1> QED BY <1>4 DEF OneHolder, In, InNext

\* The receipt a request works on is its own, or Payme's next one.
LEMMA StepReceipts ==
    ASSUME TypeOK, Honesty, OwnReceipts, NEW h \in Handlers, job' = [job EXCEPT ![h] = job'[h]],
           InNext(h, Working) =>
             \/ In(h, Working) /\ job'[h].receipt = job[h].receipt
             \/ payme[job'[h].receipt].state = "none" /\ charged' = charged,
           InNext(h, {"created", "locked"}) /\ In(h, Working) =>
             In(h, {"created", "locked"}) /\ charged' = charged,
           charged' # charged => In(h, {"locked"}) /\ charged' = charged \cup {job[h].receipt}
    PROVE  OwnReceipts'
<1>1. \A g \in Handlers : g # h => job'[g] = job[g]
  BY DEF TypeOK
<1>2. \A g \in Handlers : In(g, Working) => payme[job[g].receipt].state # "none"
  BY DEF TypeOK, In, Working, Holding, RequestOK
<1>3. \A r \in charged : payme[r].state # "none"
  BY DEF Honesty
<1>4. ASSUME NEW g \in Handlers, g # h, InNext(g, Working), InNext(h, Working),
             job'[g].receipt = job'[h].receipt
      PROVE  FALSE
  <2>1. In(g, Working) /\ job[g].receipt = job'[h].receipt
    BY <1>1, <1>4 DEF In, InNext
  <2> QED BY <1>2, <1>4, <2>1 DEF OwnReceipts
<1>5. \A f, g \in Handlers :
        InNext(f, Working) /\ InNext(g, Working) /\ job'[f].receipt = job'[g].receipt => f = g
  <2> SUFFICES ASSUME NEW f \in Handlers, NEW g \in Handlers, InNext(f, Working), InNext(g, Working),
                      job'[f].receipt = job'[g].receipt
               PROVE  f = g
    OBVIOUS
  <2>1. CASE f # h /\ g # h
    BY <1>1, <2>1 DEF OwnReceipts, In, InNext
  <2> QED BY <1>4, <2>1
<1>6. ASSUME NEW g \in Handlers, InNext(g, {"created", "locked"})
      PROVE  job'[g].receipt \notin charged'
  <2>1. CASE g = h
    <3>1. InNext(h, Working)
      BY <1>6, <2>1 DEF InNext, Working, Holding
    <3> QED BY <1>3, <1>6, <2>1, <3>1 DEF OwnReceipts
  <2>2. CASE g # h
    <3>1. In(g, {"created", "locked"}) /\ In(g, Working) /\ job'[g] = job[g]
      BY <1>1, <1>6, <2>2 DEF In, InNext, Working, Holding
    <3>2. In(h, {"locked"}) => In(h, Working)
      BY DEF In, Working, Holding
    <3> QED BY <2>2, <3>1, <3>2 DEF OwnReceipts
  <2> QED BY <2>1, <2>2
<1> QED BY <1>5, <1>6 DEF OwnReceipts, In, InNext

LEMMA ChargedFinite ==
    ASSUME TypeOK, NEW o
    PROVE  IsFiniteSet(Charged(o)) /\ Cardinality(Charged(o)) \in Nat
<1>1. IsFiniteSet(Receipts)
  BY BoundAssumption, FS_Interval DEF Receipts
<1>2. Charged(o) \in SUBSET Receipts
  BY DEF Charged, TypeOK
<1> QED BY <1>1, <1>2, FS_Subset, FS_CardinalityType

\* The books of one order after a step.
LEMMA StepBooked ==
    ASSUME TypeOK, NEW o \in Orders, Booked(o), payments'[o] \in Nat,
           \/ /\ ChargedNext(o) = Charged(o)
              /\ \/ payments'[o] = payments[o] /\ (PendingNext(o) => Pending(o))
                 \/ payments'[o] = payments[o] + 1 /\ Pending(o) /\ ~PendingNext(o)
           \/ /\ \E r : r \notin Charged(o) /\ ChargedNext(o) = Charged(o) \cup {r}
              /\ payments'[o] = payments[o] /\ ~Pending(o)
    PROVE  BookedNext(o)
<1> DEFINE k == Cardinality(Charged(o))
           n == payments[o]
<1>1. k \in Nat /\ n \in Nat
  BY ChargedFinite DEF TypeOK
<1>2. n + (IF Pending(o) THEN 1 ELSE 0) <= k
  BY DEF Booked
<1>3. CASE ChargedNext(o) = Charged(o)
  <2>1. Cardinality(ChargedNext(o)) = k
    BY <1>3
  <2>2. \/ payments'[o] = n /\ (PendingNext(o) => Pending(o))
        \/ payments'[o] = n + 1 /\ Pending(o) /\ ~PendingNext(o)
        \/ payments'[o] = n /\ ~Pending(o) /\ \E r : r \notin Charged(o) /\ r \in ChargedNext(o)
    OBVIOUS
  <2> HIDE DEF k, n
  <2> QED BY <1>1, <1>2, <1>3, <2>1, <2>2 DEF BookedNext
<1>4. ASSUME NEW r, r \notin Charged(o), ChargedNext(o) = Charged(o) \cup {r},
             payments'[o] = n, ~Pending(o)
      PROVE  BookedNext(o)
  <2>1. Cardinality(ChargedNext(o)) = k + 1
    BY <1>4, ChargedFinite, FS_AddElement
  <2> HIDE DEF k, n
  <2> QED BY <1>1, <1>2, <1>4, <2>1 DEF BookedNext
<1> QED BY <1>3, <1>4

LEMMA InitBooking == Init => Booking
<1> SUFFICES ASSUME Init PROVE Booking
  OBVIOUS
<1>1. \A h \in Handlers : job[h] = NoJob
  BY DEF Init
<1>2. \A o \in Orders : Booked(o)
  <2> SUFFICES ASSUME NEW o \in Orders PROVE Booked(o)
    OBVIOUS
  <2>1. Charged(o) = {} /\ payments[o] = 0 /\ ~Pending(o)
    BY <1>1 DEF Init, Charged, Pending, In
  <2>2. Cardinality(Charged(o)) = 0
    BY <2>1, FS_EmptySet
  <2> QED BY <2>1, <2>2 DEF Booked
<1> QED BY <1>1, <1>2 DEF Booking, OneHolder, OwnReceipts, In

LEMMA NextBooking ==
    ASSUME TypeOK, TypeOK', Honesty, Booking, Next
    PROVE  Booking'
\* Booking in the next state, when no receipt is charged and no request is at
\* "charged" that was not.
<1>1. ASSUME NEW h \in Handlers, Keeps, charged' = charged, payments' = payments,
             OneHolder', OwnReceipts',
             job' = [job EXCEPT ![h] = job'[h]],
             InNext(h, {"charged"}) => In(h, {"charged"}) /\ job'[h].order = job[h].order
      PROVE  Booking'
  <2>1. ASSUME NEW o \in Orders PROVE BookedNext(o)
    <3>1. ChargedNext(o) = Charged(o)
      BY <1>1 DEF Charged, ChargedNext, Keeps, Honesty, TypeOK
    <3>2. PendingNext(o) => Pending(o)
      BY <1>1 DEF Pending, PendingNext, In, InNext, TypeOK
    <3>3. Booked(o) /\ payments'[o] \in Nat /\ payments'[o] = payments[o]
      BY <1>1 DEF Booking, TypeOK
    <3> QED BY <3>1, <3>2, <3>3, StepBooked
  <2>2. \A o \in Orders : Booked(o)'
    BY <2>1 DEF Booked, BookedNext, Charged, ChargedNext, Pending, PendingNext, In, InNext
  <2> QED BY <1>1, <2>2 DEF Booking
<1>2. ASSUME NEW h \in Handlers, NEW o \in Orders,
             Accept(h, o) \/ Reject(h, o) \/ Move(h, o) \/ \E t \in Totals : EditItems(h, o, t)
      PROVE  Booking'
  <2>1. PICK kind, t : Load(h, o, kind, t)
    BY <1>2 DEF Accept, Reject, Move, EditItems
  <2>2. /\ job' = [job EXCEPT ![h] = job'[h]] /\ job'[h].stage = "loaded"
        /\ payme' = payme /\ charged' = charged /\ payments' = payments
    BY <2>1 DEF Load, dbVars, TypeOK
  <2>3. ~InNext(h, Working) /\ ~InNext(h, Holding) /\ ~InNext(h, {"charged"})
    BY <2>2 DEF InNext, Working, Holding
  <2>4. ~InNext(h, {"created", "locked"}) /\ Keeps
    BY <2>2 DEF InNext, Keeps
  <2> QED BY <1>1, <2>2, <2>3, <2>4, StepHolder, StepReceipts DEF Booking
<1>3. ASSUME NEW h \in Handlers,
             \/ AcceptPaid(h) \/ FindPaid(h) \/ CreateReceipt(h) \/ SaveReceipt(h) \/ Pay(h)
             \/ AcceptCommit(h) \/ ExistsCommit(h) \/ CancelReceipt(h) \/ RejectCommit(h)
             \/ SaveCommit(h) \/ Rollback(h)
      PROVE  Booking'
  <2> DEFINE j == job[h]
             o == job[h].order
  <2>1. /\ j # NoJob /\ j \in Job /\ RequestOK(j) /\ o \in Orders /\ o = j.order
        /\ j.receipt \in Receipts \cup {NoReceipt}
    BY <1>3, FinishingJob
  <2> HIDE DEF j, o
  \* A request that ends.
  <2>2. ASSUME Done(h)
        PROVE  /\ job' = [job EXCEPT ![h] = job'[h]] /\ job'[h] = NoJob
               /\ \A stages : ~InNext(h, stages)
    BY <2>2 DEF Done, TypeOK, InNext
  <2>3. ASSUME Done(h), payme' = payme, charged' = charged
        PROVE  OneHolder' /\ OwnReceipts' /\ Keeps
    <3>1. Keeps
      BY <2>3 DEF Keeps
    <3> QED BY <2>2, <2>3, <3>1, StepHolder, StepReceipts DEF Booking
  \* A request that goes on.
  <2>4. ASSUME FindPaid(h) \/ CreateReceipt(h) \/ SaveReceipt(h) \/ Pay(h) \/ CancelReceipt(h)
        PROVE  /\ job'[h] # NoJob /\ job'[h].order = o /\ job[h] # NoJob
               /\ job' = [job EXCEPT ![h] = job'[h]] /\ payments' = payments /\ Keeps
    BY <2>1, <2>4, GoesOn DEF j, o
  <2>5. CASE AcceptPaid(h) \/ ExistsCommit(h) \/ RejectCommit(h) \/ SaveCommit(h) \/ Rollback(h)
    <3>1. Done(h) /\ payme' = payme /\ charged' = charged /\ payments' = payments
      BY <2>5 DEF AcceptPaid, ExistsCommit, RejectCommit, SaveCommit, Rollback, dbVars
    <3> QED BY <1>1, <2>2, <2>3, <3>1
  <2>6. CASE FindPaid(h) \/ CancelReceipt(h)
    <3>1. job'[h].stage \in {"exists", "cancelled", "refused"} /\ charged' = charged
      <4>1. CASE \E id : job' = [job EXCEPT ![h] = [j EXCEPT !.stage = "cancelled", !.found = id]]
        BY <2>1, <2>6, <4>1 DEF FindPaid, CancelReceipt, TypeOK, Job
      <4>2. CASE \E s \in {"exists", "refused"} : job' = [job EXCEPT ![h].stage = s]
        BY <2>1, <2>6, <4>2 DEF FindPaid, CancelReceipt, TypeOK, Job, j
      <4> QED BY <2>6, <4>1, <4>2 DEF FindPaid, CancelReceipt, j
    <3>2. ~InNext(h, Working) /\ ~InNext(h, Holding) /\ ~InNext(h, {"charged"})
          /\ ~InNext(h, {"created", "locked"})
      BY <3>1 DEF InNext, Working, Holding
    <3>3. OneHolder' /\ OwnReceipts'
      BY <2>4, <2>6, <3>1, <3>2, StepHolder, StepReceipts DEF Booking
    <3> QED BY <1>1, <2>4, <2>6, <3>1, <3>2, <3>3
  <2>7. CASE CreateReceipt(h)
    <3>1. PICK r, id :
            /\ r \in Receipts /\ payme[r].state = "none" /\ charged' = charged
            /\ job' = [job EXCEPT ![h] = [j EXCEPT !.stage = "created", !.receipt = r, !.found = id]]
      BY <2>7 DEF CreateReceipt, FirstUnmade, j
    <3>2. job'[h].stage = "created" /\ job'[h].receipt = r /\ j.stage = "loaded"
      BY <2>1, <2>7, <3>1 DEF CreateReceipt, At, TypeOK, Job, j
    <3>3. ~InNext(h, Holding) /\ ~InNext(h, {"charged"}) /\ ~In(h, Working)
      BY <3>2 DEF In, InNext, Working, Holding, j
    <3>4. OneHolder' /\ OwnReceipts'
      BY <2>4, <2>7, <3>1, <3>2, <3>3, StepHolder, StepReceipts DEF Booking
    <3> QED BY <1>1, <2>4, <2>7, <3>1, <3>3, <3>4
  <2>8. CASE SaveReceipt(h)
    <3>1. job'[h] = [j EXCEPT !.stage = "locked"] /\ j.stage = "created" /\ Unlocked(o)
          /\ charged' = charged
      BY <2>8 DEF SaveReceipt, At, TypeOK, j, o
    <3>2. job'[h].stage = "locked" /\ job'[h].receipt = j.receipt
      BY <2>1, <3>1 DEF Job
    <3>3. ~InNext(h, {"charged"}) /\ In(h, Working) /\ In(h, {"created", "locked"})
      BY <2>1, <3>1, <3>2 DEF In, InNext, Working, Holding, j
    <3>4. OneHolder' /\ OwnReceipts'
      BY <2>4, <2>8, <3>1, <3>2, <3>3, StepHolder, StepReceipts DEF Booking, j, o
    <3> QED BY <1>1, <2>4, <2>8, <3>1, <3>3, <3>4
  <2>9. CASE Pay(h)
    <3>1. /\ j.stage = "locked" /\ j.receipt \in Receipts
          /\ payme[j.receipt].order = o /\ payme[j.receipt].state # "none"
      BY <2>1, <2>9 DEF Pay, At, RequestOK, j
    <3>2. PICK s \in {"charged", "declined", "pending"} : job'[h] = [j EXCEPT !.stage = s]
      BY <2>9 DEF Pay, TypeOK, j
    <3>3. job'[h].stage = s /\ job'[h].receipt = j.receipt
      BY <2>1, <3>2 DEF Job
    <3>4. /\ In(h, {"locked"}) /\ In(h, Holding) /\ In(h, Working) /\ In(h, {"created", "locked"})
          /\ ~InNext(h, {"created", "locked"})
      BY <2>1, <3>1, <3>3 DEF In, InNext, Working, Holding, j
    <3>5. charged' = charged \/ (charged' = charged \cup {j.receipt} /\ s = "charged")
      BY <2>1, <2>9, <3>2, <3>3 DEF Pay, TypeOK, Job, j
    <3>6. OneHolder' /\ OwnReceipts'
      BY <2>4, <2>9, <3>3, <3>4, <3>5, StepHolder, StepReceipts DEF Booking, j, o
    <3>7. CASE s # "charged"
      <4>1. ~InNext(h, {"charged"}) /\ charged' = charged
        BY <3>3, <3>5, <3>7 DEF InNext
      <4> QED BY <1>1, <2>4, <2>9, <3>6, <4>1
    <3>8. CASE s = "charged"
      <4>1. charged' = charged \cup {j.receipt} /\ payme' = [payme EXCEPT ![j.receipt].state = "paid"]
        BY <2>1, <2>9, <3>3, <3>8 DEF Pay, TypeOK, Job, j
      <4>2. j.receipt \notin charged
        BY <2>1, <3>4 DEF Booking, OwnReceipts, j
      <4>3. \A r \in Receipts : payme'[r].order = payme[r].order
        BY <4>1 DEF TypeOK, Receipt
      <4>4. ASSUME NEW q \in Orders PROVE BookedNext(q)
        <5>1. Booked(q) /\ payments'[q] \in Nat /\ payments'[q] = payments[q]
          BY <2>4, <2>9 DEF Booking, TypeOK
        <5>2. CASE q = o
          <6>1. j.receipt \notin Charged(q) /\ ChargedNext(q) = Charged(q) \cup {j.receipt}
            BY <3>1, <4>1, <4>2, <4>3, <5>2 DEF Charged, ChargedNext, TypeOK
          <6>2. ~Pending(q)
            <7> SUFFICES ASSUME NEW g \in Handlers, In(g, {"charged"}), job[g].order = q
                         PROVE  FALSE
              BY DEF Pending
            <7>1. In(g, Holding) /\ In(h, Holding) /\ job[g].order = job[h].order
              BY <3>4, <5>2 DEF In, Holding, o
            <7>2. g = h
              BY <7>1 DEF Booking, OneHolder
            <7> QED BY <3>1, <7>2 DEF In, j
          <6> QED BY <5>1, <6>1, <6>2, StepBooked
        <5>3. CASE q # o
          <6>1. ChargedNext(q) = Charged(q)
            BY <3>1, <4>1, <4>3, <5>3 DEF Charged, ChargedNext, TypeOK
          <6>2. PendingNext(q) => Pending(q)
            BY <2>4, <2>9, <5>3 DEF Pending, PendingNext, In, InNext, TypeOK
          <6> QED BY <5>1, <6>1, <6>2, StepBooked
        <5> QED BY <5>2, <5>3
      <4>5. \A q \in Orders : Booked(q)'
        BY <4>4 DEF Booked, BookedNext, Charged, ChargedNext, Pending, PendingNext, In, InNext
      <4> QED BY <3>6, <4>5 DEF Booking
    <3> QED BY <3>7, <3>8
  <2>10. CASE AcceptCommit(h)
    <3>1. /\ Done(h) /\ payme' = payme /\ charged' = charged
          /\ j.stage \in {"charged", "declined", "pending"}
          /\ payments' = [payments EXCEPT ![o] = IF j.stage = "charged" THEN payments[o] + 1
                                                 ELSE payments[o]]
      BY <2>10 DEF AcceptCommit, At, Books, j, o
    <3>2. OneHolder' /\ OwnReceipts' /\ Keeps
      BY <2>3, <3>1
    <3>3. ASSUME NEW q \in Orders PROVE BookedNext(q)
      <4>1. Booked(q) /\ payments'[q] \in Nat
        BY DEF Booking, TypeOK
      <4>2. ChargedNext(q) = Charged(q)
        BY <3>1 DEF Charged, ChargedNext
      <4>3. PendingNext(q) => Pending(q)
        BY <2>2, <3>1 DEF Pending, PendingNext, In, InNext, TypeOK
      <4>4. CASE q = o /\ j.stage = "charged"
        <5>1. payments'[q] = payments[q] + 1
          BY <3>1, <4>4 DEF TypeOK
        <5>2. Pending(q)
          BY <2>1, <4>4 DEF Pending, In, j, o
        <5>3. ~PendingNext(q)
          <6> SUFFICES ASSUME NEW g \in Handlers, InNext(g, {"charged"}), job'[g].order = q
                       PROVE  FALSE
            BY DEF PendingNext
          <6>1. g # h /\ job'[g] = job[g]
            BY <2>2, <3>1 DEF TypeOK
          <6>2. In(g, Holding) /\ In(h, Holding) /\ job[g].order = job[h].order
            BY <2>1, <4>4, <6>1 DEF In, InNext, Holding, j, o
          <6> QED BY <6>1, <6>2 DEF Booking, OneHolder
        <5> QED BY <4>1, <4>2, <5>1, <5>2, <5>3, StepBooked
      <4>5. CASE ~(q = o /\ j.stage = "charged")
        <5>1. payments'[q] = payments[q]
          BY <2>1, <3>1, <4>5 DEF TypeOK
        <5> QED BY <4>1, <4>2, <4>3, <5>1, StepBooked
      <4> QED BY <4>4, <4>5
    <3>4. \A q \in Orders : Booked(q)'
      BY <3>3 DEF Booked, BookedNext, Charged, ChargedNext, Pending, PendingNext, In, InNext
    <3> QED BY <3>2, <3>4 DEF Booking
  <2> QED BY <1>3, <2>5, <2>6, <2>7, <2>8, <2>9, <2>10
<1>4. ASSUME NEW r \in Receipts, PaymeTakes(r)
      PROVE  Booking'
  <2>1. payme' = [payme EXCEPT ![r].state = "taken"] /\ UNCHANGED <<payments, job, charged>>
    BY <1>4 DEF PaymeTakes, dbVars
  <2>2. \A q \in Receipts : payme'[q].order = payme[q].order
    BY <2>1 DEF TypeOK, Receipt
  <2>3. \A o : Charged(o)' = Charged(o) /\ Pending(o)' = Pending(o)
    BY <2>1, <2>2 DEF Charged, Pending, In, TypeOK
  <2>4. \A o \in Orders : Booked(o)'
    BY <2>1, <2>3 DEF Booking, Booked
  <2> QED BY <2>1, <2>4 DEF Booking, OneHolder, OwnReceipts, In
<1> QED BY <1>2, <1>3, <1>4 DEF Next, Serve

\* The inductive invariant: charges not yet booked included, the Payment rows of
\* an order are no more than the receipts ever paid for it.
THEOREM BooksKept == Spec => []Booking
<1>1. UNCHANGED vars => (Booking <=> Booking')
  BY DEF vars, dbVars, Booking, OneHolder, OwnReceipts, Booked, Charged, Pending, In
<1>2. TypeOK /\ TypeOK' /\ Honesty /\ Booking /\ [Next]_vars => Booking'
  BY <1>1, NextBooking
<1> QED BY <1>2, InitBooking, TypeCorrect, RowsHonest, PTL DEF Spec

\* There is never a Payment row more than receipts paid: the books do not run
\* ahead of Payme, whatever was rolled back.
THEOREM BooksNeverAhead == Spec => []BooksNotAhead
<1>1. TypeOK /\ Booking => BooksNotAhead
  <2> SUFFICES ASSUME TypeOK, Booking, NEW o \in Orders
               PROVE  payments[o] <= Cardinality(Charged(o))
    BY DEF BooksNotAhead, Charged
  <2>1. Cardinality(Charged(o)) \in Nat /\ payments[o] \in Nat
    BY ChargedFinite DEF TypeOK
  <2> QED BY <2>1 DEF Booking, Booked
<1> QED BY <1>1, BooksKept, TypeCorrect, PTL

=============================================================================
