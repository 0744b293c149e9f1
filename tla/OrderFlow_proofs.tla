-------------------------- MODULE OrderFlow_proofs --------------------------
(***************************************************************************)
(* Theorems about OrderFlow and the lists made of it (OrderBoards), for    *)
(* any sets of orders, couriers and handlers.                              *)
(***************************************************************************)
EXTENDS OrderBoards, TLAPS

\* What every entry point gives to Load.
Fits(o, via, c, s) ==
    /\ order[o].status \in WorksOn(via)
    /\ via \in Updates => s # order[o].status
    /\ via \notin {"assign", "replace", "close"} => c = order[o].courier
    /\ via = "close" => s = "closed"

LEMMA WorksOnEach ==
    /\ WorksOn("assign") = {"accepted"} /\ WorksOn("accept") = {"created", "pending"}
    /\ WorksOn("cooking") = {"accepted"} /\ WorksOn("ready") = {"accepted", "cooking"}
    /\ WorksOn("customer") = {"created"} /\ WorksOn("replace") = Statuses \ Completed
    /\ \A via \in {"crm", "take", "close", "cancel", "process", "incident", "save"} :
         WorksOn(via) = Statuses
BY DEF WorksOn

\* Every entry point is a Load of a fitting request.
LEMMA BeginLoads ==
    ASSUME TypeOK, NEW h \in Handlers, Begin(h)
    PROVE  \E o \in Orders, via \in Updates \cup Writes, c \in Couriers \cup {NoCourier},
              s \in Statuses, z \in BOOLEAN : Load(h, o, via, c, s, z) /\ Fits(o, via, c, s)
<1>1. PICK o \in Orders :
        \/ \E c \in Couriers : AssignOrder(h, o, c) \/ CloseOrder(h, o, c)
        \/ TakeOrder(h, o)
        \/ \E s \in CrmStatuses : CrmUpdateStatus(h, o, s)
        \/ \E c \in CrmCouriers : ChangeCourier(h, o, c)
        \/ \E z \in BOOLEAN : RestaurantAccept(h, o, z)
        \/ \E via \in {"process", "incident"} : RestaurantProcess(h, o, via)
        \/ RestaurantCancel(h, o) \/ RestaurantCooking(h, o) \/ RestaurantReady(h, o)
        \/ CustomerCancel(h, o)
        \/ SaveOrder(h, o)
  BY DEF Begin
<1>2. order[o].courier \in Couriers \cup {NoCourier} /\ order[o].status \in Statuses
  BY DEF TypeOK, Row
<1>u. ASSUME NEW via \in Updates, NEW c \in Couriers \cup {NoCourier}, NEW s \in Statuses,
             NEW z \in BOOLEAN, CallUpdate(h, o, via, c, s, z),
             order[o].status \in WorksOn(via),
             via # "close" => c = order[o].courier, via = "close" => s = "closed"
      PROVE  Load(h, o, via, c, s, z) /\ Fits(o, via, c, s)
  BY <1>u DEF CallUpdate, Refuses, Fits, Updates
<1>w. ASSUME NEW via \in Writes, NEW c \in Couriers \cup {NoCourier}, CallWrite(h, o, via, c),
             order[o].status \in WorksOn(via),
             via \notin {"assign", "replace"} => c = order[o].courier
      PROVE  Load(h, o, via, c, order[o].status, FALSE) /\ Fits(o, via, c, order[o].status)
  BY <1>w DEF CallWrite, Fits, Writes, Updates
<1>3. CASE \E c \in Couriers : AssignOrder(h, o, c)
  <2>1. PICK c \in Couriers : CallWrite(h, o, "assign", c) /\ order[o].status = "accepted"
    BY <1>3 DEF AssignOrder
  <2>2. Load(h, o, "assign", c, order[o].status, FALSE) /\ Fits(o, "assign", c, order[o].status)
    BY <2>1, <1>w, WorksOnEach DEF Writes
  <2> QED BY <2>2, <1>2 DEF Writes
<1>4. CASE \E c \in Couriers : CloseOrder(h, o, c)
  <2>1. PICK c \in Couriers : CallUpdate(h, o, "close", c, "closed", FALSE)
    BY <1>4 DEF CloseOrder
  <2>2. Load(h, o, "close", c, "closed", FALSE) /\ Fits(o, "close", c, "closed")
    BY <2>1, <1>u, <1>2, WorksOnEach DEF Updates, Statuses
  <2> QED BY <2>2 DEF Updates, Statuses
<1>5. CASE TakeOrder(h, o)
  <2>1. Load(h, o, "take", order[o].courier, "shipped", FALSE) /\ Fits(o, "take", order[o].courier, "shipped")
    BY <1>5, <1>u, <1>2, WorksOnEach DEF TakeOrder, Updates, Statuses
  <2> QED BY <2>1, <1>2 DEF Updates, Statuses
<1>6. CASE \E s \in CrmStatuses : CrmUpdateStatus(h, o, s)
  <2>1. PICK s \in CrmStatuses : CallUpdate(h, o, "crm", order[o].courier, s, FALSE)
    BY <1>6 DEF CrmUpdateStatus
  <2>2. s \in Statuses
    BY InputAssumption
  <2>3. Load(h, o, "crm", order[o].courier, s, FALSE) /\ Fits(o, "crm", order[o].courier, s)
    BY <2>1, <2>2, <1>u, <1>2, WorksOnEach DEF Updates
  <2> QED BY <2>2, <2>3, <1>2 DEF Updates
<1>7. CASE \E c \in CrmCouriers : ChangeCourier(h, o, c)
  <2>1. PICK c \in CrmCouriers : CallWrite(h, o, "replace", c) /\ order[o].status \notin Completed
    BY <1>7 DEF ChangeCourier
  <2>2. c \in Couriers \cup {NoCourier}
    BY InputAssumption
  <2>3. Load(h, o, "replace", c, order[o].status, FALSE) /\ Fits(o, "replace", c, order[o].status)
    BY <2>1, <2>2, <1>2, <1>w, WorksOnEach DEF Writes
  <2> QED BY <2>2, <2>3, <1>2 DEF Writes
<1>8. CASE \E z \in BOOLEAN : RestaurantAccept(h, o, z)
  <2>1. PICK z \in BOOLEAN : /\ CallUpdate(h, o, "accept", order[o].courier, "accepted", z)
                             /\ order[o].status \in {"created", "pending"}
    BY <1>8 DEF RestaurantAccept
  <2>2. Load(h, o, "accept", order[o].courier, "accepted", z) /\ Fits(o, "accept", order[o].courier, "accepted")
    BY <2>1, <1>u, <1>2, WorksOnEach DEF Updates, Statuses
  <2> QED BY <2>2, <1>2 DEF Updates, Statuses
<1>9. CASE \E via \in {"process", "incident"} : RestaurantProcess(h, o, via)
  <2>1. PICK via \in {"process", "incident"} : CallWrite(h, o, via, order[o].courier)
    BY <1>9 DEF RestaurantProcess
  <2>2. via \in Writes /\ order[o].status \in WorksOn(via) /\ via \notin {"assign", "replace"}
    BY <1>2, WorksOnEach DEF Writes
  <2>3. Load(h, o, via, order[o].courier, order[o].status, FALSE) /\ Fits(o, via, order[o].courier, order[o].status)
    BY <2>1, <2>2, <1>w, <1>2
  <2> QED BY <2>2, <2>3, <1>2
<1>10. CASE RestaurantCancel(h, o)
  <2>1. Load(h, o, "cancel", order[o].courier, "rejected", FALSE) /\ Fits(o, "cancel", order[o].courier, "rejected")
    BY <1>10, <1>u, <1>2, WorksOnEach DEF RestaurantCancel, Updates, Statuses
  <2> QED BY <2>1, <1>2 DEF Updates, Statuses
<1>11. CASE RestaurantCooking(h, o)
  <2>1. Load(h, o, "cooking", order[o].courier, "cooking", FALSE) /\ Fits(o, "cooking", order[o].courier, "cooking")
    BY <1>11, <1>u, <1>2, WorksOnEach DEF RestaurantCooking, Updates, Statuses
  <2> QED BY <2>1, <1>2 DEF Updates, Statuses
<1>12. CASE RestaurantReady(h, o)
  <2>1. Load(h, o, "ready", order[o].courier, "ready", FALSE) /\ Fits(o, "ready", order[o].courier, "ready")
    BY <1>12, <1>u, <1>2, WorksOnEach DEF RestaurantReady, Updates, Statuses
  <2> QED BY <2>1, <1>2 DEF Updates, Statuses
<1>13. CASE CustomerCancel(h, o)
  <2>1. Load(h, o, "customer", NoCourier, "rejected", FALSE) /\ Fits(o, "customer", NoCourier, "rejected")
    BY <1>13, <1>u, WorksOnEach DEF CustomerCancel, CallUpdate, Refuses, Updates, Statuses
  <2> QED BY <2>1 DEF Updates, Statuses
<1>14. CASE SaveOrder(h, o)
  <2>1. Load(h, o, "save", order[o].courier, order[o].status, FALSE) /\ Fits(o, "save", order[o].courier, order[o].status)
    BY <1>14, <1>w, <1>2, WorksOnEach DEF SaveOrder, Writes
  <2> QED BY <2>1, <1>2 DEF Writes
<1> QED
  BY <1>1, <1>3, <1>4, <1>5, <1>6, <1>7, <1>8, <1>9, <1>10, <1>11, <1>12, <1>13, <1>14

-----------------------------------------------------------------------------
(* Types.                                                                  *)

JobsOK == /\ job \in [Handlers -> Job \cup {NoJob}]
          /\ \A h \in Handlers : job[h] # NoJob => RequestOK(job[h])

\* A handler that is done leaves the other requests as they are.
LEMMA DoneJobs ==
    ASSUME JobsOK, NEW h \in Handlers, Done(h)
    PROVE  JobsOK'
BY DEF JobsOK, Done

\* A handler that goes on keeps everything of its request but the stage.
LEMMA AdvanceJobs ==
    ASSUME JobsOK, NEW h \in Handlers, NEW stage \in Stages, job[h] # NoJob, Advance(h, stage),
           stage = "locked" => job[h].via = "assign",
           stage = "saved" => job[h].via = "replace",
           stage = "settling" => job[h].via \in Updates /\ job[h].to = "closed"
    PROVE  /\ JobsOK'
           /\ job'[h] = [job[h] EXCEPT !.stage = stage]
           /\ \A g \in Handlers \ {h} : job'[g] = job[g]
<1>1. job[h] \in Job /\ RequestOK(job[h])
  BY DEF JobsOK
<1>2. /\ job'[h] = [job[h] EXCEPT !.stage = stage]
      /\ \A g \in Handlers \ {h} : job'[g] = job[g]
      /\ job' \in [Handlers -> Job \cup {NoJob}]
  BY <1>1 DEF JobsOK, Advance, Job
<1>3. RequestOK(job'[h])
  BY <1>1, <1>2 DEF RequestOK, Job
<1> QED BY <1>2, <1>3 DEF JobsOK

\* A fitting request is well formed when it is loaded.
LEMMA LoadJobs ==
    ASSUME TypeOK, NEW h \in Handlers, NEW o \in Orders, NEW via \in Updates \cup Writes,
           NEW c \in Couriers \cup {NoCourier}, NEW s \in Statuses, NEW z \in BOOLEAN,
           Load(h, o, via, c, s, z), Fits(o, via, c, s)
    PROVE  TypeOK'
<1> DEFINE new == [via |-> via, stage |-> "loaded", order |-> o, row |-> order[o], courier |-> c,
                   to |-> s, zero |-> z, began |-> began[o]]
<1>1. new \in Job
  BY DEF TypeOK, Job, Stages
<1>2. RequestOK(new)
  BY DEF RequestOK, Fits
<1>3. job' = [job EXCEPT ![h] = new]
  BY DEF Load
<1>4. job' \in [Handlers -> Job \cup {NoJob}]
  BY <1>1, <1>3 DEF TypeOK
<1>5. \A g \in Handlers : job'[g] # NoJob => RequestOK(job'[g])
  <2> HIDE DEF new
  <2> QED BY <1>2, <1>3 DEF TypeOK
<1>6. requests' \in 0..MaxRequests
  BY BoundAssumption DEF Load, TypeOK
<1> QED BY <1>4, <1>5, <1>6 DEF Load, TypeOK, dbVars, histVars

\* Every row a commit writes is a row.
LEMMA RowTypes ==
    ASSUME NEW j \in Job
    PROVE  /\ Memory(j) \in Row
           /\ WrittenRow(j) \in Row
           /\ \A charge \in {"none", "paid", "unpaid", "failed"} : AcceptedRow(j, charge) \in Row
           /\ RejectedRow(j) \in Row
           /\ \A s \in Statuses : [Memory(j) EXCEPT !.status = s] \in Row
BY DEF Job, Row, Memory, WrittenRow, AcceptedRow, RejectedRow, Statuses

LEMMA FinishType ==
    ASSUME TypeOK, NEW h \in Handlers, Finish(h)
    PROVE  TypeOK'
<1> DEFINE j == job[h]
<1>1. JobsOK /\ j # NoJob
  BY DEF TypeOK, JobsOK, Finish, AssignLock, AssignCommit, ReplaceCommit, ReplaceMessage, WriteCommit,
     AcceptRefused, AcceptCommit, RejectCommit, CloseSettle, CloseCommit, ShipCommit, PlainCommit,
     Abort, At, Updating
<1>2. j \in Job /\ RequestOK(j) /\ j.order \in Orders /\ j.courier \in Couriers \cup {NoCourier}
      /\ j.row \in Row /\ j.began \in BOOLEAN /\ j.to \in Statuses
  BY <1>1 DEF JobsOK, Job
<1>3. TimelineRead(j) \subseteq BOOLEAN
  BY <1>2 DEF TimelineRead, TypeOK
<1>s. ASSUME NEW row \in Row, Save(j, row)
      PROVE  order' \in [Orders -> Row] /\ lost' \subseteq Orders
  BY <1>2, <1>s DEF TypeOK, Save
<1>a. CASE AssignLock(h)
  <2>1. JobsOK'
    BY <1>a, <1>1, AdvanceJobs DEF AssignLock, At, Stages
  <2> QED BY <1>a, <2>1 DEF AssignLock, TypeOK, JobsOK, dbVars, histVars
<1>b. CASE AssignCommit(h)
  <2>1. JobsOK'
    BY <1>b, <1>1, DoneJobs DEF AssignCommit
  <2>2. order' \in [Orders -> Row]
    BY <1>b, <1>2 DEF AssignCommit, AssignedRow, TypeOK, Row
  <2> QED BY <1>b, <1>2, <2>1, <2>2 DEF AssignCommit, TypeOK, JobsOK
<1>c. CASE ReplaceCommit(h)
  <2>1. JobsOK'
    BY <1>c, <1>1, AdvanceJobs DEF ReplaceCommit, At, Stages
  <2>2. order' \in [Orders -> Row] /\ lost' \subseteq Orders
    BY <1>c, <1>s, <1>2, RowTypes DEF ReplaceCommit
  <2> QED BY <1>c, <1>2, <2>1, <2>2 DEF ReplaceCommit, TypeOK, JobsOK
<1>d. CASE ReplaceMessage(h)
  <2>1. JobsOK'
    BY <1>d, <1>1, DoneJobs DEF ReplaceMessage
  <2> QED BY <1>d, <1>2, <2>1 DEF ReplaceMessage, TypeOK, JobsOK, histVars
<1>e. CASE WriteCommit(h)
  <2>1. JobsOK'
    BY <1>e, <1>1, DoneJobs DEF WriteCommit
  <2>2. order' \in [Orders -> Row] /\ lost' \subseteq Orders
    BY <1>e, <1>s, <1>2, RowTypes DEF WriteCommit
  <2> QED BY <1>e, <2>1, <2>2 DEF WriteCommit, TypeOK, JobsOK
<1>f. CASE AcceptRefused(h)
  <2>1. JobsOK'
    BY <1>f, <1>1, DoneJobs DEF AcceptRefused
  <2>2. began' \in [Orders -> BOOLEAN]
    BY <1>f, <1>2 DEF AcceptRefused, TypeOK
  <2> QED BY <1>f, <2>1, <2>2 DEF AcceptRefused, TypeOK, JobsOK, histVars
<1>g. CASE AcceptCommit(h)
  <2>1. JobsOK'
    BY <1>g, <1>1, DoneJobs DEF AcceptCommit
  <2>2. PICK charge \in Charges(j) :
          /\ Save(j, AcceptedRow(j, charge))
          /\ payments' = IF charge = "paid"
                         THEN [payments EXCEPT ![j.order] = @ + 1] ELSE payments
    BY <1>g DEF AcceptCommit
  <2>3. charge \in {"none", "paid", "unpaid", "failed"}
    BY DEF Charges
  <2>4. order' \in [Orders -> Row] /\ lost' \subseteq Orders
    BY <2>2, <2>3, <1>s, <1>2, RowTypes
  <2>5. payments' \in [Orders -> Nat]
    BY <2>2, <1>2 DEF TypeOK
  <2>6. began' \in [Orders -> BOOLEAN]
    BY <1>g, <1>2 DEF AcceptCommit, TypeOK
  <2> QED BY <1>g, <2>1, <2>4, <2>5, <2>6 DEF AcceptCommit, TypeOK, JobsOK
<1>h. CASE RejectCommit(h)
  <2>1. JobsOK'
    BY <1>h, <1>1, DoneJobs DEF RejectCommit
  <2>2. order' \in [Orders -> Row] /\ lost' \subseteq Orders
    BY <1>h, <1>s, <1>2, RowTypes DEF RejectCommit
  <2>3. began' \in [Orders -> BOOLEAN]
    BY <1>h, <1>2, <1>3 DEF RejectCommit, TypeOK
  <2> QED BY <1>h, <2>1, <2>2, <2>3 DEF RejectCommit, TypeOK, JobsOK
<1>i. CASE CloseSettle(h)
  <2>1. JobsOK'
    BY <1>i, <1>1, AdvanceJobs DEF CloseSettle, Updating, At, Stages
  <2> QED BY <1>i, <2>1 DEF CloseSettle, TypeOK, JobsOK, dbVars, histVars
<1>j. CASE CloseCommit(h)
  <2>1. JobsOK'
    BY <1>j, <1>1, DoneJobs DEF CloseCommit
  <2>2. order' \in [Orders -> Row] /\ lost' \subseteq Orders
    BY <1>j, <1>s, <1>2, RowTypes DEF CloseCommit, Statuses
  <2>3. began' \in [Orders -> BOOLEAN]
    BY <1>j, <1>2, <1>3 DEF CloseCommit, TypeOK
  <2>4. payments' \in [Orders -> Nat] /\ settled' \in [Orders -> Nat]
    BY <1>j, <1>2 DEF CloseCommit, TypeOK
  <2> QED BY <1>j, <2>1, <2>2, <2>3, <2>4 DEF CloseCommit, TypeOK, JobsOK
<1>k. CASE ShipCommit(h)
  <2>1. JobsOK'
    BY <1>k, <1>1, DoneJobs DEF ShipCommit
  <2>2. order' \in [Orders -> Row] /\ lost' \subseteq Orders
    BY <1>k, <1>s, <1>2, RowTypes DEF ShipCommit, Statuses
  <2>3. began' \in [Orders -> BOOLEAN]
    BY <1>k, <1>2, <1>3 DEF ShipCommit, TypeOK
  <2> QED BY <1>k, <2>1, <2>2, <2>3 DEF ShipCommit, TypeOK, JobsOK
<1>l. CASE PlainCommit(h)
  <2>1. JobsOK'
    BY <1>l, <1>1, DoneJobs DEF PlainCommit
  <2>2. order' \in [Orders -> Row] /\ lost' \subseteq Orders
    BY <1>l, <1>s, <1>2, RowTypes DEF PlainCommit
  <2>3. began' \in [Orders -> BOOLEAN]
    BY <1>l, <1>2, <1>3 DEF PlainCommit, TypeOK
  <2> QED BY <1>l, <2>1, <2>2, <2>3 DEF PlainCommit, TypeOK, JobsOK
<1>m. CASE Abort(h)
  <2>1. JobsOK'
    BY <1>m, <1>1, DoneJobs DEF Abort
  <2> QED BY <1>m, <2>1 DEF Abort, TypeOK, JobsOK, dbVars, histVars
<1> QED
  BY <1>a, <1>b, <1>c, <1>d, <1>e, <1>f, <1>g, <1>h, <1>i, <1>j, <1>k, <1>l, <1>m DEF Finish

LEMMA InitType == Init => TypeOK
BY InputAssumption, BoundAssumption
DEF Init, TypeOK, NewRow, Row, Statuses, Terms, RequestOK

LEMMA NextType == TypeOK /\ [Next]_vars => TypeOK'
<1> SUFFICES ASSUME TypeOK, [Next]_vars PROVE TypeOK'
  OBVIOUS
<1>1. CASE UNCHANGED vars
  BY <1>1 DEF TypeOK, vars, dbVars, histVars
<1>2. ASSUME NEW h \in Handlers, Begin(h) PROVE TypeOK'
  BY <1>2, BeginLoads, LoadJobs
<1>3. ASSUME NEW h \in Handlers, Finish(h) PROVE TypeOK'
  BY <1>3, FinishType
<1> QED BY <1>1, <1>2, <1>3 DEF Next

\* Every reachable state is well typed, and every request in flight is one the
\* entry points of the order can have made.
THEOREM TypeCorrect == Spec => []TypeOK
BY InitType, NextType, PTL DEF Spec

-----------------------------------------------------------------------------
(* Backing.                                                                *)

\* What Backed rests on only moves one way.
Grows ==
    /\ assigned \subseteq assigned'
    /\ usage' \subseteq usage
    /\ \A o \in Orders : payments'[o] >= payments[o] /\ settled'[o] >= settled[o]

\* Backed and JobBacked of a given row and request in the next state.
BackedNext(o, row) ==
    /\ row.courier # NoCourier => o \in assigned'
    /\ row.status = "shipped" => o \in assigned'
    /\ row.status = "closed" => settled'[o] > 0 /\ payments'[o] > 0
    /\ row.status = "rejected" => ~row.paid /\ o \notin usage'
    /\ row.paid => payments'[o] > 0

JobBackedNext(j) ==
    /\ BackedNext(j.order, j.row)
    /\ j.began => j.order \in assigned'
    /\ j.stage = "settling" => j.order \in assigned'
    /\ j.stage = "saved" /\ j.courier # NoCourier => j.order \in assigned'

\* A backed row stays backed, wherever it is kept.
LEMMA BackedStays ==
    ASSUME TypeOK, TypeOK', Grows
    PROVE  /\ \A o \in Orders, row \in Row : Backed(o, row) => BackedNext(o, row)
           /\ \A j \in Job : JobBacked(j) => JobBackedNext(j)
<1>1. \A o \in Orders : /\ payments[o] \in Nat /\ payments'[o] \in Nat
                        /\ settled[o] \in Nat /\ settled'[o] \in Nat
  BY DEF TypeOK
<1>2. \A o \in Orders, row \in Row : Backed(o, row) => BackedNext(o, row)
  BY <1>1 DEF Grows, Backed, BackedNext
<1>3. \A j \in Job : j.order \in Orders /\ j.row \in Row
  BY DEF Job
<1> QED BY <1>2, <1>3 DEF JobBacked, JobBackedNext, Grows

\* A step of one handler that writes at most one row, a backed one, keeps Backing.
LEMMA StepBacking ==
    ASSUME TypeOK, TypeOK', Backing, Grows,
           NEW h \in Handlers, NEW o \in Orders,
           \A p \in Orders \ {o} : order'[p] = order[p] /\ began'[p] = began[p],
           BackedNext(o, order'[o]),
           began'[o] => o \in assigned',
           \A g \in Handlers \ {h} : job'[g] = job[g],
           job'[h] # NoJob => JobBackedNext(job'[h])
    PROVE  Backing'
<1>1. \A p \in Orders : BackedNext(p, order'[p]) /\ (began'[p] => p \in assigned')
  <2>1. \A p \in Orders \ {o} : Backed(p, order[p]) /\ order[p] \in Row /\ (began[p] => p \in assigned)
    BY DEF Backing, TypeOK
  <2> QED BY <2>1, BackedStays DEF Grows
<1>2. \A g \in Handlers : job'[g] # NoJob => JobBackedNext(job'[g])
  <2>1. \A g \in Handlers \ {h} : job[g] # NoJob => job[g] \in Job /\ JobBacked(job[g])
    BY DEF Backing, TypeOK
  <2> QED BY <2>1, BackedStays
<1>3. \A p \in Orders : Backed(p, order[p])'
  BY <1>1 DEF Backed, BackedNext
<1>4. \A g \in Handlers : (job[g] # NoJob => JobBacked(job[g]))'
  BY <1>2 DEF JobBacked, JobBackedNext, Backed, BackedNext
<1> QED BY <1>1, <1>3, <1>4 DEF Backing

\* Loading copies a committed row and timeline.
LEMMA LoadBacking ==
    ASSUME TypeOK, TypeOK', Backing, NEW h \in Handlers, NEW o \in Orders,
           NEW via \in Updates \cup Writes, NEW c \in Couriers \cup {NoCourier},
           NEW s \in Statuses, NEW z \in BOOLEAN, Load(h, o, via, c, s, z)
    PROVE  Backing'
<1>1. Grows
  BY DEF Load, Grows, dbVars, histVars, TypeOK
<1>2. order' = order /\ began' = began
  BY DEF Load, dbVars
<1>3. Backed(o, order[o]) /\ order[o] \in Row /\ (began[o] => o \in assigned)
  BY DEF Backing, TypeOK
<1>4. BackedNext(o, order'[o]) /\ (began'[o] => o \in assigned')
  BY <1>1, <1>2, <1>3, BackedStays DEF Grows
<1>5. \A g \in Handlers \ {h} : job'[g] = job[g]
  BY DEF Load, TypeOK
<1>6. /\ job'[h].order = o /\ job'[h].row = order[o] /\ job'[h].began = began[o]
      /\ job'[h].stage = "loaded"
  BY DEF Load, TypeOK
<1>7. JobBackedNext(job'[h])
  BY <1>2, <1>4, <1>6 DEF JobBackedNext
<1> QED BY <1>1, <1>2, <1>4, <1>5, <1>7, StepBacking

\* Every step that ends or advances a request keeps Backing.
LEMMA FinishBacking ==
    ASSUME TypeOK, TypeOK', Backing, NEW h \in Handlers, Finish(h)
    PROVE  Backing'
<1> DEFINE j == job[h]
           o == job[h].order
<1>1. j # NoJob
  BY DEF Finish, AssignLock, AssignCommit, ReplaceCommit, ReplaceMessage, WriteCommit,
     AcceptRefused, AcceptCommit, RejectCommit, CloseSettle, CloseCommit, ShipCommit, PlainCommit,
     Abort, At, Updating
<1>2. /\ JobsOK /\ j \in Job /\ RequestOK(j) /\ o \in Orders
      /\ j.row \in Row /\ j.courier \in Couriers \cup {NoCourier} /\ order[o] \in Row
  BY <1>1 DEF TypeOK, JobsOK, Job
<1>3. /\ JobBacked(j) /\ Backed(o, j.row) /\ Backed(o, order[o])
      /\ (j.began => o \in assigned) /\ (began[o] => o \in assigned)
  BY <1>1, <1>2 DEF Backing, JobBacked
<1>4. \A t \in TimelineRead(j) : t => o \in assigned
  BY <1>3 DEF TimelineRead
<1>5. j.via \in Updates /\ j.via # "close" => j.courier = j.row.courier
  BY <1>2 DEF RequestOK, Updates
\* A request that is done leaves nothing but its committed row to check ...
<1>d. ASSUME Done(h), Grows, \A p \in Orders \ {o} : order'[p] = order[p] /\ began'[p] = began[p],
             BackedNext(o, order'[o]), began'[o] => o \in assigned'
      PROVE  Backing'
  <2>1. job'[h] = NoJob /\ \A g \in Handlers \ {h} : job'[g] = job[g]
    BY <1>d DEF Done, TypeOK
  <2> QED BY <1>d, <2>1, <1>2, StepBacking
\* ... and the same when it wrote no row.
<1>n. ASSUME Done(h), Grows, order' = order, \A p \in Orders \ {o} : began'[p] = began[p],
             began'[o] => o \in assigned'
      PROVE  Backing'
  <2>1. BackedNext(o, order'[o])
    BY <1>n, <1>2, <1>3, BackedStays
  <2> QED BY <1>n, <2>1, <1>d
<1>a. CASE AssignLock(h)
  <2>1. Grows /\ order' = order /\ began' = began
    BY <1>a DEF AssignLock, Grows, dbVars, histVars, TypeOK
  <2>2. /\ \A g \in Handlers \ {h} : job'[g] = job[g]
        /\ job'[h] = [j EXCEPT !.stage = "locked"]
    BY <1>a, <1>2, AdvanceJobs DEF AssignLock, At, Stages
  <2>3. JobBackedNext(j) /\ BackedNext(o, order'[o]) /\ (began'[o] => o \in assigned')
    BY <2>1, <1>2, <1>3, BackedStays DEF Grows
  <2>4. JobBackedNext(job'[h])
    BY <2>2, <2>3, <1>2 DEF JobBackedNext, Job
  <2> QED BY <2>1, <2>2, <2>3, <2>4, <1>2, StepBacking
<1>b. CASE AssignCommit(h)
  <2>1. Grows /\ o \in assigned'
    BY <1>b, <1>2 DEF AssignCommit, Grows, TypeOK
  <2>2. BackedNext(o, AssignedRow(j))
    <3>1. BackedNext(o, order[o])
      BY <2>1, <1>2, <1>3, BackedStays
    <3> QED BY <2>1, <3>1, <1>2 DEF AssignedRow, BackedNext, Row
  <2>3. Done(h) /\ order' = [order EXCEPT ![o] = AssignedRow(j)] /\ began' = [began EXCEPT ![o] = TRUE]
    BY <1>b DEF AssignCommit
  <2>4. \A p \in Orders \ {o} : order'[p] = order[p] /\ began'[p] = began[p]
    BY <2>3, <1>2 DEF TypeOK
  <2>5. order'[o] = AssignedRow(j)
    BY <2>3, <1>2 DEF TypeOK
  <2> QED BY <2>1, <2>2, <2>3, <2>4, <2>5, <1>d
<1>c. CASE ReplaceCommit(h)
  <2>1. Grows /\ (j.courier # NoCourier => o \in assigned')
    BY <1>c, <1>2 DEF ReplaceCommit, Grows, TypeOK
  <2>2. order' = [order EXCEPT ![o] = Memory(j)] /\ began' = began
    BY <1>c DEF ReplaceCommit, Save
  <2>3. order'[o] = Memory(j) /\ \A p \in Orders \ {o} : order'[p] = order[p] /\ began'[p] = began[p]
    BY <2>2, <1>2 DEF TypeOK
  <2>4. JobBackedNext(j) /\ BackedNext(o, j.row) /\ (began'[o] => o \in assigned')
    BY <2>1, <2>2, <1>2, <1>3, BackedStays DEF Grows
  <2>5. BackedNext(o, order'[o])
    BY <2>1, <2>3, <2>4, <1>2 DEF BackedNext, Memory, Row
  <2>6. /\ \A g \in Handlers \ {h} : job'[g] = job[g]
        /\ job'[h] = [j EXCEPT !.stage = "saved"]
    BY <1>c, <1>2, AdvanceJobs DEF ReplaceCommit, At, Stages
  <2>7. JobBackedNext(job'[h])
    BY <2>1, <2>4, <2>6, <1>2 DEF JobBackedNext, Job
  <2> QED BY <2>1, <2>3, <2>4, <2>5, <2>6, <2>7, <1>2, StepBacking
<1>e. CASE ReplaceMessage(h)
  <2>1. Grows /\ Done(h) /\ order' = order
    BY <1>e DEF ReplaceMessage, Grows, histVars, TypeOK
  <2>2. j.courier # NoCourier => o \in assigned
    BY <1>e, <1>3 DEF ReplaceMessage, At, JobBacked
  <2>3. /\ \A p \in Orders \ {o} : began'[p] = began[p]
        /\ began'[o] => o \in assigned
    BY <1>e, <2>2, <1>2, <1>3 DEF ReplaceMessage, TypeOK
  <2> QED BY <2>1, <2>3, <1>n DEF Grows
<1>f. CASE WriteCommit(h)
  <2>1. Grows /\ Done(h) /\ began' = began /\ order' = [order EXCEPT ![o] = WrittenRow(j)]
    BY <1>f DEF WriteCommit, Grows, Save, TypeOK
  <2>2. BackedNext(o, j.row)
    BY <2>1, <1>2, <1>3, BackedStays
  <2>3. j.courier = j.row.courier
    BY <1>f, <1>2 DEF WriteCommit, At, RequestOK
  <2>4. BackedNext(o, WrittenRow(j))
    BY <2>2, <2>3, <1>2 DEF BackedNext, WrittenRow, Memory, Row
  <2>5. order'[o] = WrittenRow(j) /\ \A p \in Orders \ {o} : order'[p] = order[p] /\ began'[p] = began[p]
    BY <2>1, <1>2 DEF TypeOK
  <2> QED BY <2>1, <2>4, <2>5, <1>3, <1>d DEF Grows
<1>g. CASE AcceptRefused(h)
  <2>1. Grows /\ Done(h) /\ order' = order
    BY <1>g DEF AcceptRefused, Grows, histVars, TypeOK
  <2>2. j.courier # NoCourier => o \in assigned
    BY <1>g, <1>2, <1>3, <1>5 DEF AcceptRefused, Updating, At, RequestOK, Backed
  <2>3. /\ \A p \in Orders \ {o} : began'[p] = began[p]
        /\ began'[o] => o \in assigned
    BY <1>g, <2>2, <1>2, <1>3 DEF AcceptRefused, Messaged, TypeOK
  <2> QED BY <2>1, <2>3, <1>n DEF Grows
<1>h. CASE AcceptCommit(h)
  <2>1. PICK charge \in Charges(j) :
          /\ Save(j, AcceptedRow(j, charge))
          /\ payments' = IF charge = "paid"
                         THEN [payments EXCEPT ![o] = @ + 1] ELSE payments
    BY <1>h DEF AcceptCommit
  <2>2. Grows /\ Done(h) /\ (charge = "paid" => payments'[o] > 0)
    BY <1>h, <2>1, <1>2 DEF AcceptCommit, Grows, TypeOK
  <2>3. j.courier = j.row.courier
    BY <1>h, <1>2, <1>5 DEF AcceptCommit, Updating, At, RequestOK
  <2>4. BackedNext(o, j.row)
    BY <2>2, <1>2, <1>3, BackedStays
  <2>5. BackedNext(o, AcceptedRow(j, charge))
    BY <2>2, <2>3, <2>4, <1>2 DEF BackedNext, AcceptedRow, Memory, Row
  <2>6. order'[o] = AcceptedRow(j, charge) /\ \A p \in Orders \ {o} : order'[p] = order[p]
    BY <2>1, <1>2 DEF Save, TypeOK
  <2>7. /\ \A p \in Orders \ {o} : began'[p] = began[p]
        /\ began'[o] => o \in assigned
    BY <1>h, <2>3, <1>2, <1>3 DEF AcceptCommit, Messaged, Backed, TypeOK
  <2> QED BY <2>2, <2>5, <2>6, <2>7, <1>d DEF Grows
<1>i. CASE RejectCommit(h)
  <2>1. Grows /\ Done(h) /\ order' = [order EXCEPT ![o] = RejectedRow(j)] /\ o \notin usage'
    BY <1>i DEF RejectCommit, Grows, Save, TypeOK
  <2>2. BackedNext(o, j.row)
    BY <2>1, <1>2, <1>3, BackedStays
  <2>3. j.courier = j.row.courier
    BY <1>i, <1>2, <1>5 DEF RejectCommit, Updating, At, RequestOK
  <2>4. BackedNext(o, RejectedRow(j))
    BY <2>1, <2>2, <2>3, <1>2 DEF BackedNext, RejectedRow, Memory, Row
  <2>5. order'[o] = RejectedRow(j) /\ \A p \in Orders \ {o} : order'[p] = order[p]
    BY <2>1, <1>2 DEF TypeOK
  <2>6. /\ \A p \in Orders \ {o} : began'[p] = began[p]
        /\ began'[o] => o \in assigned
    BY <1>i, <2>3, <1>2, <1>3, <1>4 DEF RejectCommit, Backed, TypeOK
  <2> QED BY <2>1, <2>4, <2>5, <2>6, <1>d DEF Grows
<1>j. CASE CloseSettle(h)
  <2>1. Grows /\ order' = order /\ began' = began
    BY <1>j DEF CloseSettle, Grows, dbVars, histVars, TypeOK
  <2>2. o \in assigned
    BY <1>j, <1>3 DEF CloseSettle, Backed
  <2>3. /\ \A g \in Handlers \ {h} : job'[g] = job[g]
        /\ job'[h] = [j EXCEPT !.stage = "settling"]
    BY <1>j, <1>2, AdvanceJobs DEF CloseSettle, Updating, At, Stages
  <2>4. JobBackedNext(j) /\ BackedNext(o, order'[o])
    BY <2>1, <1>2, <1>3, BackedStays
  <2>5. JobBackedNext(job'[h]) /\ o \in assigned'
    BY <2>1, <2>2, <2>3, <2>4, <1>2 DEF JobBackedNext, Job, Grows
  <2> QED BY <2>1, <2>3, <2>4, <2>5, <1>2, StepBacking
<1>k. CASE CloseCommit(h)
  <2>1. /\ Done(h)
        /\ order' = [order EXCEPT ![o] = [Memory(j) EXCEPT !.status = "closed"]]
        /\ payments' = IF j.row.paid THEN payments ELSE [payments EXCEPT ![o] = @ + 1]
        /\ settled' = [settled EXCEPT ![o] = @ + 1]
        /\ UNCHANGED <<usage, assigned>>
        /\ \E t \in TimelineRead(j) : began' = [began EXCEPT ![o] = t]
    BY <1>k DEF CloseCommit, Save
  <2>2. o \in assigned
    BY <1>k, <1>3 DEF CloseCommit, At, JobBacked
  <2>3. Grows /\ settled'[o] > 0 /\ payments'[o] > 0
    BY <2>1, <1>2, <1>3 DEF Grows, TypeOK, Backed
  <2>4. BackedNext(o, [Memory(j) EXCEPT !.status = "closed"])
    BY <2>1, <2>2, <2>3, <1>2 DEF BackedNext, Memory, Row
  <2>5. order'[o] = [Memory(j) EXCEPT !.status = "closed"] /\ \A p \in Orders \ {o} : order'[p] = order[p]
    BY <2>1, <1>2 DEF TypeOK
  <2>6. \A p \in Orders \ {o} : began'[p] = began[p]
    BY <2>1, <1>2 DEF TypeOK
  <2> QED BY <2>1, <2>2, <2>3, <2>4, <2>5, <2>6, <1>d
<1>l. CASE ShipCommit(h)
  <2>1. Grows /\ Done(h) /\ order' = [order EXCEPT ![o] = [Memory(j) EXCEPT !.status = "shipped"]]
    BY <1>l DEF ShipCommit, Grows, Save, TypeOK
  <2>2. o \in assigned /\ o \in assigned'
    BY <1>l, <1>4 DEF ShipCommit, HasBegun
  <2>3. BackedNext(o, j.row)
    BY <2>1, <1>2, <1>3, BackedStays
  <2>4. j.courier = j.row.courier
    BY <1>l, <1>2, <1>5 DEF ShipCommit, Updating, At, RequestOK
  <2>5. BackedNext(o, [Memory(j) EXCEPT !.status = "shipped"])
    BY <2>2, <2>3, <1>2 DEF BackedNext, Memory, Row
  <2>6. order'[o] = [Memory(j) EXCEPT !.status = "shipped"] /\ \A p \in Orders \ {o} : order'[p] = order[p]
    BY <2>1, <1>2 DEF TypeOK
  <2>7. \A p \in Orders \ {o} : began'[p] = began[p]
    BY <1>l, <1>2 DEF ShipCommit, TypeOK
  <2> QED BY <2>1, <2>2, <2>5, <2>6, <2>7, <1>d
<1>m. CASE PlainCommit(h)
  <2>1. Grows /\ Done(h) /\ order' = [order EXCEPT ![o] = [Memory(j) EXCEPT !.status = j.to]]
    BY <1>m DEF PlainCommit, Grows, Save, TypeOK
  <2>2. BackedNext(o, j.row)
    BY <2>1, <1>2, <1>3, BackedStays
  <2>3. j.courier = j.row.courier /\ j.to \notin {"shipped", "closed", "rejected"}
    BY <1>m, <1>2, <1>5 DEF PlainCommit, At, RequestOK, Handled
  <2>4. BackedNext(o, [Memory(j) EXCEPT !.status = j.to])
    BY <2>2, <2>3, <1>2 DEF BackedNext, Memory, Row
  <2>5. order'[o] = [Memory(j) EXCEPT !.status = j.to] /\ \A p \in Orders \ {o} : order'[p] = order[p]
    BY <2>1, <1>2 DEF TypeOK
  <2>6. /\ \A p \in Orders \ {o} : began'[p] = began[p]
        /\ began'[o] => o \in assigned
    BY <1>m, <1>2, <1>3, <1>4 DEF PlainCommit, TypeOK
  <2> QED BY <2>1, <2>4, <2>5, <2>6, <1>d DEF Grows
<1>p. CASE Abort(h)
  <2>1. Grows /\ Done(h) /\ order' = order /\ began' = began
    BY <1>p DEF Abort, Grows, dbVars, histVars, TypeOK
  <2> QED BY <2>1, <1>3, <1>n DEF Grows
<1> QED
  BY <1>a, <1>b, <1>c, <1>e, <1>f, <1>g, <1>h, <1>i, <1>j, <1>k, <1>l, <1>m, <1>p DEF Finish

LEMMA InitBacking == Init => Backing
BY DEF Init, Backing, Backed, NewRow

LEMMA NextBacking == TypeOK /\ TypeOK' /\ Backing /\ [Next]_vars => Backing'
<1> SUFFICES ASSUME TypeOK, TypeOK', Backing, [Next]_vars PROVE Backing'
  OBVIOUS
<1>1. CASE UNCHANGED vars
  BY <1>1 DEF Backing, Backed, JobBacked, vars, dbVars, histVars
<1>2. ASSUME NEW h \in Handlers, Begin(h) PROVE Backing'
  BY <1>2, BeginLoads, LoadBacking
<1>3. ASSUME NEW h \in Handlers, Finish(h) PROVE Backing'
  BY <1>3, FinishBacking
<1> QED BY <1>1, <1>2, <1>3 DEF Next

\* Every row, committed or in the memory of a handler, is backed by the other
\* tables and by what happened: no interleaving of full-row saves breaks it.
THEOREM RowsBacked == Spec => []Backing
<1>1. Init => TypeOK /\ Backing
  BY InitType, InitBacking
<1>2. TypeOK /\ Backing /\ [Next]_vars => (TypeOK /\ Backing)'
  BY NextType, NextBacking
<1> QED BY <1>1, <1>2, PTL DEF Spec

\* What Backing says of the committed rows, property by property: paid orders
\* have a Payment, ...
THEOREM PaidOrdersHavePayments == Spec => []PaidHasPayment
<1>1. Backing => PaidHasPayment
  BY DEF Backing, Backed, PaidHasPayment
<1> QED BY <1>1, RowsBacked, PTL

\* ... closed orders have been settled and have a Payment, ...
THEOREM ClosedOrdersAreSettled == Spec => []ClosedIsSettled
<1>1. Backing => ClosedIsSettled
  BY DEF Backing, Backed, ClosedIsSettled
<1> QED BY <1>1, RowsBacked, PTL

\* ... shipped orders had a courier, ...
THEOREM ShippedOrdersHadCourier == Spec => []ShippedHadCourier
<1>1. Backing => ShippedHadCourier
  BY DEF Backing, Backed, ShippedHadCourier
<1> QED BY <1>1, RowsBacked, PTL

\* ... and rejected orders are not paid and hold no promo code.
THEOREM RejectedOrdersAreReleased == Spec => []RejectedIsReleased
<1>1. Backing => RejectedIsReleased
  BY DEF Backing, Backed, RejectedIsReleased
<1> QED BY <1>1, RowsBacked, PTL

-----------------------------------------------------------------------------
(* What one step may do to an order.                                       *)

\* The step leaves orders, settlements and the record of lost updates alone.
Quiet == order' = order /\ settled' = settled /\ lost' = lost

\* Handler h saves its object: every way but the assignment's.
Saves(h) ==
    /\ job[h] # NoJob /\ job[h].via # "assign" /\ job'[h] # job[h]
    /\ job[h].stage \in {"loaded", "settling"}
    /\ \E row \in Row : row.courier = job[h].courier /\ Save(job[h], row)
    /\ \A p \in Orders : settled'[p] # settled[p] => job[h].stage = "settling" /\ p = job[h].order

\* A step is quiet, the commit of an assignment, or a save.
LEMMA StepKinds ==
    ASSUME TypeOK, NEW h \in Handlers, Begin(h) \/ Finish(h)
    PROVE  /\ \A g \in Handlers \ {h} : job'[g] = job[g]
           /\ Quiet \/ (AssignCommit(h) /\ job[h] # NoJob) \/ Saves(h)
           /\ At(h, {"assign"}, "locked")' => AssignLock(h)
<1> DEFINE j == job[h]
<1>1. CASE Begin(h)
  <2>1. PICK o \in Orders, via \in Updates \cup Writes, c \in Couriers \cup {NoCourier},
             s \in Statuses, z \in BOOLEAN : Load(h, o, via, c, s, z)
    BY <1>1, BeginLoads
  <2>2. Quiet /\ \A g \in Handlers \ {h} : job'[g] = job[g]
    BY <2>1 DEF Load, Quiet, dbVars, histVars, TypeOK
  <2>3. job'[h].stage = "loaded"
    BY <2>1 DEF Load, TypeOK
  <2> QED BY <2>2, <2>3 DEF At
<1>2. CASE Finish(h)
  <2>1. j # NoJob
    BY <1>2 DEF Finish, AssignLock, AssignCommit, ReplaceCommit, ReplaceMessage, WriteCommit,
       AcceptRefused, AcceptCommit, RejectCommit, CloseSettle, CloseCommit, ShipCommit, PlainCommit,
       Abort, At, Updating
  <2>2. JobsOK /\ j \in Job /\ j.courier \in Couriers \cup {NoCourier}
    BY <2>1 DEF TypeOK, JobsOK, Job
  <2>d. ASSUME Done(h)
        PROVE  /\ \A g \in Handlers \ {h} : job'[g] = job[g]
               /\ ~At(h, {"assign"}, "locked")' /\ job'[h] # job[h]
    BY <2>d, <2>1 DEF Done, At, TypeOK
  <2>s. ASSUME job'[h] # job[h], j.via # "assign", j.stage = "loaded", settled' = settled,
               NEW row \in Row, row.courier = j.courier, Save(j, row)
        PROVE  Saves(h)
    BY <2>s, <2>1 DEF Saves
  <2>r. /\ \A s \in Statuses : [Memory(j) EXCEPT !.status = s] \in Row
                             /\ [Memory(j) EXCEPT !.status = s].courier = j.courier
        /\ Memory(j).courier = j.courier /\ WrittenRow(j).courier = j.courier
        /\ RejectedRow(j).courier = j.courier
        /\ \A charge \in {"none", "paid", "unpaid", "failed"} : AcceptedRow(j, charge).courier = j.courier
    BY <2>2 DEF Job, Row, Memory, WrittenRow, AcceptedRow, RejectedRow, Statuses
  <2>a. CASE AssignLock(h)
    <3>1. \A g \in Handlers \ {h} : job'[g] = job[g]
      BY <2>a, <2>2, AdvanceJobs DEF AssignLock, At, Stages
    <3> QED BY <2>a, <3>1 DEF AssignLock, Quiet, dbVars, histVars
  <2>b. CASE AssignCommit(h)
    BY <2>b, <2>1, <2>d DEF AssignCommit
  <2>c. CASE ReplaceCommit(h)
    <3>1. /\ \A g \in Handlers \ {h} : job'[g] = job[g]
          /\ job'[h] = [j EXCEPT !.stage = "saved"]
      BY <2>c, <2>2, AdvanceJobs DEF ReplaceCommit, At, Stages
    <3>2. ~At(h, {"assign"}, "locked")' /\ job'[h] # job[h]
      BY <2>c, <3>1, <2>2 DEF ReplaceCommit, At, Job
    <3> QED BY <2>c, <3>1, <3>2, <2>s, <2>r, <2>2, RowTypes DEF ReplaceCommit, At
  <2>e. CASE ReplaceMessage(h)
    BY <2>e, <2>d DEF ReplaceMessage, Quiet, histVars
  <2>f. CASE WriteCommit(h)
    BY <2>f, <2>d, <2>s, <2>r, <2>2, RowTypes DEF WriteCommit, At
  <2>g. CASE AcceptRefused(h)
    BY <2>g, <2>d DEF AcceptRefused, Quiet, histVars
  <2>h. CASE AcceptCommit(h)
    <3>1. PICK charge \in Charges(j) : Save(j, AcceptedRow(j, charge))
      BY <2>h DEF AcceptCommit
    <3>2. charge \in {"none", "paid", "unpaid", "failed"}
      BY DEF Charges
    <3>3. AcceptedRow(j, charge) \in Row /\ AcceptedRow(j, charge).courier = j.courier
      BY <3>2, <2>2, <2>r, RowTypes
    <3>4. j.via # "assign" /\ j.stage = "loaded" /\ settled' = settled /\ job'[h] # job[h]
      BY <2>h, <2>d DEF AcceptCommit, Updating, At, Updates
    <3>5. Saves(h)
      BY <3>1, <3>3, <3>4, <2>s
    <3> QED BY <2>h, <3>5, <2>d DEF AcceptCommit
  <2>i. CASE RejectCommit(h)
    BY <2>i, <2>d, <2>s, <2>r, <2>2, RowTypes DEF RejectCommit, Updating, At, Updates
  <2>j. CASE CloseSettle(h)
    <3>1. /\ \A g \in Handlers \ {h} : job'[g] = job[g]
          /\ job'[h] = [j EXCEPT !.stage = "settling"]
      BY <2>j, <2>2, AdvanceJobs DEF CloseSettle, Updating, At, Stages, JobsOK, RequestOK
    <3>2. ~At(h, {"assign"}, "locked")'
      BY <3>1, <2>2 DEF At, Job
    <3> QED BY <2>j, <3>1, <3>2 DEF CloseSettle, Quiet, dbVars, histVars
  <2>k. CASE CloseCommit(h)
    <3>1. /\ j.via # "assign" /\ j.stage = "settling"
          /\ Save(j, [Memory(j) EXCEPT !.status = "closed"])
          /\ settled' = [settled EXCEPT ![j.order] = @ + 1]
      BY <2>k DEF CloseCommit, At, Updates
    <3>2. \A p \in Orders : settled'[p] # settled[p] => p = j.order
      BY <3>1 DEF TypeOK
    <3>3. Saves(h)
      BY <2>k, <3>1, <3>2, <2>1, <2>d, <2>r DEF CloseCommit, Saves, Statuses
    <3> QED BY <2>k, <3>3, <2>d DEF CloseCommit
  <2>l. CASE ShipCommit(h)
    BY <2>l, <2>d, <2>s, <2>r, <2>2 DEF ShipCommit, Updating, At, Updates, Statuses
  <2>m. CASE PlainCommit(h)
    <3>1. j.to \in Statuses
      BY <2>2 DEF Job
    <3> QED BY <2>m, <3>1, <2>d, <2>s, <2>r, <2>2 DEF PlainCommit, At, Updates
  <2>p. CASE Abort(h)
    BY <2>p, <2>d DEF Abort, Quiet, dbVars, histVars
  <2> QED
    BY <1>2, <2>a, <2>b, <2>c, <2>e, <2>f, <2>g, <2>h, <2>i, <2>j, <2>k, <2>l, <2>m, <2>p DEF Finish
<1> QED BY <1>1, <1>2

\* A step keeps LockHeld: a save finds the row unlocked, and so changes no order
\* an assignment holds.
LEMMA StepLock ==
    ASSUME TypeOK, LockHeld, NEW h \in Handlers, Begin(h) \/ Finish(h)
    PROVE  LockHeld'
<1>1. /\ \A g \in Handlers \ {h} : job'[g] = job[g]
      /\ Quiet \/ (AssignCommit(h) /\ job[h] # NoJob) \/ Saves(h)
      /\ At(h, {"assign"}, "locked")' => AssignLock(h)
  BY StepKinds
<1>2. \A g \in Handlers \ {h} : /\ At(g, {"assign"}, "locked")' <=> At(g, {"assign"}, "locked")
                                /\ job[g] # NoJob => job[g].order \in Orders
  BY <1>1 DEF At, TypeOK, Job
<1>3. CASE AssignLock(h)
  <2>1. job[h] \in Job /\ job'[h].order = job[h].order /\ order' = order
    BY <1>3 DEF AssignLock, At, Advance, TypeOK, Job, dbVars
  <2>2. order[job[h].order].courier = NoCourier /\ Unlocked(job[h].order)
    BY <1>3 DEF AssignLock, MayAssign
  <2>3. \A g \in Handlers \ {h} : At(g, {"assign"}, "locked")' => job'[g].order # job'[h].order
    BY <1>1, <1>2, <2>1, <2>2 DEF Unlocked
  <2> QED BY <1>1, <1>2, <2>1, <2>2, <2>3 DEF LockHeld
<1>4. CASE ~AssignLock(h) /\ Quiet
  BY <1>1, <1>2, <1>4 DEF LockHeld, Quiet
<1>5. CASE ~AssignLock(h) /\ AssignCommit(h) /\ job[h] # NoJob
  <2>1. At(h, {"assign"}, "locked") /\ order' = [order EXCEPT ![job[h].order] = AssignedRow(job[h])]
    BY <1>5 DEF AssignCommit
  <2>2. \A g \in Handlers \ {h} : At(g, {"assign"}, "locked") => order'[job[g].order] = order[job[g].order]
    BY <1>2, <2>1 DEF LockHeld, TypeOK, At
  <2> QED BY <1>1, <1>2, <1>5, <2>2 DEF LockHeld
<1>6. CASE ~AssignLock(h) /\ Saves(h)
  <2>1. PICK row \in Row : Save(job[h], row)
    BY <1>6 DEF Saves
  <2>2. \A g \in Handlers : At(g, {"assign"}, "locked") => job[g].order # job[h].order
    BY <2>1 DEF Save, Unlocked
  <2>3. \A g \in Handlers \ {h} : At(g, {"assign"}, "locked") => order'[job[g].order] = order[job[g].order]
    BY <1>2, <2>1, <2>2 DEF Save, TypeOK, At
  <2> QED BY <1>1, <1>2, <1>6, <2>3 DEF LockHeld
<1> QED BY <1>1, <1>3, <1>4, <1>5, <1>6

LEMMA NextLock == TypeOK /\ LockHeld /\ [Next]_vars => LockHeld'
<1> SUFFICES ASSUME TypeOK, LockHeld, [Next]_vars PROVE LockHeld'
  OBVIOUS
<1>1. CASE UNCHANGED vars
  BY <1>1 DEF LockHeld, At, vars, dbVars
<1> QED BY <1>1, StepLock DEF Next

\* At most one assignment holds the lock of an order, and that order has no
\* courier until it commits.
THEOREM LockIsExclusive == Spec => []LockHeld
<1>1. Init => TypeOK /\ LockHeld
  BY InitType DEF Init, LockHeld, At
<1>2. TypeOK /\ LockHeld /\ [Next]_vars => (TypeOK /\ LockHeld)'
  BY NextType, NextLock
<1> QED BY <1>1, <1>2, PTL DEF Spec

\* The step of a handler that serves a request is its own.
LEMMA OwnStep ==
    ASSUME TypeOK, NEW h \in Handlers, Begin(h) \/ Finish(h),
           NEW g \in Handlers, job'[g] # job[g]
    PROVE  g = h
BY StepKinds

\* What a save that loses no update does.
LEMMA SaveFacts ==
    ASSUME TypeOK, NEW h \in Handlers, Saves(h), NEW o \in Orders
    PROVE  /\ order'[o] # order[o] \/ settled'[o] # settled[o] => o = job[h].order
           /\ order[job[h].order] = job[h].row \/ job[h].order \in lost'
           /\ order'[job[h].order].courier = job[h].courier
<1>1. PICK row \in Row : row.courier = job[h].courier /\ Save(job[h], row)
  BY DEF Saves
<1>2. job[h].order \in Orders
  BY DEF Saves, TypeOK, Job
<1>3. order' = [order EXCEPT ![job[h].order] = row]
  BY <1>1 DEF Save
<1>4. order[job[h].order] = job[h].row \/ job[h].order \in lost'
  BY <1>1 DEF Save
<1>5. order'[o] # order[o] \/ settled'[o] # settled[o] => o = job[h].order
  BY <1>3 DEF Saves, TypeOK
<1>6. order'[job[h].order].courier = job[h].courier
  BY <1>1, <1>2, <1>3 DEF TypeOK
<1> QED BY <1>4, <1>5, <1>6

\* The assignment of a courier takes an order from nobody and writes nothing but
\* the courier.
THEOREM AssignmentsNeverSteal == Spec => AssignNeverSteals
<1> DEFINE Fair(h, o) ==
      Steps(h, o) /\ job[h].via = "assign" =>
         \/ order'[o] = order[o]
         \/ /\ order[o].courier = NoCourier
            /\ order'[o] = [order[o] EXCEPT !.courier = job[h].courier]
<1>1. TypeOK /\ LockHeld /\ [Next]_vars => [\A h \in Handlers, o \in Orders : Fair(h, o)]_vars
  <2> SUFFICES ASSUME TypeOK, LockHeld, Next, NEW h \in Handlers, NEW o \in Orders,
                      Steps(h, o), job[h].via = "assign"
               PROVE  \/ order'[o] = order[o]
                      \/ /\ order[o].courier = NoCourier
                         /\ order'[o] = [order[o] EXCEPT !.courier = job[h].courier]
    OBVIOUS
  <2>1. Begin(h) \/ Finish(h)
    BY OwnStep DEF Next, Steps
  <2>2. Quiet \/ AssignCommit(h)
    BY <2>1, StepKinds DEF Saves
  <2>3. CASE AssignCommit(h)
    BY <2>3 DEF AssignCommit, AssignedRow, LockHeld, Steps, TypeOK
  <2> QED BY <2>2, <2>3 DEF Quiet
<1> QED BY <1>1, TypeCorrect, LockIsExclusive, PTL DEF Spec, AssignNeverSteals

\* A closed order is settled again only by a handler that overwrites an update.
THEOREM SettledOnlyOnce == Spec => SettledOnce
<1>1. TypeOK /\ [Next]_vars =>
        [\A o \in Orders : order[o].status = "closed" /\ settled'[o] > settled[o] => o \in lost']_vars
  <2> SUFFICES ASSUME TypeOK, NEW h \in Handlers, Begin(h) \/ Finish(h), NEW o \in Orders,
                      order[o].status = "closed", settled'[o] > settled[o]
               PROVE  o \in lost'
    BY DEF Next
  <2>0. settled'[o] # settled[o]
    BY DEF TypeOK
  <2>1. Saves(h)
    BY <2>0, StepKinds DEF Quiet, AssignCommit
  <2>2. job[h].stage = "settling" /\ o = job[h].order
    BY <2>0, <2>1 DEF Saves
  <2>3. job[h].row.status # "closed"
    BY <2>1, <2>2 DEF Saves, TypeOK, RequestOK
  <2> QED BY <2>1, <2>2, <2>3, SaveFacts
<1> QED BY <1>1, TypeCorrect, PTL DEF Spec, SettledOnce

\* A courier loses an order only to an operator, to a closing courier or to a
\* handler that overwrites an update.
THEOREM CouriersKept == Spec => CourierKept
<1>1. TypeOK /\ LockHeld /\ [Next]_vars =>
        [\A o \in Orders :
           order[o].courier # NoCourier /\ order'[o].courier # order[o].courier =>
             \/ o \in lost'
             \/ \E h \in Handlers : Steps(h, o) /\ job[h].via \in {"replace", "close"}]_vars
  <2> SUFFICES ASSUME TypeOK, LockHeld, NEW h \in Handlers, Begin(h) \/ Finish(h), NEW o \in Orders,
                      order[o].courier # NoCourier, order'[o].courier # order[o].courier,
                      o \notin lost'
               PROVE  Steps(h, o) /\ job[h].via \in {"replace", "close"}
    BY DEF Next
  <2>1. ~AssignCommit(h)
    BY DEF AssignCommit, LockHeld, At, TypeOK
  <2>2. Saves(h)
    BY <2>1, StepKinds DEF Quiet
  <2>3. o = job[h].order /\ order[o] = job[h].row /\ order'[o].courier = job[h].courier
    BY <2>2, SaveFacts
  <2>4. job[h].via \in {"replace", "close"}
    BY <2>2, <2>3 DEF Saves, TypeOK, RequestOK
  <2> QED BY <2>2, <2>3, <2>4 DEF Steps, Saves
<1> QED BY <1>1, TypeCorrect, LockIsExclusive, PTL DEF Spec, CourierKept

\* The handlers that look at the status move no completed order they have seen.
THEOREM CompletedOrdersKept == Spec => CompletedKept
<1> DEFINE Kept(h, o) ==
      /\ Steps(h, o)
      /\ job[h].via \in {"assign", "replace", "accept", "cooking", "ready", "customer"}
      /\ order[o].status \in Completed
      => order'[o].status = order[o].status \/ o \in lost'
<1>1. TypeOK /\ [Next]_vars => [\A h \in Handlers, o \in Orders : Kept(h, o)]_vars
  <2> SUFFICES ASSUME TypeOK, Next, NEW h \in Handlers, NEW o \in Orders, Steps(h, o),
                      job[h].via \in {"assign", "replace", "accept", "cooking", "ready", "customer"},
                      order[o].status \in Completed
               PROVE  order'[o].status = order[o].status \/ o \in lost'
    OBVIOUS
  <2>1. Begin(h) \/ Finish(h)
    BY OwnStep DEF Next, Steps
  <2>2. CASE Quiet
    BY <2>2 DEF Quiet
  <2>3. CASE AssignCommit(h)
    BY <2>3 DEF AssignCommit, AssignedRow, TypeOK, Row
  <2>4. CASE Saves(h)
    <3>1. job[h].row.status \in WorksOn(job[h].via) /\ job[h].via # "assign"
      BY <2>4 DEF Saves, TypeOK, RequestOK
    <3>2. job[h].row.status \notin Completed
      BY <3>1, WorksOnEach DEF Completed
    <3> QED BY <2>4, <3>2, SaveFacts
  <2> QED BY <2>1, <2>2, <2>3, <2>4, StepKinds
<1> QED BY <1>1, TypeCorrect, PTL DEF Spec, CompletedKept

-----------------------------------------------------------------------------
(* Who goes on with an order.                                              *)

\* What an entry point other than the CRM's asks update_order_status for.
Wanted == [take |-> "shipped", close |-> "closed", accept |-> "accepted", cooking |-> "cooking",
           ready |-> "ready", cancel |-> "rejected", customer |-> "rejected"]

\* An update in flight was not refused on the row its object was loaded from.
Asked(j) ==
    j.via \in Updates =>
        /\ ~Refuses(j.row.status, j.courier, j.to)
        /\ j.via # "crm" => j.to = Wanted[j.via]
        /\ j.via = "take" => j.courier # NoCourier

AllAsked == \A h \in Handlers : job[h] # NoJob => Asked(job[h])

LEMMA LoadAsked ==
    ASSUME TypeOK, AllAsked, NEW h \in Handlers, NEW o \in Orders, NEW via \in Updates \cup Writes,
           NEW c, NEW s, NEW z, Load(h, o, via, c, s, z),
           via \in Updates => /\ ~Refuses(order[o].status, c, s)
                              /\ via # "crm" => s = Wanted[via]
                              /\ via = "take" => c # NoCourier
    PROVE  AllAsked' /\ terms' = terms
<1>1. /\ job'[h].via = via /\ job'[h].row = order[o] /\ job'[h].courier = c /\ job'[h].to = s
      /\ \A g \in Handlers \ {h} : job'[g] = job[g]
  BY DEF Load, TypeOK
<1>2. Asked(job'[h])
  BY ONLY <1>1, via \in Updates => /\ ~Refuses(order[o].status, c, s)
                                   /\ via # "crm" => s = Wanted[via]
                                   /\ via = "take" => c # NoCourier
  DEF Asked
<1>3. \A g \in Handlers : (job[g] # NoJob => Asked(job[g]))'
  BY <1>1, <1>2 DEF AllAsked, Asked
<1> QED BY <1>3 DEF AllAsked, Load

LEMMA BeginAsked ==
    ASSUME TypeOK, AllAsked, NEW h \in Handlers, Begin(h)
    PROVE  AllAsked' /\ terms' = terms
<1>1. PICK o \in Orders :
        \/ \E c \in Couriers : AssignOrder(h, o, c) \/ CloseOrder(h, o, c)
        \/ TakeOrder(h, o)
        \/ \E s \in CrmStatuses : CrmUpdateStatus(h, o, s)
        \/ \E c \in CrmCouriers : ChangeCourier(h, o, c)
        \/ \E z \in BOOLEAN : RestaurantAccept(h, o, z)
        \/ \E via \in {"process", "incident"} : RestaurantProcess(h, o, via)
        \/ RestaurantCancel(h, o) \/ RestaurantCooking(h, o) \/ RestaurantReady(h, o)
        \/ CustomerCancel(h, o)
        \/ SaveOrder(h, o)
  BY DEF Begin
<1>u. ASSUME NEW via \in Updates, NEW c, NEW s, NEW z, CallUpdate(h, o, via, c, s, z),
             via # "crm" => s = Wanted[via], via = "take" => c # NoCourier
      PROVE  AllAsked' /\ terms' = terms
  BY <1>u, LoadAsked DEF CallUpdate
<1>w. ASSUME NEW via \in Writes, NEW c, CallWrite(h, o, via, c)
      PROVE  AllAsked' /\ terms' = terms
  <2>1. via \notin Updates
    BY DEF Writes, Updates
  <2>2. Load(h, o, via, c, order[o].status, FALSE)
    BY <1>w DEF CallWrite
  <2> QED BY <2>1, <2>2, LoadAsked
<1>v. /\ Updates = {"crm", "take", "close", "accept", "cooking", "ready", "cancel", "customer"}
      /\ Writes = {"assign", "replace", "process", "incident", "save"}
      /\ Wanted["take"] = "shipped" /\ Wanted["close"] = "closed" /\ Wanted["accept"] = "accepted"
      /\ Wanted["cooking"] = "cooking" /\ Wanted["ready"] = "ready"
      /\ Wanted["cancel"] = "rejected" /\ Wanted["customer"] = "rejected"
  BY DEF Updates, Writes, Wanted
<1>2. CASE \E c \in Couriers : AssignOrder(h, o, c)
  BY <1>2, <1>w, <1>v DEF AssignOrder
<1>3. CASE \E c \in Couriers : CloseOrder(h, o, c)
  BY <1>3, <1>u, <1>v DEF CloseOrder
<1>4. CASE TakeOrder(h, o)
  BY <1>4, <1>u, <1>v DEF TakeOrder
<1>5. CASE \E s \in CrmStatuses : CrmUpdateStatus(h, o, s)
  BY <1>5, <1>u, <1>v DEF CrmUpdateStatus
<1>6. CASE \E c \in CrmCouriers : ChangeCourier(h, o, c)
  BY <1>6, <1>w, <1>v DEF ChangeCourier
<1>7. CASE \E z \in BOOLEAN : RestaurantAccept(h, o, z)
  BY <1>7, <1>u, <1>v DEF RestaurantAccept
<1>8. CASE \E via \in {"process", "incident"} : RestaurantProcess(h, o, via)
  BY <1>8, <1>w, <1>v DEF RestaurantProcess
<1>9. CASE RestaurantCancel(h, o)
  BY <1>9, <1>u, <1>v DEF RestaurantCancel
<1>10. CASE RestaurantCooking(h, o)
  BY <1>10, <1>u, <1>v DEF RestaurantCooking
<1>11. CASE RestaurantReady(h, o)
  BY <1>11, <1>u, <1>v DEF RestaurantReady
<1>12. CASE CustomerCancel(h, o)
  BY <1>12, <1>u, <1>v DEF CustomerCancel
<1>13. CASE SaveOrder(h, o)
  BY <1>13, <1>w, <1>v DEF SaveOrder
<1> QED BY <1>1, <1>2, <1>3, <1>4, <1>5, <1>6, <1>7, <1>8, <1>9, <1>10, <1>11, <1>12, <1>13

\* A request that goes on asks for what it asked for.
LEMMA FinishAsked ==
    ASSUME TypeOK, AllAsked, NEW h \in Handlers, Finish(h)
    PROVE  AllAsked' /\ terms' = terms
<1>1. job[h] # NoJob
  BY DEF Finish, AssignLock, AssignCommit, ReplaceCommit, ReplaceMessage, WriteCommit,
     AcceptRefused, AcceptCommit, RejectCommit, CloseSettle, CloseCommit, ShipCommit, PlainCommit,
     Abort, At, Updating
<1>2. job[h] \in Job /\ Asked(job[h])
  BY <1>1 DEF TypeOK, AllAsked
<1>3. terms' = terms /\ (Done(h) \/ \E stage \in {"locked", "saved", "settling"} : Advance(h, stage))
  BY DEF Finish, AssignLock, AssignCommit, ReplaceCommit, ReplaceMessage, WriteCommit,
     AcceptRefused, AcceptCommit, RejectCommit, CloseSettle, CloseCommit, ShipCommit, PlainCommit,
     Abort
<1>4. \A g \in Handlers \ {h} : job'[g] = job[g]
  BY <1>3 DEF Done, Advance, TypeOK
<1>5. job'[h] # NoJob => Asked(job'[h])
  <2>1. CASE Done(h)
    BY <2>1 DEF Done, TypeOK
  <2>2. ASSUME NEW stage \in {"locked", "saved", "settling"}, Advance(h, stage)
        PROVE  Asked(job'[h])
    <3>1. job'[h] = [job[h] EXCEPT !.stage = stage]
      BY <2>2 DEF Advance, TypeOK
    <3> QED BY <3>1, <1>2 DEF Asked, Job
  <2> QED BY <1>3, <2>1, <2>2
<1>6. \A g \in Handlers : (job[g] # NoJob => Asked(job[g]))'
  BY <1>4, <1>5 DEF AllAsked, Asked
<1> QED BY <1>3, <1>6 DEF AllAsked

LEMMA AskedKept == TypeOK /\ AllAsked /\ [Next]_vars => AllAsked' /\ terms' = terms
<1> SUFFICES ASSUME TypeOK, AllAsked, [Next]_vars PROVE AllAsked' /\ terms' = terms
  OBVIOUS
<1>1. CASE UNCHANGED vars
  BY <1>1 DEF AllAsked, Asked, vars
<1> QED BY <1>1, BeginAsked, FinishAsked DEF Next

\* What it takes, of the row of an order, that somebody can go on with it: listed says
\* that couriers looking for work are shown it.
Held(row, listed) ==
    \/ row.status \in Completed
    \/ row.status = "created" /\ ~row.process
    \/ row.status = "accepted" /\ listed
    \/ row.status \notin {"pre-order", "created", "incident"} /\ row.courier # NoCourier

TendedHeld == \A o \in Orders : Tended(o) <=> Held(order[o], terms[o].listed)

LEMMA TendedIsHeld == TypeOK => TendedHeld
<1> SUFFICES ASSUME TypeOK, NEW o \in Orders
             PROVE  Tended(o) <=> Held(order[o], terms[o].listed)
  BY DEF TendedHeld
<1>1. order[o].status \in Statuses /\ order[o].courier \in Couriers \cup {NoCourier}
  BY DEF TypeOK, Row
<1>2. NoCourier \notin Couriers
  BY SentinelAssumption
<1>3. RestaurantCan(o) <=>
        \/ order[o].status = "created" /\ ~order[o].process
        \/ order[o].status = "pending" /\ order[o].courier # NoCourier /\ ~order[o].process
        \/ order[o].status \in {"accepted", "cooking"} /\ order[o].courier # NoCourier
  BY <1>1 DEF RestaurantCan, ActiveList, With, Takes, Refuses
<1>4. o \in AvailableOrders <=>
        order[o].status = "accepted" /\ terms[o].listed /\ order[o].courier = NoCourier
  BY DEF AvailableOrders, With
<1>5. \A c \in Couriers :
        o \in CourierOrders(c) <=>
          order[o].status \in {"pending", "accepted", "ready", "shipped"} /\ order[o].courier = c
  BY DEF CourierOrders, With
<1>6. order[o].courier # NoCourier => Takes(o, "shipped") \/ Takes(o, "closed")
  BY DEF Takes, Refuses
<1>7. CourierCan(o) <=>
        \/ order[o].status = "accepted" /\ terms[o].listed /\ order[o].courier = NoCourier
        \/ order[o].status \in {"pending", "accepted", "ready", "shipped"} /\ order[o].courier # NoCourier
  BY <1>1, <1>2, <1>4, <1>5, <1>6 DEF CourierCan
<1> QED BY <1>1, <1>3, <1>7 DEF Tended, Held, Statuses, Completed

\* A handler that saves the row it loaded and does not set the order aside leaves it held.
LEMMA HeldRows ==
    ASSUME TypeOK, AllAsked, NEW h \in Handlers, Finish(h), NEW o \in Orders, NEW listed \in BOOLEAN,
           Held(order[o], listed), LockHeld, o \notin lost', order'[o] # order[o],
           job[h] # NoJob => /\ job[h].via \notin {"crm", "replace", "process", "incident"}
                             /\ job[h].via = "accept" => listed \/ order'[o].courier # NoCourier
    PROVE  Held(order'[o], listed)
<1> DEFINE j == job[h]
<1>1. j # NoJob
  BY DEF Finish, AssignLock, AssignCommit, ReplaceCommit, ReplaceMessage, WriteCommit,
     AcceptRefused, AcceptCommit, RejectCommit, CloseSettle, CloseCommit, ShipCommit, PlainCommit,
     Abort, At, Updating
<1>2. /\ j \in Job /\ RequestOK(j) /\ Asked(j) /\ j.order \in Orders /\ j.row \in Row
      /\ j.courier \in Couriers \cup {NoCourier}
      /\ j.via \notin {"crm", "replace", "process", "incident"}
      /\ j.via = "accept" => listed \/ order'[o].courier # NoCourier
  BY <1>1 DEF TypeOK, AllAsked, Job
<1>s. ASSUME NEW row, Save(j, row)
      PROVE  order'[o] = row /\ order[o] = j.row
  <2>1. order' = [order EXCEPT ![j.order] = row]
    BY <1>s DEF Save
  <2>2. o = j.order
    BY <2>1 DEF TypeOK
  <2> QED BY <1>s, <2>1, <2>2, <1>2 DEF Save, TypeOK
<1>a. CASE AssignCommit(h)
  <2>1. At(h, {"assign"}, "locked") /\ order' = [order EXCEPT ![j.order] = AssignedRow(j)]
    BY <1>a DEF AssignCommit
  <2>2. o = j.order /\ order'[o] = AssignedRow(j)
    BY <2>1, <1>2 DEF TypeOK
  <2>3. order[o].courier = NoCourier /\ order[o] \in Row
    BY <2>1, <2>2 DEF LockHeld, TypeOK
  <2>4. /\ AssignedRow(j).status = order[o].status /\ AssignedRow(j).courier = j.courier
        /\ AssignedRow(j).process = order[o].process
    BY <2>2, <2>3 DEF AssignedRow, Row
  <2> QED BY <2>2, <2>3, <2>4 DEF Held
<1>b. CASE WriteCommit(h)
  <2>1. order'[o] = WrittenRow(j) /\ order[o] = j.row
    BY <1>b, <1>s DEF WriteCommit
  <2>2. j.courier = j.row.courier
    BY <1>2, <1>b DEF WriteCommit, At, RequestOK
  <2>3. /\ Memory(j).status = j.row.status /\ Memory(j).courier = j.courier
        /\ Memory(j).process = j.row.process
    BY <1>2 DEF Memory, Row
  <2>4. WrittenRow(j) = Memory(j)
    BY <1>2 DEF WrittenRow
  <2> QED BY <2>1, <2>2, <2>3, <2>4 DEF Held
<1>w. Wanted["accept"] = "accepted" /\ Wanted["cooking"] = "cooking" /\ Wanted["ready"] = "ready"
      /\ Wanted["take"] = "shipped" /\ Wanted["close"] = "closed" /\ Wanted["cancel"] = "rejected"
      /\ Wanted["customer"] = "rejected"
  BY DEF Wanted
<1>c. CASE AcceptCommit(h)
  <2>1. /\ ~j.row.process /\ j.via \in Updates /\ j.to = "accepted"
        /\ \E charge \in Charges(j) : Save(j, AcceptedRow(j, charge))
    BY <1>c DEF AcceptCommit, Updating, At
  <2>5. PICK charge \in Charges(j) : Save(j, AcceptedRow(j, charge))
    BY <2>1
  <2>2. order'[o] = AcceptedRow(j, charge)
    BY <2>5, <1>s
  <2>3. Memory(j) \in Row /\ Memory(j).process = j.row.process
    BY <1>2 DEF Memory, Row
  <2>4. /\ AcceptedRow(j, charge).status \in {"created", "accepted"}
        /\ AcceptedRow(j, charge).process = j.row.process
    BY <2>3 DEF AcceptedRow, Row
  <2>6. j.via = "accept"
    BY <2>1, <1>2, <1>w DEF Asked, Updates
  <2> QED BY <2>1, <2>2, <2>4, <2>6, <1>2 DEF Held
<1>d. CASE RejectCommit(h)
  <2>1. order'[o] = RejectedRow(j)
    BY <1>d, <1>s DEF RejectCommit
  <2>2. RejectedRow(j).status = "rejected"
    BY <1>2 DEF RejectedRow, Memory, Row
  <2> QED BY <2>1, <2>2 DEF Held, Completed
<1>e. CASE CloseCommit(h)
  <2>1. order'[o] = [Memory(j) EXCEPT !.status = "closed"]
    BY <1>e, <1>s DEF CloseCommit
  <2>2. order'[o].status = "closed"
    BY <2>1, <1>2 DEF Memory, Row
  <2> QED BY <2>2 DEF Held, Completed
<1>f. CASE ShipCommit(h)
  <2>1. order'[o] = [Memory(j) EXCEPT !.status = "shipped"]
    BY <1>f, <1>s DEF ShipCommit
  <2>2. j.via \in Updates /\ j.to = "shipped"
    BY <1>f DEF ShipCommit, Updating, At
  <2>3. j.via = "take"
    BY <2>2, <1>2, <1>w DEF Asked, Updates
  <2>4. j.courier # NoCourier
    BY <2>2, <2>3, <1>2 DEF Asked
  <2>5. order'[o].courier = j.courier /\ order'[o].status = "shipped"
    BY <2>1, <1>2 DEF Memory, Row
  <2> QED BY <2>4, <2>5 DEF Held
<1>g. CASE PlainCommit(h)
  <2>1. order'[o] = [Memory(j) EXCEPT !.status = j.to]
    BY <1>g, <1>s DEF PlainCommit
  <2>2. j.via \in Updates /\ j.to \notin Handled
    BY <1>g DEF PlainCommit, At
  <2>3. j.via \in {"cooking", "ready"} /\ j.to \in {"cooking", "ready"}
    BY <2>2, <1>2, <1>w DEF Asked, Updates, Handled
  <2>4. j.row.status # "created"
    BY <2>3, <1>2, WorksOnEach DEF RequestOK
  <2>5. j.courier # NoCourier
    BY <2>2, <2>4, <1>2 DEF Asked, Refuses
  <2>6. order'[o].courier = j.courier /\ order'[o].status = j.to
    BY <2>1, <1>2 DEF Memory, Row
  <2> QED BY <2>3, <2>5, <2>6 DEF Held
<1>h. CASE ReplaceCommit(h)
  BY <1>h, <1>2 DEF ReplaceCommit, At
<1>i. CASE UNCHANGED order
  BY <1>i
<1> QED
  BY <1>a, <1>b, <1>c, <1>d, <1>e, <1>f, <1>g, <1>h, <1>i
  DEF Finish, AssignLock, ReplaceMessage, AcceptRefused, CloseSettle, Abort, dbVars

\* An order that a courier of the platform may deliver stays on the list of somebody who
\* can go on with it, unless it is set aside or a save over somebody's update takes it off.
THEOREM OrdersNeverStranded == Spec => NeverStranded
<1>1. Init => AllAsked
  BY DEF Init, AllAsked
<1>2. TypeOK /\ AllAsked /\ [Next]_vars => AllAsked'
  BY AskedKept
<1>3. Spec => []AllAsked
  BY <1>1, <1>2, TypeCorrect, PTL DEF Spec
<1>4. Spec => []TendedHeld
  BY TendedIsHeld, TypeCorrect, PTL
<1>5. TypeOK /\ TendedHeld /\ TendedHeld' /\ LockHeld /\ AllAsked /\ [Next]_vars =>
        [\A o \in Orders :
           terms[o].platform /\ Tended(o) =>
              \/ Tended(o)'
              \/ o \in lost'
              \/ \E h \in Handlers : SetsAside(h, o)]_vars
  <2> SUFFICES ASSUME TypeOK, TendedHeld, TendedHeld', LockHeld, AllAsked,
                      NEW h \in Handlers, Begin(h) \/ Finish(h), NEW o \in Orders, Tended(o), o \notin lost',
                      ~SetsAside(h, o)
               PROVE  Tended(o)'
    BY DEF Next
  <2>1. terms' = terms
    BY BeginAsked, FinishAsked
  <2>2. Held(order[o], terms[o].listed) /\ terms[o].listed \in BOOLEAN
    BY DEF TendedHeld, TypeOK, Terms
  <2>3. Held(order'[o], terms[o].listed)
    <3>1. CASE order'[o] = order[o]
      BY <2>2, <3>1
    <3>2. CASE order'[o] # order[o]
      <4>1. AssignCommit(h) \/ Saves(h)
        BY <3>2, StepKinds DEF Quiet
      <4>2. ~Begin(h)
        BY <3>2, BeginLoads DEF Load, dbVars
      <4>3. CASE AssignCommit(h)
        <5>1. job[h] # NoJob => job[h].via = "assign"
          BY <4>3 DEF AssignCommit, At
        <5> QED BY <5>1, <4>2, <3>2, <2>2, HeldRows
      <4>4. CASE Saves(h)
        <5>1. o = job[h].order
          BY <4>4, <3>2, SaveFacts
        <5>2. Steps(h, o)
          BY <4>4, <5>1 DEF Saves, Steps
        <5>3. /\ job[h].via \notin {"crm", "replace", "process", "incident"}
              /\ job[h].via = "accept" => terms[o].listed \/ order'[o].courier # NoCourier
          BY <5>2 DEF SetsAside
        <5> QED BY <5>3, <4>2, <3>2, <2>2, HeldRows
      <4> QED BY <4>1, <4>3, <4>4
    <3> QED BY <3>1, <3>2
  <2> QED BY <2>1, <2>3 DEF TendedHeld
<1> QED BY <1>3, <1>4, <1>5, TypeCorrect, LockIsExclusive, PTL DEF Spec, NeverStranded

=============================================================================
