---------------------------- MODULE Settlement_proofs ----------------------------
(***************************************************************************)
(* Theorems about Settlement, for any orders, couriers and institutions,   *)
(* and that it implements Books.                                           *)
(***************************************************************************)
EXTENDS Settlement, TLAPS

\* What an entry point loads agrees with the tables when it is loaded.
Fits(j) ==
    /\ j.kind = "close" => /\ j.stage = "loaded" /\ j.row.courier # NoCourier
                           /\ order[j.order].status # "closed"
    /\ j.kind \in {"assign", "row"} => j.own = courier[j.id]
    /\ j.kind = "replace" =>
         /\ j.stage = "loaded" /\ j.row = order[j.order]
         /\ j.row.courier # NoCourier => j.own = courier[j.row.courier]
         /\ j.row.status \notin Completed
    /\ j.kind = "move" => j.row.courier # NoCourier /\ j.row.status \in MoveStatuses
    /\ j.kind = "place" => j.seen = institution[j.place]

\* The kind of a job says which record it is.
LEMMA JobKinds ==
    ASSUME NEW j \in Job
    PROVE  /\ j.kind = "close" => j \in CloseJob
           /\ j.kind = "assign" => j \in AssignJob
           /\ j.kind = "row" => j \in RowJob
           /\ j.kind = "replace" => j \in ReplaceJob
           /\ j.kind = "move" => j \in MoveJob
           /\ j.kind = "place" => j \in PlaceJob
           /\ j.kind \in {"close", "assign", "row", "replace", "move", "place"}
<1>1. CASE j \in CloseJob BY <1>1 DEF CloseJob
<1>2. CASE j \in AssignJob BY <1>2 DEF AssignJob
<1>3. CASE j \in RowJob BY <1>3 DEF RowJob
<1>4. CASE j \in ReplaceJob BY <1>4 DEF ReplaceJob
<1>5. CASE j \in MoveJob BY <1>5 DEF MoveJob
<1>6. CASE j \in PlaceJob BY <1>6 DEF PlaceJob
<1> QED BY <1>1, <1>2, <1>3, <1>4, <1>5, <1>6 DEF Job

LEMMA Kinds ==
    ASSUME TypeOK, NEW h \in Handlers
    PROVE  /\ Kind(h) = "none" => job[h] = NoJob
           /\ Kind(h) # "none" => job[h] # NoJob /\ job[h] \in Job /\ Kind(h) = job[h].kind
           /\ Kind(h) = "close" => job[h] \in CloseJob
           /\ Kind(h) = "assign" => job[h] \in AssignJob
           /\ Kind(h) = "row" => job[h] \in RowJob
           /\ Kind(h) = "replace" => job[h] \in ReplaceJob
           /\ Kind(h) = "move" => job[h] \in MoveJob
           /\ Kind(h) = "place" => job[h] \in PlaceJob
<1>1. CASE job[h] = NoJob BY <1>1 DEF Kind
<1>2. CASE job[h] # NoJob
  <2>1. job[h] \in Job /\ Kind(h) = job[h].kind BY <1>2 DEF Kind, TypeOK
  <2> QED BY <2>1, <1>2, JobKinds
<1> QED BY <1>1, <1>2

\* Every entry point starts a job that fits the tables.
LEMMA BeginStarts ==
    ASSUME TypeOK, NEW h \in Handlers, Begin(h)
    PROVE  \E j \in Job : Start(h, j) /\ Fits(j)
<1> USE TermsAssumption, InputAssumption
<1>t. /\ order \in [Orders -> OrderRow] /\ courier \in [Couriers -> CourierRow]
      /\ institution \in [Institutions -> Int]
  BY DEF TypeOK
<1>1. ASSUME NEW o \in Orders, NEW row \in OrderRow, CloseOrder(h, o, row),
             row.status = order[o].status
      PROVE  \E j \in Job : Start(h, j) /\ Fits(j)
  <2> DEFINE j == [kind |-> "close", stage |-> "loaded", order |-> o, row |-> row,
                   payee |-> NoCourier, seen |-> 0]
  <2>1. j \in CloseJob BY DEF CloseJob
  <2>2. Start(h, j) BY <1>1 DEF CloseOrder
  <2>3. Fits(j) BY <1>1 DEF Fits, CloseOrder, Refuses
  <2> HIDE DEF j
  <2> QED BY <2>1, <2>2, <2>3 DEF Job
<1>2. ASSUME NEW o \in Orders, NEW c \in Couriers, AssignOrder(h, o, c)
      PROVE  \E j \in Job : Start(h, j) /\ Fits(j)
  <2> DEFINE j == [kind |-> "assign", order |-> o, id |-> c, own |-> courier[c]]
  <2>1. j \in AssignJob BY <1>t DEF AssignJob
  <2>2. Start(h, j) BY <1>2 DEF AssignOrder
  <2>3. Fits(j) BY DEF Fits
  <2> HIDE DEF j
  <2> QED BY <2>1, <2>2, <2>3 DEF Job
<1>3. ASSUME NEW c \in Couriers, NEW to \in CourierRow, SaveCourier(h, c, to)
      PROVE  \E j \in Job : Start(h, j) /\ Fits(j)
  <2> DEFINE j == [kind |-> "row", id |-> c, own |-> courier[c], to |-> to]
  <2>1. j \in RowJob BY <1>t DEF RowJob
  <2>2. Start(h, j) BY <1>3 DEF SaveCourier
  <2>3. Fits(j) BY DEF Fits
  <2> HIDE DEF j
  <2> QED BY <2>1, <2>2, <2>3 DEF Job
<1>4. ASSUME NEW o \in Orders, NEW c \in Couriers \cup {NoCourier}, ChangeCourier(h, o, c)
      PROVE  \E j \in Job : Start(h, j) /\ Fits(j)
  <2> DEFINE own == IF order[o].courier = NoCourier THEN NoCourier
                    ELSE courier[order[o].courier]
             j == [kind |-> "replace", stage |-> "loaded", order |-> o, row |-> order[o],
                   own |-> own, new |-> c]
  <2>1. own \in CourierRow \cup {NoCourier} BY <1>t DEF OrderRow
  <2>2. Start(h, j) BY <1>4 DEF ChangeCourier
  <2>3. Fits(j) BY <1>4 DEF Fits, ChangeCourier
  <2>4. j \in ReplaceJob
    <3> HIDE DEF own
    <3> QED BY <1>t, <2>1 DEF ReplaceJob
  <2> HIDE DEF j
  <2> QED BY <2>2, <2>3, <2>4 DEF Job
<1>5. ASSUME NEW o \in Orders, NEW s \in MoveStatuses, MoveOrder(h, o, s)
      PROVE  \E j \in Job : Start(h, j) /\ Fits(j)
  <2> DEFINE j == [kind |-> "move", order |-> o, row |-> [order[o] EXCEPT !.status = s]]
  <2>1. j \in MoveJob BY <1>t DEF MoveJob, OrderRow
  <2>2. Start(h, j) BY <1>5 DEF MoveOrder
  <2>3. Fits(j) BY <1>5, <1>t DEF Fits, MoveOrder, Refuses, OrderRow
  <2> HIDE DEF j
  <2> QED BY <2>1, <2>2, <2>3 DEF Job
<1>6. ASSUME NEW i \in Institutions, EditInstitution(h, i)
      PROVE  \E j \in Job : Start(h, j) /\ Fits(j)
  <2> DEFINE j == [kind |-> "place", place |-> i, seen |-> institution[i]]
  <2>1. j \in PlaceJob BY <1>t DEF PlaceJob
  <2>2. Start(h, j) BY <1>6 DEF EditInstitution
  <2>3. Fits(j) BY DEF Fits
  <2> HIDE DEF j
  <2> QED BY <2>1, <2>2, <2>3 DEF Job
<1>7. CASE \E c \in Couriers : \/ \E s \in OwnStatuses : ChangeCourierStatus(h, c, s)
                               \/ \E b \in Balances : EditBalance(h, c, b)
                               \/ DeleteCourier(h, c)
  <2>1. PICK c \in Couriers : \/ \E s \in OwnStatuses : ChangeCourierStatus(h, c, s)
                              \/ \E b \in Balances : EditBalance(h, c, b)
                              \/ DeleteCourier(h, c)
    BY <1>7
  <2>2. courier[c] \in CourierRow BY <1>t
  <2>3. /\ \A s \in OwnStatuses : [courier[c] EXCEPT !.status = s] \in CourierRow
        /\ \A b \in Balances : [courier[c] EXCEPT !.balance = b] \in CourierRow
        /\ [courier[c] EXCEPT !.deleted = TRUE] \in CourierRow
    BY <2>2 DEF CourierRow
  <2> QED BY <2>1, <2>3, <1>3 DEF ChangeCourierStatus, EditBalance, DeleteCourier
<1>8. CASE \E o \in Orders, c \in Couriers : Arrive(h, o, c)
  <2>1. PICK o \in Orders, c \in Couriers : Arrive(h, o, c) BY <1>8
  <2>2. [courier[c] EXCEPT !.status = "in_institution"] \in CourierRow
    BY <1>t DEF CourierRow, CourierStatuses
  <2> QED BY <2>1, <2>2, <1>3 DEF Arrive
<1>9. CASE \E o \in Orders : \/ CloseOrder(h, o, order[o])
                             \/ \E c \in Couriers : CloseOrder(h, o, [order[o] EXCEPT !.courier = c])
  <2>1. PICK o \in Orders : \/ CloseOrder(h, o, order[o])
                            \/ \E c \in Couriers : CloseOrder(h, o, [order[o] EXCEPT !.courier = c])
    BY <1>9
  <2>2. order[o] \in OrderRow BY <1>t
  <2>3. \A c \in Couriers : /\ [order[o] EXCEPT !.courier = c] \in OrderRow
                            /\ [order[o] EXCEPT !.courier = c].status = order[o].status
    BY <2>2 DEF OrderRow
  <2> QED BY <2>1, <2>2, <2>3, <1>1
<1> QED BY <1>2, <1>4, <1>5, <1>6, <1>7, <1>8, <1>9 DEF Begin

-----------------------------------------------------------------------------
(* Types.                                                                  *)

LEMMA SumsAreIntegers ==
    ASSUME NEW o \in Orders
    PROVE  Owed[o] \in Int /\ Due[o] \in Int /\ Terms[o].place \in Institutions
<1>1. Terms[o] \in Term BY TermsAssumption
<1>2. /\ Terms[o].products \in Nat /\ Terms[o].delivering \in Nat /\ Terms[o].discount \in Nat
      /\ Terms[o].commission \in Nat /\ Terms[o].place \in Institutions
  BY <1>1 DEF Term
<1>3. Owed[o] = IF Terms[o].method = "payme" THEN Terms[o].delivering
                ELSE IF Terms[o].method = "cash"
                THEN Terms[o].discount - (IF Terms[o].hold THEN Terms[o].products ELSE 0)
                ELSE 0
  BY DEF Owed
<1>4. Due[o] = IF Terms[o].method = "payme" THEN Terms[o].products - Terms[o].commission
               ELSE 0 - Terms[o].commission
  BY DEF Due
<1> QED BY <1>2, <1>3, <1>4

\* A step that leaves the rows alone and changes one job to one that is typed.
LEMMA JobTyped ==
    ASSUME TypeOK, NEW h \in Handlers, NEW j \in Job \cup {NoJob},
           job' = [job EXCEPT ![h] = j],
           j # NoJob => /\ j.kind = "close" => j.row.courier # NoCourier
                        /\ j.kind = "close" /\ j.stage = "locked" => j.payee \in Couriers
                        /\ j.kind = "replace" /\ j.row.courier # NoCourier => j.own \in CourierRow
                        /\ j.kind = "replace" => j.row.status \notin Completed
                        /\ j.kind = "move" => /\ j.row.courier # NoCourier
                                              /\ j.row.status \in MoveStatuses
    PROVE  job' \in [Handlers -> Job \cup {NoJob}] /\ \A g \in Handlers : JobOK(g)'
<1>1. job \in [Handlers -> Job \cup {NoJob}] /\ \A g \in Handlers : JobOK(g) BY DEF TypeOK
<1>2. job'[h] = j /\ \A g \in Handlers \ {h} : job'[g] = job[g] BY <1>1
<1>3. ASSUME NEW g \in Handlers PROVE JobOK(g)'
  <2>1. CASE g = h BY <2>1, <1>2 DEF JobOK, Kind
  <2>2. CASE g # h
    <3>1. job'[g] = job[g] BY <2>2, <1>2
    <3> QED BY <3>1, <1>1 DEF JobOK, Kind
  <2> QED BY <2>1, <2>2
<1> QED BY <1>1, <1>3

\* The initial state is well typed.
THEOREM TypeInit == Init => TypeOK
  BY SentinelAssumption DEF Init, TypeOK, OrderRow, CourierRow, CourierStatuses, Statuses, JobOK, Kind

\* A closing that moves one stage on is typed.
LEMMA CloseMoves ==
    ASSUME TypeOK, NEW h \in Handlers, CloseRead(h) \/ CloseLock(h)
    PROVE  \E j \in CloseJob : /\ job' = [job EXCEPT ![h] = j]
                               /\ j.order = job[h].order /\ j.row = job[h].row
                               /\ j.stage # "loaded"
                               /\ j.stage = "locked" => j.payee \in Couriers
<1>1. job[h] \in CloseJob BY Kinds DEF CloseRead, CloseLock
<1>2. /\ job \in [Handlers -> Job \cup {NoJob}] /\ institution \in [Institutions -> Int]
      /\ order \in [Orders -> OrderRow]
  BY DEF TypeOK
<1>3. job[h].order \in Orders /\ Terms[job[h].order].place \in Institutions
  BY <1>1, SumsAreIntegers DEF CloseJob
<1>4. CASE CloseRead(h)
  <2> DEFINE j == [job[h] EXCEPT !.stage = "read", !.seen = institution[Terms[job[h].order].place]]
  <2>1. job' = [job EXCEPT ![h] = j] BY <1>4, <1>2 DEF CloseRead
  <2>2. j \in CloseJob /\ j.order = job[h].order /\ j.row = job[h].row /\ j.stage = "read"
    BY <1>1, <1>2, <1>3 DEF CloseJob
  <2> QED BY <2>1, <2>2
<1>5. CASE CloseLock(h)
  <2> DEFINE j == [job[h] EXCEPT !.stage = "locked", !.payee = Payee(h)]
  <2>1. job' = [job EXCEPT ![h] = j] BY <1>5, <1>2 DEF CloseLock
  <2>2. Payee(h) \in Couriers BY <1>5, <1>2, <1>3 DEF Payee, CloseLock, OrderRow
  <2>3. /\ j \in CloseJob /\ j.order = job[h].order /\ j.row = job[h].row /\ j.stage = "locked"
        /\ j.payee \in Couriers
    BY <1>1, <2>2 DEF CloseJob
  <2> QED BY <2>1, <2>3
<1> QED BY <1>4, <1>5

\* So is a replacement.
LEMMA ReplaceMoves ==
    ASSUME TypeOK, NEW h \in Handlers, ReplaceFree(h) \/ ReplaceName(h)
    PROVE  \E j \in ReplaceJob : /\ job' = [job EXCEPT ![h] = j]
                                 /\ j.order = job[h].order /\ j.row = job[h].row
                                 /\ j.own = job[h].own /\ j.new = job[h].new
                                 /\ j.stage # "loaded"
<1>1. job[h] \in ReplaceJob BY Kinds DEF ReplaceFree, ReplaceName
<1>2. job \in [Handlers -> Job \cup {NoJob}] BY DEF TypeOK
<1>3. CASE ReplaceFree(h)
  <2> DEFINE j == [job[h] EXCEPT !.stage = "freed"]
  <2>1. job' = [job EXCEPT ![h] = j] BY <1>3, <1>2 DEF ReplaceFree
  <2>2. /\ j \in ReplaceJob /\ j.order = job[h].order /\ j.row = job[h].row
        /\ j.own = job[h].own /\ j.new = job[h].new /\ j.stage = "freed"
    BY <1>1 DEF ReplaceJob
  <2> QED BY <2>1, <2>2
<1>4. CASE ReplaceName(h)
  <2> DEFINE j == [job[h] EXCEPT !.stage = "named"]
  <2>1. job' = [job EXCEPT ![h] = j] BY <1>4, <1>2 DEF ReplaceName
  <2>2. /\ j \in ReplaceJob /\ j.order = job[h].order /\ j.row = job[h].row
        /\ j.own = job[h].own /\ j.new = job[h].new /\ j.stage = "named"
    BY <1>1 DEF ReplaceJob
  <2> QED BY <2>1, <2>2
<1> QED BY <1>3, <1>4

LEMMA TypeStep == TypeOK /\ [Next]_vars => TypeOK'
<1> SUFFICES ASSUME TypeOK, [Next]_vars PROVE TypeOK' OBVIOUS
<1>t. /\ order \in [Orders -> OrderRow] /\ courier \in [Couriers -> CourierRow]
      /\ ledger \in [Couriers -> Int] /\ topups \in [Couriers -> Int] /\ paid \in [Orders -> Int]
      /\ institution \in [Institutions -> Int] /\ job \in [Handlers -> Job \cup {NoJob}]
      /\ requests \in Nat /\ opening \in [Couriers -> Int] /\ accrued \in [Institutions -> Int]
      /\ held \in [Orders -> SUBSET Couriers] /\ raced \subseteq Couriers \cup Institutions
      /\ again \subseteq Orders /\ \A h \in Handlers : JobOK(h)
  BY DEF TypeOK
<1>f. ASSUME NEW h \in Handlers, Finish(h)
      PROVE  job' \in [Handlers -> Job \cup {NoJob}] /\ requests' \in Nat
             /\ \A g \in Handlers : JobOK(g)'
  BY <1>f, <1>t, JobTyped DEF Finish
<1>r. ASSUME NEW h \in Handlers, Race(h)
      PROVE  raced' \subseteq Couriers \cup Institutions
  BY <1>r, <1>t DEF Race
<1>a. ASSUME NEW h \in Handlers, NEW o \in Orders, Repeat(h, o)
      PROVE  again' \subseteq Orders
  BY <1>a, <1>t DEF Repeat
<1>1. CASE \E h \in Handlers : Begin(h)
  <2>1. PICK h \in Handlers, j \in Job : Start(h, j) /\ Fits(j) BY <1>1, BeginStarts
  <2>2. requests' \in Nat BY <2>1, <1>t DEF Start
  <2>3. j.kind = "replace" => j.order \in Orders /\ j.row.courier \in Couriers \cup {NoCourier}
    BY JobKinds DEF ReplaceJob, OrderRow
  <2>4. job' \in [Handlers -> Job \cup {NoJob}] /\ \A g \in Handlers : JobOK(g)'
    <3>1. job' = [job EXCEPT ![h] = j] BY <2>1 DEF Start
    <3>2. j.kind = "replace" /\ j.row.courier # NoCourier => j.own \in CourierRow
      BY <2>1, <2>3, <1>t DEF Fits
    <3>3. /\ j.kind = "close" => j.row.courier # NoCourier /\ j.stage # "locked"
          /\ j.kind = "replace" => j.row.status \notin Completed
          /\ j.kind = "move" => j.row.courier # NoCourier /\ j.row.status \in MoveStatuses
      BY <2>1 DEF Fits
    <3> QED BY <3>1, <3>2, <3>3, JobTyped
  <2> QED BY <2>1, <2>2, <2>4, <1>t DEF Start, TypeOK, rowVars, histVars
<1>2. CASE \E c \in Couriers, amount \in TopupAmounts : Topup(c, amount)
  <2>1. PICK c \in Couriers, amount \in TopupAmounts : Topup(c, amount) BY <1>2
  <2>2. topups' \in [Couriers -> Int] /\ requests' \in Nat
    BY <2>1, <1>t, InputAssumption DEF Topup
  <2> QED BY <2>1, <2>2, <1>t DEF Topup, TypeOK, JobOK, Kind, histVars
<1>3. ASSUME NEW h \in Handlers, CloseRead(h) \/ CloseLock(h) PROVE TypeOK'
  <2>1. PICK j \in CloseJob : /\ job' = [job EXCEPT ![h] = j]
                              /\ j.row = job[h].row
                              /\ j.stage = "locked" => j.payee \in Couriers
    BY <1>3, CloseMoves
  <2>2. j \in Job /\ j.kind = "close" BY DEF Job, CloseJob
  <2>3. job[h].row.courier # NoCourier
    BY <1>3, <1>t DEF JobOK, CloseRead, CloseLock
  <2>4. job' \in [Handlers -> Job \cup {NoJob}] /\ \A g \in Handlers : JobOK(g)'
    BY <2>1, <2>2, <2>3, JobTyped
  <2> QED BY <1>3, <2>4, <1>t DEF CloseRead, CloseLock, TypeOK, rowVars, histVars
<1>4. ASSUME NEW h \in Handlers, CloseCommit(h) PROVE TypeOK'
  <2> DEFINE o == job[h].order
             c == job[h].payee
             m == job[h].row.courier
  <2>1. job[h] \in CloseJob /\ job[h].stage = "locked" BY <1>4, Kinds DEF CloseCommit
  <2>2. o \in Orders /\ m \in Couriers /\ c \in Couriers /\ job[h].seen \in Int
    BY <2>1, <1>4, <1>t DEF CloseJob, JobOK, CloseCommit, OrderRow
  <2>3. Owed[o] \in Int /\ Due[o] \in Int /\ Terms[o].place \in Institutions
    BY <2>2, SumsAreIntegers
  <2>4. ledger' \in [Couriers -> Int] /\ paid' \in [Orders -> Int]
    BY <1>4, <1>t, <2>2, <2>3 DEF CloseCommit
  <2>5. institution' \in [Institutions -> Int] /\ accrued' \in [Institutions -> Int]
    BY <1>4, <1>t, <2>2, <2>3 DEF CloseCommit, PlaceSaved
  <2>6. courier' \in [Couriers -> CourierRow]
    <3>1. courier' = [courier EXCEPT ![c] = [courier[c] EXCEPT !.balance = courier[c].balance + Owed[o]]]
      BY <1>4 DEF CloseCommit, Credited
    <3>2. courier[c] \in CourierRow BY <1>t, <2>2
    <3>3. [courier[c] EXCEPT !.balance = courier[c].balance + Owed[o]] \in CourierRow
      BY <3>2, <2>3 DEF CourierRow
    <3> HIDE DEF o, c
    <3> QED BY <3>1, <3>3, <2>2, <1>t
  <2>7. order' \in [Orders -> OrderRow] /\ held' \in [Orders -> SUBSET Couriers]
    <3>1. /\ order' = [order EXCEPT ![o] = [status |-> "closed", courier |-> m]]
          /\ held' = [held EXCEPT ![o] = held[o] \cup {m}]
      BY <1>4 DEF CloseCommit
    <3>2. [status |-> "closed", courier |-> m] \in OrderRow BY <2>2 DEF OrderRow, Statuses
    <3> HIDE DEF o, m
    <3> QED BY <3>1, <3>2, <2>2, <1>t
  <2>8. /\ Race(h) /\ Repeat(h, o) /\ Finish(h) /\ UNCHANGED <<topups, opening>>
    BY <1>4 DEF CloseCommit
  <2> QED BY <2>2, <2>4, <2>5, <2>6, <2>7, <2>8, <1>t, <1>f, <1>r, <1>a DEF TypeOK
<1>5. ASSUME NEW h \in Handlers, AssignCommit(h) PROVE TypeOK'
  <2> DEFINE o == job[h].order
             c == job[h].id
  <2>1. job[h] \in AssignJob BY <1>5, Kinds DEF AssignCommit
  <2>2. o \in Orders /\ c \in Couriers /\ job[h].own \in CourierRow BY <2>1 DEF AssignJob
  <2>3. order' \in [Orders -> OrderRow] /\ held' \in [Orders -> SUBSET Couriers]
    BY <1>5, <1>t, <2>2 DEF AssignCommit, OrderRow
  <2>4. courier' \in [Couriers -> CourierRow]
    BY <1>5, <1>t, <2>2 DEF AssignCommit, CourierRow, CourierStatuses
  <2>5. /\ Race(h) /\ Finish(h)
        /\ UNCHANGED <<ledger, topups, paid, institution, opening, accrued, again>>
    BY <1>5 DEF AssignCommit
  <2> QED BY <2>3, <2>4, <2>5, <1>t, <1>f, <1>r DEF TypeOK
<1>6. ASSUME NEW h \in Handlers, RowCommit(h) PROVE TypeOK'
  <2>1. job[h] \in RowJob BY <1>6, Kinds DEF RowCommit
  <2>2. job[h].id \in Couriers /\ job[h].to \in CourierRow BY <2>1 DEF RowJob
  <2>3. job[h].to.balance \in Int BY <2>2 DEF CourierRow
  <2>4. courier' \in [Couriers -> CourierRow] /\ opening' \in [Couriers -> Int]
    BY <1>6, <1>t, <2>2, <2>3 DEF RowCommit
  <2>5. /\ Race(h) /\ Finish(h)
        /\ UNCHANGED <<order, ledger, topups, paid, institution, accrued, held, again>>
    BY <1>6 DEF RowCommit
  <2> QED BY <2>4, <2>5, <1>t, <1>f, <1>r DEF TypeOK
<1>7. ASSUME NEW h \in Handlers, ReplaceFree(h) \/ ReplaceName(h) PROVE TypeOK'
  <2>1. PICK j \in ReplaceJob : /\ job' = [job EXCEPT ![h] = j]
                                /\ j.row = job[h].row /\ j.own = job[h].own
    BY <1>7, ReplaceMoves
  <2>2. j \in Job /\ j.kind = "replace" /\ job[h] \in ReplaceJob /\ Kind(h) = "replace"
    BY <1>7, Kinds DEF Job, ReplaceJob, ReplaceFree, ReplaceName
  <2>3. job' \in [Handlers -> Job \cup {NoJob}] /\ \A g \in Handlers : JobOK(g)'
    BY <2>1, <2>2, <1>t, JobTyped DEF JobOK
  <2>4. job[h].row.courier \in Couriers \cup {NoCourier} /\ job[h].new \in Couriers \cup {NoCourier}
    BY <2>2 DEF ReplaceJob, OrderRow
  <2>5. job[h].row.courier # NoCourier => job[h].own \in CourierRow
    BY <2>2, <1>t DEF JobOK
  <2>6. CASE ReplaceFree(h)
    <3>1. courier' \in [Couriers -> CourierRow]
      BY <2>4, <2>5, <2>6, <1>t DEF ReplaceFree, CourierRow, CourierStatuses
    <3>2. /\ Race(h)
          /\ UNCHANGED <<order, ledger, topups, paid, institution, requests, opening, accrued, held, again>>
      BY <2>6 DEF ReplaceFree
    <3> QED BY <3>1, <3>2, <2>3, <1>r, <1>t DEF TypeOK
  <2>7. CASE ReplaceName(h)
    <3>1. courier' \in [Couriers -> CourierRow]
      BY <2>4, <2>7, <1>t DEF ReplaceName, CourierRow, CourierStatuses
    <3> QED BY <3>1, <2>3, <2>7, <1>t DEF TypeOK, ReplaceName, histVars
  <2> QED BY <2>6, <2>7, <1>7
<1>8. ASSUME NEW h \in Handlers, ReplaceSave(h) \/ MoveCommit(h) PROVE TypeOK'
  <2> DEFINE o == job[h].order
  <2>1. /\ Kind(h) = "replace" => job[h] \in ReplaceJob
        /\ Kind(h) = "move" => job[h] \in MoveJob
    BY Kinds
  <2>2. /\ o \in Orders /\ job[h].row \in OrderRow
        /\ Kind(h) = "replace" => job[h].new \in Couriers \cup {NoCourier}
        /\ Kind(h) = "move" => job[h].row.courier \in Couriers
    BY <1>8, <2>1, <1>t DEF ReplaceSave, MoveCommit, ReplaceJob, MoveJob, OrderRow, JobOK
  <2>3. order' \in [Orders -> OrderRow] /\ held' \in [Orders -> SUBSET Couriers]
    <3>1. \E row \in OrderRow, more \in SUBSET Couriers :
             order' = [order EXCEPT ![o] = row] /\ held' = [held EXCEPT ![o] = held[o] \cup more]
      <4>1. CASE ReplaceSave(h)
        <5>1. [job[h].row EXCEPT !.courier = job[h].new] \in OrderRow
          BY <2>2, <4>1 DEF OrderRow, ReplaceSave
        <5>2. {job[h].new} \ {NoCourier} \in SUBSET Couriers BY <2>2, <4>1 DEF ReplaceSave
        <5> QED BY <5>1, <5>2, <4>1 DEF ReplaceSave
      <4>2. CASE MoveCommit(h)
        <5>1. {job[h].row.courier} \in SUBSET Couriers BY <2>2, <4>2 DEF MoveCommit
        <5> QED BY <5>1, <2>2, <4>2 DEF MoveCommit
      <4> QED BY <4>1, <4>2, <1>8
    <3> HIDE DEF o
    <3> QED BY <3>1, <2>2, <1>t
  <2>4. /\ Repeat(h, o) /\ Finish(h)
        /\ UNCHANGED <<courier, ledger, topups, paid, institution, opening, accrued, raced>>
    BY <1>8 DEF ReplaceSave, MoveCommit
  <2> QED BY <2>2, <2>3, <2>4, <1>t, <1>f, <1>a DEF TypeOK
<1>9. ASSUME NEW h \in Handlers, PlaceCommit(h) PROVE TypeOK'
  <2>1. job[h] \in PlaceJob BY <1>9, Kinds DEF PlaceCommit
  <2>2. institution' \in [Institutions -> Int] BY <1>9, <2>1, <1>t DEF PlaceCommit, PlaceJob
  <2>3. /\ Race(h) /\ Finish(h)
        /\ UNCHANGED <<order, courier, ledger, topups, paid, opening, accrued, held, again>>
    BY <1>9 DEF PlaceCommit
  <2> QED BY <2>2, <2>3, <1>t, <1>f, <1>r DEF TypeOK
<1>10. ASSUME NEW h \in Handlers, Abort(h) PROVE TypeOK'
  BY <1>10, <1>t, <1>f DEF Abort, TypeOK, rowVars, histVars
<1>11. CASE UNCHANGED vars
  BY <1>11, <1>t DEF vars, rowVars, histVars, TypeOK, JobOK, Kind
<1> QED BY <1>1, <1>2, <1>3, <1>4, <1>5, <1>6, <1>7, <1>8, <1>9, <1>10, <1>11 DEF Next, Step

\* Every reachable state is well typed, and every request in flight has in
\* memory what its handler can have loaded.
THEOREM TypeCorrect == Spec => []TypeOK
<1> QED BY TypeInit, TypeStep, PTL DEF Spec


-----------------------------------------------------------------------------
(* The accounts.                                                           *)

\* What a request is going to save agrees with the committed balances.
Loaded(h) ==
    /\ \A c \in Couriers \ raced : HoldsCourier(h, c) => job[h].own.balance = courier[c].balance
    /\ \A i \in Institutions \ raced : HoldsPlace(h, i) => job[h].seen = institution[i]

\* The inductive invariant of the balances: as long as nobody changed a balance
\* under a request, every copy of it in memory is current.
Accounts ==
    /\ LedgerKept
    /\ InstitutionKept
    /\ \A h \in Handlers : Loaded(h)

\* A step of one handler leaves the others' copies current or marks the row.
LEMMA OthersLoaded ==
    ASSUME NEW h \in Handlers, NEW g \in Handlers \ {h}, Loaded(g), job'[g] = job[g],
           Race(h) \/ UNCHANGED <<courier, institution, raced>>
    PROVE  Loaded(g)'
<1>1. /\ \A c \in Couriers : HoldsCourier(g, c)' <=> HoldsCourier(g, c)
      /\ \A i \in Institutions : HoldsPlace(g, i)' <=> HoldsPlace(g, i)
  BY DEF HoldsCourier, HoldsPlace, Kind
<1>2. /\ raced \subseteq raced'
      /\ \A c \in Couriers \ raced' : HoldsCourier(g, c) => courier'[c].balance = courier[c].balance
      /\ \A i \in Institutions \ raced' : HoldsPlace(g, i) => institution'[i] = institution[i]
  BY DEF Race
<1>3. /\ \A c \in Couriers \ raced : HoldsCourier(g, c) => job[g].own.balance = courier[c].balance
      /\ \A i \in Institutions \ raced : HoldsPlace(g, i) => job[g].seen = institution[i]
  BY DEF Loaded
<1>4. /\ \A c \in Couriers \ raced' : HoldsCourier(g, c)' => job'[g].own.balance = courier'[c].balance
      /\ \A i \in Institutions \ raced' : HoldsPlace(g, i)' => job'[g].seen = institution'[i]
  BY <1>1, <1>2, <1>3
<1> QED BY <1>4 DEF Loaded

\* A request that ends holds nothing.
LEMMA FinishedLoaded ==
    ASSUME TypeOK, Accounts, NEW h \in Handlers, Finish(h),
           Race(h) \/ UNCHANGED <<courier, institution, raced>>
    PROVE  \A g \in Handlers : Loaded(g)'
<1>1. job'[h] = NoJob /\ \A g \in Handlers \ {h} : job'[g] = job[g]
  BY DEF Finish, TypeOK
<1>2. Kind(h)' = "none" BY <1>1 DEF Kind
<1>3. Loaded(h)' BY <1>2 DEF Loaded, HoldsCourier, HoldsPlace
<1>4. \A g \in Handlers \ {h} : Loaded(g)' BY <1>1, OthersLoaded DEF Accounts
<1> QED BY <1>3, <1>4

LEMMA AccountsInit == Init => Accounts
<1> SUFFICES ASSUME Init PROVE Accounts OBVIOUS
<1>1. LedgerKept BY DEF Init, LedgerKept
<1>2. InstitutionKept BY DEF Init, InstitutionKept
<1>3. \A h \in Handlers : Kind(h) = "none" BY DEF Init, Kind
<1>4. \A h \in Handlers : Loaded(h) BY <1>3 DEF Loaded, HoldsCourier, HoldsPlace
<1> QED BY <1>1, <1>2, <1>4 DEF Accounts

LEMMA AccountsStep == TypeOK /\ TypeOK' /\ Accounts /\ [Next]_vars => Accounts'
<1> SUFFICES ASSUME TypeOK, TypeOK', Accounts, [Next]_vars PROVE Accounts' OBVIOUS
<1>t. /\ order \in [Orders -> OrderRow] /\ courier \in [Couriers -> CourierRow]
      /\ ledger \in [Couriers -> Int] /\ opening \in [Couriers -> Int]
      /\ institution \in [Institutions -> Int] /\ accrued \in [Institutions -> Int]
      /\ job \in [Handlers -> Job \cup {NoJob}] /\ \A h \in Handlers : JobOK(h)
  BY DEF TypeOK
<1>b. \A c \in Couriers : courier[c].balance \in Int BY <1>t DEF CourierRow
<1>k. /\ \A c \in Couriers \ raced : courier[c].balance = opening[c] + ledger[c]
      /\ \A i \in Institutions \ raced : institution[i] = accrued[i]
      /\ \A h \in Handlers : Loaded(h)
  BY DEF Accounts, LedgerKept, InstitutionKept
\* A step that leaves the balances and their sums alone.
<1>u. ASSUME UNCHANGED <<institution, accrued>>, raced \subseteq raced'
      PROVE  InstitutionKept'
  BY <1>u, <1>k DEF InstitutionKept
<1>v. ASSUME UNCHANGED <<courier, ledger, opening>>, raced \subseteq raced'
      PROVE  LedgerKept'
  BY <1>v, <1>k DEF LedgerKept
<1>1. CASE \E h \in Handlers : Begin(h)
  <2>1. PICK h \in Handlers, j \in Job : Start(h, j) /\ Fits(j) BY <1>1, BeginStarts
  <2>2. /\ job' = [job EXCEPT ![h] = j] /\ UNCHANGED <<courier, institution, raced>>
        /\ UNCHANGED <<ledger, opening, accrued>>
    BY <2>1 DEF Start, rowVars, histVars
  <2>3. job'[h] = j /\ \A g \in Handlers \ {h} : job'[g] = job[g] BY <2>2, <1>t
  <2>4. Kind(h)' = j.kind BY <2>3, SentinelAssumption DEF Kind
  <2>5. Loaded(h)'
    <3>1. ASSUME NEW c \in Couriers, HoldsCourier(h, c)'
          PROVE  j.own.balance = courier[c].balance
      <4>1. CASE j.kind \in {"assign", "row"}
        <5>1. j.id = c BY <3>1, <4>1, <2>3, <2>4 DEF HoldsCourier
        <5> QED BY <5>1, <4>1, <2>1 DEF Fits
      <4>2. CASE j.kind = "replace"
        <5>1. j.row.courier = c BY <3>1, <4>2, <2>3, <2>4 DEF HoldsCourier
        <5> QED BY <5>1, <4>2, <2>1, SentinelAssumption DEF Fits
      <4> QED BY <3>1, <4>1, <4>2, <2>4 DEF HoldsCourier
    <3>2. ASSUME NEW i \in Institutions, HoldsPlace(h, i)'
          PROVE  j.seen = institution[i]
      <4>1. j.kind = "place" /\ j.place = i BY <3>2, <2>1, <2>3, <2>4 DEF HoldsPlace, Fits
      <4> QED BY <4>1, <2>1 DEF Fits
    <3> QED BY <3>1, <3>2, <2>2, <2>3 DEF Loaded
  <2>6. \A g \in Handlers \ {h} : Loaded(g)' BY <2>2, <2>3, <1>k, OthersLoaded
  <2> QED BY <2>2, <2>5, <2>6, <1>u, <1>v DEF Accounts
<1>2. CASE \E c \in Couriers, amount \in TopupAmounts : Topup(c, amount)
  <2>1. UNCHANGED <<order, courier, ledger, institution, job, opening, accrued, raced>>
    BY <1>2 DEF Topup, histVars
  <2>2. \A h \in Handlers : Loaded(h)'
    BY <2>1, <1>k DEF Loaded, HoldsCourier, HoldsPlace, Kind
  <2> QED BY <2>1, <2>2, <1>u, <1>v DEF Accounts
<1>3. ASSUME NEW h \in Handlers, CloseRead(h) \/ CloseLock(h) PROVE Accounts'
  <2>1. PICK j \in CloseJob : job' = [job EXCEPT ![h] = j]
    BY <1>3, CloseMoves
  <2>2. /\ UNCHANGED <<courier, institution, raced>> /\ UNCHANGED <<ledger, opening, accrued>>
        /\ job[h] \in CloseJob
    BY <1>3, Kinds DEF CloseRead, CloseLock, rowVars, histVars
  <2>3. job'[h] = j /\ \A g \in Handlers \ {h} : job'[g] = job[g] BY <2>1, <1>t
  <2>4. Kind(h)' = "close" /\ Kind(h) = "close"
    <3>1. j \in Job /\ j.kind = "close" BY DEF Job, CloseJob
    <3> QED BY <3>1, <2>3, <1>3, SentinelAssumption DEF Kind, CloseRead, CloseLock
  <2>5. /\ j.order = job[h].order
        /\ CloseRead(h) => j.seen = institution[Terms[job[h].order].place]
        /\ CloseLock(h) => j.seen = job[h].seen /\ job[h].stage = "read"
    <3>1. CASE CloseRead(h)
      <4>1. j = [job[h] EXCEPT !.stage = "read", !.seen = institution[Terms[job[h].order].place]]
        BY <3>1, <2>3, <1>t DEF CloseRead
      <4> QED BY <4>1, <3>1, <2>2 DEF CloseJob, CloseRead, CloseLock
    <3>2. CASE CloseLock(h)
      <4>1. j = [job[h] EXCEPT !.stage = "locked", !.payee = Payee(h)]
        BY <3>2, <2>3, <1>t DEF CloseLock
      <4> QED BY <4>1, <3>2, <2>2 DEF CloseJob, CloseRead, CloseLock
    <3> QED BY <3>1, <3>2, <1>3
  <2>6. Loaded(h)'
    <3>1. \A c \in Couriers : ~HoldsCourier(h, c)' BY <2>4 DEF HoldsCourier
    <3>2. ASSUME NEW i \in Institutions \ raced, HoldsPlace(h, i)'
          PROVE  j.seen = institution[i]
      <4>1. Terms[job[h].order].place = i BY <3>2, <2>3, <2>4, <2>5 DEF HoldsPlace
      <4>2. CASE CloseRead(h) BY <4>1, <4>2, <2>5
      <4>3. CASE CloseLock(h)
        <5>1. HoldsPlace(h, i) BY <4>1, <4>3, <2>4, <2>5 DEF HoldsPlace
        <5> QED BY <5>1, <4>3, <2>5, <1>k DEF Loaded
      <4> QED BY <4>2, <4>3, <1>3
    <3> QED BY <3>1, <3>2, <2>2, <2>3 DEF Loaded
  <2>7. \A g \in Handlers \ {h} : Loaded(g)' BY <2>2, <2>3, <1>k, OthersLoaded
  <2> QED BY <2>2, <2>6, <2>7, <1>u, <1>v DEF Accounts
<1>4. ASSUME NEW h \in Handlers, CloseCommit(h) PROVE Accounts'
  <2> DEFINE o == job[h].order
             p == job[h].payee
             i0 == Terms[job[h].order].place
  <2>1. job[h] \in CloseJob /\ job[h].stage = "locked" BY <1>4, Kinds DEF CloseCommit
  <2>2. o \in Orders /\ p \in Couriers /\ job[h].seen \in Int
    BY <2>1, <1>4, <1>t DEF CloseJob, JobOK, CloseCommit
  <2>3. Owed[o] \in Int /\ Due[o] \in Int /\ i0 \in Institutions BY <2>2, SumsAreIntegers
  <2>4. /\ courier' = [courier EXCEPT ![p] = [courier[p] EXCEPT !.balance = courier[p].balance + Owed[o]]]
        /\ ledger' = [ledger EXCEPT ![p] = ledger[p] + Owed[o]]
        /\ institution' = [institution EXCEPT ![i0] = job[h].seen + Due[o]]
        /\ accrued' = [accrued EXCEPT ![i0] = accrued[i0] + Due[o]]
        /\ Race(h) /\ Finish(h) /\ UNCHANGED opening
    BY <1>4 DEF CloseCommit, Credited, PlaceSaved
  <2>5. raced \subseteq raced' BY <2>4 DEF Race
  <2>6. HoldsPlace(h, i0) BY <1>4, <2>1 DEF HoldsPlace, CloseCommit
  <2>7. LedgerKept'
    <3> SUFFICES ASSUME NEW c \in Couriers \ raced' PROVE courier'[c].balance = opening'[c] + ledger'[c]
      BY DEF LedgerKept
    <3>1. courier[c].balance = opening[c] + ledger[c] BY <2>5, <1>k
    <3>2. CASE c = p
      <4>1. courier[p] \in CourierRow BY <1>t, <2>2
      <4>2. courier'[p].balance = courier[p].balance + Owed[o]
        BY <2>2, <2>4, <4>1, <1>t DEF CourierRow
      <4>3. ledger'[p] = ledger[p] + Owed[o] /\ opening'[p] = opening[p] BY <2>2, <2>4, <1>t
      <4>4. ledger[p] \in Int /\ opening[p] \in Int BY <2>2, <1>t
      <4> HIDE DEF o, p
      <4> QED BY <3>1, <3>2, <4>2, <4>3, <4>4, <2>3
    <3>3. CASE c # p
      <4>1. courier'[c] = courier[c] /\ ledger'[c] = ledger[c] BY <3>3, <2>4, <1>t
      <4> QED BY <4>1, <3>1, <2>4
    <3> QED BY <3>2, <3>3
  <2>8. InstitutionKept'
    <3> SUFFICES ASSUME NEW i \in Institutions \ raced' PROVE institution'[i] = accrued'[i]
      BY DEF InstitutionKept
    <3>1. institution[i] = accrued[i] BY <2>5, <1>k
    <3>2. CASE i = i0
      <4>1. job[h].seen = institution[i] BY <3>2, <2>5, <2>6, <1>k DEF Loaded
      <4>2. institution'[i] = job[h].seen + Due[o] /\ accrued'[i] = accrued[i] + Due[o]
        BY <3>2, <2>3, <2>4, <1>t
      <4> QED BY <3>1, <4>1, <4>2
    <3>3. CASE i # i0 BY <3>1, <3>3, <2>4, <1>t
    <3> QED BY <3>2, <3>3
  <2> QED BY <2>4, <2>7, <2>8, FinishedLoaded DEF Accounts
<1>5. ASSUME NEW h \in Handlers, AssignCommit(h) PROVE Accounts'
  <2> DEFINE p == job[h].id
  <2>1. job[h] \in AssignJob BY <1>5, Kinds DEF AssignCommit
  <2>2. p \in Couriers /\ job[h].own \in CourierRow BY <2>1 DEF AssignJob
  <2>3. /\ courier' = [courier EXCEPT ![p] = [job[h].own EXCEPT !.status = "delivering"]]
        /\ Race(h) /\ Finish(h) /\ UNCHANGED <<institution, accrued>> /\ UNCHANGED <<ledger, opening>>
    BY <1>5 DEF AssignCommit
  <2>4. raced \subseteq raced' BY <2>3 DEF Race
  <2>5. HoldsCourier(h, p) BY <1>5 DEF HoldsCourier, AssignCommit
  <2>6. LedgerKept'
    <3> SUFFICES ASSUME NEW c \in Couriers \ raced' PROVE courier'[c].balance = opening'[c] + ledger'[c]
      BY DEF LedgerKept
    <3>1. courier[c].balance = opening[c] + ledger[c] BY <2>4, <1>k
    <3>2. CASE c = p
      <4>1. courier'[c].balance = job[h].own.balance BY <3>2, <2>2, <2>3, <1>t DEF CourierRow
      <4>2. job[h].own.balance = courier[c].balance BY <3>2, <2>4, <2>5, <1>k DEF Loaded
      <4> QED BY <3>1, <4>1, <4>2, <2>3
    <3>3. CASE c # p BY <3>1, <3>3, <2>3, <1>t
    <3> QED BY <3>2, <3>3
  <2> QED BY <2>3, <2>4, <2>6, <1>u, FinishedLoaded DEF Accounts
<1>6. ASSUME NEW h \in Handlers, RowCommit(h) PROVE Accounts'
  <2> DEFINE p == job[h].id
  <2>1. job[h] \in RowJob BY <1>6, Kinds DEF RowCommit
  <2>2. p \in Couriers /\ job[h].to \in CourierRow BY <2>1 DEF RowJob
  <2>3. /\ courier' = [courier EXCEPT ![p] = job[h].to]
        /\ opening' = IF job[h].to.balance = job[h].own.balance THEN opening
                      ELSE [opening EXCEPT ![p] = job[h].to.balance - ledger[p]]
        /\ Race(h) /\ Finish(h) /\ UNCHANGED <<institution, accrued>> /\ UNCHANGED ledger
    BY <1>6 DEF RowCommit
  <2>4. raced \subseteq raced' BY <2>3 DEF Race
  <2>5. HoldsCourier(h, p) BY <1>6 DEF HoldsCourier, RowCommit
  <2>6. LedgerKept'
    <3> SUFFICES ASSUME NEW c \in Couriers \ raced' PROVE courier'[c].balance = opening'[c] + ledger'[c]
      BY DEF LedgerKept
    <3>1. courier[c].balance = opening[c] + ledger[c] BY <2>4, <1>k
    <3>2. CASE c = p
      <4>1. courier'[c].balance = job[h].to.balance BY <3>2, <2>3, <1>t
      <4>2. job[h].own.balance = courier[c].balance BY <3>2, <2>4, <2>5, <1>k DEF Loaded
      <4>3. CASE job[h].to.balance = job[h].own.balance BY <3>1, <4>1, <4>2, <4>3, <2>3
      <4>4. CASE job[h].to.balance # job[h].own.balance
        <5>1. opening'[c] = job[h].to.balance - ledger[c] BY <3>2, <4>4, <2>3, <1>t
        <5>2. job[h].to.balance \in Int /\ ledger[c] \in Int BY <2>2, <1>t DEF CourierRow
        <5> QED BY <5>1, <5>2, <4>1, <2>3
      <4> QED BY <4>3, <4>4
    <3>3. CASE c # p BY <3>1, <3>3, <2>3, <1>t
    <3> QED BY <3>2, <3>3
  <2> QED BY <2>3, <2>4, <2>6, <1>u, FinishedLoaded DEF Accounts
<1>7. ASSUME NEW h \in Handlers, ReplaceFree(h) \/ ReplaceName(h) PROVE Accounts'
  <2>1. PICK j \in ReplaceJob : job' = [job EXCEPT ![h] = j] /\ j.stage # "loaded"
    BY <1>7, ReplaceMoves
  <2>2. job'[h] = j /\ \A g \in Handlers \ {h} : job'[g] = job[g] BY <2>1, <1>t
  <2>3. Kind(h)' = "replace"
    <3>1. j \in Job /\ j.kind = "replace" BY DEF Job, ReplaceJob
    <3> QED BY <3>1, <2>2, SentinelAssumption DEF Kind
  <2>4. Loaded(h)' BY <2>1, <2>2, <2>3 DEF Loaded, HoldsCourier, HoldsPlace
  <2>5. /\ job[h] \in ReplaceJob
        /\ job[h].row.courier \in Couriers => job[h].own \in CourierRow
    BY <1>7, <1>t, Kinds, SentinelAssumption DEF JobOK, ReplaceFree, ReplaceName
  <2>6. CASE ReplaceFree(h)
    <3> DEFINE p == job[h].row.courier
    <3>1. /\ courier' = [courier EXCEPT ![p] = [job[h].own EXCEPT !.status = "free"]]
             \/ courier' = courier
          /\ p \in Couriers \/ courier' = courier
          /\ Race(h) /\ UNCHANGED <<institution, accrued>> /\ UNCHANGED <<ledger, opening>>
      BY <2>5, <2>6 DEF ReplaceFree, ReplaceJob, OrderRow
    <3>2. raced \subseteq raced' BY <3>1 DEF Race
    <3>3. LedgerKept'
      <4> SUFFICES ASSUME NEW c \in Couriers \ raced' PROVE courier'[c].balance = opening'[c] + ledger'[c]
        BY DEF LedgerKept
      <4>1. courier[c].balance = opening[c] + ledger[c] BY <3>2, <1>k
      <4>2. CASE courier' = courier BY <4>1, <4>2, <3>1
      <4>3. CASE courier' # courier /\ c = p
        <5>1. courier'[c].balance = job[h].own.balance
          BY <4>3, <3>1, <2>5, <1>t DEF CourierRow
        <5>2. HoldsCourier(h, c) BY <4>3, <2>6 DEF HoldsCourier, ReplaceFree
        <5>3. job[h].own.balance = courier[c].balance BY <5>2, <3>2, <1>k DEF Loaded
        <5> QED BY <5>1, <5>3, <4>1, <3>1
      <4>4. CASE courier' # courier /\ c # p BY <4>1, <4>4, <3>1, <1>t
      <4> QED BY <4>2, <4>3, <4>4
    <3>4. \A g \in Handlers \ {h} : Loaded(g)' BY <3>1, <2>2, <1>k, OthersLoaded
    <3> QED BY <3>1, <3>2, <3>3, <3>4, <2>4, <1>u DEF Accounts
  <2>7. CASE ReplaceName(h)
    <3>1. UNCHANGED <<institution, accrued>> /\ UNCHANGED <<ledger, opening, raced>>
      BY <2>7 DEF ReplaceName, histVars
    <3>2. \A c \in Couriers : courier'[c].balance = courier[c].balance
      BY <2>7, <1>t DEF ReplaceName, CourierRow
    <3>3. LedgerKept' BY <3>1, <3>2, <1>k DEF LedgerKept
    <3>4. ASSUME NEW g \in Handlers \ {h} PROVE Loaded(g)'
      <4>1. /\ \A c \in Couriers : HoldsCourier(g, c)' <=> HoldsCourier(g, c)
            /\ \A i \in Institutions : HoldsPlace(g, i)' <=> HoldsPlace(g, i)
        BY <2>2 DEF HoldsCourier, HoldsPlace, Kind
      <4> QED BY <4>1, <3>1, <3>2, <2>2, <1>k DEF Loaded
    <3> QED BY <3>1, <3>3, <3>4, <2>4, <1>u DEF Accounts
  <2> QED BY <2>6, <2>7, <1>7
<1>8. ASSUME NEW h \in Handlers, ReplaceSave(h) \/ MoveCommit(h) PROVE Accounts'
  <2>1. /\ Finish(h) /\ UNCHANGED <<courier, institution, raced>>
        /\ UNCHANGED <<ledger, opening, accrued>>
    BY <1>8 DEF ReplaceSave, MoveCommit
  <2> QED BY <2>1, <1>u, <1>v, FinishedLoaded DEF Accounts
<1>9. ASSUME NEW h \in Handlers, PlaceCommit(h) PROVE Accounts'
  <2>1. job[h] \in PlaceJob BY <1>9, Kinds DEF PlaceCommit
  <2>2. /\ institution' = [institution EXCEPT ![job[h].place] = job[h].seen]
        /\ Race(h) /\ Finish(h) /\ UNCHANGED <<courier, ledger, opening>> /\ UNCHANGED accrued
    BY <1>9 DEF PlaceCommit
  <2>3. raced \subseteq raced' BY <2>2 DEF Race
  <2>4. InstitutionKept'
    <3> SUFFICES ASSUME NEW i \in Institutions \ raced' PROVE institution'[i] = accrued'[i]
      BY DEF InstitutionKept
    <3>1. institution[i] = accrued[i] BY <2>3, <1>k
    <3>2. CASE i = job[h].place
      <4>1. HoldsPlace(h, i) BY <3>2, <1>9 DEF HoldsPlace, PlaceCommit
      <4>2. job[h].seen = institution[i] BY <4>1, <2>3, <1>k DEF Loaded
      <4> QED BY <3>1, <3>2, <4>2, <2>2, <1>t
    <3>3. CASE i # job[h].place BY <3>1, <3>3, <2>2, <1>t
    <3> QED BY <3>2, <3>3
  <2> QED BY <2>2, <2>3, <2>4, <1>v, FinishedLoaded DEF Accounts
<1>10. ASSUME NEW h \in Handlers, Abort(h) PROVE Accounts'
  <2>1. /\ Finish(h) /\ UNCHANGED <<courier, institution, raced>>
        /\ UNCHANGED <<ledger, opening, accrued>>
    BY <1>10 DEF Abort, rowVars, histVars
  <2> QED BY <2>1, <1>u, <1>v, FinishedLoaded DEF Accounts
<1>11. CASE UNCHANGED vars
  <2>1. UNCHANGED <<courier, ledger, opening, institution, accrued, raced, job>>
    BY <1>11 DEF vars, rowVars, histVars
  <2>2. \A h \in Handlers : Loaded(h)'
    BY <2>1, <1>k DEF Loaded, HoldsCourier, HoldsPlace, Kind
  <2> QED BY <2>1, <2>2, <1>u, <1>v DEF Accounts
<1> QED BY <1>1, <1>2, <1>3, <1>4, <1>5, <1>6, <1>7, <1>8, <1>9, <1>10, <1>11 DEF Next, Step

\* The balances are kept, and the copies of them in memory are current or known to be raced.
THEOREM AccountsHold == Spec => []Accounts
<1> QED BY TypeCorrect, AccountsInit, AccountsStep, PTL DEF Spec

\* Whatever requests overlap, a courier's balance is what the operator gave him
\* plus his Transaction rows, unless it changed under a request holding the row.
THEOREM LedgersAgree == Spec => []LedgerKept
<1>1. Accounts => LedgerKept BY DEF Accounts
<1> QED BY <1>1, AccountsHold, PTL

\* The same of an institution's balance and what closings owed it.
THEOREM InstitutionsAgree == Spec => []InstitutionKept
<1>1. Accounts => InstitutionKept BY DEF Accounts
<1> QED BY <1>1, AccountsHold, PTL


-----------------------------------------------------------------------------
(* Payouts.                                                                *)

\* The inductive invariant of the payouts: couriers about to be paid have had
\* the order, and an order that is open or being closed has not been paid yet.
Payouts ==
    /\ \A o \in Orders : order[o].courier \in held[o] \cup {NoCourier}
    /\ \A h \in Handlers :
         Kind(h) = "close" /\ job[h].stage = "locked" => job[h].payee \in held[job[h].order]
    /\ \A o \in Orders \ again : order[o].status # "closed" \/ Closing(o) # {} => paid[o] = 0
    /\ PaidOnce

\* How the closings of an order change when one handler's job does.
LEMMA ClosingAfter ==
    ASSUME TypeOK, NEW h \in Handlers, NEW j \in Job \cup {NoJob}, job' = [job EXCEPT ![h] = j],
           NEW x \in Orders
    PROVE  Closing(x)' = IF j # NoJob /\ j.kind = "close" /\ j.order = x
                         THEN Closing(x) \cup {h} ELSE Closing(x) \ {h}
<1>1. job'[h] = j /\ \A g \in Handlers \ {h} : job'[g] = job[g] BY DEF TypeOK
<1>2. Kind(h)' = (IF j = NoJob THEN "none" ELSE j.kind)
      /\ \A g \in Handlers \ {h} : Kind(g)' = Kind(g)
  BY <1>1 DEF Kind
<1>3. \A g \in Handlers \ {h} : g \in Closing(x)' <=> g \in Closing(x)
  BY <1>1, <1>2 DEF Closing
<1>4. h \in Closing(x)' <=> j # NoJob /\ j.kind = "close" /\ j.order = x
  BY <1>1, <1>2 DEF Closing
<1>5. Closing(x) \subseteq Handlers /\ Closing(x)' \subseteq Handlers BY DEF Closing
<1> QED BY <1>3, <1>4, <1>5

\* A handler that is not closing ends without touching the closings.
LEMMA NotClosing ==
    ASSUME NEW h \in Handlers, Kind(h) # "close", NEW x \in Orders
    PROVE  Closing(x) \ {h} = Closing(x)
BY DEF Closing

\* What each step does to the rows the payouts are about.
LEMMA StepOnPayouts ==
    ASSUME TypeOK, [Next]_vars
    PROVE  \/ \E h \in Handlers, j \in Job : /\ Fits(j) /\ job[h] = NoJob
                                             /\ job' = [job EXCEPT ![h] = j]
                                             /\ UNCHANGED <<order, ledger, paid, held, again>>
           \/ UNCHANGED <<order, ledger, paid, job, held, again>>
           \/ \E h \in Handlers :
                /\ Kind(h) # "close" => \A x \in Orders : Closing(x)' = Closing(x)
                /\ CloseRead(h) \/ CloseLock(h) \/ CloseCommit(h) \/ AssignCommit(h)
                   \/ RowCommit(h) \/ ReplaceFree(h) \/ ReplaceName(h) \/ ReplaceSave(h)
                   \/ MoveCommit(h) \/ PlaceCommit(h) \/ Abort(h)
<1>1. CASE \E h \in Handlers : Begin(h)
  <2>1. PICK h \in Handlers, j \in Job : Start(h, j) /\ Fits(j) BY <1>1, BeginStarts
  <2> QED BY <2>1 DEF Start, rowVars, histVars
<1>2. CASE \E c \in Couriers, amount \in TopupAmounts : Topup(c, amount)
  BY <1>2 DEF Topup, histVars
<1>3. ASSUME NEW h \in Handlers, Step(h), Kind(h) # "close"
      PROVE  \A x \in Orders : Closing(x)' = Closing(x)
  <2>1. CASE ReplaceFree(h) \/ ReplaceName(h)
    <3>1. PICK j \in ReplaceJob : job' = [job EXCEPT ![h] = j] BY <2>1, ReplaceMoves
    <3>2. j \in Job /\ j.kind = "replace" BY DEF Job, ReplaceJob
    <3>3. \A x \in Orders : Closing(x)' = Closing(x) \ {h} BY <3>1, <3>2, ClosingAfter
    <3> QED BY <1>3, <3>3, NotClosing
  <2>2. CASE Finish(h)
    <3>1. job' = [job EXCEPT ![h] = NoJob] BY <2>2 DEF Finish
    <3> QED BY <1>3, <3>1, ClosingAfter, NotClosing
  <2> QED BY <1>3, <2>1, <2>2 DEF Step, CloseRead, CloseLock, CloseCommit, AssignCommit,
             RowCommit, ReplaceSave, MoveCommit, PlaceCommit, Abort
<1>4. CASE \E h \in Handlers : Step(h) BY <1>3, <1>4 DEF Step
<1>5. CASE UNCHANGED vars BY <1>5 DEF vars, rowVars, histVars
<1> QED BY <1>1, <1>2, <1>4, <1>5 DEF Next

LEMMA PayoutsInit == Init => Payouts
<1> SUFFICES ASSUME Init PROVE Payouts OBVIOUS
<1>1. \A h \in Handlers : Kind(h) = "none" BY DEF Init, Kind
<1>2. /\ \A o \in Orders : order[o].courier = NoCourier /\ paid[o] = 0
  BY DEF Init
<1> QED BY <1>1, <1>2 DEF Payouts, PaidOnce

LEMMA PayoutsStep == TypeOK /\ TypeOK' /\ Payouts /\ [Next]_vars => Payouts'
<1> SUFFICES ASSUME TypeOK, TypeOK', Payouts, [Next]_vars PROVE Payouts' OBVIOUS
<1>t. /\ order \in [Orders -> OrderRow] /\ paid \in [Orders -> Int]
      /\ held \in [Orders -> SUBSET Couriers] /\ again \subseteq Orders
      /\ job \in [Handlers -> Job \cup {NoJob}] /\ \A h \in Handlers : JobOK(h)
  BY DEF TypeOK
<1>k. /\ \A o \in Orders : order[o].courier \in held[o] \cup {NoCourier}
      /\ \A h \in Handlers :
           Kind(h) = "close" /\ job[h].stage = "locked" => job[h].payee \in held[job[h].order]
      /\ \A o \in Orders \ again : order[o].status # "closed" \/ Closing(o) # {} => paid[o] = 0
      /\ \A o \in Orders \ again : paid[o] \in {0, Owed[o]}
  BY DEF Payouts, PaidOnce
\* Enough for a step that leaves the order rows and the payouts alone.
<1>p. ASSUME UNCHANGED <<order, paid, held, again>>,
             \A x \in Orders : Closing(x)' \subseteq Closing(x),
             \A h \in Handlers : Kind(h)' = "close" /\ job'[h].stage = "locked"
                                   => job'[h].payee \in held[job'[h].order]
      PROVE  Payouts'
  BY <1>p, <1>k DEF Payouts, PaidOnce
\* The payees of closings that do not move.
<1>g. ASSUME NEW h \in Handlers, NEW g \in Handlers \ {h}, job'[g] = job[g],
             \A x \in Orders : held[x] \subseteq held'[x],
             Kind(g)' = "close", job'[g].stage = "locked"
      PROVE  job'[g].payee \in held'[job'[g].order]
  <2>1. Kind(g) = "close" /\ job[g].stage = "locked" BY <1>g DEF Kind
  <2>2. job[g].order \in Orders BY <2>1, Kinds DEF CloseJob
  <2> QED BY <2>1, <2>2, <1>g, <1>k
\* A handler that ends.
<1>f. ASSUME NEW h \in Handlers, Finish(h)
      PROVE  /\ job' = [job EXCEPT ![h] = NoJob]
             /\ Kind(h)' = "none" /\ \A g \in Handlers \ {h} : job'[g] = job[g]
             /\ \A x \in Orders : Closing(x)' = Closing(x) \ {h}
  <2>1. job' = [job EXCEPT ![h] = NoJob] BY <1>f DEF Finish
  <2> QED BY <2>1, <1>t, ClosingAfter DEF Kind
<1>1. ASSUME NEW h \in Handlers, NEW j \in Job, Fits(j), job[h] = NoJob,
             job' = [job EXCEPT ![h] = j], UNCHANGED <<order, ledger, paid, held, again>>
      PROVE  Payouts'
  <2>1. job'[h] = j /\ \A g \in Handlers \ {h} : job'[g] = job[g] BY <1>1, <1>t
  <2>2. Kind(h)' = j.kind BY <2>1, SentinelAssumption DEF Kind
  <2>3. \A g \in Handlers : Kind(g)' = "close" /\ job'[g].stage = "locked"
                              => job'[g].payee \in held[job'[g].order]
    <3>1. j.kind = "close" => j.stage = "loaded" BY <1>1 DEF Fits
    <3> QED BY <3>1, <2>1, <2>2, <1>1, <1>g
  <2>4. ASSUME NEW o \in Orders \ again, order[o].status # "closed" \/ Closing(o)' # {}
        PROVE  paid[o] = 0
    <3>1. Closing(o)' = (IF j.kind = "close" /\ j.order = o THEN Closing(o) \cup {h} ELSE Closing(o) \ {h})
      BY <1>1, ClosingAfter, SentinelAssumption
    <3>2. CASE j.kind = "close" /\ j.order = o
      <4>1. order[o].status # "closed" BY <3>2, <1>1 DEF Fits
      <4> QED BY <4>1, <1>k
    <3>3. CASE ~(j.kind = "close" /\ j.order = o) BY <3>1, <3>3, <2>4, <1>k
    <3> QED BY <3>2, <3>3
  <2> QED BY <2>3, <2>4, <1>1, <1>k DEF Payouts, PaidOnce
<1>2. CASE UNCHANGED <<order, ledger, paid, job, held, again>>
  BY <1>2, <1>k DEF Payouts, PaidOnce, Kind, Closing
<1>3. ASSUME NEW h \in Handlers, CloseRead(h) \/ CloseLock(h) PROVE Payouts'
  <2>1. PICK j \in CloseJob : /\ job' = [job EXCEPT ![h] = j] /\ j.order = job[h].order
    BY <1>3, CloseMoves
  <2>2. UNCHANGED <<order, paid, held, again>>
    BY <1>3 DEF CloseRead, CloseLock, rowVars, histVars
  <2>3. job'[h] = j /\ \A g \in Handlers \ {h} : job'[g] = job[g] BY <2>1, <1>t
  <2>4. j \in Job /\ j.kind = "close" BY DEF Job, CloseJob
  <2>5. h \in Closing(j.order) BY <2>1, <1>3 DEF Closing, CloseRead, CloseLock
  <2>6. \A x \in Orders : Closing(x)' \subseteq Closing(x)
    <3>1. ASSUME NEW x \in Orders
          PROVE  Closing(x)' = IF j.order = x THEN Closing(x) \cup {h} ELSE Closing(x) \ {h}
      <4>1. j # NoJob BY <2>4, SentinelAssumption
      <4> QED BY <4>1, <2>1, <2>4, ClosingAfter
    <3> QED BY <3>1, <2>5
  <2>7. j.stage = "locked" => j.payee \in held[j.order]
    <3>1. job[h] \in CloseJob BY <1>3, Kinds DEF CloseRead, CloseLock
    <3>2. CASE CloseRead(h)
      <4>1. j = [job[h] EXCEPT !.stage = "read", !.seen = institution[Terms[job[h].order].place]]
        BY <3>2, <2>3, <1>t DEF CloseRead
      <4>2. j.stage = "read" BY <4>1, <3>1 DEF CloseJob
      <4> QED BY <4>2
    <3>3. CASE CloseLock(h)
      <4>1. j = [job[h] EXCEPT !.stage = "locked", !.payee = Payee(h)]
        BY <3>3, <2>3, <1>t DEF CloseLock
      <4>2. j.payee = Payee(h) /\ job[h].order \in Orders BY <4>1, <3>1 DEF CloseJob
      <4> QED BY <4>2, <3>3, <2>1, <1>k DEF CloseLock, Payee
    <3> QED BY <3>2, <3>3, <1>3
  <2> QED BY <2>2, <2>3, <2>6, <2>7, <1>g, <1>p
<1>4. ASSUME NEW h \in Handlers, CloseCommit(h) PROVE Payouts'
  <2> DEFINE o == job[h].order
             m == job[h].row.courier
  <2>1. o \in Orders /\ m \in Couriers /\ h \in Closing(o)
    <3>1. job[h] \in CloseJob /\ m # NoCourier BY <1>4, <1>t, Kinds DEF CloseCommit, JobOK
    <3> QED BY <3>1, <1>4 DEF CloseJob, OrderRow, Closing, CloseCommit
  <2>2. /\ order' = [order EXCEPT ![o] = [status |-> "closed", courier |-> m]]
        /\ held' = [held EXCEPT ![o] = held[o] \cup {m}]
        /\ paid' = [paid EXCEPT ![o] = paid[o] + Owed[o]]
        /\ Repeat(h, o) /\ Finish(h)
    BY <1>4 DEF CloseCommit
  <2> HIDE DEF o, m
  <2>3. again \subseteq again' /\ (o \notin again' => Closing(o) \ {h} = {})
    <3>1. order'[o].status = "closed" BY <2>1, <2>2, <1>t
    <3> QED BY <2>2, <3>1 DEF Repeat
  <2>4. \A x \in Orders : held[x] \subseteq held'[x] BY <2>1, <2>2, <1>t
  <2>5. \A x \in Orders : order'[x].courier \in held'[x] \cup {NoCourier}
    BY <2>1, <2>2, <2>4, <1>t, <1>k
  <2>6. \A g \in Handlers : Kind(g)' = "close" /\ job'[g].stage = "locked"
                              => job'[g].payee \in held'[job'[g].order]
    BY <2>2, <2>4, <1>f, <1>g
  <2>7. ASSUME NEW x \in Orders \ again'
        PROVE  /\ order'[x].status # "closed" \/ Closing(x)' # {} => paid'[x] = 0
               /\ paid'[x] \in {0, Owed[x]}
    <3>1. CASE x = o
      <4>1. paid[o] = 0 BY <3>1, <2>1, <2>3, <2>7, <1>k
      <4>2. paid'[o] = Owed[o]
        <5>1. paid'[o] = paid[o] + Owed[o] BY <2>1, <2>2, <1>t
        <5>2. Owed[o] \in Int BY <2>1, SumsAreIntegers
        <5> QED BY <4>1, <5>1, <5>2
      <4>3. Closing(x)' = {}
        <5>1. Closing(x)' = Closing(x) \ {h} BY <2>2, <1>f
        <5>2. Closing(x) = Closing(o) BY <3>1
        <5> QED BY <5>1, <5>2, <3>1, <2>3, <2>7
      <4>4. order'[x].status = "closed" BY <3>1, <2>1, <2>2, <1>t
      <4> QED BY <3>1, <4>2, <4>3, <4>4
    <3>2. CASE x # o
      <4>1. paid'[x] = paid[x] /\ order'[x] = order[x] BY <3>2, <2>2, <1>t
      <4>2. Closing(x)' \subseteq Closing(x) BY <2>2, <1>f
      <4> QED BY <4>1, <4>2, <2>3, <1>k
    <3> QED BY <3>1, <3>2
  <2> QED BY <2>5, <2>6, <2>7 DEF Payouts, PaidOnce
<1>5. ASSUME NEW h \in Handlers, AssignCommit(h) PROVE Payouts'
  <2> DEFINE o == job[h].order
             c == job[h].id
  <2>1. o \in Orders /\ c \in Couriers BY <1>5, Kinds DEF AssignCommit, AssignJob
  <2>2. /\ order' = [order EXCEPT ![o] = [order[o] EXCEPT !.courier = c]]
        /\ held' = [held EXCEPT ![o] = held[o] \cup {c}]
        /\ Finish(h) /\ UNCHANGED <<paid, again>>
    BY <1>5 DEF AssignCommit
  <2> HIDE DEF o, c
  <2>3. \A x \in Orders : /\ held[x] \subseteq held'[x]
                          /\ order'[x].status = order[x].status
                          /\ order'[x].courier \in held'[x] \cup {NoCourier}
    BY <2>1, <2>2, <1>t, <1>k DEF OrderRow
  <2>4. \A g \in Handlers : Kind(g)' = "close" /\ job'[g].stage = "locked"
                              => job'[g].payee \in held'[job'[g].order]
    BY <2>2, <2>3, <1>f, <1>g
  <2>5. \A x \in Orders : Closing(x)' \subseteq Closing(x) BY <2>2, <1>f
  <2> QED BY <2>2, <2>3, <2>4, <2>5, <1>k DEF Payouts, PaidOnce
<1>6. ASSUME NEW h \in Handlers, RowCommit(h) \/ PlaceCommit(h) \/ Abort(h) PROVE Payouts'
  <2>1. Finish(h) /\ UNCHANGED <<order, paid, held, again>>
    BY <1>6 DEF RowCommit, PlaceCommit, Abort, rowVars, histVars
  <2>2. \A g \in Handlers : Kind(g)' = "close" /\ job'[g].stage = "locked"
                              => job'[g].payee \in held[job'[g].order]
    BY <2>1, <1>f, <1>g
  <2> QED BY <2>1, <2>2, <1>f, <1>p
<1>7. ASSUME NEW h \in Handlers, ReplaceFree(h) \/ ReplaceName(h) PROVE Payouts'
  <2>1. PICK j \in ReplaceJob : job' = [job EXCEPT ![h] = j] BY <1>7, ReplaceMoves
  <2>2. UNCHANGED <<order, paid, held, again>>
    BY <1>7 DEF ReplaceFree, ReplaceName, histVars
  <2>3. j \in Job /\ j.kind = "replace" BY DEF Job, ReplaceJob
  <2>4. Kind(h)' = "replace" /\ \A g \in Handlers \ {h} : job'[g] = job[g]
    BY <2>1, <2>3, <1>t, SentinelAssumption DEF Kind
  <2>5. \A x \in Orders : Closing(x)' \subseteq Closing(x) BY <2>1, <2>3, ClosingAfter
  <2>6. \A g \in Handlers : Kind(g)' = "close" /\ job'[g].stage = "locked"
                              => job'[g].payee \in held[job'[g].order]
    BY <2>2, <2>4, <1>g
  <2> QED BY <2>2, <2>5, <2>6, <1>p
<1>8. ASSUME NEW h \in Handlers, ReplaceSave(h) \/ MoveCommit(h) PROVE Payouts'
  <2> DEFINE o == job[h].order
  <2>1. /\ Kind(h) = "replace" => job[h] \in ReplaceJob
        /\ Kind(h) = "move" => job[h] \in MoveJob
    BY Kinds
  <2>2. o \in Orders /\ job[h].row \in OrderRow /\ job[h].row.status # "closed"
    BY <1>8, <2>1, <1>t, InputAssumption
       DEF ReplaceSave, MoveCommit, ReplaceJob, MoveJob, JobOK, Completed
  <2>3. /\ Repeat(h, o) /\ Finish(h) /\ UNCHANGED paid
        /\ \E row \in OrderRow, more \in SUBSET Couriers :
             /\ order' = [order EXCEPT ![o] = row] /\ row.status # "closed"
             /\ row.courier \in more \cup {NoCourier}
             /\ held' = [held EXCEPT ![o] = held[o] \cup more]
    <3>1. CASE ReplaceSave(h)
      <4> DEFINE row == [job[h].row EXCEPT !.courier = job[h].new]
                 more == {job[h].new} \ {NoCourier}
      <4>1. row \in OrderRow /\ row.status # "closed" /\ more \in SUBSET Couriers
            /\ row.courier \in more \cup {NoCourier}
        BY <2>1, <2>2, <3>1 DEF ReplaceSave, ReplaceJob, OrderRow
      <4>2. /\ order' = [order EXCEPT ![o] = row] /\ held' = [held EXCEPT ![o] = held[o] \cup more]
            /\ Repeat(h, o) /\ Finish(h) /\ UNCHANGED paid
        BY <3>1 DEF ReplaceSave
      <4> QED BY <4>1, <4>2
    <3>2. CASE MoveCommit(h)
      <4>1. job[h].row.courier \in Couriers BY <2>2, <3>2, <1>t DEF MoveCommit, JobOK, OrderRow
      <4>2. {job[h].row.courier} \in SUBSET Couriers BY <4>1
      <4> QED BY <4>2, <2>2, <3>2 DEF MoveCommit
    <3> QED BY <3>1, <3>2, <1>8
  <2> HIDE DEF o
  <2>4. PICK row \in OrderRow, more \in SUBSET Couriers :
             /\ order' = [order EXCEPT ![o] = row] /\ row.status # "closed"
             /\ row.courier \in more \cup {NoCourier}
             /\ held' = [held EXCEPT ![o] = held[o] \cup more]
    BY <2>3
  <2>5. again \subseteq again' /\ (o \notin again' => order[o].status # "closed")
    <3>1. order'[o].status # "closed" BY <2>2, <2>4, <1>t
    <3> QED BY <2>3, <3>1 DEF Repeat
  <2>6. \A x \in Orders : /\ held[x] \subseteq held'[x]
                          /\ order'[x].courier \in held'[x] \cup {NoCourier}
    BY <2>2, <2>4, <1>t, <1>k
  <2>7. \A g \in Handlers : Kind(g)' = "close" /\ job'[g].stage = "locked"
                              => job'[g].payee \in held'[job'[g].order]
    BY <2>3, <2>6, <1>f, <1>g
  <2>8. ASSUME NEW x \in Orders \ again'
        PROVE  /\ order'[x].status # "closed" \/ Closing(x)' # {} => paid'[x] = 0
               /\ paid'[x] \in {0, Owed[x]}
    <3>1. x \notin again /\ paid'[x] = paid[x] /\ Closing(x)' \subseteq Closing(x)
      BY <2>3, <2>5, <2>8, <1>f
    <3>2. CASE x = o BY <3>1, <3>2, <2>5, <2>8, <1>k
    <3>3. CASE x # o
      <4>1. order'[x] = order[x] BY <3>3, <2>4, <1>t
      <4> QED BY <3>1, <4>1, <1>k
    <3> QED BY <3>2, <3>3
  <2> QED BY <2>6, <2>7, <2>8 DEF Payouts, PaidOnce
<1> QED BY <1>1, <1>2, <1>3, <1>4, <1>5, <1>6, <1>7, <1>8, StepOnPayouts

\* Only a courier who has had the order is about to be paid, and no open order was paid.
THEOREM PayoutsHold == Spec => []Payouts
<1> QED BY TypeCorrect, PayoutsInit, PayoutsStep, PTL DEF Spec

\* An order is paid out once unless it was opened again or closings overlapped.
THEOREM OrdersPaidOnce == Spec => []PaidOnce
<1>1. Payouts => PaidOnce BY DEF Payouts
<1> QED BY <1>1, PayoutsHold, PTL

\* Money of an order moves only on the account of a courier that has had it.
THEOREM OnlyHolders == Spec => OnlyHoldersPaid
<1>1. ASSUME TypeOK, TypeOK', Payouts, [Next]_vars, NEW c \in Couriers, ledger'[c] # ledger[c]
      PROVE  \E o \in Orders : c \in held[o] /\ order'[o].status = "closed"
  <2>1. PICK h \in Handlers : CloseCommit(h)
    BY <1>1, StepOnPayouts DEF CloseRead, CloseLock, AssignCommit, RowCommit, ReplaceFree,
       ReplaceName, ReplaceSave, MoveCommit, PlaceCommit, Abort, rowVars
  <2>2. job[h] \in CloseJob /\ job[h].stage = "locked" /\ Kind(h) = "close"
    BY <1>1, <2>1, Kinds DEF CloseCommit
  <2>3. job[h].order \in Orders /\ job[h].payee \in held[job[h].order]
    BY <1>1, <2>2 DEF CloseJob, Payouts
  <2>4. order'[job[h].order].status = "closed" BY <1>1, <2>1, <2>3 DEF CloseCommit, TypeOK
  <2>5. c = job[h].payee BY <1>1, <2>1 DEF CloseCommit, TypeOK
  <2> QED BY <2>3, <2>4, <2>5
<1>2. TypeOK /\ TypeOK' /\ Payouts /\ [Next]_vars
        => [\A c \in Couriers : ledger'[c] # ledger[c]
              => \E o \in Orders : c \in held[o] /\ order'[o].status = "closed"]_vars
  BY <1>1
<1> QED BY <1>2, TypeCorrect, PayoutsHold, PTL DEF Spec, OnlyHoldersPaid

-----------------------------------------------------------------------------
(* Settlement implements Books.                                            *)

LEMMA BooksInit == Init => Books!Init
<1> SUFFICES ASSUME Init PROVE Books!Init OBVIOUS
<1>1. \A o \in Orders : order[o].status = "accepted" /\ paid[o] = 0 BY DEF Init
<1>2. paid = [o \in Orders |-> 0] BY DEF Init
<1>3. \A h \in Handlers : Kind(h) = "none" BY DEF Init, Kind
<1>4. \A o \in Orders : Closing(o) = {} BY <1>3 DEF Closing
<1> QED BY <1>1, <1>2, <1>4 DEF Books!Init, BooksState

LEMMA BooksStep ==
    TypeOK /\ TypeOK' /\ [Next]_vars => [Books!Next]_(Books!bookVars)
<1> SUFFICES ASSUME TypeOK, TypeOK', [Next]_vars
             PROVE  Books!Next \/ UNCHANGED Books!bookVars
  OBVIOUS
<1>t. /\ order \in [Orders -> OrderRow] /\ paid \in [Orders -> Int]
      /\ job \in [Handlers -> Job \cup {NoJob}] /\ \A h \in Handlers : JobOK(h)
  BY DEF TypeOK
<1> DEFINE closings == [o \in Orders |-> Closing(o)]
\* What the books do not see.
<1>s. ASSUME \A x \in Orders : /\ order'[x].status = "closed" <=> order[x].status = "closed"
                               /\ Closing(x)' = Closing(x),
             UNCHANGED paid
      PROVE  UNCHANGED Books!bookVars
  BY <1>s DEF Books!bookVars, BooksState
<1>f. ASSUME NEW h \in Handlers, Finish(h)
      PROVE  \A x \in Orders : Closing(x)' = Closing(x) \ {h}
  <2>1. job' = [job EXCEPT ![h] = NoJob] BY <1>f DEF Finish
  <2> QED BY <2>1, ClosingAfter
<1>1. ASSUME NEW h \in Handlers, NEW j \in Job, Fits(j), job[h] = NoJob,
             job' = [job EXCEPT ![h] = j], UNCHANGED <<order, ledger, paid, held, again>>
      PROVE  Books!Next \/ UNCHANGED Books!bookVars
  <2>1. j # NoJob BY SentinelAssumption
  <2>2. \A x \in Orders : h \notin Closing(x) BY <1>1 DEF Closing, Kind
  <2>3. ASSUME NEW x \in Orders
        PROVE  Closing(x)' = IF j.kind = "close" /\ j.order = x THEN Closing(x) \cup {h} ELSE Closing(x)
    <3>1. Closing(x)' = IF j.kind = "close" /\ j.order = x THEN Closing(x) \cup {h} ELSE Closing(x) \ {h}
      BY <1>1, <2>1, ClosingAfter
    <3>2. Closing(x) \ {h} = Closing(x) BY <2>2
    <3> QED BY <3>1, <3>2
  <2>4. CASE j.kind = "close"
    <3>1. j.order \in Orders /\ order[j.order].status # "closed"
      BY <1>1, <2>4, JobKinds DEF CloseJob, Fits
    <3>2. BooksState[j.order] = "open" /\ h \notin closings[j.order]
      BY <3>1, <2>2 DEF BooksState
    <3>3. closings' = [closings EXCEPT ![j.order] = @ \cup {h}] BY <2>3, <2>4, <3>1
    <3>4. UNCHANGED <<BooksState, paid>> BY <1>1 DEF BooksState
    <3>5. Books!Begin(j.order, h) BY <3>2, <3>3, <3>4 DEF Books!Begin
    <3> QED BY <3>1, <3>5 DEF Books!Next
  <2>5. CASE j.kind # "close" BY <1>1, <2>3, <2>5, <1>s
  <2> QED BY <2>4, <2>5
<1>2. CASE UNCHANGED <<order, ledger, paid, job, held, again>>
  BY <1>2, <1>s DEF Closing, Kind
<1>3. ASSUME NEW h \in Handlers, CloseRead(h) \/ CloseLock(h)
      PROVE  UNCHANGED Books!bookVars
  <2>1. PICK j \in CloseJob : /\ job' = [job EXCEPT ![h] = j] /\ j.order = job[h].order
    BY <1>3, CloseMoves
  <2>2. j \in Job /\ j.kind = "close" /\ j # NoJob BY SentinelAssumption DEF Job, CloseJob
  <2>3. \A x \in Orders : h \in Closing(x) <=> j.order = x
    BY <2>1, <1>3 DEF Closing, CloseRead, CloseLock
  <2>4. \A x \in Orders : Closing(x)' = Closing(x)
    <3>1. ASSUME NEW x \in Orders
          PROVE  Closing(x)' = IF j.order = x THEN Closing(x) \cup {h} ELSE Closing(x) \ {h}
      BY <2>1, <2>2, ClosingAfter
    <3> QED BY <3>1, <2>3
  <2>5. UNCHANGED <<order, paid>> BY <1>3 DEF CloseRead, CloseLock, rowVars
  <2> QED BY <2>4, <2>5, <1>s
<1>4. ASSUME NEW h \in Handlers, CloseCommit(h) PROVE Books!Next
  <2>1. PICK o \in Orders : o = job[h].order BY <1>4, Kinds DEF CloseCommit, CloseJob
  <2>2. \A x \in Orders : h \in Closing(x) <=> x = o BY <1>4, <2>1 DEF Closing, CloseCommit
  <2>3. /\ order' = [order EXCEPT ![o] = [status |-> "closed", courier |-> job[h].row.courier]]
        /\ paid' = [paid EXCEPT ![o] = @ + Owed[o]]
        /\ Finish(h)
    BY <1>4, <2>1 DEF CloseCommit
  <2>4. h \in closings[o] BY <2>2
  <2>5. \A x \in Orders : Closing(x)' = IF x = o THEN Closing(x) \ {h} ELSE Closing(x)
    BY <2>2, <2>3, <1>f
  <2>6. closings' = [closings EXCEPT ![o] = @ \ {h}] BY <2>5
  <2>7. BooksState' = [BooksState EXCEPT ![o] = "closed"] BY <2>3, <1>t DEF BooksState
  <2>8. Books!Finish(o, h) BY <2>3, <2>4, <2>6, <2>7 DEF Books!Finish
  <2> QED BY <2>8 DEF Books!Next
<1>5. ASSUME NEW h \in Handlers, Kind(h) # "close", \A x \in Orders : Closing(x)' = Closing(x),
             \/ AssignCommit(h) \/ RowCommit(h) \/ ReplaceFree(h) \/ ReplaceName(h)
             \/ PlaceCommit(h) \/ Abort(h)
      PROVE  UNCHANGED Books!bookVars
  <2>1. UNCHANGED paid /\ \A x \in Orders : order'[x].status = order[x].status
    <3>1. CASE AssignCommit(h) BY <3>1, <1>t DEF AssignCommit, OrderRow
    <3> QED BY <3>1, <1>5 DEF RowCommit, ReplaceFree, ReplaceName, PlaceCommit, Abort, rowVars
  <2> QED BY <2>1, <1>5, <1>s
<1>6. ASSUME NEW h \in Handlers, Kind(h) # "close", \A x \in Orders : Closing(x)' = Closing(x),
             ReplaceSave(h) \/ MoveCommit(h)
      PROVE  Books!Next \/ UNCHANGED Books!bookVars
  <2>1. /\ Kind(h) = "replace" => job[h] \in ReplaceJob
        /\ Kind(h) = "move" => job[h] \in MoveJob
    BY Kinds
  <2>2. PICK o \in Orders : o = job[h].order
    BY <1>6, <2>1 DEF ReplaceSave, MoveCommit, ReplaceJob, MoveJob
  <2>3. /\ UNCHANGED paid /\ order'[o].status # "closed"
        /\ \A x \in Orders \ {o} : order'[x] = order[x]
    <3>1. CASE ReplaceSave(h)
      <4>1. job[h] \in ReplaceJob /\ job[h].row.status # "closed"
        BY <2>1, <3>1, <1>t DEF ReplaceSave, JobOK, Completed
      <4> QED BY <4>1, <2>2, <3>1, <1>t DEF ReplaceSave, ReplaceJob, OrderRow
    <3>2. CASE MoveCommit(h)
      <4>1. job[h].row.status # "closed" BY <3>2, <1>t, InputAssumption DEF MoveCommit, JobOK
      <4> QED BY <4>1, <2>2, <3>2, <1>t DEF MoveCommit
    <3> QED BY <3>1, <3>2, <1>6
  <2>4. CASE order[o].status = "closed"
    <3>1. BooksState[o] = "closed" /\ BooksState' = [BooksState EXCEPT ![o] = "open"]
      BY <2>3, <2>4 DEF BooksState
    <3>2. closings' = closings BY <1>6
    <3>3. Books!Reopen(o) BY <3>1, <3>2, <2>3 DEF Books!Reopen
    <3> QED BY <3>3 DEF Books!Next
  <2>5. CASE order[o].status # "closed" BY <2>3, <2>5, <1>6, <1>s
  <2> QED BY <2>4, <2>5
<1>7. ASSUME NEW h \in Handlers, Kind(h) = "close", Abort(h) PROVE Books!Next
  <2>1. PICK o \in Orders : o = job[h].order BY <1>7, Kinds DEF CloseJob
  <2>2. \A x \in Orders : h \in Closing(x) <=> x = o BY <1>7, <2>1 DEF Closing
  <2>3. UNCHANGED <<order, paid>> /\ Finish(h) BY <1>7 DEF Abort, rowVars
  <2>4. \A x \in Orders : Closing(x)' = IF x = o THEN Closing(x) \ {h} ELSE Closing(x)
    BY <2>2, <2>3, <1>f
  <2>5. closings' = [closings EXCEPT ![o] = @ \ {h}] BY <2>4
  <2>6. UNCHANGED <<BooksState, paid>> BY <2>3 DEF BooksState
  <2>7. h \in closings[o] BY <2>2
  <2>8. Books!GiveUp(o, h) BY <2>5, <2>6, <2>7 DEF Books!GiveUp
  <2> QED BY <2>8 DEF Books!Next
<1>8. ASSUME NEW h \in Handlers, AssignCommit(h) \/ RowCommit(h) \/ ReplaceFree(h) \/ ReplaceName(h)
                                 \/ ReplaceSave(h) \/ MoveCommit(h) \/ PlaceCommit(h)
      PROVE  Kind(h) # "close"
  BY <1>8 DEF AssignCommit, RowCommit, ReplaceFree, ReplaceName, ReplaceSave, MoveCommit, PlaceCommit
<1> QED BY <1>1, <1>2, <1>3, <1>4, <1>5, <1>6, <1>7, <1>8, StepOnPayouts

\* Settlement implements Books: whatever overlaps, an order is paid out only by
\* a closing that began while it was open, once for that closing, in full.
THEOREM ImplementsBooks == Spec => PaysByTheBooks
<1>1. Init => Books!Init BY BooksInit
<1>2. TypeOK /\ TypeOK' /\ [Next]_vars => [Books!Next]_(Books!bookVars) BY BooksStep
<1> QED BY <1>1, <1>2, TypeCorrect, PTL DEF Spec, PaysByTheBooks, Books!Spec

=============================================================================
