----------------------- MODULE RestaurantBot_proofs -----------------------
(***************************************************************************)
(* Theorems about RestaurantBot, for any web workers and presses, requests *)
(* and situations, and for any capacity of the channel.                    *)
(***************************************************************************)
EXTENDS RestaurantBot, TLAPS

\* A press of a button with a lock that works on the order.
Working(p) == job[p] # NoJob /\ job[p].key \in Locked /\ job[p].stage # "waiting"

\* Whoever works under the lock is at the head of its queue; no press with a
\* lock skips the wait.
OneHolder == \A p \in Presses : Working(p) => Holds(p) /\ job[p].stage # "pressed"

\* The row such a press loaded is the order's, unless somebody without the lock
\* wrote since.
RowKept ==
    \A p \in Presses :
       Working(p) /\ job[p].stage \in {"loaded", "handled", "saved"} /\ p \notin overtaken
       => job[p].row = order

\* The inductive invariant.
IInv == TypeOK /\ OneHolder /\ RowKept

-----------------------------------------------------------------------------
(* Lemmas.                                                                 *)

LEMMA ElementOf ==
    ASSUME NEW T, NEW s \in Seq(T), NEW k \in 1..Len(s)
    PROVE  s[k] \in T
OBVIOUS

LEMMA HeadTail ==
    ASSUME NEW T, NEW s \in Seq(T), s # <<>>
    PROVE  Head(s) \in T /\ Tail(s) \in Seq(T)
OBVIOUS

LEMMA Joined ==
    ASSUME NEW T, NEW s \in Seq(T), NEW t \in Seq(T)
    PROVE  s \o t \in Seq(T)
OBVIOUS

LEMMA AppendHead ==
    ASSUME NEW T, NEW s \in Seq(T), NEW x \in T
    PROVE  /\ Append(s, x) \in Seq(T) /\ Append(s, x) # <<>>
           /\ s # <<>> => Head(Append(s, x)) = Head(s)
<1> DEFINE t == Append(s, x)
<1>1. t \in Seq(T) /\ Len(t) = Len(s) + 1 OBVIOUS
<1>2. \A i \in 1..Len(s) : t[i] = s[i] OBVIOUS
<1>3. Len(s) \in Nat /\ (s # <<>> => Len(s) # 0) OBVIOUS
<1>4. t # <<>> BY <1>1, <1>3
<1>5. s # <<>> => Head(t) = Head(s)
  <2> SUFFICES ASSUME s # <<>> PROVE Head(t) = Head(s) OBVIOUS
  <2>1. t[1] = s[1] BY <1>2, <1>3
  <2>2. Head(s) = s[1] OBVIOUS
  <2> HIDE DEF t
  <2>3. Head(t) = t[1] BY <1>1, <1>4
  <2> QED BY <2>1, <2>2, <2>3
<1> QED BY <1>1, <1>4, <1>5

LEMMA Marked ==
    ASSUME NEW s \in Seq(Keys), NEW k \in Nat, NEW x, k \in DOMAIN s => x \in Keys
    PROVE  [s EXCEPT ![k] = x] \in Seq(Keys)
<1> DEFINE t == [s EXCEPT ![k] = x]
<1>1. DOMAIN t = 1..Len(s) /\ Len(s) \in Nat BY DEF t
<1>2. \A i \in 1..Len(s) : t[i] \in Keys BY ElementOf
<1>3. t = [i \in 1..Len(s) |-> t[i]] BY <1>1
<1> HIDE DEF t
<1>4. [i \in 1..Len(s) |-> t[i]] \in Seq(Keys) BY <1>1, <1>2
<1> QED BY <1>3, <1>4 DEF t

\* What fits is sent, the rest cut off: a sequence of messages either way.
LEMMA Sent ==
    ASSUME TypeOK, NEW notes \in Seq(Note), send(notes)
    PROVE  tele' \in Seq(Note)
<1> DEFINE s == tele \o notes
<1>1. s \in Seq(Note) /\ Len(s) = Len(tele) + Len(notes) BY DEF TypeOK
<1>2. CASE Fits(notes) BY <1>1, <1>2 DEF send
<1>3. CASE ~Fits(notes)
  <2>1. Capacity \in Nat /\ Capacity <= Len(s) BY <1>1, <1>3, BoundAssumption DEF Fits, TypeOK
  <2>2. SubSeq(s, 1, Capacity) \in Seq(Note)
    <3>1. \A i \in 1..Capacity : s[i] \in Note BY <1>1, <2>1, ElementOf
    <3> HIDE DEF s
    <3> QED BY <1>1, <2>1, <3>1
  <2> QED BY <1>3, <2>2 DEF send
<1> QED BY <1>2, <1>3

LEMMA NotesTyped ==
    ASSUME TypeOK
    PROVE  /\ edit_msg \in Seq(Note) /\ <<>> \in Seq(Note)
           /\ \A keys \in Keys : send_msg(keys) \in Seq(Note)
           /\ \A on \in BOOLEAN : Courier(on) \in Seq(Note) /\ Accepted(on) \in Seq(Note)
           /\ \A want \in Statuses : send_message(want) \in Seq(Note)
<1>1. edit_msg \in Seq(Note) /\ <<>> \in Seq(Note)
  <2>1. <<>> \in Seq(Note) OBVIOUS
  <2>2. [kind |-> "edit", keys |-> "none", mid |-> mid] \in Note BY DEF TypeOK, Note, Keys
  <2>3. <<[kind |-> "edit", keys |-> "none", mid |-> mid]>> \in Seq(Note) BY <2>2
  <2> QED BY <2>1, <2>3 DEF edit_msg
<1>2. \A keys \in Keys : send_msg(keys) \in Seq(Note) BY DEF send_msg, Note
<1>3. \A on \in BOOLEAN : Courier(on) \in Seq(Note) /\ Accepted(on) \in Seq(Note)
  BY <1>1, <1>2 DEF Courier, Accepted, Keys
<1>4. send_msg("none") \in Seq(Note) BY <1>2 DEF Keys
<1>5. edit_msg \o send_msg("none") \in Seq(Note) BY <1>1, <1>4
<1>6. ASSUME NEW want \in Statuses PROVE send_message(want) \in Seq(Note)
  BY <1>1, <1>5 DEF send_message
<1> QED BY <1>1, <1>2, <1>3, <1>6

\* The agents whose requests a step leaves alone.
Others(a) == \A b \in Agents \ {a} : job'[b] = job[b]

LEMMA JobChanges ==
    ASSUME TypeOK, NEW a \in Agents, NEW j \in Job \cup {NoJob}, job' = [job EXCEPT ![a] = j]
    PROVE  job' \in [Agents -> Job \cup {NoJob}] /\ Others(a) /\ job'[a] = j
BY DEF TypeOK, Others

LEMMA StageChanges ==
    ASSUME NEW j \in Job, NEW s \in Stages, NEW r \in Row, NEW n \in Row
    PROVE  /\ [j EXCEPT !.stage = s] \in Job /\ [j EXCEPT !.mem = n, !.stage = s] \in Job
           /\ [j EXCEPT !.row = r, !.mem = n, !.stage = s] \in Job
BY DEF Job

LEMMA Initially == Init => IInv
<1> SUFFICES ASSUME Init PROVE IInv OBVIOUS
<1> USE InputAssumption, BoundAssumption, SentinelAssumption
<1>1. PICK f \in Found : order = f.order /\ chat = f.chat /\ mid = f.mid /\ announced = f.announced
  BY DEF Init
<1>2. order \in Row /\ chat \in Seq(Keys) /\ mid \in Nat /\ announced \in BOOLEAN BY <1>1
<1>3. TypeOK BY <1>2 DEF Init, TypeOK
<1>4. OneHolder /\ RowKept BY DEF Init, OneHolder, RowKept, Working, Agents
<1> QED BY <1>3, <1>4 DEF IInv

-----------------------------------------------------------------------------
(* Three kinds of steps.                                                   *)

\* A step that leaves the requests, the queue and the order alone.
LEMMA Elsewhere ==
    ASSUME IInv, TypeOK', UNCHANGED <<job, queue, order, overtaken>>
    PROVE  IInv'
<1>1. \A p \in Presses : (Working(p)' <=> Working(p)) /\ (Holds(p)' <=> Holds(p)) BY DEF Working, Holds
<1>2. OneHolder' BY <1>1 DEF IInv, OneHolder
<1>3. RowKept' BY <1>1 DEF IInv, RowKept
<1> QED BY <1>2, <1>3 DEF IInv

\* A step in which a request goes on, and keeps the row it has loaded.
GoesOn(a) ==
    /\ Others(a) /\ job'[a] # NoJob /\ job[a] # NoJob
    /\ job'[a].key = job[a].key
    /\ job[a].stage \notin {"waiting", "pressed"}
    /\ job'[a].stage \notin {"waiting", "pressed"}
    /\ job'[a].stage \in {"loaded", "handled", "saved"} =>
          job'[a].row = job[a].row /\ job[a].stage \in {"loaded", "handled", "saved"}
    /\ queue' = queue

\* One that writes nothing.
LEMMA Onward ==
    ASSUME IInv, TypeOK', NEW a \in Agents, GoesOn(a), UNCHANGED <<order, overtaken>>
    PROVE  IInv'
<1>1. \A p \in Presses : Working(p)' <=> Working(p) BY DEF Working, GoesOn, Others, Agents
<1>2. \A p \in Presses : Holds(p)' <=> Holds(p) BY DEF Holds, GoesOn
<1>3. OneHolder' BY <1>1, <1>2 DEF IInv, OneHolder, GoesOn, Others, Agents
<1>4. ASSUME NEW p \in Presses, Working(p)', job'[p].stage \in {"loaded", "handled", "saved"}, p \notin overtaken
      PROVE  job'[p].row = order
  <2>1. Working(p) BY <1>1, <1>4
  <2>2. job'[p].row = job[p].row /\ job[p].stage \in {"loaded", "handled", "saved"}
    BY <1>4 DEF GoesOn, Others, Agents
  <2> QED BY <1>4, <2>1, <2>2 DEF IInv, RowKept
<1>5. RowKept' BY <1>4 DEF RowKept
<1> QED BY <1>3, <1>5 DEF IInv

\* One that writes the order: those it overtakes are known, and under the lock
\* there is nobody but the writer.
LEMMA Written ==
    ASSUME IInv, TypeOK', NEW a \in Agents, GoesOn(a), job'[a].stage = "done",
           overtaken' = overtaken \cup Overtakes(a)
    PROVE  IInv'
<1>1. \A p \in Presses : Working(p)' <=> Working(p) BY DEF Working, GoesOn, Others, Agents
<1>2. \A p \in Presses : Holds(p)' <=> Holds(p) BY DEF Holds, GoesOn
<1>3. OneHolder' BY <1>1, <1>2 DEF IInv, OneHolder, GoesOn, Others, Agents
<1>4. ASSUME NEW p \in Presses, Working(p)', job'[p].stage \in {"loaded", "handled", "saved"}, p \notin overtaken'
      PROVE  FALSE
  <2>1. p # a /\ Working(p) BY <1>1, <1>4
  <2>2. job[p] # NoJob /\ p \in Agents BY <2>1 DEF Working, Agents
  <2>3. a \in Presses /\ job[a].key \in Locked BY <1>4, <2>2 DEF Overtakes
  <2>4. Working(a) BY <2>3 DEF Working, GoesOn
  <2>5. Head(queue) = p /\ Head(queue) = a BY <2>1, <2>3, <2>4 DEF IInv, OneHolder, Holds
  <2> QED BY <2>1, <2>5
<1>5. RowKept' BY <1>4 DEF RowKept
<1> QED BY <1>3, <1>5 DEF IInv

\* One that ends: the lock it holds is given back.
LEMMA Ended ==
    ASSUME IInv, TypeOK', NEW a \in Agents, Done(a), order' = order,
           job[a] # NoJob, a \in Presses /\ job[a].key \in Locked => Holds(a)
    PROVE  IInv'
<1> USE SentinelAssumption
<1>1. Others(a) /\ job'[a] = NoJob BY JobChanges DEF Done, IInv
<1>2. ASSUME NEW p \in Presses, Working(p)'
      PROVE  p # a /\ Working(p) /\ Holds(p)' /\ Holds(p) /\ job'[p] = job[p]
  <2>1. p # a BY <1>1, <1>2 DEF Working
  <2>2. job'[p] = job[p] BY <1>1, <2>1 DEF Others, Agents
  <2>3. Working(p) BY <1>2, <2>2 DEF Working
  <2>4. Holds(p) BY <2>3 DEF IInv, OneHolder
  <2>5. ~(a \in Presses /\ job[a].key \in Locked) BY <2>1, <2>4 DEF Holds
  <2>6. queue' = queue BY <2>5 DEF Done, Release
  <2>7. Holds(p)' BY <2>4, <2>6 DEF Holds
  <2> QED BY <2>1, <2>2, <2>3, <2>4, <2>7
<1>3. OneHolder' BY <1>2 DEF IInv, OneHolder
<1>4. RowKept'
  <2> SUFFICES ASSUME NEW p \in Presses, Working(p)', job'[p].stage \in {"loaded", "handled", "saved"},
                      p \notin overtaken'
               PROVE  job'[p].row = order'
    BY DEF RowKept
  <2>1. p \notin overtaken BY <1>2 DEF Done
  <2> QED BY <1>2, <2>1 DEF IInv, RowKept
<1> QED BY <1>3, <1>4 DEF IInv

\* One of a web worker that leaves order and queue alone.
LEMMA Outside ==
    ASSUME IInv, TypeOK', NEW a \in Web, Others(a), UNCHANGED <<queue, order, overtaken>>
    PROVE  IInv'
<1>1. \A p \in Presses : p # a /\ p \in Agents BY SentinelAssumption DEF Agents
<1>2. \A p \in Presses : job'[p] = job[p] BY <1>1 DEF Others
<1>3. \A p \in Presses : (Working(p)' <=> Working(p)) /\ (Holds(p)' <=> Holds(p)) BY <1>2 DEF Working, Holds
<1>4. OneHolder' BY <1>2, <1>3 DEF IInv, OneHolder
<1>5. RowKept' BY <1>2, <1>3 DEF IInv, RowKept
<1> QED BY <1>4, <1>5 DEF IInv

-----------------------------------------------------------------------------
(* Type correctness.                                                       *)

LEMMA InJob == ASSUME TypeOK, NEW a \in Agents, NEW S, In(a, S) PROVE job[a] \in Job /\ job[a].stage \in S
BY DEF TypeOK, In

LEMMA GoTyped ==
    ASSUME TypeOK, NEW a \in Agents, job[a] \in Job, NEW mem \in Row, NEW notes \in Seq(Note),
           NEW stage \in Stages, Go(a, mem, notes, stage)
    PROVE  /\ TypeOK' /\ Others(a)
           /\ job'[a] # NoJob /\ job'[a].key = job[a].key /\ job'[a].row = job[a].row
           /\ job'[a].stage \in {stage, "failed"}
<1> DEFINE s == IF Fits(notes) THEN stage ELSE "failed"
           j == [job[a] EXCEPT !.mem = mem, !.stage = s]
<1>1. s \in Stages BY DEF Stages
<1>2. j \in Job BY <1>1, StageChanges
<1>3. j.key = job[a].key /\ j.row = job[a].row /\ j.stage = s BY DEF Job
<1>4. job' = [job EXCEPT ![a] = j] BY DEF Go
<1>5. s \in {stage, "failed"} OBVIOUS
<1> HIDE DEF j, s
<1>6. job' \in [Agents -> Job \cup {NoJob}] /\ Others(a) /\ job'[a] = j BY <1>2, <1>4, JobChanges
<1>7. tele' \in Seq(Note) BY Sent DEF Go
<1>8. TypeOK' BY <1>6, <1>7 DEF TypeOK, Go
<1> QED BY <1>2, <1>3, <1>5, <1>6, <1>8, SentinelAssumption

LEMMA StageTyped ==
    ASSUME TypeOK, NEW a \in Agents, job[a] \in Job, NEW stage \in Stages, job' = [job EXCEPT ![a].stage = stage]
    PROVE  /\ job' \in [Agents -> Job \cup {NoJob}] /\ Others(a)
           /\ job'[a] # NoJob /\ job'[a].key = job[a].key /\ job'[a].row = job[a].row
           /\ job'[a].stage = stage
<1> DEFINE j == [job[a] EXCEPT !.stage = stage]
<1>1. j \in Job BY DEF Job
<1>2. j.key = job[a].key /\ j.row = job[a].row /\ j.stage = stage BY DEF Job
<1>3. job' = [job EXCEPT ![a] = j] OBVIOUS
<1> HIDE DEF j
<1>4. job' \in [Agents -> Job \cup {NoJob}] /\ Others(a) /\ job'[a] = j BY <1>1, <1>3, JobChanges
<1> QED BY <1>1, <1>2, <1>4, SentinelAssumption

LEMMA DoneTyped ==
    ASSUME TypeOK, NEW a \in Agents, Done(a), (a \in Presses /\ job[a].key \in Locked) => queue # <<>>
    PROVE  job' \in [Agents -> Job \cup {NoJob}] /\ queue' \in Seq(Presses) /\ overtaken' \subseteq Agents
<1>1. job' \in [Agents -> Job \cup {NoJob}] BY JobChanges DEF Done
<1>2. queue' \in Seq(Presses)
  <2>1. queue \in Seq(Presses) BY DEF TypeOK
  <2>2. CASE a \in Presses /\ job[a].key \in Locked BY <2>1, <2>2, HeadTail DEF Done, Release
  <2>3. CASE ~(a \in Presses /\ job[a].key \in Locked) BY <2>1, <2>3 DEF Done, Release
  <2> QED BY <2>2, <2>3
<1> QED BY <1>1, <1>2 DEF Done, TypeOK

\* Who has begun to work under the lock can give it back.
LEMMA CanRelease ==
    ASSUME IInv, NEW a \in Agents, job[a] # NoJob,
           job[a].stage # "waiting" \/ (a \in Presses => Holds(a))
    PROVE  (a \in Presses /\ job[a].key \in Locked) => Holds(a) /\ queue # <<>>
BY DEF IInv, OneHolder, Working, Holds

-----------------------------------------------------------------------------
(* The steps.                                                              *)

LEMMA UpdateKeeps == ASSUME IInv, NEW a \in Agents, Update(a) PROVE IInv'
<1>1. TypeOK BY DEF IInv
<1>2. job[a] \in Job /\ job[a].stage = "loaded"
  BY <1>1, InJob DEF Update, Refuse, Same, Busy, PaymentFails, Handle, Ready, Asks
<1>3. job[a].row \in Row /\ job[a].want \in Statuses /\ job[a].prep \in BOOLEAN /\ job[a] # NoJob
  BY <1>2, SentinelAssumption DEF Job
<1>4. \A s \in Statuses : Status(a, s) \in Row BY <1>3 DEF Status, Row
<1>5. ASSUME NEW mem \in Row, NEW notes \in Seq(Note), NEW stage \in {"refused", "same", "handled", "failed"},
             Go(a, mem, notes, stage)
      PROVE  IInv'
  <2>1. stage \in Stages BY DEF Stages
  <2>2. /\ TypeOK' /\ Others(a)
        /\ job'[a] # NoJob /\ job'[a].key = job[a].key /\ job'[a].row = job[a].row
        /\ job'[a].stage \in {stage, "failed"}
    BY <1>1, <1>2, <1>5, <2>1, GoTyped
  <2>3. UNCHANGED <<order, overtaken, queue>> BY <1>5 DEF Go
  <2>4. job'[a].stage \notin {"waiting", "pressed"} BY <2>2
  <2>5. GoesOn(a) BY <1>2, <1>3, <2>2, <2>3, <2>4 DEF GoesOn
  <2> QED BY <2>2, <2>3, <2>5, Onward
<1>6. <<>> \in Seq(Note) /\ Accepted(job[a].prep) \in Seq(Note) /\ edit_msg \in Seq(Note)
      /\ send_message(job[a].want) \in Seq(Note) BY <1>1, <1>3, NotesTyped
<1>7. Accepted(job[a].prep) \o edit_msg \in Seq(Note)
      /\ Accepted(job[a].prep) \o send_message(job[a].want) \in Seq(Note) BY <1>6, Joined
<1>8. "created" \in Statuses /\ "accepted" \in Statuses BY DEF Statuses
<1>9. CASE Refuse(a) BY <1>3, <1>5, <1>6, <1>9 DEF Refuse
<1>10. CASE Same(a) BY <1>3, <1>5, <1>6, <1>10 DEF Same
<1>11. CASE Busy(a) BY <1>4, <1>5, <1>6, <1>8, <1>11 DEF Busy
<1>12. CASE PaymentFails(a) BY <1>4, <1>5, <1>7, <1>8, <1>12 DEF PaymentFails
<1>13. CASE Handle(a) BY <1>3, <1>4, <1>5, <1>7, <1>13 DEF Handle
<1> QED BY <1>9, <1>10, <1>11, <1>12, <1>13 DEF Update

LEMMA StoreKeeps == ASSUME IInv, NEW a \in Agents, Store(a) PROVE IInv'
<1>1. TypeOK BY DEF IInv
<1>2. job[a] \in Job /\ job[a].stage \in {"handled", "saved"} BY <1>1, InJob DEF Store, Save, Commit, Abort
<1>3. job[a] # NoJob /\ job[a].mem \in Row BY <1>2, SentinelAssumption DEF Job
<1>4. "saved" \in Stages /\ "done" \in Stages /\ "failed" \in Stages BY DEF Stages
<1>5. CASE Save(a)
  <2>1. TypeOK' BY <1>1, <1>2, <1>4, <1>5, StageTyped DEF Save, TypeOK, netVars
  <2>2. GoesOn(a) BY <1>1, <1>2, <1>3, <1>4, <1>5, StageTyped DEF Save, GoesOn
  <2> QED BY <1>5, <2>1, <2>2, Onward DEF Save
<1>6. CASE Commit(a)
  <2>1. Overtakes(a) \subseteq Agents BY DEF Overtakes
  <2>2. TypeOK' BY <1>1, <1>2, <1>3, <1>4, <1>6, <2>1, StageTyped DEF Commit, TypeOK, netVars
  <2>3. GoesOn(a) /\ job'[a].stage = "done"
    BY <1>1, <1>2, <1>3, <1>4, <1>6, StageTyped DEF Commit, GoesOn
  <2> QED BY <1>6, <2>2, <2>3, Written DEF Commit
<1>7. CASE Abort(a)
  <2>1. TypeOK' BY <1>1, <1>2, <1>4, <1>7, StageTyped DEF Abort, TypeOK, netVars
  <2>2. GoesOn(a) BY <1>1, <1>2, <1>3, <1>4, <1>7, StageTyped DEF Abort, GoesOn
  <2> QED BY <1>7, <2>1, <2>2, Onward DEF Abort
<1> QED BY <1>5, <1>6, <1>7 DEF Store

LEMMA AssignKeeps == ASSUME IInv, NEW a \in Web, Assign(a) PROVE IInv'
<1> DEFINE ok  == ~order.courier /\ Fits(Courier(TRUE))
           on  == [order EXCEPT !.courier = TRUE]
           s   == IF ok THEN "saved" ELSE "failed"
           j   == [job[a] EXCEPT !.row = order, !.mem = on, !.stage = s]
<1>1. TypeOK /\ a \in Agents BY DEF IInv, Agents
<1>2. job[a] \in Job BY <1>1, InJob DEF Assign
<1>3. order \in Row /\ on \in Row /\ s \in Stages BY <1>1 DEF TypeOK, Row, Stages
<1>4. j \in Job BY <1>2, <1>3, StageChanges
<1>5. job' = [job EXCEPT ![a] = j] BY DEF Assign
<1>6. row_lock' \in Agents \cup {NoOne} BY <1>1 DEF Assign
<1> HIDE DEF j
<1>7. job' \in [Agents -> Job \cup {NoJob}] /\ Others(a) BY <1>1, <1>4, <1>5, JobChanges
<1>8. tele' \in Seq(Note)
  <2>1. <<>> \in Seq(Note) /\ Courier(TRUE) \in Seq(Note) BY <1>1, NotesTyped
  <2> QED BY <1>1, <2>1, Sent DEF Assign
<1>9. TypeOK' BY <1>1, <1>6, <1>7, <1>8 DEF Assign, TypeOK
<1> QED BY <1>7, <1>9, Outside DEF Assign

LEMMA WriteKeeps == ASSUME IInv, NEW a \in Web, Write(a) PROVE IInv'
<1>1. TypeOK /\ a \in Agents BY DEF IInv, Agents
<1>2. job[a] \in Job /\ job[a].stage = "loaded" BY <1>1, InJob DEF Write
<1>3. job[a].row \in Row /\ job[a] # NoJob BY <1>2, SentinelAssumption DEF Job
<1>4. \A mem \in Rewritten(a) : mem \in Row BY <1>3 DEF Rewritten, Row, Statuses
<1>5. PICK mem \in Row : order' = mem /\ job' = [job EXCEPT ![a] = [@ EXCEPT !.mem = mem, !.stage = "done"]]
  BY <1>4 DEF Write
<1> DEFINE j == [job[a] EXCEPT !.mem = mem, !.stage = "done"]
<1>6. j \in Job BY <1>2, StageChanges DEF Stages
<1>7. j.key = job[a].key /\ j.row = job[a].row /\ j.stage = "done" BY <1>2 DEF Job
<1>8. job' = [job EXCEPT ![a] = j] BY <1>5
<1> HIDE DEF j
<1>9. job' \in [Agents -> Job \cup {NoJob}] /\ Others(a) /\ job'[a] = j BY <1>1, <1>6, <1>8, JobChanges
<1>10. Overtakes(a) \subseteq Agents BY DEF Overtakes
<1>11. TypeOK' BY <1>1, <1>5, <1>9, <1>10 DEF Write, TypeOK, netVars
<1>12. GoesOn(a) /\ job'[a].stage = "done" BY <1>2, <1>3, <1>6, <1>7, <1>9, SentinelAssumption DEF GoesOn, Write
<1> QED BY <1>1, <1>11, <1>12, Written DEF Write

\* Answer, Replaced, AnswerAtOnce, FinishPress.
LEMMA EndKeeps ==
    ASSUME IInv, NEW a \in Agents, job[a] # NoJob, Done(a),
           job[a].stage # "waiting" \/ (a \in Presses => Holds(a)),
           UNCHANGED <<terms, order, row_lock, mid, announced, requests, presses>>,
           tele' \in Seq(Note), chat' \in Seq(Keys)
    PROVE  IInv'
<1>1. (a \in Presses /\ job[a].key \in Locked) => Holds(a) /\ queue # <<>> BY CanRelease
<1>2. TypeOK' BY <1>1, DoneTyped DEF IInv, TypeOK
<1> QED BY <1>1, <1>2, Ended

LEMMA AnswersKeep == ASSUME IInv, NEW a \in Web, Answer(a) \/ Replaced(a) PROVE IInv'
<1>1. TypeOK /\ a \in Agents /\ tele \in Seq(Note) /\ chat \in Seq(Keys) BY DEF IInv, TypeOK, Agents
<1>2. job[a] \in Job /\ job[a].stage # "waiting" BY <1>1, InJob DEF Answer, Replaced
<1>3. job[a] # NoJob BY <1>2, SentinelAssumption
<1>4. CASE Answer(a) BY <1>1, <1>2, <1>3, <1>4, EndKeeps DEF Answer, netVars
<1>5. CASE Replaced(a)
  <2>1. job[a].mem.courier \in BOOLEAN BY <1>2 DEF Job, Row
  <2>2. tele' \in Seq(Note) BY <1>1, <1>5, <2>1, NotesTyped, Sent DEF Replaced
  <2> QED BY <1>1, <1>2, <1>3, <1>5, <2>2, EndKeeps DEF Replaced
<1> QED BY <1>4, <1>5

LEMMA PressKeeps ==
    ASSUME IInv, NEW p \in Presses, NEW i \in DOMAIN chat, NEW key \in Buttons, Press(p, i, key)
    PROVE  IInv'
<1> DEFINE j == [via |-> "update", want |-> Wanted(key), prep |-> key = "accept",
                 row |-> order, mem |-> order, key |-> key, msg |-> i,
                 stage |-> IF key \in Locked THEN "waiting" ELSE "pressed"]
<1>1. TypeOK /\ p \in Agents BY DEF IInv, Agents
<1>2. order \in Row /\ i \in Nat /\ queue \in Seq(Presses) BY <1>1 DEF TypeOK
<1>3. Wanted(key) \in Statuses BY DEF Wanted, Statuses
<1>4. j \in Job BY <1>2, <1>3 DEF Job, Vias, Stages
<1>5. job' = [job EXCEPT ![p] = j] BY DEF Press
<1>6. j # NoJob BY <1>4, SentinelAssumption
<1>7. j.key = key /\ j.stage = IF key \in Locked THEN "waiting" ELSE "pressed" OBVIOUS
<1> HIDE DEF j
<1>8. job' \in [Agents -> Job \cup {NoJob}] /\ Others(p) /\ job'[p] = j BY <1>1, <1>4, <1>5, JobChanges
<1>9. queue' \in Seq(Presses) BY <1>2, AppendHead DEF Press
<1>10. \A q \in Presses : Holds(q) => Holds(q)' BY <1>2, AppendHead DEF Press, Holds
<1>11. TypeOK' BY <1>1, <1>8, <1>9 DEF Press, TypeOK, netVars
<1>12. \A q \in Presses : Working(q)' => q # p /\ job'[q] = job[q] /\ Working(q)
  BY <1>6, <1>7, <1>8 DEF Working, Others, Agents
<1>13. OneHolder' BY <1>10, <1>12 DEF IInv, OneHolder
<1>14. RowKept' BY <1>12 DEF IInv, RowKept, Press
<1> QED BY <1>11, <1>13, <1>14 DEF IInv

LEMMA LoadPressKeeps == ASSUME IInv, NEW p \in Presses, LoadPress(p) PROVE IInv'
<1> DEFINE j == [job[p] EXCEPT !.row = order, !.mem = order, !.stage = "loaded"]
<1>1. TypeOK /\ p \in Agents BY DEF IInv, Agents
<1>2. job[p] \in Job /\ job[p] # NoJob BY <1>1, SentinelAssumption DEF TypeOK, LoadPress, Turn, In
<1>3. order \in Row BY <1>1 DEF TypeOK
<1>4. j \in Job BY <1>2, <1>3, StageChanges DEF Stages
<1>5. j.key = job[p].key /\ j.row = order /\ j.stage = "loaded" BY <1>2 DEF Job
<1>6. job' = [job EXCEPT ![p] = j] BY DEF LoadPress
<1> HIDE DEF j
<1>7. job' \in [Agents -> Job \cup {NoJob}] /\ Others(p) /\ job'[p] = j BY <1>1, <1>4, <1>6, JobChanges
<1>8. TypeOK' BY <1>1, <1>7 DEF LoadPress, TypeOK, netVars
<1>9. job[p].key \in Locked => Holds(p)
  BY <1>2 DEF LoadPress, Turn, In, IInv, OneHolder, Working
<1>10. \A q \in Presses : Holds(q)' <=> Holds(q) BY DEF LoadPress, Holds
<1>11. \A q \in Presses \ {p} : job'[q] = job[q] /\ (Working(q)' <=> Working(q))
  BY <1>7 DEF Working, Others, Agents
<1>12. OneHolder' BY <1>5, <1>7, <1>9, <1>10, <1>11 DEF IInv, OneHolder, Working
<1>13. RowKept' BY <1>5, <1>7, <1>11 DEF IInv, RowKept, LoadPress
<1> QED BY <1>8, <1>12, <1>13 DEF IInv

\* The chat keeps its type when a press takes or changes the keyboard it is under.
LEMMA EndOfPress ==
    ASSUME IInv, NEW p \in Presses, FinishPress(p) \/ \E due \in BOOLEAN : AnswerAtOnce(p, due)
    PROVE  IInv'
<1>1. TypeOK /\ p \in Agents BY DEF IInv, Agents
<1>2. job[p] \in Job /\ job[p] # NoJob
  BY <1>1, SentinelAssumption DEF TypeOK, FinishPress, AnswerAtOnce, Turn, In
<1>3. chat \in Seq(Keys) /\ tele \in Seq(Note) /\ job[p].msg \in Nat BY <1>1, <1>2 DEF TypeOK, Job
<1>4. Done(p) /\ UNCHANGED <<terms, order, row_lock, tele, mid, announced, requests, presses>>
  BY DEF FinishPress, AnswerAtOnce
<1>5. tele' \in Seq(Note) BY <1>3, <1>4
<1>6. CASE FinishPress(p)
  <2>1. job[p].stage # "waiting" BY <1>6 DEF FinishPress, In
  <2>2. job[p].msg \in DOMAIN chat => chat[job[p].msg] \in Keys BY <1>3, ElementOf
  <2>3. job[p].msg \in DOMAIN chat => Left(p) \in Keys BY <2>2 DEF Left, Keys
  <2>4. [chat EXCEPT ![job[p].msg] = Left(p)] \in Seq(Keys) BY <1>3, <2>3, Marked
  <2>5. chat' \in Seq(Keys) BY <1>3, <1>6, <2>4 DEF FinishPress
  <2> QED BY <1>1, <1>2, <1>4, <1>5, <2>1, <2>5, EndKeeps
<1>7. ASSUME NEW due \in BOOLEAN, AnswerAtOnce(p, due) PROVE IInv'
  <2>1. job[p].key \in Locked => Holds(p)
    BY <1>2, <1>7 DEF AnswerAtOnce, Turn, In, IInv, OneHolder, Working
  <2>2. job[p].stage # "waiting" \/ Holds(p) BY <1>7 DEF AnswerAtOnce, Turn, In
  <2>3. "none" \in Keys BY DEF Keys
  <2>4. [chat EXCEPT ![job[p].msg] = "none"] \in Seq(Keys) BY <1>3, <2>3, Marked
  <2>5. chat' \in Seq(Keys) BY <1>3, <1>7, <2>4 DEF AnswerAtOnce
  <2> QED BY <1>1, <1>2, <1>4, <1>5, <2>2, <2>5, EndKeeps
<1> QED BY <1>6, <1>7

\* The chat and its channel.
LEMMA ChannelKeeps == ASSUME IInv, Announce \/ Deliver \/ EditDelivered \/ Lose PROVE IInv'
<1>1. TypeOK BY DEF IInv
<1>2. chat \in Seq(Keys) /\ tele \in Seq(Note) /\ mid \in Nat BY <1>1 DEF TypeOK
<1>3. tele # <<>> => Head(tele) \in Note /\ Tail(tele) \in Seq(Note) BY <1>2, HeadTail
<1>4. TypeOK'
  <2>1. CASE Announce
    <3>1. <<[kind |-> "new", keys |-> "accept", mid |-> 0]>> \in Seq(Note)
      <4>1. [kind |-> "new", keys |-> "accept", mid |-> 0] \in Note BY DEF Note, Keys
      <4> QED BY <4>1
    <3>2. tele' \in Seq(Note) BY <1>1, <2>1, <3>1, Sent DEF Announce
    <3> QED BY <1>1, <2>1, <3>2 DEF Announce, TypeOK
  <2>2. CASE Deliver
    <3> DEFINE k == IF terms.buttons THEN Head(tele).keys ELSE "none"
    <3>1. k \in Keys BY <1>3, <2>2 DEF Deliver, Note, Keys
    <3>2. chat' = Append(chat, k) BY <2>2 DEF Deliver
    <3> HIDE DEF k
    <3>3. chat' \in Seq(Keys) BY <1>2, <3>1, <3>2, AppendHead
    <3>4. mid' \in Nat BY <1>2, <2>2 DEF Deliver
    <3> QED BY <1>1, <1>3, <2>2, <3>3, <3>4 DEF Deliver, TypeOK
  <2>3. CASE EditDelivered
    <3>1. "none" \in Keys /\ Head(tele).mid \in Nat BY <1>3, <2>3 DEF EditDelivered, Note, Keys
    <3>2. [chat EXCEPT ![Head(tele).mid] = "none"] \in Seq(Keys) BY <1>2, <3>1, Marked
    <3>3. chat' \in Seq(Keys) BY <1>2, <2>3, <3>2 DEF EditDelivered
    <3> QED BY <1>1, <1>3, <2>3, <3>3 DEF EditDelivered, TypeOK
  <2>4. CASE Lose BY <1>1, <1>3, <2>4 DEF Lose, TypeOK
  <2> QED BY <2>1, <2>2, <2>3, <2>4
<1>5. UNCHANGED <<job, queue, order, overtaken>> BY DEF Announce, Deliver, EditDelivered, Lose
<1> QED BY <1>4, <1>5, Elsewhere

LEMMA LoadKeeps == ASSUME IInv, NEW a \in Web, NEW r \in Requests, Load(a, r) PROVE IInv'
<1> DEFINE j == [via |-> r.via, want |-> r.want, prep |-> r.prep, row |-> order,
                 mem |-> order, stage |-> "loaded", key |-> "status", msg |-> 0]
<1>1. TypeOK /\ a \in Agents BY DEF IInv, Agents
<1>2. order \in Row /\ r \in Input BY <1>1, InputAssumption DEF TypeOK
<1>3. j \in Job BY <1>2 DEF Job, Input, Stages, Buttons
<1>4. job' = [job EXCEPT ![a] = j] BY DEF Load
<1> HIDE DEF j
<1>5. job' \in [Agents -> Job \cup {NoJob}] /\ Others(a) BY <1>1, <1>3, <1>4, JobChanges
<1>6. TypeOK' BY <1>1, <1>5 DEF Load, TypeOK, netVars
<1> QED BY <1>5, <1>6, Outside DEF Load

LEMMA Inductive == IInv /\ [Next]_vars => IInv'
<1> SUFFICES ASSUME IInv, [Next]_vars PROVE IInv' OBVIOUS
<1>1. ASSUME NEW a \in Web, WebStep(a) PROVE IInv'
  <2>1. a \in Agents BY DEF Agents
  <2> QED BY <1>1, <2>1, UpdateKeeps, StoreKeeps, AssignKeeps, WriteKeeps, AnswersKeep DEF WebStep
<1>2. ASSUME NEW a \in Web, NEW r \in Requests, Load(a, r) PROVE IInv' BY <1>2, LoadKeeps
<1>3. ASSUME NEW p \in Presses, BotStep(p) PROVE IInv'
  <2>1. p \in Agents BY DEF Agents
  <2> QED BY <1>3, <2>1, UpdateKeeps, StoreKeeps, LoadPressKeeps, EndOfPress DEF BotStep
<1>4. ASSUME NEW p \in Presses, NEW i \in DOMAIN chat, NEW key \in Buttons, Press(p, i, key) PROVE IInv'
  BY <1>4, PressKeeps
<1>5. CASE Announce \/ Deliver \/ EditDelivered \/ Lose BY <1>5, ChannelKeeps
<1>6. CASE UNCHANGED vars
  <2>1. TypeOK' BY <1>6 DEF IInv, TypeOK, vars, netVars
  <2> QED BY <1>6, <2>1, Elsewhere DEF vars
<1> QED BY <1>1, <1>2, <1>3, <1>4, <1>5, <1>6 DEF Next

-----------------------------------------------------------------------------
(* The theorems.                                                           *)

\* Every reachable state is well typed, under the inductive invariant.
THEOREM TypeCorrect == Spec => []TypeOK
<1>1. IInv => TypeOK BY DEF IInv
<1> QED BY Initially, Inductive, <1>1, PTL DEF Spec

\* Presses of the buttons with a lock never work on the same row: what one
\* writes replaces what it loaded, unless somebody without the lock wrote.
THEOREM LocksExclude == Spec => LockedPresses
<1>1. IInv /\ [Next]_vars
      => [\A p \in Presses :
            (Commit(p) /\ job[p].key \in Locked /\ p \notin overtaken) => order = job[p].row]_vars
  <2> SUFFICES ASSUME IInv, NEW p \in Presses, Commit(p), job[p].key \in Locked, p \notin overtaken
               PROVE  order = job[p].row
    OBVIOUS
  <2>1. Working(p) /\ job[p].stage = "saved" BY DEF Commit, In, Working
  <2> QED BY <2>1 DEF IInv, RowKept
<1> QED BY Initially, Inductive, <1>1, PTL DEF Spec, LockedPresses
=============================================================================
