------------------------- MODULE Institution_proofs -------------------------
(***************************************************************************)
(* Theorems about Storefront, for any branches, hours, days and requests,  *)
(* and about Catalogue, for any products, branches, categories and items   *)
(* and any number of requests and imports.                                 *)
(***************************************************************************)
EXTENDS Storefront, Catalogue, SequenceTheorems, WellFoundedInduction, TLAPS

-----------------------------------------------------------------------------
(* Storefront: what requests know.                                         *)

\* A request between its load and its end says what it will write.
Writes(jb) ==
    jb.at \in {"week", "save"} =>
        /\ jb.op \in {"institution", "branch", "hours", "week", "day"}
        /\ jb.op # "institution" => jb.b \in Branches
Requests == \A j \in Jobs : Writes(job[j])

Types == TypeOK /\ Requests

-----------------------------------------------------------------------------
(* The queries, in a well-typed state.                                     *)

\* The hours of a day, before and after midnight, against what they mean.
LEMMA TypesGiveHours == TypeOK => HoursAgree
<1> SUFFICES ASSUME TypeOK, NEW b \in Branches, Today(b).made, Today(b).active,
                    schedule[b][Yesterday] = Today(b)
             PROVE  OpenBySchedule(b) <=> Reference(b)
  BY DEF HoursAgree
<1> DEFINE s == Today(b).hours.start
           e == Today(b).hours.end
           t == clock.time
<1>1. Today(b) \in DayRow BY DEF TypeOK, Today
<1>2. s \in Time /\ e \in Time /\ t \in Time BY <1>1 DEF TypeOK, DayRow, Hours
<1>3. OpenBySchedule(b) <=> (s < e /\ s <= t /\ t <= e) \/ (s > e /\ (s <= t \/ t <= e))
  BY DEF OpenBySchedule, NormalHours, OvernightHours
<1>4. Reference(b) <=> OpenSince(Today(b), t - s) \/ OpenSince(Today(b), t + Moments - s)
  BY DEF Reference, Today
<1>5. Length(Today(b).hours) = IF s <= e THEN e - s ELSE e + Moments - s BY DEF Length
<1>6. \A m : OpenSince(Today(b), m) <=> s # e /\ m \in 0 .. (IF s <= e THEN e - s ELSE e + Moments - s)
  BY <1>5 DEF OpenSince
<1> HIDE DEF s, e, t
<1>7. Moments \in Nat \ {0} BY StorefrontAssumption
<1> QED BY <1>2, <1>3, <1>4, <1>6, <1>7 DEF Time

\* Some branch of a non-empty set is the closest.
LEMMA ClosestIsIn ==
    ASSUME NEW S \in SUBSET Branches, S # {}, NEW distance \in [Branches -> Nat]
    PROVE  /\ Closest(S, distance) \in S
           /\ \A c \in S : distance[Closest(S, distance)] <= distance[c]
<1> DEFINE R == OpToRel(<, Nat)
           D == {distance[b] : b \in S}
<1>2. IsWellFoundedOn(R, Nat) BY NatLessThanWellFounded
<1>3. \A i, k \in Nat : k < i => <<k, i>> \in R BY DEF OpToRel
<1> HIDE DEF R
<1>1. D \subseteq Nat /\ D # {} OBVIOUS
<1>4. \E i \in D : \A k \in D : ~(<<k, i>> \in R)
  <2> HIDE DEF D
  <2> QED BY <1>1, <1>2, WFMin
<1>5. \E b \in S : \A c \in S : distance[b] <= distance[c]
  <2>1. PICK i \in D : \A k \in D : ~(<<k, i>> \in R) BY <1>4
  <2>2. \A k \in D : ~(k < i) BY <1>1, <1>3, <2>1
  <2>3. PICK b \in S : i = distance[b] BY <2>1
  <2>4. ASSUME NEW c \in S PROVE distance[b] <= distance[c]
    <3>1. distance[c] \in D /\ distance[c] \in Nat /\ distance[b] \in Nat OBVIOUS
    <3> HIDE DEF D
    <3> QED BY <2>2, <2>3, <3>1
  <2> QED BY <2>4
<1> QED BY <1>5 DEF Closest

LEMMA ClosestOfNone ==
    ASSUME NEW S \in SUBSET Branches, NEW distance \in [Branches -> Nat]
    PROVE  Closest(S, distance) # None <=> S # {}
<1>1. None \notin Branches BY StorefrontAssumption
<1>2. CASE S = {} BY <1>2 DEF Closest
<1>3. CASE S # {} BY <1>1, <1>3, ClosestIsIn
<1> QED BY <1>2, <1>3

\* The branches an order may go to.
Suited == {b \in Branches : Available(b) /\ branch[b].open /\ branch[b].address /\ OpenBySchedule(b)}

LEMMA SuitableIs ==
    /\ Suitable # None <=> Suited # {}
    /\ Suitable # None => Suitable \in Suited /\ \A c \in Suited : Metres[Suitable] <= Metres[c]
<1>1. Suitable = Closest(Suited, Metres) BY DEF Suitable, Suited
<1>2. Suited \in SUBSET Branches BY DEF Suited
<1>3. Metres \in [Branches -> Nat] BY StorefrontAssumption
<1> QED BY <1>1, <1>2, <1>3, ClosestIsIn, ClosestOfNone

LEMMA MenuBranchIs ==
    LET working == {b \in Branches : Available(b) /\ branch[b].open} IN
    /\ MenuBranch # None <=> working # {}
    /\ MenuBranch # None => MenuBranch \in working
<1> DEFINE working == {b \in Branches : Available(b) /\ branch[b].open}
           placed  == {b \in working : branch[b].address}
           first   == IF placed # {} THEN placed ELSE working
<1>1. MenuBranch = Closest(first, Degrees) BY DEF MenuBranch
<1>2. Degrees \in [Branches -> Nat] BY StorefrontAssumption
<1>3. first \in SUBSET Branches /\ first \subseteq working /\ (first # {} <=> working # {})
  OBVIOUS
<1> HIDE DEF first
<1> QED BY <1>1, <1>2, <1>3, ClosestIsIn, ClosestOfNone

LEMMA AnotherIs ==
    Another # None => Another \in Branches /\ branch[Another].made
<1> DEFINE working == {b \in Branches : Available(b) /\ branch[b].open /\ branch[b].address}
           S == IF working # {} THEN working
                ELSE {b \in Branches : branch[b].made /\ branch[b].address}
<1>1. Another = Closest(S, Metres) BY DEF Another
<1>2. Metres \in [Branches -> Nat] BY StorefrontAssumption
<1>3. S \in SUBSET Branches /\ \A b \in S : branch[b].made BY DEF Available
<1>4. Another # None => S # {} /\ Another \in S
  <2> HIDE DEF S
  <2> QED BY <1>1, <1>2, <1>3, ClosestIsIn, ClosestOfNone
<1> QED BY <1>3, <1>4

\* What one branch puts in the place of the flags.
Shown == IF Suitable # None THEN Suitable ELSE Another

LEMMA RepresentIs ==
    ASSUME NEW flag \in BOOLEAN, Shown # None, Today(Shown).made
    PROVE  ShowsOpen(Represent(flag)) <=>
             /\ institution.open /\ branch[Shown].open /\ Today(Shown).active
             /\ Suitable # None /\ HasActiveBranch
BY DEF Represent, ShowsOpen, Shown

LEMMA TypesGiveAnswer == TypeOK => OneAnswer
<1> SUFFICES ASSUME TypeOK PROVE OneAnswer OBVIOUS
<1>0. SomeBranchBySchedule \in BOOLEAN /\ AnyBranchBySchedule \in BOOLEAN
  BY DEF SomeBranchBySchedule, AnyBranchBySchedule
<1>1. ASSUME Complete, ListShowsOpen
      PROVE  SearchShowsOpen /\ BannerShowsOpen /\ MenuBranch # None /\ OrderBranch # None
  <2>1. Listed /\ ShowsOpen(Represent(SomeBranchBySchedule)) BY <1>1 DEF ListShowsOpen
  <2>2. Shown # None BY <2>1 DEF Represent, ShowsOpen, Shown
  <2>3. Shown \in Branches /\ branch[Shown].made
    BY <2>2, SuitableIs, AnotherIs DEF Shown, Suited, Available
  <2>4. clock.day \in Day BY DEF TypeOK
  <2>5. Today(Shown).made BY <1>1, <2>3, <2>4 DEF Complete, Today
  <2>6. /\ institution.open /\ branch[Shown].open /\ Today(Shown).active
        /\ Suitable # None /\ HasActiveBranch
    BY <1>0, <2>1, <2>2, <2>5, RepresentIs
  <2>7. Suitable \in Suited BY <2>6, SuitableIs
  <2>8. AnyBranchBySchedule BY <2>6, <2>7 DEF AnyBranchBySchedule, Suited, Available
  <2>9. ShowsOpen(Represent(AnyBranchBySchedule)) BY <1>0, <2>2, <2>5, <2>6, RepresentIs
  <2>10. MenuBranch # None BY <2>7, MenuBranchIs DEF Suited
  <2> QED BY <2>1, <2>6, <2>8, <2>9, <2>10 DEF SearchShowsOpen, BannerShowsOpen, OrderBranch, Listed
<1>2. ASSUME Listed, institution.open, OrderBranch # None PROVE ListShowsOpen
  <2>1. Suitable # None BY <1>2 DEF OrderBranch
  <2>2. Suitable \in Suited BY <2>1, SuitableIs
  <2>3. Shown = Suitable BY <2>1 DEF Shown
  <2>4. Today(Shown).made /\ Today(Shown).active /\ branch[Shown].open
    BY <2>2, <2>3 DEF Suited, OpenBySchedule
  <2>5. HasActiveBranch BY <1>2, <2>2 DEF HasActiveBranch, Suited
  <2>6. ShowsOpen(Represent(SomeBranchBySchedule))
    BY <1>0, <1>2, <2>1, <2>3, <2>4, <2>5, RepresentIs
  <2> QED BY <1>2, <2>6 DEF ListShowsOpen
<1>3. ASSUME MenuBranch # None, branch[MenuBranch].address, OpenBySchedule(MenuBranch),
             \A b \in Branches : Metres[MenuBranch] <= Metres[b] \/ ~Available(b)
      PROVE  Menu \subseteq SoldToOrder
  <2>1. MenuBranch \in Suited BY <1>3, MenuBranchIs DEF Suited
  <2>2. Suitable \in Suited /\ Metres[Suitable] <= Metres[MenuBranch] BY <2>1, SuitableIs
  <2>3. Suitable \in Branches /\ MenuBranch \in Branches /\ Available(Suitable)
    BY <2>1, <2>2 DEF Suited
  <2>4. Metres[MenuBranch] <= Metres[Suitable] BY <1>3, <2>3
  <2>5. Metres \in [Branches -> Nat] /\ \A b, c \in Branches : b # c => Metres[b] # Metres[c]
    BY StorefrontAssumption
  <2>6. Suitable = MenuBranch BY <2>2, <2>3, <2>4, <2>5
  <2> QED BY <1>3, <2>6 DEF Menu, SoldToOrder, OrderBranch
<1> QED BY <1>1, <1>2, <1>3 DEF OneAnswer

-----------------------------------------------------------------------------
(* Types.                                                                  *)

Asked == [institution : Institution, branch : [Branches -> Branch],
          schedule : [Branches -> [Day -> DayRow]]]

\* What another request may be asked for is a row of the table.
LEMMA AskedChanges ==
    ASSUME NEW a \in Asked, NEW b \in Branches
    PROVE  /\ \A row \in Institution : [a EXCEPT !.institution = row] \in Asked
           /\ \A row \in Branch : [a EXCEPT !.branch = [@ EXCEPT ![b] = row]] \in Asked
           /\ \A week \in [Day -> DayRow] : [a EXCEPT !.schedule = [@ EXCEPT ![b] = week]] \in Asked
BY DEF Asked

LEMMA Constants ==
    /\ 0 \in Day /\ 0 \in Time /\ Default \in Hours /\ Gone \in Branch
    /\ NoDay \in DayRow /\ NewDay \in DayRow /\ Schedules \subseteq Hours
    /\ \A row \in DayRow : \A hours \in Hours : [row EXCEPT !.hours = hours] \in DayRow
<1>1. Days \in Nat \ {0} /\ Moments \in Nat \ {0} BY StorefrontAssumption
<1>2. 0 \in Day /\ 0 \in Time /\ Moments - 1 \in Time BY <1>1 DEF Day, Time
<1>3. Default \in Hours BY <1>2 DEF Default, Hours
<1>4. NoDay \in DayRow /\ NewDay \in DayRow BY <1>3 DEF NoDay, NewDay, DayRow
<1>5. Gone \in Branch BY DEF Gone, Branch
<1>6. \A row \in DayRow : \A hours \in Hours : [row EXCEPT !.hours = hours] \in DayRow
  BY DEF DayRow
<1> QED BY <1>2, <1>3, <1>4, <1>5, <1>6, StorefrontAssumption

LEMMA IdleJob == Idle \in Job /\ Idle.at = "idle"
<1>1. [d \in Day |-> NoDay] \in [Day -> DayRow] BY Constants
<1>2. [open |-> FALSE, state |-> "off"] \in Institution BY DEF Institution
<1> QED BY <1>1, <1>2, Constants DEF Idle, Job, Ops

\* Jobs as they are begun and go on.
LEMMA JobChanges ==
    ASSUME NEW jb \in Job
    PROVE  /\ [jb EXCEPT !.at = "save"] \in Job
           /\ [jb EXCEPT !.at = "done"] \in Job
           /\ [jb EXCEPT !.at = "dead"] \in Job
           /\ \A week \in [Day -> DayRow] : [jb EXCEPT !.at = "save", !.week = week] \in Job
           /\ \A todo \in SUBSET Day : [jb EXCEPT !.todo = todo, !.at = "save"] \in Job
           /\ \A todo \in SUBSET Day : [jb EXCEPT !.todo = todo, !.at = "done"] \in Job
BY DEF Job

LEMMA Begins ==
    ASSUME NEW b \in Branches
    PROVE  /\ \A row \in Institution :
                LET jb == [Starts("institution", "save") EXCEPT !.institution = row]
                IN  jb \in Job /\ Writes(jb)
           /\ \A row \in Branch :
                LET jb == [Starts("branch", "save") EXCEPT !.b = b, !.branch = row]
                IN  jb \in Job /\ Writes(jb)
           /\ \A row \in Branch, hours \in Hours :
                LET jb == [Starts("hours", "week") EXCEPT !.b = b, !.branch = row, !.hours = hours]
                IN  jb \in Job /\ Writes(jb)
           /\ \A days \in SUBSET Day, hours \in Hours :
                LET jb == [Starts("week", "save") EXCEPT !.b = b, !.todo = days, !.hours = hours]
                IN  jb \in Job /\ Writes(jb)
           /\ \A d \in Day, row \in DayRow :
                LET jb == [Starts("day", "save") EXCEPT !.b = b, !.d = d, !.day = row]
                IN  jb \in Job /\ Writes(jb)
<1>1. \A op \in Ops, at \in {"week", "save"} :
        Starts(op, at) \in Job /\ Starts(op, at).op = op /\ Starts(op, at).at = at
  BY IdleJob DEF Starts, Job
<1>3. {"institution", "branch", "hours", "week", "day"} \subseteq Ops BY DEF Ops
<1>4. \A jb1 \in Job : \A row \in Institution :
        LET k == [jb1 EXCEPT !.institution = row]
        IN  k \in Job /\ k.op = jb1.op /\ k.at = jb1.at
  BY DEF Job
<1>5. \A jb1 \in Job : \A row \in Branch :
        LET k == [jb1 EXCEPT !.b = b, !.branch = row]
        IN  k \in Job /\ k.b = b /\ k.op = jb1.op /\ k.at = jb1.at
  BY DEF Job
<1>6. \A jb1 \in Job : \A row \in Branch, hours \in Hours :
        LET k == [jb1 EXCEPT !.b = b, !.branch = row, !.hours = hours]
        IN  k \in Job /\ k.b = b /\ k.op = jb1.op /\ k.at = jb1.at
  BY DEF Job
<1>7. \A jb1 \in Job : \A days \in SUBSET Day, hours \in Hours :
        LET k == [jb1 EXCEPT !.b = b, !.todo = days, !.hours = hours]
        IN  k \in Job /\ k.b = b /\ k.op = jb1.op /\ k.at = jb1.at
  BY DEF Job
<1>8. \A jb1 \in Job : \A d \in Day, row \in DayRow :
        LET k == [jb1 EXCEPT !.b = b, !.d = d, !.day = row]
        IN  k \in Job /\ k.b = b /\ k.op = jb1.op /\ k.at = jb1.at
  BY DEF Job
<1>14. \A k : k.op \in {"institution", "branch", "hours", "week", "day"} /\ k.b = b => Writes(k)
  BY DEF Writes
<1>9. \A row \in Institution :
        LET k == [Starts("institution", "save") EXCEPT !.institution = row] IN k \in Job /\ Writes(k)
  BY <1>1, <1>3, <1>4 DEF Writes
<1>10. ASSUME NEW row \in Branch
       PROVE  LET k == [Starts("branch", "save") EXCEPT !.b = b, !.branch = row] IN k \in Job /\ Writes(k)
  <2> DEFINE k == [Starts("branch", "save") EXCEPT !.b = b, !.branch = row]
  <2>1. k \in Job /\ k.b = b /\ k.op = "branch"
    <3>1. Starts("branch", "save") \in Job /\ Starts("branch", "save").op = "branch" BY <1>1, <1>3
    <3> QED BY <3>1, <1>5
  <2>2. k \in Job /\ Writes(k)
    <3> HIDE DEF k
    <3> QED BY <1>14, <2>1
  <2> QED BY <2>2
<1>11. ASSUME NEW row \in Branch, NEW hours \in Hours
       PROVE  LET k == [Starts("hours", "week") EXCEPT !.b = b, !.branch = row, !.hours = hours]
              IN  k \in Job /\ Writes(k)
  <2> DEFINE k == [Starts("hours", "week") EXCEPT !.b = b, !.branch = row, !.hours = hours]
  <2>1. k \in Job /\ k.b = b /\ k.op = "hours"
    <3>1. Starts("hours", "week") \in Job /\ Starts("hours", "week").op = "hours" BY <1>1, <1>3
    <3> QED BY <3>1, <1>6
  <2>2. k \in Job /\ Writes(k)
    <3> HIDE DEF k
    <3> QED BY <1>14, <2>1
  <2> QED BY <2>2
<1>12. ASSUME NEW days \in SUBSET Day, NEW hours \in Hours
       PROVE  LET k == [Starts("week", "save") EXCEPT !.b = b, !.todo = days, !.hours = hours]
              IN  k \in Job /\ Writes(k)
  <2> DEFINE k == [Starts("week", "save") EXCEPT !.b = b, !.todo = days, !.hours = hours]
  <2>1. k \in Job /\ k.b = b /\ k.op = "week"
    <3>1. Starts("week", "save") \in Job /\ Starts("week", "save").op = "week" BY <1>1, <1>3
    <3> QED BY <3>1, <1>7
  <2>2. k \in Job /\ Writes(k)
    <3> HIDE DEF k
    <3> QED BY <1>14, <2>1
  <2> QED BY <2>2
<1>13. ASSUME NEW d \in Day, NEW row \in DayRow
       PROVE  LET k == [Starts("day", "save") EXCEPT !.b = b, !.d = d, !.day = row]
              IN  k \in Job /\ Writes(k)
  <2> DEFINE k == [Starts("day", "save") EXCEPT !.b = b, !.d = d, !.day = row]
  <2>1. k \in Job /\ k.b = b /\ k.op = "day"
    <3>1. Starts("day", "save") \in Job /\ Starts("day", "save").op = "day" BY <1>1, <1>3
    <3> QED BY <3>1, <1>8
  <2>2. k \in Job /\ Writes(k)
    <3> HIDE DEF k
    <3> QED BY <1>14, <2>1
  <2> QED BY <2>2
<1> QED BY <1>9, <1>10, <1>11, <1>12, <1>13

\* If a step replaces one request by another that is well formed, all are.
LEMMA JobKept ==
    ASSUME Types, NEW j \in Jobs, NEW jb \in Job, Writes(jb), job' = [job EXCEPT ![j] = jb]
    PROVE  job' \in [Jobs -> Job] /\ Requests'
BY DEF Types, TypeOK, Requests, Writes

LEMMA Going ==
    ASSUME Types, NEW j \in Jobs, NEW at \in {"done", "dead"}, Goes(j, at)
    PROVE  job' \in [Jobs -> Job] /\ Requests'
<1> DEFINE jb == [job[j] EXCEPT !.at = at]
<1>1. job[j] \in Job BY DEF Types, TypeOK
<1>2. jb \in Job BY <1>1, JobChanges
<1>3. jb.at = at BY <1>1 DEF Job
<1>4. job' = [job EXCEPT ![j] = jb] BY DEF Goes
<1> HIDE DEF jb
<1>5. Writes(jb) BY <1>3 DEF Writes
<1> QED BY <1>2, <1>4, <1>5, JobKept

\* All but the clock and the crossed rows.
Typed ==
    /\ institution \in Institution
    /\ branch \in [Branches -> Branch]
    /\ schedule \in [Branches -> [Day -> DayRow]]
    /\ sold \in [Branches -> SUBSET Products]
    /\ asked \in Asked
    /\ job \in [Jobs -> Job]
    /\ Requests

LEMMA StepTyped ==
    ASSUME Types, NEW j \in Jobs, Step(j)
    PROVE  Typed'
<1> USE DEF Asked
<1>0. /\ institution \in Institution /\ branch \in [Branches -> Branch]
      /\ schedule \in [Branches -> [Day -> DayRow]] /\ sold \in [Branches -> SUBSET Products]
      /\ asked \in Asked /\ job[j] \in Job /\ job \in [Jobs -> Job] /\ Writes(job[j])
  BY DEF Types, TypeOK, Requests
<1> HIDE DEF Asked
<1>1. ASSUME NEW row \in Institution, LoadInstitution(j, row) PROVE Typed'
  <2>1. CASE Branches = {}
    <3>1. asked' \in Asked BY <1>0, <1>1 DEF LoadInstitution, Asked
    <3>2. [Starts("institution", "save") EXCEPT !.institution = row] \in Job
      BY IdleJob DEF Starts, Job, Ops
    <3>3. [Starts("institution", "save") EXCEPT !.institution = row].op = "institution"
      BY IdleJob DEF Starts, Job
    <3>4. job' \in [Jobs -> Job] /\ Requests'
      BY <1>1, <3>2, <3>3, JobKept DEF LoadInstitution, Writes
    <3> QED BY <1>0, <1>1, <3>1, <3>4 DEF LoadInstitution, table, Typed
  <2>2. ASSUME NEW b \in Branches PROVE Typed'
    <3>1. asked' \in Asked BY <1>0, <1>1, AskedChanges DEF LoadInstitution
    <3>2. job' \in [Jobs -> Job] /\ Requests' BY <1>1, Begins, JobKept DEF LoadInstitution
    <3> QED BY <1>0, <1>1, <3>1, <3>2 DEF LoadInstitution, table, Typed
  <2> QED BY <2>1, <2>2
<1>2. ASSUME SaveInstitution(j) PROVE Typed'
  <2>1. job' \in [Jobs -> Job] /\ Requests' BY <1>2, Going DEF SaveInstitution
  <2>2. institution' \in Institution BY <1>0, <1>2 DEF SaveInstitution, Job
  <2> QED BY <1>0, <1>2, <2>1, <2>2 DEF SaveInstitution, Typed
<1>3. ASSUME DeleteCategory(j) PROVE Typed'
  <2>1. job' \in [Jobs -> Job] /\ Requests' BY <1>3, Going DEF DeleteCategory
  <2>2. institution' \in Institution BY <1>0, <1>3 DEF DeleteCategory, Institution
  <2>3. asked' \in Asked BY <1>0, <1>3 DEF DeleteCategory, Asked, Institution
  <2> QED BY <1>0, <1>3, <2>1, <2>2, <2>3 DEF DeleteCategory, Typed
<1>4. ASSUME NEW b \in Branches, NEW open \in BOOLEAN, NEW address \in BOOLEAN,
             LoadBranch(j, b, open, address)
      PROVE  Typed'
  <2> DEFINE row == [branch[b] EXCEPT !.open = open, !.address = address]
  <2>1. row \in Branch BY <1>0 DEF Branch
  <2>2. asked' = [asked EXCEPT !.branch = [@ EXCEPT ![b] = row]] BY <1>0, <1>4 DEF LoadBranch, Asked
  <2>3. job' = [job EXCEPT ![j] = [Starts("branch", "save") EXCEPT !.b = b, !.branch = row]]
    BY <1>4 DEF LoadBranch
  <2> HIDE DEF row
  <2>4. asked' \in Asked BY <1>0, <2>1, <2>2, AskedChanges
  <2>5. job' \in [Jobs -> Job] /\ Requests' BY <2>1, <2>3, Begins, JobKept
  <2> QED BY <1>0, <1>4, <2>4, <2>5 DEF LoadBranch, table, Typed
<1>5. ASSUME SaveBranch(j) PROVE Typed'
  <2>1. job' \in [Jobs -> Job] /\ Requests' BY <1>5, Going DEF SaveBranch
  <2>2. branch' \in [Branches -> Branch] BY <1>0, <1>5 DEF SaveBranch, Job
  <2> QED BY <1>0, <1>5, <2>1, <2>2 DEF SaveBranch, Typed
<1>6. ASSUME NEW b \in Branches, RemoveBranch(j, b) PROVE Typed'
  <2>1. job' \in [Jobs -> Job] /\ Requests' BY <1>6, Going DEF RemoveBranch
  <2>2. /\ branch' \in [Branches -> Branch] /\ schedule' \in [Branches -> [Day -> DayRow]]
        /\ sold' \in [Branches -> SUBSET Products]
    BY <1>0, <1>6, Constants DEF RemoveBranch
  <2>3. asked' \in Asked
    <3>1. asked' = [asked EXCEPT !.branch = [@ EXCEPT ![b] = Gone],
                                 !.schedule = [@ EXCEPT ![b] = schedule'[b]]]
      BY <1>0, <1>6 DEF RemoveBranch, Asked
    <3>2. schedule'[b] \in [Day -> DayRow] BY <2>2
    <3> QED BY <1>0, <3>1, <3>2, Constants DEF Asked
  <2> QED BY <1>0, <1>6, <2>1, <2>2, <2>3 DEF RemoveBranch, Typed
<1>7. ASSUME NEW b \in Branches, NEW open \in BOOLEAN, NEW active \in BOOLEAN,
             NEW hours \in Schedules, LoadHours(j, b, open, active, hours)
      PROVE  Typed'
  <2> DEFINE row == [branch[b] EXCEPT !.open = open, !.active = active]
             week == [d \in Day |-> [schedule[b][d] EXCEPT !.hours =
                                       IF schedule[b][d].made THEN hours ELSE @]]
  <2>0. hours \in Hours BY Constants
  <2>1. row \in Branch BY <1>0 DEF Branch
  <2>2. week \in [Day -> DayRow]
    <3> SUFFICES ASSUME NEW d \in Day
                 PROVE  [schedule[b][d] EXCEPT !.hours = IF schedule[b][d].made THEN hours ELSE @] \in DayRow
      OBVIOUS
    <3>1. schedule[b][d] \in DayRow BY <1>0
    <3> QED BY <2>0, <3>1 DEF DayRow
  <2>3. asked' = [asked EXCEPT !.branch = [@ EXCEPT ![b] = row], !.schedule = [@ EXCEPT ![b] = week]]
    BY <1>0, <1>7 DEF LoadHours, Asked
  <2>4. job' = [job EXCEPT ![j] = [Starts("hours", "week") EXCEPT
                  !.b = b, !.branch = row, !.hours = hours]]
    BY <1>7 DEF LoadHours
  <2> HIDE DEF row, week
  <2>5. asked' \in Asked BY <1>0, <2>1, <2>2, <2>3 DEF Asked
  <2>6. job' \in [Jobs -> Job] /\ Requests' BY <2>0, <2>1, <2>4, Begins, JobKept
  <2> QED BY <1>0, <1>7, <2>5, <2>6 DEF LoadHours, table, Typed
<1>8. ASSUME ReadWeek(j) PROVE Typed'
  <2> DEFINE jb == [job[j] EXCEPT !.at = "save", !.week = schedule[job[j].b]]
  <2>1. job[j].b \in Branches BY <1>0, <1>8 DEF ReadWeek, Writes
  <2>2. jb \in Job BY <1>0, <2>1, JobChanges
  <2>3. jb.op = job[j].op /\ jb.b = job[j].b BY <1>0 DEF Job
  <2>4. job' = [job EXCEPT ![j] = jb] BY <1>8 DEF ReadWeek
  <2> HIDE DEF jb
  <2>5. Writes(jb) BY <1>8, <2>1, <2>3 DEF Writes, ReadWeek
  <2>6. job' \in [Jobs -> Job] /\ Requests' BY <2>2, <2>4, <2>5, JobKept
  <2> QED BY <1>0, <1>8, <2>6 DEF ReadWeek, Keeps, table, Typed
<1>9. ASSUME SaveHours(j) PROVE Typed'
  <2>1. job' \in [Jobs -> Job] /\ Requests' BY <1>9, Going DEF SaveHours
  <2>2. /\ job[j].branch \in Branch /\ job[j].week \in [Day -> DayRow] /\ job[j].hours \in Hours
        /\ job[j].b \in Branches
    BY <1>0, <1>9 DEF Job, SaveHours, Writes
  <2>3. CASE UNCHANGED table BY <1>0, <1>9, <2>1, <2>3 DEF SaveHours, table, Typed
  <2>4. CASE ~UNCHANGED table
    <3> DEFINE week == [d \in Day |-> IF job[j].week[d].made
                          THEN [job[j].week[d] EXCEPT !.hours = job[j].hours]
                          ELSE schedule[job[j].b][d]]
    <3>1. /\ schedule' = [schedule EXCEPT ![job[j].b] = week]
          /\ branch' = [branch EXCEPT ![job[j].b] = job[j].branch]
          /\ UNCHANGED <<institution, sold, asked>>
      BY <1>9, <2>4 DEF SaveHours
    <3>2. week \in [Day -> DayRow] BY <1>0, <2>2, Constants
    <3> HIDE DEF week
    <3> QED BY <1>0, <2>1, <2>2, <3>1, <3>2 DEF Typed
  <2> QED BY <2>3, <2>4
<1>10. ASSUME NEW b \in Branches, NEW days \in SUBSET Day, NEW hours \in Schedules,
              LoadWeek(j, b, days, hours)
       PROVE  Typed'
  <2> DEFINE week == [d \in Day |->
                   IF d \notin days THEN asked.schedule[b][d]
                   ELSE [IF schedule[b][d].made THEN asked.schedule[b][d] ELSE NewDay EXCEPT !.hours = hours]]
  <2>0. hours \in Hours /\ asked.schedule[b] \in [Day -> DayRow] BY <1>0, Constants DEF Asked
  <2>1. week \in [Day -> DayRow] BY <2>0, Constants
  <2>2. asked' = [asked EXCEPT !.schedule = [@ EXCEPT ![b] = week]] BY <1>0, <1>10 DEF LoadWeek, Asked
  <2>3. job' = [job EXCEPT ![j] = [Starts("week", "save") EXCEPT
                  !.b = b, !.todo = days, !.hours = hours]]
    BY <1>10 DEF LoadWeek
  <2> HIDE DEF week
  <2>4. asked' \in Asked BY <1>0, <2>1, <2>2, AskedChanges
  <2>5. job' \in [Jobs -> Job] /\ Requests' BY <2>0, <2>3, Begins, JobKept
  <2> QED BY <1>0, <1>10, <2>4, <2>5 DEF LoadWeek, table, Typed
<1>11. ASSUME NEW d \in Day, SaveDayOfWeek(j, d) PROVE Typed'
  <2>1. job[j].b \in Branches /\ job[j].hours \in Hours
    BY <1>0, <1>11 DEF SaveDayOfWeek, Writes, Job
  <2>2. CASE ~branch[job[j].b].made
    <3>1. job' \in [Jobs -> Job] /\ Requests' BY <1>11, <2>2, Going DEF SaveDayOfWeek
    <3> QED BY <1>0, <1>11, <2>2, <3>1 DEF SaveDayOfWeek, Typed
  <2>3. CASE branch[job[j].b].made
    <3> DEFINE todo == job[j].todo \ {d}
               jb == [job[j] EXCEPT !.todo = todo, !.at = IF job[j].todo = {d} THEN "done" ELSE "save"]
               row == [IF schedule[job[j].b][d].made THEN schedule[job[j].b][d] ELSE NewDay
                         EXCEPT !.hours = job[j].hours]
    <3>1. job' = [job EXCEPT ![j] = jb] BY <1>11, <2>3 DEF SaveDayOfWeek
    <3>2. todo \in SUBSET Day BY <1>0 DEF Job
    <3>3. jb \in Job
      <4> HIDE DEF todo
      <4>1. CASE job[j].todo = {d} BY <1>0, <3>2, <4>1, JobChanges
      <4>2. CASE job[j].todo # {d} BY <1>0, <3>2, <4>2, JobChanges
      <4> QED BY <4>1, <4>2
    <3>4. jb.op = job[j].op /\ jb.b = job[j].b BY <1>0 DEF Job
    <3>5. schedule' = [schedule EXCEPT ![job[j].b] = [@ EXCEPT ![d] = row]]
      BY <1>0, <1>11, <2>1, <2>3 DEF SaveDayOfWeek
    <3>6. row \in DayRow BY <1>0, <2>1, Constants
    <3> HIDE DEF jb, row
    <3>7. Writes(jb) BY <1>11, <2>1, <3>4 DEF Writes, SaveDayOfWeek
    <3>8. job' \in [Jobs -> Job] /\ Requests' BY <3>1, <3>3, <3>7, JobKept
    <3>9. schedule' \in [Branches -> [Day -> DayRow]] BY <1>0, <2>1, <3>5, <3>6
    <3> QED BY <1>0, <1>11, <3>8, <3>9 DEF SaveDayOfWeek, Typed
  <2> QED BY <2>2, <2>3
<1>12. ASSUME NEW b \in Branches, NEW d \in Day, LoadDay(j, b, d) PROVE Typed'
  <2> DEFINE row == [schedule[b][d] EXCEPT !.active = ~@]
             week == [asked.schedule[b] EXCEPT ![d] = row]
  <2>1. row \in DayRow
    <3>1. schedule[b][d] \in DayRow BY <1>0
    <3>2. \A r \in DayRow : [r EXCEPT !.active = ~@] \in DayRow BY DEF DayRow
    <3> QED BY <3>1, <3>2
  <2>2. asked' = [asked EXCEPT !.schedule = [@ EXCEPT ![b] = week]] BY <1>0, <1>12 DEF LoadDay, Asked
  <2>3. job' = [job EXCEPT ![j] = [Starts("day", "save") EXCEPT !.b = b, !.d = d, !.day = row]]
    BY <1>12 DEF LoadDay
  <2> HIDE DEF row
  <2>4. week \in [Day -> DayRow] BY <1>0, <2>1 DEF Asked
  <2> HIDE DEF week
  <2>5. asked' \in Asked BY <1>0, <2>2, <2>4, AskedChanges
  <2>6. job' \in [Jobs -> Job] /\ Requests' BY <2>1, <2>3, Begins, JobKept
  <2> QED BY <1>0, <1>12, <2>5, <2>6 DEF LoadDay, table, Typed
<1>13. ASSUME SaveDay(j) PROVE Typed'
  <2>1. job' \in [Jobs -> Job] /\ Requests' BY <1>13, Going DEF SaveDay
  <2>2. job[j].b \in Branches /\ job[j].d \in Day /\ job[j].day \in DayRow
    BY <1>0, <1>13 DEF SaveDay, Writes, Job
  <2>3. schedule' \in [Branches -> [Day -> DayRow]] BY <1>0, <1>13, <2>2 DEF SaveDay
  <2> QED BY <1>0, <1>13, <2>1, <2>3 DEF SaveDay, Typed
<1>14. ASSUME NEW b \in Branches, NEW products \in SUBSET Products, SetSold(j, b, products) PROVE Typed'
  <2>1. job' \in [Jobs -> Job] /\ Requests' BY <1>14, Going DEF SetSold
  <2> QED BY <1>0, <1>14, <2>1 DEF SetSold, Typed
<1> QED BY <1>1, <1>2, <1>3, <1>4, <1>5, <1>6, <1>7, <1>8, <1>9, <1>10, <1>11, <1>12, <1>13, <1>14 DEF Step

\* What a well-formed request may write.
WritesInstitution(jb) == jb.at \in {"week", "save"} /\ jb.op = "institution"
WritesBranch(jb, b) == jb.at \in {"week", "save"} /\ jb.op \in {"branch", "hours"} /\ jb.b = b
WritesDay(jb, b, d) ==
    /\ jb.at \in {"week", "save"} /\ jb.b = b
    /\ jb.op = "hours" \/ (jb.op = "week" /\ d \in jb.todo) \/ (jb.op = "day" /\ d = jb.d)

LEMMA WritingIs ==
    ASSUME NEW jb \in Job, Writes(jb)
    PROVE  /\ Writing(jb) \subseteq Rows
           /\ <<"institution">> \in Writing(jb) <=> WritesInstitution(jb)
           /\ \A b \in Branches : <<"branch", b>> \in Writing(jb) <=> WritesBranch(jb, b)
           /\ \A b \in Branches, d \in Day : <<"day", b, d>> \in Writing(jb) <=> WritesDay(jb, b, d)
<1> USE DEF WritesInstitution, WritesBranch, WritesDay
<1>1. jb.todo \in SUBSET Day /\ jb.d \in Day BY DEF Job
<1>2. CASE jb.at \notin {"week", "save"}
  <2>1. Writing(jb) = {} BY <1>2 DEF Writing
  <2> QED BY <1>2, <2>1
<1>3. CASE jb.at \in {"week", "save"} /\ jb.op = "institution"
  <2>1. Writing(jb) = {<<"institution">>} BY <1>3 DEF Writing
  <2> QED BY <1>3, <2>1 DEF Rows
<1>4. CASE jb.at \in {"week", "save"} /\ jb.op = "branch"
  <2>1. Writing(jb) = {<<"branch", jb.b>>} BY <1>4 DEF Writing
  <2>2. jb.b \in Branches BY <1>4 DEF Writes
  <2> QED BY <1>4, <2>1, <2>2 DEF Rows
<1>5. CASE jb.at \in {"week", "save"} /\ jb.op = "hours"
  <2>1. Writing(jb) = {<<"branch", jb.b>>} \cup ({"day"} \X {jb.b} \X Day) BY <1>5 DEF Writing
  <2>2. jb.b \in Branches BY <1>5 DEF Writes
  <2> QED BY <1>5, <2>1, <2>2 DEF Rows
<1>6. CASE jb.at \in {"week", "save"} /\ jb.op = "week"
  <2>1. Writing(jb) = {"day"} \X {jb.b} \X jb.todo BY <1>6 DEF Writing
  <2>2. jb.b \in Branches BY <1>6 DEF Writes
  <2> QED BY <1>1, <1>6, <2>1, <2>2 DEF Rows
<1>7. CASE jb.at \in {"week", "save"} /\ jb.op = "day"
  <2>1. Writing(jb) = {<<"day", jb.b, jb.d>>} BY <1>7 DEF Writing
  <2>2. jb.b \in Branches BY <1>7 DEF Writes
  <2> QED BY <1>1, <1>7, <2>1, <2>2 DEF Rows
<1> QED BY <1>2, <1>3, <1>4, <1>5, <1>6, <1>7 DEF Writes

LEMMA Initially == Init => Types
<1> SUFFICES ASSUME Init PROVE Types OBVIOUS
<1>1. institution \in Institution BY DEF Init, Institution
<1>2. branch \in [Branches -> Branch] BY DEF Init, Branch
<1>3. schedule \in [Branches -> [Day -> DayRow]]
  <2>1. PICK hours \in [Branches -> Schedules] :
          schedule = [b \in Branches |-> [d \in Day |-> [NewDay EXCEPT !.hours = hours[b]]]]
    BY DEF Init
  <2> QED BY <2>1, Constants
<1>4. job \in [Jobs -> Job] /\ Requests BY IdleJob DEF Init, Requests, Writes
<1>5. asked \in Asked BY <1>1, <1>2, <1>3 DEF Init, Asked
<1>6. sold \in [Branches -> SUBSET Products] /\ clock \in [day : Day, time : Time] /\ crossed \subseteq Rows
  BY DEF Init
<1> QED BY <1>1, <1>2, <1>3, <1>4, <1>5, <1>6 DEF Types, TypeOK, Asked

LEMMA NextTypes == Types /\ [Next]_vars => Types'
<1> SUFFICES ASSUME Types, [Next]_vars PROVE Types' OBVIOUS
<1>1. ASSUME Tick, UNCHANGED crossed PROVE Types'
  <2>0. clock \in [day : Day, time : Time] BY DEF Types, TypeOK
  <2>1. clock' \in [day : Day, time : Time]
    <3>1. CASE clock.time + 1 \in Time BY <1>1, <2>0, <3>1 DEF Tick
    <3>2. CASE clock.time + 1 \notin Time
      <4>1. clock' = [day |-> IF clock.day + 1 \in Day THEN clock.day + 1 ELSE 0, time |-> 0]
        BY <1>1, <3>2 DEF Tick
      <4> QED BY <4>1, Constants
    <3> QED BY <3>1, <3>2
  <2> QED BY <1>1, <2>1 DEF Types, TypeOK, Requests, Tick, table
<1>2. ASSUME NEW j \in Jobs, Step(j), UNCHANGED clock,
             crossed' = crossed \cup (Others(j) \cap (Changed \cup Writing(job[j]) \cup Writing(job'[j])))
      PROVE  Types'
  <2>1. Typed' BY <1>2, StepTyped
  <2>2. Others(j) \subseteq Rows
    <3>1. \A k \in Jobs : Writing(job[k]) \subseteq Rows
      BY WritingIs DEF Types, TypeOK, Requests
    <3> QED BY <3>1 DEF Others
  <2>3. crossed' \subseteq Rows BY <1>2, <2>2 DEF Types, TypeOK
  <2>4. clock' \in [day : Day, time : Time] BY <1>2 DEF Types, TypeOK
  <2> QED BY <2>1, <2>3, <2>4 DEF Typed, Types, TypeOK, Asked
<1>3. CASE UNCHANGED vars BY <1>3 DEF vars, table, Types, TypeOK, Requests
<1> QED BY <1>1, <1>2, <1>3 DEF Next

\* Every reachable state is well typed, and a request under way says what it
\* will write.
THEOREM TypeCorrect == Spec => []Types
<1> QED BY Initially, NextTypes, PTL DEF Spec

\* The query on the hours is right in every reachable state, on a day whose row
\* is like that of the day before, whatever the hours and however long the day.
THEOREM HoursAreRight == Spec => []HoursAgree
<1>1. Types => HoursAgree BY TypesGiveHours DEF Types
<1> QED BY <1>1, TypeCorrect, PTL

\* List, page, search, banners and order agree in every reachable state, for any
\* number of branches and any distances.
THEOREM ViewsAgree == Spec => []OneAnswer
<1>1. Types => OneAnswer BY TypesGiveAnswer DEF Types
<1> QED BY <1>1, TypeCorrect, PTL

-----------------------------------------------------------------------------
(* A row stays as it was asked to be.                                      *)

\* The day a request will write, over the row there is.
Plan(jb, old, d) ==
    CASE jb.op = "hours" /\ jb.at = "week" -> IF old.made THEN [old EXCEPT !.hours = jb.hours] ELSE old
      [] jb.op = "hours" /\ jb.at = "save" ->
           IF jb.week[d].made THEN [jb.week[d] EXCEPT !.hours = jb.hours] ELSE old
      [] jb.op = "week" -> [IF old.made THEN old ELSE NewDay EXCEPT !.hours = jb.hours]
      [] OTHER -> jb.day

\* Of a row no two requests crossed on, there is at most one writer, who writes what
\* was asked for last; without a writer the row is that.
KeptInstitution ==
    <<"institution">> \notin crossed =>
        /\ (\A k \in Jobs : ~WritesInstitution(job[k])) => institution = asked.institution
        /\ \A k \in Jobs : WritesInstitution(job[k]) =>
             /\ job[k].institution = asked.institution
             /\ institution.state = "deleted" => job[k].institution.state = "deleted"
             /\ \A l \in Jobs : WritesInstitution(job[l]) => l = k

KeptBranch(b) ==
    /\ \A k \in Jobs : WritesBranch(job[k], b) => job[k].branch.made
    /\ <<"branch", b>> \notin crossed =>
         /\ (\A k \in Jobs : ~WritesBranch(job[k], b)) => branch[b] = asked.branch[b]
         /\ \A k \in Jobs : WritesBranch(job[k], b) =>
              /\ job[k].branch = asked.branch[b]
              /\ job[k].op = "hours" => branch[b].made
              /\ \A l \in Jobs : WritesBranch(job[l], b) => l = k

KeptDay(b, d) ==
    <<"day", b, d>> \notin crossed =>
        /\ (\A k \in Jobs : ~WritesDay(job[k], b, d)) => schedule[b][d] = asked.schedule[b][d]
        /\ \A k \in Jobs : WritesDay(job[k], b, d) =>
             /\ Plan(job[k], schedule[b][d], d) = asked.schedule[b][d]
             /\ branch[b].made
             /\ \A l \in Jobs : WritesDay(job[l], b, d) => l = k

\* A branch that is gone has no days.
MadeDays == \A b \in Branches, d \in Day : schedule[b][d].made => branch[b].made

Kept ==
    /\ MadeDays
    /\ KeptInstitution
    /\ \A b \in Branches : KeptBranch(b)
    /\ \A b \in Branches, d \in Day : KeptDay(b, d)

LEMMA KeptGivesAsked == Types /\ Kept => KeptAsAsked
<1> SUFFICES ASSUME Types, Kept, NEW r \in Rows, r \notin crossed,
                    r \notin UNION {Writing(job[j]) : j \in Jobs}
             PROVE  CASE r[1] = "institution" -> institution = asked.institution
                      [] r[1] = "branch" -> branch[r[2]] = asked.branch[r[2]]
                      [] OTHER -> schedule[r[2]][r[3]] = asked.schedule[r[2]][r[3]]
  BY DEF KeptAsAsked
<1>1. \A k \in Jobs : r \notin Writing(job[k]) OBVIOUS
<1>2. \A k \in Jobs : job[k] \in Job /\ Writes(job[k]) BY DEF Types, TypeOK, Requests
<1>3. CASE r = <<"institution">>
  <2>1. \A k \in Jobs : ~WritesInstitution(job[k]) BY <1>1, <1>2, <1>3, WritingIs
  <2> QED BY <1>3, <2>1 DEF Kept, KeptInstitution
<1>4. CASE r \in {"branch"} \X Branches
  <2>1. PICK b \in Branches : r = <<"branch", b>> BY <1>4
  <2>2. \A k \in Jobs : ~WritesBranch(job[k], b) BY <1>1, <1>2, <2>1, WritingIs
  <2>3. branch[b] = asked.branch[b] BY <2>1, <2>2 DEF Kept, KeptBranch
  <2> QED BY <2>1, <2>3
<1>5. CASE r \in {"day"} \X Branches \X Day
  <2>1. PICK b \in Branches, d \in Day : r = <<"day", b, d>> BY <1>5
  <2>2. \A k \in Jobs : ~WritesDay(job[k], b, d) BY <1>1, <1>2, <2>1, WritingIs
  <2>3. schedule[b][d] = asked.schedule[b][d] BY <2>1, <2>2 DEF Kept, KeptDay
  <2> QED BY <2>1, <2>3
<1> QED BY <1>3, <1>4, <1>5 DEF Rows

LEMMA InitiallyKept == Init => Kept
<1> SUFFICES ASSUME Init PROVE Kept OBVIOUS
<1>1. \A k \in Jobs : job[k].at = "idle" BY IdleJob DEF Init
<1>2. \A k \in Jobs : ~WritesInstitution(job[k]) BY <1>1 DEF WritesInstitution
<1>3. \A k \in Jobs, b \in Branches : ~WritesBranch(job[k], b) BY <1>1 DEF WritesBranch
<1>4. \A k \in Jobs, b \in Branches, d \in Day : ~WritesDay(job[k], b, d) BY <1>1 DEF WritesDay
<1>5. institution = asked.institution /\ branch = asked.branch /\ schedule = asked.schedule BY DEF Init
<1>6. MadeDays BY DEF Init, MadeDays
<1> QED BY <1>2, <1>3, <1>4, <1>5, <1>6 DEF Kept, KeptInstitution, KeptBranch, KeptDay

\* What a step may do to each kind of row: leave it and what its request will write,
\* begin, save, do it all at once, or find the branch gone.
InstitutionEffect(j) ==
    \/ /\ institution' = institution /\ asked'.institution = asked.institution
       /\ ~WritesInstitution(job[j]) /\ ~WritesInstitution(job'[j])
    \/ /\ institution' = institution /\ ~WritesInstitution(job[j]) /\ WritesInstitution(job'[j])
       /\ job'[j].institution = asked'.institution
       /\ institution.state = "deleted" => job'[j].institution.state = "deleted"
    \/ /\ institution' = job[j].institution /\ asked'.institution = asked.institution
       /\ WritesInstitution(job[j]) /\ ~WritesInstitution(job'[j])
    \/ /\ ~WritesInstitution(job[j]) /\ ~WritesInstitution(job'[j])
       /\ institution' = [institution EXCEPT !.state = "deleted"]
       /\ asked'.institution = [asked.institution EXCEPT !.state = "deleted"]

BranchEffect(j, b) ==
    \/ /\ branch'[b] = branch[b] /\ asked'.branch[b] = asked.branch[b]
       /\ WritesBranch(job[j], b) <=> WritesBranch(job'[j], b)
       /\ job'[j].branch = job[j].branch /\ job'[j].op = job[j].op
    \/ /\ branch'[b] = branch[b] /\ asked'.branch[b] = asked.branch[b]
       /\ ~WritesBranch(job[j], b) /\ ~WritesBranch(job'[j], b)
    \/ /\ branch'[b] = branch[b] /\ branch[b].made
       /\ ~WritesBranch(job[j], b) /\ WritesBranch(job'[j], b)
       /\ job'[j].branch = asked'.branch[b] /\ job'[j].branch.made
    \/ /\ branch'[b] = job[j].branch /\ asked'.branch[b] = asked.branch[b]
       /\ WritesBranch(job[j], b) /\ ~WritesBranch(job'[j], b)
    \/ /\ branch'[b] = Gone /\ asked'.branch[b] = Gone /\ branch[b].made
       /\ ~WritesBranch(job[j], b) /\ ~WritesBranch(job'[j], b)
    \/ /\ branch'[b] = branch[b] /\ ~branch[b].made /\ asked'.branch[b] = asked.branch[b]
       /\ job[j].op = "hours" /\ WritesBranch(job[j], b) /\ ~WritesBranch(job'[j], b)

DayEffect(j, b, d) ==
    \/ /\ schedule'[b][d] = schedule[b][d] /\ asked'.schedule[b][d] = asked.schedule[b][d]
       /\ WritesDay(job[j], b, d) <=> WritesDay(job'[j], b, d)
       /\ WritesDay(job[j], b, d) =>
            /\ Plan(job'[j], schedule[b][d], d) = Plan(job[j], schedule[b][d], d)
            /\ branch'[b] = branch[b]
    \/ /\ schedule'[b][d] = schedule[b][d] /\ branch[b].made /\ branch'[b] = branch[b]
       /\ ~WritesDay(job[j], b, d) /\ WritesDay(job'[j], b, d)
       /\ schedule[b][d] = asked.schedule[b][d] =>
            Plan(job'[j], schedule[b][d], d) = asked'.schedule[b][d]
    \/ /\ schedule'[b][d] = Plan(job[j], schedule[b][d], d) /\ asked'.schedule[b][d] = asked.schedule[b][d]
       /\ WritesDay(job[j], b, d) /\ ~WritesDay(job'[j], b, d)
    \/ /\ schedule'[b][d] = asked'.schedule[b][d] /\ Removed(b)
       /\ ~WritesDay(job[j], b, d) /\ ~WritesDay(job'[j], b, d)
    \/ /\ schedule'[b][d] = schedule[b][d] /\ ~branch[b].made /\ asked'.schedule[b][d] = asked.schedule[b][d]
       /\ WritesDay(job[j], b, d) /\ ~WritesDay(job'[j], b, d)

\* One step of one request.
Moves(j) ==
    /\ Step(j) /\ UNCHANGED clock
    /\ crossed' = crossed \cup (Others(j) \cap (Changed \cup Writing(job[j]) \cup Writing(job'[j])))
    /\ \A k \in Jobs \ {j} : job'[k] = job[k]

\* On a row that stays uncrossed the others, if they write it, are alone with it.
LEMMA Uncrossed ==
    ASSUME Types, Types', NEW j \in Jobs, Moves(j)
    PROVE  /\ \A r \in Rows : r \notin crossed' => r \notin crossed
           /\ <<"institution">> \notin crossed' => \A k \in Jobs \ {j} : WritesInstitution(job[k]) =>
                institution' = institution /\ ~WritesInstitution(job[j]) /\ ~WritesInstitution(job'[j])
           /\ \A b \in Branches : <<"branch", b>> \notin crossed' =>
                \A k \in Jobs \ {j} : WritesBranch(job[k], b) =>
                  branch'[b] = branch[b] /\ ~WritesBranch(job[j], b) /\ ~WritesBranch(job'[j], b)
           /\ \A b \in Branches, d \in Day : <<"day", b, d>> \notin crossed' =>
                \A k \in Jobs \ {j} : WritesDay(job[k], b, d) =>
                  /\ schedule'[b] = schedule[b] /\ ~Removed(b)
                  /\ ~WritesDay(job[j], b, d) /\ ~WritesDay(job'[j], b, d)
<1>1. \A k \in Jobs : job[k] \in Job /\ Writes(job[k]) /\ job'[k] \in Job /\ Writes(job'[k])
  BY DEF Types, TypeOK, Requests, Writes
<1>2. \A r \in Rows : r \notin crossed' =>
        /\ r \notin crossed
        /\ \A k \in Jobs \ {j} : r \in Writing(job[k]) =>
             r \notin Changed /\ r \notin Writing(job[j]) /\ r \notin Writing(job'[j])
  BY DEF Moves, Others
<1>3. ASSUME <<"institution">> \notin crossed', NEW k \in Jobs \ {j}, WritesInstitution(job[k])
      PROVE  institution' = institution /\ ~WritesInstitution(job[j]) /\ ~WritesInstitution(job'[j])
  <2>1. <<"institution">> \in Rows BY DEF Rows
  <2>2. <<"institution">> \in Writing(job[k]) BY <1>1, <1>3, WritingIs
  <2>3. /\ <<"institution">> \notin Changed /\ <<"institution">> \notin Writing(job[j])
        /\ <<"institution">> \notin Writing(job'[j])
    BY <1>2, <1>3, <2>1, <2>2
  <2>4. institution' = institution BY <2>1, <2>3 DEF Changed
  <2> QED BY <1>1, <2>3, <2>4, WritingIs
<1>4. ASSUME NEW b \in Branches, <<"branch", b>> \notin crossed', NEW k \in Jobs \ {j},
             WritesBranch(job[k], b)
      PROVE  branch'[b] = branch[b] /\ ~WritesBranch(job[j], b) /\ ~WritesBranch(job'[j], b)
  <2>1. <<"branch", b>> \in Rows BY DEF Rows
  <2>2. <<"branch", b>> \in Writing(job[k]) BY <1>1, <1>4, WritingIs
  <2>3. /\ <<"branch", b>> \notin Changed /\ <<"branch", b>> \notin Writing(job[j])
        /\ <<"branch", b>> \notin Writing(job'[j])
    BY <1>2, <1>4, <2>1, <2>2
  <2>4. branch'[b] = branch[b] BY <2>1, <2>3 DEF Changed
  <2> QED BY <1>1, <2>3, <2>4, WritingIs
<1>5. ASSUME NEW b \in Branches, NEW d \in Day, <<"day", b, d>> \notin crossed', NEW k \in Jobs \ {j},
             WritesDay(job[k], b, d)
      PROVE  /\ schedule'[b] = schedule[b] /\ ~Removed(b)
             /\ ~WritesDay(job[j], b, d) /\ ~WritesDay(job'[j], b, d)
  <2>1. <<"day", b, d>> \in Rows BY DEF Rows
  <2>2. <<"day", b, d>> \in Writing(job[k]) BY <1>1, <1>5, WritingIs
  <2>3. /\ <<"day", b, d>> \notin Changed /\ <<"day", b, d>> \notin Writing(job[j])
        /\ <<"day", b, d>> \notin Writing(job'[j])
    BY <1>2, <1>5, <2>1, <2>2
  <2>4. schedule'[b] = schedule[b] /\ ~Removed(b) BY <2>1, <2>3 DEF Changed
  <2> QED BY <1>1, <2>3, <2>4, WritingIs
<1> QED BY <1>2, <1>3, <1>4, <1>5

\* Who has not begun or has ended writes nothing.
LEMMA WritesNothing ==
    ASSUME NEW jb, jb.at \notin {"week", "save"}
    PROVE  /\ ~WritesInstitution(jb) /\ \A b : ~WritesBranch(jb, b)
           /\ \A b, d : ~WritesDay(jb, b, d)
BY DEF WritesInstitution, WritesBranch, WritesDay

LEMMA GoneWritesNothing ==
    ASSUME Types, NEW j \in Jobs, NEW at \in {"done", "dead"}, Goes(j, at)
    PROVE  /\ ~WritesInstitution(job'[j]) /\ \A b : ~WritesBranch(job'[j], b)
           /\ \A b, d : ~WritesDay(job'[j], b, d)
           /\ \A k \in Jobs \ {j} : job'[k] = job[k]
<1>1. job'[j].at = at /\ \A k \in Jobs \ {j} : job'[k] = job[k] BY DEF Types, TypeOK, Goes, Job
<1> QED BY <1>1, WritesNothing

Effects(j) ==
    /\ InstitutionEffect(j)
    /\ \A b \in Branches : BranchEffect(j, b)
    /\ \A b \in Branches, d \in Day : DayEffect(j, b, d)
    /\ \A k \in Jobs \ {j} : job'[k] = job[k]

\* A step that leaves all three kinds of rows, and writes nothing before or after.
LEMMA NoEffect ==
    ASSUME NEW j \in Jobs, UNCHANGED <<institution, branch, schedule, asked>>,
           job[j].at \notin {"week", "save"}, job'[j].at \notin {"week", "save"},
           \A k \in Jobs \ {j} : job'[k] = job[k]
    PROVE  Effects(j)
<1>1. InstitutionEffect(j) BY WritesNothing DEF InstitutionEffect
<1>2. \A b \in Branches : BranchEffect(j, b) BY WritesNothing DEF BranchEffect
<1>3. \A b \in Branches, d \in Day : DayEffect(j, b, d) BY WritesNothing DEF DayEffect
<1> QED BY <1>1, <1>2, <1>3 DEF Effects

LEMMA LoadEffects ==
    ASSUME NEW j \in Jobs, job[j].at = "idle", UNCHANGED table
    PROVE  /\ job'[j].op # "institution" /\ asked'.institution = asked.institution => InstitutionEffect(j)
           /\ \A b \in Branches :
                asked'.branch[b] = asked.branch[b] /\ ~WritesBranch(job'[j], b) => BranchEffect(j, b)
           /\ \A b \in Branches, d \in Day :
                asked'.schedule[b][d] = asked.schedule[b][d] /\ ~WritesDay(job'[j], b, d)
                => DayEffect(j, b, d)
<1>1. /\ ~WritesInstitution(job[j]) /\ \A b : ~WritesBranch(job[j], b)
      /\ \A b, d : ~WritesDay(job[j], b, d)
  BY WritesNothing
<1>2. UNCHANGED <<institution, branch, schedule>> BY DEF table
<1> QED BY <1>1, <1>2 DEF InstitutionEffect, WritesInstitution, BranchEffect, DayEffect

LEMMA StepEffects ==
    ASSUME Types, MadeDays, NEW j \in Jobs, Step(j)
    PROVE  Effects(j)
<1>0. /\ institution \in Institution /\ branch \in [Branches -> Branch]
      /\ schedule \in [Branches -> [Day -> DayRow]] /\ asked \in Asked
      /\ job[j] \in Job /\ job \in [Jobs -> Job] /\ Writes(job[j])
  BY DEF Types, TypeOK, Requests, Asked
<1>a. /\ \A b \in Branches : asked.branch \in [Branches -> Branch]
      /\ asked.schedule \in [Branches -> [Day -> DayRow]]
  BY <1>0 DEF Asked
<1>1. ASSUME NEW row \in Institution, LoadInstitution(j, row) PROVE Effects(j)
  <2> DEFINE jb == [Starts("institution", "save") EXCEPT !.institution = row]
  <2>1. jb.op = "institution" /\ jb.at = "save" /\ jb.institution = row BY DEF Starts, Idle
  <2>2. job[j].at = "idle" /\ job' = [job EXCEPT ![j] = jb] /\ UNCHANGED table
    BY <1>1 DEF LoadInstitution
  <2> HIDE DEF jb
  <2>3. /\ asked'.institution = row /\ asked'.branch = asked.branch /\ asked'.schedule = asked.schedule
        /\ row.state # institution.state => institution.state # "deleted"
    BY <1>0, <1>1 DEF LoadInstitution, Asked
  <2>4. InstitutionEffect(j)
    <3>1. job'[j] = jb BY <1>0, <2>2
    <3> QED BY <2>1, <2>2, <2>3, <3>1 DEF InstitutionEffect, WritesInstitution, table
  <2>5. job'[j] = jb /\ \A k \in Jobs \ {j} : job'[k] = job[k] BY <1>0, <2>2
  <2>6. (\A b : ~WritesBranch(job'[j], b)) /\ \A b, d : ~WritesDay(job'[j], b, d)
    BY <2>1, <2>5 DEF WritesBranch, WritesDay
  <2> QED BY <2>2, <2>3, <2>4, <2>5, <2>6, LoadEffects DEF Effects
<1>2. ASSUME SaveInstitution(j) PROVE Effects(j)
  <2>1. /\ ~WritesInstitution(job'[j]) /\ \A b : ~WritesBranch(job'[j], b)
        /\ \A b, d : ~WritesDay(job'[j], b, d) /\ \A k \in Jobs \ {j} : job'[k] = job[k]
    BY <1>2, GoneWritesNothing DEF SaveInstitution
  <2>2. WritesInstitution(job[j]) /\ (\A b : ~WritesBranch(job[j], b)) /\ \A b, d : ~WritesDay(job[j], b, d)
    BY <1>2 DEF SaveInstitution, WritesInstitution, WritesBranch, WritesDay
  <2>3. /\ institution' = job[j].institution /\ UNCHANGED <<branch, schedule, asked>>
    BY <1>2 DEF SaveInstitution
  <2> QED BY <2>1, <2>2, <2>3 DEF Effects, InstitutionEffect, BranchEffect, DayEffect
<1>3. ASSUME DeleteCategory(j) PROVE Effects(j)
  <2>1. /\ ~WritesInstitution(job'[j]) /\ \A b : ~WritesBranch(job'[j], b)
        /\ \A b, d : ~WritesDay(job'[j], b, d) /\ \A k \in Jobs \ {j} : job'[k] = job[k]
    BY <1>3, GoneWritesNothing DEF DeleteCategory
  <2>2. ~WritesInstitution(job[j]) /\ (\A b : ~WritesBranch(job[j], b)) /\ \A b, d : ~WritesDay(job[j], b, d)
    BY <1>3, WritesNothing DEF DeleteCategory
  <2>3. /\ institution' = [institution EXCEPT !.state = "deleted"]
        /\ asked'.institution = [asked.institution EXCEPT !.state = "deleted"]
        /\ asked'.branch = asked.branch /\ asked'.schedule = asked.schedule
        /\ UNCHANGED <<branch, schedule>>
    BY <1>0, <1>3 DEF DeleteCategory, Asked
  <2> QED BY <2>1, <2>2, <2>3 DEF Effects, InstitutionEffect, BranchEffect, DayEffect
<1>4. ASSUME NEW c \in Branches, NEW open \in BOOLEAN, NEW address \in BOOLEAN,
             LoadBranch(j, c, open, address)
      PROVE  Effects(j)
  <2> DEFINE row == [branch[c] EXCEPT !.open = open, !.address = address]
             jb == [Starts("branch", "save") EXCEPT !.b = c, !.branch = row]
  <2>1. jb.op = "branch" /\ jb.at = "save" /\ jb.b = c /\ jb.branch = row BY DEF Starts, Idle
  <2>2. job[j].at = "idle" /\ job' = [job EXCEPT ![j] = jb] /\ UNCHANGED table /\ branch[c].made
    BY <1>4 DEF LoadBranch
  <2>3. row.made BY <1>0, <2>2 DEF Branch
  <2> HIDE DEF jb
  <2>4. /\ asked'.institution = asked.institution /\ asked'.schedule = asked.schedule
        /\ asked'.branch = [asked.branch EXCEPT ![c] = row]
    BY <1>0, <1>4 DEF LoadBranch, Asked
  <2> HIDE DEF row
  <2>5. job'[j] = jb /\ \A k \in Jobs \ {j} : job'[k] = job[k] BY <1>0, <2>2
  <2>6. BranchEffect(j, c)
    BY <1>a, <2>1, <2>2, <2>3, <2>4, <2>5, WritesNothing DEF BranchEffect, WritesBranch, table
  <2>7. \A b \in Branches \ {c} : BranchEffect(j, b)
    <3>1. \A b \in Branches \ {c} : asked'.branch[b] = asked.branch[b] BY <1>a, <2>4
    <3>2. \A b \in Branches \ {c} : ~WritesBranch(job'[j], b) BY <2>1, <2>5 DEF WritesBranch
    <3> QED BY <2>2, <3>1, <3>2, LoadEffects
  <2>8. \A b, d : ~WritesDay(job'[j], b, d) BY <2>1, <2>5 DEF WritesDay
  <2>9. job'[j].op # "institution" BY <2>1, <2>5
  <2> QED BY <2>2, <2>4, <2>5, <2>6, <2>7, <2>8, <2>9, LoadEffects DEF Effects
<1>5. ASSUME SaveBranch(j) PROVE Effects(j)
  <2>1. /\ ~WritesInstitution(job'[j]) /\ \A b : ~WritesBranch(job'[j], b)
        /\ \A b, d : ~WritesDay(job'[j], b, d) /\ \A k \in Jobs \ {j} : job'[k] = job[k]
    BY <1>5, GoneWritesNothing DEF SaveBranch
  <2>2. /\ ~WritesInstitution(job[j]) /\ \A b, d : ~WritesDay(job[j], b, d)
        /\ \A b : WritesBranch(job[j], b) <=> b = job[j].b
    BY <1>5 DEF SaveBranch, WritesInstitution, WritesBranch, WritesDay
  <2>3. /\ branch' = [branch EXCEPT ![job[j].b] = job[j].branch]
        /\ UNCHANGED <<institution, schedule, asked>>
    BY <1>5 DEF SaveBranch
  <2>4. \A b \in Branches : BranchEffect(j, b) BY <1>0, <2>1, <2>2, <2>3 DEF BranchEffect
  <2> QED BY <2>1, <2>2, <2>3, <2>4 DEF Effects, InstitutionEffect, DayEffect
<1>6. ASSUME NEW c \in Branches, RemoveBranch(j, c) PROVE Effects(j)
  <2>1. /\ ~WritesInstitution(job'[j]) /\ \A b : ~WritesBranch(job'[j], b)
        /\ \A b, d : ~WritesDay(job'[j], b, d) /\ \A k \in Jobs \ {j} : job'[k] = job[k]
    BY <1>6, GoneWritesNothing DEF RemoveBranch
  <2>2. ~WritesInstitution(job[j]) /\ (\A b : ~WritesBranch(job[j], b)) /\ \A b, d : ~WritesDay(job[j], b, d)
    BY <1>6, WritesNothing DEF RemoveBranch
  <2>3. /\ branch[c].made /\ institution' = institution
        /\ branch' = [branch EXCEPT ![c] = Gone]
        /\ schedule' = [schedule EXCEPT ![c] = [d \in Day |-> NoDay]]
    BY <1>6 DEF RemoveBranch
  <2>4. /\ asked'.institution = asked.institution
        /\ asked'.branch = [asked.branch EXCEPT ![c] = Gone]
        /\ asked'.schedule = [asked.schedule EXCEPT ![c] = schedule'[c]]
    BY <1>0, <1>6 DEF RemoveBranch, Asked
  <2>5. InstitutionEffect(j) BY <2>1, <2>2, <2>3, <2>4 DEF InstitutionEffect
  <2>6. \A b \in Branches : BranchEffect(j, b)
    BY <1>0, <1>a, <2>1, <2>2, <2>3, <2>4 DEF BranchEffect
  <2>7. \A b \in Branches, d \in Day : DayEffect(j, b, d)
    <3> SUFFICES ASSUME NEW b \in Branches, NEW d \in Day PROVE DayEffect(j, b, d) OBVIOUS
    <3>1. CASE b = c BY <1>0, <1>a, <2>1, <2>2, <2>3, <2>4, <3>1 DEF DayEffect, Removed, Gone
    <3>2. CASE b # c BY <1>0, <1>a, <2>1, <2>2, <2>3, <2>4, <3>2 DEF DayEffect
    <3> QED BY <3>1, <3>2
  <2> QED BY <2>1, <2>5, <2>6, <2>7 DEF Effects
<1>7. ASSUME NEW c \in Branches, NEW open \in BOOLEAN, NEW active \in BOOLEAN,
             NEW hours \in Schedules, LoadHours(j, c, open, active, hours)
      PROVE  Effects(j)
  <2> DEFINE row == [branch[c] EXCEPT !.open = open, !.active = active]
             week == [d \in Day |-> [schedule[c][d] EXCEPT !.hours =
                                       IF schedule[c][d].made THEN hours ELSE @]]
             jb == [Starts("hours", "week") EXCEPT !.b = c, !.branch = row, !.hours = hours]
  <2>1. jb.op = "hours" /\ jb.at = "week" /\ jb.b = c /\ jb.branch = row /\ jb.hours = hours
    BY DEF Starts, Idle
  <2>2. job[j].at = "idle" /\ job' = [job EXCEPT ![j] = jb] /\ UNCHANGED table /\ branch[c].made
    BY <1>7 DEF LoadHours
  <2>3. row.made BY <1>0, <2>2 DEF Branch
  <2> HIDE DEF jb
  <2>4. /\ asked'.institution = asked.institution
        /\ asked'.branch = [asked.branch EXCEPT ![c] = row]
        /\ asked'.schedule = [asked.schedule EXCEPT ![c] = week]
    BY <1>0, <1>7 DEF LoadHours, Asked
  <2> HIDE DEF row
  <2>5. job'[j] = jb /\ \A k \in Jobs \ {j} : job'[k] = job[k] BY <1>0, <2>2
  <2>6. BranchEffect(j, c)
    BY <1>a, <2>1, <2>2, <2>3, <2>4, <2>5, WritesNothing DEF BranchEffect, WritesBranch, table
  <2>7. \A b \in Branches \ {c} : BranchEffect(j, b)
    <3>1. \A b \in Branches \ {c} : asked'.branch[b] = asked.branch[b] BY <1>a, <2>4
    <3>2. \A b \in Branches \ {c} : ~WritesBranch(job'[j], b) BY <2>1, <2>5 DEF WritesBranch
    <3> QED BY <2>2, <3>1, <3>2, LoadEffects
  <2>8. \A d \in Day : DayEffect(j, c, d)
    <3> SUFFICES ASSUME NEW d \in Day PROVE DayEffect(j, c, d) OBVIOUS
    <3>1. week[d] = IF schedule[c][d].made THEN [schedule[c][d] EXCEPT !.hours = hours] ELSE schedule[c][d]
      <4>1. schedule[c][d] \in DayRow BY <1>0
      <4> QED BY <4>1 DEF DayRow
    <3>2. asked'.schedule[c][d] = week[d] BY <1>a, <2>4
    <3> HIDE DEF week
    <3>3. Plan(job'[j], schedule[c][d], d) = asked'.schedule[c][d] BY <2>1, <2>5, <3>1, <3>2 DEF Plan
    <3>4. WritesDay(job'[j], c, d) /\ ~WritesDay(job[j], c, d)
      BY <2>1, <2>2, <2>5, WritesNothing DEF WritesDay
    <3> QED BY <2>2, <3>3, <3>4 DEF DayEffect, table
  <2>9. \A b \in Branches \ {c}, d \in Day : DayEffect(j, b, d)
    <3> HIDE DEF week
    <3>1. \A b \in Branches \ {c}, d \in Day : asked'.schedule[b][d] = asked.schedule[b][d] BY <1>a, <2>4
    <3>2. \A b \in Branches \ {c}, d \in Day : ~WritesDay(job'[j], b, d) BY <2>1, <2>5 DEF WritesDay
    <3> QED BY <2>2, <3>1, <3>2, LoadEffects
  <2>10. job'[j].op # "institution" BY <2>1, <2>5
  <2> QED BY <2>2, <2>4, <2>5, <2>6, <2>7, <2>8, <2>9, <2>10, LoadEffects DEF Effects
<1>8. ASSUME ReadWeek(j) PROVE Effects(j)
  <2> DEFINE jb == [job[j] EXCEPT !.at = "save", !.week = schedule[job[j].b]]
  <2>1. /\ jb.op = job[j].op /\ jb.b = job[j].b /\ jb.branch = job[j].branch /\ jb.hours = job[j].hours
        /\ jb.at = "save" /\ jb.week = schedule[job[j].b]
    BY <1>0 DEF Job
  <2>2. /\ job' = [job EXCEPT ![j] = jb] /\ job[j].at = "week" /\ job[j].op = "hours"
        /\ UNCHANGED <<institution, branch, schedule, asked>>
    BY <1>8 DEF ReadWeek, Keeps, table
  <2> HIDE DEF jb
  <2>3. job'[j] = jb /\ \A k \in Jobs \ {j} : job'[k] = job[k] BY <1>0, <2>2
  <2>4. /\ ~WritesInstitution(job[j]) /\ ~WritesInstitution(job'[j])
        /\ \A b : WritesBranch(job'[j], b) <=> WritesBranch(job[j], b)
        /\ \A b, d : WritesDay(job'[j], b, d) <=> WritesDay(job[j], b, d)
        /\ \A b, d : WritesDay(job[j], b, d) => b = job[j].b
    BY <2>1, <2>2, <2>3 DEF WritesInstitution, WritesBranch, WritesDay
  <2>5. \A d : Plan(job'[j], schedule[job[j].b][d], d) = Plan(job[j], schedule[job[j].b][d], d)
    BY <2>1, <2>2, <2>3 DEF Plan
  <2> QED BY <2>1, <2>2, <2>3, <2>4, <2>5 DEF Effects, InstitutionEffect, BranchEffect, DayEffect
<1>9. ASSUME SaveHours(j) PROVE Effects(j)
  <2>1. /\ ~WritesInstitution(job'[j]) /\ \A b : ~WritesBranch(job'[j], b)
        /\ \A b, d : ~WritesDay(job'[j], b, d) /\ \A k \in Jobs \ {j} : job'[k] = job[k]
    BY <1>9, GoneWritesNothing DEF SaveHours
  <2>2. /\ ~WritesInstitution(job[j])
        /\ \A b : WritesBranch(job[j], b) <=> b = job[j].b
        /\ \A b, d : WritesDay(job[j], b, d) <=> b = job[j].b
    BY <1>9 DEF SaveHours, WritesInstitution, WritesBranch, WritesDay
  <2>3. job[j].at = "save" /\ job[j].op = "hours" /\ job[j].b \in Branches BY <1>0, <1>9 DEF SaveHours, Writes
  <2>4. asked' = asked /\ institution' = institution BY <1>9 DEF SaveHours, table
  <2>5. CASE ~branch[job[j].b].made /\ \E d \in Day : job[j].week[d].made
    <3>1. UNCHANGED <<branch, schedule>> BY <1>9, <2>5 DEF SaveHours, table
    <3>2. \A b \in Branches : BranchEffect(j, b)
      BY <2>1, <2>2, <2>3, <2>4, <2>5, <3>1 DEF BranchEffect
    <3>3. \A b \in Branches, d \in Day : DayEffect(j, b, d)
      BY <2>1, <2>2, <2>4, <2>5, <3>1 DEF DayEffect
    <3> QED BY <2>1, <2>2, <2>4, <3>2, <3>3 DEF Effects, InstitutionEffect
  <2>6. CASE ~(~branch[job[j].b].made /\ \E d \in Day : job[j].week[d].made)
    <3> DEFINE week == [d \in Day |-> IF job[j].week[d].made
                          THEN [job[j].week[d] EXCEPT !.hours = job[j].hours]
                          ELSE schedule[job[j].b][d]]
    <3>1. /\ schedule' = [schedule EXCEPT ![job[j].b] = week]
          /\ branch' = [branch EXCEPT ![job[j].b] = job[j].branch]
      BY <1>9, <2>6 DEF SaveHours
    <3>2. \A d \in Day : week[d] = Plan(job[j], schedule[job[j].b][d], d) BY <2>3 DEF Plan
    <3> HIDE DEF week
    <3>3. \A b \in Branches : BranchEffect(j, b)
      BY <1>0, <2>1, <2>2, <2>4, <3>1 DEF BranchEffect
    <3>4. \A b \in Branches, d \in Day : DayEffect(j, b, d)
      <4> SUFFICES ASSUME NEW b \in Branches, NEW d \in Day PROVE DayEffect(j, b, d) OBVIOUS
      <4>1. CASE b = job[j].b
        <5>1. schedule'[b][d] = Plan(job[j], schedule[b][d], d) BY <1>0, <3>1, <3>2, <4>1
        <5> QED BY <2>1, <2>2, <2>4, <4>1, <5>1 DEF DayEffect
      <4>2. CASE b # job[j].b
        <5>1. schedule'[b][d] = schedule[b][d] BY <1>0, <3>1, <4>2
        <5> QED BY <2>1, <2>2, <2>4, <4>2, <5>1 DEF DayEffect
      <4> QED BY <4>1, <4>2
    <3> QED BY <2>1, <2>2, <2>4, <3>3, <3>4 DEF Effects, InstitutionEffect
  <2> QED BY <2>5, <2>6
<1>10. ASSUME NEW c \in Branches, NEW days \in SUBSET Day, NEW hours \in Schedules,
              LoadWeek(j, c, days, hours)
       PROVE  Effects(j)
  <2> DEFINE week == [d \in Day |->
                   IF d \notin days THEN asked.schedule[c][d]
                   ELSE [IF schedule[c][d].made THEN asked.schedule[c][d] ELSE NewDay EXCEPT !.hours = hours]]
             jb == [Starts("week", "save") EXCEPT !.b = c, !.todo = days, !.hours = hours]
  <2>1. jb.op = "week" /\ jb.at = "save" /\ jb.b = c /\ jb.todo = days /\ jb.hours = hours
    BY DEF Starts, Idle
  <2>2. job[j].at = "idle" /\ job' = [job EXCEPT ![j] = jb] /\ UNCHANGED table /\ branch[c].made
    BY <1>10 DEF LoadWeek
  <2> HIDE DEF jb
  <2>3. /\ asked'.institution = asked.institution /\ asked'.branch = asked.branch
        /\ asked'.schedule = [asked.schedule EXCEPT ![c] = week]
    BY <1>0, <1>10 DEF LoadWeek, Asked
  <2>4. job'[j] = jb /\ \A k \in Jobs \ {j} : job'[k] = job[k] BY <1>0, <2>2
  <2>5. \A d \in days : DayEffect(j, c, d)
    <3> SUFFICES ASSUME NEW d \in days PROVE DayEffect(j, c, d) OBVIOUS
    <3>1. asked'.schedule[c][d] = [IF schedule[c][d].made THEN asked.schedule[c][d] ELSE NewDay
                                     EXCEPT !.hours = hours]
      BY <1>a, <2>3
    <3> HIDE DEF week
    <3>2. Plan(job'[j], schedule[c][d], d)
            = [IF schedule[c][d].made THEN schedule[c][d] ELSE NewDay EXCEPT !.hours = hours]
      BY <2>1, <2>4 DEF Plan
    <3>3. WritesDay(job'[j], c, d) /\ ~WritesDay(job[j], c, d)
      BY <2>1, <2>2, <2>4, WritesNothing DEF WritesDay
    <3>4. schedule[c][d] = asked.schedule[c][d] => Plan(job'[j], schedule[c][d], d) = asked'.schedule[c][d]
      BY <3>1, <3>2
    <3> QED BY <2>2, <3>3, <3>4 DEF DayEffect, table
  <2>6. \A d \in Day \ days : asked'.schedule[c][d] = asked.schedule[c][d] BY <1>a, <2>3
  <2> HIDE DEF week
  <2>7. \A b \in Branches \ {c}, d \in Day : asked'.schedule[b][d] = asked.schedule[b][d] BY <1>a, <2>3
  <2>8. \A b \in Branches, d \in Day : DayEffect(j, b, d)
    <3> SUFFICES ASSUME NEW b \in Branches, NEW d \in Day PROVE DayEffect(j, b, d) OBVIOUS
    <3>1. CASE b = c /\ d \in days BY <2>5, <3>1
    <3>2. CASE b # c \/ d \notin days
      <4>1. asked'.schedule[b][d] = asked.schedule[b][d] BY <2>6, <2>7, <3>2
      <4>2. ~WritesDay(job'[j], b, d) BY <2>1, <2>4, <3>2 DEF WritesDay
      <4> QED BY <2>2, <4>1, <4>2, LoadEffects
    <3> QED BY <3>1, <3>2
  <2>9. job'[j].op # "institution" /\ \A b : ~WritesBranch(job'[j], b) BY <2>1, <2>4 DEF WritesBranch
  <2> QED BY <2>2, <2>3, <2>4, <2>8, <2>9, LoadEffects DEF Effects
<1>11. ASSUME NEW d1 \in Day, SaveDayOfWeek(j, d1) PROVE Effects(j)
  <2>1. /\ job[j].b \in Branches /\ job[j].at = "save" /\ job[j].op = "week" /\ d1 \in job[j].todo
        /\ UNCHANGED <<institution, branch, asked>>
    BY <1>0, <1>11 DEF SaveDayOfWeek, Writes
  <2>2. /\ ~WritesInstitution(job[j]) /\ \A b : ~WritesBranch(job[j], b)
        /\ \A b, d : WritesDay(job[j], b, d) <=> b = job[j].b /\ d \in job[j].todo
    BY <2>1 DEF WritesInstitution, WritesBranch, WritesDay
  <2>3. CASE ~branch[job[j].b].made
    <3>1. UNCHANGED schedule /\ Goes(j, "dead") BY <1>11, <2>3 DEF SaveDayOfWeek
    <3>2. /\ ~WritesInstitution(job'[j]) /\ \A b : ~WritesBranch(job'[j], b)
          /\ \A b, d : ~WritesDay(job'[j], b, d) /\ \A k \in Jobs \ {j} : job'[k] = job[k]
      BY <3>1, GoneWritesNothing
    <3>3. \A b \in Branches, d \in Day : DayEffect(j, b, d)
      BY <2>1, <2>2, <2>3, <3>1, <3>2 DEF DayEffect
    <3> QED BY <2>1, <2>2, <3>2, <3>3 DEF Effects, InstitutionEffect, BranchEffect
  <2>4. CASE branch[job[j].b].made
    <3> DEFINE jb == [job[j] EXCEPT !.todo = job[j].todo \ {d1},
                        !.at = IF job[j].todo = {d1} THEN "done" ELSE "save"]
               row == [IF schedule[job[j].b][d1].made THEN schedule[job[j].b][d1] ELSE NewDay
                         EXCEPT !.hours = job[j].hours]
    <3>1. job' = [job EXCEPT ![j] = jb] BY <1>11, <2>4 DEF SaveDayOfWeek
    <3>2. /\ jb.op = "week" /\ jb.b = job[j].b /\ jb.hours = job[j].hours
          /\ jb.todo = job[j].todo \ {d1} /\ jb.at = IF job[j].todo = {d1} THEN "done" ELSE "save"
      BY <1>0, <2>1 DEF Job
    <3>3. schedule' = [schedule EXCEPT ![job[j].b] = [@ EXCEPT ![d1] = row]]
      BY <1>0, <1>11, <2>1, <2>4 DEF SaveDayOfWeek
    <3>4. row = Plan(job[j], schedule[job[j].b][d1], d1) BY <2>1 DEF Plan
    <3> HIDE DEF jb, row
    <3>5. job'[j] = jb /\ \A k \in Jobs \ {j} : job'[k] = job[k] BY <1>0, <3>1
    <3>6. /\ ~WritesInstitution(job'[j]) /\ \A b : ~WritesBranch(job'[j], b)
          /\ \A b, d : WritesDay(job'[j], b, d) <=> b = job[j].b /\ d \in job[j].todo \ {d1}
      BY <2>1, <3>2, <3>5 DEF WritesInstitution, WritesBranch, WritesDay
    <3>7. \A old, d : Plan(job'[j], old, d) = Plan(job[j], old, d) BY <2>1, <3>2, <3>5 DEF Plan
    <3>8. \A b \in Branches, d \in Day : DayEffect(j, b, d)
      <4> SUFFICES ASSUME NEW b \in Branches, NEW d \in Day PROVE DayEffect(j, b, d) OBVIOUS
      <4>1. CASE b = job[j].b /\ d = d1
        <5>1. schedule'[b][d] = Plan(job[j], schedule[b][d], d) BY <1>0, <3>3, <3>4, <4>1
        <5> QED BY <2>1, <2>2, <3>6, <4>1, <5>1 DEF DayEffect
      <4>2. CASE ~(b = job[j].b /\ d = d1)
        <5>1. schedule'[b][d] = schedule[b][d] BY <1>0, <2>1, <3>3, <4>2
        <5> QED BY <2>1, <2>2, <3>6, <3>7, <4>2, <5>1 DEF DayEffect
      <4> QED BY <4>1, <4>2
    <3> QED BY <2>1, <2>2, <3>5, <3>6, <3>8 DEF Effects, InstitutionEffect, BranchEffect
  <2> QED BY <2>3, <2>4
<1>12. ASSUME NEW c \in Branches, NEW d1 \in Day, LoadDay(j, c, d1) PROVE Effects(j)
  <2> DEFINE row == [schedule[c][d1] EXCEPT !.active = ~@]
             jb == [Starts("day", "save") EXCEPT !.b = c, !.d = d1, !.day = row]
  <2>1. jb.op = "day" /\ jb.at = "save" /\ jb.b = c /\ jb.d = d1 /\ jb.day = row BY DEF Starts, Idle
  <2>2. job[j].at = "idle" /\ job' = [job EXCEPT ![j] = jb] /\ UNCHANGED table /\ branch[c].made
    BY <1>12 DEF LoadDay, MadeDays
  <2> HIDE DEF jb
  <2>3. /\ asked'.institution = asked.institution /\ asked'.branch = asked.branch
        /\ asked'.schedule = [asked.schedule EXCEPT ![c] = [@ EXCEPT ![d1] = row]]
    BY <1>0, <1>12 DEF LoadDay, Asked
  <2> HIDE DEF row
  <2>4. job'[j] = jb /\ \A k \in Jobs \ {j} : job'[k] = job[k] BY <1>0, <2>2
  <2>5. \A b \in Branches, d \in Day : DayEffect(j, b, d)
    <3> SUFFICES ASSUME NEW b \in Branches, NEW d \in Day PROVE DayEffect(j, b, d) OBVIOUS
    <3>1. CASE b = c /\ d = d1
      <4>1. asked'.schedule[c][d1] = row BY <1>a, <2>3
      <4>2. Plan(job'[j], schedule[c][d1], d1) = row BY <2>1, <2>4 DEF Plan
      <4>3. WritesDay(job'[j], c, d1) /\ ~WritesDay(job[j], c, d1)
        BY <2>1, <2>2, <2>4, WritesNothing DEF WritesDay
      <4> QED BY <2>2, <3>1, <4>1, <4>2, <4>3 DEF DayEffect, table
    <3>2. CASE ~(b = c /\ d = d1)
      <4>1. asked'.schedule[b][d] = asked.schedule[b][d] BY <1>a, <2>3, <3>2
      <4>2. ~WritesDay(job'[j], b, d) BY <2>1, <2>4, <3>2 DEF WritesDay
      <4> QED BY <2>2, <4>1, <4>2, LoadEffects
    <3> QED BY <3>1, <3>2
  <2>6. job'[j].op # "institution" /\ \A b : ~WritesBranch(job'[j], b) BY <2>1, <2>4 DEF WritesBranch
  <2> QED BY <2>2, <2>3, <2>4, <2>5, <2>6, LoadEffects DEF Effects
<1>13. ASSUME SaveDay(j) PROVE Effects(j)
  <2>1. /\ ~WritesInstitution(job'[j]) /\ \A b : ~WritesBranch(job'[j], b)
        /\ \A b, d : ~WritesDay(job'[j], b, d) /\ \A k \in Jobs \ {j} : job'[k] = job[k]
    BY <1>13, GoneWritesNothing DEF SaveDay
  <2>2. /\ job[j].b \in Branches /\ job[j].at = "save" /\ job[j].op = "day"
        /\ UNCHANGED <<institution, branch, asked>>
    BY <1>0, <1>13 DEF SaveDay, Writes
  <2>3. /\ ~WritesInstitution(job[j]) /\ \A b : ~WritesBranch(job[j], b)
        /\ \A b, d : WritesDay(job[j], b, d) <=> b = job[j].b /\ d = job[j].d
    BY <2>2 DEF WritesInstitution, WritesBranch, WritesDay
  <2>4. \A b \in Branches, d \in Day : DayEffect(j, b, d)
    <3>1. CASE ~branch[job[j].b].made
      <4>1. UNCHANGED schedule BY <1>13, <3>1 DEF SaveDay
      <4> QED BY <2>1, <2>2, <2>3, <3>1, <4>1 DEF DayEffect
    <3>2. CASE branch[job[j].b].made
      <4>1. schedule' = [schedule EXCEPT ![job[j].b] = [@ EXCEPT ![job[j].d] = job[j].day]]
        BY <1>13, <3>2 DEF SaveDay
      <4>2. \A old, d : Plan(job[j], old, d) = job[j].day BY <2>2 DEF Plan
      <4> SUFFICES ASSUME NEW b \in Branches, NEW d \in Day PROVE DayEffect(j, b, d) OBVIOUS
      <4>3. CASE b = job[j].b /\ d = job[j].d
        <5>1. schedule'[b][d] = Plan(job[j], schedule[b][d], d) BY <1>0, <4>1, <4>2, <4>3
        <5> QED BY <2>1, <2>2, <2>3, <4>3, <5>1 DEF DayEffect
      <4>4. CASE ~(b = job[j].b /\ d = job[j].d)
        <5>1. schedule'[b][d] = schedule[b][d] BY <1>0, <2>2, <4>1, <4>4
        <5> QED BY <2>1, <2>2, <2>3, <4>4, <5>1 DEF DayEffect
      <4> QED BY <4>3, <4>4
    <3> QED BY <3>1, <3>2
  <2> QED BY <2>1, <2>2, <2>3, <2>4 DEF Effects, InstitutionEffect, BranchEffect
<1>14. ASSUME NEW b \in Branches, NEW products \in SUBSET Products, SetSold(j, b, products) PROVE Effects(j)
  <2>1. job[j].at = "idle" /\ Goes(j, "done") /\ UNCHANGED <<institution, branch, schedule, asked>>
    BY <1>14 DEF SetSold
  <2>2. job'[j].at = "done" /\ \A k \in Jobs \ {j} : job'[k] = job[k] BY <1>0, <2>1 DEF Goes, Job
  <2> QED BY <2>1, <2>2, NoEffect
<1> QED BY <1>1, <1>2, <1>3, <1>4, <1>5, <1>6, <1>7, <1>8, <1>9, <1>10, <1>11, <1>12, <1>13, <1>14 DEF Step

LEMMA StepKeepsInstitution ==
    ASSUME Types, Types', NEW j \in Jobs, Moves(j), KeptInstitution, Effects(j)
    PROVE  KeptInstitution'
<1> USE DEF KeptInstitution
<1> SUFFICES ASSUME <<"institution">> \notin crossed' PROVE KeptInstitution' OBVIOUS
<1>0. <<"institution">> \in Rows BY DEF Rows
<1>1. /\ <<"institution">> \notin crossed
      /\ \A k \in Jobs \ {j} : WritesInstitution(job[k]) =>
           institution' = institution /\ ~WritesInstitution(job[j]) /\ ~WritesInstitution(job'[j])
  BY <1>0, Uncrossed
<1>2. \A k \in Jobs \ {j} : job'[k] = job[k] BY DEF Effects
<1>3. InstitutionEffect(j) BY DEF Effects
<1>4. institution \in Institution /\ asked.institution \in Institution /\ institution' \in Institution
  BY DEF Types, TypeOK
<1>5. CASE \A k \in Jobs \ {j} : ~WritesInstitution(job[k])
  BY <1>1, <1>2, <1>3, <1>5 DEF InstitutionEffect
<1>6. CASE \E k \in Jobs \ {j} : WritesInstitution(job[k])
  <2>1. PICK k \in Jobs \ {j} : WritesInstitution(job[k]) BY <1>6
  <2>2. institution' = institution /\ ~WritesInstitution(job[j]) /\ ~WritesInstitution(job'[j])
    BY <1>1, <2>1
  <2>3. /\ job[k].institution = asked.institution
        /\ institution.state = "deleted" => job[k].institution.state = "deleted"
        /\ \A l \in Jobs : WritesInstitution(job[l]) => l = k
    BY <1>1, <2>1
  <2>4. asked'.institution = asked.institution
    <3>1. CASE institution' = [institution EXCEPT !.state = "deleted"]
               /\ asked'.institution = [asked.institution EXCEPT !.state = "deleted"]
      <4>1. institution.state = "deleted" BY <1>4, <2>2, <3>1 DEF Institution
      <4>2. asked.institution.state = "deleted" BY <2>3, <4>1
      <4> QED BY <1>4, <3>1, <4>2 DEF Institution
    <3> QED BY <1>3, <2>2, <3>1 DEF InstitutionEffect
  <2> QED BY <1>2, <2>1, <2>2, <2>3, <2>4
<1> QED BY <1>5, <1>6

LEMMA StepKeepsBranch ==
    ASSUME Types, Types', NEW j \in Jobs, Moves(j), NEW b \in Branches, KeptBranch(b), Effects(j)
    PROVE  KeptBranch(b)'
<1>1. \A k \in Jobs \ {j} : job'[k] = job[k] BY DEF Effects
<1>2. BranchEffect(j, b) BY DEF Effects
<1>3. ASSUME NEW k \in Jobs, WritesBranch(job'[k], b) PROVE job'[k].branch.made
  <2>1. CASE k # j BY <1>1, <1>3, <2>1 DEF KeptBranch
  <2>2. CASE k = j BY <1>2, <1>3, <2>2 DEF KeptBranch, BranchEffect
  <2> QED BY <2>1, <2>2
<1>4. ASSUME <<"branch", b>> \notin crossed'
      PROVE  /\ (\A k \in Jobs : ~WritesBranch(job'[k], b)) => branch'[b] = asked'.branch[b]
             /\ \A k \in Jobs : WritesBranch(job'[k], b) =>
                  /\ job'[k].branch = asked'.branch[b]
                  /\ job'[k].op = "hours" => branch'[b].made
                  /\ \A l \in Jobs : WritesBranch(job'[l], b) => l = k
  <2>0. <<"branch", b>> \in Rows BY DEF Rows
  <2>1. /\ <<"branch", b>> \notin crossed
        /\ \A k \in Jobs \ {j} : WritesBranch(job[k], b) =>
             branch'[b] = branch[b] /\ ~WritesBranch(job[j], b) /\ ~WritesBranch(job'[j], b)
    BY <1>4, <2>0, Uncrossed
  <2>2. /\ (\A k \in Jobs : ~WritesBranch(job[k], b)) => branch[b] = asked.branch[b]
        /\ \A k \in Jobs : WritesBranch(job[k], b) =>
             /\ job[k].branch = asked.branch[b]
             /\ job[k].op = "hours" => branch[b].made
             /\ \A l \in Jobs : WritesBranch(job[l], b) => l = k
    BY <2>1 DEF KeptBranch
  <2>3. CASE \A k \in Jobs \ {j} : ~WritesBranch(job[k], b)
    BY <1>1, <1>2, <2>2, <2>3 DEF BranchEffect
  <2>4. CASE \E k \in Jobs \ {j} : WritesBranch(job[k], b)
    <3>1. PICK k \in Jobs \ {j} : WritesBranch(job[k], b) BY <2>4
    <3>2. branch'[b] = branch[b] /\ ~WritesBranch(job[j], b) /\ ~WritesBranch(job'[j], b)
      BY <2>1, <3>1
    <3>3. ~(branch'[b] = Gone /\ branch[b].made) BY <3>2 DEF Gone
    <3>4. asked'.branch[b] = asked.branch[b] BY <1>2, <3>2, <3>3 DEF BranchEffect
    <3> QED BY <1>1, <2>2, <3>1, <3>2, <3>4
  <2> QED BY <2>3, <2>4
<1> QED BY <1>3, <1>4 DEF KeptBranch

LEMMA StepKeepsDay ==
    ASSUME Types, Types', NEW j \in Jobs, Moves(j), NEW b \in Branches, NEW d \in Day,
           KeptDay(b, d), Effects(j)
    PROVE  KeptDay(b, d)'
<1>1. \A k \in Jobs \ {j} : job'[k] = job[k] BY DEF Effects
<1>2. DayEffect(j, b, d) BY DEF Effects
<1>3. SUFFICES ASSUME <<"day", b, d>> \notin crossed'
      PROVE  /\ (\A k \in Jobs : ~WritesDay(job'[k], b, d)) => schedule'[b][d] = asked'.schedule[b][d]
             /\ \A k \in Jobs : WritesDay(job'[k], b, d) =>
                  /\ Plan(job'[k], schedule'[b][d], d) = asked'.schedule[b][d]
                  /\ branch'[b].made
                  /\ \A l \in Jobs : WritesDay(job'[l], b, d) => l = k
  BY DEF KeptDay, Plan
<1>4. <<"day", b, d>> \in Rows BY DEF Rows
<1>5. /\ <<"day", b, d>> \notin crossed
      /\ \A k \in Jobs \ {j} : WritesDay(job[k], b, d) =>
           /\ schedule'[b] = schedule[b] /\ ~Removed(b)
           /\ ~WritesDay(job[j], b, d) /\ ~WritesDay(job'[j], b, d)
  BY <1>3, <1>4, Uncrossed
<1>6. /\ (\A k \in Jobs : ~WritesDay(job[k], b, d)) => schedule[b][d] = asked.schedule[b][d]
      /\ \A k \in Jobs : WritesDay(job[k], b, d) =>
           /\ Plan(job[k], schedule[b][d], d) = asked.schedule[b][d]
           /\ branch[b].made
           /\ \A l \in Jobs : WritesDay(job[l], b, d) => l = k
  BY <1>5 DEF KeptDay
<1>7. CASE \A k \in Jobs \ {j} : ~WritesDay(job[k], b, d)
  BY <1>1, <1>2, <1>6, <1>7 DEF DayEffect
<1>8. CASE \E k \in Jobs \ {j} : WritesDay(job[k], b, d)
  <2>1. PICK k \in Jobs \ {j} : WritesDay(job[k], b, d) BY <1>8
  <2>2. /\ schedule'[b] = schedule[b] /\ ~Removed(b)
        /\ ~WritesDay(job[j], b, d) /\ ~WritesDay(job'[j], b, d)
    BY <1>5, <2>1
  <2>3. branch[b].made /\ Plan(job[k], schedule[b][d], d) = asked.schedule[b][d] BY <1>6, <2>1
  <2>4. branch'[b].made BY <2>2, <2>3 DEF Removed
  <2>5. asked'.schedule[b][d] = asked.schedule[b][d] BY <1>2, <2>2 DEF DayEffect
  <2> QED BY <1>1, <1>6, <2>1, <2>2, <2>3, <2>4, <2>5
<1> QED BY <1>7, <1>8

LEMMA StepKeepsDays ==
    ASSUME Types, Kept, NEW j \in Jobs, Step(j)
    PROVE  MadeDays'
<1>0. /\ branch \in [Branches -> Branch] /\ schedule \in [Branches -> [Day -> DayRow]] /\ MadeDays
      /\ Writes(job[j])
  BY DEF Types, TypeOK, Requests, Kept
<1>1. ASSUME SaveBranch(j) PROVE MadeDays'
  <2>1. WritesBranch(job[j], job[j].b) BY <1>1 DEF SaveBranch, WritesBranch
  <2>2. job[j].b \in Branches BY <1>0, <1>1 DEF SaveBranch, Writes
  <2>3. job[j].branch.made BY <2>1, <2>2 DEF Kept, KeptBranch
  <2> QED BY <1>0, <1>1, <2>3 DEF SaveBranch, MadeDays
<1>2. ASSUME NEW c \in Branches, RemoveBranch(j, c) PROVE MadeDays'
  BY <1>0, <1>2 DEF RemoveBranch, MadeDays, NoDay
<1>3. ASSUME SaveHours(j) PROVE MadeDays'
  <2>1. WritesBranch(job[j], job[j].b) BY <1>3 DEF SaveHours, WritesBranch
  <2>2. job[j].b \in Branches BY <1>0, <1>3 DEF SaveHours, Writes
  <2>3. job[j].branch.made BY <2>1, <2>2 DEF Kept, KeptBranch
  <2>4. CASE UNCHANGED table BY <1>0, <2>4 DEF table, MadeDays
  <2>5. CASE ~UNCHANGED table
    <3> DEFINE week == [d \in Day |-> IF job[j].week[d].made
                          THEN [job[j].week[d] EXCEPT !.hours = job[j].hours]
                          ELSE schedule[job[j].b][d]]
    <3>1. /\ schedule' = [schedule EXCEPT ![job[j].b] = week]
          /\ branch' = [branch EXCEPT ![job[j].b] = job[j].branch]
      BY <1>3, <2>5 DEF SaveHours
    <3> HIDE DEF week
    <3> QED BY <1>0, <2>2, <2>3, <3>1 DEF MadeDays
  <2> QED BY <2>4, <2>5
<1>4. ASSUME NEW d \in Day, SaveDayOfWeek(j, d) PROVE MadeDays'
  <2>1. branch' = branch /\ job[j].b \in Branches BY <1>0, <1>4 DEF SaveDayOfWeek, Writes
  <2>2. CASE schedule' = schedule BY <1>0, <2>1, <2>2 DEF MadeDays
  <2>3. CASE schedule' # schedule
    <3>1. branch[job[j].b].made BY <1>4, <2>3 DEF SaveDayOfWeek
    <3>2. \A b \in Branches \ {job[j].b} : schedule'[b] = schedule[b]
      BY <1>0, <1>4, <3>1 DEF SaveDayOfWeek
    <3> QED BY <1>0, <2>1, <3>1, <3>2 DEF MadeDays
  <2> QED BY <2>2, <2>3
<1>5. ASSUME SaveDay(j) PROVE MadeDays'
  <2>1. branch' = branch /\ job[j].b \in Branches BY <1>0, <1>5 DEF SaveDay, Writes
  <2>2. CASE schedule' = schedule BY <1>0, <2>1, <2>2 DEF MadeDays
  <2>3. CASE schedule' # schedule
    <3>1. branch[job[j].b].made BY <1>5, <2>3 DEF SaveDay
    <3>2. \A b \in Branches \ {job[j].b} : schedule'[b] = schedule[b]
      BY <1>0, <1>5, <3>1 DEF SaveDay
    <3> QED BY <1>0, <2>1, <3>1, <3>2 DEF MadeDays
  <2> QED BY <2>2, <2>3
<1>6. ASSUME UNCHANGED <<branch, schedule>> PROVE MadeDays' BY <1>0, <1>6 DEF MadeDays
<1>7. UNCHANGED <<branch, schedule>> \/ SaveBranch(j) \/ (\E c \in Branches : RemoveBranch(j, c))
      \/ SaveHours(j) \/ (\E d \in Day : SaveDayOfWeek(j, d)) \/ SaveDay(j)
  BY DEF Step, LoadInstitution, SaveInstitution, DeleteCategory, LoadBranch, LoadHours, ReadWeek,
         LoadWeek, LoadDay, SetSold, Keeps, table
<1> QED BY <1>1, <1>2, <1>3, <1>4, <1>5, <1>6, <1>7

LEMMA NextKept == Types /\ Kept /\ [Next]_vars => Kept'
<1> SUFFICES ASSUME Types, Kept, [Next]_vars PROVE Kept' OBVIOUS
<1>0. Types' BY NextTypes
<1>1. ASSUME NEW j \in Jobs, Step(j), UNCHANGED clock,
             crossed' = crossed \cup (Others(j) \cap (Changed \cup Writing(job[j]) \cup Writing(job'[j])))
      PROVE  Kept'
  <2>1. Effects(j) BY <1>1, StepEffects DEF Kept
  <2>2. Moves(j) BY <1>1, <2>1 DEF Moves, Effects
  <2>3. KeptInstitution' BY <1>0, <2>1, <2>2, StepKeepsInstitution DEF Kept
  <2>4. \A b \in Branches : KeptBranch(b)' BY <1>0, <2>1, <2>2, StepKeepsBranch DEF Kept
  <2>5. \A b \in Branches, d \in Day : KeptDay(b, d)' BY <1>0, <2>1, <2>2, StepKeepsDay DEF Kept
  <2>6. MadeDays' BY <1>1, StepKeepsDays
  <2> QED BY <2>3, <2>4, <2>5, <2>6 DEF Kept
<1>2. ASSUME UNCHANGED <<table, job, asked, crossed>> PROVE Kept'
  BY <1>2 DEF table, Kept, MadeDays, KeptInstitution, KeptBranch, KeptDay
<1>3. CASE Tick /\ UNCHANGED crossed BY <1>2, <1>3 DEF Tick
<1>4. CASE UNCHANGED vars BY <1>2, <1>4 DEF vars
<1> QED BY <1>1, <1>3, <1>4 DEF Next

\* A closing, a deletion or a day off is not taken back by a request about
\* something else, as long as no two requests for one row overlap.
THEOREM RowsStay == Spec => []KeptAsAsked
<1> DEFINE IInv == Types /\ Kept
<1>1. Init => IInv BY Initially, InitiallyKept
<1>2. IInv /\ [Next]_vars => IInv' BY NextTypes, NextKept
<1>3. IInv => KeptAsAsked BY KeptGivesAsked
<1> HIDE DEF IInv
<1> QED BY <1>1, <1>2, <1>3, PTL DEF Spec

-----------------------------------------------------------------------------
(* Catalogue: the invariant.                                               *)

\* What a job of each kind comes through.
AtImport == {"place", "add place", "categories", "add category", "items", "add item",
             "link item", "link new", "look item", "look new", "add row", "add new"}
Linking == {"link item", "link new", "look item", "look new", "add row", "add new"}
AtBranch == {"look item", "look new", "add row", "add new"}
Route(jb) ==
    \/ jb.op = "none" /\ jb.at \in {"idle", "done"}
    \/ jb.op = "product" /\ jb.at \in {"branches", "link", "done", "dead"}
    \/ jb.op = "branch" /\ jb.at \in {"link", "done"}
    \/ jb.op = "product row" /\ jb.at \in {"save", "availability", "insert", "write", "done", "dead"}
    \/ jb.op = "category row" /\ jb.at \in {"save", "products", "done"}
    \/ jb.op = "import" /\ jb.at \in AtImport \cup {"done", "dead"}

\* Kinds of jobs that make rows.
ForProduct(jb) == jb.op = "product" /\ jb.at \in {"branches", "link"}
ForBranch(jb)  == jb.op = "branch" /\ jb.at = "link"
ForPair(jb)    == jb.at \in {"insert", "add row", "add new"}
\* Import jobs with an item in hand.
InHand(jb)     == jb.at \in {"add item"} \cup Linking

\* The job speaks of a product there is, and of branches there are.
KnowsProduct(j) ==
    (\/ ForProduct(work[j]) \/ work[j].op = "product row"
     \/ work[j].at \in Linking) => work[j].p \in MadeProducts
KnowsBranches(j) ==
    /\ work[j].op = "product row" => work[j].todo \subseteq MadeBranches
    /\ work[j].at \in {"insert", "write"} \cup AtBranch => work[j].b \in MadeBranches

\* A new product has the rows that crossing jobs made, and no others; a branch
\* its maker did not read crossed it.
ProductToCome(j) ==
    ForProduct(work[j]) =>
        /\ \A b \in BranchIds : Len(rows[work[j].p][b]) > 0 => <<work[j].p, b>> \in contested
        /\ work[j].at = "link" =>
             /\ work[j].snap \subseteq MadeBranches
             /\ \A b \in BranchIds : branches[b] = "crm" /\ b \notin work[j].snap
                                     => <<work[j].p, b>> \in contested

\* A new branch is not there yet, and its key is its own.
BranchToCome(j) ==
    ForBranch(work[j]) =>
        /\ work[j].b \in BranchIds \ MadeBranches
        /\ work[j].snap \subseteq MadeProducts
        /\ \A p \in ProductIds : product[p].maker = "crm" /\ p \notin work[j].snap
                                 => <<p, work[j].b>> \in contested
        /\ \A k \in Workers \ {j} : ForBranch(work[k]) => work[k].b # work[j].b

\* A row that a job is about to insert is still missing; one it changes is there,
\* unless it went with its branch.
RowToCome(j) ==
    /\ ForPair(work[j]) /\ Len(rows[work[j].p][work[j].b]) > 0
         => <<work[j].p, work[j].b>> \in contested
    /\ work[j].at = "write" => \/ Len(rows[work[j].p][work[j].b]) > 0
                               \/ branches[work[j].b] = "gone"

\* The object in memory belongs to the product it will be saved for.
RowInMemory(j) ==
    work[j].op = "product row" /\ work[j].at = "save" =>
        /\ work[j].row.maker = product[work[j].p].maker
        /\ work[j].row.uuid = product[work[j].p].uuid

\* A branch of the place is one, until it is deleted; an item put on its menu is
\* on it until then.
OfPlace(b) == b \in PlaceBranches \/ (b \in BranchIds /\ branches[b] = "gone")
OnMenu(item, b) ==
    branches[b] = "gone" \/ (b \in PlaceBranches /\ \E p \in From(item) : Len(rows[p][b]) > 0)
Delivered(j, item) == \E b \in BranchIds : <<item, b>> \in work[j].put /\ OnMenu(item, b)

\* An import has in hand the product of its item and the branch it links to, and
\* has put on the menu what is behind it.
ImportSoFar(j) ==
    /\ InHand(work[j]) => work[j].item \in Items
    /\ \A p, item : work[j].at \in Linking /\ p = work[j].p /\ item = work[j].item
                    => p \in From(item)
    /\ \A b : work[j].at \in AtBranch /\ b = work[j].b => OfPlace(b)
    /\ work[j].op = "import" /\ work[j].at # "dead" =>
         \A item \in Items \ (work[j].todo \cup work[j].failed) :
            Delivered(j, item) \/ (InHand(work[j]) /\ item = work[j].item)
    /\ work[j].op = "import" /\ work[j].at = "done" => work[j].todo = {}

\* An import that is alone finds nothing between its look and its insert.
NothingSince(j) ==
    /\ work[j].at = "add place" => PlaceBranches = {}
    /\ work[j].at = "add item" => From(work[j].item) = {}

WorkOK(j) ==
    /\ Route(work[j]) /\ KnowsProduct(j) /\ KnowsBranches(j)
    /\ ProductToCome(j) /\ BranchToCome(j) /\ RowToCome(j) /\ RowInMemory(j)
    /\ ImportSoFar(j)
    /\ ~parallel => NothingSince(j)

RowsOfMade ==
    \A p \in ProductIds, b \in BranchIds :
       Len(rows[p][b]) > 0 => p \in MadeProducts /\ b \in MadeBranches

OneImport == ~parallel => \A i, k \in Workers : i # k => ~(Importing(work[i]) /\ Importing(work[k]))

MenuInv ==
    /\ MenuTypeOK
    /\ \A j \in Workers : WorkOK(j)
    /\ RowsOfMade
    /\ Crossing(work) \subseteq contested
    /\ OneImport
    /\ OneRowEach /\ ImportedOnce

\* What one step of j may do to the tables, as far as others can tell.
NewBranch(b)  == b \notin MadeBranches /\ branches'[b] # "none"
NewProduct(p) == p \notin MadeProducts /\ product'[p].maker # "none"
Makes(jb, p, b) ==
    \/ ForProduct(jb) /\ p = jb.p
    \/ ForBranch(jb) /\ b = jb.b
    \/ ForPair(jb) /\ p = jb.p /\ b = jb.b

TablesOK ==
    /\ category \in [CategoryIds -> Category]
    /\ product \in [ProductIds -> Product]
    /\ branches \in [BranchIds -> BranchStates]
    /\ rows \in [ProductIds -> [BranchIds -> Seq(BOOLEAN)]]
    /\ work \in [Workers -> Work]

BranchStep(j) ==
    /\ \A b \in MadeBranches : branches'[b] = branches[b] \/ branches'[b] = "gone"
    /\ \A b \in BranchIds : NewBranch(b) =>
         \/ branches'[b] = "crm" /\ ForBranch(work[j]) /\ work[j].b = b
         \/ branches'[b] = "import" /\ work[j].at = "add place" /\ b \notin Taken
    /\ \A b, c \in BranchIds : NewBranch(b) /\ NewBranch(c) => b = c

ProductStep(j) ==
    /\ \A p \in MadeProducts : product'[p].maker = product[p].maker /\ product'[p].uuid = product[p].uuid
    /\ \A p \in ProductIds : NewProduct(p) =>
         /\ product'[p].maker = "crm" => ForProduct(work'[j]) /\ work'[j].p = p
         /\ product'[p].uuid # NoKey => work[j].at = "add item" /\ product'[p].uuid = work[j].item
    /\ \A p, q \in ProductIds : NewProduct(p) /\ NewProduct(q) => p = q

RowStep(j) ==
    \A p \in ProductIds, b \in BranchIds :
       /\ \/ Len(rows'[p][b]) = Len(rows[p][b])
          \/ /\ Makes(work[j], p, b) /\ p \in MadeProducts /\ branches'[b] # "none"
             /\ Len(rows'[p][b]) = Len(rows[p][b]) + 1
          \/ branches'[b] = "gone" /\ Len(rows'[p][b]) = 0
       /\ /\ <<p, b>> \notin contested
          /\ product'[p].maker = "crm" /\ product'[p].whole /\ branches'[b] = "crm"
          => Len(rows'[p][b]) > 0

StepOfWork(j) ==
    /\ TablesOK'
    /\ \A k \in Workers \ {j} : work'[k] = work[k]
    /\ ForBranch(work'[j]) => work'[j].b \notin Taken
    /\ BranchStep(j) /\ ProductStep(j) /\ RowStep(j)

\* What NextMenu says beside the step.
Noted ==
    /\ contested' = contested \cup Crossing(work')
    /\ parallel' = (parallel \/ \E i, k \in Workers :
                      i # k /\ Importing(work'[i]) /\ Importing(work'[k]))

-----------------------------------------------------------------------------
LEMMA MenuConstants ==
    /\ ProductIds \subseteq Nat /\ BranchIds \subseteq Nat /\ CategoryIds \subseteq Nat
    /\ 1 \in ProductIds /\ 1 \in BranchIds /\ 1 \in CategoryIds
    /\ NoKey \notin Items /\ NoKey \notin ProductIds /\ NoKey \notin BranchIds
    /\ NoKey \notin CategoryIds
BY CatalogueAssumption

LEMMA NoneOrSome == \A n : n = 0 => ~(n > 0)
OBVIOUS

\* First picks a member of the set.
LEMMA FirstIsIn == ASSUME NEW S, S \subseteq Nat, S # {} PROVE First(S) \in S
<1> DEFINE R == OpToRel(<, Nat)
<1>1. IsWellFoundedOn(R, Nat) BY NatLessThanWellFounded
<1>2. \A x, y \in Nat : y < x => <<y, x>> \in R BY DEF OpToRel
<1> HIDE DEF R
<1>3. PICK x \in S : \A y \in S : ~(<<y, x>> \in R) BY ONLY <1>1, WFMin, S \subseteq Nat, S # {}
<1>4. \A y \in S : x <= y
  <2>1. \A y \in S : x \in Nat /\ y \in Nat /\ ~(y < x) BY <1>2, <1>3
  <2> QED BY <2>1
<1> QED BY ONLY <1>3, <1>4 DEF First

\* Two jobs that make a row for one pair cross there.
LEMMA Crosses ==
    ASSUME NEW jobs, NEW i \in Workers, NEW k \in Workers, i # k,
           NEW p \in ProductIds, NEW b \in BranchIds, Makes(jobs[i], p, b), Makes(jobs[k], p, b)
    PROVE  <<p, b>> \in Crossing(jobs)
<1>1. ASSUME NEW jb, Makes(jb, p, b) PROVE <<p, b>> \in Making(jb)
  BY <1>1 DEF Makes, Making, ForProduct, ForBranch, ForPair
<1> QED BY <1>1 DEF Crossing

\* Rows of a pair are a sequence.
LEMMA TypedRows ==
    ASSUME TablesOK, NEW p \in ProductIds, NEW b \in BranchIds
    PROVE  rows[p][b] \in Seq(BOOLEAN) /\ Len(rows[p][b]) \in Nat
BY DEF TablesOK

\* Taken are the keys of branches being created.
LEMMA TakenAre ==
    \A b : b \in Taken <=> \E k \in Workers : ForBranch(work[k]) /\ work[k].b = b
BY DEF Taken, ForBranch

\* What there is stays, but for a branch that is deleted and its rows.
LEMMA Grown ==
    ASSUME TablesOK, NEW j \in Workers, StepOfWork(j)
    PROVE  /\ MadeProducts \subseteq MadeProducts' /\ MadeBranches \subseteq MadeBranches'
           /\ \A b : OfPlace(b) => OfPlace(b)'
           /\ \A item : \A p \in From(item) : p \in From(item)'
           /\ \A p \in ProductIds, b \in BranchIds :
                Len(rows[p][b]) > 0 => Len(rows'[p][b]) > 0 \/ branches'[b] = "gone"
           /\ \A b \in BranchIds : branches[b] = "gone" => branches'[b] = "gone"
           /\ \A item \in Items, b \in BranchIds : OnMenu(item, b) => OnMenu(item, b)'
<1>1. MadeProducts \subseteq MadeProducts' BY DEF StepOfWork, ProductStep, MadeProducts
<1>2. MadeBranches \subseteq MadeBranches' BY DEF StepOfWork, BranchStep, MadeBranches
<1>3. \A b \in BranchIds : branches[b] = "gone" => branches'[b] = "gone"
  BY DEF StepOfWork, BranchStep, MadeBranches
<1>4. \A b \in PlaceBranches : b \in BranchIds /\ (b \in PlaceBranches' \/ branches'[b] = "gone")
  BY DEF StepOfWork, BranchStep, MadeBranches, PlaceBranches
<1>5. \A b : OfPlace(b) => OfPlace(b)' BY <1>3, <1>4 DEF OfPlace
<1>6. \A item : \A p \in From(item) : p \in From(item)'
  <2> SUFFICES ASSUME NEW item, NEW p \in From(item) PROVE p \in From(item)' OBVIOUS
  <2>1. p \in MadeProducts /\ p \in MadeProducts' /\ product[p].uuid = item BY <1>1 DEF From
  <2>2. product'[p].uuid = item BY <2>1 DEF StepOfWork, ProductStep
  <2> QED BY <2>1, <2>2 DEF From
<1>7. ASSUME NEW p \in ProductIds, NEW b \in BranchIds, Len(rows[p][b]) > 0
      PROVE  Len(rows'[p][b]) > 0 \/ branches'[b] = "gone"
  <2>1. Len(rows[p][b]) \in Nat BY TypedRows
  <2>2. \/ Len(rows'[p][b]) = Len(rows[p][b]) \/ Len(rows'[p][b]) = Len(rows[p][b]) + 1
        \/ branches'[b] = "gone"
    BY DEF StepOfWork, RowStep
  <2> QED BY ONLY <1>7, <2>1, <2>2
<1>8. \A item \in Items, b \in BranchIds : OnMenu(item, b) => OnMenu(item, b)'
  <2> SUFFICES ASSUME NEW item \in Items, NEW b \in BranchIds, OnMenu(item, b),
                      ~(branches'[b] = "gone")
               PROVE  OnMenu(item, b)'
    BY DEF OnMenu
  <2>1. b \in PlaceBranches BY <1>3 DEF OnMenu
  <2>2. PICK p \in From(item) : Len(rows[p][b]) > 0 BY <1>3 DEF OnMenu
  <2>3. p \in ProductIds BY <2>2 DEF From, MadeProducts
  <2>4. p \in From(item)' /\ b \in PlaceBranches' /\ Len(rows'[p][b]) > 0
    BY <1>4, <1>6, <1>7, <2>1, <2>2, <2>3
  <2> QED BY <2>4 DEF OnMenu
<1> QED BY <1>1, <1>2, <1>3, <1>5, <1>6, <1>7, <1>8

-----------------------------------------------------------------------------
(* A step leaves the other jobs as they should be.                         *)

\* The rows another job is about to make are missing, or contested.
LEMMA OthersRows ==
    ASSUME MenuInv, NEW j \in Workers, StepOfWork(j), Noted, NEW k \in Workers, k # j
    PROVE  ProductToCome(k)' /\ RowToCome(k)'
<1>1. work'[k] = work[k] /\ contested \subseteq contested' BY DEF StepOfWork, Noted
<1>2. WorkOK(k) /\ TablesOK /\ work[k] \in Work BY DEF MenuInv, MenuTypeOK, TablesOK
<1>3. ASSUME NEW p \in ProductIds, NEW b \in BranchIds, Makes(work[k], p, b), Makes(work[j], p, b)
      PROVE  <<p, b>> \in contested'
  BY <1>1, <1>3, Crosses DEF MenuInv
<1>4. ProductToCome(k)'
  <2> SUFFICES ASSUME ForProduct(work[k]) PROVE ProductToCome(k)' BY <1>1 DEF ProductToCome
  <2> DEFINE p == work[k].p
  <2>1. p \in MadeProducts /\ p \in ProductIds BY <1>2 DEF WorkOK, KnowsProduct, MadeProducts
  <2>2. ASSUME NEW b \in BranchIds, Len(rows'[p][b]) > 0 PROVE <<p, b>> \in contested'
    <3>1. CASE Len(rows[p][b]) > 0 BY <1>1, <1>2, <3>1 DEF WorkOK, ProductToCome
    <3>2. CASE ~(Len(rows[p][b]) > 0)
      <4>1. Makes(work[j], p, b) BY <2>1, <2>2, <3>2, NoneOrSome DEF StepOfWork, RowStep
      <4>2. Makes(work[k], p, b) BY DEF Makes
      <4> QED BY <1>3, <2>1, <4>1, <4>2
    <3> QED BY <3>1, <3>2
  <2>3. ASSUME work[k].at = "link", NEW b \in BranchIds, branches'[b] = "crm", b \notin work[k].snap
        PROVE  <<p, b>> \in contested'
    <3>1. CASE b \in MadeBranches
      <4>1. branches[b] = "crm" BY <2>3, <3>1 DEF StepOfWork, BranchStep
      <4> QED BY <1>1, <1>2, <2>3, <4>1 DEF WorkOK, ProductToCome
    <3>2. CASE b \notin MadeBranches
      <4>1. Makes(work[j], p, b) BY <2>3, <3>2 DEF StepOfWork, BranchStep, NewBranch, Makes
      <4>2. Makes(work[k], p, b) BY DEF Makes
      <4> QED BY <1>3, <2>1, <4>1, <4>2
    <3> QED BY <3>1, <3>2
  <2>4. work[k].at = "link" => work[k].snap \subseteq MadeBranches'
    BY <1>2, Grown DEF WorkOK, ProductToCome
  <2> QED BY <1>1, <2>2, <2>3, <2>4 DEF ProductToCome
<1>5. RowToCome(k)'
  <2> DEFINE p == work[k].p
             b == work[k].b
  <2>1. ASSUME ForPair(work[k]) \/ work[k].at = "write" PROVE p \in ProductIds /\ b \in BranchIds
    <3>1. p \in MadeProducts /\ b \in MadeBranches
      BY <1>2, <2>1
      DEF WorkOK, KnowsProduct, KnowsBranches, ForPair, Route, AtImport, Linking, AtBranch
    <3> QED BY <3>1 DEF MadeProducts, MadeBranches
  <2>2. ASSUME ForPair(work[k]), Len(rows'[p][b]) > 0 PROVE <<p, b>> \in contested'
    <3>1. CASE Len(rows[p][b]) > 0 BY <1>1, <1>2, <2>2, <3>1 DEF WorkOK, RowToCome
    <3>2. CASE ~(Len(rows[p][b]) > 0)
      <4>1. Makes(work[j], p, b) BY <2>1, <2>2, <3>2, NoneOrSome DEF StepOfWork, RowStep
      <4>2. Makes(work[k], p, b) BY <2>2 DEF Makes
      <4> QED BY <1>3, <2>1, <2>2, <4>1, <4>2
    <3> QED BY <3>1, <3>2
  <2>3. work[k].at = "write" => Len(rows'[p][b]) > 0 \/ branches'[b] = "gone"
    BY <1>2, <2>1, Grown DEF WorkOK, RowToCome
  <2> QED BY <1>1, <2>2, <2>3 DEF RowToCome
<1> QED BY <1>4, <1>5

\* A product that comes while a branch is created contests it.
LEMMA OthersBranch ==
    ASSUME MenuInv, NEW j \in Workers, StepOfWork(j), Noted, NEW k \in Workers, k # j
    PROVE  BranchToCome(k)'
<1>1. work'[k] = work[k] /\ contested \subseteq contested' /\ Crossing(work') \subseteq contested'
  BY DEF StepOfWork, Noted
<1>2. WorkOK(k) /\ TablesOK BY DEF MenuInv, MenuTypeOK, TablesOK
<1> SUFFICES ASSUME ForBranch(work[k]) PROVE BranchToCome(k)' BY <1>1 DEF BranchToCome
<1> DEFINE b == work[k].b
<1>3. /\ b \in BranchIds \ MadeBranches /\ b \in Taken /\ work[k].snap \subseteq MadeProducts
      /\ \A l \in Workers \ {k} : ForBranch(work[l]) => work[l].b # b
      /\ \A p \in ProductIds : product[p].maker = "crm" /\ p \notin work[k].snap => <<p, b>> \in contested
  BY <1>2, TakenAre DEF WorkOK, BranchToCome
<1>4. b \in BranchIds \ MadeBranches'
  <2>1. ~NewBranch(b) BY <1>3 DEF StepOfWork, BranchStep
  <2> QED BY <1>3, <2>1 DEF NewBranch, MadeBranches
<1>5. work[k].snap \subseteq MadeProducts' BY <1>2, <1>3, Grown
<1>6. ASSUME NEW p \in ProductIds, product'[p].maker = "crm", p \notin work[k].snap
      PROVE  <<p, b>> \in contested'
  <2>1. CASE p \in MadeProducts
    <3>1. product[p].maker = "crm" BY <1>6, <2>1 DEF StepOfWork, ProductStep
    <3> QED BY <1>1, <1>3, <1>6, <3>1
  <2>2. CASE p \notin MadeProducts
    <3>1. ForProduct(work'[j]) /\ work'[j].p = p BY <1>6, <2>2 DEF StepOfWork, ProductStep, NewProduct
    <3>2. Makes(work'[j], p, b) /\ Makes(work'[k], p, b) BY <1>1, <3>1 DEF Makes
    <3> HIDE DEF b
    <3>3. <<p, b>> \in Crossing(work') BY <1>3, <3>2, Crosses
    <3> QED BY <1>1, <3>3
  <2> QED BY <2>1, <2>2
<1>7. ASSUME NEW l \in Workers \ {k}, ForBranch(work'[l]) PROVE work'[l].b # b
  BY <1>3, <1>7 DEF StepOfWork
<1> QED BY <1>1, <1>4, <1>5, <1>6, <1>7 DEF BranchToCome

\* What another import, or request on a product, knows stays true.
LEMMA OthersImport ==
    ASSUME MenuInv, NEW j \in Workers, StepOfWork(j), Noted, NEW k \in Workers, k # j
    PROVE  /\ Route(work[k])' /\ KnowsProduct(k)' /\ KnowsBranches(k)' /\ RowInMemory(k)'
           /\ ImportSoFar(k)' /\ (~parallel => NothingSince(k))'
<1>1. work'[k] = work[k] BY DEF StepOfWork
<1>2. WorkOK(k) /\ TablesOK BY DEF MenuInv, MenuTypeOK, TablesOK
<1>3. Route(work[k])' /\ KnowsProduct(k)' /\ KnowsBranches(k)'
  BY <1>1, <1>2, Grown DEF WorkOK, KnowsProduct, KnowsBranches
<1>4. RowInMemory(k)'
  BY <1>1, <1>2 DEF WorkOK, KnowsProduct, RowInMemory, StepOfWork, ProductStep
<1>5. ImportSoFar(k)'
  <2>1. \A item \in Items : Delivered(k, item) => Delivered(k, item)'
    BY <1>1, <1>2, Grown DEF Delivered
  <2>2. ImportSoFar(k) BY <1>2 DEF WorkOK
  <2>3. \A b : work[k].at \in AtBranch /\ b = work[k].b => OfPlace(b)'
    BY <1>2, <2>2, Grown DEF ImportSoFar
  <2>4. \A p, item : work[k].at \in Linking /\ p = work[k].p /\ item = work[k].item => p \in From(item)'
    BY <1>2, <2>2, Grown DEF ImportSoFar
  <2> QED BY <1>1, <2>1, <2>2, <2>3, <2>4 DEF ImportSoFar
<1>6. ASSUME ~parallel' PROVE NothingSince(k)'
  <2>1. ~parallel /\ NothingSince(k) /\ ~(Importing(work[k]) /\ Importing(work[j]))
    BY <1>2, <1>6 DEF Noted, MenuInv, OneImport, WorkOK
  <2>2. work[k].at \in {"add place", "add item"} => Importing(work[k])
    BY <1>2 DEF WorkOK, Route, Importing, AtImport
  <2>3. work[j].at \in {"add place", "add item"} => Importing(work[j])
    BY DEF MenuInv, WorkOK, Route, Importing, AtImport
  <2>4. ASSUME work[k].at = "add place" PROVE PlaceBranches' = {}
    <3>1. PlaceBranches = {} /\ work[j].at # "add place" BY <2>1, <2>2, <2>3, <2>4 DEF NothingSince
    <3>2. \A b \in BranchIds : branches'[b] = "import" => branches[b] = "import"
      BY <3>1 DEF StepOfWork, BranchStep, NewBranch, MadeBranches
    <3> QED BY <3>1, <3>2 DEF PlaceBranches
  <2>5. ASSUME work[k].at = "add item", NEW p \in From(work[k].item)' PROVE FALSE
    <3>1. work[j].at # "add item" /\ work[k].item \in Items /\ From(work[k].item) = {}
      BY <1>2, <2>1, <2>2, <2>3, <2>5 DEF NothingSince, WorkOK, ImportSoFar, InHand
    <3>2. p \in ProductIds /\ product'[p].maker # "none" /\ product'[p].uuid = work[k].item
      BY <1>1, <2>5 DEF From, MadeProducts
    <3>3. p \in MadeProducts
      BY <3>1, <3>2, MenuConstants DEF StepOfWork, ProductStep, NewProduct
    <3>4. product[p].uuid = work[k].item BY <3>2, <3>3 DEF StepOfWork, ProductStep
    <3> QED BY <3>1, <3>3, <3>4 DEF From
  <2>6. work[k].at = "add item" => From(work[k].item)' = {} BY <2>5
  <2> QED BY <1>1, <2>4, <2>6 DEF NothingSince
<1> QED BY <1>3, <1>4, <1>5, <1>6

\* The tables as a whole.
LEMMA TablesKept ==
    ASSUME MenuInv, NEW j \in Workers, StepOfWork(j), Noted
    PROVE  /\ MenuTypeOK' /\ RowsOfMade' /\ (Crossing(work) \subseteq contested)' /\ OneImport'
           /\ OneRowEach' /\ ImportedOnce'
<1>1. TablesOK /\ WorkOK(j) /\ contested \subseteq contested' BY DEF MenuInv, MenuTypeOK, TablesOK, Noted
<1>2. MenuTypeOK' /\ (Crossing(work) \subseteq contested)' /\ OneImport'
  <2>1. contested' \subseteq ProductIds \X BranchIds /\ parallel' \in BOOLEAN
    BY DEF MenuInv, MenuTypeOK, Noted, Crossing
  <2> QED BY <2>1 DEF StepOfWork, MenuTypeOK, TablesOK, Noted, OneImport
<1>3. RowsOfMade'
  <2> SUFFICES ASSUME NEW p \in ProductIds, NEW b \in BranchIds, Len(rows'[p][b]) > 0
               PROVE  p \in MadeProducts' /\ b \in MadeBranches'
    BY DEF RowsOfMade
  <2>1. CASE Len(rows[p][b]) > 0 BY <1>1, <2>1, Grown DEF MenuInv, RowsOfMade
  <2>2. CASE ~(Len(rows[p][b]) > 0)
    <3>1. p \in MadeProducts /\ branches'[b] # "none" BY <2>2, NoneOrSome DEF StepOfWork, RowStep
    <3> QED BY <1>1, <3>1, Grown DEF MadeBranches
  <2> QED BY <2>1, <2>2
<1>4. OneRowEach'
  <2> SUFFICES ASSUME NEW p \in ProductIds, NEW b \in BranchIds, <<p, b>> \notin contested'
               PROVE  /\ Len(rows'[p][b]) <= 1
                      /\ product'[p].maker = "crm" /\ product'[p].whole /\ branches'[b] = "crm"
                           => Len(rows'[p][b]) = 1
    BY DEF OneRowEach
  <2>1. <<p, b>> \notin contested /\ Len(rows[p][b]) \in Nat /\ Len(rows[p][b]) <= 1
    BY <1>1, TypedRows DEF MenuInv, OneRowEach
  <2>2. Makes(work[j], p, b) /\ p \in MadeProducts /\ branches'[b] # "none" => Len(rows[p][b]) = 0
    <3>1. CASE ForProduct(work[j]) /\ p = work[j].p
      BY <1>1, <2>1, <3>1 DEF WorkOK, ProductToCome
    <3>2. CASE ForBranch(work[j]) /\ b = work[j].b
      BY <1>1, <2>1, <3>2 DEF WorkOK, BranchToCome, MenuInv, RowsOfMade
    <3>3. CASE ForPair(work[j]) /\ p = work[j].p /\ b = work[j].b
      BY <1>1, <2>1, <3>3 DEF WorkOK, RowToCome
    <3> QED BY <3>1, <3>2, <3>3 DEF Makes
  <2>3. /\ Len(rows'[p][b]) = Len(rows[p][b])
           \/ /\ Makes(work[j], p, b) /\ p \in MadeProducts /\ branches'[b] # "none"
              /\ Len(rows'[p][b]) = Len(rows[p][b]) + 1
           \/ Len(rows'[p][b]) = 0
        /\ product'[p].maker = "crm" /\ product'[p].whole /\ branches'[b] = "crm"
             => Len(rows'[p][b]) > 0
    BY <2>1 DEF StepOfWork, RowStep
  <2>4. Len(rows'[p][b]) \in Nat /\ Len(rows'[p][b]) <= 1 BY <2>1, <2>2, <2>3
  <2>5. \A n \in Nat : n <= 1 /\ n > 0 => n = 1 OBVIOUS
  <2>6. Len(rows'[p][b]) > 0 => Len(rows'[p][b]) = 1 BY <2>4, <2>5
  <2> QED BY <2>3, <2>4, <2>6
<1>5. ImportedOnce'
  <2> SUFFICES ASSUME ~parallel'
               PROVE  /\ \A b, c \in PlaceBranches' : b = c
                      /\ \A item \in Items : \A p, q \in From(item)' : p = q
    BY DEF ImportedOnce
  <2>1. /\ ~parallel /\ NothingSince(j) /\ \A b, c \in PlaceBranches : b = c
        /\ \A item \in Items : \A p, q \in From(item) : p = q
    BY <1>1 DEF Noted, MenuInv, WorkOK, ImportedOnce
  <2>2. ASSUME NEW b \in PlaceBranches', NEW c \in PlaceBranches' PROVE b = c
    <3>1. ASSUME NEW d \in PlaceBranches', d \notin PlaceBranches
          PROVE  NewBranch(d) /\ d \in BranchIds /\ PlaceBranches = {}
      <4>1. d \in BranchIds /\ branches'[d] = "import" /\ branches[d] # "import"
        BY <3>1 DEF PlaceBranches
      <4>2. NewBranch(d) BY <4>1 DEF NewBranch, StepOfWork, BranchStep
      <4> QED BY <2>1, <4>1, <4>2 DEF StepOfWork, BranchStep, NothingSince
    <3> QED BY <2>1, <2>2, <3>1 DEF StepOfWork, BranchStep
  <2>3. ASSUME NEW item \in Items, NEW p \in From(item)', NEW q \in From(item)' PROVE p = q
    <3>1. ASSUME NEW r \in From(item)', r \notin From(item)
          PROVE  NewProduct(r) /\ r \in ProductIds /\ From(item) = {}
      <4>1. r \in ProductIds /\ product'[r].maker # "none" /\ product'[r].uuid = item
        BY <3>1 DEF From, MadeProducts
      <4>2. r \notin MadeProducts BY <3>1, <4>1 DEF From, StepOfWork, ProductStep
      <4>3. NewProduct(r) BY <4>1, <4>2 DEF NewProduct
      <4>4. work[j].at = "add item" /\ item = work[j].item
        BY <4>1, <4>3, MenuConstants DEF StepOfWork, ProductStep
      <4> QED BY <2>1, <4>1, <4>3, <4>4 DEF NothingSince
    <3> QED BY <2>1, <2>3, <3>1 DEF StepOfWork, ProductStep
  <2> QED BY <2>2, <2>3
<1> QED BY <1>2, <1>3, <1>4, <1>5

\* A step of j that leaves j as it should be keeps the invariant.
LEMMA StepKeepsMenu ==
    ASSUME MenuInv, NEW j \in Workers, StepOfWork(j), Noted, WorkOK(j)'
    PROVE  MenuInv'
<1>1. ASSUME NEW k \in Workers, k # j PROVE WorkOK(k)'
  BY <1>1, OthersRows, OthersBranch, OthersImport DEF WorkOK
<1> QED BY <1>1, TablesKept DEF MenuInv

-----------------------------------------------------------------------------
(* What the actions are made of.                                           *)

\* The jobs after one of them becomes x.
LEMMA WorkIs ==
    ASSUME TablesOK, NEW j \in Workers, NEW x \in Work, work' = [work EXCEPT ![j] = x]
    PROVE  /\ work' \in [Workers -> Work] /\ work'[j] = x
           /\ \A k \in Workers \ {j} : work'[k] = work[k]
BY DEF TablesOK

\* MovesOn changes nothing of the job but where it is.
LEMMA Moved ==
    ASSUME TablesOK, NEW j \in Workers, NEW at \in Places, MovesOn(j, at)
    PROVE  /\ work' \in [Workers -> Work] /\ \A k \in Workers \ {j} : work'[k] = work[k]
           /\ work'[j].at = at /\ work'[j].op = work[j].op /\ work'[j].p = work[j].p
           /\ work'[j].b = work[j].b /\ work'[j].snap = work[j].snap /\ work'[j].todo = work[j].todo
           /\ work'[j].item = work[j].item /\ work'[j].failed = work[j].failed
           /\ work'[j].put = work[j].put
<1>1. work[j] \in Work BY DEF TablesOK
<1>2. [work[j] EXCEPT !.at = at] \in Work BY <1>1 DEF Work
<1>3. work' = [work EXCEPT ![j] = [work[j] EXCEPT !.at = at]] BY DEF MovesOn
<1>4. /\ work' \in [Workers -> Work] /\ work'[j] = [work[j] EXCEPT !.at = at]
      /\ \A k \in Workers \ {j} : work'[k] = work[k]
  BY <1>2, <1>3, WorkIs
<1> QED BY <1>1, <1>4 DEF Work

\* Linked makes one row more for every pair it names, and no others.
LEMMA LinkedRows ==
    ASSUME TablesOK, NEW P, NEW B, rows' = Linked(P, B)
    PROVE  /\ rows' \in [ProductIds -> [BranchIds -> Seq(BOOLEAN)]]
           /\ \A p \in ProductIds, b \in BranchIds :
                /\ p \in P /\ b \in B => /\ Len(rows'[p][b]) = Len(rows[p][b]) + 1
                                          /\ Len(rows'[p][b]) > 0
                /\ ~(p \in P /\ b \in B) => Len(rows'[p][b]) = Len(rows[p][b])
<1>1. \A p \in ProductIds, b \in BranchIds :
        /\ rows[p][b] \in Seq(BOOLEAN) /\ Append(rows[p][b], TRUE) \in Seq(BOOLEAN)
        /\ Len(Append(rows[p][b], TRUE)) = Len(rows[p][b]) + 1
        /\ Len(Append(rows[p][b], TRUE)) > 0
  BY TypedRows
<1> QED BY <1>1 DEF Linked

\* A step that makes and links nothing.
LEMMA QuietStep ==
    ASSUME MenuInv, NEW j \in Workers, work' \in [Workers -> Work],
           \A k \in Workers \ {j} : work'[k] = work[k],
           category' \in [CategoryIds -> Category], product' \in [ProductIds -> Product],
           \A p \in ProductIds : /\ product'[p].maker = product[p].maker
                                 /\ product'[p].uuid = product[p].uuid
                                 /\ product'[p].whole = product[p].whole,
           branches' = branches, rows' = rows,
           ForBranch(work'[j]) => work'[j].b \notin Taken
    PROVE  /\ StepOfWork(j)
           /\ MadeProducts' = MadeProducts /\ MadeBranches' = MadeBranches
           /\ PlaceBranches' = PlaceBranches
           /\ \A item : From(item)' = From(item)
<1>1. TablesOK' BY DEF MenuInv, MenuTypeOK, TablesOK
<1>2. BranchStep(j) BY DEF BranchStep, NewBranch, MadeBranches
<1>3. ProductStep(j) BY DEF ProductStep, NewProduct, MadeProducts
<1>4. RowStep(j)
  <2>1. ASSUME NEW p \in ProductIds, NEW b \in BranchIds, <<p, b>> \notin contested,
               product'[p].maker = "crm", product'[p].whole, branches'[b] = "crm"
        PROVE  Len(rows'[p][b]) > 0
    <3>1. Len(rows[p][b]) = 1 BY <2>1 DEF MenuInv, OneRowEach
    <3> QED BY <3>1
  <2> QED BY <2>1 DEF RowStep
<1>5. MadeProducts' = MadeProducts /\ MadeBranches' = MadeBranches /\ PlaceBranches' = PlaceBranches
  BY DEF MadeProducts, MadeBranches, PlaceBranches
<1>6. \A item : From(item)' = From(item)
  BY <1>5 DEF From, MadeProducts
<1> QED BY <1>1, <1>2, <1>3, <1>4, <1>5, <1>6 DEF StepOfWork

\* What the invariant says of one job, and of the tables.
LEMMA AsItIs ==
    ASSUME MenuInv, NEW j \in Workers
    PROVE  TablesOK /\ WorkOK(j) /\ Route(work[j]) /\ work[j] \in Work
<1>1. TablesOK /\ WorkOK(j) BY DEF MenuInv, MenuTypeOK, TablesOK
<1> QED BY <1>1 DEF WorkOK, TablesOK

\* What a job that is through, or writes a category, leaves to be said.
LEMMA IdleOK ==
    ASSUME NEW j \in Workers, Route(work'[j]),
           work'[j].op \in {"none", "product", "branch", "category row"},
           ~ForProduct(work'[j]), ~ForBranch(work'[j])
    PROVE  WorkOK(j)'
BY DEF WorkOK, Route, KnowsProduct, KnowsBranches, ProductToCome, BranchToCome, RowToCome,
       RowInMemory, ImportSoFar, NothingSince, ForPair, InHand, AtImport, Linking, AtBranch

\* What a job on the row of a product owes.
LEMMA ProductRowOK ==
    ASSUME NEW j \in Workers, Route(work'[j]), work'[j].op = "product row",
           work'[j].p \in MadeProducts', work'[j].todo \subseteq MadeBranches',
           work'[j].at \in {"insert", "write"} => work'[j].b \in MadeBranches',
           work'[j].at = "insert" /\ Len(rows'[work'[j].p][work'[j].b]) > 0
             => <<work'[j].p, work'[j].b>> \in contested',
           work'[j].at = "write" => \/ Len(rows'[work'[j].p][work'[j].b]) > 0
                                    \/ branches'[work'[j].b] = "gone",
           work'[j].at = "save" => /\ work'[j].row.maker = product'[work'[j].p].maker
                                   /\ work'[j].row.uuid = product'[work'[j].p].uuid
    PROVE  WorkOK(j)'
BY DEF WorkOK, Route, KnowsProduct, KnowsBranches, ProductToCome, BranchToCome, RowToCome,
       RowInMemory, ImportSoFar, NothingSince, ForPair, ForProduct, ForBranch, InHand, AtImport,
       Linking, AtBranch

\* What an import owes.
LEMMA ImportOK ==
    ASSUME NEW j \in Workers, Route(work'[j]), work'[j].op = "import", ImportSoFar(j)',
           ~parallel' => NothingSince(j)',
           work'[j].at \in {"add row", "add new"} /\ Len(rows'[work'[j].p][work'[j].b]) > 0
             => <<work'[j].p, work'[j].b>> \in contested'
    PROVE  WorkOK(j)'
<1>1. work'[j].at \in Linking => work'[j].p \in MadeProducts'
  BY DEF ImportSoFar, From
<1>2. work'[j].at \in AtBranch => work'[j].b \in MadeBranches'
  BY DEF ImportSoFar, OfPlace, PlaceBranches, MadeBranches
<1> QED BY <1>1, <1>2
  DEF WorkOK, Route, KnowsProduct, KnowsBranches, ProductToCome, BranchToCome, RowToCome,
      RowInMemory, ForPair, ForProduct, ForBranch, AtImport, Linking, AtBranch

-----------------------------------------------------------------------------
(* Creations in the CRM.                                                   *)

\* A new product has no rows yet; the panel's never will by itself.
LEMMA CreateProductOK ==
    ASSUME MenuInv, Noted, NEW j \in Workers, NEW c \in CategoryIds, NEW maker \in {"crm", "panel"},
           CreateProduct(j, c, maker)
    PROVE  StepOfWork(j) /\ WorkOK(j)'
<1>1. PICK p : p = First(FreeProducts) OBVIOUS
<1>2. TablesOK /\ p \in ProductIds /\ p \notin MadeProducts
  <2>1. FreeProducts \subseteq Nat /\ FreeProducts # {}
    BY MenuConstants DEF FreeProducts, CreateProduct
  <2>2. p \in FreeProducts BY <1>1, <2>1, FirstIsIn
  <2> QED BY <2>2 DEF FreeProducts, MenuInv, MenuTypeOK, TablesOK
<1> DEFINE new == [NoProduct EXCEPT !.maker = maker, !.category = c, !.whole = (maker = "panel")]
           x   == [NewWork("product", IF maker = "crm" THEN "branches" ELSE "done") EXCEPT !.p = p]
<1>3. /\ product' = [product EXCEPT ![p] = new] /\ work' = [work EXCEPT ![j] = x]
      /\ UNCHANGED <<category, branches, rows>>
  BY <1>1 DEF CreateProduct
<1>4. new \in Product /\ new.maker = maker /\ new.uuid = NoKey /\ new.whole = (maker = "panel")
  BY DEF NoProduct, Product, Makers
<1>5. /\ x \in Work /\ x.op = "product" /\ x.at = (IF maker = "crm" THEN "branches" ELSE "done")
      /\ x.p = p
  BY <1>2 DEF NewWork, NoWork, Work, WorkKinds, Places, NoProduct, Product, Makers, NoCategory, Category
<1> HIDE DEF new, x
<1>6. /\ work' \in [Workers -> Work] /\ work'[j] = x /\ \A k \in Workers \ {j} : work'[k] = work[k]
  BY <1>2, <1>3, <1>5, WorkIs
<1>7. /\ product' \in [ProductIds -> Product] /\ product'[p] = new
      /\ \A q \in ProductIds \ {p} : product'[q] = product[q]
  BY <1>2, <1>3, <1>4 DEF TablesOK
<1>8. StepOfWork(j)
  <2>1. TablesOK' BY <1>2, <1>3, <1>6, <1>7 DEF TablesOK
  <2>2. ~ForBranch(work'[j]) BY <1>5, <1>6 DEF ForBranch
  <2>3. BranchStep(j) BY <1>3 DEF BranchStep, NewBranch, MadeBranches
  <2>4. ProductStep(j)
    <3>1. \A q \in ProductIds : NewProduct(q) => q = p BY <1>7 DEF NewProduct, MadeProducts
    <3>2. maker = "crm" => ForProduct(work'[j]) /\ work'[j].p = p BY <1>5, <1>6 DEF ForProduct
    <3> QED BY <1>2, <1>4, <1>7, <3>1, <3>2 DEF ProductStep, MadeProducts
  <2>5. RowStep(j)
    <3>1. ASSUME NEW q \in ProductIds, NEW b \in BranchIds, <<q, b>> \notin contested,
                 product'[q].maker = "crm", product'[q].whole, branches'[b] = "crm"
          PROVE  Len(rows'[q][b]) > 0
      <4>1. q # p BY <1>4, <1>7, <3>1
      <4>2. Len(rows[q][b]) = 1 BY <1>3, <1>7, <3>1, <4>1 DEF MenuInv, OneRowEach
      <4> QED BY <1>3, <4>2
    <3> QED BY <1>3, <3>1 DEF RowStep
  <2> QED BY <1>6, <2>1, <2>2, <2>3, <2>4, <2>5 DEF StepOfWork
<1>9. WorkOK(j)'
  <2>1. Route(work'[j]) BY <1>5, <1>6 DEF Route
  <2>2. CASE maker = "panel" BY <1>5, <1>6, <2>1, <2>2, IdleOK DEF ForProduct, ForBranch
  <2>3. CASE maker = "crm"
    <3>1. work'[j].op = "product" /\ work'[j].at = "branches" /\ work'[j].p = p
      BY <1>5, <1>6, <2>3
    <3>2. p \in MadeProducts' BY <1>2, <1>4, <1>7 DEF MadeProducts
    <3>3. \A b \in BranchIds : ~(Len(rows'[p][b]) > 0) BY <1>2, <1>3 DEF MenuInv, RowsOfMade
    <3> QED BY <2>1, <3>1, <3>2, <3>3
      DEF WorkOK, KnowsProduct, KnowsBranches, ProductToCome, BranchToCome, RowToCome,
          RowInMemory, ImportSoFar, NothingSince, ForPair, ForBranch, InHand, AtImport, Linking,
        AtBranch
  <2> QED BY <2>2, <2>3
<1> QED BY <1>8, <1>9

\* Every branch of the CRM is read, so none has crossed it.
LEMMA ReadBranchesOK ==
    ASSUME MenuInv, Noted, NEW j \in Workers, ReadBranches(j)
    PROVE  StepOfWork(j) /\ WorkOK(j)'
<1> DEFINE x == [work[j] EXCEPT !.at = "link", !.snap = LiveBranches]
<1>1. /\ TablesOK /\ work[j] \in Work /\ WorkOK(j) /\ work[j].at = "branches"
      /\ work[j].op = "product" /\ contested \subseteq contested'
  <2>1. TablesOK /\ work[j] \in Work /\ WorkOK(j) /\ work[j].at = "branches"
    BY DEF MenuInv, MenuTypeOK, TablesOK, ReadBranches
  <2>2. Route(work[j]) /\ contested \subseteq contested' BY <2>1 DEF WorkOK, Noted
  <2> QED BY <2>1, <2>2 DEF Route, AtImport
<1>2. work' = [work EXCEPT ![j] = x] /\ UNCHANGED <<category, product, branches, rows>>
  BY DEF ReadBranches
<1>3. /\ x \in Work /\ x.at = "link" /\ x.op = "product" /\ x.p = work[j].p
      /\ x.snap = LiveBranches /\ x.snap \subseteq MadeBranches
  BY <1>1 DEF Work, Places, MadeBranches, LiveBranches
<1> HIDE DEF x
<1>4. /\ work' \in [Workers -> Work] /\ work'[j] = x /\ \A k \in Workers \ {j} : work'[k] = work[k]
  BY <1>1, <1>2, <1>3, WorkIs
<1>5. StepOfWork(j) /\ MadeBranches' = MadeBranches /\ MadeProducts' = MadeProducts
  BY <1>1, <1>2, <1>3, <1>4, QuietStep DEF ForBranch, TablesOK
<1>6. WorkOK(j)'
  <2>1. work[j].p \in MadeProducts BY <1>1 DEF WorkOK, KnowsProduct, ForProduct
  <2>2. \A b \in BranchIds : Len(rows'[work[j].p][b]) > 0 => <<work[j].p, b>> \in contested'
    BY <1>1, <1>2 DEF WorkOK, ProductToCome, ForProduct
  <2>3. \A b \in BranchIds : branches'[b] = "crm" => b \in LiveBranches
    BY <1>2 DEF MadeBranches, LiveBranches
  <2> QED BY <1>3, <1>4, <1>5, <2>1, <2>2, <2>3
    DEF WorkOK, Route, KnowsProduct, KnowsBranches, ProductToCome, BranchToCome, RowToCome,
        RowInMemory, ImportSoFar, NothingSince, ForPair, ForBranch, InHand, AtImport, Linking,
        AtBranch
<1> QED BY <1>5, <1>6

\* The product is whole: it has a row for every branch read; or a branch read is
\* gone, and it stays without rows.
LEMMA LinkProductOK ==
    ASSUME MenuInv, Noted, NEW j \in Workers, LinkProduct(j)
    PROVE  StepOfWork(j) /\ WorkOK(j)'
<1>0. CASE ~(work[j].snap \subseteq LiveBranches)
  <2>1. /\ TablesOK /\ work[j].op = "product" /\ MovesOn(j, "dead")
        /\ UNCHANGED <<category, product, branches, rows>>
    BY <1>0, AsItIs DEF LinkProduct
  <2>2. /\ work' \in [Workers -> Work] /\ \A k \in Workers \ {j} : work'[k] = work[k]
        /\ work'[j].at = "dead" /\ work'[j].op = "product"
    BY <2>1, Moved DEF Places
  <2>3. ~ForBranch(work'[j]) /\ ~ForProduct(work'[j]) /\ Route(work'[j])
    BY <2>2 DEF ForBranch, ForProduct, Route
  <2>4. category' \in [CategoryIds -> Category] /\ product' \in [ProductIds -> Product]
    BY <2>1 DEF TablesOK
  <2>5. StepOfWork(j) BY <2>1, <2>2, <2>3, <2>4, QuietStep
  <2>6. WorkOK(j)' BY <2>2, <2>3, IdleOK
  <2> QED BY <2>5, <2>6
<1> SUFFICES ASSUME work[j].snap \subseteq LiveBranches PROVE StepOfWork(j) /\ WorkOK(j)'
  BY <1>0
<1> DEFINE p == work[j].p
<1>1. /\ TablesOK /\ work[j].at = "link" /\ work[j].op = "product" /\ ForProduct(work[j])
      /\ rows' = Linked({p}, work[j].snap)
      /\ product' = [product EXCEPT ![p] = [product[p] EXCEPT !.whole = TRUE]]
      /\ MovesOn(j, "done") /\ UNCHANGED <<category, branches>>
  BY DEF MenuInv, MenuTypeOK, TablesOK, LinkProduct, ForProduct
<1>2. /\ p \in MadeProducts /\ p \in ProductIds /\ work[j].snap \subseteq MadeBranches
      /\ \A b \in BranchIds : branches[b] = "crm" /\ b \notin work[j].snap => <<p, b>> \in contested
  BY <1>1 DEF MenuInv, WorkOK, KnowsProduct, ProductToCome, MadeProducts
<1> HIDE DEF p
<1>3. /\ work' \in [Workers -> Work] /\ \A k \in Workers \ {j} : work'[k] = work[k]
      /\ work'[j].at = "done" /\ work'[j].op = "product"
  BY <1>1, Moved DEF Places
<1>4. /\ product' \in [ProductIds -> Product]
      /\ \A q \in ProductIds : product'[q].maker = product[q].maker /\ product'[q].uuid = product[q].uuid
      /\ \A q \in ProductIds \ {p} : product'[q] = product[q]
  <2>1. product[p] \in Product /\ product \in [ProductIds -> Product] BY <1>1, <1>2 DEF TablesOK
  <2>2. /\ [product[p] EXCEPT !.whole = TRUE] \in Product
        /\ [product[p] EXCEPT !.whole = TRUE].maker = product[p].maker
        /\ [product[p] EXCEPT !.whole = TRUE].uuid = product[p].uuid
    BY <2>1 DEF Product
  <2> QED BY <1>1, <1>2, <2>1, <2>2
<1>5. /\ rows' \in [ProductIds -> [BranchIds -> Seq(BOOLEAN)]]
      /\ \A q \in ProductIds, b \in BranchIds :
           /\ q = p /\ b \in work[j].snap => /\ Len(rows'[q][b]) = Len(rows[q][b]) + 1
                                             /\ Len(rows'[q][b]) > 0
           /\ ~(q = p /\ b \in work[j].snap) => Len(rows'[q][b]) = Len(rows[q][b])
  <2>1. PICK P : P = {p} OBVIOUS
  <2>2. rows' = Linked(P, work[j].snap) /\ \A q : q \in P <=> q = p BY <1>1, <2>1
  <2>3. TablesOK BY <1>1
  <2> QED BY ONLY <2>2, <2>3, LinkedRows
<1>6. StepOfWork(j)
  <2>1. TablesOK' BY <1>1, <1>3, <1>4, <1>5 DEF TablesOK
  <2>2. ~ForBranch(work'[j]) BY <1>3 DEF ForBranch
  <2>3. BranchStep(j) BY <1>1 DEF BranchStep, NewBranch, MadeBranches
  <2>4. ProductStep(j) BY <1>4 DEF ProductStep, NewProduct, MadeProducts
  <2>5. RowStep(j)
    <3>1. ASSUME NEW b \in BranchIds, b \in work[j].snap
          PROVE  Makes(work[j], p, b) /\ branches'[b] # "none" /\ Len(rows'[p][b]) > 0
      <4>1. Len(rows'[p][b]) > 0 BY <1>2, <1>5, <3>1
      <4> QED BY <1>1, <1>2, <3>1, <4>1 DEF Makes, MadeBranches, p
    <3>2. ASSUME NEW q \in ProductIds, NEW b \in BranchIds, <<q, b>> \notin contested,
                 product'[q].maker = "crm", product'[q].whole, branches'[b] = "crm"
          PROVE  Len(rows'[q][b]) > 0
      <4>1. CASE q = p
        <5>1. b \in work[j].snap BY <1>1, <1>2, <3>2, <4>1
        <5> QED BY <3>1, <4>1, <5>1
      <4>2. CASE q # p
        <5>1. Len(rows[q][b]) = 1 BY <1>1, <1>4, <3>2, <4>2 DEF MenuInv, OneRowEach
        <5>2. Len(rows'[q][b]) = Len(rows[q][b]) BY <1>5, <4>2
        <5> QED BY <5>1, <5>2
      <4> QED BY <4>1, <4>2
    <3> QED BY <1>2, <1>5, <3>1, <3>2 DEF RowStep
  <2> QED BY <1>3, <2>1, <2>2, <2>3, <2>4, <2>5 DEF StepOfWork
<1>7. WorkOK(j)' BY <1>3, IdleOK DEF Route, ForProduct, ForBranch
<1> QED BY <1>6, <1>7

\* The key of a new branch is nobody's, and every product is read.
LEMMA CreateBranchOK ==
    ASSUME MenuInv, Noted, NEW j \in Workers, CreateBranch(j)
    PROVE  StepOfWork(j) /\ WorkOK(j)'
<1>1. PICK b : b = First(FreeBranches) OBVIOUS
<1>2. TablesOK /\ b \in BranchIds /\ b \notin MadeBranches /\ b \notin Taken
  <2>1. FreeBranches \subseteq Nat /\ FreeBranches # {}
    BY MenuConstants DEF FreeBranches, CreateBranch
  <2>2. b \in FreeBranches BY <1>1, <2>1, FirstIsIn
  <2> QED BY <2>2 DEF FreeBranches, MenuInv, MenuTypeOK, TablesOK
<1> DEFINE x == [NewWork("branch", "link") EXCEPT !.b = b, !.snap = MadeProducts]
<1>3. work' = [work EXCEPT ![j] = x] /\ UNCHANGED <<category, product, branches, rows>>
  BY <1>1 DEF CreateBranch
<1>4. x \in Work /\ x.op = "branch" /\ x.at = "link" /\ x.b = b /\ x.snap = MadeProducts
  BY <1>2 DEF NewWork, NoWork, Work, WorkKinds, Places, NoProduct, Product, Makers, NoCategory,
              Category, MadeProducts
<1> HIDE DEF x
<1>5. /\ work' \in [Workers -> Work] /\ work'[j] = x /\ \A k \in Workers \ {j} : work'[k] = work[k]
  BY <1>2, <1>3, <1>4, WorkIs
<1>6. StepOfWork(j) /\ MadeBranches' = MadeBranches /\ MadeProducts' = MadeProducts
  BY <1>2, <1>3, <1>4, <1>5, QuietStep DEF TablesOK
<1>7. WorkOK(j)'
  <2>1. \A p \in ProductIds : product'[p].maker = "crm" => p \in MadeProducts
    BY <1>3 DEF MadeProducts
  <2>2. \A k \in Workers \ {j} : ForBranch(work'[k]) => work'[k].b # b
    BY <1>2, <1>5, TakenAre
  <2> QED BY <1>2, <1>4, <1>5, <1>6, <2>1, <2>2
    DEF WorkOK, Route, KnowsProduct, KnowsBranches, ProductToCome, BranchToCome, RowToCome,
        RowInMemory, ImportSoFar, NothingSince, ForPair, ForProduct, InHand, AtImport, Linking,
        AtBranch
<1> QED BY <1>6, <1>7

\* The new branch has a row for every product read; the others cross it.
LEMMA LinkBranchOK ==
    ASSUME MenuInv, Noted, NEW j \in Workers, LinkBranch(j)
    PROVE  StepOfWork(j) /\ WorkOK(j)'
<1> DEFINE b == work[j].b
<1>1. /\ TablesOK /\ work[j].at = "link" /\ work[j].op = "branch" /\ ForBranch(work[j])
      /\ rows' = Linked(work[j].snap, {b}) /\ branches' = [branches EXCEPT ![b] = "crm"]
      /\ MovesOn(j, "done") /\ UNCHANGED <<category, product>>
  BY DEF MenuInv, MenuTypeOK, TablesOK, LinkBranch, ForBranch
<1>2. /\ b \in BranchIds /\ b \notin MadeBranches /\ work[j].snap \subseteq MadeProducts
      /\ \A p \in ProductIds : product[p].maker = "crm" /\ p \notin work[j].snap => <<p, b>> \in contested
  BY <1>1 DEF MenuInv, WorkOK, BranchToCome
<1> HIDE DEF b
<1>3. /\ work' \in [Workers -> Work] /\ \A k \in Workers \ {j} : work'[k] = work[k]
      /\ work'[j].at = "done" /\ work'[j].op = "branch"
  BY <1>1, Moved DEF Places
<1>4. /\ branches' \in [BranchIds -> BranchStates] /\ branches'[b] = "crm"
      /\ \A c \in BranchIds \ {b} : branches'[c] = branches[c]
  BY <1>1, <1>2 DEF TablesOK, BranchStates
<1>5. /\ rows' \in [ProductIds -> [BranchIds -> Seq(BOOLEAN)]]
      /\ \A p \in ProductIds, c \in BranchIds :
           /\ p \in work[j].snap /\ c = b => /\ Len(rows'[p][c]) = Len(rows[p][c]) + 1
                                             /\ Len(rows'[p][c]) > 0
           /\ ~(p \in work[j].snap /\ c = b) => Len(rows'[p][c]) = Len(rows[p][c])
  <2>1. PICK B : B = {b} OBVIOUS
  <2>2. rows' = Linked(work[j].snap, B) /\ \A c : c \in B <=> c = b BY <1>1, <2>1
  <2>3. TablesOK BY <1>1
  <2> QED BY ONLY <2>2, <2>3, LinkedRows
<1>6. StepOfWork(j)
  <2>1. TablesOK' BY <1>1, <1>3, <1>4, <1>5 DEF TablesOK
  <2>2. ~ForBranch(work'[j]) BY <1>3 DEF ForBranch
  <2>3. BranchStep(j)
    <3>1. \A c \in BranchIds : NewBranch(c) => c = b BY <1>4 DEF NewBranch, MadeBranches
    <3> QED BY <1>1, <1>2, <1>4, <3>1 DEF BranchStep, MadeBranches, b
  <2>4. ProductStep(j) BY <1>1 DEF ProductStep, NewProduct, MadeProducts
  <2>5. RowStep(j)
    <3>1. ASSUME NEW p \in ProductIds, p \in work[j].snap
          PROVE  Makes(work[j], p, b) /\ p \in MadeProducts /\ Len(rows'[p][b]) > 0
      <4>1. Len(rows'[p][b]) > 0 BY <1>2, <1>5, <3>1
      <4> QED BY <1>1, <1>2, <3>1, <4>1 DEF Makes, b
    <3>2. ASSUME NEW p \in ProductIds, NEW c \in BranchIds, <<p, c>> \notin contested,
                 product'[p].maker = "crm", product'[p].whole, branches'[c] = "crm"
          PROVE  Len(rows'[p][c]) > 0
      <4>1. CASE c = b
        <5>1. p \in work[j].snap BY <1>1, <1>2, <3>2, <4>1
        <5> QED BY <3>1, <4>1, <5>1
      <4>2. CASE c # b
        <5>1. Len(rows[p][c]) = 1 BY <1>1, <1>4, <3>2, <4>2 DEF MenuInv, OneRowEach
        <5>2. Len(rows'[p][c]) = Len(rows[p][c]) BY <1>5, <4>2
        <5> QED BY <5>1, <5>2
      <4> QED BY <4>1, <4>2
    <3> QED BY <1>4, <1>5, <3>1, <3>2 DEF RowStep
  <2> QED BY <1>3, <2>1, <2>2, <2>3, <2>4, <2>5 DEF StepOfWork
<1>7. WorkOK(j)' BY <1>3, IdleOK DEF Route, ForProduct, ForBranch
<1> QED BY <1>6, <1>7

\* The rows of a branch go with it, and nothing else.
LEMMA DeleteBranchOK ==
    ASSUME MenuInv, NEW j \in Workers, NEW b \in BranchIds, DeleteBranch(j, b)
    PROVE  StepOfWork(j) /\ WorkOK(j)'
<1>1. /\ TablesOK /\ work[j].op = "none" /\ b \in MadeBranches /\ MovesOn(j, "done")
      /\ branches' = [branches EXCEPT ![b] = "gone"] /\ UNCHANGED <<category, product>>
  <2>1. /\ work[j].at = "idle" /\ b \in MadeBranches /\ MovesOn(j, "done")
        /\ branches' = [branches EXCEPT ![b] = "gone"] /\ UNCHANGED <<category, product>>
    BY DEF DeleteBranch, LiveBranches
  <2> QED BY <2>1, AsItIs DEF Route, AtImport
<1>2. /\ work' \in [Workers -> Work] /\ \A k \in Workers \ {j} : work'[k] = work[k]
      /\ work'[j].at = "done" /\ work'[j].op = "none"
  BY <1>1, Moved DEF Places
<1>3. /\ branches' \in [BranchIds -> BranchStates] /\ branches'[b] = "gone"
      /\ \A c \in BranchIds \ {b} : branches'[c] = branches[c]
  BY <1>1 DEF TablesOK, BranchStates
<1>4. /\ rows' \in [ProductIds -> [BranchIds -> Seq(BOOLEAN)]]
      /\ \A p \in ProductIds : Len(rows'[p][b]) = 0
      /\ \A p \in ProductIds, c \in BranchIds \ {b} : rows'[p][c] = rows[p][c]
  <2>1. PICK nil : nil = <<>> OBVIOUS
  <2>2. nil \in Seq(BOOLEAN) /\ Len(nil) = 0 BY <2>1
  <2>3. rows' = [p \in ProductIds |-> [rows[p] EXCEPT ![b] = nil]] BY <2>1 DEF DeleteBranch
  <2>4. \A p \in ProductIds : rows[p] \in [BranchIds -> Seq(BOOLEAN)] BY <1>1 DEF TablesOK
  <2> HIDE <2>1
  <2> QED BY <2>2, <2>3, <2>4
<1>5. StepOfWork(j)
  <2>1. TablesOK' BY <1>1, <1>2, <1>3, <1>4 DEF TablesOK
  <2>2. ~ForBranch(work'[j]) BY <1>2 DEF ForBranch
  <2>3. BranchStep(j) BY <1>1, <1>3 DEF BranchStep, NewBranch, MadeBranches
  <2>4. ProductStep(j) BY <1>1 DEF ProductStep, NewProduct, MadeProducts
  <2>5. RowStep(j)
    <3>1. ASSUME NEW p \in ProductIds, NEW c \in BranchIds, <<p, c>> \notin contested,
                 product'[p].maker = "crm", product'[p].whole, branches'[c] = "crm"
          PROVE  Len(rows'[p][c]) > 0
      <4>1. c # b BY <1>3, <3>1
      <4>2. Len(rows[p][c]) = 1 BY <1>1, <1>3, <3>1, <4>1 DEF MenuInv, OneRowEach
      <4>3. Len(rows'[p][c]) = 1 BY <1>4, <4>1, <4>2
      <4> QED BY <4>3
    <3> QED BY <1>3, <1>4, <3>1 DEF RowStep
  <2> QED BY <1>2, <2>1, <2>2, <2>3, <2>4, <2>5 DEF StepOfWork
<1>6. WorkOK(j)' BY <1>2, IdleOK DEF Route, ForProduct, ForBranch
<1> QED BY <1>5, <1>6

-----------------------------------------------------------------------------
(* The rows of products, and their availability.                           *)

\* A request for a product that is there begins.
LEMMA RowBegins ==
    ASSUME MenuInv, NEW j \in Workers, NEW x \in Work, work' = [work EXCEPT ![j] = x],
           UNCHANGED <<category, product, branches, rows>>,
           x.op = "product row", x.at \in {"save", "availability"},
           x.p \in MadeProducts, x.todo \subseteq MadeBranches,
           x.at = "save" => x.row.maker = product[x.p].maker /\ x.row.uuid = product[x.p].uuid
    PROVE  StepOfWork(j) /\ WorkOK(j)'
<1>1. TablesOK BY AsItIs
<1>2. /\ work' \in [Workers -> Work] /\ work'[j] = x /\ \A k \in Workers \ {j} : work'[k] = work[k]
  BY <1>1, WorkIs
<1>3. StepOfWork(j) /\ MadeBranches' = MadeBranches /\ MadeProducts' = MadeProducts
  BY <1>1, <1>2, QuietStep DEF TablesOK, ForBranch
<1>4. Route(work'[j]) BY <1>2 DEF Route
<1>5. WorkOK(j)' BY <1>2, <1>3, <1>4, ProductRowOK
<1> QED BY <1>3, <1>5

\* The row in memory is of the product, deleted or not.
LEMMA LoadProductOK ==
    ASSUME MenuInv, NEW j \in Workers, NEW p \in ProductIds, NEW c \in CategoryIds,
           NEW B \in SUBSET BranchIds, LoadProduct(j, p, c, B)
    PROVE  StepOfWork(j) /\ WorkOK(j)'
<1> DEFINE r == [product[p] EXCEPT !.category = c]
           x == [NewWork("product row", "save") EXCEPT !.p = p, !.row = r, !.todo = B]
<1>1. r \in Product /\ r.maker = product[p].maker /\ r.uuid = product[p].uuid
  <2>1. product[p] \in Product BY AsItIs DEF TablesOK
  <2> QED BY <2>1 DEF Product
<1>2. work' = [work EXCEPT ![j] = x] /\ UNCHANGED <<category, product, branches, rows>>
      /\ p \in MadeProducts /\ B \subseteq MadeBranches
  BY DEF LoadProduct, LiveBranches
<1> HIDE DEF r
<1>3. x \in Work /\ x.op = "product row" /\ x.at = "save" /\ x.p = p /\ x.row = r /\ x.todo = B
  BY <1>1 DEF NewWork, NoWork, Work, WorkKinds, Places, NoCategory, Category
<1> HIDE DEF x
<1> QED BY <1>1, <1>2, <1>3, RowBegins

LEMMA DeleteProductOK ==
    ASSUME MenuInv, NEW j \in Workers, NEW p \in ProductIds, DeleteProduct(j, p)
    PROVE  StepOfWork(j) /\ WorkOK(j)'
<1> DEFINE r == [product[p] EXCEPT !.deleted = TRUE]
           x == [NewWork("product row", "save") EXCEPT !.p = p, !.row = r]
<1>1. r \in Product /\ r.maker = product[p].maker /\ r.uuid = product[p].uuid
  <2>1. product[p] \in Product BY AsItIs DEF TablesOK
  <2> QED BY <2>1 DEF Product
<1>2. work' = [work EXCEPT ![j] = x] /\ UNCHANGED <<category, product, branches, rows>>
      /\ p \in MadeProducts
  BY DEF DeleteProduct
<1> HIDE DEF r
<1>3. x \in Work /\ x.op = "product row" /\ x.at = "save" /\ x.p = p /\ x.row = r /\ x.todo = {}
  BY <1>1 DEF NewWork, NoWork, Work, WorkKinds, Places, NoCategory, Category
<1> HIDE DEF x
<1> QED BY <1>1, <1>2, <1>3, RowBegins

LEMMA SetAvailabilityOK ==
    ASSUME MenuInv, NEW j \in Workers, NEW p \in ProductIds, NEW B \in SUBSET BranchIds,
           NEW value \in BOOLEAN, SetAvailability(j, p, B, value)
    PROVE  StepOfWork(j) /\ WorkOK(j)'
<1> DEFINE x == [NewWork("product row", "availability") EXCEPT !.p = p, !.todo = B, !.value = value]
<1>1. work' = [work EXCEPT ![j] = x] /\ UNCHANGED <<category, product, branches, rows>>
      /\ p \in MadeProducts /\ B \subseteq MadeBranches
  BY DEF SetAvailability, LiveBranches
<1>2. x \in Work /\ x.op = "product row" /\ x.at = "availability" /\ x.p = p /\ x.todo = B
  BY DEF NewWork, NoWork, Work, WorkKinds, Places, NoProduct, Product, Makers, NoCategory, Category
<1> HIDE DEF x
<1> QED BY <1>1, <1>2, RowBegins

\* The row that is saved has the maker and uuid of the product.
LEMMA SaveProductOK ==
    ASSUME MenuInv, NEW j \in Workers, SaveProduct(j)
    PROVE  StepOfWork(j) /\ WorkOK(j)'
<1>1. TablesOK /\ WorkOK(j) /\ work[j] \in Work BY AsItIs
<1>2. /\ work[j].at = "save" /\ work[j].op = "product row" /\ UNCHANGED <<category, branches, rows>>
      /\ work[j].p \in MadeProducts /\ work[j].p \in ProductIds /\ work[j].todo \subseteq MadeBranches
      /\ work[j].row.maker = product[work[j].p].maker /\ work[j].row.uuid = product[work[j].p].uuid
  BY <1>1 DEF SaveProduct, WorkOK, KnowsProduct, KnowsBranches, RowInMemory, MadeProducts
<1>3. PICK at \in {"dead", "done", "availability"} : MovesOn(j, at)
  BY DEF SaveProduct
<1>4. /\ work' \in [Workers -> Work] /\ \A k \in Workers \ {j} : work'[k] = work[k]
      /\ work'[j].at = at /\ work'[j].op = work[j].op /\ work'[j].p = work[j].p
      /\ work'[j].todo = work[j].todo
  <2>1. at \in Places BY DEF Places
  <2> QED BY <1>1, <1>3, <2>1, Moved
<1>5. product' \in [ProductIds -> Product] /\ \A p \in ProductIds :
         /\ product'[p].maker = product[p].maker /\ product'[p].uuid = product[p].uuid
         /\ product'[p].whole = product[p].whole
  <2>1. CASE product' = product BY <1>1, <2>1 DEF TablesOK
  <2>2. CASE product' = [product EXCEPT ![work[j].p] = [work[j].row EXCEPT !.whole = product[work[j].p].whole]]
    <3> DEFINE p == work[j].p
               r == [work[j].row EXCEPT !.whole = product[p].whole]
    <3>1. work[j].row \in Product /\ product[p] \in Product /\ p \in ProductIds
      BY <1>1, <1>2 DEF TablesOK, Work
    <3>2. r \in Product /\ r.maker = product[p].maker /\ r.uuid = product[p].uuid
          /\ r.whole = product[p].whole
      BY <1>2, <3>1 DEF Product
    <3>3. product' = [product EXCEPT ![p] = r] /\ product \in [ProductIds -> Product]
      BY <1>1, <2>2 DEF TablesOK
    <3> HIDE DEF p, r
    <3> QED BY <3>1, <3>2, <3>3
  <2> QED BY <2>1, <2>2 DEF SaveProduct
<1>6. StepOfWork(j) /\ MadeBranches' = MadeBranches /\ MadeProducts' = MadeProducts
  BY <1>1, <1>2, <1>4, <1>5, QuietStep DEF TablesOK, ForBranch
<1>7. Route(work'[j]) BY <1>2, <1>4 DEF Route
<1>8. WorkOK(j)' BY <1>2, <1>4, <1>6, <1>7, ProductRowOK
<1> QED BY <1>6, <1>8

\* A row is inserted where there was none, and changed where there was one.
LEMMA GetRowOK ==
    ASSUME MenuInv, NEW j \in Workers, NEW b \in BranchIds, GetRow(j, b)
    PROVE  StepOfWork(j) /\ WorkOK(j)'
<1>1. TablesOK /\ WorkOK(j) /\ work[j] \in Work BY AsItIs
<1>2. work[j].at = "availability" /\ work[j].op = "product row" /\ b \in work[j].todo
  <2>1. work[j].at = "availability" /\ b \in work[j].todo BY DEF GetRow
  <2> QED BY <2>1, AsItIs DEF Route, AtImport
<1>3. /\ work[j].p \in MadeProducts /\ work[j].todo \subseteq MadeBranches
      /\ UNCHANGED <<category, product, branches, rows>>
  BY <1>1, <1>2 DEF GetRow, WorkOK, KnowsProduct, KnowsBranches
<1>4. PICK at : at = IF Len(rows[work[j].p][b]) = 0 THEN "insert"
                     ELSE IF Len(rows[work[j].p][b]) = 1 THEN "write" ELSE "dead"
  OBVIOUS
<1>5. /\ at \in {"insert", "write", "dead"} /\ at \in Places
      /\ at = "insert" => ~(Len(rows[work[j].p][b]) > 0)
      /\ at = "write" => Len(rows[work[j].p][b]) > 0
  BY <1>4 DEF Places
<1> DEFINE x == [work[j] EXCEPT !.b = b, !.todo = work[j].todo \ {b}, !.at = at]
<1>6. work' = [work EXCEPT ![j] = x] BY <1>4 DEF GetRow
<1> HIDE <1>4
<1>7. /\ x \in Work /\ x.op = work[j].op /\ x.at = at /\ x.p = work[j].p /\ x.b = b
      /\ x.todo = work[j].todo \ {b}
  BY <1>1, <1>5 DEF Work
<1> HIDE DEF x
<1>8. /\ work' \in [Workers -> Work] /\ work'[j] = x /\ \A k \in Workers \ {j} : work'[k] = work[k]
  BY <1>1, <1>6, <1>7, WorkIs
<1>9. StepOfWork(j) /\ MadeBranches' = MadeBranches /\ MadeProducts' = MadeProducts
  BY <1>1, <1>2, <1>3, <1>7, <1>8, QuietStep DEF TablesOK, ForBranch
<1>10. WorkOK(j)'
  <2>1. Route(work'[j]) BY <1>2, <1>5, <1>7, <1>8 DEF Route
  <2>2. work'[j].todo \subseteq MadeBranches' /\ b \in MadeBranches' BY <1>2, <1>3, <1>7, <1>8, <1>9
  <2> QED BY <1>2, <1>3, <1>5, <1>7, <1>8, <1>9, <2>1, <2>2, ProductRowOK
<1> QED BY <1>9, <1>10

\* A step that does nothing but put rows.
LEMMA RowsOnly ==
    ASSUME MenuInv, NEW j \in Workers, work' \in [Workers -> Work],
           \A k \in Workers \ {j} : work'[k] = work[k],
           UNCHANGED <<category, product, branches>>, ~ForBranch(work'[j]),
           rows' \in [ProductIds -> [BranchIds -> Seq(BOOLEAN)]],
           NEW p \in MadeProducts, NEW b \in MadeBranches,
           \A q \in ProductIds, c \in BranchIds :
              \/ Len(rows'[q][c]) = Len(rows[q][c])
              \/ q = p /\ c = b /\ Makes(work[j], p, b) /\ Len(rows'[q][c]) = Len(rows[q][c]) + 1
    PROVE  StepOfWork(j)
<1>1. TablesOK' BY AsItIs DEF TablesOK
<1>2. BranchStep(j) BY DEF BranchStep, NewBranch, MadeBranches
<1>3. ProductStep(j) BY DEF ProductStep, NewProduct, MadeProducts
<1>4. RowStep(j)
  <2>1. ASSUME NEW q \in ProductIds, NEW c \in BranchIds, <<q, c>> \notin contested,
               product'[q].maker = "crm", product'[q].whole, branches'[c] = "crm"
        PROVE  Len(rows'[q][c]) > 0
    <3>1. Len(rows[q][c]) = 1 BY <2>1 DEF MenuInv, OneRowEach
    <3>2. Len(rows'[q][c]) = Len(rows[q][c]) \/ Len(rows'[q][c]) = Len(rows[q][c]) + 1 OBVIOUS
    <3>3. \A m, n : m = 1 /\ (n = m \/ n = m + 1) => n > 0 OBVIOUS
    <3> QED BY <3>1, <3>2, <3>3
  <2>2. branches'[b] # "none" BY DEF MadeBranches
  <2> QED BY <2>1, <2>2 DEF RowStep
<1> QED BY <1>1, <1>2, <1>3, <1>4 DEF StepOfWork

\* The row is the one that GetRow found missing, or found, if its branch is there.
LEMMA PutRowOK ==
    ASSUME MenuInv, NEW j \in Workers, PutRow(j)
    PROVE  StepOfWork(j) /\ WorkOK(j)'
<1>0. CASE work[j].b \notin LiveBranches
  <2>1. /\ TablesOK /\ work[j].at \in {"insert", "write"} /\ WorkOK(j) /\ MovesOn(j, "dead")
        /\ UNCHANGED <<category, product, branches, rows>>
    BY <1>0, AsItIs DEF PutRow
  <2>2. work[j].op = "product row" BY <2>1, AsItIs DEF Route, AtImport
  <2>3. work[j].p \in MadeProducts /\ work[j].todo \subseteq MadeBranches
    BY <2>1, <2>2 DEF WorkOK, KnowsProduct, KnowsBranches
  <2>4. /\ work' \in [Workers -> Work] /\ \A k \in Workers \ {j} : work'[k] = work[k]
        /\ work'[j].at = "dead" /\ work'[j].op = "product row" /\ work'[j].p = work[j].p
        /\ work'[j].todo = work[j].todo
    BY <2>1, <2>2, Moved DEF Places
  <2>5. ~ForBranch(work'[j]) /\ Route(work'[j]) BY <2>4 DEF ForBranch, Route
  <2>6. category' \in [CategoryIds -> Category] /\ product' \in [ProductIds -> Product]
    BY <2>1 DEF TablesOK
  <2>7. StepOfWork(j) /\ MadeBranches' = MadeBranches /\ MadeProducts' = MadeProducts
    BY <2>1, <2>4, <2>5, <2>6, QuietStep
  <2>8. WorkOK(j)' BY <2>3, <2>4, <2>5, <2>7, ProductRowOK
  <2> QED BY <2>7, <2>8
<1> SUFFICES ASSUME work[j].b \in LiveBranches PROVE StepOfWork(j) /\ WorkOK(j)'
  BY <1>0
<1>1. PICK p, b, value, at : p = work[j].p /\ b = work[j].b /\ value = work[j].value
                             /\ at = IF work[j].todo = {} THEN "done" ELSE "availability"
  OBVIOUS
<1>2. TablesOK /\ WorkOK(j) /\ work[j] \in Work BY AsItIs
<1>3. work[j].at \in {"insert", "write"} /\ work[j].op = "product row" /\ MovesOn(j, at)
      /\ at \in {"done", "availability"} /\ at \in Places
  <2>1. work[j].at \in {"insert", "write"} BY DEF PutRow
  <2>2. work[j].op = "product row" BY <2>1, AsItIs DEF Route, AtImport
  <2> QED BY <1>1, <2>1, <2>2 DEF PutRow, Places
<1>4. /\ p \in MadeProducts /\ b \in MadeBranches /\ p \in ProductIds /\ b \in BranchIds
      /\ work[j].todo \subseteq MadeBranches /\ value \in BOOLEAN
  BY <1>1, <1>2, <1>3 DEF WorkOK, KnowsProduct, KnowsBranches, MadeProducts, MadeBranches, Work
<1>5. /\ work' \in [Workers -> Work] /\ \A k \in Workers \ {j} : work'[k] = work[k]
      /\ work'[j].at = at /\ work'[j].op = work[j].op /\ work'[j].p = p
      /\ work'[j].todo = work[j].todo
  BY <1>1, <1>2, <1>3, Moved
<1>6. PICK new : new = IF work[j].at = "insert" THEN Append(rows[p][b], value)
                                              ELSE [rows[p][b] EXCEPT ![1] = value]
  OBVIOUS
<1>7. rows' = [rows EXCEPT ![p] = [rows[p] EXCEPT ![b] = new]] /\ UNCHANGED <<category, product, branches>>
  BY <1>1, <1>6 DEF PutRow
<1>8. /\ new \in Seq(BOOLEAN)
      /\ \/ Len(new) = Len(rows[p][b])
         \/ work[j].at = "insert" /\ Len(new) = Len(rows[p][b]) + 1
  <2>1. rows[p][b] \in Seq(BOOLEAN) /\ Len(rows[p][b]) \in Nat BY <1>2, <1>4, TypedRows
  <2>2. CASE work[j].at = "insert" BY <1>4, <1>6, <2>1, <2>2
  <2>3. CASE work[j].at = "write"
    <3>1. new = [rows[p][b] EXCEPT ![1] = value] BY <1>6, <2>3
    <3>2. 1 \in 1 .. Len(rows[p][b])
      <4>1. Len(rows[p][b]) > 0 BY <1>1, <1>2, <2>3 DEF WorkOK, RowToCome, LiveBranches
      <4> QED BY <2>1, <4>1
    <3>3. \A s \in Seq(BOOLEAN) : 1 \in 1 .. Len(s) =>
             [s EXCEPT ![1] = value] \in Seq(BOOLEAN) /\ Len([s EXCEPT ![1] = value]) = Len(s)
      BY <1>4, ExceptSeq
    <3> QED BY <2>1, <3>1, <3>2, <3>3
  <2> QED BY <1>3, <2>2, <2>3
<1> HIDE <1>1, <1>6
<1>9. /\ rows' \in [ProductIds -> [BranchIds -> Seq(BOOLEAN)]] /\ rows'[p][b] = new
      /\ \A q \in ProductIds, c \in BranchIds : ~(q = p /\ c = b) => rows'[q][c] = rows[q][c]
  <2>1. rows \in [ProductIds -> [BranchIds -> Seq(BOOLEAN)]] BY <1>2 DEF TablesOK
  <2> QED BY <1>4, <1>7, <1>8, <2>1
<1>10. work[j].at = "insert" => Makes(work[j], p, b) BY <1>1 DEF Makes, ForPair
<1>11. \A q \in ProductIds, c \in BranchIds :
          \/ Len(rows'[q][c]) = Len(rows[q][c])
          \/ q = p /\ c = b /\ Makes(work[j], p, b) /\ Len(rows'[q][c]) = Len(rows[q][c]) + 1
  BY <1>8, <1>9, <1>10
<1>12. StepOfWork(j)
  <2>1. ~ForBranch(work'[j]) BY <1>3, <1>5 DEF ForBranch
  <2> QED BY <1>4, <1>5, <1>7, <1>9, <1>11, <2>1, RowsOnly
<1>13. WorkOK(j)'
  <2>1. Route(work'[j]) BY <1>3, <1>5 DEF Route
  <2>2. p \in MadeProducts' /\ MadeBranches' = MadeBranches
    BY <1>4, <1>7 DEF MadeProducts, MadeBranches
  <2> QED BY <1>3, <1>4, <1>5, <2>1, <2>2, ProductRowOK
<1> QED BY <1>12, <1>13

-----------------------------------------------------------------------------
(* Categories.                                                             *)

\* A job that is through, or works on a category, and changes no product.
LEMMA CategoryStep ==
    ASSUME MenuInv, NEW j \in Workers, work' \in [Workers -> Work],
           \A k \in Workers \ {j} : work'[k] = work[k],
           category' \in [CategoryIds -> Category], product' \in [ProductIds -> Product],
           \A p \in ProductIds : /\ product'[p].maker = product[p].maker
                                 /\ product'[p].uuid = product[p].uuid
                                 /\ product'[p].whole = product[p].whole,
           branches' = branches, rows' = rows,
           \/ work'[j].op = "none" /\ work'[j].at = "done"
           \/ work'[j].op = "category row" /\ work'[j].at \in {"save", "products", "done"}
    PROVE  StepOfWork(j) /\ WorkOK(j)'
<1>1. /\ ~ForBranch(work'[j]) /\ ~ForProduct(work'[j]) /\ Route(work'[j])
      /\ work'[j].op \in {"none", "product", "branch", "category row"}
  BY DEF ForBranch, ForProduct, Route
<1>2. StepOfWork(j) BY <1>1, QuietStep
<1>3. WorkOK(j)' BY <1>1, IdleOK
<1> QED BY <1>2, <1>3

LEMMA CreateCategoryOK ==
    ASSUME MenuInv, NEW j \in Workers, CreateCategory(j)
    PROVE  StepOfWork(j) /\ WorkOK(j)'
<1>1. /\ TablesOK /\ work[j].op = "none" /\ MovesOn(j, "done") /\ UNCHANGED <<product, branches, rows>>
  <2>1. work[j].at = "idle" /\ MovesOn(j, "done") /\ UNCHANGED <<product, branches, rows>>
    BY DEF CreateCategory
  <2> QED BY <2>1, AsItIs DEF Route, AtImport
<1>2. /\ work' \in [Workers -> Work] /\ \A k \in Workers \ {j} : work'[k] = work[k]
      /\ work'[j].at = "done" /\ work'[j].op = "none"
  BY <1>1, Moved DEF Places
<1>3. category' \in [CategoryIds -> Category]
  <2>1. PICK c : c = First(FreeCategories) OBVIOUS
  <2>2. FreeCategories \subseteq Nat /\ FreeCategories # {}
    BY MenuConstants DEF FreeCategories, CreateCategory
  <2>3. c \in CategoryIds BY <2>1, <2>2, FirstIsIn DEF FreeCategories
  <2>4. category[c] \in Category /\ category \in [CategoryIds -> Category] BY <1>1, <2>3 DEF TablesOK
  <2>5. [category[c] EXCEPT !.state = "live"] \in Category BY <2>4 DEF Category
  <2>6. category' = [category EXCEPT ![c] = [category[c] EXCEPT !.state = "live"]]
    BY <2>1 DEF CreateCategory
  <2> QED BY <2>3, <2>4, <2>5, <2>6
<1>4. product' \in [ProductIds -> Product] BY <1>1 DEF TablesOK
<1> QED BY <1>1, <1>2, <1>3, <1>4, CategoryStep

LEMMA LoadCategoryOK ==
    ASSUME MenuInv, NEW j \in Workers, NEW c \in CategoryIds, NEW state \in {"live", "deleted"},
           LoadCategory(j, c, state)
    PROVE  StepOfWork(j) /\ WorkOK(j)'
<1> DEFINE r == [category[c] EXCEPT !.state = state]
           x == [NewWork("category row", "save") EXCEPT !.c = c, !.crow = r]
<1>1. TablesOK /\ work' = [work EXCEPT ![j] = x] /\ UNCHANGED <<category, product, branches, rows>>
  BY AsItIs DEF LoadCategory
<1>2. r \in Category
  <2>1. category[c] \in Category BY <1>1 DEF TablesOK
  <2> QED BY <2>1 DEF Category
<1> HIDE DEF r
<1>3. x \in Work /\ x.op = "category row" /\ x.at = "save"
  BY <1>2 DEF NewWork, NoWork, Work, WorkKinds, Places, NoProduct, Product, Makers
<1> HIDE DEF x
<1>4. /\ work' \in [Workers -> Work] /\ work'[j] = x /\ \A k \in Workers \ {j} : work'[k] = work[k]
  BY <1>1, <1>3, WorkIs
<1>5. category' \in [CategoryIds -> Category] /\ product' \in [ProductIds -> Product]
  BY <1>1 DEF TablesOK
<1> QED BY <1>1, <1>3, <1>4, <1>5, CategoryStep

LEMMA SaveCategoryOK ==
    ASSUME MenuInv, NEW j \in Workers, SaveCategory(j)
    PROVE  StepOfWork(j) /\ WorkOK(j)'
<1>1. PICK at : at = IF work[j].crow.state = "deleted" THEN "products" ELSE "done" OBVIOUS
<1>2. /\ TablesOK /\ work[j] \in Work /\ work[j].op = "category row" /\ MovesOn(j, at)
      /\ UNCHANGED <<product, branches, rows>>
      /\ category' = [category EXCEPT ![work[j].c] = work[j].crow]
      /\ at \in {"products", "done"} /\ at \in Places
  BY <1>1, AsItIs DEF SaveCategory, Places
<1> HIDE <1>1
<1>3. /\ work' \in [Workers -> Work] /\ \A k \in Workers \ {j} : work'[k] = work[k]
      /\ work'[j].at = at /\ work'[j].op = "category row"
  BY <1>2, Moved
<1>4. category' \in [CategoryIds -> Category]
  <2>1. work[j].crow \in Category /\ category \in [CategoryIds -> Category] BY <1>2 DEF Work, TablesOK
  <2> QED BY <1>2, <2>1
<1>5. product' \in [ProductIds -> Product] BY <1>2 DEF TablesOK
<1> QED BY <1>2, <1>3, <1>4, <1>5, CategoryStep

LEMMA DeleteProductsOK ==
    ASSUME MenuInv, NEW j \in Workers, DeleteProducts(j)
    PROVE  StepOfWork(j) /\ WorkOK(j)'
<1>1. /\ TablesOK /\ work[j].op = "category row" /\ MovesOn(j, "done")
      /\ UNCHANGED <<category, branches, rows>>
  <2>1. work[j].at = "products" /\ MovesOn(j, "done") /\ UNCHANGED <<category, branches, rows>>
    BY DEF DeleteProducts
  <2> QED BY <2>1, AsItIs DEF Route, AtImport
<1>2. /\ work' \in [Workers -> Work] /\ \A k \in Workers \ {j} : work'[k] = work[k]
      /\ work'[j].at = "done" /\ work'[j].op = "category row"
  BY <1>1, Moved DEF Places
<1>3. product' \in [ProductIds -> Product] /\ \A p \in ProductIds :
         /\ product'[p].maker = product[p].maker /\ product'[p].uuid = product[p].uuid
         /\ product'[p].whole = product[p].whole
  <2>1. \A r \in Product :
           /\ [r EXCEPT !.deleted = TRUE] \in Product /\ [r EXCEPT !.deleted = TRUE].maker = r.maker
           /\ [r EXCEPT !.deleted = TRUE].uuid = r.uuid /\ [r EXCEPT !.deleted = TRUE].whole = r.whole
    BY DEF Product
  <2>2. \A p \in ProductIds : product[p] \in Product BY <1>1 DEF TablesOK
  <2> QED BY <2>1, <2>2 DEF DeleteProducts
<1>4. category' \in [CategoryIds -> Category] BY <1>1 DEF TablesOK
<1> QED BY <1>1, <1>2, <1>3, <1>4, CategoryStep

LEMMA RemoveCategoryOK ==
    ASSUME MenuInv, NEW j \in Workers, NEW c \in CategoryIds, RemoveCategory(j, c)
    PROVE  StepOfWork(j) /\ WorkOK(j)'
<1>1. TablesOK /\ work[j].op = "none" /\ MovesOn(j, "done") /\ UNCHANGED <<branches, rows>>
  <2>1. work[j].at = "idle" /\ MovesOn(j, "done") /\ UNCHANGED <<branches, rows>>
    BY DEF RemoveCategory
  <2> QED BY <2>1, AsItIs DEF Route, AtImport
<1>2. /\ work' \in [Workers -> Work] /\ \A k \in Workers \ {j} : work'[k] = work[k]
      /\ work'[j].at = "done" /\ work'[j].op = "none"
  BY <1>1, Moved DEF Places
<1>3. product' \in [ProductIds -> Product] /\ \A p \in ProductIds :
         /\ product'[p].maker = product[p].maker /\ product'[p].uuid = product[p].uuid
         /\ product'[p].whole = product[p].whole
  <2>1. \A r \in Product :
           /\ [r EXCEPT !.category = NoKey] \in Product /\ [r EXCEPT !.category = NoKey].maker = r.maker
           /\ [r EXCEPT !.category = NoKey].uuid = r.uuid /\ [r EXCEPT !.category = NoKey].whole = r.whole
    BY DEF Product
  <2>2. \A p \in ProductIds : product[p] \in Product BY <1>1 DEF TablesOK
  <2> QED BY <2>1, <2>2 DEF RemoveCategory
<1>4. category' \in [CategoryIds -> Category]
  <2>1. category[c] \in Category /\ category \in [CategoryIds -> Category] BY <1>1 DEF TablesOK
  <2>2. [category[c] EXCEPT !.state = "gone"] \in Category BY <2>1 DEF Category
  <2> QED BY <2>1, <2>2 DEF RemoveCategory
<1> QED BY <1>1, <1>2, <1>3, <1>4, CategoryStep

-----------------------------------------------------------------------------
(* The import.                                                             *)

\* What an import has behind it is still on the menu.
LEMMA OnTheMenu ==
    ASSUME MenuInv, NEW j \in Workers, StepOfWork(j), work[j].op = "import", work[j].at # "dead",
           work[j].put \subseteq work'[j].put,
           NEW item \in Items, item \notin work[j].todo, item \notin work[j].failed,
           ~(InHand(work[j]) /\ item = work[j].item)
    PROVE  Delivered(j, item)'
<1>1. Delivered(j, item) /\ TablesOK BY AsItIs DEF WorkOK, ImportSoFar
<1>2. PICK b \in BranchIds : <<item, b>> \in work[j].put /\ OnMenu(item, b) BY <1>1 DEF Delivered
<1>3. OnMenu(item, b)' BY <1>1, <1>2, Grown
<1> QED BY <1>2, <1>3 DEF Delivered

\* A step of an import that makes nothing but, perhaps, a category.
LEMMA QuietImport ==
    ASSUME MenuInv, NEW j \in Workers, work' \in [Workers -> Work],
           \A k \in Workers \ {j} : work'[k] = work[k], work'[j].op = "import",
           category' \in [CategoryIds -> Category], UNCHANGED <<product, branches, rows>>
    PROVE  /\ StepOfWork(j)
           /\ MadeProducts' = MadeProducts /\ MadeBranches' = MadeBranches
           /\ PlaceBranches' = PlaceBranches
           /\ \A item : From(item)' = From(item)
<1>1. product' \in [ProductIds -> Product] /\ ~ForBranch(work'[j]) BY AsItIs DEF TablesOK, ForBranch
<1> QED BY <1>1, QuietStep

\* A step between two items.
LEMMA NothingInHand ==
    ASSUME MenuInv, NEW j \in Workers, StepOfWork(j),
           work[j].op = "import", work[j].at # "dead", ~InHand(work[j]),
           work'[j].op = "import",
           work'[j].at \in {"add place", "categories", "add category", "items", "done", "dead"},
           work'[j].todo = work[j].todo, work'[j].failed = work[j].failed,
           work'[j].put = work[j].put,
           work'[j].at = "add place" => PlaceBranches' = {},
           work'[j].at = "done" => work[j].todo = {}
    PROVE  WorkOK(j)'
<1>1. Route(work'[j]) BY DEF Route, AtImport
<1>2. \A item \in Items \ (work'[j].todo \cup work'[j].failed) : Delivered(j, item)'
  BY OnTheMenu
<1>3. ImportSoFar(j)' BY <1>2 DEF ImportSoFar, InHand, AtImport, Linking, AtBranch
<1>4. NothingSince(j)' BY DEF NothingSince
<1> QED BY <1>1, <1>3, <1>4, ImportOK

LEMMA StartImportOK ==
    ASSUME MenuInv, NEW j \in Workers, StartImport(j)
    PROVE  StepOfWork(j) /\ WorkOK(j)'
<1> DEFINE x == [NewWork("import", "place") EXCEPT !.todo = Items]
<1>1. TablesOK /\ work' = [work EXCEPT ![j] = x] /\ UNCHANGED <<category, product, branches, rows>>
  BY AsItIs DEF StartImport
<1>2. x \in Work /\ x.op = "import" /\ x.at = "place" /\ x.todo = Items
  BY DEF NewWork, NoWork, Work, WorkKinds, Places, NoProduct, Product, Makers, NoCategory, Category
<1> HIDE DEF x
<1>3. /\ work' \in [Workers -> Work] /\ work'[j] = x /\ \A k \in Workers \ {j} : work'[k] = work[k]
  BY <1>1, <1>2, WorkIs
<1>4. StepOfWork(j) BY <1>1, <1>2, <1>3, QuietImport DEF TablesOK
<1>5. Route(work'[j]) BY <1>2, <1>3 DEF Route, AtImport
<1>6. ImportSoFar(j)' BY <1>2, <1>3 DEF ImportSoFar, InHand, Linking, AtBranch
<1>7. NothingSince(j)' BY <1>2, <1>3 DEF NothingSince
<1>8. WorkOK(j)' BY <1>2, <1>3, <1>5, <1>6, <1>7, ImportOK
<1> QED BY <1>4, <1>8

LEMMA ImportDiesOK ==
    ASSUME MenuInv, NEW j \in Workers, ImportDies(j)
    PROVE  StepOfWork(j) /\ WorkOK(j)'
<1>1. /\ TablesOK /\ work[j].op = "import" /\ work[j].at \in {"place", "categories"}
      /\ MovesOn(j, "dead") /\ UNCHANGED <<category, product, branches, rows>>
  <2>1. /\ work[j].at \in {"place", "categories"} /\ MovesOn(j, "dead")
        /\ UNCHANGED <<category, product, branches, rows>>
    BY DEF ImportDies
  <2> QED BY <2>1, AsItIs DEF Route
<1>2. /\ work' \in [Workers -> Work] /\ \A k \in Workers \ {j} : work'[k] = work[k]
      /\ work'[j].at = "dead" /\ work'[j].op = "import"
      /\ work'[j].todo = work[j].todo /\ work'[j].failed = work[j].failed
      /\ work'[j].put = work[j].put
  BY <1>1, Moved DEF Places
<1>3. StepOfWork(j) BY <1>1, <1>2, QuietImport DEF TablesOK
<1>4. WorkOK(j)' BY <1>1, <1>2, <1>3, NothingInHand DEF InHand, Linking
<1> QED BY <1>3, <1>4

LEMMA LookForPlaceOK ==
    ASSUME MenuInv, NEW j \in Workers, LookForPlace(j)
    PROVE  StepOfWork(j) /\ WorkOK(j)'
<1>1. PICK at : at = IF PlaceBranches = {} THEN "add place" ELSE "categories" OBVIOUS
<1>2. /\ TablesOK /\ work[j].op = "import" /\ work[j].at = "place"
      /\ MovesOn(j, at) /\ UNCHANGED <<category, product, branches, rows>>
      /\ at \in {"add place", "categories"} /\ at \in Places
      /\ at = "add place" <=> PlaceBranches = {}
  <2>1. /\ work[j].at = "place" /\ MovesOn(j, at) /\ UNCHANGED <<category, product, branches, rows>>
    BY <1>1 DEF LookForPlace
  <2>2. work[j].op = "import" BY <2>1, AsItIs DEF Route
  <2> QED BY <1>1, <2>1, <2>2, AsItIs DEF Places
<1> HIDE <1>1
<1>3. /\ work' \in [Workers -> Work] /\ \A k \in Workers \ {j} : work'[k] = work[k]
      /\ work'[j].at = at /\ work'[j].op = "import"
      /\ work'[j].todo = work[j].todo /\ work'[j].failed = work[j].failed
      /\ work'[j].put = work[j].put
  BY <1>2, Moved
<1>4. StepOfWork(j) /\ PlaceBranches' = PlaceBranches BY <1>2, <1>3, QuietImport DEF TablesOK
<1>5. WorkOK(j)' BY <1>2, <1>3, <1>4, NothingInHand DEF InHand, Linking
<1> QED BY <1>4, <1>5

\* The place has a branch, with a key that nobody has.
LEMMA AddPlaceOK ==
    ASSUME MenuInv, NEW j \in Workers, AddPlace(j)
    PROVE  StepOfWork(j) /\ WorkOK(j)'
<1>1. PICK b : b = First(FreeBranches) OBVIOUS
<1>2. TablesOK /\ b \in BranchIds /\ b \notin MadeBranches /\ b \notin Taken
  <2>1. FreeBranches \subseteq Nat /\ FreeBranches # {}
    BY MenuConstants DEF FreeBranches, AddPlace
  <2>2. b \in FreeBranches BY <1>1, <2>1, FirstIsIn
  <2> QED BY <2>2, AsItIs DEF FreeBranches
<1>3. /\ work[j].op = "import" /\ work[j].at = "add place" /\ MovesOn(j, "categories")
      /\ branches' = [branches EXCEPT ![b] = "import"] /\ UNCHANGED <<category, product, rows>>
  <2>1. /\ work[j].at = "add place" /\ MovesOn(j, "categories")
        /\ branches' = [branches EXCEPT ![b] = "import"] /\ UNCHANGED <<category, product, rows>>
    BY <1>1 DEF AddPlace
  <2> QED BY <2>1, AsItIs DEF Route
<1>4. /\ work' \in [Workers -> Work] /\ \A k \in Workers \ {j} : work'[k] = work[k]
      /\ work'[j].at = "categories" /\ work'[j].op = "import"
      /\ work'[j].todo = work[j].todo /\ work'[j].failed = work[j].failed
      /\ work'[j].put = work[j].put
  BY <1>2, <1>3, Moved DEF Places
<1>5. /\ branches' \in [BranchIds -> BranchStates] /\ branches'[b] = "import"
      /\ \A c \in BranchIds \ {b} : branches'[c] = branches[c]
  BY <1>2, <1>3 DEF TablesOK, BranchStates
<1>6. StepOfWork(j)
  <2>1. TablesOK' BY <1>2, <1>3, <1>4, <1>5 DEF TablesOK
  <2>2. ~ForBranch(work'[j]) BY <1>4 DEF ForBranch
  <2>3. BranchStep(j)
    <3>1. \A c \in BranchIds : NewBranch(c) => c = b BY <1>5 DEF NewBranch, MadeBranches
    <3> QED BY <1>2, <1>3, <1>5, <3>1 DEF BranchStep, MadeBranches
  <2>4. ProductStep(j) BY <1>3 DEF ProductStep, NewProduct, MadeProducts
  <2>5. RowStep(j)
    <3>1. ASSUME NEW p \in ProductIds, NEW c \in BranchIds, <<p, c>> \notin contested,
                 product'[p].maker = "crm", product'[p].whole, branches'[c] = "crm"
          PROVE  Len(rows'[p][c]) > 0
      <4>1. branches[c] = "crm"
        <5>1. c # b BY <1>5, <3>1
        <5> QED BY <1>5, <3>1, <5>1
      <4>2. Len(rows[p][c]) = 1 BY <1>3, <3>1, <4>1 DEF MenuInv, OneRowEach
      <4>3. Len(rows'[p][c]) = 1 BY <1>3, <4>2
      <4> QED BY <4>3
    <3> QED BY <1>3, <3>1 DEF RowStep
  <2> QED BY <1>4, <2>1, <2>2, <2>3, <2>4, <2>5 DEF StepOfWork
<1>7. WorkOK(j)' BY <1>3, <1>4, <1>6, NothingInHand DEF InHand, Linking
<1> QED BY <1>6, <1>7

LEMMA LookForCategoryOK ==
    ASSUME MenuInv, NEW j \in Workers, LookForCategory(j)
    PROVE  StepOfWork(j) /\ WorkOK(j)'
<1>1. PICK at : at = IF PlaceCategories = {} THEN "add category" ELSE "items" OBVIOUS
<1>2. /\ TablesOK /\ work[j].op = "import" /\ work[j].at = "categories"
      /\ MovesOn(j, at) /\ UNCHANGED <<category, product, branches, rows>>
      /\ at \in {"add category", "items"} /\ at \in Places
  <2>1. /\ work[j].at = "categories" /\ MovesOn(j, at)
        /\ UNCHANGED <<category, product, branches, rows>>
    BY <1>1 DEF LookForCategory
  <2>2. work[j].op = "import" BY <2>1, AsItIs DEF Route
  <2> QED BY <1>1, <2>1, <2>2, AsItIs DEF Places
<1> HIDE <1>1
<1>3. /\ work' \in [Workers -> Work] /\ \A k \in Workers \ {j} : work'[k] = work[k]
      /\ work'[j].at = at /\ work'[j].op = "import"
      /\ work'[j].todo = work[j].todo /\ work'[j].failed = work[j].failed
      /\ work'[j].put = work[j].put
  BY <1>2, Moved
<1>4. StepOfWork(j) /\ PlaceBranches' = PlaceBranches BY <1>2, <1>3, QuietImport DEF TablesOK
<1>5. WorkOK(j)' BY <1>2, <1>3, <1>4, NothingInHand DEF InHand, Linking
<1> QED BY <1>4, <1>5

LEMMA AddCategoryOK ==
    ASSUME MenuInv, NEW j \in Workers, AddCategory(j)
    PROVE  StepOfWork(j) /\ WorkOK(j)'
<1>1. /\ TablesOK /\ work[j].op = "import" /\ work[j].at = "add category"
      /\ MovesOn(j, "items") /\ UNCHANGED <<product, branches, rows>>
  <2>1. /\ work[j].at = "add category" /\ MovesOn(j, "items") /\ UNCHANGED <<product, branches, rows>>
    BY DEF AddCategory
  <2> QED BY <2>1, AsItIs DEF Route
<1>2. /\ work' \in [Workers -> Work] /\ \A k \in Workers \ {j} : work'[k] = work[k]
      /\ work'[j].at = "items" /\ work'[j].op = "import"
      /\ work'[j].todo = work[j].todo /\ work'[j].failed = work[j].failed
      /\ work'[j].put = work[j].put
  BY <1>1, Moved DEF Places
<1>3. category' \in [CategoryIds -> Category]
  <2> DEFINE r == [state |-> "live", imported |-> TRUE]
  <2>1. r \in Category BY DEF Category
  <2>2. category' = [category EXCEPT ![First(FreeCategories)] = r] /\ category \in [CategoryIds -> Category]
    BY <1>1 DEF AddCategory, TablesOK
  <2> HIDE DEF r
  <2> QED BY <2>1, <2>2
<1>4. StepOfWork(j) /\ PlaceBranches' = PlaceBranches BY <1>1, <1>2, <1>3, QuietImport
<1>5. WorkOK(j)' BY <1>1, <1>2, <1>4, NothingInHand DEF InHand, Linking
<1> QED BY <1>4, <1>5

LEMMA ImportEndsOK ==
    ASSUME MenuInv, NEW j \in Workers, ImportEnds(j)
    PROVE  StepOfWork(j) /\ WorkOK(j)'
<1>1. /\ TablesOK /\ work[j].op = "import" /\ work[j].at = "items" /\ work[j].todo = {}
      /\ MovesOn(j, "done") /\ UNCHANGED <<category, product, branches, rows>>
  <2>1. /\ work[j].at = "items" /\ work[j].todo = {} /\ MovesOn(j, "done")
        /\ UNCHANGED <<category, product, branches, rows>>
    BY DEF ImportEnds
  <2> QED BY <2>1, AsItIs DEF Route
<1>2. /\ work' \in [Workers -> Work] /\ \A k \in Workers \ {j} : work'[k] = work[k]
      /\ work'[j].at = "done" /\ work'[j].op = "import"
      /\ work'[j].todo = work[j].todo /\ work'[j].failed = work[j].failed
      /\ work'[j].put = work[j].put
  BY <1>1, Moved DEF Places
<1>3. StepOfWork(j) BY <1>1, <1>2, QuietImport DEF TablesOK
<1>4. WorkOK(j)' BY <1>1, <1>2, <1>3, NothingInHand DEF InHand, Linking
<1> QED BY <1>3, <1>4

\* The import has in hand the first product of the item, or none is there.
LEMMA LookForItemOK ==
    ASSUME MenuInv, NEW j \in Workers, NEW item \in Items, LookForItem(j, item)
    PROVE  StepOfWork(j) /\ WorkOK(j)'
<1>1. PICK c, at, p : /\ c = First(PlaceCategories)
                      /\ at = IF From(item) = {} THEN "add item" ELSE "link item"
                      /\ p = IF From(item) = {} THEN NoKey ELSE First(From(item))
  OBVIOUS
<1> DEFINE x == [work[j] EXCEPT !.item = item, !.todo = work[j].todo \ {item}, !.c = c, !.at = at, !.p = p]
<1>2. /\ TablesOK /\ work[j] \in Work /\ work[j].op = "import" /\ work[j].at = "items"
      /\ work' = [work EXCEPT ![j] = x] /\ UNCHANGED <<category, product, branches, rows>>
  <2>1. /\ work[j].at = "items" /\ work' = [work EXCEPT ![j] = x]
        /\ UNCHANGED <<category, product, branches, rows>>
    BY <1>1 DEF LookForItem
  <2> QED BY <2>1, AsItIs DEF Route
<1>3. /\ at \in {"add item", "link item"} /\ at \in Places
      /\ at = "add item" <=> From(item) = {}
  BY <1>1 DEF Places
<1>4. p \in ProductIds \cup {NoKey} /\ (at = "link item" => p \in From(item))
  <2>1. From(item) \subseteq ProductIds /\ From(item) \subseteq Nat BY MenuConstants DEF From, MadeProducts
  <2>2. From(item) # {} => First(From(item)) \in From(item) BY <2>1, FirstIsIn
  <2> QED BY <1>1, <2>1, <2>2
<1>5. c \in CategoryIds
  <2>1. PlaceCategories \subseteq Nat /\ PlaceCategories # {} /\ PlaceCategories \subseteq CategoryIds
    BY MenuConstants DEF PlaceCategories, LookForItem
  <2> QED BY <1>1, <2>1, FirstIsIn
<1> HIDE <1>1
<1>6. /\ x \in Work /\ x.op = work[j].op /\ x.at = at /\ x.p = p /\ x.item = item
      /\ x.todo = work[j].todo \ {item} /\ x.failed = work[j].failed /\ x.put = work[j].put
  BY <1>2, <1>3, <1>4, <1>5 DEF Work
<1> HIDE DEF x
<1>7. /\ work' \in [Workers -> Work] /\ work'[j] = x /\ \A k \in Workers \ {j} : work'[k] = work[k]
  BY <1>2, <1>6, WorkIs
<1>8. StepOfWork(j) /\ PlaceBranches' = PlaceBranches /\ \A i : From(i)' = From(i)
  BY <1>2, <1>6, <1>7, QuietImport DEF TablesOK
<1>9. ImportSoFar(j)'
  <2>1. \A i \in Items \ (x.todo \cup x.failed) : i # item => Delivered(j, i)'
    BY <1>2, <1>6, <1>7, <1>8, OnTheMenu DEF InHand, Linking
  <2>2. InHand(x) BY <1>3, <1>6 DEF InHand, Linking
  <2> QED BY <1>2, <1>3, <1>4, <1>6, <1>7, <1>8, <2>1, <2>2
      DEF ImportSoFar, AtImport, Linking, AtBranch
<1>10. NothingSince(j)' BY <1>3, <1>6, <1>7, <1>8 DEF NothingSince
<1>11. /\ Route(work'[j]) /\ work'[j].op = "import"
       /\ work'[j].at \notin {"add row", "add new"}
  BY <1>2, <1>3, <1>6, <1>7 DEF Route, AtImport
<1>12. WorkOK(j)' BY <1>9, <1>10, <1>11, ImportOK
<1> QED BY <1>8, <1>12

\* An import that goes back to its list, or breaks off, leaves nothing in hand.
LEMMA NextItem ==
    ASSUME MenuInv, NEW j \in Workers, StepOfWork(j),
           work[j].op = "import", work[j].at \in {"items", "add item"} \cup Linking,
           work'[j].op = "import", work'[j].at \in {"items", "dead"},
           work[j].put \subseteq work'[j].put,
           \A i \in Items : i \in work[j].todo \cup work[j].failed
                            => i \in work'[j].todo \cup work'[j].failed,
           \A i \in Items : InHand(work[j]) /\ i = work[j].item
                            => i \in work'[j].todo \cup work'[j].failed \/ Delivered(j, i)'
    PROVE  WorkOK(j)'
<1>1. Route(work'[j]) BY DEF Route, AtImport
<1>2. work[j].at # "dead" BY DEF Linking
<1>3. ASSUME NEW i \in Items \ (work'[j].todo \cup work'[j].failed) PROVE Delivered(j, i)'
  <2>1. CASE InHand(work[j]) /\ i = work[j].item BY <1>3, <2>1
  <2>2. CASE ~(InHand(work[j]) /\ i = work[j].item) BY <1>2, <1>3, <2>2, OnTheMenu
  <2> QED BY <2>1, <2>2
<1>4. ImportSoFar(j)' BY <1>3 DEF ImportSoFar, InHand, Linking, AtBranch
<1>5. NothingSince(j)' BY DEF NothingSince
<1>6. work'[j].at \notin {"add row", "add new"} OBVIOUS
<1> QED BY <1>1, <1>4, <1>5, <1>6, ImportOK

LEMMA SkipItemOK ==
    ASSUME MenuInv, NEW j \in Workers, NEW item \in Items, SkipItem(j, item)
    PROVE  StepOfWork(j) /\ WorkOK(j)'
<1> DEFINE x == [work[j] EXCEPT !.todo = work[j].todo \ {item}, !.failed = work[j].failed \cup {item}]
<1>1. /\ TablesOK /\ work[j] \in Work /\ work[j].op = "import" /\ work[j].at = "items"
      /\ work' = [work EXCEPT ![j] = x] /\ UNCHANGED <<category, product, branches, rows>>
  <2>1. /\ work[j].at = "items" /\ work' = [work EXCEPT ![j] = x]
        /\ UNCHANGED <<category, product, branches, rows>>
    BY DEF SkipItem
  <2> QED BY <2>1, AsItIs DEF Route
<1>2. /\ x \in Work /\ x.op = work[j].op /\ x.at = work[j].at
      /\ x.todo = work[j].todo \ {item} /\ x.failed = work[j].failed \cup {item}
      /\ x.put = work[j].put
  BY <1>1 DEF Work
<1> HIDE DEF x
<1>3. /\ work' \in [Workers -> Work] /\ work'[j] = x /\ \A k \in Workers \ {j} : work'[k] = work[k]
  BY <1>1, <1>2, WorkIs
<1>4. StepOfWork(j) BY <1>1, <1>2, <1>3, QuietImport DEF TablesOK
<1>5. ~InHand(work[j]) BY <1>1 DEF InHand, Linking
<1>6. \A i \in Items : i \in work[j].todo \cup work[j].failed => i \in x.todo \cup x.failed
  BY <1>2
<1>7. WorkOK(j)' BY <1>1, <1>2, <1>3, <1>4, <1>5, <1>6, NextItem
<1> QED BY <1>4, <1>7

\* An item that fails is over, and its thread perhaps with it.
LEMMA FailsOK ==
    ASSUME MenuInv, NEW j \in Workers, work[j].op = "import", work[j].at \in Linking,
           UNCHANGED <<category, product, branches, rows>>, Fails(j)
    PROVE  StepOfWork(j) /\ WorkOK(j)'
<1>1. TablesOK /\ work[j] \in Work /\ WorkOK(j) BY AsItIs
<1>2. InHand(work[j]) /\ work[j].item \in Items BY <1>1 DEF InHand, WorkOK, ImportSoFar
<1>3. PICK at : at = IF work[j].at \in {"link new", "add new"} THEN "items" ELSE "dead" OBVIOUS
<1> DEFINE x == [work[j] EXCEPT !.at = at, !.failed = work[j].failed \cup {work[j].item}]
<1>4. work' = [work EXCEPT ![j] = x] BY <1>3 DEF Fails
<1>5. at \in {"items", "dead"} /\ at \in Places BY <1>3 DEF Places
<1> HIDE <1>3
<1>6. /\ x \in Work /\ x.op = work[j].op /\ x.at = at /\ x.todo = work[j].todo
      /\ x.failed = work[j].failed \cup {work[j].item} /\ x.put = work[j].put
  BY <1>1, <1>2, <1>5 DEF Work
<1> HIDE DEF x
<1>7. /\ work' \in [Workers -> Work] /\ work'[j] = x /\ \A k \in Workers \ {j} : work'[k] = work[k]
  BY <1>1, <1>4, <1>6, WorkIs
<1>8. StepOfWork(j) BY <1>1, <1>6, <1>7, QuietImport DEF TablesOK
<1>9. /\ \A i \in Items : i \in work[j].todo \cup work[j].failed => i \in x.todo \cup x.failed
      /\ \A i \in Items : InHand(work[j]) /\ i = work[j].item
                          => i \in x.todo \cup x.failed \/ Delivered(j, i)'
  BY <1>6
<1>10. WorkOK(j)' BY <1>1, <1>5, <1>6, <1>7, <1>8, <1>9, NextItem
<1> QED BY <1>8, <1>10

\* What the job is once its item is on the menu.
LEMMA DeliversTo ==
    ASSUME TablesOK, NEW j \in Workers, Delivers(j), work[j].b \in BranchIds, work[j].item \in Items
    PROVE  /\ work' \in [Workers -> Work] /\ \A k \in Workers \ {j} : work'[k] = work[k]
           /\ work'[j].at = "items" /\ work'[j].op = work[j].op /\ work'[j].todo = work[j].todo
           /\ work'[j].failed = work[j].failed
           /\ work'[j].put = work[j].put \cup {<<work[j].item, work[j].b>>}
<1> DEFINE x == [work[j] EXCEPT !.at = "items",
                                !.put = work[j].put \cup {<<work[j].item, work[j].b>>}]
<1>1. work' = [work EXCEPT ![j] = x] BY DEF Delivers
<1>2. work[j] \in Work BY DEF TablesOK
<1>3. /\ x \in Work /\ x.at = "items" /\ x.op = work[j].op /\ x.todo = work[j].todo
      /\ x.failed = work[j].failed /\ x.put = work[j].put \cup {<<work[j].item, work[j].b>>}
  <2>1. work[j].put \cup {<<work[j].item, work[j].b>>} \in SUBSET (Items \X BranchIds)
    BY <1>2 DEF Work
  <2> QED BY <1>2, <2>1 DEF Work, Places
<1> HIDE DEF x
<1>4. /\ work' \in [Workers -> Work] /\ work'[j] = x /\ \A k \in Workers \ {j} : work'[k] = work[k]
  BY <1>1, <1>3, WorkIs
<1> QED BY <1>3, <1>4

\* An item that is on the menu of the branch in hand is over.
LEMMA DeliversOK ==
    ASSUME MenuInv, NEW j \in Workers, work[j].op = "import", work[j].at \in AtBranch,
           StepOfWork(j), Delivers(j),
           NEW item, item = work[j].item, NEW b \in BranchIds, b = work[j].b, OnMenu(item, b)'
    PROVE  WorkOK(j)'
<1>1. TablesOK /\ WorkOK(j) /\ work[j].at \in Linking BY AsItIs DEF AtBranch, Linking
<1>2. InHand(work[j]) /\ item \in Items BY <1>1 DEF InHand, WorkOK, ImportSoFar
<1>3. /\ work'[j].at = "items" /\ work'[j].op = "import" /\ work'[j].todo = work[j].todo
      /\ work'[j].failed = work[j].failed
      /\ work[j].put \subseteq work'[j].put /\ <<item, b>> \in work'[j].put
  BY <1>1, <1>2, DeliversTo
<1>4. Delivered(j, item)' BY <1>3 DEF Delivered
<1>5. /\ \A i \in Items : i \in work[j].todo \cup work[j].failed
                          => i \in work'[j].todo \cup work'[j].failed
      /\ \A i \in Items : InHand(work[j]) /\ i = work[j].item
                          => i \in work'[j].todo \cup work'[j].failed \/ Delivered(j, i)'
  BY <1>3, <1>4
<1> QED BY <1>1, <1>3, <1>5, NextItem

\* A step of an import to the branch of its item, or to the row there.
LEMMA AtBranchOK ==
    ASSUME MenuInv, NEW j \in Workers, StepOfWork(j), work[j].op = "import",
           work[j].at \in Linking, work'[j].op = "import", work'[j].at \in AtBranch,
           work'[j].p = work[j].p, work'[j].item = work[j].item, work'[j].todo = work[j].todo,
           work'[j].failed = work[j].failed, work'[j].put = work[j].put,
           NEW b, b = work'[j].b, OfPlace(b)',
           work'[j].at \in {"add row", "add new"} => ~(Len(rows'[work'[j].p][work'[j].b]) > 0)
    PROVE  WorkOK(j)'
<1>1. TablesOK /\ WorkOK(j) /\ work[j].at # "dead" BY AsItIs DEF Linking
<1>2. PICK p, item : p = work[j].p /\ item = work[j].item OBVIOUS
<1>3. item \in Items /\ p \in From(item)'
  <2>1. item \in Items /\ p \in From(item)
    BY <1>1, <1>2 DEF WorkOK, ImportSoFar, InHand
  <2> QED BY <1>1, <2>1, Grown
<1>4. Route(work'[j]) BY DEF Route, AtImport, AtBranch
<1>5. InHand(work'[j]) /\ work'[j].at # "done" BY DEF InHand, Linking, AtBranch
<1>6. \A i \in Items \ (work[j].todo \cup work[j].failed) : i # item => Delivered(j, i)'
  BY <1>1, <1>2, OnTheMenu
<1>7. ImportSoFar(j)'
  <2>1. \A c : c = work'[j].b => OfPlace(c)' OBVIOUS
  <2>2. \A q, i : q = work'[j].p /\ i = work'[j].item => q \in From(i)' BY <1>2, <1>3
  <2>3. \A i \in Items \ (work'[j].todo \cup work'[j].failed) :
           Delivered(j, i)' \/ (InHand(work'[j]) /\ i = work'[j].item)
    BY <1>2, <1>5, <1>6
  <2> QED BY <1>2, <1>3, <1>5, <2>1, <2>2, <2>3 DEF ImportSoFar
<1>8. NothingSince(j)' BY DEF NothingSince, AtBranch
<1> QED BY <1>4, <1>7, <1>8, ImportOK

\* With one branch of the place the item will be put there; else it has failed.
LEMMA LinkItemOK ==
    ASSUME MenuInv, NEW j \in Workers, LinkItem(j)
    PROVE  StepOfWork(j) /\ WorkOK(j)'
<1>1. PICK b : b = First(PlaceBranches) OBVIOUS
<1>2. /\ TablesOK /\ work[j] \in Work
      /\ work[j].at \in {"link item", "link new"} /\ work[j].op = "import"
      /\ UNCHANGED <<category, product, branches, rows>>
  <2>1. work[j].at \in {"link item", "link new"} /\ UNCHANGED <<category, product, branches, rows>>
    BY DEF LinkItem
  <2> QED BY <2>1, AsItIs DEF Route
<1>3. work[j].at \in Linking BY <1>2 DEF Linking
<1>4. CASE Fails(j) BY <1>2, <1>3, <1>4, FailsOK
<1>5. CASE ~Fails(j)
  <2>1. PICK at : at = IF work[j].at = "link new" THEN "look new" ELSE "look item" OBVIOUS
  <2> DEFINE x == [work[j] EXCEPT !.b = b, !.at = at]
  <2>2. work' = [work EXCEPT ![j] = x] /\ PlaceBranches # {}
    BY <1>1, <1>5, <2>1 DEF LinkItem
  <2>3. at \in {"look item", "look new"} /\ at \in Places BY <2>1 DEF Places
  <2> HIDE <2>1
  <2>4. b \in PlaceBranches /\ b \in BranchIds
    <3>1. PlaceBranches \subseteq Nat /\ PlaceBranches \subseteq BranchIds
      BY MenuConstants DEF PlaceBranches
    <3> QED BY <1>1, <2>2, <3>1, FirstIsIn
  <2>5. /\ x \in Work /\ x.op = work[j].op /\ x.at = at /\ x.p = work[j].p /\ x.b = b
        /\ x.item = work[j].item /\ x.todo = work[j].todo /\ x.failed = work[j].failed
        /\ x.put = work[j].put
    BY <1>2, <2>3, <2>4 DEF Work
  <2> HIDE DEF x
  <2>6. /\ work' \in [Workers -> Work] /\ work'[j] = x /\ \A k \in Workers \ {j} : work'[k] = work[k]
    BY <1>2, <2>2, <2>5, WorkIs
  <2>7. StepOfWork(j) /\ PlaceBranches' = PlaceBranches
    BY <1>2, <2>5, <2>6, QuietImport DEF TablesOK
  <2>8. OfPlace(b)' BY <2>4, <2>7 DEF OfPlace
  <2>9. work'[j].at \in AtBranch /\ work'[j].at \notin {"add row", "add new"}
    BY <2>3, <2>5, <2>6 DEF AtBranch
  <2>10. WorkOK(j)' BY <1>2, <1>3, <2>5, <2>6, <2>7, <2>8, <2>9, AtBranchOK
  <2> QED BY <2>7, <2>10
<1> QED BY <1>4, <1>5

\* The item has a row at the branch, or is to have one.
LEMMA LookForRowOK ==
    ASSUME MenuInv, NEW j \in Workers, LookForRow(j)
    PROVE  StepOfWork(j) /\ WorkOK(j)'
<1>1. PICK p, b, item : p = work[j].p /\ b = work[j].b /\ item = work[j].item OBVIOUS
<1>2. /\ TablesOK /\ work[j].at \in {"look item", "look new"} /\ work[j].op = "import"
      /\ UNCHANGED <<category, product, branches, rows>>
  <2>1. /\ work[j].at \in {"look item", "look new"}
        /\ UNCHANGED <<category, product, branches, rows>>
    BY DEF LookForRow
  <2> QED BY <2>1, AsItIs DEF Route
<1>3. work[j].at \in Linking /\ work[j].at \in AtBranch BY <1>2 DEF Linking, AtBranch
<1>4. p \in From(item) /\ OfPlace(b) /\ item \in Items /\ p \in ProductIds /\ b \in BranchIds
  <2>1. WorkOK(j) BY AsItIs
  <2>2. p \in From(item) /\ OfPlace(b) /\ item \in Items
    BY <1>1, <1>3, <2>1 DEF WorkOK, ImportSoFar, InHand
  <2> QED BY <2>2 DEF From, MadeProducts, OfPlace, PlaceBranches
<1>5. PICK s : s = rows[p][b] OBVIOUS
<1>6. (s = <<>> => ~(Len(s) > 0)) /\ (s # <<>> => Len(s) > 0)
  <2>1. s \in Seq(BOOLEAN) BY <1>2, <1>4, <1>5, TypedRows
  <2> QED BY <2>1
<1>7. CASE s = <<>>
  <2>1. PICK at : at = IF work[j].at = "look new" THEN "add new" ELSE "add row" OBVIOUS
  <2>2. MovesOn(j, at) BY <1>1, <1>5, <1>7, <2>1 DEF LookForRow
  <2>3. at \in {"add row", "add new"} /\ at \in Places /\ at \in AtBranch
    BY <2>1 DEF Places, AtBranch
  <2>4. /\ work' \in [Workers -> Work] /\ \A k \in Workers \ {j} : work'[k] = work[k]
        /\ work'[j].at = at /\ work'[j].op = work[j].op /\ work'[j].p = work[j].p
        /\ work'[j].b = work[j].b /\ work'[j].todo = work[j].todo
        /\ work'[j].item = work[j].item /\ work'[j].failed = work[j].failed
        /\ work'[j].put = work[j].put
    BY <1>2, <2>2, <2>3, Moved
  <2>5. StepOfWork(j) BY <1>2, <2>4, QuietImport DEF TablesOK
  <2>6. OfPlace(b)' BY <1>2, <1>4, <2>5, Grown
  <2>7. ~(Len(rows'[work'[j].p][work'[j].b]) > 0) BY <1>1, <1>2, <1>5, <1>6, <1>7, <2>4
  <2>8. WorkOK(j)' BY <1>1, <1>2, <1>3, <2>3, <2>4, <2>5, <2>6, <2>7, AtBranchOK
  <2> QED BY <2>5, <2>8
<1>8. CASE s # <<>>
  <2>1. Delivers(j) BY <1>1, <1>5, <1>8 DEF LookForRow
  <2>2. /\ work' \in [Workers -> Work] /\ \A k \in Workers \ {j} : work'[k] = work[k]
        /\ work'[j].op = "import"
    BY <1>1, <1>2, <1>4, <2>1, DeliversTo
  <2>3. StepOfWork(j) BY <1>2, <2>2, QuietImport DEF TablesOK
  <2>4. OnMenu(item, b)
    <3>1. Len(rows[p][b]) > 0 BY <1>5, <1>6, <1>8
    <3> QED BY <1>4, <3>1 DEF OnMenu, OfPlace
  <2>5. OnMenu(item, b)' BY <1>2, <1>4, <2>3, <2>4, Grown
  <2>6. WorkOK(j)' BY <1>1, <1>2, <1>3, <1>4, <2>1, <2>3, <2>5, DeliversOK
  <2> QED BY <2>3, <2>6
<1> QED BY <1>7, <1>8

\* The item in hand is on the menu, or its branch is gone.
LEMMA AddRowOK ==
    ASSUME MenuInv, NEW j \in Workers, AddRow(j)
    PROVE  StepOfWork(j) /\ WorkOK(j)'
<1>1. PICK p, b, item : p = work[j].p /\ b = work[j].b /\ item = work[j].item OBVIOUS
<1>2. /\ TablesOK /\ WorkOK(j) /\ work[j].at \in {"add row", "add new"} /\ work[j].op = "import"
      /\ UNCHANGED <<category, product, branches>>
  <2>1. work[j].at \in {"add row", "add new"} /\ UNCHANGED <<category, product, branches>>
    BY DEF AddRow
  <2> QED BY <2>1, AsItIs DEF Route
<1>3. work[j].at \in Linking /\ work[j].at \in AtBranch BY <1>2 DEF Linking, AtBranch
<1>4. CASE b \notin LiveBranches
  <2>1. Fails(j) /\ UNCHANGED <<category, product, branches, rows>> BY <1>1, <1>4 DEF AddRow
  <2> QED BY <1>2, <1>3, <2>1, FailsOK
<1>5. CASE b \in LiveBranches
  <2>1. rows' = Linked({p}, {b}) /\ Delivers(j) BY <1>1, <1>5 DEF AddRow
  <2>2. /\ p \in From(item) /\ p \in MadeProducts /\ p \in ProductIds
        /\ b \in PlaceBranches /\ b \in MadeBranches /\ b \in BranchIds /\ item \in Items
    <3>1. p \in From(item) /\ OfPlace(b) /\ item \in Items
      BY <1>1, <1>2, <1>3 DEF WorkOK, ImportSoFar, InHand
    <3> QED BY <1>5, <3>1 DEF From, MadeProducts, OfPlace, PlaceBranches, MadeBranches, LiveBranches
  <2>3. /\ work' \in [Workers -> Work] /\ \A k \in Workers \ {j} : work'[k] = work[k]
        /\ work'[j].at = "items"
    BY <1>1, <1>2, <2>1, <2>2, DeliversTo
  <2>4. /\ rows' \in [ProductIds -> [BranchIds -> Seq(BOOLEAN)]] /\ Len(rows'[p][b]) > 0
        /\ \A q \in ProductIds, c \in BranchIds :
             /\ q = p /\ c = b => Len(rows'[q][c]) = Len(rows[q][c]) + 1
             /\ ~(q = p /\ c = b) => Len(rows'[q][c]) = Len(rows[q][c])
    <3>1. PICK P, B : P = {p} /\ B = {b} OBVIOUS
    <3>2. /\ rows' = Linked(P, B) /\ (\A q : q \in P <=> q = p) /\ (\A c : c \in B <=> c = b)
          /\ TablesOK /\ p \in ProductIds /\ b \in BranchIds
      BY <1>2, <2>1, <2>2, <3>1
    <3> QED BY ONLY <3>2, LinkedRows
  <2>5. StepOfWork(j)
    <3>1. Makes(work[j], p, b) BY <1>1, <1>2 DEF Makes, ForPair
    <3>2. \A q \in ProductIds, c \in BranchIds :
             \/ Len(rows'[q][c]) = Len(rows[q][c])
             \/ q = p /\ c = b /\ Makes(work[j], p, b) /\ Len(rows'[q][c]) = Len(rows[q][c]) + 1
      BY <2>4, <3>1
    <3>3. ~ForBranch(work'[j]) BY <2>3 DEF ForBranch
    <3> QED BY <1>2, <2>2, <2>3, <2>4, <3>2, <3>3, RowsOnly
  <2>6. OnMenu(item, b)'
    <3>1. p \in From(item)' /\ b \in PlaceBranches'
      BY <1>2, <2>2 DEF From, MadeProducts, PlaceBranches
    <3> QED BY <2>4, <3>1 DEF OnMenu
  <2>7. WorkOK(j)' BY <1>1, <1>2, <1>3, <2>1, <2>2, <2>5, <2>6, DeliversOK
  <2> QED BY <2>5, <2>7
<1> QED BY <1>4, <1>5

\* The new product is that of the item, or the item has failed.
LEMMA AddItemOK ==
    ASSUME MenuInv, NEW j \in Workers, NEW image \in BOOLEAN, AddItem(j, image)
    PROVE  StepOfWork(j) /\ WorkOK(j)'
<1>1. PICK p, item, came, at, failed :
         /\ p = First(FreeProducts) /\ item = work[j].item
         /\ came = (Exists(work[j].c) /\ image)
         /\ at = IF came THEN "link new" ELSE "items"
         /\ failed = IF came THEN work[j].failed ELSE work[j].failed \cup {item}
  OBVIOUS
<1> DEFINE x   == [work[j] EXCEPT !.p = p, !.at = at, !.failed = failed]
           new == [NoProduct EXCEPT !.maker = "import", !.uuid = item, !.category = work[j].c,
                                    !.whole = image]
<1>2. /\ TablesOK /\ work[j] \in Work /\ WorkOK(j) /\ work[j].op = "import"
      /\ work[j].at = "add item" /\ UNCHANGED <<category, branches, rows>>
  <2>1. work[j].at = "add item" /\ UNCHANGED <<category, branches, rows>> BY DEF AddItem
  <2> QED BY <2>1, AsItIs DEF Route
<1>3. /\ work' = [work EXCEPT ![j] = x]
      /\ product' = IF ~Exists(work[j].c) THEN product ELSE [product EXCEPT ![p] = new]
  BY <1>1 DEF AddItem
<1>4. p \in ProductIds /\ p \notin MadeProducts
  <2>1. FreeProducts \subseteq Nat /\ FreeProducts # {} BY MenuConstants DEF FreeProducts, AddItem
  <2>2. p \in FreeProducts BY <1>1, <2>1, FirstIsIn
  <2> QED BY <2>2 DEF FreeProducts
<1>5. item \in Items /\ InHand(work[j]) BY <1>1, <1>2 DEF WorkOK, ImportSoFar, InHand, Linking
<1>6. /\ at \in {"link new", "items"} /\ at \in Places /\ failed \in SUBSET Items
      /\ work[j].failed \subseteq failed
      /\ at = "items" => item \in failed
      /\ at = "link new" => Exists(work[j].c)
  <2>1. work[j].failed \in SUBSET Items BY <1>2 DEF Work
  <2> QED BY <1>1, <1>5, <2>1 DEF Places
<1>7. new \in Product /\ new.maker = "import" /\ new.uuid = item
  <2>1. work[j].c \in CategoryIds \cup {NoKey} BY <1>2 DEF Work
  <2> QED BY <1>5, <2>1 DEF NoProduct, Product, Makers
<1>8. /\ x \in Work /\ x.op = "import" /\ x.at = at /\ x.p = p /\ x.item = item
      /\ x.todo = work[j].todo /\ x.failed = failed /\ x.put = work[j].put
  BY <1>1, <1>2, <1>4, <1>6 DEF Work
<1> HIDE DEF x, new
<1>9. /\ work' \in [Workers -> Work] /\ work'[j] = x /\ \A k \in Workers \ {j} : work'[k] = work[k]
  BY <1>2, <1>3, <1>8, WorkIs
<1>10. /\ product' \in [ProductIds -> Product] /\ \A q \in ProductIds \ {p} : product'[q] = product[q]
       /\ product'[p] = product[p] \/ product'[p] = new
       /\ at = "link new" => product'[p] = new
  BY <1>2, <1>3, <1>4, <1>6, <1>7 DEF TablesOK
<1>11. StepOfWork(j)
  <2>1. TablesOK' BY <1>2, <1>9, <1>10 DEF TablesOK
  <2>2. ~ForBranch(work'[j]) BY <1>8, <1>9 DEF ForBranch
  <2>3. BranchStep(j) BY <1>2 DEF BranchStep, NewBranch, MadeBranches
  <2>4. ProductStep(j)
    <3>1. \A q \in ProductIds : NewProduct(q) => q = p /\ product'[p] = new
      BY <1>10 DEF NewProduct, MadeProducts
    <3>2. \A q \in MadeProducts : product'[q] = product[q] BY <1>4, <1>10 DEF MadeProducts
    <3> QED BY <1>1, <1>2, <1>7, <3>1, <3>2 DEF ProductStep
  <2>5. RowStep(j)
    <3>1. ASSUME NEW q \in ProductIds, NEW b \in BranchIds, <<q, b>> \notin contested,
                 product'[q].maker = "crm", product'[q].whole, branches'[b] = "crm"
          PROVE  Len(rows'[q][b]) > 0
      <4>1. product'[q] = product[q] BY <1>7, <1>10, <3>1
      <4>2. Len(rows[q][b]) = 1 BY <1>2, <3>1, <4>1 DEF MenuInv, OneRowEach
      <4>3. Len(rows'[q][b]) = 1 BY <1>2, <4>2
      <4> QED BY <4>3
    <3>2. rows' = rows BY <1>2
    <3> QED BY <3>1, <3>2 DEF RowStep
  <2> QED BY <1>9, <2>1, <2>2, <2>3, <2>4, <2>5 DEF StepOfWork
<1>12. CASE at = "items"
  <2>1. /\ work'[j].op = "import" /\ work'[j].at = "items" /\ work'[j].todo = work[j].todo
        /\ work'[j].failed = failed /\ work'[j].put = work[j].put
    BY <1>8, <1>9, <1>12
  <2>2. \A i \in Items : i \in work[j].todo \cup work[j].failed
                         => i \in work'[j].todo \cup work'[j].failed
    BY <1>6, <2>1
  <2>3. \A i \in Items : InHand(work[j]) /\ i = work[j].item
                         => i \in work'[j].todo \cup work'[j].failed \/ Delivered(j, i)'
    BY <1>1, <1>6, <1>12, <2>1
  <2>4. WorkOK(j)' BY <1>2, <1>11, <2>1, <2>2, <2>3, NextItem
  <2> QED BY <1>11, <2>4
<1>13. CASE at = "link new"
  <2>1. Route(work'[j]) /\ work'[j].op = "import" /\ work'[j].at = "link new" /\ InHand(work'[j])
    BY <1>8, <1>9, <1>13 DEF Route, AtImport, InHand, Linking
  <2>2. p \in From(item)'
    BY <1>4, <1>7, <1>10, <1>13 DEF From, MadeProducts
  <2>3. \A i \in Items \ (x.todo \cup x.failed) : i # item => Delivered(j, i)'
    BY <1>1, <1>2, <1>6, <1>8, <1>9, <1>11, OnTheMenu
  <2>4. ImportSoFar(j)'
    BY <1>5, <1>8, <1>9, <2>1, <2>2, <2>3 DEF ImportSoFar, AtImport, AtBranch
  <2>5. NothingSince(j)' BY <2>1 DEF NothingSince
  <2>6. WorkOK(j)' BY <2>1, <2>4, <2>5, ImportOK
  <2> QED BY <1>11, <2>6
<1> QED BY <1>6, <1>12, <1>13

-----------------------------------------------------------------------------
(* The theorems of the menu.                                               *)

\* The invariant holds of an institution whose first branch sells one product.
LEMMA MenuInitially == InitMenu => MenuInv
<1> SUFFICES ASSUME InitMenu PROVE MenuInv OBVIOUS
<1>1. \A j \in Workers : work[j] = NoWork BY DEF InitMenu
<1>2. NoProduct \in Product /\ NoCategory \in Category /\ NoWork \in Work
      /\ NoWork.op = "none" /\ NoWork.at = "idle"
  BY DEF NoProduct, Product, Makers, NoCategory, Category, NoWork, Work, WorkKinds, Places
<1>3. /\ \A p \in ProductIds :
           /\ product[p] \in Product
           /\ product[p].maker = IF p = 1 THEN "crm" ELSE "none"
           /\ product[p].uuid = NoKey
      /\ product \in [ProductIds -> Product]
  <2> DEFINE first == [NoProduct EXCEPT !.maker = "crm", !.category = 1, !.whole = TRUE]
  <2>1. first \in Product /\ first.maker = "crm" /\ first.uuid = NoKey
    BY MenuConstants DEF NoProduct, Product, Makers
  <2>2. NoProduct.maker = "none" /\ NoProduct.uuid = NoKey BY DEF NoProduct
  <2>3. product = [p \in ProductIds |-> IF p = 1 THEN first ELSE NoProduct] BY DEF InitMenu
  <2> HIDE DEF first
  <2> QED BY <1>2, <2>1, <2>2, <2>3
<1>4. category \in [CategoryIds -> Category]
  <2> DEFINE first == [NoCategory EXCEPT !.state = "live"]
  <2>1. first \in Category BY DEF NoCategory, Category
  <2>2. category = [c \in CategoryIds |-> IF c = 1 THEN first ELSE NoCategory] BY DEF InitMenu
  <2> HIDE DEF first
  <2> QED BY <1>2, <2>1, <2>2
<1>5. /\ rows \in [ProductIds -> [BranchIds -> Seq(BOOLEAN)]]
      /\ \A p \in ProductIds, b \in BranchIds : Len(rows[p][b]) = IF p = 1 /\ b = 1 THEN 1 ELSE 0
  <2>1. <<TRUE>> \in Seq(BOOLEAN) /\ <<>> \in Seq(BOOLEAN) /\ Len(<<TRUE>>) = 1 /\ Len(<<>>) = 0
    OBVIOUS
  <2>2. PICK one, nil : one = <<TRUE>> /\ nil = <<>> OBVIOUS
  <2>3. rows = [p \in ProductIds |-> [b \in BranchIds |-> IF p = 1 /\ b = 1 THEN one ELSE nil]]
    BY <2>2 DEF InitMenu
  <2>4. one \in Seq(BOOLEAN) /\ nil \in Seq(BOOLEAN) /\ Len(one) = 1 /\ Len(nil) = 0 BY <2>1, <2>2
  <2> HIDE <2>1, <2>2
  <2> QED BY ONLY <2>3, <2>4
<1>6. branches = [b \in BranchIds |-> IF b = 1 THEN "crm" ELSE "none"] BY DEF InitMenu
<1>7. /\ MadeProducts = {1} /\ MadeBranches = {1} /\ PlaceBranches = {}
      /\ \A item \in Items : From(item) = {}
  BY <1>3, <1>6, MenuConstants DEF MadeProducts, MadeBranches, PlaceBranches, From
<1>8. MenuTypeOK
  <2>1. work \in [Workers -> Work] BY <1>2 DEF InitMenu
  <2> QED BY <1>3, <1>4, <1>5, <1>6, <2>1 DEF MenuTypeOK, BranchStates, InitMenu
<1>9. ASSUME NEW j \in Workers PROVE WorkOK(j)
  <2>1. work[j].op = "none" /\ work[j].at = "idle" BY <1>1, <1>2
  <2> QED BY <2>1 DEF WorkOK, Route, KnowsProduct, KnowsBranches, ProductToCome, BranchToCome,
          RowToCome, RowInMemory, ImportSoFar, NothingSince, ForPair, ForProduct, ForBranch, InHand,
          AtImport, Linking, AtBranch
<1>10. RowsOfMade BY <1>5, <1>7 DEF RowsOfMade
<1>11. Crossing(work) \subseteq contested
  <2>1. \A j \in Workers : Making(work[j]) = {} BY <1>1, <1>2 DEF Making
  <2> QED BY <2>1 DEF Crossing
<1>12. OneImport BY <1>1, <1>2 DEF OneImport, Importing
<1>13. OneRowEach
  <2> SUFFICES ASSUME NEW p \in ProductIds, NEW b \in BranchIds
               PROVE  /\ Len(rows[p][b]) <= 1
                      /\ product[p].maker = "crm" /\ branches[b] = "crm" => Len(rows[p][b]) = 1
    BY DEF OneRowEach
  <2>1. product[p].maker = "crm" => p = 1 BY <1>3
  <2>2. branches[b] = "crm" => b = 1 BY <1>6
  <2>3. CASE p = 1 /\ b = 1
    <3>1. Len(rows[p][b]) = 1 BY <1>5, <2>3
    <3> QED BY <3>1
  <2>4. CASE ~(p = 1 /\ b = 1)
    <3>1. Len(rows[p][b]) = 0 BY <1>5, <2>4
    <3> QED BY <2>1, <2>2, <2>4, <3>1
  <2> QED BY <2>3, <2>4
<1>14. ImportedOnce BY <1>7 DEF ImportedOnce
<1> QED BY <1>8, <1>9, <1>10, <1>11, <1>12, <1>13, <1>14 DEF MenuInv

\* Every step keeps it.
LEMMA MenuInductive == MenuInv /\ [NextMenu]_menuVars => MenuInv'
<1> SUFFICES ASSUME MenuInv, [NextMenu]_menuVars PROVE MenuInv' OBVIOUS
<1>1. CASE NextMenu
  <2>1. PICK j \in Workers : StepMenu(j) /\ Noted BY <1>1 DEF NextMenu, Noted
  <2> SUFFICES StepOfWork(j) /\ WorkOK(j)' BY <2>1, StepKeepsMenu
  <2>2. CASE \E c \in CategoryIds, maker \in {"crm", "panel"} : CreateProduct(j, c, maker)
    BY <2>1, <2>2, CreateProductOK
  <2>3. CASE ReadBranches(j) BY <2>1, <2>3, ReadBranchesOK
  <2>4. CASE LinkProduct(j) BY <2>1, <2>4, LinkProductOK
  <2>5. CASE CreateBranch(j) BY <2>1, <2>5, CreateBranchOK
  <2>6. CASE LinkBranch(j) BY <2>1, <2>6, LinkBranchOK
  <2>7. CASE \E p \in ProductIds, c \in CategoryIds, B \in SUBSET BranchIds : LoadProduct(j, p, c, B)
    BY <2>7, LoadProductOK
  <2>8. CASE \E p \in ProductIds : DeleteProduct(j, p) BY <2>8, DeleteProductOK
  <2>9. CASE SaveProduct(j) BY <2>9, SaveProductOK
  <2>10. CASE \E p \in ProductIds, B \in SUBSET BranchIds, value \in BOOLEAN :
                 SetAvailability(j, p, B, value)
    BY <2>10, SetAvailabilityOK
  <2>11. CASE \E b \in BranchIds : GetRow(j, b) BY <2>11, GetRowOK
  <2>12. CASE PutRow(j) BY <2>12, PutRowOK
  <2>13. CASE CreateCategory(j) BY <2>13, CreateCategoryOK
  <2>14. CASE \E c \in CategoryIds, state \in {"live", "deleted"} : LoadCategory(j, c, state)
    BY <2>14, LoadCategoryOK
  <2>15. CASE SaveCategory(j) BY <2>15, SaveCategoryOK
  <2>16. CASE DeleteProducts(j) BY <2>16, DeleteProductsOK
  <2>17. CASE \E c \in CategoryIds : RemoveCategory(j, c) BY <2>17, RemoveCategoryOK
  <2>18. CASE StartImport(j) BY <2>18, StartImportOK
  <2>19. CASE ImportDies(j) BY <2>19, ImportDiesOK
  <2>20. CASE LookForPlace(j) BY <2>20, LookForPlaceOK
  <2>21. CASE AddPlace(j) BY <2>21, AddPlaceOK
  <2>22. CASE LookForCategory(j) BY <2>22, LookForCategoryOK
  <2>23. CASE AddCategory(j) BY <2>23, AddCategoryOK
  <2>24. CASE \E item \in Items : LookForItem(j, item) BY <2>24, LookForItemOK
  <2>25. CASE \E item \in Items : SkipItem(j, item) BY <2>25, SkipItemOK
  <2>26. CASE \E image \in BOOLEAN : AddItem(j, image) BY <2>26, AddItemOK
  <2>27. CASE LinkItem(j) BY <2>27, LinkItemOK
  <2>28. CASE AddRow(j) BY <2>28, AddRowOK
  <2>29. CASE ImportEnds(j) BY <2>29, ImportEndsOK
  <2>30. CASE \E b \in BranchIds : DeleteBranch(j, b) BY <2>30, DeleteBranchOK
  <2>31. CASE LookForRow(j) BY <2>31, LookForRowOK
  <2> QED BY <2>1, <2>2, <2>3, <2>4, <2>5, <2>6, <2>7, <2>8, <2>9, <2>10, <2>11, <2>12, <2>13,
             <2>14, <2>15, <2>16, <2>17, <2>18, <2>19, <2>20, <2>21, <2>22, <2>23, <2>24, <2>25,
             <2>26, <2>27, <2>28, <2>29, <2>30, <2>31
      DEF StepMenu
<1>2. CASE UNCHANGED menuVars
  <2>1. UNCHANGED <<category, product, branches, rows, work, contested, parallel>>
    BY <1>2 DEF menuVars
  <2>2. MenuTypeOK' /\ OneRowEach' /\ OneImport' /\ (Crossing(work) \subseteq contested)'
    BY <2>1 DEF MenuInv, MenuTypeOK, OneRowEach, OneImport, Crossing
  <2>3. /\ MadeProducts' = MadeProducts /\ MadeBranches' = MadeBranches
        /\ PlaceBranches' = PlaceBranches /\ \A item : From(item)' = From(item)
    BY <2>1 DEF MadeProducts, MadeBranches, PlaceBranches, From
  <2>4. RowsOfMade' /\ ImportedOnce' BY <2>1, <2>3 DEF MenuInv, RowsOfMade, ImportedOnce
  <2>5. ASSUME NEW j \in Workers PROVE WorkOK(j)'
    <3>1. WorkOK(j) BY DEF MenuInv
    <3>2. /\ \A item : Delivered(j, item) => Delivered(j, item)'
          /\ \A b : OfPlace(b) => OfPlace(b)'
      BY <2>1, <2>3 DEF OnMenu, Delivered, OfPlace
    <3>3. /\ KnowsProduct(j)' /\ KnowsBranches(j)' /\ ProductToCome(j)' /\ BranchToCome(j)'
          /\ RowToCome(j)' /\ RowInMemory(j)'
      BY <2>1, <2>3, <3>1
      DEF WorkOK, KnowsProduct, KnowsBranches, ProductToCome, BranchToCome, RowToCome, RowInMemory
    <3>4. ImportSoFar(j)' BY <2>1, <2>3, <3>1, <3>2 DEF WorkOK, ImportSoFar
    <3>5. ~parallel' => NothingSince(j)' BY <2>1, <2>3, <3>1 DEF WorkOK, NothingSince
    <3> QED BY <2>1, <3>1, <3>3, <3>4, <3>5 DEF WorkOK
  <2> QED BY <2>2, <2>4, <2>5 DEF MenuInv
<1> QED BY <1>1, <1>2

\* Every reachable state keeps the invariant of the menu: what each job at work
\* has read, made and still owes.
THEOREM MenuAlways == SpecMenu => []MenuInv
<1> QED BY MenuInitially, MenuInductive, PTL DEF SpecMenu

\* A product and a branch of the CRM have one row between them, whichever was
\* created first, unless two jobs made the row at one time; none has two.
THEOREM OneRowForEach == SpecMenu => []OneRowEach
<1>1. MenuInv => OneRowEach BY DEF MenuInv
<1> QED BY <1>1, MenuAlways, PTL

\* Imports that do not overlap make one branch for the place and one product for
\* an item, however many there are and whatever fails in between.
THEOREM ItemsImportedOnce == SpecMenu => []ImportedOnce
<1>1. MenuInv => ImportedOnce BY DEF MenuInv
<1> QED BY <1>1, MenuAlways, PTL

\* An import that ran to its end has put every item that came on the menu of a
\* branch of the place, even when other imports ran beside it, and there it is
\* unless the branch was deleted since.
THEOREM ImportsDeliver == SpecMenu => []ImportDelivers
<1>1. MenuInv => ImportDelivers
  <2> SUFFICES ASSUME MenuInv, NEW j \in Workers, NEW item \in Items, work[j].op = "import",
                      work[j].at = "done", item \notin work[j].failed
               PROVE  \E b \in BranchIds :
                         /\ <<item, b>> \in work[j].put
                         /\ branches[b] = "gone" \/
                            (b \in PlaceBranches /\ \E p \in From(item) : rows[p][b] # <<>>)
    BY DEF ImportDelivers
  <2>1. item \notin work[j].todo /\ ~InHand(work[j])
    BY AsItIs DEF WorkOK, ImportSoFar, InHand, Linking
  <2>2. Delivered(j, item) BY <2>1, AsItIs DEF WorkOK, ImportSoFar
  <2>3. PICK b \in BranchIds : <<item, b>> \in work[j].put /\ OnMenu(item, b) BY <2>2 DEF Delivered
  <2>4. \A s : Len(s) > 0 => s # <<>>
    <3>1. ~(Len(<<>>) > 0) OBVIOUS
    <3> QED BY <3>1
  <2> QED BY <2>3, <2>4 DEF OnMenu
<1> QED BY <1>1, MenuAlways, PTL
=============================================================================
