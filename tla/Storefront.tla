------------------------------ MODULE Storefront ------------------------------
(***************************************************************************)
(* Whether an institution is open: its own switch, its branches, and the   *)
(* hours of each branch on each day of the week.  The restaurant, the CRM  *)
(* and the institution's panel change these rows, most of them by loading  *)
(* an object and saving the whole row; the customer's list, page, search   *)
(* and banners, and the creation of an order, each read them by a query of *)
(* their own.  One institution, one customer at one place.                 *)
(*                                                                         *)
(* A request is a value of job[j]; it runs once.  The views change nothing *)
(* and are operators on the state.                                         *)
(***************************************************************************)
EXTENDS Integers, FiniteSets

CONSTANTS Branches,  \* primary keys of branches
          Products,  \* what the institution sells
          Days,      \* days of the week, counted from 0
          Moments,   \* moments of a day, counted from 0
          Schedules, \* hours a branch may be given
          Served,    \* branches whose region holds the customer
          Metres,    \* distance of a branch as order/distance_calculator.py has it
          Degrees,   \* distance of a branch as the database has it, in degrees
          None,      \* no branch, no row
          Jobs       \* the requests of a behaviour

Day == 0 .. Days - 1
Time == 0 .. Moments - 1
Hours == [start : Time, end : Time]

ASSUME StorefrontAssumption ==
    /\ Days \in Nat \ {0} /\ Moments \in Nat \ {0}
    /\ Schedules \subseteq Hours /\ Schedules # {}
    /\ Served \subseteq Branches
    /\ Metres \in [Branches -> Nat] /\ Degrees \in [Branches -> Nat]
    /\ \A b, c \in Branches : b # c => Metres[b] # Metres[c] /\ Degrees[b] # Degrees[c]
    /\ None \notin Branches

VARIABLES institution, branch, schedule, sold, clock, job,
          asked,     \* what each row was last asked to be
          crossed    \* rows that two requests were changing at one time
table == <<institution, branch, schedule, sold>>
vars == <<table, clock, job, asked, crossed>>

\* live: not deleted and active; off: not active.
Institution == [open : BOOLEAN, state : {"live", "off", "deleted"}]
\* No code deletes a branch but for good.
Branch == [made : BOOLEAN, open : BOOLEAN, active : BOOLEAN, address : BOOLEAN]
DayRow == [made : BOOLEAN, active : BOOLEAN, hours : Hours]

Gone == [made |-> FALSE, open |-> FALSE, active |-> FALSE, address |-> FALSE]
\* 00:00 - 23:59, what a row is made with.
Default == [start |-> 0, end |-> Moments - 1]
NoDay == [made |-> FALSE, active |-> FALSE, hours |-> Default]
NewDay == [made |-> TRUE, active |-> TRUE, hours |-> Default]

Ops == {"none", "institution", "branch", "hours", "week", "day"}
Job == [op : Ops, at : {"idle", "week", "save", "done", "dead"},
        institution : Institution, b : Branches \cup {None}, branch : Branch,
        d : Day, day : DayRow, week : [Day -> DayRow], todo : SUBSET Day, hours : Hours]

\* Rows a request has loaded and may write.
Rows == {<<"institution">>} \cup ({"branch"} \X Branches) \cup ({"day"} \X Branches \X Day)

Idle == [op |-> "none", at |-> "idle",
         institution |-> [open |-> FALSE, state |-> "off"], b |-> None, branch |-> Gone,
         d |-> 0, day |-> NoDay, week |-> [d \in Day |-> NoDay], todo |-> {},
         hours |-> Default]

\* Branches that are open and sell everything, each with hours of its own.
Init ==
    /\ institution = [open |-> TRUE, state |-> "live"]
    /\ branch = [b \in Branches |->
                   [made |-> TRUE, open |-> TRUE, active |-> TRUE, address |-> TRUE]]
    /\ \E hours \in [Branches -> Schedules] :
         schedule = [b \in Branches |-> [d \in Day |-> [NewDay EXCEPT !.hours = hours[b]]]]
    /\ sold = [b \in Branches |-> Products]
    /\ clock \in [day : Day, time : Time]
    /\ job = [j \in Jobs |-> Idle]
    /\ asked = [institution |-> institution, branch |-> branch, schedule |-> schedule]
    /\ crossed = {}

-----------------------------------------------------------------------------
(* The views.                                                              *)

Available(b) == branch[b].made /\ branch[b].active
Today(b) == schedule[b][clock.day]

NormalHours(row) ==
    /\ row.hours.start < row.hours.end
    /\ row.hours.start <= clock.time /\ clock.time <= row.hours.end
\* (Mutant: a night's hours are over at midnight.)
OvernightUntilMidnight(row) ==
    /\ row.hours.start > row.hours.end
    /\ row.hours.start <= clock.time

OvernightHours(row) ==
    /\ row.hours.start > row.hours.end
    /\ row.hours.start <= clock.time \/ clock.time <= row.hours.end
\* Only the row of today is asked, for the hours after midnight too.
OpenBySchedule(b) ==
    /\ Today(b).made /\ Today(b).active
    /\ NormalHours(Today(b)) \/ OvernightHours(Today(b))

Closest(S, distance) == IF S = {} THEN None
                        ELSE CHOOSE b \in S : \A c \in S : distance[b] <= distance[c]

\* (Mutant: a branch that is switched off may be chosen.)
SuitableOpenOrNot == Closest({b \in Branches : Available(b) /\ branch[b].address
                                                 /\ OpenBySchedule(b)}, Metres)

\* find_suitable_branch: the branch an order goes to, None if it is refused.
Suitable == Closest({b \in Branches : Available(b) /\ branch[b].open /\ branch[b].address
                                        /\ OpenBySchedule(b)}, Metres)

\* find_another_branch: with no branch that has an address, min() raises.
Another ==
    LET working == {b \in Branches : Available(b) /\ branch[b].open /\ branch[b].address}
    IN  Closest(IF working # {} THEN working
                ELSE {b \in Branches : branch[b].made /\ branch[b].address}, Metres)

HasActiveBranch == institution.open /\ \E b \in Branches : Available(b) /\ branch[b].open
SomeBranchBySchedule ==
    institution.open /\ \E b \in Branches : Available(b) /\ branch[b].open /\ OpenBySchedule(b)
AnyBranchBySchedule ==
    institution.open /\ \E b \in Branches : branch[b].made /\ OpenBySchedule(b)

\* to_representation: the flags of the query are replaced by those of one
\* branch, unless it has no row for today.
Represent(bySchedule) ==
    LET b == IF Suitable # None THEN Suitable ELSE Another
    IN  IF b = None THEN [fails |-> TRUE, open |-> FALSE, bySchedule |-> FALSE, active |-> FALSE]
        ELSE IF ~Today(b).made
        THEN [fails |-> FALSE, open |-> institution.open, bySchedule |-> bySchedule,
              active |-> HasActiveBranch]
        ELSE LET works == branch[b].open /\ Today(b).active
             IN  [fails |-> FALSE, open |-> institution.open /\ works,
                  bySchedule |-> Suitable # None, active |-> HasActiveBranch /\ works]

ShowsOpen(shown) == ~shown.fails /\ shown.open /\ shown.bySchedule /\ shown.active

\* The list and the page: live institutions with a branch that serves the place.
Listed == institution.state = "live" /\ \E b \in Served : branch[b].made
ListShowsOpen == Listed /\ ShowsOpen(Represent(SomeBranchBySchedule))
\* The search asks no region, and takes the hours of closed branches too.
SearchShowsOpen ==
    /\ institution.state = "live" /\ HasActiveBranch /\ AnyBranchBySchedule
    /\ ShowsOpen(Represent(AnyBranchBySchedule))
\* A banner shows institutions that are not live as well.
BannerShowsOpen == ShowsOpen(Represent(SomeBranchBySchedule))

\* The page and the check of a basket: the closest branch that is switched
\* on, whatever its hours; one without an address has no distance and comes last.
\* Without a branch the page fails.
MenuBranch ==
    LET working == {b \in Branches : Available(b) /\ branch[b].open}
        placed  == {b \in working : branch[b].address}
    IN  Closest(IF placed # {} THEN placed ELSE working, Degrees)
Menu == IF MenuBranch = None THEN {} ELSE sold[MenuBranch]
\* is_institution_available: an order asks no flag of the institution.
OrderBranch == Suitable
SoldToOrder == IF OrderBranch = None THEN {} ELSE sold[OrderBranch]

-----------------------------------------------------------------------------
(* The requests.                                                           *)

Starts(op, at) == [Idle EXCEPT !.op = op, !.at = at]
Goes(j, at) == job' = [job EXCEPT ![j] = [@ EXCEPT !.at = at]]
Keeps == UNCHANGED <<table, clock, asked>>

\* Switches, deletions, and the requests that save the institution for
\* something else, its balance or its admin.
LoadInstitution(j, row) ==
    /\ job[j].at = "idle"
    /\ row.state # institution.state =>
         institution.state # "deleted" /\ (row.state = "deleted" => row.open = institution.open)
    /\ job' = [job EXCEPT ![j] = [Starts("institution", "save") EXCEPT !.institution = row]]
    /\ asked' = [asked EXCEPT !.institution = row]
    /\ UNCHANGED <<table, clock>>

SaveInstitution(j) ==
    /\ job[j].at = "save" /\ job[j].op = "institution"
    /\ institution' = job[j].institution
    /\ Goes(j, "done")
    /\ UNCHANGED <<branch, schedule, sold, clock, asked>>

\* The deletion of an institution category is one UPDATE.
DeleteCategory(j) ==
    /\ job[j].at = "idle"
    /\ institution' = [institution EXCEPT !.state = "deleted"]
    /\ asked' = [asked EXCEPT !.institution = [@ EXCEPT !.state = "deleted"]]
    /\ Goes(j, "done")
    /\ UNCHANGED <<branch, schedule, sold, clock>>

\* The restaurant's PATCH: open or closed, another address or none.
LoadBranch(j, b, open, address) ==
    /\ job[j].at = "idle" /\ branch[b].made
    /\ LET row == [branch[b] EXCEPT !.open = open, !.address = address] IN
       /\ job' = [job EXCEPT ![j] = [Starts("branch", "save") EXCEPT !.b = b, !.branch = row]]
       /\ asked' = [asked EXCEPT !.branch[b] = row]
    /\ UNCHANGED <<table, clock>>

\* save() of a branch that is gone inserts it again, without days.
SaveBranch(j) ==
    /\ job[j].at = "save" /\ job[j].op = "branch"
    /\ branch' = [branch EXCEPT ![job[j].b] = job[j].branch]
    /\ Goes(j, "done")
    /\ UNCHANGED <<institution, schedule, sold, clock, asked>>

\* The restaurant's DELETE takes the rows that point to the branch with it.
RemoveBranch(j, b) ==
    /\ job[j].at = "idle" /\ branch[b].made
    /\ branch' = [branch EXCEPT ![b] = Gone]
    /\ schedule' = [schedule EXCEPT ![b] = [d \in Day |-> NoDay]]
    /\ sold' = [sold EXCEPT ![b] = {}]
    /\ asked' = [asked EXCEPT !.branch[b] = Gone, !.schedule[b] = schedule'[b]]
    /\ Goes(j, "done")
    /\ UNCHANGED <<institution, clock>>

\* The CRM's PUT of a branch: flags, and hours for the whole week.  An address
\* it makes for a branch without one is not saved.
LoadHours(j, b, open, active, hours) ==
    /\ job[j].at = "idle" /\ branch[b].made
    /\ LET row == [branch[b] EXCEPT !.open = open, !.active = active]
           week == [d \in Day |-> [schedule[b][d] EXCEPT !.hours =
                                     IF schedule[b][d].made THEN hours ELSE @]] IN
       /\ job' = [job EXCEPT ![j] = [Starts("hours", "week") EXCEPT
                    !.b = b, !.branch = row, !.hours = hours]]
       /\ asked' = [asked EXCEPT !.branch[b] = row, !.schedule[b] = week]
    /\ UNCHANGED <<table, clock>>

ReadWeek(j) ==
    /\ job[j].at = "week" /\ job[j].op = "hours"
    /\ job' = [job EXCEPT ![j] = [@ EXCEPT !.at = "save", !.week = schedule[job[j].b]]]
    /\ Keeps

\* (Mutant: the days are written anew, a day off becomes a working day.)
SaveWholeWeek(j) ==
    /\ job[j].at = "save" /\ job[j].op = "hours"
    /\ schedule' = [schedule EXCEPT ![job[j].b] =
                      [d \in Day |-> [NewDay EXCEPT !.hours = job[j].hours]]]
    /\ branch' = [branch EXCEPT ![job[j].b] = job[j].branch]
    /\ Goes(j, "done")
    /\ UNCHANGED <<institution, sold, clock, asked>>

\* One transaction: the days as read, then the branch.  A day whose branch is
\* gone breaks the foreign key.
SaveHours(j) ==
    /\ job[j].at = "save" /\ job[j].op = "hours"
    /\ IF ~branch[job[j].b].made /\ \E d \in Day : job[j].week[d].made
       THEN Goes(j, "dead") /\ UNCHANGED table
       ELSE /\ schedule' = [schedule EXCEPT ![job[j].b] = [d \in Day |->
                 IF job[j].week[d].made THEN [job[j].week[d] EXCEPT !.hours = job[j].hours]
                                        ELSE schedule[job[j].b][d]]]
            /\ branch' = [branch EXCEPT ![job[j].b] = job[j].branch]
            /\ Goes(j, "done")
            /\ UNCHANGED <<institution, sold>>
    /\ UNCHANGED <<clock, asked>>

\* update_schedule: days one by one, each under its lock; a missing one is made.
LoadWeek(j, b, days, hours) ==
    /\ job[j].at = "idle" /\ branch[b].made /\ days # {}
    /\ job' = [job EXCEPT ![j] = [Starts("week", "save") EXCEPT
                 !.b = b, !.todo = days, !.hours = hours]]
    /\ asked' = [asked EXCEPT !.schedule[b] = [d \in Day |->
                   IF d \notin days THEN @[d]
                   ELSE [IF schedule[b][d].made THEN @[d] ELSE NewDay EXCEPT !.hours = hours]]]
    /\ UNCHANGED <<table, clock>>

SaveDayOfWeek(j, d) ==
    /\ job[j].at = "save" /\ job[j].op = "week" /\ d \in job[j].todo
    /\ IF ~branch[job[j].b].made
       THEN Goes(j, "dead") /\ UNCHANGED schedule
       ELSE /\ schedule' = [schedule EXCEPT ![job[j].b][d] =
                 [IF @.made THEN @ ELSE NewDay EXCEPT !.hours = job[j].hours]]
            /\ job' = [job EXCEPT ![j] = [@ EXCEPT !.todo = job[j].todo \ {d},
                         !.at = IF job[j].todo = {d} THEN "done" ELSE "save"]]
    /\ UNCHANGED <<institution, branch, sold, clock, asked>>

\* A day on or off; after a DELETE the saved row would point to nothing.
LoadDay(j, b, d) ==
    /\ job[j].at = "idle" /\ schedule[b][d].made
    /\ LET row == [schedule[b][d] EXCEPT !.active = ~@] IN
       /\ job' = [job EXCEPT ![j] = [Starts("day", "save") EXCEPT !.b = b, !.d = d, !.day = row]]
       /\ asked' = [asked EXCEPT !.schedule[b][d] = row]
    /\ UNCHANGED <<table, clock>>

SaveDay(j) ==
    /\ job[j].at = "save" /\ job[j].op = "day"
    /\ IF ~branch[job[j].b].made
       THEN Goes(j, "dead") /\ UNCHANGED schedule
       ELSE /\ schedule' = [schedule EXCEPT ![job[j].b][job[j].d] = job[j].day]
            /\ Goes(j, "done")
    /\ UNCHANGED <<institution, branch, sold, clock, asked>>

\* The availability of a product at a branch (its rows are in Catalogue).
SetSold(j, b, products) ==
    /\ job[j].at = "idle" /\ branch[b].made
    /\ sold' = [sold EXCEPT ![b] = products]
    /\ Goes(j, "done")
    /\ UNCHANGED <<institution, branch, schedule, clock, asked>>

Tick ==
    /\ clock' = IF clock.time + 1 \in Time THEN [clock EXCEPT !.time = @ + 1]
                ELSE [day |-> IF clock.day + 1 \in Day THEN clock.day + 1 ELSE 0, time |-> 0]
    /\ UNCHANGED <<table, job, asked>>

-----------------------------------------------------------------------------
\* The rows a request that has begun may still write.
Writing(jb) ==
    IF jb.at \notin {"week", "save"} THEN {}
    ELSE CASE jb.op = "institution" -> {<<"institution">>}
           [] jb.op = "branch" -> {<<"branch", jb.b>>}
           [] jb.op = "hours" -> {<<"branch", jb.b>>} \cup ({"day"} \X {jb.b} \X Day)
           [] jb.op = "week" -> {"day"} \X {jb.b} \X jb.todo
           [] jb.op = "day" -> {<<"day", jb.b, jb.d>>}
\* A branch that is removed takes its days with it.
Removed(b) == branch[b].made /\ ~branch'[b].made
Changed ==
    {r \in Rows : CASE r[1] = "institution" -> institution' # institution
                    [] r[1] = "branch" -> branch'[r[2]] # branch[r[2]]
                    [] OTHER -> Removed(r[2]) \/ schedule'[r[2]] # schedule[r[2]]}
Others(j) == UNION {Writing(job[k]) : k \in Jobs \ {j}}

Step(j) ==
    \/ \E row \in Institution : LoadInstitution(j, row)
    \/ SaveInstitution(j) \/ DeleteCategory(j)
    \/ \E b \in Branches, open, address \in BOOLEAN : LoadBranch(j, b, open, address)
    \/ SaveBranch(j)
    \/ \E b \in Branches : RemoveBranch(j, b)
    \/ \E b \in Branches, open, active \in BOOLEAN, hours \in Schedules :
         LoadHours(j, b, open, active, hours)
    \/ ReadWeek(j) \/ SaveHours(j)
    \/ \E b \in Branches, days \in SUBSET Day, hours \in Schedules : LoadWeek(j, b, days, hours)
    \/ \E d \in Day : SaveDayOfWeek(j, d)
    \/ \E b \in Branches, d \in Day : LoadDay(j, b, d)
    \/ SaveDay(j)
    \/ \E b \in Branches, products \in SUBSET Products : SetSold(j, b, products)

Next ==
    \/ Tick /\ UNCHANGED crossed
    \/ \E j \in Jobs :
         /\ Step(j)
         /\ UNCHANGED clock
         /\ crossed' = crossed \cup
              (Others(j) \cap (Changed \cup Writing(job[j]) \cup Writing(job'[j])))

Spec == Init /\ [][Next]_vars

-----------------------------------------------------------------------------
TypeOK ==
    /\ institution \in Institution
    /\ branch \in [Branches -> Branch]
    /\ schedule \in [Branches -> [Day -> DayRow]]
    /\ sold \in [Branches -> SUBSET Products]
    /\ clock \in [day : Day, time : Time]
    /\ job \in [Jobs -> Job]
    /\ asked \in [institution : Institution, branch : [Branches -> Branch],
                  schedule : [Branches -> [Day -> DayRow]]]
    /\ crossed \subseteq Rows

\* What the hours of a row mean: from the start of the day they are given
\* for to their end, on the next day if that comes first.
Yesterday == IF clock.day = 0 THEN Days - 1 ELSE clock.day - 1
Length(hours) == IF hours.start <= hours.end THEN hours.end - hours.start
                 ELSE hours.end + Moments - hours.start
OpenSince(row, moments) ==
    row.hours.start # row.hours.end /\ moments \in 0 .. Length(row.hours)
Reference(b) ==
    \/ OpenSince(schedule[b][clock.day], clock.time - schedule[b][clock.day].hours.start)
    \/ OpenSince(schedule[b][Yesterday],
                 clock.time + Moments - schedule[b][Yesterday].hours.start)

\* A branch is open by the schedule exactly within the hours it was given,
\* past midnight too, on a day whose row is like that of the day before: the
\* query asks only today's row, and takes its morning for that of yesterday.
HoursAgree ==
    \A b \in Branches :
        Today(b).made /\ Today(b).active /\ schedule[b][Yesterday] = Today(b)
        => (OpenBySchedule(b) <=> Reference(b))

\* An institution all of whose branches have their days and an address.
Complete == \A b \in Branches : branch[b].made =>
    branch[b].address /\ \A d \in Day : schedule[b][d].made

\* The list, the page, the search, the banners and the order have queries of
\* their own and agree: where the list shows the institution open, the page
\* opens, search and banner show it open, and an order is taken; what an
\* order would be taken for by an open institution is listed open; and if
\* the branch of the page is within its hours and the closest in metres too,
\* the order goes to it, so that everything on the menu can be sold.
OneAnswer ==
    /\ Complete /\ ListShowsOpen =>
         SearchShowsOpen /\ BannerShowsOpen /\ MenuBranch # None /\ OrderBranch # None
    /\ Listed /\ institution.open /\ OrderBranch # None => ListShowsOpen
    /\ /\ MenuBranch # None
       /\ branch[MenuBranch].address /\ OpenBySchedule(MenuBranch)
       /\ \A b \in Branches : Metres[MenuBranch] <= Metres[b] \/ ~Available(b)
       => Menu \subseteq SoldToOrder

\* Requests that do not cross leave every row as the last of them asked: a
\* closing, a deletion or a day off is not taken back by a request about
\* something else.
KeptAsAsked ==
    \A r \in Rows : r \notin crossed /\ r \notin UNION {Writing(job[j]) : j \in Jobs} =>
        CASE r[1] = "institution" -> institution = asked.institution
          [] r[1] = "branch" -> branch[r[2]] = asked.branch[r[2]]
          [] OTHER -> schedule[r[2]][r[3]] = asked.schedule[r[2]][r[3]]
=============================================================================
