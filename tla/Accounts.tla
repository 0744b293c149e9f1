------------------------------ MODULE Accounts ------------------------------
(***************************************************************************)
(* The accounts of customers and staff, one institution whose posts they   *)
(* hold, and the rows of restaurant workers and couriers beside them.      *)
(* Almost every request loads a whole User or Institution row and writes   *)
(* it back; only codes and the switch of a worker are written by column.   *)
(* One request alone, the appointment by the CRM, is a transaction: all    *)
(* others may die between their statements.                                *)
(*                                                                         *)
(* A phone number is unique in the table.  Deleting an account renames its *)
(* number to one nobody can have, and so gives it back: None here.         *)
(***************************************************************************)
EXTENDS Naturals, FiniteSets

CONSTANTS Users,        \* primary keys of accounts
          Numbers,      \* phone numbers
          None,         \* no number, no account
          Customer, Owner, Admin,  \* the accounts at the beginning
          StartNumber,  \* and their numbers
          Jobs,         \* requests under way
          NoJob,
          MaxRequests   \* requests in a behaviour

ASSUME AccountsAssumption ==
    /\ Users \subseteq Nat /\ {Customer, Owner, Admin} \subseteq Users
    /\ Customer # Owner /\ Owner # Admin /\ Customer # Admin
    /\ StartNumber \in [{Customer, Owner, Admin} -> Numbers]
    /\ \A u, v \in {Customer, Owner, Admin} : StartNumber[u] = StartNumber[v] => u = v
    /\ None \notin Numbers \cup Users /\ MaxRequests \in Nat

VARIABLES user, institution, worker, courier, codes, job, requests,
          gone,     \* accounts whose deletion was saved
          loose,    \* accounts that lost their post, never came to it, or do not fit it
          raced     \* rows that changed while a request had them in memory
vars == <<user, institution, worker, courier, codes, job, requests, gone, loose, raced>>
tables == <<user, institution, worker, courier, codes>>

Posts    == {"institution_owner", "institution_admin"}
Staff    == Posts \cup {"institution_worker"}
Types    == Staff \cup {"customer", "operator"}
Account  == [type : Types \cup {"none"}, phone : Numbers \cup {None}, active : BOOLEAN]
Institution == [holder : [Posts -> Users \cup {None}], deleted : BOOLEAN]
NoAccount == [type |-> "none", phone |-> None, active |-> FALSE]

\* "at": what the request does next; u, row: the account in memory, as it will be
\* written; inst: the institution as loaded.
Ops    == {"register", "change", "edit", "delete", "create", "worker", "courier",
           "panel", "appoint", "dismiss", "drop", "close", "institution"}
Stages == {"insert", "otp", "save", "again", "link", "appoint", "clear",
           "close", "fetch", "write", "done"}
Job == [op : Ops, at : Stages, u : Users \cup {None}, row : Account, inst : Institution,
        post : Posts]

ASSUME SentinelAssumption == NoJob \notin Job

Init ==
    /\ user = [u \in Users |->
         IF u \in {Customer, Owner, Admin}
         THEN [type |-> IF u = Customer THEN "customer"
                        ELSE IF u = Owner THEN "institution_owner" ELSE "institution_admin",
               phone |-> StartNumber[u], active |-> TRUE]
         ELSE NoAccount]
    /\ institution = [holder |-> [p \in Posts |-> IF p = "institution_owner" THEN Owner ELSE Admin],
                      deleted |-> FALSE]
    /\ worker = {} /\ courier = {} /\ codes = {}
    /\ job = [j \in Jobs |-> NoJob] /\ requests = 0
    /\ gone = {} /\ loose = {} /\ raced = {}

Made       == {u \in Users : user[u].type # "none"}
\* The accounts a number names: none or one.
Having(n)  == {u \in Users : user[u].phone = n /\ n # None}
\* The unique column refuses the number of another row.
Refused(u, n) == Having(n) \ {u} # {}
New(type, n)  == [type |-> type, phone |-> n, active |-> TRUE]
Closed(row)   == [row EXCEPT !.active = FALSE, !.phone = None]
First(S)      == CHOOSE u \in S : \A v \in S : u <= v

NoInstitution == [holder |-> [p \in Posts |-> None], deleted |-> FALSE]
Request(op, at, u, row) ==
    [op |-> op, at |-> at, u |-> u, row |-> row, inst |-> NoInstitution, post |-> "institution_admin"]
\* A request that loads the institution.
Loaded(op, at, row) == [Request(op, at, None, row) EXCEPT !.inst = institution]
\* A change of a row: with a new number, or the number left alone.
Edited(u, n) == [user[u] EXCEPT !.phone = IF n = None THEN @ ELSE n]
Free(j) == job[j] = NoJob /\ requests < MaxRequests
Begin(j, request) ==
    /\ Free(j)
    /\ requests' = requests + 1
    /\ job' = [job EXCEPT ![j] = request]
    /\ UNCHANGED <<tables, gone, loose>>
Is(j, at) == job[j] # NoJob /\ job[j].at = at
Goes(j, at) == job' = [job EXCEPT ![j] = IF at = "done" THEN NoJob ELSE [@ EXCEPT !.at = at]]

-----------------------------------------------------------------------------
(* Customers.                                                              *)

GetVerificationCode(j, n) ==
    \/ \E u \in Having(n) : Begin(j, Request("register", "otp", u, user[u]))
    \/ Having(n) = {} /\ Begin(j, Request("register", "insert", None, New("customer", n)))

\* The new number is in the object only.
ChangeNumber(j, u, n) ==
    /\ user[u].active /\ Having(n) = {}
    /\ Begin(j, Request("change", "otp", u, [user[u] EXCEPT !.phone = n]))

\* (Mutant: save() without update_fields.)
SetOtpWhole(j) ==
    /\ Is(j, "otp")
    /\ codes' = IF job[j].op = "change" THEN codes \cup {job[j].u} ELSE codes
    /\ user' = [user EXCEPT ![job[j].u] = job[j].row]
    /\ Goes(j, "done")
    /\ UNCHANGED <<institution, worker, courier, requests, gone, loose>>

\* Only the columns of the codes are written; that a sign-in writes back the other
\* code as it was loaded is, when a change was asked for since, its expiry.
SetOtp(j) ==
    /\ Is(j, "otp")
    /\ codes' = IF job[j].op = "change" THEN codes \cup {job[j].u} ELSE codes
    /\ Goes(j, "done")
    /\ UNCHANGED <<user, institution, worker, courier, requests, gone, loose>>

Expires(u) ==
    /\ u \in codes /\ codes' = codes \ {u}
    /\ UNCHANGED <<user, institution, worker, courier, job, requests, gone, loose>>

VerifyChangeNumber(j, u, n) ==
    /\ user[u].active /\ u \in codes
    /\ Begin(j, Request("edit", "save", u, Edited(u, n)))

\* What a user may make of his own row: ActiveUserViewSet takes a number and a type,
\* and the profile hands on what it is sent, so that he may switch himself off.
\* (Input bound: one column at a time.)
OwnRows(u) ==
    {Edited(u, n) : n \in Numbers \cup {None}}
    \cup {[user[u] EXCEPT !.type = type] : type \in Types}
    \cup {[user[u] EXCEPT !.active = FALSE]}

EditOwn(j, u, row) ==
    /\ user[u].active
    /\ Begin(j, Request("edit", "save", u, row))

DeleteAccount(j, u) ==
    /\ user[u].active
    /\ Begin(j, Request("delete", "save", u, Closed(user[u])))

-----------------------------------------------------------------------------
(* Operators, owners and administrators on accounts.                       *)

\* Clients and workers; a known number is refused by the insert.
CrmCreate(j, type, n) ==
    /\ Begin(j, Request("create", "insert", None, New(type, n)))

\* (Input bound: no type of the institution's staff is chosen there.)
CrmEdit(j, u, type, n) ==
    /\ user[u].type \in {"customer", "operator"} /\ ~Refused(u, n)
    /\ Begin(j, Request("edit", "save", u, [Edited(u, n) EXCEPT !.type = type]))

\* destroy() of a worker writes one column.
CrmDismiss(j, u) ==
    /\ Free(j) /\ requests' = requests + 1
    /\ user[u].type = "operator"
    /\ user' = [user EXCEPT ![u] = [@ EXCEPT !.active = FALSE]]
    /\ UNCHANGED <<institution, worker, courier, codes, job, gone, loose>>

RestaurantCreateWorker(j, n) ==
    /\ Having(n) = {}
    /\ Begin(j, Request("worker", "insert", None, New("institution_worker", n)))

RestaurantEditWorker(j, u, n) ==
    /\ u \in worker /\ ~Refused(u, n)
    /\ Begin(j, Request("edit", "save", u, Edited(u, n)))

\* Who has an account already is renamed and does not become a courier.
CrmCreateCourier(j, n) ==
    \/ \E u \in Having(n) : Begin(j, Request("courier", "save", u, user[u]))
    \/ Having(n) = {} /\ Begin(j, Request("courier", "insert", None, New("customer", n)))

CrmEditCourier(j, u, n) ==
    /\ u \in courier /\ ~Refused(u, n)
    /\ Begin(j, Request("edit", "save", u, Edited(u, n)))

-----------------------------------------------------------------------------
(* The institution's posts.                                                *)

\* A number that is known makes the serializer fail on a queryset.
AddHolder(j, post, n) ==
    /\ ~institution.deleted /\ Having(n) = {}
    /\ Begin(j, [Loaded("appoint", "appoint", New(post, n)) EXCEPT !.post = post])

UpdateHolder(j, post, n) ==
    /\ ~institution.deleted
    /\ \E u \in {institution.holder[post]} \ {None} :
         /\ ~Refused(u, n)
         /\ Begin(j, Request("edit", "save", u, Edited(u, n)))

\* With no administrator it fails on None.
DeleteAdmin(j) ==
    /\ ~institution.deleted
    /\ \E u \in {institution.holder["institution_admin"]} \ {None} :
         Begin(j, [Loaded("dismiss", "save", Closed(user[u])) EXCEPT !.u = u])

\* The owner's panel: the account stays.
ManagementDelete(j) ==
    /\ \E u \in Made : user[u].active /\ institution.holder["institution_owner"] = u
    /\ Begin(j, Loaded("drop", "clear", NoAccount))

PanelCreateAdmin(j, n) ==
    /\ \E u \in Made : user[u].active /\ institution.holder["institution_owner"] = u
    /\ Having(n) = {}
    /\ Begin(j, Loaded("panel", "insert", New("institution_admin", n)))

DeleteInstitution(j) ==
    /\ ~institution.deleted
    /\ Begin(j, Loaded("close", "close", NoAccount))

\* A PATCH may put any account in a post, or nobody.
EditInstitution(j, holder) ==
    /\ ~institution.deleted
    /\ Begin(j, [Loaded("institution", "write", NoAccount) EXCEPT !.inst.holder = holder])

-----------------------------------------------------------------------------
(* Steps.                                                                  *)

\* A number taken since makes the statement fail, and the request.
Insert(j) ==
    /\ Is(j, "insert")
    /\ IF Refused(None, job[j].row.phone)
       THEN Goes(j, "done") /\ UNCHANGED user
       ELSE /\ Users # Made
            /\ LET u == First(Users \ Made) IN
               /\ user' = [user EXCEPT ![u] = job[j].row]
               /\ job' = [job EXCEPT ![j] =
                    CASE job[j].op = "register" -> [@ EXCEPT !.u = u, !.at = "otp"]
                      [] job[j].op = "create"   -> NoJob
                      [] OTHER                  -> [@ EXCEPT !.u = u, !.at = "link"]]
    /\ UNCHANGED <<institution, worker, courier, codes, requests, gone, loose>>

\* (Mutant: the institution is not saved without its administrator.)
AfterSaveDone(jb) ==
    IF jb.op = "close" /\ jb.post = "institution_admin"
    THEN [jb EXCEPT !.at = "fetch", !.post = "institution_owner"] ELSE NoJob

\* delete_institution_admin saves the account once more; a deleted institution's
\* owner comes after its administrator.
AfterSave(jb) ==
    CASE jb.op = "dismiss" -> [jb EXCEPT !.at = "again"]
      [] jb.op = "close" /\ jb.post = "institution_admin" ->
           [jb EXCEPT !.at = "fetch", !.post = "institution_owner"]
      [] OTHER -> NoJob

Save(j) ==
    /\ Is(j, "save")
    /\ LET u == job[j].u  row == job[j].row IN
       IF Refused(u, row.phone)
       THEN Goes(j, "done") /\ UNCHANGED <<user, gone, loose>>
       ELSE /\ user' = [user EXCEPT ![u] = row]
            /\ gone' = IF job[j].op \in {"delete", "dismiss", "close"} THEN gone \cup {u} ELSE gone
            /\ loose' = IF \/ job[j].op = "delete" \/ row.type # user[u].type
                           \/ job[j].op = "edit" /\ row.active # user[u].active
                        THEN loose \cup {u} ELSE loose
            /\ job' = [job EXCEPT ![j] = AfterSave(@)]
    /\ UNCHANGED <<institution, worker, courier, codes, requests>>

SaveAgain(j) ==
    /\ Is(j, "again")
    /\ user' = [user EXCEPT ![job[j].u] = job[j].row]
    /\ Goes(j, "clear")
    /\ UNCHANGED <<institution, worker, courier, codes, requests, gone, loose>>

Place(j, post, u) ==
    institution' = [job[j].inst EXCEPT !.holder = [@ EXCEPT ![post] = u]]

\* The row of the worker, the courier, or the post.
Link(j) ==
    /\ Is(j, "link")
    /\ worker' = IF job[j].op = "worker" THEN worker \cup {job[j].u} ELSE worker
    /\ courier' = IF job[j].op = "courier" THEN courier \cup {job[j].u} ELSE courier
    /\ IF job[j].op = "panel"
       THEN /\ Place(j, "institution_admin", job[j].u)
            /\ loose' = loose \cup ({institution.holder["institution_admin"]} \ {None})
                              \cup (IF institution.deleted THEN {job[j].u} ELSE {})
       ELSE UNCHANGED <<institution, loose>>
    /\ Goes(j, "done")
    /\ UNCHANGED <<user, codes, requests, gone>>

\* Account and post in one transaction.
Appoint(j) ==
    /\ Is(j, "appoint")
    /\ IF Refused(None, job[j].row.phone)
       THEN UNCHANGED <<user, institution, loose>>
       ELSE /\ Users # Made
            /\ user' = [user EXCEPT ![First(Users \ Made)] = job[j].row]
            /\ Place(j, job[j].post, First(Users \ Made))
            /\ loose' = loose \cup ({institution.holder[job[j].post]} \ {None})
    /\ Goes(j, "done")
    /\ UNCHANGED <<worker, courier, codes, requests, gone>>

Clear(j) ==
    /\ Is(j, "clear")
    /\ Place(j, "institution_admin", None)
    /\ loose' = IF job[j].op = "drop"
                THEN loose \cup ({institution.holder["institution_admin"]} \ {None}) ELSE loose
    /\ Goes(j, "done")
    /\ UNCHANGED <<user, worker, courier, codes, requests, gone>>

Close(j) ==
    /\ Is(j, "close")
    /\ institution' = [job[j].inst EXCEPT !.deleted = TRUE]
    /\ Goes(j, "fetch")
    /\ UNCHANGED <<user, worker, courier, codes, requests, gone, loose>>

\* handle_user_delete for the holder of a post, or for nobody.
Fetch(j) ==
    /\ Is(j, "fetch")
    /\ LET u == job[j].inst.holder[job[j].post] IN
       job' = [job EXCEPT ![j] = IF u = None THEN AfterSave(@)
                                 ELSE [@ EXCEPT !.u = u, !.at = "save", !.row = Closed(user[u])]]
    /\ UNCHANGED <<tables, requests, gone, loose>>

\* Who holds a post no longer, and who is put in one that is not his, or is dead.
Unsettled(holder) ==
    {u \in Users : \E p \in Posts :
        /\ holder[p] # institution.holder[p]
        /\ \/ u = institution.holder[p]
           \/ u = holder[p] /\ ~(user[u].type = p /\ user[u].active)}

SaveInstitution(j) ==
    /\ Is(j, "write")
    /\ institution' = job[j].inst
    /\ loose' = loose \cup Unsettled(job[j].inst.holder)
    /\ Goes(j, "done")
    /\ UNCHANGED <<user, worker, courier, codes, requests, gone>>

\* The category goes and its institutions with it, by column; nobody's account.
DeleteCategory(j) ==
    /\ Free(j) /\ requests' = requests + 1
    /\ ~institution.deleted
    /\ institution' = [institution EXCEPT !.deleted = TRUE]
    /\ loose' = loose \cup ({institution.holder[p] : p \in Posts} \ {None})
    /\ UNCHANGED <<user, worker, courier, codes, job, gone>>

\* The accounts a request has to do with.
Concerns(jb) ==
    ({jb.u} \cup IF jb.op = "close" THEN {jb.inst.holder[p] : p \in Posts} ELSE {}) \ {None}

\* A worker is killed, or an error ends the request; an SMS that does not go is
\* the end after "otp".
Die(j) ==
    /\ job[j] # NoJob
    /\ job' = [job EXCEPT ![j] = NoJob]
    /\ loose' = IF job[j].at \in {"link", "again", "clear"} \/ (job[j].op = "close" /\ job[j].at # "close")
                THEN loose \cup Concerns(job[j]) ELSE loose
    /\ UNCHANGED <<tables, requests, gone>>
-----------------------------------------------------------------------------
HasUser(jb, u)  == jb # NoJob /\ jb.at \in {"save", "again"} /\ jb.u = u
HasInstitution(jb) ==
    jb # NoJob /\ (jb.at \in {"appoint", "close", "write"} \/ jb.op \in {"drop", "dismiss", "panel"})

Raced ==
    {u \in Users : user'[u] # user[u] /\ \E j \in Jobs : HasUser(job[j], u) /\ job'[j] = job[j]}
    \cup IF institution' # institution /\ \E j \in Jobs : HasInstitution(job[j]) /\ job'[j] = job[j]
         THEN {None} ELSE {}

Customers(j) ==
    \/ \E n \in Numbers : GetVerificationCode(j, n)
    \/ \E u \in Users, n \in Numbers : ChangeNumber(j, u, n) \/ VerifyChangeNumber(j, u, n)
    \/ \E u \in Users : \E row \in OwnRows(u) : EditOwn(j, u, row)
    \/ \E u \in Users : DeleteAccount(j, u)

Operators(j) ==
    \/ \E n \in Numbers, type \in {"customer", "operator"} : CrmCreate(j, type, n)
    \/ \E u \in Users, n \in Numbers \cup {None}, type \in {"customer", "operator"} : CrmEdit(j, u, type, n)
    \/ \E u \in Users : CrmDismiss(j, u)
    \/ \E n \in Numbers : CrmCreateCourier(j, n) \/ RestaurantCreateWorker(j, n)
    \/ \E u \in Users, n \in Numbers \cup {None} : CrmEditCourier(j, u, n) \/ RestaurantEditWorker(j, u, n)

PostRequests(j) ==
    \/ \E post \in Posts, n \in Numbers : AddHolder(j, post, n)
    \/ \E post \in Posts, n \in Numbers \cup {None} : UpdateHolder(j, post, n)
    \/ \E n \in Numbers : PanelCreateAdmin(j, n)
    \/ DeleteAdmin(j) \/ ManagementDelete(j) \/ DeleteInstitution(j)
    \/ \E holder \in [Posts -> Made \cup {None}] : EditInstitution(j, holder)
    \/ DeleteCategory(j)

Steps(j) ==
    \/ SetOtp(j) \/ Insert(j) \/ Save(j) \/ SaveAgain(j) \/ Link(j) \/ Appoint(j) \/ Clear(j)
    \/ Close(j) \/ Fetch(j) \/ SaveInstitution(j) \/ Die(j)

Next ==
    /\ \/ \E j \in Jobs : Free(j) /\ (Customers(j) \/ Operators(j) \/ PostRequests(j))
       \/ \E j \in Jobs : Steps(j)
       \/ \E u \in Users : Expires(u)
    /\ raced' = raced \cup Raced

Spec == Init /\ [][Next]_vars
-----------------------------------------------------------------------------
Busy(u) == \E j \in Jobs : job[j] # NoJob /\ u \in Concerns(job[j])

\* A deleted account stays deleted and its number is free for another one:
\* nothing but a request that had the row in memory before brings it back.
GoneForGood == \A u \in gone \ raced : ~user[u].active

\* What get_institution finds for an account of the staff.
Finds(u) ==
    IF user[u].type = "institution_worker" THEN u \in worker
    ELSE institution.holder[user[u].type] = u

\* Accounts and posts agree at rest: a live account of the staff finds its
\* institution, whose panel opens; the account that holds a post has its type and
\* lives, unless the institution is deleted, when it does not.  Loose is who was
\* replaced or dropped, who changed his own type or switched himself off, whom the
\* edit of an institution put in a post that is not his, who was put in charge of a
\* deleted institution, and what a request that died had begun.
PostsAgree ==
    None \notin raced =>
    \A u \in Made \ (loose \cup raced) : ~Busy(u) =>
        /\ user[u].active /\ user[u].type \in Staff => Finds(u)
        /\ \A post \in Posts : institution.holder[post] = u =>
             /\ user[u].type = post
             /\ user[u].active # institution.deleted
=============================================================================
