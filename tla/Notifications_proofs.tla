------------------------ MODULE Notifications_proofs ------------------------
(***************************************************************************)
(* Deleted accounts stay deleted, accounts and posts agree at rest, and    *)
(* pushes arrive where somebody of the restaurant is signed in: for all    *)
(* sets of accounts, numbers, requests and registration ids.               *)
(*                                                                         *)
(* The inductive invariant says of every request, at each of its places,   *)
(* what it holds in memory: that a row is as live as the one in the table, *)
(* and the institution the same, unless the step of another request raced  *)
(* it; and of every account what is out of order about it, which is always *)
(* what some request is about to set right.  A step is described by what   *)
(* it keeps (StepOf, KeepsAccounts, KeepsPosts, KeepsOrder) and by what    *)
(* its request becomes (Follows); StepKeeps needs no more, and each action *)
(* of Accounts is shown to be such a step.                                 *)
(*                                                                         *)
(* At the end, the other way news of an order travel, Notifications: a     *)
(* screen shows the committed order, for all sets of handlers, requests    *)
(* and watched groups.                                                     *)
(***************************************************************************)
EXTENDS Devices, Notifications, WellFoundedInduction, TLAPS

------------------------------------------------------------------------------
(* The inductive invariant.                                                *)

\* Types of what the properties speak of.
TypeOK ==
    /\ user \in [Users -> Account]
    /\ institution \in Institution
    /\ worker \subseteq Users
    /\ job \in [Jobs -> Job \cup {NoJob}]
    /\ gone \subseteq Users /\ loose \subseteq Users /\ raced \subseteq Users \cup {None}

\* Nobody speaks of an account that was not made.
Known == Made \cup {None}

AllKnown ==
    /\ \A p \in Posts : institution.holder[p] \in Known
    /\ worker \subseteq Made /\ gone \subseteq Made
    /\ \A j \in Jobs : job[j] # NoJob =>
         job[j].u \in Known /\ \A p \in Posts : job[j].inst.holder[p] \in Known

\* A row that was not made is empty; a courier was made.
Rows ==
    /\ \A u \in Users : user[u].type = "none" => user[u] = NoAccount
    /\ courier \subseteq Made

\* A request about to insert an account, to save one, to take the administrator's post.
Inserts(jb) ==
    /\ jb.op \in {"register", "create", "worker", "courier", "panel"}
    /\ jb.row.active /\ jb.row.type # "none"
    /\ jb.op \in {"register", "create", "courier"} => jb.row.type \notin Staff
    /\ jb.op = "worker" => jb.row.type = "institution_worker"
    /\ jb.op = "panel" => jb.row.type = "institution_admin"

Saves(jb) ==
    /\ jb.u # None /\ jb.op \in {"edit", "delete", "courier", "dismiss", "close"}
    /\ jb.row.type # "none"
    /\ jb.op \in {"delete", "dismiss", "close"} => jb.row.phone = None /\ ~jb.row.active
    /\ jb.op = "close" => jb.u = jb.inst.holder[jb.post]
    /\ jb.op = "dismiss" => jb.u = jb.inst.holder["institution_admin"] /\ ~jb.inst.deleted

\* What a request holds, by where it is; G are the accounts that are gone.
JobOK(jb, G) ==
    /\ jb.at = "insert" => Inserts(jb)
    /\ jb.at = "otp" => jb.op \in {"register", "change"}
    /\ jb.at = "link" => jb.op \in {"worker", "courier", "panel"} /\ jb.u # None
    /\ jb.at \in {"save", "again"} => Saves(jb)
    /\ jb.at = "again" => jb.op = "dismiss" /\ jb.u \in G
    /\ jb.at = "clear" => jb.op \in {"drop", "dismiss"}
    /\ jb.at = "clear" /\ jb.op = "dismiss" =>
         jb.u \in G /\ jb.u = jb.inst.holder["institution_admin"]
    /\ jb.at = "appoint" =>
         jb.op = "appoint" /\ ~jb.inst.deleted /\ jb.row.type = jb.post /\ jb.row.active
    /\ jb.at \in {"close", "fetch"} => jb.op = "close"
    /\ jb.at = "close" => jb.post = "institution_admin"
    /\ jb.at = "write" => jb.op = "institution" /\ ~jb.inst.deleted
    /\ jb.at # "done"

JobsOK == \A j \in Jobs : job[j] # NoJob => JobOK(job[j], gone)

\* A row in memory is as live as the one in the table T, unless it was raced (R).
Fresh(jb, T, R) ==
    jb.u \notin R /\ jb.at \in {"save", "again"} =>
        /\ jb.row.active => T[jb.u].active
        /\ jb.op = "courier" => jb.row.active = T[jb.u].active
        /\ jb.at = "again" => T[jb.u] = jb.row

\* An institution in memory is the one in the table, I, but for what a PATCH makes of
\* the holders; and it stays deleted.
Current(jb, I, R) ==
    None \notin R =>
        /\ HasInstitution(jb) => jb.inst.deleted = I.deleted /\ (jb.at # "write" => jb.inst = I)
        /\ jb.op = "close" /\ jb.at # "close" => I.deleted

Stable(u) == u \in Users \ (loose \cup raced) /\ None \notin raced

\* An account made for a worker or an administrator, until it is linked: nobody else
\* speaks of it as a holder, unless a PATCH put it in a post.
Linking(jb) == jb.at = "link" /\ jb.op \in {"worker", "panel"}

Newcomer(j) ==
    Linking(job[j]) =>
        /\ \A i \in Jobs : job[i] # NoJob /\ job[i].at = "link" /\ i # j => job[i].u # job[j].u
        /\ job[j].u \notin worker
        /\ Stable(job[j].u) =>
             /\ \A p \in Posts : institution.holder[p] # job[j].u
             /\ \A i \in Jobs : job[i] # NoJob /\ job[i].at # "write" =>
                  \A p \in Posts : job[i].inst.holder[p] # job[j].u
             /\ user[job[j].u].active
             /\ job[j].op = "worker" => user[job[j].u].type = "institution_worker"
             /\ job[j].op = "panel" => user[job[j].u].type = "institution_admin"

RequestsOK ==
    \A j \in Jobs : job[j] # NoJob =>
        Fresh(job[j], user, raced) /\ Current(job[j], institution, raced) /\ Newcomer(j)

\* Who was loaded as a holder has the type of the post.
HolderTypes ==
    \A u \in Users, j \in Jobs, p \in Posts :
        Stable(u) /\ job[j] # NoJob /\ job[j].at # "write" /\ job[j].inst.holder[p] = u =>
            user[u].type = p

\* What a request will set right: an account is to be linked, a post of a deleted
\* institution to be closed, an administrator to be cleared.
Arrives(jb, u)   == jb # NoJob /\ Linking(jb) /\ jb.u = u
Closes(jb, u, p) == /\ jb # NoJob /\ jb.op = "close" /\ jb.at \in {"fetch", "save"}
                    /\ jb.inst.holder[p] = u
                    /\ p = "institution_admin" => jb.post = p
Dismisses(jb, u) == jb # NoJob /\ jb.op = "dismiss" /\ jb.at \in {"again", "clear"} /\ jb.u = u

Found(u) ==
    user[u].active /\ user[u].type \in Staff => Finds(u) \/ \E j \in Jobs : Arrives(job[j], u)
Holds(u, p) ==
    institution.holder[p] = u =>
        /\ user[u].type = p
        /\ user[u].active /\ institution.deleted => \E j \in Jobs : Closes(job[j], u, p)
        /\ ~user[u].active /\ ~institution.deleted => \E j \in Jobs : Dismisses(job[j], u)
Works(u) == u \in worker => user[u].active /\ user[u].type = "institution_worker"

\* PostsAgree, of accounts that a request is busy with, too.
Standing(u) == Found(u) /\ (\A p \in Posts : Holds(u, p)) /\ Works(u)
InOrder     == \A u \in Made : Stable(u) => Standing(u)

IInv == TypeOK /\ AllKnown /\ Rows /\ JobsOK /\ RequestsOK /\ HolderTypes /\ InOrder /\ GoneForGood
-----------------------------------------------------------------------------
(* A step of one request, or one that leaves the requests alone.           *)

\* Request j, which becomes n, takes the step.
StepOf(j, n) ==
    /\ job' = [job EXCEPT ![j] = n] /\ n \in Job \cup {NoJob}
    /\ raced' = raced \cup Raced /\ loose \subseteq loose'
    /\ gone \subseteq gone' /\ gone' \subseteq Made

\* Whom it may name: holders and the request's own account.
Sources(j) ==
    {institution.holder[p] : p \in Posts} \cup {None} \cup (Users \ Made)
    \cup (IF job[j] = NoJob \/ job[j].at = "write" THEN {} ELSE {job[j].inst.holder[p] : p \in Posts})
    \cup (IF job[j] # NoJob /\ Linking(job[j]) THEN {job[j].u} ELSE {})

StableNext(u) == u \in Users \ (loose' \cup raced') /\ None \notin raced'

\* An account that was made keeps its type and lives on, but for holders and for those
\* who do not work there.
KeepsAccounts(j) ==
    \A u \in Made :
        /\ user'[u].type # "none"
        /\ StableNext(u) =>
             /\ user'[u].type = user[u].type
             /\ \/ user'[u].active = user[u].active
                \/ ~user'[u].active /\ user[u].type \notin Staff
                \/ /\ ~user'[u].active /\ job[j] # NoJob /\ job[j].at # "write"
                   /\ \E p \in Posts : job[j].inst.holder[p] = u

\* A PATCH puts in a post whom it likes, but who does not fit it is loose then.
Fits(p) == LET u == institution'.holder[p] IN
           institution.holder[p] = u \/ ~StableNext(u) \/ user[u].type = p

KeepsPosts(j) ==
    /\ (\A p \in Posts : institution'.holder[p] \in Sources(j)) \/ (\A p \in Posts : Fits(p))
    /\ None \notin raced' /\ institution.deleted => institution'.deleted
    /\ \/ worker' = worker
       \/ job[j] # NoJob /\ Linking(job[j]) /\ worker' = worker \cup {job[j].u}

KeepsRows(j) ==
    /\ \A u \in Users : user'[u].type = "none" => user'[u] = user[u]
    /\ \/ courier' = courier
       \/ job[j] # NoJob /\ job[j].at = "link" /\ courier' = courier \cup {job[j].u}

KnownNext(u) == u = None \/ (u \in Users /\ user'[u].type # "none")

\* What the request has become.
Follows(j, n) ==
    n # NoJob =>
        /\ JobOK(n, gone') /\ Fresh(n, user', raced') /\ Current(n, institution', raced')
        /\ KnownNext(n.u)
        /\ \/ n.inst = NoInstitution \/ n.inst = institution
           \/ job[j] # NoJob /\ job[j].at # "write" /\ n.inst = job[j].inst
           \/ n.at = "write" /\ \A p \in Posts : KnownNext(n.inst.holder[p])
        /\ n.at = "link" =>
             /\ n.u \in Users \ Made /\ institution' = institution /\ worker' = worker
             /\ user'[n.u].active
             /\ n.op = "worker" => user'[n.u].type = "institution_worker"
             /\ n.op = "panel" => user'[n.u].type = "institution_admin"

LEMMA Unmade == ASSUME TypeOK PROVE None \notin Users /\ Made \subseteq Users
BY AccountsAssumption DEF Made

\* Nobody else's row changes under a request without a trace.
LEMMA Unraced ==
    ASSUME TypeOK, NEW j \in Jobs, NEW n, StepOf(j, n), NEW i \in Jobs, i # j
    PROVE  /\ job'[i] = job[i]
           /\ \A u \in Users : HasUser(job[i], u) /\ u \notin raced' => user'[u] = user[u]
           /\ HasInstitution(job[i]) /\ None \notin raced' => institution' = institution
<1>1. job'[i] = job[i] BY DEF StepOf, TypeOK
<1>2. ASSUME NEW u \in Users, HasUser(job[i], u), user'[u] # user[u] PROVE u \in raced'
  BY <1>1, <1>2 DEF StepOf, Raced
<1>3. ASSUME HasInstitution(job[i]), institution' # institution PROVE None \in raced'
  BY <1>1, <1>3 DEF StepOf, Raced
<1> QED BY <1>1, <1>2, <1>3

\* The other requests.
LEMMA OthersStay ==
    ASSUME IInv, NEW j \in Jobs, NEW n, StepOf(j, n), KeepsPosts(j), NEW i \in Jobs, i # j,
           job[i] # NoJob
    PROVE  /\ job'[i] = job[i]
           /\ JobOK(job[i], gone') /\ Fresh(job[i], user', raced')
           /\ Current(job[i], institution', raced')
<1> DEFINE k == job[i]
<1>0. TypeOK BY DEF IInv
<1>1. /\ job'[i] = k
      /\ \A u \in Users : HasUser(k, u) /\ u \notin raced' => user'[u] = user[u]
      /\ HasInstitution(k) /\ None \notin raced' => institution' = institution
  BY <1>0, Unraced
<1>2. JobOK(k, gone) /\ Fresh(k, user, raced) /\ Current(k, institution, raced) /\ k.u \in Known
  BY DEF IInv, JobsOK, RequestsOK, AllKnown
<1>3. raced \subseteq raced' /\ gone \subseteq gone' /\ k # NoJob BY DEF StepOf
<1> HIDE DEF k
<1>4. JobOK(k, gone')
  <2>1. ASSUME k.u \in gone PROVE k.u \in gone' BY <1>3, <2>1
  <2> QED BY <1>2, <2>1 DEF JobOK
<1>5. Fresh(k, user', raced')
  <2> SUFFICES ASSUME k.u \notin raced', k.at \in {"save", "again"} PROVE Fresh(k, user', raced')
    BY DEF Fresh
  <2>1. k.u \in Users BY <1>0, <1>2, Unmade DEF Known, JobOK, Saves
  <2>2. user'[k.u] = user[k.u] BY <1>1, <1>3, <2>1 DEF HasUser
  <2> QED BY <1>2, <1>3, <2>2 DEF Fresh
<1>6. Current(k, institution', raced')
  <2> SUFFICES ASSUME None \notin raced' PROVE Current(k, institution', raced') BY DEF Current
  <2>1. Current(k, institution, raced) /\ None \notin raced BY <1>2, <1>3
  <2>2. institution.deleted => institution'.deleted BY DEF KeepsPosts
  <2> QED BY <1>1, <2>1, <2>2 DEF Current
<1> QED BY <1>1, <1>4, <1>5, <1>6 DEF k

LEMMA StableBefore ==
    ASSUME NEW j, NEW n, StepOf(j, n), NEW u, StableNext(u)
    PROVE  Stable(u)
BY DEF StepOf, StableNext, Stable

\* Whoever is a holder in memory has the type of the post, and lives on.
LEMMA HoldersKept ==
    ASSUME IInv, NEW j \in Jobs, NEW n, StepOf(j, n), KeepsAccounts(j), Follows(j, n)
    PROVE  HolderTypes'
<1> SUFFICES ASSUME NEW u \in Users, NEW i \in Jobs, NEW p \in Posts, StableNext(u), job'[i] # NoJob,
                    job'[i].at # "write", job'[i].inst.holder[p] = u
             PROVE  user'[u].type = p
  BY DEF HolderTypes, Stable, StableNext
<1>0. TypeOK /\ Stable(u) /\ u # None BY StableBefore, Unmade DEF IInv
<1>1. ASSUME NEW k \in Jobs, job[k] # NoJob, job[k].at # "write", job[k].inst.holder[p] = u
      PROVE  user'[u].type = p
  <2>1. user[u].type = p BY <1>0, <1>1 DEF IInv, HolderTypes
  <2>2. u \in Made BY <1>0, <1>1 DEF IInv, AllKnown, Known
  <2> QED BY <2>1, <2>2 DEF KeepsAccounts
<1>2. ASSUME institution.holder[p] = u PROVE user'[u].type = p
  <2>1. u \in Made BY <1>0, <1>2 DEF IInv, AllKnown, Known
  <2>2. user[u].type = p BY <1>0, <1>2, <2>1 DEF IInv, InOrder, Standing, Holds
  <2> QED BY <2>1, <2>2 DEF KeepsAccounts
<1>3. CASE i # j
  <2>1. job'[i] = job[i] BY <1>0, <1>3, Unraced
  <2> QED BY <1>1, <2>1
<1>4. CASE i = j
  <2>1. job'[i] = n BY <1>0, <1>4 DEF StepOf, TypeOK
  <2>2. NoInstitution.holder[p] = None BY DEF NoInstitution
  <2> QED BY <1>0, <1>1, <1>2, <2>1, <2>2 DEF Follows
<1> QED BY <1>3, <1>4

\* Whom a step may name was not a newcomer of another request.
LEMMA SourcesAreOld ==
    ASSUME IInv, NEW j \in Jobs, NEW i \in Jobs, i # j, job[i] # NoJob, Linking(job[i])
    PROVE  job[i].u \in Made /\ (Stable(job[i].u) => job[i].u \notin Sources(j))
<1> DEFINE u == job[i].u
<1>1. u \in Made
  <2>1. u \in Known /\ JobOK(job[i], gone) BY DEF IInv, AllKnown, JobsOK
  <2> QED BY <2>1 DEF Known, JobOK, Linking
<1>2. Newcomer(i) BY DEF IInv, RequestsOK
<1>3. Stable(u) => \A p \in Posts : institution.holder[p] # u BY <1>2 DEF Newcomer
<1>4. ASSUME job[j] # NoJob
      PROVE  /\ Stable(u) /\ job[j].at # "write" => \A p \in Posts : job[j].inst.holder[p] # u
             /\ Linking(job[j]) => job[j].u # u
  BY <1>2, <1>4 DEF Newcomer, Linking
<1>5. u # None BY <1>1, Unmade DEF IInv
<1> HIDE DEF u
<1>6. Stable(u) => u \notin Sources(j) BY <1>1, <1>3, <1>4, <1>5 DEF Sources
<1> QED BY <1>1, <1>6 DEF u

\* The newcomers of other requests stay newcomers.
LEMMA NewcomersStay ==
    ASSUME IInv, NEW j \in Jobs, NEW n, StepOf(j, n), KeepsAccounts(j), KeepsPosts(j), Follows(j, n),
           NEW i \in Jobs, i # j, job[i] # NoJob
    PROVE  Newcomer(i)'
<1>0. TypeOK BY DEF IInv
<1>1. job'[i] = job[i] BY <1>0, Unraced
<1> SUFFICES ASSUME Linking(job[i]) PROVE Newcomer(i)' BY <1>1 DEF Newcomer
<1>2. PICK u : u = job[i].u OBVIOUS
<1>3. u \in Made /\ (Stable(u) => u \notin Sources(j)) BY <1>2, SourcesAreOld
<1>4. Newcomer(i) /\ u # None BY <1>0, <1>3, Unmade DEF IInv, RequestsOK
<1>5. ASSUME StableNext(u), NEW p \in Posts PROVE institution'.holder[p] # u
  <2>1. Stable(u) /\ institution.holder[p] # u BY <1>2, <1>4, <1>5, StableBefore DEF Newcomer
  <2> SUFFICES ASSUME Fits(p), institution'.holder[p] = u PROVE FALSE BY <1>3, <2>1 DEF KeepsPosts
  <2>2. user[u].type = p BY <1>5, <2>1 DEF Fits
  <2>3. job[i].op = "panel" BY <1>2, <1>4, <2>1, <2>2 DEF Newcomer, Linking, Posts
  <2>4. HasInstitution(job[i]) BY <2>3 DEF HasInstitution
  <2>5. institution' = institution BY <1>0, <1>5, <2>4, Unraced DEF StableNext
  <2> QED BY <2>1, <2>5
<1>6. u \notin worker'
  <2>1. u \notin worker BY <1>2, <1>4 DEF Newcomer
  <2>2. job[j] # NoJob /\ Linking(job[j]) => job[j].u # u BY <1>2, <1>4 DEF Newcomer, Linking
  <2> QED BY <2>1, <2>2 DEF KeepsPosts
<1>7. ASSUME NEW k \in Jobs, job'[k] # NoJob
      PROVE  /\ job'[k].at = "link" /\ k # i => job'[k].u # u
             /\ StableNext(u) /\ job'[k].at # "write" => \A p \in Posts : job'[k].inst.holder[p] # u
  <2>1. ASSUME NEW g \in Jobs, job[g] # NoJob, Stable(u), job[g].at # "write"
        PROVE  \A p \in Posts : job[g].inst.holder[p] # u
    BY <1>2, <1>4, <2>1 DEF Newcomer
  <2>2. CASE k # j
    <3>1. job'[k] = job[k] BY <1>0, <2>2, Unraced
    <3>2. StableNext(u) => Stable(u) BY StableBefore
    <3> QED BY <1>2, <1>4, <1>7, <2>1, <3>1, <3>2 DEF Newcomer
  <2>3. CASE k = j
    <3>1. job'[k] = n BY <1>0, <2>3 DEF StepOf, TypeOK
    <3>2. n # NoJob /\ n.at = "link" => n.u # u BY <1>3 DEF Follows
    <3>3. ASSUME StableNext(u), n.at # "write" PROVE \A p \in Posts : n.inst.holder[p] # u
      <4>1. Stable(u) BY <3>3, StableBefore
      <4>2. \A p \in Posts : NoInstitution.holder[p] # u BY <1>4 DEF NoInstitution
      <4>3. \A p \in Posts : institution.holder[p] # u BY <1>2, <1>4, <4>1 DEF Newcomer
      <4> QED BY <1>7, <2>1, <3>1, <3>3, <4>1, <4>2, <4>3 DEF Follows
    <3> QED BY <1>7, <3>1, <3>2, <3>3
  <2> QED BY <2>2, <2>3
<1>8. ASSUME StableNext(u)
      PROVE  user'[u].active /\ user'[u].type = user[u].type
  <2>1. Stable(u) BY <1>8, StableBefore
  <2>2. user[u].active /\ user[u].type \in Staff BY <1>2, <1>4, <2>1 DEF Newcomer, Linking, Staff, Posts
  <2>3. job[j] # NoJob /\ job[j].at # "write" => \A p \in Posts : job[j].inst.holder[p] # u
    BY <1>2, <1>4, <2>1 DEF Newcomer
  <2> QED BY <1>3, <1>8, <2>2, <2>3 DEF KeepsAccounts
<1>9. StableNext(u) => Stable(u) BY StableBefore
<1> QED BY <1>1, <1>2, <1>4, <1>5, <1>6, <1>7, <1>8, <1>9 DEF Newcomer, Stable, StableNext

\* Everybody who is named, and every request, after the step.
LEMMA RequestsKept ==
    ASSUME IInv, NEW j \in Jobs, NEW n, StepOf(j, n), KeepsAccounts(j), KeepsPosts(j), Follows(j, n),
           \A p \in Posts : KnownNext(institution'.holder[p])
    PROVE  AllKnown' /\ JobsOK' /\ RequestsOK'
<1>0. TypeOK /\ job'[j] = n BY DEF IInv, StepOf, TypeOK
<1>1. \A u \in Known : KnownNext(u) BY <1>0, Unmade DEF Known, KeepsAccounts, KnownNext
<1>2. \A u : KnownNext(u) => u \in Known' BY DEF KnownNext, Known, Made
<1>3. ASSUME n # NoJob, NEW p \in Posts PROVE KnownNext(n.inst.holder[p])
  <2>1. KnownNext(NoInstitution.holder[p]) BY DEF NoInstitution, KnownNext
  <2>2. KnownNext(institution.holder[p]) BY <1>1 DEF IInv, AllKnown
  <2>3. job[j] # NoJob => KnownNext(job[j].inst.holder[p]) BY <1>1 DEF IInv, AllKnown
  <2> QED BY <1>3, <2>1, <2>2, <2>3 DEF Follows
<1>4. worker' \subseteq Made'
  <2>1. worker \subseteq Made' BY <1>0, Unmade DEF IInv, AllKnown, KeepsAccounts, Made
  <2>2. ASSUME job[j] # NoJob, Linking(job[j]) PROVE job[j].u \in Made'
    <3>1. job[j].u \in Known /\ job[j].u # None BY <2>2 DEF IInv, AllKnown, JobsOK, JobOK, Linking
    <3> QED BY <1>0, <3>1, Unmade DEF Known, KeepsAccounts, Made
  <2> QED BY <2>1, <2>2 DEF KeepsPosts
<1>5. ASSUME NEW i \in Jobs, job'[i] # NoJob
      PROVE  /\ job'[i].u \in Known' /\ \A p \in Posts : job'[i].inst.holder[p] \in Known'
             /\ JobOK(job'[i], gone') /\ Fresh(job'[i], user', raced')
             /\ Current(job'[i], institution', raced') /\ Newcomer(i)'
  <2>1. CASE i # j
    <3>1. job'[i] = job[i] BY <1>0, <2>1, Unraced
    <3>2. job[i].u \in Known /\ \A p \in Posts : job[i].inst.holder[p] \in Known
      BY <1>5, <3>1 DEF IInv, AllKnown
    <3>3. /\ JobOK(job[i], gone') /\ Fresh(job[i], user', raced')
          /\ Current(job[i], institution', raced')
      BY <1>5, <2>1, <3>1, OthersStay
    <3>4. Newcomer(i)' BY <1>5, <2>1, <3>1, NewcomersStay
    <3> QED BY <1>1, <1>2, <3>1, <3>2, <3>3, <3>4
  <2>2. CASE i = j
    <3>1. /\ JobOK(n, gone') /\ Fresh(n, user', raced') /\ Current(n, institution', raced')
          /\ n.u \in Known' /\ \A p \in Posts : n.inst.holder[p] \in Known'
      BY <1>0, <1>2, <1>3, <1>5, <2>2 DEF Follows
    <3>2. Newcomer(j)'
      <4> SUFFICES ASSUME Linking(n) PROVE Newcomer(j)' BY <1>0 DEF Newcomer
      <4>1. PICK u : u = n.u OBVIOUS
      <4>2. n # NoJob /\ n.at = "link" BY <1>0, <1>5, <2>2 DEF Linking
      <4>3. /\ u \in Users /\ u \notin Made /\ u # None /\ institution' = institution /\ worker' = worker
            /\ user'[u].active
            /\ n.op = "worker" => user'[u].type = "institution_worker"
            /\ n.op = "panel" => user'[u].type = "institution_admin"
        BY <1>0, <4>1, <4>2, Unmade DEF Follows
      <4>4. \A p \in Posts : institution'.holder[p] # u BY <4>3 DEF IInv, AllKnown, Known
      <4>5. u \notin worker' BY <4>3 DEF IInv, AllKnown
      <4>6. ASSUME NEW k \in Jobs, job'[k] # NoJob
            PROVE  /\ \A p \in Posts : job'[k].inst.holder[p] # u
                   /\ job'[k].at = "link" /\ k # j => job'[k].u # u
        <5>1. ASSUME NEW g \in Jobs, job[g] # NoJob
              PROVE  job[g].u # u /\ \A p \in Posts : job[g].inst.holder[p] # u
          BY <4>3, <5>1 DEF IInv, AllKnown, Known
        <5>2. CASE k # j
          <6>1. job'[k] = job[k] BY <1>0, <5>2, Unraced
          <6> QED BY <4>6, <5>1, <6>1
        <5>3. CASE k = j
          <6>1. \A p \in Posts : NoInstitution.holder[p] # u BY <4>3 DEF NoInstitution
          <6> QED BY <1>0, <4>2, <4>3, <4>4, <5>1, <5>3, <6>1 DEF Follows
        <5> QED BY <5>2, <5>3
      <4> QED BY <1>0, <4>1, <4>3, <4>4, <4>5, <4>6 DEF Newcomer
    <3> QED BY <1>0, <2>2, <3>1, <3>2
  <2> QED BY <2>1, <2>2
<1>6. \A p \in Posts : institution'.holder[p] \in Known' BY <1>2
<1>7. gone' \subseteq Made' BY <1>0, Unmade DEF StepOf, KeepsAccounts, Made
<1> QED BY <1>4, <1>5, <1>6, <1>7 DEF AllKnown, JobsOK, RequestsOK
-----------------------------------------------------------------------------
(* Accounts and posts.                                                     *)

\* The step sets an account right, or leaves that to the request it becomes.
KeepsOrder(j, n) ==
    \A u \in Made : StableNext(u) =>
        /\ \A p \in Posts :
             /\ institution.holder[p] = u /\ user'[u].active => institution'.holder[p] = u
             /\ institution'.holder[p] = u /\ institution.holder[p] # u =>
                  user'[u].type = p /\ user'[u].active /\ ~institution'.deleted
             /\ institution'.holder[p] = u /\ user'[u].active /\ institution'.deleted =>
                  (Closes(job[j], u, p) \/ ~institution.deleted => Closes(n, u, p))
             /\ institution'.holder[p] = u /\ ~user'[u].active /\ ~institution'.deleted =>
                  (Dismisses(job[j], u) \/ user[u].active => Dismisses(n, u))
        /\ Arrives(job[j], u) => Finds(u)' \/ Arrives(n, u)
        /\ u \in worker' /\ u \notin worker =>
             user'[u].active /\ user'[u].type = "institution_worker"

LEMMA OrderKept ==
    ASSUME IInv, NEW j \in Jobs, NEW n, StepOf(j, n), KeepsAccounts(j), KeepsPosts(j),
           KeepsOrder(j, n),
           \A u \in Users \ Made : StableNext(u) /\ KnownNext(u) => Standing(u)'
    PROVE  InOrder'
<1>0. TypeOK /\ job'[j] = n BY DEF IInv, StepOf, TypeOK
<1> SUFFICES ASSUME NEW u \in Users, KnownNext(u), StableNext(u), u \in Made PROVE Standing(u)'
  BY <1>0, Unmade DEF InOrder, Made, KnownNext, Stable, StableNext
<1>1. Standing(u) /\ Stable(u) BY StableBefore DEF IInv, InOrder
<1>2. /\ user'[u].type = user[u].type
      /\ \/ user'[u].active = user[u].active
         \/ ~user'[u].active /\ user[u].type \notin Staff
         \/ /\ ~user'[u].active /\ job[j] # NoJob /\ job[j].at # "write"
            /\ \E p \in Posts : job[j].inst.holder[p] = u
  BY DEF KeepsAccounts
<1>3. \A i \in Jobs : i = j \/ job'[i] = job[i] BY <1>0, Unraced
<1>4. Found(u)'
  <2> SUFFICES ASSUME user'[u].active, user'[u].type \in Staff
               PROVE  Finds(u)' \/ \E i \in Jobs : Arrives(job'[i], u)
    BY DEF Found
  <2>1. user[u].active /\ user[u].type \in Staff BY <1>2
  <2>2. CASE Finds(u)
    <3>1. u \in worker => u \in worker' BY DEF KeepsPosts
    <3>2. \A p \in Posts : institution.holder[p] = u => institution'.holder[p] = u BY DEF KeepsOrder
    <3> QED BY <1>2, <2>1, <2>2, <3>1, <3>2 DEF Finds, Staff
  <2>3. ASSUME NEW i \in Jobs, Arrives(job[i], u) PROVE Finds(u)' \/ \E k \in Jobs : Arrives(job'[k], u)
    <3>1. CASE i = j BY <1>0, <2>3, <3>1 DEF KeepsOrder
    <3>2. CASE i # j BY <1>3, <2>3, <3>2
    <3> QED BY <3>1, <3>2
  <2> QED BY <1>1, <2>1, <2>2, <2>3 DEF Standing, Found
<1>5. ASSUME NEW p \in Posts PROVE Holds(u, p)'
  <2> SUFFICES ASSUME institution'.holder[p] = u
               PROVE  /\ user'[u].type = p
                      /\ user'[u].active /\ institution'.deleted => \E i \in Jobs : Closes(job'[i], u, p)
                      /\ ~user'[u].active /\ ~institution'.deleted => \E i \in Jobs : Dismisses(job'[i], u)
    BY DEF Holds
  <2>1. CASE institution.holder[p] # u BY <2>1 DEF KeepsOrder
  <2>2. CASE institution.holder[p] = u
    <3>1. /\ user[u].type = p
          /\ user[u].active /\ institution.deleted => \E i \in Jobs : Closes(job[i], u, p)
          /\ ~user[u].active /\ ~institution.deleted => \E i \in Jobs : Dismisses(job[i], u)
      BY <1>1, <2>2 DEF Standing, Holds
    <3>2. ASSUME user'[u].active, institution'.deleted PROVE \E i \in Jobs : Closes(job'[i], u, p)
      <4>1. Closes(job[j], u, p) \/ ~institution.deleted => Closes(n, u, p) BY <3>2 DEF KeepsOrder
      <4>2. CASE institution.deleted
        <5>1. PICK i \in Jobs : Closes(job[i], u, p) BY <1>2, <3>1, <3>2, <4>2
        <5> QED BY <1>0, <1>3, <4>1, <5>1
      <4> QED BY <1>0, <4>1, <4>2
    <3>3. ASSUME ~user'[u].active, ~institution'.deleted PROVE \E i \in Jobs : Dismisses(job'[i], u)
      <4>1. Dismisses(job[j], u) \/ user[u].active => Dismisses(n, u) BY <3>3 DEF KeepsOrder
      <4>2. CASE ~user[u].active
        <5>1. ~institution.deleted BY <3>3 DEF KeepsPosts, StableNext
        <5>2. PICK i \in Jobs : Dismisses(job[i], u) BY <3>1, <4>2, <5>1
        <5> QED BY <1>0, <1>3, <4>1, <5>2
      <4> QED BY <1>0, <4>1, <4>2
    <3> QED BY <1>2, <3>1, <3>2, <3>3
  <2> QED BY <2>1, <2>2
<1>6. Works(u)'
  <2> SUFFICES ASSUME u \in worker' PROVE user'[u].active /\ user'[u].type = "institution_worker"
    BY DEF Works
  <2>1. CASE u \notin worker BY <2>1 DEF KeepsOrder
  <2>2. CASE u \in worker
    <3>1. user[u].active /\ user[u].type = "institution_worker" BY <1>1, <2>2 DEF Standing, Works
    <3>2. job[j] # NoJob /\ job[j].at # "write" => \A p \in Posts : job[j].inst.holder[p] # u
      BY <1>1, <3>1 DEF IInv, HolderTypes, Posts
    <3>3. user[u].type \in Staff BY <3>1 DEF Staff
    <3> QED BY <1>2, <3>1, <3>2, <3>3
  <2> QED BY <2>1, <2>2
<1> QED BY <1>4, <1>5, <1>6 DEF Standing

LEMMA RowsKept ==
    ASSUME IInv, TypeOK', NEW j \in Jobs, KeepsAccounts(j), KeepsRows(j)
    PROVE  Rows'
<1>1. Made \subseteq Made' BY DEF KeepsAccounts, Made
<1>2. ASSUME NEW u \in Users, user'[u].type = "none" PROVE user'[u] = NoAccount
  BY <1>2 DEF IInv, Rows, KeepsRows
<1>3. job[j] # NoJob /\ job[j].at = "link" => job[j].u \in Made
  BY DEF IInv, AllKnown, Known, JobsOK, JobOK
<1>4. courier' \subseteq Made' BY <1>1, <1>3 DEF IInv, Rows, KeepsRows
<1> QED BY <1>2, <1>4 DEF Rows

\* All of it: what a step has to show.
LEMMA StepKeeps ==
    ASSUME IInv, TypeOK', NEW j \in Jobs, NEW n, StepOf(j, n), KeepsAccounts(j), KeepsPosts(j),
           KeepsRows(j), Follows(j, n), KeepsOrder(j, n),
           \A p \in Posts : KnownNext(institution'.holder[p]),
           \A u \in Users \ Made : StableNext(u) /\ KnownNext(u) => Standing(u)',
           \A u \in gone' \ raced' : ~user'[u].active
    PROVE  IInv'
<1>1. AllKnown' /\ JobsOK' /\ RequestsOK' BY RequestsKept
<1>2. HolderTypes' BY HoldersKept
<1>3. InOrder' BY OrderKept
<1>4. GoneForGood' BY DEF GoneForGood
<1>5. Rows' BY RowsKept
<1> QED BY <1>1, <1>2, <1>3, <1>4, <1>5 DEF IInv
-----------------------------------------------------------------------------
(* Steps that leave accounts and posts alone.                              *)

LEMMA TypesKept ==
    ASSUME IInv, NEW j \in Jobs, NEW n, StepOf(j, n), user' \in [Users -> Account],
           institution' \in Institution, worker' \subseteq Users, loose' \subseteq Users
    PROVE  TypeOK'
<1>1. Raced \subseteq Users \cup {None} BY DEF Raced
<1>2. job' \in [Jobs -> Job \cup {NoJob}] /\ raced' \subseteq Users \cup {None} /\ gone' \subseteq Users
  BY <1>1, Unmade DEF StepOf, IInv, TypeOK
<1> QED BY <1>2 DEF TypeOK

\* Who was not made and is nowhere named is not known afterwards, unless it is made.
LEMMA NobodyNew ==
    ASSUME NEW u \in Users \ Made, user'[u] = user[u], u # None
    PROVE  ~KnownNext(u)
BY DEF Made, KnownNext

\* A request goes on or ends, and does not leave anybody behind.
LEMMA QuietStep ==
    ASSUME IInv, NEW j \in Jobs, NEW n, StepOf(j, n), UNCHANGED <<user, institution, worker, courier, gone>>,
           loose' \subseteq Users, Follows(j, n),
           \A u \in Users : StableNext(u) =>
             /\ \A p \in Posts : Closes(job[j], u, p) => Closes(n, u, p)
             /\ Dismisses(job[j], u) => Dismisses(n, u)
             /\ Arrives(job[j], u) => Arrives(n, u)
    PROVE  IInv'
<1>0. TypeOK BY DEF IInv
<1>1. TypeOK' BY <1>0, TypesKept DEF TypeOK
<1>2. KeepsAccounts(j) BY DEF KeepsAccounts, Made
<1>3. KeepsPosts(j)
  <2>1. \A p \in Posts : institution'.holder[p] \in Sources(j) BY DEF Sources
  <2>2. institution'.deleted = institution.deleted /\ worker' = worker OBVIOUS
  <2> QED BY ONLY <2>1, <2>2 DEF KeepsPosts
<1>4. KeepsOrder(j, n)
  <2> SUFFICES ASSUME NEW u \in Made, StableNext(u)
               PROVE  /\ \A p \in Posts :
                           /\ institution.holder[p] = u /\ user[u].active /\ institution.deleted =>
                                (Closes(job[j], u, p) => Closes(n, u, p))
                           /\ institution.holder[p] = u /\ ~user[u].active /\ ~institution.deleted =>
                                (Dismisses(job[j], u) => Dismisses(n, u))
                      /\ Arrives(job[j], u) => Arrives(n, u)
    BY DEF KeepsOrder
  <2> QED BY <1>0, Unmade
<1>5. \A p \in Posts : KnownNext(institution'.holder[p]) BY DEF IInv, AllKnown, Known, Made, KnownNext
<1>6. \A u \in Users \ Made : ~KnownNext(u) BY <1>0, NobodyNew, Unmade
<1>7. \A u \in gone' \ raced' : ~user'[u].active BY DEF IInv, GoneForGood, StepOf
<1>8. KeepsRows(j) BY DEF KeepsRows
<1> QED BY <1>1, <1>2, <1>3, <1>4, <1>5, <1>6, <1>7, <1>8, StepKeeps

\* A new request.
Startable(r) ==
    /\ r \in Job /\ r.u \in Known /\ JobOK(r, gone) /\ r.at # "link"
    /\ Fresh(r, user, raced) /\ Current(r, institution, raced)
    /\ \/ r.inst = NoInstitution \/ r.inst = institution
       \/ r.at = "write" /\ \A p \in Posts : r.inst.holder[p] \in Known

LEMMA BeginStep ==
    ASSUME IInv, NEW j \in Jobs, NEW r, Startable(r), Begin(j, r), raced' = raced \cup Raced
    PROVE  IInv'
<1>0. TypeOK BY DEF IInv
<1>1. /\ UNCHANGED <<user, institution, worker, courier, gone, loose>> /\ job[j] = NoJob
      /\ job' = [job EXCEPT ![j] = r]
  BY DEF Begin, Free, tables
<1>2. Raced = {} /\ raced' = raced BY <1>1 DEF Raced
<1>3. StepOf(j, r) BY <1>1, <1>2 DEF StepOf, Startable, IInv, AllKnown
<1>4. Follows(j, r)
  <2>1. \A u \in Known : KnownNext(u) BY <1>0, <1>1 DEF KnownNext, Known, Made
  <2>2. KnownNext(r.u) BY <2>1 DEF Startable
  <2> QED BY <1>1, <1>2, <2>1, <2>2 DEF Follows, Startable
<1>5. \A u : ~Arrives(job[j], u) /\ ~Dismisses(job[j], u) BY <1>1 DEF Arrives, Dismisses
<1>6. \A u, p : ~Closes(job[j], u, p) BY <1>1 DEF Closes
<1> QED BY <1>0, <1>1, <1>3, <1>4, <1>5, <1>6, QuietStep DEF TypeOK

\* Requests about an account, and those that load the institution.
LEMMA RequestIsJob ==
    ASSUME IInv, NEW op \in Ops, NEW at \in Stages, NEW u \in Users \cup {None}, NEW row \in Account
    PROVE  /\ Request(op, at, u, row) \in Job
           /\ Loaded(op, at, row) = [op |-> op, at |-> at, u |-> None, row |-> row,
                                     inst |-> institution, post |-> "institution_admin"]
           /\ Loaded(op, at, row) \in Job
<1>1. institution \in Institution BY DEF IInv, TypeOK
<1>2. NoInstitution \in Institution BY DEF NoInstitution, Institution
<1>3. Request(op, at, u, row) = [op |-> op, at |-> at, u |-> u, row |-> row,
                                 inst |-> NoInstitution, post |-> "institution_admin"]
  BY DEF Request
<1>4. Request(op, at, u, row) \in Job BY <1>2, <1>3 DEF Job, Posts
<1>5. Loaded(op, at, row) = [op |-> op, at |-> at, u |-> None, row |-> row,
                             inst |-> institution, post |-> "institution_admin"]
  BY DEF Loaded, Request
<1>6. Loaded(op, at, row) \in Job BY <1>1, <1>5 DEF Job, Posts
<1> QED BY <1>4, <1>5, <1>6

LEMMA RequestStarts ==
    ASSUME IInv, NEW op \in Ops \ {"drop", "dismiss", "panel", "close"},
           NEW at \in {"insert", "otp", "save"}, NEW u \in Known, NEW row \in Account,
           NEW r, r = Request(op, at, u, row),
           at = "insert" => Inserts(r),
           at = "otp" => op \in {"register", "change"},
           at = "save" => /\ u # None /\ op \in {"edit", "delete", "courier"} /\ row.type # "none"
                          /\ row.active => user[u].active
                          /\ op = "courier" => row.active = user[u].active
                          /\ op = "delete" => row.phone = None /\ ~row.active
    PROVE  Startable(r)
<1>1. Known \subseteq Users \cup {None} /\ Ops \ {"drop", "dismiss", "panel", "close"} \subseteq Ops
  BY Unmade DEF IInv, Known
<1>2. r \in Job BY <1>1, RequestIsJob DEF Stages
<1>3. r = [op |-> op, at |-> at, u |-> u, row |-> row, inst |-> NoInstitution,
           post |-> "institution_admin"]
  BY DEF Request
<1>4. r.op = op /\ r.at = at /\ r.u = u /\ r.row = row /\ r.inst = NoInstitution BY <1>3
<1>5. JobOK(r, gone) BY <1>4 DEF JobOK, Saves
<1>6. Fresh(r, user, raced) BY <1>4 DEF Fresh
<1>7. Current(r, institution, raced) BY <1>4 DEF Current, HasInstitution
<1> QED BY <1>2, <1>4, <1>5, <1>6, <1>7 DEF Startable

LEMMA EditStarts ==
    ASSUME IInv, NEW op \in {"edit", "courier"}, NEW u \in Made, NEW row \in Account,
           row.type # "none", row.active => user[u].active,
           op = "courier" => row.active = user[u].active
    PROVE  Startable(Request(op, "save", u, row))
<1> DEFINE r == Request(op, "save", u, row)
<1>1. u \in Known /\ u # None BY Unmade DEF IInv, Known
<1>2. op \in Ops \ {"drop", "dismiss", "panel", "close"} BY DEF Ops
<1> QED BY <1>1, <1>2, RequestStarts

LEMMA InsertStarts ==
    ASSUME IInv, NEW op \in {"register", "create", "worker", "courier"}, NEW n \in Numbers,
           NEW type \in Types, op \in {"register", "create", "courier"} => type \notin Staff,
           op = "worker" => type = "institution_worker"
    PROVE  Startable(Request(op, "insert", None, New(type, n)))
<1> DEFINE row == New(type, n)
<1>1. row \in Account /\ row.type = type /\ row.active BY DEF New, Account
<1>2. type # "none" BY DEF Types, Staff, Posts
<1>3. op \in Ops \ {"drop", "dismiss", "panel", "close"} BY DEF Ops
<1> HIDE DEF row
<1> DEFINE r == Request(op, "insert", None, row)
<1>4. r.op = op /\ r.row = row BY DEF Request
<1>5. Inserts(r) BY <1>1, <1>2, <1>4 DEF Inserts
<1> HIDE DEF r
<1>6. Startable(r) BY <1>1, <1>3, <1>5, RequestStarts DEF r, Known
<1> QED BY <1>6 DEF r, row

\* What is written of an account that was changed.
LEMMA EditedIsAccount ==
    ASSUME IInv, NEW u \in Users, NEW n \in Numbers \cup {None}
    PROVE  /\ Edited(u, n) \in Account /\ user[u] \in Account /\ Closed(user[u]) \in Account
           /\ Edited(u, n).type = user[u].type /\ Edited(u, n).active = user[u].active
           /\ Closed(user[u]).type = user[u].type
           /\ ~Closed(user[u]).active /\ Closed(user[u]).phone = None
           /\ user[u].active => u \in Made
           /\ Having(n) \subseteq Made
<1>1. user[u] \in Account BY DEF IInv, TypeOK
<1>2. user[u].active => u \in Made BY DEF IInv, Rows, Made, NoAccount
<1>3. Having(n) \subseteq Made BY DEF IInv, Rows, Made, NoAccount, Having
<1> QED BY <1>1, <1>2, <1>3 DEF Edited, Closed, Account
-----------------------------------------------------------------------------
(* Requests.                                                               *)

LEMMA CustomersKeep ==
    ASSUME IInv, NEW j \in Jobs, Customers(j), raced' = raced \cup Raced
    PROVE  IInv'
<1>0. "edit" \in {"edit", "courier"} /\ None \in Known BY DEF Known
<1>1. ASSUME NEW n \in Numbers, GetVerificationCode(j, n) PROVE IInv'
  <2>1. ASSUME NEW u \in Having(n), Begin(j, Request("register", "otp", u, user[u])) PROVE IInv'
    <3> DEFINE r == Request("register", "otp", u, user[u])
    <3>1. u \in Users BY <2>1 DEF Having
    <3>2. u \in Known /\ user[u] \in Account /\ "register" \in Ops \ {"drop", "dismiss", "panel", "close"}
      BY <2>1, <3>1, EditedIsAccount DEF Known, Ops
    <3>3. Startable(r) BY <3>2, RequestStarts
    <3> QED BY <2>1, <3>3, BeginStep
  <2>2. ASSUME Begin(j, Request("register", "insert", None, New("customer", n))) PROVE IInv'
    <3>1. "customer" \in Types \ Staff BY DEF Types, Staff, Posts
    <3>2. Startable(Request("register", "insert", None, New("customer", n))) BY <3>1, InsertStarts
    <3> QED BY <2>2, <3>2, BeginStep
  <2> QED BY <1>1, <2>1, <2>2 DEF GetVerificationCode
<1>2. ASSUME NEW u \in Users, NEW n \in Numbers, ChangeNumber(j, u, n) PROVE IInv'
  <2> DEFINE row == [user[u] EXCEPT !.phone = n]
             r   == Request("change", "otp", u, row)
  <2>1. user[u] \in Account /\ u \in Known /\ "change" \in Ops \ {"drop", "dismiss", "panel", "close"}
    BY <1>2, EditedIsAccount DEF ChangeNumber, Known, Ops
  <2>2. row \in Account BY <2>1 DEF Account
  <2> HIDE DEF row
  <2>3. Startable(r) BY <2>1, <2>2, RequestStarts
  <2> QED BY <1>2, <2>3, BeginStep DEF ChangeNumber, row
<1>3. ASSUME NEW u \in Users, NEW row \in OwnRows(u), user[u].active,
             Begin(j, Request("edit", "save", u, row))
      PROVE  IInv'
  <2>1. u \in Made /\ user[u] \in Account /\ \A n \in Numbers \cup {None} :
          Edited(u, n) \in Account /\ Edited(u, n).type = user[u].type
    BY <1>3, EditedIsAccount
  <2>2. \A type \in Types : [user[u] EXCEPT !.type = type] \in Account
                          /\ [user[u] EXCEPT !.type = type].type = type
    BY <2>1 DEF Account
  <2>3. [user[u] EXCEPT !.active = FALSE] \in Account
        /\ [user[u] EXCEPT !.active = FALSE].type = user[u].type
    BY <2>1 DEF Account
  <2>4. "none" \notin Types BY DEF Types, Staff, Posts
  <2>5. row \in Account /\ row.type # "none"
    <3>1. user[u].type # "none" BY <2>1 DEF Made
    <3>2. \/ \E n \in Numbers \cup {None} : row = Edited(u, n)
          \/ \E type \in Types : row = [user[u] EXCEPT !.type = type]
          \/ row = [user[u] EXCEPT !.active = FALSE]
      BY DEF OwnRows
    <3>3. ASSUME NEW n \in Numbers \cup {None}, row = Edited(u, n)
          PROVE  row \in Account /\ row.type # "none"
      BY <2>1, <3>1, <3>3
    <3>4. ASSUME NEW type \in Types, row = [user[u] EXCEPT !.type = type]
          PROVE  row \in Account /\ row.type # "none"
      BY <2>2, <2>4, <3>4
    <3> QED BY <2>3, <3>1, <3>2, <3>3, <3>4
  <2>6. Startable(Request("edit", "save", u, row)) BY <1>0, <1>3, <2>1, <2>5, EditStarts
  <2> QED BY <1>3, <2>6, BeginStep
<1>4. ASSUME NEW u \in Users, DeleteAccount(j, u) PROVE IInv'
  <2> DEFINE row == Closed(user[u])
             r   == Request("delete", "save", u, row)
  <2>1. /\ row \in Account /\ u \in Made /\ row.type = user[u].type /\ ~row.active /\ row.phone = None
    BY <1>4, EditedIsAccount DEF DeleteAccount, Made
  <2>2. u \in Known /\ u # None /\ row.type # "none" /\ "delete" \in Ops \ {"drop", "dismiss", "panel", "close"}
    BY <2>1, Unmade DEF IInv, Known, Made, Ops
  <2> HIDE DEF row
  <2>3. Startable(r) BY <2>1, <2>2, RequestStarts
  <2> QED BY <1>4, <2>3, BeginStep DEF DeleteAccount, row
<1>5. ASSUME NEW u \in Users, NEW n \in Numbers, VerifyChangeNumber(j, u, n) PROVE IInv'
  <2>1. Edited(u, n) \in OwnRows(u) BY DEF OwnRows
  <2> QED BY <1>3, <1>5, <2>1 DEF VerifyChangeNumber
<1>6. ASSUME NEW u \in Users, NEW row \in OwnRows(u), EditOwn(j, u, row) PROVE IInv'
  BY <1>3, <1>6 DEF EditOwn
<1> QED BY <1>1, <1>2, <1>4, <1>5, <1>6 DEF Customers

LEMMA OperatorsKeep ==
    ASSUME IInv, NEW j \in Jobs, Operators(j), raced' = raced \cup Raced,
           \A u \in Users : CrmDismiss(j, u) => IInv'
    PROVE  IInv'
<1>0. "edit" \in {"edit", "courier"} /\ "courier" \in {"edit", "courier"} OBVIOUS
<1>1. ASSUME NEW n \in Numbers, NEW type \in {"customer", "operator"}, CrmCreate(j, type, n) PROVE IInv'
  <2>1. type \in Types \ Staff BY DEF Types, Staff, Posts
  <2>2. Startable(Request("create", "insert", None, New(type, n))) BY <2>1, InsertStarts
  <2> QED BY <1>1, <2>2, BeginStep DEF CrmCreate
<1>2. ASSUME NEW u \in Users, NEW n \in Numbers \cup {None}, NEW type \in {"customer", "operator"},
             CrmEdit(j, u, type, n)
      PROVE  IInv'
  <2> DEFINE row == [Edited(u, n) EXCEPT !.type = type]
  <2>1. u \in Made /\ type \in Types BY <1>2 DEF CrmEdit, Made, Types, Staff, Posts
  <2>2. Edited(u, n) \in Account /\ Edited(u, n).active = user[u].active BY EditedIsAccount
  <2>3. row \in Account /\ row.active = user[u].active /\ row.type = type BY <2>1, <2>2 DEF Account
  <2>4. row.type # "none" BY <2>3
  <2> HIDE DEF row
  <2>5. Startable(Request("edit", "save", u, row)) BY <1>0, <2>1, <2>3, <2>4, EditStarts
  <2> QED BY <1>2, <2>5, BeginStep DEF CrmEdit, row
<1>3. ASSUME NEW u \in Made, NEW n \in Numbers \cup {None},
             Begin(j, Request("edit", "save", u, Edited(u, n)))
      PROVE  IInv'
  <2>1. u \in Users BY Unmade DEF IInv
  <2>2. Edited(u, n) \in Account /\ Edited(u, n).active = user[u].active /\ Edited(u, n).type # "none"
    BY <2>1, EditedIsAccount DEF Made
  <2>3. Startable(Request("edit", "save", u, Edited(u, n))) BY <1>0, <2>2, EditStarts
  <2> QED BY <1>3, <2>3, BeginStep
<1>4. ASSUME NEW n \in Numbers, CrmCreateCourier(j, n) PROVE IInv'
  <2>1. ASSUME NEW u \in Having(n), Begin(j, Request("courier", "save", u, user[u])) PROVE IInv'
    <3>1. u \in Users BY DEF Having
    <3>2. u \in Made /\ user[u] \in Account /\ user[u].type # "none" BY <3>1, EditedIsAccount DEF Made
    <3>3. Startable(Request("courier", "save", u, user[u])) BY <1>0, <3>2, EditStarts
    <3> QED BY <2>1, <3>3, BeginStep
  <2>2. ASSUME Begin(j, Request("courier", "insert", None, New("customer", n))) PROVE IInv'
    <3>1. "customer" \in Types \ Staff BY DEF Types, Staff, Posts
    <3>2. Startable(Request("courier", "insert", None, New("customer", n))) BY <3>1, InsertStarts
    <3> QED BY <2>2, <3>2, BeginStep
  <2> QED BY <1>4, <2>1, <2>2 DEF CrmCreateCourier
<1>5. ASSUME NEW n \in Numbers, RestaurantCreateWorker(j, n) PROVE IInv'
  <2>1. "institution_worker" \in Types BY DEF Types, Staff
  <2>2. Startable(Request("worker", "insert", None, New("institution_worker", n))) BY <2>1, InsertStarts
  <2> QED BY <1>5, <2>2, BeginStep DEF RestaurantCreateWorker
<1>6. worker \subseteq Made /\ courier \subseteq Made BY DEF IInv, AllKnown, Rows
<1>7. ASSUME NEW u \in Users, NEW n \in Numbers \cup {None}, CrmEditCourier(j, u, n) PROVE IInv'
  BY <1>3, <1>6, <1>7 DEF CrmEditCourier
<1>8. ASSUME NEW u \in Users, NEW n \in Numbers \cup {None}, RestaurantEditWorker(j, u, n) PROVE IInv'
  BY <1>3, <1>6, <1>8 DEF RestaurantEditWorker
<1> QED BY <1>1, <1>2, <1>4, <1>5, <1>7, <1>8 DEF Operators

\* Requests that load the institution.
LEMMA LoadedStarts ==
    ASSUME IInv, NEW r \in Job, r.inst = institution, r.u \in Known, JobOK(r, gone),
           r.at \notin {"link", "again"}, r.at = "save" => ~r.row.active /\ r.op = "dismiss",
           r.op = "close" => r.at = "close"
    PROVE  Startable(r)
<1>1. Fresh(r, user, raced) BY DEF Fresh
<1>2. Current(r, institution, raced) BY DEF Current
<1> QED BY <1>1, <1>2 DEF Startable

Loading(op, at, u, row, p) ==
    [op |-> op, at |-> at, u |-> u, row |-> row, inst |-> institution, post |-> p]

LEMMA LoadedIsJob ==
    ASSUME IInv, NEW op \in Ops, NEW at \in Stages, NEW u \in Known, NEW row \in Account, NEW p \in Posts
    PROVE  /\ Loading(op, at, u, row, p) \in Job /\ Loading(op, at, u, row, p).op = op
           /\ Loading(op, at, u, row, p).at = at /\ Loading(op, at, u, row, p).u = u
           /\ Loading(op, at, u, row, p).row = row /\ Loading(op, at, u, row, p).post = p
           /\ Loading(op, at, u, row, p).inst = institution
<1>1. u \in Users \cup {None} /\ institution \in Institution BY Unmade DEF IInv, TypeOK, Known
<1> QED BY <1>1 DEF Job, Loading

LEMMA PostRequestsKeep ==
    ASSUME IInv, NEW j \in Jobs, PostRequests(j), raced' = raced \cup Raced,
           DeleteCategory(j) => IInv'
    PROVE  IInv'
<1>00. /\ {"appoint", "panel", "dismiss", "drop", "close", "institution"} \subseteq Ops
       /\ {"appoint", "insert", "save", "clear", "close", "write"} \subseteq Stages
       /\ "institution_admin" \in Posts /\ "institution_owner" \in Posts /\ Posts \subseteq Types
  BY DEF Ops, Stages, Posts, Types, Staff
<1>01. ASSUME NEW op \in Ops, NEW at \in Stages, NEW row \in Account
       PROVE  Loaded(op, at, row) = Loading(op, at, None, row, "institution_admin")
  BY RequestIsJob DEF Loading
<1>02. \A type \in Types, n \in Numbers : New(type, n) \in Account BY DEF New, Account
<1>03. NoAccount \in Account /\ None \in Known BY DEF NoAccount, Account, Known
<1>0. /\ NoAccount \in Account /\ None \in Known
      /\ \A type \in Types, n \in Numbers : New(type, n) \in Account
      /\ \A op \in Ops, at \in Stages, row \in Account :
           Loaded(op, at, row) = Loading(op, at, None, row, "institution_admin")
      /\ "institution_admin" \in Posts /\ Posts \subseteq Types
      /\ {"appoint", "panel", "dismiss", "drop", "close", "institution"} \subseteq Ops
      /\ {"appoint", "insert", "save", "clear", "close", "write"} \subseteq Stages
  BY <1>00, <1>01, <1>02, <1>03
<1>1. ASSUME NEW p \in Posts, NEW n \in Numbers, AddHolder(j, p, n) PROVE IInv'
  <2> DEFINE row == New(p, n)
  <2>1. PICK r : r = Loading("appoint", "appoint", None, row, p)
    OBVIOUS
  <2>2. row \in Account /\ row.type = p /\ row.active BY <1>0 DEF New
  <2>3. [Loaded("appoint", "appoint", row) EXCEPT !.post = p] = r
    <3>1. Loaded("appoint", "appoint", row) = Loading("appoint", "appoint", None, row, "institution_admin")
      BY <1>0, <2>2
    <3> HIDE DEF row
    <3> QED BY <2>1, <3>1 DEF Loading
  <2>4. ~institution.deleted /\ Begin(j, r) BY <1>1, <2>3 DEF AddHolder
  <2> HIDE DEF row
  <2>5. /\ r \in Job /\ r.op = "appoint" /\ r.at = "appoint" /\ r.u = None /\ r.row = row /\ r.post = p
        /\ r.inst = institution
    BY <1>0, <2>1, <2>2, LoadedIsJob
  <2>6. Startable(r)
    <3>1. JobOK(r, gone) BY <2>2, <2>4, <2>5 DEF JobOK
    <3> QED BY <1>0, <2>5, <3>1, LoadedStarts
  <2> QED BY <2>4, <2>6, BeginStep
<1>2. ASSUME NEW p \in Posts, NEW n \in Numbers \cup {None}, UpdateHolder(j, p, n) PROVE IInv'
  <2>1. PICK u \in {institution.holder[p]} \ {None} : Begin(j, Request("edit", "save", u, Edited(u, n)))
    BY <1>2 DEF UpdateHolder
  <2>2. u \in Made /\ u \in Users BY Unmade DEF IInv, AllKnown, Known
  <2>3. Edited(u, n) \in Account /\ Edited(u, n).active = user[u].active /\ Edited(u, n).type # "none"
    BY <2>2, EditedIsAccount DEF Made
  <2>4. Startable(Request("edit", "save", u, Edited(u, n))) BY <2>2, <2>3, EditStarts
  <2> QED BY <2>1, <2>4, BeginStep
<1>3. ASSUME NEW n \in Numbers, PanelCreateAdmin(j, n) PROVE IInv'
  <2> DEFINE row == New("institution_admin", n)
  <2>1. PICK r : r = Loading("panel", "insert", None, row, "institution_admin")
    OBVIOUS
  <2>2. row \in Account /\ row.type = "institution_admin" /\ row.active BY <1>0 DEF New
  <2>3. Loaded("panel", "insert", row) = r BY <1>0, <2>1, <2>2
  <2>4. Begin(j, r) BY <1>3, <2>3 DEF PanelCreateAdmin
  <2> HIDE DEF row
  <2>5. /\ r \in Job /\ r.op = "panel" /\ r.at = "insert" /\ r.u = None /\ r.row = row
        /\ r.inst = institution
    BY <1>0, <2>1, <2>2, LoadedIsJob
  <2>6. Startable(r)
    <3>1. JobOK(r, gone) BY <2>2, <2>5 DEF JobOK, Inserts
    <3> QED BY <1>0, <2>5, <3>1, LoadedStarts
  <2> QED BY <2>4, <2>6, BeginStep
<1>4. ASSUME DeleteAdmin(j) PROVE IInv'
  <2>1. PICK u \in {institution.holder["institution_admin"]} \ {None} :
          Begin(j, [Loaded("dismiss", "save", Closed(user[u])) EXCEPT !.u = u])
    BY <1>4 DEF DeleteAdmin
  <2> DEFINE row == Closed(user[u])
  <2>2. u \in Made /\ u \in Known /\ u \in Users /\ u # None
    BY <1>0, Unmade DEF IInv, AllKnown, Known
  <2>3. row \in Account /\ row.type # "none" /\ ~row.active /\ row.phone = None
    BY <2>2, EditedIsAccount DEF Made
  <2>4. PICK r : r = Loading("dismiss", "save", u, row, "institution_admin")
    OBVIOUS
  <2>5. [Loaded("dismiss", "save", row) EXCEPT !.u = u] = r
    <3>1. Loaded("dismiss", "save", row) = Loading("dismiss", "save", None, row, "institution_admin")
      BY <1>0, <2>3
    <3> HIDE DEF row
    <3> QED BY <2>4, <3>1 DEF Loading
  <2>6. Begin(j, r) /\ ~institution.deleted BY <1>4, <2>1, <2>5 DEF DeleteAdmin
  <2> HIDE DEF row
  <2>7. /\ r \in Job /\ r.op = "dismiss" /\ r.at = "save" /\ r.u = u /\ r.row = row
        /\ r.inst = institution
    BY <1>00, <2>2, <2>3, <2>4, LoadedIsJob
  <2>8. Startable(r)
    <3>1. JobOK(r, gone) BY <2>2, <2>3, <2>6, <2>7 DEF JobOK, Saves
    <3> QED BY <2>2, <2>3, <2>7, <3>1, LoadedStarts
  <2> QED BY <2>6, <2>8, BeginStep
<1>5. ASSUME NEW op \in Ops, NEW at \in Stages, Begin(j, Loaded(op, at, NoAccount)),
             \/ op = "drop" /\ at = "clear"
             \/ op = "close" /\ at = "close"
      PROVE  IInv'
  <2>1. PICK r : r = Loading(op, at, None, NoAccount, "institution_admin")
    OBVIOUS
  <2>2. Begin(j, r) BY <1>0, <1>5, <2>1
  <2>3. /\ r \in Job /\ r.op = op /\ r.at = at /\ r.u = None /\ r.inst = institution
        /\ r.post = "institution_admin"
    BY <1>0, <2>1, LoadedIsJob
  <2>4. Startable(r)
    <3>1. JobOK(r, gone) BY <1>5, <2>3 DEF JobOK
    <3> QED BY <1>0, <1>5, <2>3, <3>1, LoadedStarts
  <2> QED BY <2>2, <2>4, BeginStep
<1>6. ASSUME ManagementDelete(j) PROVE IInv' BY <1>00, <1>5, <1>6 DEF ManagementDelete
<1>7. ASSUME DeleteInstitution(j) PROVE IInv' BY <1>00, <1>5, <1>7 DEF DeleteInstitution
<1>8. ASSUME NEW holder \in [Posts -> Made \cup {None}], EditInstitution(j, holder) PROVE IInv'
  <2>1. PICK inst : inst = [institution EXCEPT !.holder = holder] OBVIOUS
  <2>2. PICK r : r = [op |-> "institution", at |-> "write", u |-> None, row |-> NoAccount,
                      inst |-> inst, post |-> "institution_admin"]
    OBVIOUS
  <2>3. institution \in Institution /\ Made \subseteq Users BY Unmade DEF IInv, TypeOK
  <2>4. inst \in Institution /\ inst.holder = holder /\ inst.deleted = institution.deleted
    BY <2>1, <2>3 DEF Institution
  <2>5. /\ r \in Job /\ r.op = "institution" /\ r.at = "write" /\ r.u = None /\ r.inst = inst
    BY <1>00, <1>0, <2>2, <2>4 DEF Job
  <2>6. [Loaded("institution", "write", NoAccount) EXCEPT !.inst.holder = holder] = r
    <3>1. Loaded("institution", "write", NoAccount) =
            Loading("institution", "write", None, NoAccount, "institution_admin")
      BY <1>00, <1>0
    <3> QED BY <2>1, <2>2, <3>1 DEF Loading
  <2>7. Begin(j, r) /\ ~institution.deleted BY <1>8, <2>6 DEF EditInstitution
  <2>8. Startable(r)
    <3>1. JobOK(r, gone) BY <2>4, <2>5, <2>7 DEF JobOK
    <3>2. Fresh(r, user, raced) BY <2>5 DEF Fresh
    <3>3. Current(r, institution, raced) BY <2>4, <2>5 DEF Current
    <3>4. \A p \in Posts : r.inst.holder[p] \in Known BY <2>4, <2>5 DEF Known
    <3> QED BY <1>0, <2>5, <3>1, <3>2, <3>3, <3>4 DEF Startable
  <2> QED BY <2>7, <2>8, BeginStep
<1> QED BY <1>1, <1>2, <1>3, <1>4, <1>6, <1>7, <1>8 DEF PostRequests
-----------------------------------------------------------------------------
(* Steps that leave accounts and posts alone, and those of no request.     *)

LEMMA AllSame ==
    ASSUME IInv, UNCHANGED <<user, institution, worker, courier, job, gone, loose, raced>>
    PROVE  IInv'
<1>1. TypeOK' BY DEF IInv, TypeOK
<1>2. AllKnown' BY DEF IInv, AllKnown, Known, Made
<1>3. Rows' BY DEF IInv, Rows, Made
<1>4. JobsOK' BY DEF IInv, JobsOK
<1>5. RequestsOK' BY DEF IInv, RequestsOK, Newcomer, Stable
<1>6. HolderTypes' BY DEF IInv, HolderTypes, Stable
<1>7. InOrder'
  <2> SUFFICES ASSUME NEW u \in Made, Stable(u) PROVE Standing(u)'
    BY DEF InOrder, Made, Stable
  <2>1. Standing(u) BY DEF IInv, InOrder
  <2> QED BY <2>1 DEF Standing, Found, Holds, Works, Finds
<1>8. GoneForGood' BY DEF IInv, GoneForGood
<1> QED BY <1>1, <1>2, <1>3, <1>4, <1>5, <1>6, <1>7, <1>8 DEF IInv

LEMMA RequestFacts ==
    ASSUME IInv, NEW j \in Jobs, job[j] # NoJob
    PROVE  /\ job[j] \in Job
           /\ job[j].op \in Ops /\ job[j].at \in Stages /\ job[j].u \in Users \cup {None}
           /\ job[j].row \in Account /\ job[j].inst \in Institution /\ job[j].post \in Posts
           /\ job[j].u \in Known /\ \A p \in Posts : job[j].inst.holder[p] \in Known
           /\ JobOK(job[j], gone) /\ Fresh(job[j], user, raced) /\ Current(job[j], institution, raced)
<1>1. job[j] \in Job BY DEF IInv, TypeOK
<1>2. job[j].u \in Known /\ \A p \in Posts : job[j].inst.holder[p] \in Known BY DEF IInv, AllKnown
<1>3. JobOK(job[j], gone) BY DEF IInv, JobsOK
<1>4. Fresh(job[j], user, raced) /\ Current(job[j], institution, raced) BY DEF IInv, RequestsOK
<1>5. /\ job[j].op \in Ops /\ job[j].at \in Stages /\ job[j].u \in Users \cup {None}
      /\ job[j].row \in Account /\ job[j].inst \in Institution /\ job[j].post \in Posts
  BY <1>1 DEF Job
<1> QED BY <1>1, <1>2, <1>3, <1>4, <1>5

\* The request ends.
LEMMA Ends ==
    ASSUME IInv, NEW j \in Jobs, job[j] # NoJob, job' = [job EXCEPT ![j] = NoJob],
           UNCHANGED <<user, institution, worker, courier, gone>>, raced' = raced \cup Raced,
           loose \subseteq loose', loose' \subseteq Users,
           \A u \in Users : StableNext(u) =>
             /\ \A p \in Posts : ~Closes(job[j], u, p)
             /\ ~Dismisses(job[j], u) /\ ~Arrives(job[j], u)
    PROVE  IInv'
<1>1. gone \subseteq Made BY DEF IInv, AllKnown
<1>2. StepOf(j, NoJob) BY <1>1 DEF StepOf
<1>3. Follows(j, NoJob) BY DEF Follows
<1> QED BY <1>2, <1>3, QuietStep

LEMMA EarlyEnds ==
    ASSUME IInv, NEW j \in Jobs, job[j] # NoJob, job' = [job EXCEPT ![j] = NoJob],
           UNCHANGED <<user, institution, worker, courier, gone, loose>>, raced' = raced \cup Raced,
           job[j].at \in {"insert", "otp", "appoint"} \/ (job[j].at = "save" /\ job[j].op # "close")
    PROVE  IInv'
<1>1. \A u, p : ~Closes(job[j], u, p) /\ ~Dismisses(job[j], u) /\ ~Arrives(job[j], u)
  <2>1. job[j].at \in {"fetch", "save"} => job[j].op # "close" OBVIOUS
  <2>2. job[j].at \notin {"again", "clear", "link"} OBVIOUS
  <2> QED BY <2>1, <2>2 DEF Closes, Dismisses, Arrives, Linking
<1>2. loose' \subseteq Users BY DEF IInv, TypeOK
<1> QED BY <1>1, <1>2, Ends

LEMMA SetOtpKeeps ==
    ASSUME IInv, NEW j \in Jobs, SetOtp(j), raced' = raced \cup Raced
    PROVE  IInv'
BY EarlyEnds DEF SetOtp, Is, Goes

LEMMA DieKeeps ==
    ASSUME IInv, NEW j \in Jobs, Die(j), raced' = raced \cup Raced
    PROVE  IInv'
<1>1. PICK k : k = job[j] OBVIOUS
<1>2. /\ k.u \in Users \cup {None} /\ \A p \in Posts : k.inst.holder[p] \in Users \cup {None}
      /\ loose \subseteq Users /\ k # NoJob /\ None \notin Users
  BY <1>1, RequestFacts, Unmade DEF Die, IInv, TypeOK, Known
<1>3. Concerns(k) \subseteq Users BY <1>2 DEF Concerns
<1>4. loose \subseteq loose' /\ loose' \subseteq Users BY <1>1, <1>2, <1>3 DEF Die
<1>5. ASSUME NEW u \in Users, u \notin loose'
      PROVE  (\A p \in Posts : ~Closes(k, u, p)) /\ ~Dismisses(k, u) /\ ~Arrives(k, u)
  <2>1. u # None BY <1>2
  <2>2. k.at \in {"link", "again", "clear"} \/ (k.op = "close" /\ k.at # "close") => u \notin Concerns(k)
    BY <1>1, <1>5 DEF Die
  <2>3. k.u = u => u \in Concerns(k) BY <2>1 DEF Concerns
  <2>4. ASSUME NEW p \in Posts, k.op = "close", k.inst.holder[p] = u PROVE u \in Concerns(k)
    BY <2>1, <2>4 DEF Concerns
  <2> QED BY <2>2, <2>3, <2>4 DEF Closes, Dismisses, Arrives, Linking
<1> QED BY <1>1, <1>2, <1>4, <1>5, Ends DEF Die, tables, StableNext

LEMMA FetchKeeps ==
    ASSUME IInv, NEW j \in Jobs, Fetch(j), raced' = raced \cup Raced
    PROVE  IInv'
<1>1. PICK k : k = job[j] OBVIOUS
<1>2. /\ k \in Job /\ k.u \in Known /\ k.row \in Account /\ k.inst \in Institution /\ k.post \in Posts
      /\ \A p \in Posts : k.inst.holder[p] \in Known
      /\ JobOK(k, gone) /\ Current(k, institution, raced) /\ k # NoJob /\ k.at = "fetch"
  BY <1>1, RequestFacts DEF Fetch, Is
<1>3. k.op = "close" BY <1>2 DEF JobOK
<1>4. PICK v : v = k.inst.holder[k.post] OBVIOUS
<1>5. v \in Known /\ None \notin Users BY <1>2, <1>4, Unmade DEF IInv
<1>6. job' = [job EXCEPT ![j] = IF v = None THEN AfterSave(k)
                                ELSE [k EXCEPT !.u = v, !.at = "save", !.row = Closed(user[v])]]
      /\ UNCHANGED <<user, institution, worker, courier, gone, loose>>
  BY <1>1, <1>4 DEF Fetch, tables
<1>7. loose' \subseteq Users /\ gone \subseteq Made BY <1>6 DEF IInv, TypeOK, AllKnown
<1>8. \A u : ~Dismisses(k, u) /\ ~Arrives(k, u) BY <1>2 DEF Dismisses, Arrives, Linking
<1>9. raced \subseteq raced' OBVIOUS
<1>10. CASE v = None /\ k.post = "institution_owner"
  <2>1. AfterSave(k) = NoJob BY <1>3, <1>10 DEF AfterSave
  <2>2. ASSUME NEW u \in Users, NEW p \in Posts PROVE ~Closes(k, u, p)
    BY <1>4, <1>5, <1>10 DEF Closes, Posts
  <2> QED BY <1>1, <1>2, <1>6, <1>7, <1>8, <1>10, <2>1, <2>2, Ends
<1>11. CASE v = None /\ k.post = "institution_admin"
  <2>1. PICK n : n = [k EXCEPT !.at = "fetch", !.post = "institution_owner"] OBVIOUS
  <2>2. AfterSave(k) = n BY <1>3, <1>11, <2>1 DEF AfterSave
  <2>3. /\ n \in Job /\ n.op = k.op /\ n.at = "fetch" /\ n.u = k.u /\ n.row = k.row /\ n.inst = k.inst
        /\ n.post = "institution_owner"
    BY <1>2, <2>1 DEF Job, Stages, Posts
  <2>4. StepOf(j, n) BY <1>6, <1>7, <1>11, <2>2, <2>3 DEF StepOf
  <2>5. Follows(j, n)
    <3>1. JobOK(n, gone) /\ Fresh(n, user, raced') BY <1>3, <2>3 DEF JobOK, Fresh
    <3>2. Current(n, institution, raced') BY <1>2, <1>3, <1>9, <2>3 DEF Current, HasInstitution
    <3>3. KnownNext(n.u) BY <1>2, <1>6, <2>3, Unmade DEF KnownNext, Known, Made, IInv
    <3> QED BY <1>1, <1>2, <1>6, <2>3, <3>1, <3>2, <3>3 DEF Follows
  <2>6. ASSUME NEW u \in Users, NEW p \in Posts, Closes(k, u, p) PROVE Closes(n, u, p)
    <3>1. p # "institution_admin" BY <1>4, <1>5, <1>11, <2>6 DEF Closes
    <3>2. n # NoJob BY <2>3, SentinelAssumption
    <3> QED BY <2>3, <2>6, <3>1, <3>2 DEF Closes
  <2> QED BY <1>1, <1>6, <1>7, <1>8, <2>4, <2>5, <2>6, QuietStep
<1>12. CASE v # None
  <2>1. PICK n : n = [k EXCEPT !.u = v, !.at = "save", !.row = Closed(user[v])] OBVIOUS
  <2>2. v \in Users /\ v \in Made BY <1>5, <1>12, Unmade DEF IInv, Known
  <2>3. PICK row : row = Closed(user[v]) OBVIOUS
  <2>4. row \in Account /\ row.type # "none" /\ row.phone = None /\ ~row.active
    BY <2>2, <2>3, EditedIsAccount DEF Made
  <2>5. /\ n \in Job /\ n.op = k.op /\ n.at = "save" /\ n.u = v /\ n.row = row /\ n.inst = k.inst
        /\ n.post = k.post
    BY <1>2, <2>1, <2>2, <2>3, <2>4 DEF Job, Stages
  <2>6. StepOf(j, n) BY <1>6, <1>7, <1>12, <2>1, <2>5 DEF StepOf
  <2>7. Follows(j, n)
    <3>1. JobOK(n, gone) BY <1>3, <1>4, <1>12, <2>4, <2>5 DEF JobOK, Saves
    <3>2. Fresh(n, user, raced') BY <1>3, <2>4, <2>5 DEF Fresh
    <3>3. Current(n, institution, raced') BY <1>2, <1>3, <1>9, <2>5 DEF Current, HasInstitution
    <3>4. KnownNext(n.u) BY <1>6, <2>2, <2>5 DEF KnownNext, Made
    <3> QED BY <1>1, <1>2, <1>6, <2>5, <3>1, <3>2, <3>3, <3>4 DEF Follows
  <2>8. ASSUME NEW u \in Users, NEW p \in Posts, Closes(k, u, p) PROVE Closes(n, u, p)
    <3>1. n # NoJob BY <2>5, SentinelAssumption
    <3> QED BY <2>5, <2>8, <3>1 DEF Closes
  <2> QED BY <1>1, <1>6, <1>7, <1>8, <2>6, <2>7, <2>8, QuietStep
<1> QED BY <1>2, <1>10, <1>11, <1>12 DEF Posts
-----------------------------------------------------------------------------
(* Steps that change accounts or posts.                                    *)

LEMMA KnownStays ==
    ASSUME IInv, NEW j \in Jobs, KeepsAccounts(j)
    PROVE  /\ \A u \in Known : KnownNext(u)
           /\ \A p \in Posts : institution.holder[p] \in Known
<1>1. \A u \in Known : KnownNext(u) BY Unmade DEF IInv, Known, KeepsAccounts, KnownNext
<1> QED BY <1>1 DEF IInv, AllKnown

LEMMA CrmDismissKeeps ==
    ASSUME IInv, NEW j \in Jobs, NEW u \in Users, CrmDismiss(j, u), raced' = raced \cup Raced
    PROVE  IInv'
<1>1. /\ TypeOK /\ job[j] = NoJob /\ job' = job /\ user[u].type = "operator"
      /\ user' = [user EXCEPT ![u] = [@ EXCEPT !.active = FALSE]]
      /\ UNCHANGED <<institution, worker, courier, gone, loose>>
  BY DEF CrmDismiss, Free, IInv
<1>2. user \in [Users -> Account] /\ user[u] \in Account BY <1>1 DEF TypeOK
<1>3. PICK row : row = [user[u] EXCEPT !.active = FALSE] OBVIOUS
<1>4. row \in Account /\ row.type = "operator" /\ ~row.active BY <1>1, <1>2, <1>3 DEF Account
<1>5. /\ user' \in [Users -> Account] /\ user'[u] = row
      /\ \A v \in Users : v # u => user'[v] = user[v]
  BY <1>1, <1>2, <1>3, <1>4
<1>6. u \in Made /\ "operator" \notin Staff /\ Made \subseteq Users /\ None \notin Users
  BY <1>1, Unmade DEF Made, Staff, Posts
<1>7. StepOf(j, NoJob)
  <2>1. job' = [job EXCEPT ![j] = NoJob] BY <1>1 DEF TypeOK
  <2>2. gone \subseteq Made BY DEF IInv, AllKnown
  <2> QED BY <1>1, <2>1, <2>2 DEF StepOf
<1>8. KeepsAccounts(j)
  <2> SUFFICES ASSUME NEW v \in Made
               PROVE  /\ user'[v].type # "none" /\ user'[v].type = user[v].type
                      /\ \/ user'[v].active = user[v].active
                         \/ ~user'[v].active /\ user[v].type \notin Staff
    BY DEF KeepsAccounts
  <2>1. CASE v = u BY <1>1, <1>4, <1>5, <1>6, <2>1
  <2>2. CASE v # u BY <1>5, <1>6, <2>2 DEF Made
  <2> QED BY <2>1, <2>2
<1>9. KeepsPosts(j)
  <2>1. \A p \in Posts : institution'.holder[p] \in Sources(j) BY <1>1 DEF Sources
  <2>2. institution'.deleted = institution.deleted /\ worker' = worker BY <1>1
  <2> QED BY ONLY <2>1, <2>2 DEF KeepsPosts
<1>10. KeepsRows(j)
  <2>1. \A v \in Users : user'[v].type = "none" => user'[v] = user[v] BY <1>4, <1>5
  <2> QED BY <1>1, <2>1 DEF KeepsRows
<1>11. Follows(j, NoJob) BY DEF Follows
<1>12. ASSUME NEW v \in Made, StableNext(v), NEW p \in Posts, institution.holder[p] = v PROVE v # u
  <2>1. Stable(v) BY <1>7, <1>12, StableBefore
  <2>2. user[v].type = p BY <1>12, <2>1 DEF IInv, InOrder, Standing, Holds
  <2> QED BY <1>1, <2>2 DEF Posts
<1>13. KeepsOrder(j, NoJob)
  <2> SUFFICES ASSUME NEW v \in Made, StableNext(v), NEW p \in Posts, institution.holder[p] = v
               PROVE  user'[v].active = user[v].active
    BY <1>1 DEF KeepsOrder, Closes, Dismisses, Arrives
  <2> QED BY <1>5, <1>6, <1>12
<1>14. \A p \in Posts : KnownNext(institution'.holder[p]) BY <1>1, <1>8, KnownStays
<1>15. \A v \in Users \ Made : ~KnownNext(v) BY <1>5, <1>6, NobodyNew
<1>16. \A v \in gone' \ raced' : ~user'[v].active
  <2>1. gone \subseteq Users BY <1>1 DEF TypeOK
  <2> QED BY <1>1, <1>4, <1>5, <2>1 DEF IInv, GoneForGood
<1>17. TypeOK' BY <1>1, <1>5, <1>7, TypesKept DEF TypeOK
<1> QED BY <1>7, <1>8, <1>9, <1>10, <1>11, <1>13, <1>14, <1>15, <1>16, <1>17, StepKeeps

\* A step that changes the institution alone.
LEMMA InstitutionStep ==
    ASSUME IInv, NEW j \in Jobs, NEW n, job' = [job EXCEPT ![j] = n], n \in Job \cup {NoJob},
           UNCHANGED <<user, worker, courier, gone>>, raced' = raced \cup Raced,
           loose \subseteq loose', loose' \subseteq Users, institution' \in Institution,
           \A p \in Posts : institution'.holder[p] \in Known, KeepsPosts(j),
           Follows(j, n), KeepsOrder(j, n)
    PROVE  IInv'
<1>1. gone \subseteq Made /\ TypeOK BY DEF IInv, AllKnown
<1>2. StepOf(j, n) BY <1>1 DEF StepOf
<1>3. KeepsAccounts(j) BY DEF KeepsAccounts, Made
<1>5. KeepsRows(j) BY DEF KeepsRows
<1>6. \A p \in Posts : KnownNext(institution'.holder[p]) BY <1>3, KnownStays
<1>7. \A u \in Users \ Made : ~KnownNext(u) BY <1>1, NobodyNew, Unmade
<1>8. \A u \in gone' \ raced' : ~user'[u].active BY DEF IInv, GoneForGood
<1>9. TypeOK' BY <1>1, <1>2, TypesKept DEF TypeOK
<1> QED BY <1>2, <1>3, <1>5, <1>6, <1>7, <1>8, <1>9, StepKeeps

LEMMA PostStep ==
    ASSUME IInv, NEW j \in Jobs, NEW n, job' = [job EXCEPT ![j] = n], n \in Job \cup {NoJob},
           UNCHANGED <<user, worker, courier, gone>>, raced' = raced \cup Raced,
           loose \subseteq loose', loose' \subseteq Users, institution' \in Institution,
           \A p \in Posts : institution'.holder[p] \in Sources(j) \cap Known,
           None \notin raced' /\ institution.deleted => institution'.deleted,
           Follows(j, n), KeepsOrder(j, n)
    PROVE  IInv'
<1>1. KeepsPosts(j) BY DEF KeepsPosts
<1> QED BY <1>1, InstitutionStep

LEMMA DeleteCategoryKeeps ==
    ASSUME IInv, NEW j \in Jobs, DeleteCategory(j), raced' = raced \cup Raced
    PROVE  IInv'
<1>1. /\ TypeOK /\ job[j] = NoJob /\ job' = job /\ UNCHANGED <<user, worker, courier, gone>>
      /\ institution' = [institution EXCEPT !.deleted = TRUE]
      /\ loose' = loose \cup ({institution.holder[p] : p \in Posts} \ {None})
  BY DEF DeleteCategory, Free, IInv
<1>2. institution \in Institution BY <1>1 DEF TypeOK
<1>3. institution' \in Institution /\ institution'.holder = institution.holder /\ institution'.deleted
  BY <1>1, <1>2 DEF Institution
<1>4. job' = [job EXCEPT ![j] = NoJob] BY <1>1 DEF TypeOK
<1>5. \A p \in Posts : institution.holder[p] \in Users \cup {None} BY <1>2 DEF Institution
<1>6. loose \subseteq loose' /\ loose' \subseteq Users BY <1>1, <1>5 DEF TypeOK
<1>7. \A p \in Posts : institution'.holder[p] \in Sources(j) \cap Known
  BY <1>3 DEF Sources, IInv, AllKnown
<1>8. Follows(j, NoJob) BY DEF Follows
<1>9. KeepsOrder(j, NoJob)
  <2> SUFFICES ASSUME NEW u \in Made, StableNext(u)
               PROVE  \A p \in Posts : institution.holder[p] # u
    BY <1>1, <1>3 DEF KeepsOrder, Arrives
  <2> QED BY <1>1, Unmade DEF StableNext
<1> QED BY <1>1, <1>3, <1>4, <1>6, <1>7, <1>8, <1>9, PostStep

\* The institution a request has in memory, when it has not changed since.
LEMMA InMemory ==
    ASSUME IInv, NEW j \in Jobs, job[j] # NoJob, HasInstitution(job[j]), job[j].at # "write",
           None \notin raced
    PROVE  job[j].inst = institution
BY RequestFacts DEF Current

LEMMA ClearKeeps ==
    ASSUME IInv, NEW j \in Jobs, Clear(j), raced' = raced \cup Raced
    PROVE  IInv'
<1>1. PICK k : k = job[j] OBVIOUS
<1>2. /\ k.inst \in Institution /\ k.u \in Known /\ \A p \in Posts : k.inst.holder[p] \in Known
      /\ JobOK(k, gone) /\ k # NoJob /\ k.at = "clear"
  BY <1>1, RequestFacts DEF Clear, Is
<1>3. k.op \in {"drop", "dismiss"} BY <1>2 DEF JobOK
<1>4. /\ institution' = [k.inst EXCEPT !.holder = [@ EXCEPT !["institution_admin"] = None]]
      /\ loose' = IF k.op = "drop"
                  THEN loose \cup ({institution.holder["institution_admin"]} \ {None}) ELSE loose
      /\ job' = [job EXCEPT ![j] = NoJob] /\ UNCHANGED <<user, worker, courier, gone>>
  BY <1>1 DEF Clear, Place, Goes
<1>5. /\ institution' \in Institution /\ institution'.deleted = k.inst.deleted
      /\ institution'.holder["institution_admin"] = None
      /\ institution'.holder["institution_owner"] = k.inst.holder["institution_owner"]
  BY <1>2, <1>4 DEF Institution, Posts
<1>6. loose \subseteq loose' /\ loose' \subseteq Users
  BY <1>4 DEF IInv, TypeOK, Institution, Posts
<1>7. \A p \in Posts : institution'.holder[p] \in Sources(j) \cap Known
  <2>1. None \in Known /\ None \in Sources(j) BY DEF Known, Sources
  <2>2. \A p \in Posts : k.inst.holder[p] \in Sources(j) BY <1>1, <1>2 DEF Sources
  <2> QED BY <1>2, <1>5, <2>1, <2>2 DEF Posts
<1>8. None \notin raced => k.inst = institution BY <1>1, <1>2, <1>3, InMemory DEF HasInstitution
<1>9. Follows(j, NoJob) BY DEF Follows
<1>10. ASSUME NEW u \in Made, StableNext(u)
       PROVE  /\ Stable(u) /\ k.inst = institution /\ u # None
              /\ u \in gone => ~user[u].active
              /\ \A p \in Posts : institution.holder[p] = u => user[u].type = p
  <2>1. Stable(u) BY <1>6, <1>10 DEF StableNext, Stable
  <2>2. Standing(u) BY <2>1 DEF IInv, InOrder
  <2> QED BY <1>8, <2>1, <2>2, Unmade DEF Stable, IInv, GoneForGood, Standing, Holds
<1>11. KeepsOrder(j, NoJob)
  <2> SUFFICES ASSUME NEW u \in Made, StableNext(u), NEW p \in Posts
               PROVE  /\ institution.holder[p] = u /\ user[u].active => institution'.holder[p] = u
                      /\ institution'.holder[p] = u => institution.holder[p] = u
                      /\ institution'.holder[p] = u => ~Dismisses(k, u)
                      /\ institution'.deleted = institution.deleted
                      /\ ~Closes(k, u, p)
    <3>1. \A u : ~Arrives(k, u) BY <1>2 DEF Arrives, Linking
    <3> QED BY <1>1, <1>4, <3>1 DEF KeepsOrder
  <2>1. k.inst = institution /\ u # None BY <1>10
  <2>2. institution.holder[p] = u /\ user[u].active => institution'.holder[p] = u
    <3> SUFFICES ASSUME institution.holder["institution_admin"] = u, user[u].active PROVE FALSE
      BY <1>5, <2>1 DEF Posts
    <3>1. CASE k.op = "drop" BY <1>4, <2>1, <3>1 DEF StableNext
    <3>2. CASE k.op = "dismiss"
      <4>1. u \in gone BY <1>2, <2>1, <3>2 DEF JobOK
      <4> QED BY <1>10, <4>1
    <3> QED BY <1>3, <3>1, <3>2
  <2>3. institution'.holder[p] = u => institution.holder[p] = u BY <1>5, <2>1 DEF Posts
  <2>4. institution'.holder[p] = u => ~Dismisses(k, u)
    <3> SUFFICES ASSUME institution'.holder[p] = u, k.op = "dismiss", k.u = u PROVE FALSE
      BY DEF Dismisses
    <3>1. institution.holder["institution_admin"] = u BY <1>2, <2>1 DEF JobOK
    <3>2. institution.holder["institution_owner"] = u BY <1>5, <2>1 DEF Posts
    <3> QED BY <1>10, <3>1, <3>2 DEF Posts
  <2>5. ~Closes(k, u, p) BY <1>2 DEF Closes
  <2> QED BY <1>5, <2>1, <2>2, <2>3, <2>4, <2>5
<1>12. None \notin raced' /\ institution.deleted => institution'.deleted BY <1>5, <1>8
<1> QED BY <1>4, <1>5, <1>6, <1>7, <1>9, <1>11, <1>12, PostStep

LEMMA CloseKeeps ==
    ASSUME IInv, NEW j \in Jobs, Close(j), raced' = raced \cup Raced
    PROVE  IInv'
<1>1. PICK k : k = job[j] OBVIOUS
<1>2. /\ k \in Job /\ k.inst \in Institution /\ k.u \in Known
      /\ \A p \in Posts : k.inst.holder[p] \in Known
      /\ JobOK(k, gone) /\ k # NoJob /\ k.at = "close"
  BY <1>1, RequestFacts DEF Close, Is
<1>3. k.op = "close" /\ k.post = "institution_admin" BY <1>2 DEF JobOK
<1>4. PICK n : n = [k EXCEPT !.at = "fetch"] OBVIOUS
<1>5. /\ n \in Job /\ n.op = "close" /\ n.at = "fetch" /\ n.u = k.u /\ n.inst = k.inst
      /\ n.post = "institution_admin"
  BY <1>2, <1>3, <1>4 DEF Job, Stages
<1>6. /\ institution' = [k.inst EXCEPT !.deleted = TRUE]
      /\ job' = [job EXCEPT ![j] = n] /\ UNCHANGED <<user, worker, courier, gone, loose>>
  BY <1>1, <1>4 DEF Close, Goes
<1>7. institution' \in Institution /\ institution'.holder = k.inst.holder /\ institution'.deleted
  BY <1>2, <1>6 DEF Institution
<1>8. \A p \in Posts : institution'.holder[p] \in Sources(j) \cap Known
  BY <1>1, <1>2, <1>7 DEF Sources
<1>9. None \notin raced => k.inst = institution BY <1>1, <1>2, InMemory DEF HasInstitution
<1>10. n # NoJob BY <1>5, SentinelAssumption
<1>11. Follows(j, n)
  <2>1. JobOK(n, gone) /\ Fresh(n, user, raced') BY <1>5 DEF JobOK, Fresh
  <2>2. Current(n, institution', raced') BY <1>5, <1>7 DEF Current, HasInstitution
  <2>3. KnownNext(n.u) BY <1>2, <1>5, <1>6, Unmade DEF KnownNext, Known, Made, IInv
  <2> QED BY <1>1, <1>2, <1>5, <1>6, <2>1, <2>2, <2>3 DEF Follows
<1>12. KeepsOrder(j, n)
  <2> SUFFICES ASSUME NEW u \in Made, StableNext(u), NEW p \in Posts
               PROVE  /\ institution'.holder[p] = institution.holder[p] /\ institution'.deleted
                      /\ institution'.holder[p] = u => Closes(n, u, p)
    <3>1. \A u : ~Arrives(k, u) BY <1>2 DEF Arrives, Linking
    <3> QED BY <1>1, <1>6, <3>1 DEF KeepsOrder
  <2>1. k.inst = institution BY <1>9 DEF StableNext
  <2>2. institution'.holder[p] = u => Closes(n, u, p) BY <1>5, <1>7, <1>10 DEF Closes
  <2> QED BY <1>7, <2>1, <2>2
<1>13. loose \subseteq loose' /\ loose' \subseteq Users BY <1>6 DEF IInv, TypeOK
<1> QED BY <1>5, <1>6, <1>7, <1>8, <1>11, <1>12, <1>13, PostStep

LEMMA SaveInstitutionKeeps ==
    ASSUME IInv, NEW j \in Jobs, SaveInstitution(j), raced' = raced \cup Raced
    PROVE  IInv'
<1>1. PICK k : k = job[j] OBVIOUS
<1>2. /\ k.inst \in Institution /\ \A p \in Posts : k.inst.holder[p] \in Known
      /\ JobOK(k, gone) /\ Current(k, institution, raced) /\ k # NoJob /\ k.at = "write"
  BY <1>1, RequestFacts DEF SaveInstitution, Is
<1>3. /\ institution' = k.inst /\ job' = [job EXCEPT ![j] = NoJob]
      /\ loose' = loose \cup Unsettled(k.inst.holder)
      /\ UNCHANGED <<user, worker, courier, gone>>
  BY <1>1 DEF SaveInstitution, Goes
<1>4. ~institution'.deleted /\ (None \notin raced => ~institution.deleted)
  BY <1>2, <1>3 DEF JobOK, Current, HasInstitution
<1>5. ASSUME NEW u \in Users, StableNext(u), NEW p \in Posts,
             institution'.holder[p] # institution.holder[p]
      PROVE  /\ u # institution.holder[p]
             /\ u = institution'.holder[p] => user[u].type = p /\ user[u].active
  BY <1>3, <1>5 DEF Unsettled, StableNext
<1>6. KeepsPosts(j)
  <2>1. ASSUME NEW p \in Posts PROVE Fits(p)
    <3> SUFFICES ASSUME NEW u \in Users, u = institution'.holder[p], StableNext(u),
                        institution'.holder[p] # institution.holder[p]
                 PROVE  user[u].type = p
      BY DEF Fits, StableNext
    <3> QED BY <1>5
  <2>2. None \notin raced' => ~institution.deleted BY <1>4
  <2> QED BY <1>3, <2>1, <2>2 DEF KeepsPosts
<1>7. KeepsOrder(j, NoJob)
  <2>1. \A u, p : ~Closes(k, u, p) /\ ~Dismisses(k, u) /\ ~Arrives(k, u)
    BY <1>2 DEF Closes, Dismisses, Arrives, Linking
  <2>2. ASSUME NEW u \in Made, StableNext(u), NEW p \in Posts
        PROVE  /\ institution.holder[p] = u => institution'.holder[p] = u
               /\ institution'.holder[p] = u /\ institution.holder[p] # u =>
                    user[u].type = p /\ user[u].active
    <3>1. u \in Users BY <2>2 DEF StableNext
    <3> QED BY <1>5, <2>2, <3>1
  <2> QED BY <1>1, <1>3, <1>4, <2>1, <2>2 DEF KeepsOrder
<1>8. Follows(j, NoJob) BY DEF Follows
<1>9. loose \subseteq loose' /\ loose' \subseteq Users BY <1>3 DEF IInv, TypeOK, Unsettled
<1> QED BY <1>2, <1>3, <1>6, <1>7, <1>8, <1>9, InstitutionStep

LEMMA FirstIsFree ==
    ASSUME Users # Made
    PROVE  First(Users \ Made) \in Users \ Made
<1> DEFINE S == Users \ Made
           R == OpToRel(<, Nat)
<1>1. S \subseteq Nat /\ S # {} BY AccountsAssumption DEF Made
<1>2. IsWellFoundedOn(R, Nat) BY NatLessThanWellFounded
<1>3. \A x, y \in Nat : y < x => <<y, x>> \in R BY DEF OpToRel
<1> HIDE DEF R, S
<1>4. \E x \in S : \A y \in S : ~(<<y, x>> \in R) BY ONLY <1>1, <1>2, WFMin
<1>6. \E x \in S : \A y \in S : x <= y
  <2>1. PICK x \in S : \A y \in S : ~(<<y, x>> \in R) BY <1>4
  <2>2. \A y \in S : x \in Nat /\ y \in Nat BY <1>1, <2>1
  <2>3. \A y \in S : ~(y < x) BY <1>3, <2>1, <2>2
  <2> QED BY <2>1, <2>2, <2>3
<1>5. First(S) \in S BY ONLY <1>6 DEF First
<1> QED BY <1>5 DEF S

\* A step that makes the account a, and whose institution is the one in memory.
LEMMA InsertKeeps ==
    ASSUME IInv, NEW j \in Jobs, Insert(j), raced' = raced \cup Raced
    PROVE  IInv'
<1>1. PICK k : k = job[j] OBVIOUS
<1>2. /\ k \in Job /\ k.row \in Account /\ k.inst \in Institution /\ k.post \in Posts
      /\ \A p \in Posts : k.inst.holder[p] \in Known
      /\ JobOK(k, gone) /\ Current(k, institution, raced) /\ k # NoJob /\ k.at = "insert" /\ TypeOK
  BY <1>1, RequestFacts DEF Insert, Is, IInv
<1>3. Inserts(k) BY <1>2 DEF JobOK
<1>4. UNCHANGED <<institution, worker, courier, gone, loose>> BY DEF Insert
<1>5. CASE Refused(None, k.row.phone)
  <2>1. job' = [job EXCEPT ![j] = NoJob] /\ user' = user BY <1>1, <1>5 DEF Insert, Goes
  <2> QED BY <1>1, <1>2, <1>4, <2>1, EarlyEnds
<1>6. CASE ~Refused(None, k.row.phone)
  <2>1. PICK a : a = First(Users \ Made) OBVIOUS
  <2>2. /\ Users # Made /\ user' = [user EXCEPT ![a] = k.row]
        /\ job' = [job EXCEPT ![j] =
             CASE k.op = "register" -> [k EXCEPT !.u = a, !.at = "otp"]
               [] k.op = "create"   -> NoJob
               [] OTHER             -> [k EXCEPT !.u = a, !.at = "link"]]
    BY <1>1, <1>6, <2>1 DEF Insert
  <2>3. a \in Users /\ a \notin Made /\ a # None /\ None \notin Users BY <1>2, <2>1, <2>2, FirstIsFree, Unmade
  <2>4. /\ user' \in [Users -> Account] /\ user'[a] = k.row
        /\ \A v \in Users : v # a => user'[v] = user[v]
    BY <1>2, <2>2, <2>3 DEF TypeOK
  <2>5. PICK n : n = CASE k.op = "register" -> [k EXCEPT !.u = a, !.at = "otp"]
                       [] k.op = "create"   -> NoJob
                       [] OTHER             -> [k EXCEPT !.u = a, !.at = "link"]
    OBVIOUS
  <2>6. k.op \in {"register", "create", "worker", "courier", "panel"} /\ k.row.active /\ k.row.type # "none"
    BY <1>3 DEF Inserts
  <2>7. k.op = "create" => n = NoJob BY <2>5
  <2>8. k.op # "create" =>
          /\ n \in Job /\ n.op = k.op /\ n.u = a /\ n.inst = k.inst /\ n.row = k.row
          /\ n.at = IF k.op = "register" THEN "otp" ELSE "link"
    <3>1. CASE k.op = "register" BY <1>2, <2>3, <2>5, <3>1 DEF Job, Stages
    <3>2. CASE k.op \in {"worker", "courier", "panel"} BY <1>2, <2>3, <2>5, <3>2 DEF Job, Stages
    <3> QED BY <2>6, <3>1, <3>2
  <2>9. gone \subseteq Made /\ worker \subseteq Made /\ \A p \in Posts : institution.holder[p] \in Known
    BY DEF IInv, AllKnown
  <2>10. StepOf(j, n) BY <1>4, <2>2, <2>5, <2>6, <2>7, <2>8, <2>9 DEF StepOf
  <2>11. KeepsAccounts(j)
    <3>1. \A v \in Made : user'[v] = user[v] /\ user[v].type # "none" BY <2>3, <2>4 DEF Made
    <3> QED BY <3>1 DEF KeepsAccounts
  <2>12. KeepsPosts(j) BY <1>4 DEF KeepsPosts, Sources
  <2>13. KeepsRows(j)
    <3>1. \A v \in Users : user'[v].type = "none" => user'[v] = user[v] BY <2>4, <2>6
    <3> QED BY <1>4, <3>1 DEF KeepsRows
  <2>14. Follows(j, n)
    <3> SUFFICES ASSUME k.op # "create" PROVE Follows(j, n) BY <2>7 DEF Follows
    <3>1. JobOK(n, gone) BY <2>3, <2>6, <2>8 DEF JobOK
    <3>2. Fresh(n, user', raced') BY <2>8 DEF Fresh
    <3>3. Current(n, institution', raced')
      <4>1. HasInstitution(n) => HasInstitution(k) BY <1>2, <2>6, <2>8 DEF HasInstitution
      <4>2. n.op # "close" /\ n.inst = k.inst BY <2>6, <2>8
      <4>3. None \notin raced' => None \notin raced OBVIOUS
      <4> QED BY <1>2, <1>4, <4>1, <4>2, <4>3 DEF Current
    <3>4. KnownNext(n.u) BY <2>3, <2>4, <2>6, <2>8 DEF KnownNext
    <3>5. n.at = "link" =>
            /\ n.u \in Users \ Made /\ institution' = institution /\ worker' = worker
            /\ user'[n.u].active
            /\ n.op = "worker" => user'[n.u].type = "institution_worker"
            /\ n.op = "panel" => user'[n.u].type = "institution_admin"
      BY <1>3, <1>4, <2>3, <2>4, <2>6, <2>8 DEF Inserts
    <3>6. JobOK(n, gone') BY <1>4, <3>1
    <3>7. job[j] # NoJob /\ job[j].at # "write" /\ n.inst = job[j].inst BY <1>1, <1>2, <2>8
    <3> QED BY ONLY <3>2, <3>3, <3>4, <3>5, <3>6, <3>7 DEF Follows
  <2>15. KeepsOrder(j, n)
    <3>1. \A u, p : ~Closes(k, u, p) /\ ~Dismisses(k, u) /\ ~Arrives(k, u)
      BY <1>2 DEF Closes, Dismisses, Arrives, Linking
    <3>2. \A v \in Made : user'[v] = user[v] BY <2>3, <2>4 DEF Made
    <3> QED BY <1>1, <1>4, <3>1, <3>2 DEF KeepsOrder
  <2>16. \A p \in Posts : KnownNext(institution'.holder[p]) BY <1>4, <2>11, KnownStays
  <2>17. ASSUME NEW u \in Users \ Made, StableNext(u), KnownNext(u) PROVE Standing(u)'
    <3>1. u = a BY <2>3, <2>4, <2>17, NobodyNew
    <3>2. Found(a)'
      <4> SUFFICES ASSUME k.row.type \in Staff PROVE \E i \in Jobs : Arrives(job'[i], a)
        BY <2>4 DEF Found
      <4>1. k.op \in {"worker", "panel"} BY <1>3 DEF Inserts
      <4>2. job'[j] = n /\ n # NoJob
        BY <1>2, <2>2, <2>5, <2>8, <4>1, SentinelAssumption DEF TypeOK
      <4> QED BY <2>8, <4>1, <4>2 DEF Arrives, Linking
    <3>3. ASSUME NEW p \in Posts PROVE Holds(a, p)' BY <1>4, <2>3, <2>9 DEF Holds, Known
    <3>4. Works(a)' BY <1>4, <2>3, <2>9 DEF Works
    <3> QED BY <3>1, <3>2, <3>3, <3>4 DEF Standing
  <2>18. \A u \in gone' \ raced' : ~user'[u].active
    <3>1. \A v \in Made : user'[v] = user[v] BY <2>3, <2>4 DEF Made
    <3> QED BY <1>4, <2>9, <3>1 DEF IInv, GoneForGood
  <2>19. TypeOK' BY <1>2, <1>4, <2>4, <2>10, TypesKept DEF TypeOK
  <2> QED BY <2>10, <2>11, <2>12, <2>13, <2>14, <2>15, <2>16, <2>17, <2>18, <2>19, StepKeeps
<1> QED BY <1>5, <1>6

LEMMA AppointKeeps ==
    ASSUME IInv, NEW j \in Jobs, Appoint(j), raced' = raced \cup Raced
    PROVE  IInv'
<1>1. PICK k : k = job[j] OBVIOUS
<1>2. /\ k.row \in Account /\ k.inst \in Institution /\ k.post \in Posts
      /\ \A p \in Posts : k.inst.holder[p] \in Known
      /\ JobOK(k, gone) /\ k # NoJob /\ k.at = "appoint" /\ TypeOK
  BY <1>1, RequestFacts DEF Appoint, Is, IInv
<1>3. /\ ~k.inst.deleted /\ k.row.type = k.post /\ k.row.active BY <1>2 DEF JobOK
<1>4. job' = [job EXCEPT ![j] = NoJob] /\ UNCHANGED <<worker, courier, gone>> BY DEF Appoint, Goes
<1>5. CASE Refused(None, k.row.phone)
  <2>1. UNCHANGED <<user, institution, loose>> BY <1>1, <1>5 DEF Appoint
  <2> QED BY <1>1, <1>2, <1>4, <2>1, EarlyEnds
<1>6. CASE ~Refused(None, k.row.phone)
  <2>1. PICK a : a = First(Users \ Made) OBVIOUS
  <2>2. /\ Users # Made /\ user' = [user EXCEPT ![a] = k.row]
        /\ institution' = [k.inst EXCEPT !.holder = [@ EXCEPT ![k.post] = a]]
        /\ loose' = loose \cup ({institution.holder[k.post]} \ {None})
    BY <1>1, <1>6, <2>1 DEF Appoint, Place
  <2>3. a \in Users /\ a \notin Made /\ a # None /\ None \notin Users BY <1>2, <2>1, <2>2, FirstIsFree, Unmade
  <2>4. /\ user' \in [Users -> Account] /\ user'[a] = k.row
        /\ \A v \in Users : v # a => user'[v] = user[v]
    BY <1>2, <2>2, <2>3 DEF TypeOK
  <2>5. /\ institution' \in Institution /\ ~institution'.deleted /\ institution'.holder[k.post] = a
        /\ \A p \in Posts : p # k.post => institution'.holder[p] = k.inst.holder[p]
    BY <1>2, <1>3, <2>2, <2>3 DEF Institution
  <2>6. gone \subseteq Made /\ worker \subseteq Made /\ \A p \in Posts : institution.holder[p] \in Known
    BY DEF IInv, AllKnown
  <2>7. loose \subseteq loose' /\ loose' \subseteq Users BY <1>2, <2>2 DEF TypeOK, Institution
  <2>8. StepOf(j, NoJob) BY <1>4, <2>6, <2>7 DEF StepOf
  <2>9. None \notin raced => k.inst = institution BY <1>1, <1>2, InMemory DEF HasInstitution
  <2>10. \A v \in Made : user'[v] = user[v] /\ user[v].type # "none" BY <2>3, <2>4 DEF Made
  <2>11. KeepsAccounts(j) BY <2>10 DEF KeepsAccounts
  <2>12. KeepsPosts(j)
    <3>1. \A p \in Posts : k.inst.holder[p] \in Sources(j) BY <1>1, <1>2 DEF Sources
    <3>2. a \in Sources(j) BY <2>3 DEF Sources
    <3>3. \A p \in Posts : institution'.holder[p] \in Sources(j) BY <2>5, <3>1, <3>2
    <3>4. None \notin raced' /\ institution.deleted => institution'.deleted BY <1>3, <2>9
    <3> QED BY <1>4, <3>3, <3>4 DEF KeepsPosts
  <2>13. KeepsRows(j)
    <3>1. k.row.type # "none" BY <1>2, <1>3 DEF Posts
    <3>2. \A v \in Users : user'[v].type = "none" => user'[v] = user[v] BY <2>4, <3>1
    <3> QED BY <1>4, <3>2 DEF KeepsRows
  <2>14. Follows(j, NoJob) BY DEF Follows
  <2>15. KeepsOrder(j, NoJob)
    <3>1. \A u, p : ~Closes(k, u, p) /\ ~Dismisses(k, u) /\ ~Arrives(k, u)
      BY <1>2 DEF Closes, Dismisses, Arrives, Linking
    <3>2. ASSUME NEW u \in Made, StableNext(u), NEW p \in Posts
          PROVE  institution.holder[p] = u <=> institution'.holder[p] = u
      <4>1. k.inst = institution /\ u # None BY <2>3, <2>9, <3>2 DEF StableNext
      <4>2. institution.holder[k.post] # u BY <2>2, <3>2, <4>1 DEF StableNext
      <4> QED BY <2>3, <2>5, <4>1, <4>2
    <3> QED BY <1>1, <1>4, <2>5, <2>10, <3>1, <3>2 DEF KeepsOrder
  <2>16. \A p \in Posts : KnownNext(institution'.holder[p])
    <3>1. KnownNext(a) BY <1>2, <1>3, <2>3, <2>4 DEF KnownNext, Posts
    <3> QED BY <1>2, <2>5, <2>11, <3>1, KnownStays
  <2>17. ASSUME NEW u \in Users \ Made, StableNext(u), KnownNext(u) PROVE Standing(u)'
    <3>1. u = a BY <2>3, <2>4, <2>17, NobodyNew
    <3>2. Found(a)' BY <1>2, <1>3, <2>4, <2>5 DEF Found, Finds, Posts
    <3>3. ASSUME NEW p \in Posts PROVE Holds(a, p)'
      <4>1. \A q \in Posts : k.inst.holder[q] # a BY <1>2, <2>3 DEF Known
      <4>2. institution'.holder[p] = a => p = k.post BY <2>5, <4>1
      <4> QED BY <1>3, <2>4, <2>5, <4>2 DEF Holds
    <3>4. Works(a)' BY <1>4, <2>3, <2>6 DEF Works
    <3> QED BY <3>1, <3>2, <3>3, <3>4 DEF Standing
  <2>18. \A u \in gone' \ raced' : ~user'[u].active BY <1>4, <2>6, <2>10 DEF IInv, GoneForGood
  <2>19. TypeOK' BY <1>2, <1>4, <2>4, <2>5, <2>7, <2>8, TypesKept DEF TypeOK
  <2> QED BY <2>8, <2>11, <2>12, <2>13, <2>14, <2>15, <2>16, <2>17, <2>18, <2>19, StepKeeps
<1> QED BY <1>5, <1>6

LEMMA LinkKeeps ==
    ASSUME IInv, NEW j \in Jobs, Link(j), raced' = raced \cup Raced
    PROVE  IInv'
<1>1. PICK k : k = job[j] OBVIOUS
<1>2. /\ k.inst \in Institution /\ k.u \in Known /\ k.u \in Users \cup {None}
      /\ \A p \in Posts : k.inst.holder[p] \in Known
      /\ JobOK(k, gone) /\ k # NoJob /\ k.at = "link" /\ TypeOK
  BY <1>1, RequestFacts DEF Link, Is, IInv
<1>3. k.op \in {"worker", "courier", "panel"} /\ k.u # None BY <1>2 DEF JobOK
<1>4. PICK a : a = k.u OBVIOUS
<1>5. a \in Made /\ a \in Users /\ a # None /\ None \notin Users
  BY <1>2, <1>3, <1>4, Unmade DEF Known
<1>6. /\ job' = [job EXCEPT ![j] = NoJob] /\ UNCHANGED <<user, gone>>
      /\ worker' = IF k.op = "worker" THEN worker \cup {a} ELSE worker
      /\ courier' = IF k.op = "courier" THEN courier \cup {a} ELSE courier
      /\ k.op # "panel" => institution' = institution /\ loose' = loose
      /\ k.op = "panel" =>
           /\ institution' = [k.inst EXCEPT !.holder = [@ EXCEPT !["institution_admin"] = a]]
           /\ loose' = loose \cup ({institution.holder["institution_admin"]} \ {None})
                             \cup (IF institution.deleted THEN {a} ELSE {})
  BY <1>1, <1>4 DEF Link, Goes, Place
<1>7. k.op = "panel" =>
        /\ institution' \in Institution /\ institution'.holder["institution_admin"] = a
        /\ institution'.holder["institution_owner"] = k.inst.holder["institution_owner"]
        /\ institution'.deleted = k.inst.deleted
  BY <1>2, <1>5, <1>6 DEF Institution, Posts
<1>8. institution' \in Institution /\ loose \subseteq loose' /\ loose' \subseteq Users
      /\ worker' \subseteq Users /\ gone \subseteq Made
  <2>1. institution.holder["institution_admin"] \in Users \cup {None} BY <1>2 DEF TypeOK, Institution, Posts
  <2> QED BY <1>2, <1>5, <1>6, <1>7, <2>1 DEF TypeOK, IInv, AllKnown
<1>9. StepOf(j, NoJob) BY <1>6, <1>8 DEF StepOf
<1>10. k.op = "panel" /\ None \notin raced => k.inst = institution BY <1>1, <1>2, InMemory DEF HasInstitution
<1>11. KeepsAccounts(j) BY <1>6 DEF KeepsAccounts, Made
<1>12. \A p \in Posts : institution'.holder[p] \in Sources(j) \cap Known
  <2>1. \A p \in Posts : k.inst.holder[p] \in Sources(j) BY <1>1, <1>2 DEF Sources
  <2>2. k.op = "panel" => a \in Sources(j) BY <1>1, <1>2, <1>4 DEF Sources, Linking
  <2>3. a \in Known BY <1>2, <1>4
  <2>4. \A p \in Posts : institution.holder[p] \in Sources(j) \cap Known BY DEF Sources, IInv, AllKnown
  <2>5. CASE k.op = "panel" BY <1>2, <1>7, <2>1, <2>2, <2>3, <2>5 DEF Posts
  <2>6. CASE k.op # "panel" BY <1>6, <2>4, <2>6
  <2> QED BY <2>5, <2>6
<1>13. KeepsPosts(j)
  <2>1. None \notin raced' /\ institution.deleted => institution'.deleted BY <1>6, <1>7, <1>10
  <2>2. worker' = worker \/ (job[j] # NoJob /\ Linking(job[j]) /\ worker' = worker \cup {job[j].u})
    BY <1>1, <1>2, <1>4, <1>6 DEF Linking
  <2> QED BY <1>12, <2>1, <2>2 DEF KeepsPosts
<1>14. KeepsRows(j) BY <1>1, <1>2, <1>4, <1>6 DEF KeepsRows
<1>15. Follows(j, NoJob) BY DEF Follows
<1>16. ASSUME StableNext(a), k.op \in {"worker", "panel"}
       PROVE  /\ user[a].active
              /\ k.op = "worker" => user[a].type = "institution_worker"
              /\ k.op = "panel" => user[a].type = "institution_admin"
  <2>1. Stable(a) BY <1>9, <1>16, StableBefore
  <2>2. Newcomer(j) BY <1>1, <1>2 DEF IInv, RequestsOK
  <2> QED BY <1>1, <1>2, <1>4, <1>16, <2>1, <2>2 DEF Newcomer, Linking
<1>17. KeepsOrder(j, NoJob)
  <2>1. \A u, p : ~Closes(k, u, p) /\ ~Dismisses(k, u) BY <1>2 DEF Closes, Dismisses
  <2>2. ASSUME NEW u \in Made, StableNext(u), NEW p \in Posts
        PROVE  /\ institution'.deleted = institution.deleted
               /\ institution.holder[p] = u => institution'.holder[p] = u
               /\ institution'.holder[p] = u /\ institution.holder[p] # u =>
                    user[u].type = p /\ user[u].active /\ ~institution'.deleted
    <3>1. CASE k.op # "panel" BY <1>6, <3>1
    <3>2. CASE k.op = "panel"
      <4>1. k.inst = institution /\ u # None /\ u \notin loose' BY <1>5, <1>10, <2>2, <3>2 DEF StableNext
      <4>2. institution.holder["institution_admin"] # u BY <1>6, <3>2, <4>1
      <4>3. CASE p = "institution_owner" BY <1>7, <3>2, <4>1, <4>3
      <4>4. CASE p = "institution_admin"
        <5>1. u = a => user[u].type = p /\ user[u].active /\ ~institution.deleted
          BY <1>6, <1>16, <2>2, <3>2, <4>1, <4>4
        <5> QED BY <1>7, <3>2, <4>1, <4>2, <4>4, <5>1
      <4> QED BY <4>3, <4>4 DEF Posts
    <3> QED BY <3>1, <3>2
  <2>3. ASSUME NEW u \in Made, StableNext(u), Arrives(k, u) PROVE Finds(u)'
    <3>1. u = a /\ k.op \in {"worker", "panel"} BY <1>4, <2>3 DEF Arrives, Linking
    <3> QED BY <1>6, <1>7, <1>16, <2>3, <3>1 DEF Finds
  <2>4. ASSUME NEW u \in Made, StableNext(u), u \in worker', u \notin worker
        PROVE  user[u].active /\ user[u].type = "institution_worker"
    BY <1>6, <1>16, <2>4
  <2> QED BY <1>1, <1>6, <2>1, <2>2, <2>3, <2>4 DEF KeepsOrder
<1>18. \A p \in Posts : KnownNext(institution'.holder[p]) BY <1>11, <1>12, KnownStays
<1>19. \A u \in Users \ Made : ~KnownNext(u) BY <1>5, <1>6, NobodyNew
<1>20. \A u \in gone' \ raced' : ~user'[u].active BY <1>6 DEF IInv, GoneForGood
<1>21. TypeOK' BY <1>2, <1>6, <1>8, <1>9, TypesKept DEF TypeOK
<1> QED BY <1>9, <1>11, <1>13, <1>14, <1>15, <1>17, <1>18, <1>19, <1>20, <1>21, StepKeeps

LEMMA SaveKeeps ==
    ASSUME IInv, NEW j \in Jobs, Save(j), raced' = raced \cup Raced
    PROVE  IInv'
<1>1. PICK k : k = job[j] OBVIOUS
<1>2. /\ k \in Job /\ k.row \in Account /\ k.inst \in Institution /\ k.post \in Posts /\ k.u \in Known
      /\ \A p \in Posts : k.inst.holder[p] \in Known
      /\ JobOK(k, gone) /\ Fresh(k, user, raced) /\ Current(k, institution, raced)
      /\ k # NoJob /\ k.at = "save" /\ TypeOK
  BY <1>1, RequestFacts DEF Save, Is, IInv
<1>3. PICK a : a = k.u OBVIOUS
<1>4. /\ a # None /\ k.op \in {"edit", "delete", "courier", "dismiss", "close"} /\ k.row.type # "none"
      /\ k.op \in {"delete", "dismiss", "close"} => k.row.phone = None /\ ~k.row.active
      /\ k.op = "close" => a = k.inst.holder[k.post]
      /\ k.op = "dismiss" => a = k.inst.holder["institution_admin"] /\ ~k.inst.deleted
  BY <1>2, <1>3 DEF JobOK, Saves
<1>5. a \in Made /\ a \in Users /\ None \notin Users /\ Made \subseteq Users
  BY <1>2, <1>3, <1>4, Unmade DEF Known
<1>6. UNCHANGED <<institution, worker, courier>> BY DEF Save
<1>7. CASE Refused(a, k.row.phone)
  <2>1. k.op # "close"
    <3>1. k.row.phone # None BY <1>7 DEF Refused, Having
    <3> QED BY <1>4, <3>1
  <2>2. job' = [job EXCEPT ![j] = NoJob] /\ UNCHANGED <<user, gone, loose>>
    BY <1>1, <1>3, <1>7 DEF Save, Goes
  <2> QED BY <1>1, <1>2, <1>6, <2>1, <2>2, EarlyEnds
<1>8. CASE ~Refused(a, k.row.phone)
  <2>1. PICK n : n = AfterSave(k) OBVIOUS
  <2>2. /\ user' = [user EXCEPT ![a] = k.row]
        /\ gone' = IF k.op \in {"delete", "dismiss", "close"} THEN gone \cup {a} ELSE gone
        /\ loose' = IF \/ k.op = "delete" \/ k.row.type # user[a].type
                       \/ k.op = "edit" /\ k.row.active # user[a].active
                    THEN loose \cup {a} ELSE loose
        /\ job' = [job EXCEPT ![j] = n]
    BY <1>1, <1>3, <1>8, <2>1 DEF Save
  <2>3. /\ user' \in [Users -> Account] /\ user'[a] = k.row
        /\ \A v \in Users : v # a => user'[v] = user[v]
    BY <1>2, <1>5, <2>2 DEF TypeOK
  <2>4. k.op = "dismiss" =>
          /\ n \in Job /\ n.op = "dismiss" /\ n.at = "again" /\ n.u = a /\ n.row = k.row /\ n.inst = k.inst
    BY <1>2, <1>3, <2>1 DEF AfterSave, Job, Stages
  <2>5. k.op = "close" /\ k.post = "institution_admin" =>
          /\ n \in Job /\ n.op = "close" /\ n.at = "fetch" /\ n.u = a /\ n.inst = k.inst
          /\ n.post = "institution_owner"
    BY <1>2, <1>3, <2>1 DEF AfterSave, Job, Stages, Posts
  <2>6. k.op # "dismiss" /\ ~(k.op = "close" /\ k.post = "institution_admin") => n = NoJob
    BY <2>1 DEF AfterSave
  <2>7. gone \subseteq Made /\ worker \subseteq Made BY DEF IInv, AllKnown
  <2>8. loose \subseteq loose' /\ loose' \subseteq Users BY <1>2, <1>5, <2>2 DEF TypeOK
  <2>9. StepOf(j, n)
    <3>1. n \in Job \cup {NoJob} BY <2>4, <2>5, <2>6
    <3>2. gone \subseteq gone' /\ gone' \subseteq Made BY <1>5, <2>2, <2>7
    <3> QED BY <2>2, <2>8, <3>1, <3>2 DEF StepOf
  <2>10. ASSUME StableNext(a)
         PROVE  /\ k.op # "delete" /\ k.row.type = user[a].type
                /\ k.op \in {"edit", "courier"} => k.row.active = user[a].active
                /\ Stable(a)
    <3>1. Stable(a) BY <2>9, <2>10, StableBefore
    <3>2. /\ k.op # "delete" /\ k.row.type = user[a].type
          /\ k.op = "edit" => k.row.active = user[a].active
      BY <2>2, <2>10 DEF StableNext
    <3>3. k.u \notin raced BY <1>3, <3>1 DEF Stable
    <3> QED BY <1>2, <1>3, <3>1, <3>2, <3>3 DEF Fresh
  <2>11. KeepsAccounts(j)
    <3> SUFFICES ASSUME NEW v \in Made
                 PROVE  /\ user'[v].type # "none"
                        /\ StableNext(v) =>
                             /\ user'[v].type = user[v].type
                             /\ \/ user'[v].active = user[v].active
                                \/ ~user'[v].active /\ \E p \in Posts : k.inst.holder[p] = v
      BY <1>1, <1>2 DEF KeepsAccounts
    <3>1. CASE v # a BY <1>5, <2>3, <3>1 DEF Made
    <3>2. CASE v = a
      <4>1. k.op \in {"dismiss", "close"} => ~k.row.active /\ \E p \in Posts : k.inst.holder[p] = a
        BY <1>2, <1>4 DEF Posts
      <4> QED BY <1>4, <2>3, <2>10, <3>2, <4>1
    <3> QED BY <3>1, <3>2
  <2>12. KeepsPosts(j) BY <1>6 DEF KeepsPosts, Sources
  <2>13. KeepsRows(j)
    <3>1. \A v \in Users : user'[v].type = "none" => user'[v] = user[v] BY <1>4, <2>3
    <3> QED BY <1>6, <3>1 DEF KeepsRows
  <2>14. Follows(j, n)
    <3>1. KnownNext(a) BY <1>4, <1>5, <2>3 DEF KnownNext
    <3>2. None \notin raced' => None \notin raced OBVIOUS
    <3>3. CASE k.op = "dismiss"
      <4>1. a \in gone' BY <2>2, <3>3
      <4>2. JobOK(n, gone') BY <1>4, <2>4, <3>3, <4>1 DEF JobOK, Saves
      <4>3. Fresh(n, user', raced') BY <1>4, <2>3, <2>4, <3>3 DEF Fresh
      <4>4. Current(n, institution', raced')
        <5>1. HasInstitution(k) BY <1>2, <3>3 DEF HasInstitution
        <5> QED BY <1>2, <1>6, <2>4, <3>2, <3>3, <5>1 DEF Current
      <4>5. /\ n.u = a /\ n.at # "link" /\ n.inst = job[j].inst
            /\ job[j] # NoJob /\ job[j].at # "write"
        BY <1>1, <1>2, <2>4, <3>3
      <4> QED BY ONLY <3>1, <4>2, <4>3, <4>4, <4>5 DEF Follows
    <3>4. CASE k.op = "close" /\ k.post = "institution_admin"
      <4>1. JobOK(n, gone') BY <2>5, <3>4 DEF JobOK
      <4>2. Fresh(n, user', raced') BY <2>5, <3>4 DEF Fresh
      <4>3. Current(n, institution', raced')
        <5>1. None \notin raced => institution.deleted BY <1>2, <3>4 DEF Current
        <5>2. ~HasInstitution(n) BY <2>5, <3>4 DEF HasInstitution
        <5> QED BY <1>6, <3>2, <5>1, <5>2 DEF Current
      <4>4. /\ n.u = a /\ n.at # "link" /\ n.inst = job[j].inst
            /\ job[j] # NoJob /\ job[j].at # "write"
        BY <1>1, <1>2, <2>5, <3>4
      <4> QED BY ONLY <3>1, <4>1, <4>2, <4>3, <4>4 DEF Follows
    <3>5. CASE n = NoJob BY <3>5 DEF Follows
    <3> QED BY <2>6, <3>3, <3>4, <3>5
  <2>15. KeepsOrder(j, n)
    <3>1. \A u : ~Dismisses(k, u) /\ ~Arrives(k, u) BY <1>2 DEF Dismisses, Arrives, Linking
    <3>2. ASSUME NEW u \in Made, StableNext(u), NEW p \in Posts, user'[u].active, institution.deleted,
                 Closes(k, u, p)
          PROVE  Closes(n, u, p)
      <4>1. k.op = "close" /\ k.inst.holder[p] = u /\ (p = "institution_admin" => k.post = p)
        BY <3>2 DEF Closes
      <4>2. u # a BY <1>4, <2>3, <3>2, <4>1
      <4>3. p # k.post BY <1>4, <4>1, <4>2
      <4>4. p = "institution_owner" /\ k.post = "institution_admin" BY <1>2, <4>1, <4>3 DEF Posts
      <4>5. n # NoJob BY <2>5, <4>1, <4>4, SentinelAssumption
      <4> QED BY <2>5, <4>1, <4>4, <4>5 DEF Closes
    <3>3. ASSUME NEW u \in Made, StableNext(u), ~user'[u].active, user[u].active, ~institution.deleted
          PROVE  Dismisses(n, u)
      <4>1. u = a BY <1>5, <2>3, <3>3
      <4>2. k.op \in {"dismiss", "close"} BY <1>4, <2>3, <2>10, <3>3, <4>1
      <4>3. None \notin raced BY <3>3 DEF StableNext
      <4>4. k.op # "close" BY <1>2, <3>3, <4>3 DEF Current
      <4>5. n # NoJob BY <2>4, <4>2, <4>4, SentinelAssumption
      <4> QED BY <2>4, <4>1, <4>2, <4>4, <4>5 DEF Dismisses
    <3> QED BY <1>1, <1>6, <3>1, <3>2, <3>3 DEF KeepsOrder
  <2>16. \A p \in Posts : KnownNext(institution'.holder[p]) BY <1>6, <2>11, KnownStays
  <2>17. \A u \in Users \ Made : ~KnownNext(u) BY <1>5, <2>3, NobodyNew
  <2>18. ASSUME NEW v \in gone' \ raced' PROVE ~user'[v].active
    <3>1. CASE v # a BY <1>5, <2>2, <2>3, <2>7, <2>18, <3>1 DEF IInv, GoneForGood
    <3>2. CASE v = a
      <4> SUFFICES ASSUME k.row.active PROVE FALSE BY <2>3, <3>2
      <4>1. k.op \in {"edit", "courier"} BY <1>4
      <4>2. a \in gone BY <2>2, <2>18, <3>2, <4>1
      <4>3. a \notin raced BY <2>18, <3>2
      <4>4. user[a].active BY <1>2, <1>3, <4>3 DEF Fresh
      <4> QED BY <4>2, <4>3, <4>4 DEF IInv, GoneForGood
    <3> QED BY <3>1, <3>2
  <2>19. TypeOK' BY <1>2, <1>6, <2>3, <2>8, <2>9, TypesKept DEF TypeOK
  <2> QED BY <2>9, <2>11, <2>12, <2>13, <2>14, <2>15, <2>16, <2>17, <2>18, <2>19, StepKeeps
<1> QED BY <1>7, <1>8

LEMMA SaveAgainKeeps ==
    ASSUME IInv, NEW j \in Jobs, SaveAgain(j), raced' = raced \cup Raced
    PROVE  IInv'
<1>1. PICK k : k = job[j] OBVIOUS
<1>2. /\ k \in Job /\ k.row \in Account /\ k.u \in Known
      /\ JobOK(k, gone) /\ Fresh(k, user, raced) /\ Current(k, institution, raced)
      /\ k # NoJob /\ k.at = "again" /\ TypeOK
  BY <1>1, RequestFacts DEF SaveAgain, Is, IInv
<1>3. PICK a : a = k.u OBVIOUS
<1>4. /\ a # None /\ k.op = "dismiss" /\ k.row.type # "none" /\ ~k.row.active /\ a \in gone
      /\ a = k.inst.holder["institution_admin"]
  BY <1>2, <1>3 DEF JobOK, Saves
<1>5. a \in Made /\ a \in Users /\ None \notin Users /\ Made \subseteq Users
  BY <1>2, <1>3, <1>4, Unmade DEF Known
<1>6. PICK n : n = [k EXCEPT !.at = "clear"] OBVIOUS
<1>7. /\ n \in Job /\ n.op = "dismiss" /\ n.at = "clear" /\ n.u = a /\ n.row = k.row /\ n.inst = k.inst
  BY <1>2, <1>3, <1>4, <1>6 DEF Job, Stages
<1>8. /\ user' = [user EXCEPT ![a] = k.row] /\ job' = [job EXCEPT ![j] = n]
      /\ UNCHANGED <<institution, worker, courier, gone, loose>>
  BY <1>1, <1>3, <1>6 DEF SaveAgain, Goes
<1>9. /\ user' \in [Users -> Account] /\ user'[a] = k.row
      /\ \A v \in Users : v # a => user'[v] = user[v]
  BY <1>2, <1>5, <1>8 DEF TypeOK
<1>10. gone \subseteq Made BY DEF IInv, AllKnown
<1>11. StepOf(j, n) BY <1>7, <1>8, <1>10 DEF StepOf
<1>12. n # NoJob BY <1>7, SentinelAssumption
<1>13. \A v \in Made : StableNext(v) => user'[v] = user[v]
  <2>1. a \notin raced => user[a] = k.row BY <1>2, <1>3 DEF Fresh
  <2> QED BY <1>5, <1>9, <2>1 DEF StableNext
<1>14. KeepsAccounts(j)
  <2>1. \A v \in Made : user'[v].type # "none" BY <1>4, <1>5, <1>9 DEF Made
  <2> QED BY <1>13, <2>1 DEF KeepsAccounts
<1>15. KeepsPosts(j) BY <1>8 DEF KeepsPosts, Sources
<1>16. KeepsRows(j)
  <2>1. \A v \in Users : user'[v].type = "none" => user'[v] = user[v] BY <1>4, <1>9
  <2> QED BY <1>8, <2>1 DEF KeepsRows
<1>17. Follows(j, n)
  <2>1. KnownNext(n.u) BY <1>4, <1>5, <1>7, <1>9 DEF KnownNext
  <2>2. JobOK(n, gone') BY <1>4, <1>7, <1>8 DEF JobOK
  <2>3. Fresh(n, user', raced') BY <1>7 DEF Fresh
  <2>4. Current(n, institution', raced')
    <3>1. HasInstitution(k) BY <1>2, <1>4 DEF HasInstitution
    <3>2. None \notin raced' => None \notin raced OBVIOUS
    <3> QED BY <1>2, <1>7, <1>8, <3>1, <3>2 DEF Current
  <2>5. /\ n.at # "link" /\ n.inst = job[j].inst /\ job[j] # NoJob /\ job[j].at # "write"
    BY <1>1, <1>2, <1>7
  <2> QED BY ONLY <2>1, <2>2, <2>3, <2>4, <2>5 DEF Follows
<1>18. KeepsOrder(j, n)
  <2>1. \A u, p : ~Closes(k, u, p) /\ ~Arrives(k, u) BY <1>2, <1>4 DEF Closes, Arrives, Linking
  <2>2. \A u : Dismisses(k, u) => Dismisses(n, u) BY <1>2, <1>3, <1>7, <1>12 DEF Dismisses
  <2> QED BY <1>1, <1>8, <1>13, <2>1, <2>2 DEF KeepsOrder
<1>19. \A p \in Posts : KnownNext(institution'.holder[p]) BY <1>8, <1>14, KnownStays
<1>20. \A u \in Users \ Made : ~KnownNext(u) BY <1>5, <1>9, NobodyNew
<1>21. \A u \in gone' \ raced' : ~user'[u].active BY <1>4, <1>5, <1>8, <1>9, <1>10 DEF IInv, GoneForGood
<1>22. TypeOK' BY <1>2, <1>8, <1>9, <1>11, TypesKept DEF TypeOK
<1> QED BY <1>11, <1>14, <1>15, <1>16, <1>17, <1>18, <1>19, <1>20, <1>21, <1>22, StepKeeps
-----------------------------------------------------------------------------
(* All of them.                                                            *)

LEMMA InitKeeps == ASSUME Init PROVE IInv
<1>1. /\ job = [j \in Jobs |-> NoJob] /\ worker = {} /\ courier = {} /\ gone = {} /\ loose = {} /\ raced = {}
      /\ institution.holder["institution_owner"] = Owner /\ institution.holder["institution_admin"] = Admin
      /\ ~institution.deleted /\ institution \in Institution
      /\ user[Owner].type = "institution_owner" /\ user[Admin].type = "institution_admin"
      /\ user[Customer].type = "customer"
      /\ \A u \in {Customer, Owner, Admin} : user[u].active
      /\ \A u \in Users \ {Customer, Owner, Admin} : user[u] = NoAccount
      /\ user \in [Users -> Account]
  <2>1. /\ job = [j \in Jobs |-> NoJob] /\ worker = {} /\ courier = {} /\ gone = {} /\ loose = {} /\ raced = {}
    BY DEF Init
  <2>2. /\ institution.holder["institution_owner"] = Owner /\ institution.holder["institution_admin"] = Admin
        /\ ~institution.deleted /\ institution \in Institution
    BY AccountsAssumption DEF Init, Posts, Institution
  <2>3. \A u \in Users : user[u] =
          IF u \in {Customer, Owner, Admin}
          THEN [type |-> IF u = Customer THEN "customer"
                         ELSE IF u = Owner THEN "institution_owner" ELSE "institution_admin",
                phone |-> StartNumber[u], active |-> TRUE]
          ELSE NoAccount
    BY DEF Init
  <2>4. NoAccount \in Account BY DEF NoAccount, Account
  <2>5. \A u \in Users : user[u] \in Account
    <3> SUFFICES ASSUME NEW u \in Users PROVE user[u] \in Account OBVIOUS
    <3>1. CASE u \notin {Customer, Owner, Admin} BY <2>3, <2>4, <3>1
    <3>2. CASE u \in {Customer, Owner, Admin}
      <4>1. StartNumber[u] \in Numbers BY <3>2, AccountsAssumption
      <4>2. PICK type \in Types : user[u] = [type |-> type, phone |-> StartNumber[u], active |-> TRUE]
        <5>1. "customer" \in Types /\ "institution_owner" \in Types /\ "institution_admin" \in Types
          BY DEF Types, Staff, Posts
        <5> QED BY <2>3, <3>2, <5>1
      <4> QED BY <4>1, <4>2 DEF Account
    <3> QED BY <3>1, <3>2
  <2>6. user \in [Users -> Account] BY <2>5 DEF Init
  <2>9. Customer \in Users /\ Owner \in Users /\ Admin \in Users
        /\ Customer # Owner /\ Owner # Admin /\ Customer # Admin
    BY AccountsAssumption
  <2>10. /\ user[Customer] = [type |-> "customer", phone |-> StartNumber[Customer], active |-> TRUE]
         /\ user[Owner] = [type |-> "institution_owner", phone |-> StartNumber[Owner], active |-> TRUE]
         /\ user[Admin] = [type |-> "institution_admin", phone |-> StartNumber[Admin], active |-> TRUE]
    BY ONLY <2>3, <2>9
  <2>7. /\ user[Owner].type = "institution_owner" /\ user[Admin].type = "institution_admin"
        /\ user[Customer].type = "customer"
        /\ \A u \in {Customer, Owner, Admin} : user[u].active
    BY <2>10
  <2>8. \A u \in Users \ {Customer, Owner, Admin} : user[u] = NoAccount BY <2>3
  <2> QED BY <2>1, <2>2, <2>6, <2>7, <2>8
<1>2. TypeOK BY <1>1 DEF TypeOK
<1>3. Made = {Customer, Owner, Admin}
  <2>1. \A u \in Users : user[u].type # "none" <=> u \in {Customer, Owner, Admin} BY <1>1 DEF NoAccount
  <2>2. {Customer, Owner, Admin} \subseteq Users BY AccountsAssumption
  <2> QED BY ONLY <2>1, <2>2 DEF Made
<1>4. AllKnown BY <1>1, <1>3 DEF AllKnown, Known, Posts
<1>5. Rows BY <1>1, <1>3 DEF Rows, Made
<1>6. JobsOK /\ RequestsOK /\ HolderTypes BY <1>1 DEF JobsOK, RequestsOK, HolderTypes
<1>7. InOrder
  <2> SUFFICES ASSUME NEW u \in {Customer, Owner, Admin} PROVE Standing(u) BY <1>3 DEF InOrder
  <2>1. Found(u) BY <1>1 DEF Found, Finds, Staff, Posts
  <2>2. \A p \in Posts : Holds(u, p) BY <1>1, AccountsAssumption DEF Holds, Posts
  <2>3. Works(u) BY <1>1 DEF Works
  <2> QED BY <2>1, <2>2, <2>3 DEF Standing
<1>8. GoneForGood BY <1>1 DEF GoneForGood
<1> QED BY <1>2, <1>4, <1>5, <1>6, <1>7, <1>8 DEF IInv

LEMMA NextKeeps == ASSUME IInv, Next PROVE IInv'
<1>1. raced' = raced \cup Raced BY DEF Next
<1>2. ASSUME NEW u \in Users, Expires(u) PROVE IInv'
  <2>1. UNCHANGED <<user, institution, worker, courier, job, gone, loose>> BY <1>2 DEF Expires
  <2>2. raced' = raced BY <1>1, <2>1 DEF Raced
  <2> QED BY <2>1, <2>2, AllSame
<1>3. ASSUME NEW j \in Jobs, Customers(j) PROVE IInv' BY <1>1, <1>3, CustomersKeep
<1>4. ASSUME NEW j \in Jobs, Operators(j) PROVE IInv' BY <1>1, <1>4, OperatorsKeep, CrmDismissKeeps
<1>5. ASSUME NEW j \in Jobs, PostRequests(j) PROVE IInv'
  BY <1>1, <1>5, PostRequestsKeep, DeleteCategoryKeeps
<1>6. ASSUME NEW j \in Jobs, Steps(j) PROVE IInv'
  <2>1. CASE SetOtp(j) BY <1>1, <2>1, SetOtpKeeps
  <2>2. CASE Insert(j) BY <1>1, <2>2, InsertKeeps
  <2>3. CASE Save(j) BY <1>1, <2>3, SaveKeeps
  <2>4. CASE SaveAgain(j) BY <1>1, <2>4, SaveAgainKeeps
  <2>5. CASE Link(j) BY <1>1, <2>5, LinkKeeps
  <2>6. CASE Appoint(j) BY <1>1, <2>6, AppointKeeps
  <2>7. CASE Clear(j) BY <1>1, <2>7, ClearKeeps
  <2>8. CASE Close(j) BY <1>1, <2>8, CloseKeeps
  <2>9. CASE Fetch(j) BY <1>1, <2>9, FetchKeeps
  <2>10. CASE SaveInstitution(j) BY <1>1, <2>10, SaveInstitutionKeeps
  <2>11. CASE Die(j) BY <1>1, <2>11, DieKeeps
  <2> QED BY <1>6, <2>1, <2>2, <2>3, <2>4, <2>5, <2>6, <2>7, <2>8, <2>9, <2>10, <2>11 DEF Steps
<1> QED BY <1>2, <1>3, <1>4, <1>5, <1>6 DEF Next
-----------------------------------------------------------------------------
(* Devices.                                                                *)

DeviceTypes ==
    /\ requests \in 0 .. MaxRequests
    /\ device \in [Tokens -> Device \cup {NoDevice}]
    /\ call \in [Calls -> Call \cup {NoCall}]
    /\ DOMAIN phone = Tokens
    /\ \A c \in Calls : call[c] # NoCall => requests # 0

\* What the request k knows of the row d with its registration id.
KnowsRow(k, d) ==
    /\ k.at = "wipe" => d = k.row
    /\ k.at = "add" /\ k.view = "register" => d = NoDevice
    /\ k.at = "mark" => d # NoDevice /\ k.row # NoDevice /\ d.user = k.row.user

\* As long as one request at a time was about an id, a request knows its row, and the
\* installation is signed in as the account of the row.
RowsKnown ==
    \A c \in Calls :
        call[c] # NoCall /\ call[c].t \notin crossed \cup dead => KnowsRow(call[c], device[call[c].t])
SignedIn ==
    \A t \in Tokens \ (crossed \cup dead) : device[t] # NoDevice => phone[t] = device[t].user

DInv == DeviceTypes /\ RowsKnown /\ SignedIn

LEMMA RequestsCounted ==
    ASSUME requests \in 0 .. MaxRequests, Next
    PROVE  requests' \in 0 .. MaxRequests /\ (requests # 0 => requests' # 0)
<1> DEFINE Counted == requests' = requests \/ (requests < MaxRequests /\ requests' = requests + 1)
<1>1. Counted => requests' \in 0 .. MaxRequests /\ (requests # 0 => requests' # 0)
  BY AccountsAssumption
<1>2. ASSUME NEW j \in Jobs, NEW r, Begin(j, r) PROVE Counted BY <1>2 DEF Begin, Free
<1>3. ASSUME NEW u \in Users, Expires(u) PROVE Counted BY <1>3 DEF Expires
<1>4. ASSUME NEW j \in Jobs, Customers(j) PROVE Counted
  BY <1>2, <1>4 DEF Customers, GetVerificationCode, ChangeNumber, VerifyChangeNumber, EditOwn, DeleteAccount
<1>5. ASSUME NEW j \in Jobs, Operators(j) PROVE Counted
  <2>1. ASSUME NEW u \in Users, CrmDismiss(j, u) PROVE Counted BY <2>1 DEF CrmDismiss, Free
  <2> QED BY <1>2, <1>5, <2>1 DEF Operators, CrmCreate, CrmEdit, CrmCreateCourier, RestaurantCreateWorker,
                                  CrmEditCourier, RestaurantEditWorker
<1>6. ASSUME NEW j \in Jobs, PostRequests(j) PROVE Counted
  <2>1. ASSUME DeleteCategory(j) PROVE Counted BY <2>1 DEF DeleteCategory, Free
  <2> QED BY <1>2, <1>6, <2>1 DEF PostRequests, AddHolder, UpdateHolder, PanelCreateAdmin, DeleteAdmin,
                                  ManagementDelete, DeleteInstitution, EditInstitution
<1>7. ASSUME NEW j \in Jobs, Steps(j) PROVE Counted
  BY <1>7 DEF Steps, SetOtp, Insert, Save, SaveAgain, Link, Appoint, Clear, Close, Fetch, SaveInstitution, Die
<1> HIDE DEF Counted
<1> QED BY <1>1, <1>3, <1>4, <1>5, <1>6, <1>7 DEF Next

\* A step that changes the row of one id, at most, and is about no other request than c.
LEMMA RowStep ==
    ASSUME DInv, NEW c \in Calls, crossed' = crossed \cup Crossed, DeviceTypes', dead' = dead,
           call[c] # NoCall, NEW n, call' = [call EXCEPT ![c] = n],
           NEW t \in Tokens, t = call[c].t,
           \A s \in Tokens : s # t => device'[s] = device[s] /\ phone'[s] = phone[s],
           t \notin crossed \cup dead =>
             /\ n # NoCall => n.t = t /\ KnowsRow(n, device'[t])
             /\ device'[t] # NoDevice => phone'[t] = device'[t].user,
           n # NoCall => n.t = t
    PROVE  DInv'
<1>1. call'[c] = n /\ \A b \in Calls : b # c => call'[b] = call[b] BY DEF DInv, DeviceTypes
<1>2. \A b \in Calls : call[b] # NoCall => call[b].t \in Tokens BY DEF DInv, DeviceTypes, Call
<1>3. RowsKnown'
  <2> SUFFICES ASSUME NEW b \in Calls, call'[b] # NoCall, call'[b].t \notin crossed' \cup dead'
               PROVE  KnowsRow(call'[b], device'[call'[b].t])
    BY DEF RowsKnown
  <2>1. CASE b = c BY <1>1, <2>1
  <2>2. CASE b # c
    <3>1. call'[b] = call[b] BY <1>1, <2>2
    <3>2. KnowsRow(call[b], device[call[b].t]) BY <3>1 DEF DInv, RowsKnown
    <3>3. PICK s : s = call[b].t OBVIOUS
    <3>4. s \in Tokens /\ s \notin crossed' BY <1>2, <3>1, <3>3
    <3>5. device'[s] = device[s] BY <3>1, <3>3, <3>4 DEF Crossed
    <3> QED BY <3>1, <3>2, <3>3, <3>5
  <2> QED BY <2>1, <2>2
<1>4. SignedIn'
  <2> SUFFICES ASSUME NEW s \in Tokens, s \notin crossed \cup dead, device'[s] # NoDevice
               PROVE  phone'[s] = device'[s].user
    BY DEF SignedIn
  <2> QED BY DEF DInv, SignedIn
<1> QED BY <1>3, <1>4 DEF DInv

\* The same for its answer.
LEMMA AnswerKeeps ==
    ASSUME DInv, NEW c \in Calls, crossed' = crossed \cup Crossed, DeviceTypes', dead' = dead,
           call[c] # NoCall, call' = [call EXCEPT ![c] = NoCall],
           NEW t \in Tokens, t = call[c].t,
           \A s \in Tokens : s # t => device'[s] = device[s] /\ phone'[s] = phone[s],
           t \notin crossed \cup dead => (device'[t] # NoDevice => phone'[t] = device'[t].user)
    PROVE  DInv'
<1>1. PICK n : n = NoCall OBVIOUS
<1> QED BY <1>1, RowStep

LEMMA AskKeeps ==
    ASSUME DInv, NEW c \in Calls, NEW view \in View, NEW at \in {"wipe", "add", "mark"}, NEW u \in Users,
           NEW t \in Tokens, NEW row \in Device \cup {NoDevice}, Ask(c, view, at, u, t, row),
           crossed' = crossed \cup Crossed,
           NEW k, k = [view |-> view, at |-> at, u |-> u, t |-> t, row |-> row], KnowsRow(k, device[t])
    PROVE  DInv'
<1>1. /\ requests < MaxRequests /\ requests' = requests + 1 /\ call' = [call EXCEPT ![c] = k]
      /\ UNCHANGED <<device, phone, dead>>
  BY DEF Ask
<1>2. k \in Call /\ k.t = t BY DEF Call
<1>3. requests' \in 0 .. MaxRequests /\ requests' # 0 BY <1>1, AccountsAssumption DEF DInv, DeviceTypes
<1>4. DeviceTypes' BY <1>1, <1>2, <1>3 DEF DInv, DeviceTypes
<1>5. call'[c] = k /\ \A b \in Calls : b # c => call'[b] = call[b] BY <1>1 DEF DInv, DeviceTypes
<1>6. RowsKnown'
  <2> SUFFICES ASSUME NEW b \in Calls, call'[b] # NoCall, call'[b].t \notin crossed' \cup dead'
               PROVE  KnowsRow(call'[b], device'[call'[b].t])
    BY DEF RowsKnown
  <2>1. CASE b = c BY <1>1, <1>2, <1>5, <2>1
  <2>2. CASE b # c BY <1>1, <1>5, <2>2 DEF DInv, RowsKnown
  <2> QED BY <2>1, <2>2
<1>7. SignedIn' BY <1>1 DEF DInv, SignedIn
<1> QED BY <1>4, <1>6, <1>7 DEF DInv

\* A step of no request: rows of dead ids go, others keep their account.
LEMMA SweepKeeps ==
    ASSUME DInv, UNCHANGED call, crossed' = crossed \cup Crossed, DeviceTypes', dead \subseteq dead',
           \A t \in Tokens \ dead' :
             /\ phone'[t] = phone[t]
             /\ device[t] = NoDevice => device'[t] = NoDevice
             /\ device[t] # NoDevice => device'[t] # NoDevice /\ device'[t].user = device[t].user
    PROVE  DInv'
<1>1. RowsKnown'
  <2> SUFFICES ASSUME NEW b \in Calls, call[b] # NoCall, call[b].t \notin crossed' \cup dead'
               PROVE  KnowsRow(call[b], device'[call[b].t])
    BY DEF RowsKnown
  <2>1. call[b].t \in Tokens BY DEF DInv, DeviceTypes, Call
  <2>2. device'[call[b].t] = device[call[b].t] BY <2>1 DEF Crossed
  <2> QED BY <2>2 DEF DInv, RowsKnown
<1>2. SignedIn' BY DEF DInv, SignedIn
<1> QED BY <1>1, <1>2 DEF DInv

LEMMA DeviceRequestsKeep ==
    ASSUME DInv, crossed' = crossed \cup Crossed, NEW c \in Calls, NEW u \in Users, NEW t \in Tokens,
           \/ PostDevice(c, u, t) \/ RegisterDevice(c, u, t) \/ Logout(c, u, t)
           \/ \E active \in BOOLEAN : PatchDevice(c, u, t, active)
    PROVE  DInv'
<1>1. device[t] \in Device \cup {NoDevice} BY DEF DInv, DeviceTypes
<1>2. {"register", "crm", "patch", "logout"} \subseteq View BY DEF View
<1>3. ASSUME NEW view \in View, Ask(c, view, "wipe", u, t, device[t]) PROVE DInv'
  <2>1. PICK k : k = [view |-> view, at |-> "wipe", u |-> u, t |-> t, row |-> device[t]] OBVIOUS
  <2>2. KnowsRow(k, device[t]) BY <2>1 DEF KnowsRow
  <2> QED BY <1>1, <1>3, <2>1, <2>2, AskKeeps
<1>4. ASSUME NEW view \in View, Ask(c, view, "add", u, t, NoDevice), view = "register" => device[t] = NoDevice
      PROVE  DInv'
  <2>1. PICK k : k = [view |-> view, at |-> "add", u |-> u, t |-> t, row |-> NoDevice] OBVIOUS
  <2>2. KnowsRow(k, device[t]) BY <1>4, <2>1 DEF KnowsRow
  <2> QED BY <1>4, <2>1, <2>2, AskKeeps
<1>5. ASSUME NEW active \in BOOLEAN, PatchDevice(c, u, t, active) PROVE DInv'
  <2>1. PICK row : row = [device[t] EXCEPT !.active = active] OBVIOUS
  <2>2. device[t] # NoDevice /\ Ask(c, "patch", "mark", u, t, row) BY <1>5, <2>1 DEF PatchDevice, Own
  <2>3. row \in Device /\ row.user = device[t].user BY <1>1, <2>1, <2>2 DEF Device
  <2>4. PICK k : k = [view |-> "patch", at |-> "mark", u |-> u, t |-> t, row |-> row] OBVIOUS
  <2>5. KnowsRow(k, device[t]) BY <2>2, <2>3, <2>4, DeviceSentinels DEF KnowsRow
  <2> QED BY <1>2, <2>2, <2>3, <2>4, <2>5, AskKeeps
<1>6. CASE PostDevice(c, u, t) BY <1>2, <1>3, <1>4, <1>6 DEF PostDevice
<1>7. CASE RegisterDevice(c, u, t) BY <1>2, <1>4, <1>7 DEF RegisterDevice
<1>8. CASE Logout(c, u, t) BY <1>2, <1>3, <1>8 DEF Logout
<1> QED BY <1>5, <1>6, <1>7, <1>8

LEMMA CallStepsKeep ==
    ASSUME DInv, crossed' = crossed \cup Crossed, NEW c \in Calls,
           Wipe(c) \/ Add(c) \/ Mark(c) \/ DieDevice(c)
    PROVE  DInv'
<1>1. PICK k : k = call[c] OBVIOUS
<1>2. /\ k # NoCall /\ requests' = requests /\ dead' = dead
  BY <1>1 DEF Wipe, Add, Mark, DieDevice, At, Quiet
<1>3. /\ k \in Call /\ k.t \in Tokens /\ k.u \in Users /\ k.row \in Device \cup {NoDevice}
      /\ requests \in 1 .. MaxRequests /\ requests \in 0 .. MaxRequests
      /\ device \in [Tokens -> Device \cup {NoDevice}] /\ DOMAIN phone = Tokens
      /\ call \in [Calls -> Call \cup {NoCall}]
  BY <1>1, <1>2, AccountsAssumption DEF DInv, DeviceTypes, Call
<1>4. PICK t : t = k.t OBVIOUS
<1>5. PICK d : d = device[t] OBVIOUS
<1>6. d \in Device \cup {NoDevice} /\ t \in Tokens BY <1>3, <1>4, <1>5
<1>7. t \notin crossed \cup dead => KnowsRow(k, d) /\ (d # NoDevice => phone[t] = d.user)
  BY <1>1, <1>2, <1>4, <1>5, <1>6 DEF DInv, RowsKnown, SignedIn
<1>8. ASSUME device' \in [Tokens -> Device \cup {NoDevice}], DOMAIN phone' = Tokens,
             call' \in [Calls -> Call \cup {NoCall}]
      PROVE  DeviceTypes'
  BY <1>2, <1>3, <1>8 DEF DeviceTypes
<1>9. CASE Wipe(c)
  <2>1. device' = IF d # NoDevice /\ d.pk = k.row.pk THEN [device EXCEPT ![t] = NoDevice] ELSE device
    BY <1>1, <1>4, <1>5, <1>9 DEF Wipe
  <2>2. /\ device' \in [Tokens -> Device \cup {NoDevice}]
        /\ \A s \in Tokens : s # t => device'[s] = device[s]
        /\ device'[t] = IF d # NoDevice /\ d.pk = k.row.pk THEN NoDevice ELSE d
    BY <1>3, <1>5, <1>6, <2>1
  <2>3. t \notin crossed \cup dead => device'[t] = NoDevice
    BY <1>1, <1>7, <1>9, <2>2 DEF KnowsRow, Wipe, At
  <2>4. CASE k.view = "logout"
    <3>1. call' = [call EXCEPT ![c] = NoCall] /\ phone' = [phone EXCEPT ![t] = None]
      BY <1>1, <1>4, <1>9, <2>4 DEF Wipe, Answered
    <3>2. DeviceTypes' BY <1>3, <1>8, <2>2, <3>1
    <3>3. \A s \in Tokens : s # t => phone'[s] = phone[s] BY <1>3, <3>1
    <3> QED BY <1>1, <1>2, <1>4, <1>6, <2>2, <2>3, <3>1, <3>2, <3>3, AnswerKeeps
  <2>5. CASE k.view # "logout"
    <3>1. PICK n : n = [k EXCEPT !.at = "add"] OBVIOUS
    <3>2. call' = [call EXCEPT ![c] = n] /\ phone' = phone BY <1>1, <1>9, <2>5, <3>1 DEF Wipe
    <3>3. n \in Call /\ n.at = "add" /\ n.t = t BY <1>3, <1>4, <3>1 DEF Call
    <3>4. DeviceTypes' BY <1>3, <1>8, <2>2, <3>2, <3>3
    <3>5. t \notin crossed \cup dead => KnowsRow(n, device'[t]) BY <2>3, <3>3 DEF KnowsRow
    <3> QED BY <1>1, <1>2, <1>4, <1>6, <2>2, <2>3, <3>2, <3>3, <3>4, <3>5, RowStep
  <2> QED BY <2>4, <2>5
<1>10. CASE Add(c)
  <2>1. PICK new : new = [user |-> k.u, active |-> TRUE, pk |-> requests] OBVIOUS
  <2>2. new \in Device /\ new.user = k.u
    <3>1. requests \in 1 .. MaxRequests + 1 BY <1>3, AccountsAssumption
    <3> QED BY <1>3, <2>1, <3>1 DEF Device
  <2>3. /\ device' = IF d = NoDevice THEN [device EXCEPT ![t] = new] ELSE device
        /\ phone' = IF d = NoDevice \/ k.view = "register" THEN [phone EXCEPT ![t] = k.u] ELSE phone
        /\ call' = [call EXCEPT ![c] = NoCall] /\ k.at = "add"
    BY <1>1, <1>4, <1>5, <1>10, <2>1 DEF Add, Answered, At
  <2>4. /\ device' \in [Tokens -> Device \cup {NoDevice}] /\ DOMAIN phone' = Tokens
        /\ \A s \in Tokens : s # t => device'[s] = device[s] /\ phone'[s] = phone[s]
        /\ device'[t] = IF d = NoDevice THEN new ELSE d
        /\ phone'[t] = IF d = NoDevice \/ k.view = "register" THEN k.u ELSE phone[t]
    BY <1>3, <1>5, <1>6, <2>2, <2>3
  <2>5. DeviceTypes' BY <1>3, <1>8, <2>3, <2>4
  <2>6. t \notin crossed \cup dead => (device'[t] # NoDevice => phone'[t] = device'[t].user)
    BY <1>7, <2>2, <2>3, <2>4 DEF KnowsRow
  <2>7. \A s \in Tokens : s # t => device'[s] = device[s] /\ phone'[s] = phone[s] BY <2>4
  <2>8. call[c] # NoCall /\ call' = [call EXCEPT ![c] = NoCall] /\ dead' = dead /\ t = call[c].t
    BY <1>1, <1>2, <1>4, <2>3
  <2> QED BY ONLY DInv, crossed' = crossed \cup Crossed, c \in Calls, <1>6, <2>5, <2>6, <2>7, <2>8, AnswerKeeps
<1>11. CASE Mark(c)
  <2>1. /\ device' = IF d = NoDevice \/ d.pk = k.row.pk THEN [device EXCEPT ![t] = k.row] ELSE device
        /\ call' = [call EXCEPT ![c] = NoCall] /\ k.at = "mark" /\ phone' = phone
    BY <1>1, <1>4, <1>5, <1>11 DEF Mark, Answered, At
  <2>2. /\ device' \in [Tokens -> Device \cup {NoDevice}]
        /\ \A s \in Tokens : s # t => device'[s] = device[s] /\ phone'[s] = phone[s]
        /\ device'[t] = IF d = NoDevice \/ d.pk = k.row.pk THEN k.row ELSE d
    BY <1>3, <1>5, <1>6, <2>1
  <2>3. DeviceTypes' BY <1>3, <1>8, <2>1, <2>2
  <2>4. t \notin crossed \cup dead => (device'[t] # NoDevice => phone'[t] = device'[t].user)
    BY <1>7, <2>1, <2>2 DEF KnowsRow
  <2>5. \A s \in Tokens : s # t => device'[s] = device[s] /\ phone'[s] = phone[s] BY <2>2
  <2>6. call[c] # NoCall /\ call' = [call EXCEPT ![c] = NoCall] /\ dead' = dead /\ t = call[c].t
    BY <1>1, <1>2, <1>4, <2>1
  <2> QED BY ONLY DInv, crossed' = crossed \cup Crossed, c \in Calls, <1>6, <2>3, <2>4, <2>5, <2>6, AnswerKeeps
<1>12. CASE DieDevice(c)
  <2>1. call' = [call EXCEPT ![c] = NoCall] /\ UNCHANGED <<device, phone>>
    BY <1>12 DEF DieDevice, Answered
  <2>2. DeviceTypes' BY <1>3, <1>8, <2>1
  <2>3. t \notin crossed \cup dead => (device'[t] # NoDevice => phone'[t] = device'[t].user)
    BY <1>5, <1>7, <2>1
  <2> QED BY <1>1, <1>2, <1>4, <1>6, <2>1, <2>2, <2>3, AnswerKeeps
<1> QED BY <1>9, <1>10, <1>11, <1>12

LEMMA SweepsKeep ==
    ASSUME DInv, crossed' = crossed \cup Crossed,
           \/ \E t \in Tokens : Uninstall(t)
           \/ \E A \in {{u} : u \in Users} \cup {Users, Restaurant} : FirebaseConsumer(A)
           \/ SendToAll
    PROVE  DInv'
<1>1. /\ requests \in 0 .. MaxRequests /\ device \in [Tokens -> Device \cup {NoDevice}]
      /\ call \in [Calls -> Call \cup {NoCall}] /\ DOMAIN phone = Tokens
  BY DEF DInv, DeviceTypes
<1>2. ASSUME call' = call, device' \in [Tokens -> Device \cup {NoDevice}], DOMAIN phone' = Tokens,
             requests' = requests \/ (requests < MaxRequests /\ requests' = requests + 1)
      PROVE  DeviceTypes'
  <2>1. requests' \in 0 .. MaxRequests /\ (requests # 0 => requests' # 0)
    BY <1>1, <1>2, AccountsAssumption
  <2> QED BY <1>2, <2>1 DEF DInv, DeviceTypes
<1>3. ASSUME NEW t \in Tokens, Uninstall(t) PROVE DInv'
  <2>1. /\ call' = call /\ device' = device /\ phone' = [phone EXCEPT ![t] = None]
        /\ dead' = dead \cup {t} /\ requests < MaxRequests /\ requests' = requests + 1
    BY <1>3 DEF Uninstall
  <2>2. DeviceTypes' BY <1>1, <1>2, <2>1
  <2>3. \A s \in Tokens \ dead' : phone'[s] = phone[s] BY <1>1, <2>1
  <2> QED BY <2>1, <2>2, <2>3, SweepKeeps
<1>4. ASSUME NEW A, FirebaseConsumer(A) PROVE DInv'
  <2>1. /\ call' = call /\ phone' = phone /\ dead' = dead /\ requests' = requests
        /\ device' = [t \in Tokens |-> IF t \in Reached(A) \cap dead THEN NoDevice ELSE device[t]]
    BY <1>4 DEF FirebaseConsumer, Quiet
  <2>2. device' \in [Tokens -> Device \cup {NoDevice}] /\ \A t \in Tokens \ dead : device'[t] = device[t]
    BY <1>1, <2>1
  <2>3. DeviceTypes' BY <1>1, <1>2, <2>1, <2>2
  <2> QED BY <2>1, <2>2, <2>3, SweepKeeps
<1>5. ASSUME SendToAll PROVE DInv'
  <2>1. PICK failed \in SUBSET Reached(Users) :
          device' = [t \in Tokens |-> IF t \in failed THEN [device[t] EXCEPT !.active = FALSE] ELSE device[t]]
    BY <1>5 DEF SendToAll
  <2>2. /\ call' = call /\ phone' = phone /\ dead' = dead
        /\ requests < MaxRequests /\ requests' = requests + 1
    BY <1>5 DEF SendToAll
  <2>3. ASSUME NEW t \in Tokens
        PROVE  /\ device'[t] \in Device \cup {NoDevice}
               /\ device[t] = NoDevice => device'[t] = NoDevice
               /\ device[t] # NoDevice => device'[t] # NoDevice /\ device'[t].user = device[t].user
    <3>1. CASE t \notin failed BY <1>1, <2>1, <3>1
    <3>2. CASE t \in failed
      <4>1. PICK row : row = [device[t] EXCEPT !.active = FALSE] OBVIOUS
      <4>2. device[t] # NoDevice /\ device[t] \in Device BY <1>1, <2>1, <3>2 DEF Reached
      <4>3. row \in Device /\ row.user = device[t].user BY <4>1, <4>2 DEF Device
      <4>4. device'[t] = row BY <2>1, <3>2, <4>1
      <4> QED BY <4>2, <4>3, <4>4, DeviceSentinels
    <3> QED BY <3>1, <3>2
  <2>4. device' \in [Tokens -> Device \cup {NoDevice}] BY <2>1, <2>3
  <2>5. DeviceTypes' BY <1>1, <1>2, <2>2, <2>4
  <2> QED BY <2>2, <2>3, <2>5, SweepKeeps
<1> QED BY <1>3, <1>4, <1>5

LEMMA DeviceStepsKeep ==
    ASSUME DInv, DeviceSteps, crossed' = crossed \cup Crossed
    PROVE  DInv'
BY DeviceRequestsKeep, CallStepsKeep, SweepsKeep DEF DeviceSteps

LEMMA DeviceStepsLeaveAccounts ==
    ASSUME DeviceSteps
    PROVE  UNCHANGED <<user, institution, worker, courier, job, gone, loose>>
<1>1. ASSUME NEW c \in Calls, NEW u \in Users, NEW t \in Tokens,
             \/ PostDevice(c, u, t) \/ RegisterDevice(c, u, t) \/ Logout(c, u, t)
             \/ \E active \in BOOLEAN : PatchDevice(c, u, t, active)
      PROVE  UNCHANGED <<user, institution, worker, courier, job, gone, loose>>
  BY <1>1 DEF PostDevice, RegisterDevice, Logout, PatchDevice, Ask, tables
<1>2. ASSUME NEW c \in Calls, Wipe(c) \/ Add(c) \/ Mark(c) \/ DieDevice(c)
      PROVE  UNCHANGED <<user, institution, worker, courier, job, gone, loose>>
  BY <1>2 DEF Wipe, Add, Mark, DieDevice, Quiet, tables
<1>3. ASSUME NEW t \in Tokens, Uninstall(t)
      PROVE  UNCHANGED <<user, institution, worker, courier, job, gone, loose>>
  BY <1>3 DEF Uninstall, tables
<1>4. ASSUME NEW A, FirebaseConsumer(A)
      PROVE  UNCHANGED <<user, institution, worker, courier, job, gone, loose>>
  BY <1>4 DEF FirebaseConsumer, Quiet, tables
<1>5. ASSUME SendToAll
      PROVE  UNCHANGED <<user, institution, worker, courier, job, gone, loose>>
  BY <1>5 DEF SendToAll, tables
<1> QED BY <1>1, <1>2, <1>3, <1>4, <1>5 DEF DeviceSteps

LEMMA InitDevicesKeeps == ASSUME InitDevices PROVE IInv /\ DInv
<1>1. IInv BY InitKeeps DEF InitDevices
<1>2. requests \in 0 .. MaxRequests BY AccountsAssumption DEF InitDevices, Init
<1>3. \A t \in Tokens : /\ device[t] = IF t \in DOMAIN SignedUp
                                       THEN [user |-> SignedUp[t], active |-> TRUE, pk |-> MaxRequests + 1]
                                       ELSE NoDevice
                        /\ phone[t] = IF t \in DOMAIN SignedUp THEN SignedUp[t] ELSE None
  BY DEF InitDevices
<1>4. \A t \in DOMAIN SignedUp : SignedUp[t] \in Users BY AccountsAssumption, DevicesAssumption
<1>5. MaxRequests + 1 \in 1 .. MaxRequests + 1 BY AccountsAssumption
<1>6. ASSUME NEW t \in Tokens PROVE device[t] \in Device \cup {NoDevice}
  <2>1. CASE t \notin DOMAIN SignedUp BY <1>3, <2>1
  <2>2. CASE t \in DOMAIN SignedUp
    <3>1. device[t] = [user |-> SignedUp[t], active |-> TRUE, pk |-> MaxRequests + 1] BY <1>3, <2>2
    <3> QED BY <1>4, <1>5, <2>2, <3>1 DEF Device
  <2> QED BY <2>1, <2>2
<1>7. call = [c \in Calls |-> NoCall] BY DEF InitDevices
<1>8. device \in [Tokens -> Device \cup {NoDevice}] /\ DOMAIN phone = Tokens BY <1>6 DEF InitDevices
<1>9. DeviceTypes BY <1>2, <1>7, <1>8 DEF DeviceTypes
<1>10. RowsKnown BY <1>7 DEF RowsKnown
<1>11. SignedIn
  <2> SUFFICES ASSUME NEW t \in Tokens, device[t] # NoDevice PROVE phone[t] = device[t].user
    BY DEF SignedIn
  <2>1. t \in DOMAIN SignedUp BY <1>3
  <2>2. device[t] = [user |-> SignedUp[t], active |-> TRUE, pk |-> MaxRequests + 1] /\ phone[t] = SignedUp[t]
    BY <1>3, <2>1
  <2> QED BY <2>2
<1> QED BY <1>1, <1>9, <1>10, <1>11 DEF DInv

LEMMA Invariance == SpecDevices => [](IInv /\ DInv)
<1>1. InitDevices => IInv /\ DInv BY InitDevicesKeeps
<1>2. IInv /\ DInv /\ [NextDevices]_<<vars, devices>> => (IInv /\ DInv)'
  <2> SUFFICES ASSUME IInv, DInv, [NextDevices]_<<vars, devices>> PROVE IInv' /\ DInv'
    OBVIOUS
  <2>1. ASSUME Next, UNCHANGED devices PROVE IInv' /\ DInv'
    <3>1. UNCHANGED <<device, call, phone, dead, crossed>> BY <2>1 DEF devices
    <3>2. requests' \in 0 .. MaxRequests /\ (requests # 0 => requests' # 0)
      BY <2>1, RequestsCounted DEF DInv, DeviceTypes
    <3>3. DInv' BY <3>1, <3>2 DEF DInv, DeviceTypes, RowsKnown, SignedIn
    <3> QED BY <2>1, <3>3, NextKeeps
  <2>2. ASSUME DeviceSteps, crossed' = crossed \cup Crossed, UNCHANGED raced PROVE IInv' /\ DInv'
    BY <2>2, DeviceStepsKeep, DeviceStepsLeaveAccounts, AllSame
  <2>3. ASSUME UNCHANGED <<vars, devices>> PROVE IInv' /\ DInv'
    <3>1. UNCHANGED <<user, institution, worker, courier, job, requests, gone, loose, raced>>
          /\ UNCHANGED <<device, call, phone, dead, crossed>>
      BY <2>3 DEF vars, devices
    <3>2. IInv' BY <3>1, AllSame
    <3>3. DInv' BY <3>1 DEF DInv, DeviceTypes, RowsKnown, SignedIn
    <3> QED BY <3>2, <3>3
  <2> QED BY <2>1, <2>2, <2>3 DEF NextDevices
<1> QED BY <1>1, <1>2, PTL DEF SpecDevices

\* A deleted account stays deleted (Accounts!GoneForGood): nothing but a request that had
\* the row in memory brings it back.
THEOREM DeletedStaysDeleted == SpecDevices => []GoneForGood
<1>1. IInv => GoneForGood BY DEF IInv
<1> QED BY <1>1, Invariance, PTL

\* Whoever a request is to set right is busy.
LEMMA BusyOnes ==
    ASSUME NEW j \in Jobs, NEW u, u # None, NEW p \in Posts,
           Arrives(job[j], u) \/ Dismisses(job[j], u) \/ Closes(job[j], u, p)
    PROVE  Busy(u)
<1>1. CASE Arrives(job[j], u) \/ Dismisses(job[j], u)
  BY <1>1 DEF Arrives, Dismisses, Busy, Concerns
<1>2. CASE Closes(job[j], u, p) BY <1>2 DEF Closes, Busy, Concerns
<1> QED BY <1>1, <1>2

\* Accounts and posts agree at rest (Accounts!PostsAgree), whatever requests overlap and
\* die: a live account of the staff finds its institution, a holder has the type of the
\* post and lives as long as the institution does.
THEOREM PostsAndAccounts == SpecDevices => []PostsAgree
<1>1. IInv => PostsAgree
  <2> SUFFICES ASSUME IInv, None \notin raced, NEW u \in Made \ (loose \cup raced), ~Busy(u)
               PROVE  /\ user[u].active /\ user[u].type \in Staff => Finds(u)
                      /\ \A post \in Posts : institution.holder[post] = u =>
                           /\ user[u].type = post
                           /\ user[u].active # institution.deleted
    BY DEF PostsAgree
  <2>1. Stable(u) /\ u # None BY Unmade DEF IInv, Stable
  <2>2. Standing(u) BY <2>1 DEF IInv, InOrder
  <2>3. \A j \in Jobs : /\ ~Arrives(job[j], u) /\ ~Dismisses(job[j], u)
                        /\ \A p \in Posts : ~Closes(job[j], u, p)
    BY <2>1, BusyOnes DEF Posts
  <2>4. user[u].active /\ user[u].type \in Staff => Finds(u) BY <2>2, <2>3 DEF Standing, Found
  <2>5. user[u].active \in BOOLEAN /\ institution.deleted \in BOOLEAN
    BY DEF IInv, TypeOK, Account, Institution, Made
  <2>6. \A p \in Posts : institution.holder[p] = u =>
          user[u].type = p /\ user[u].active # institution.deleted
    BY <2>2, <2>3, <2>5 DEF Standing, Holds
  <2> QED BY <2>4, <2>6
<1> QED BY <1>1, Invariance, PTL

\* A push arrives where somebody of the restaurant is signed in (Devices!PushesArrive).
THEOREM PushesReachTheRightOnes == SpecDevices => []PushesArrive
<1>1. IInv /\ DInv => PushesArrive
  <2> SUFFICES ASSUME IInv, DInv, NEW t \in Tokens \ (crossed \cup dead), device[t] # NoDevice
               PROVE  /\ phone[t] = device[t].user
                      /\ (t \in Reached(Restaurant) /\ None \notin raced /\ ~institution.deleted
                          /\ device[t].user \notin loose \cup raced /\ ~Busy(device[t].user)) =>
                           user[phone[t]].active /\ user[phone[t]].type \in Staff
    BY DEF PushesArrive
  <2>1. phone[t] = device[t].user BY DEF DInv, SignedIn
  <2>2. PICK u : u = device[t].user OBVIOUS
  <2>3. u \in Users /\ u # None BY <2>2, Unmade DEF DInv, DeviceTypes, Device, IInv
  <2>4. ASSUME t \in Reached(Restaurant), None \notin raced, ~institution.deleted,
               u \notin loose \cup raced, ~Busy(u)
        PROVE  user[u].active /\ user[u].type \in Staff
    <3>1. u \in worker \/ \E p \in Posts : institution.holder[p] = u
      BY <2>2, <2>4 DEF Reached, Restaurant
    <3>2. u \in Made BY <2>3, <3>1 DEF IInv, AllKnown, Known
    <3>3. Standing(u) BY <2>3, <2>4, <3>2 DEF IInv, InOrder, Stable
    <3>4. CASE u \in worker BY <3>3, <3>4 DEF Standing, Works, Staff
    <3>5. ASSUME NEW p \in Posts, institution.holder[p] = u
          PROVE  user[u].active /\ user[u].type \in Staff
      <4>1. \A j \in Jobs : ~Dismisses(job[j], u) BY <2>3, <2>4, BusyOnes
      <4>2. user[u].type = p /\ (~user[u].active /\ ~institution.deleted => \E j \in Jobs : Dismisses(job[j], u))
        BY <3>3, <3>5 DEF Standing, Holds
      <4> QED BY <2>4, <4>1, <4>2 DEF Staff
    <3> QED BY <3>1, <3>4, <3>5
  <2> QED BY <2>1, <2>2, <2>4
<1> QED BY <1>1, Invariance, PTL

-----------------------------------------------------------------------------
(* The websocket groups and the screens.                                   *)

\* The assumptions of Notifications.
LEMMA ScreenConstants ==
    /\ Requests \subseteq Input /\ FoundRows \subseteq Row
    /\ NoTask \notin Task /\ NoOne \notin Handlers /\ Capacity \in Nat
BY ScreensAssumption, ScreensBounds, TaskSentinels

ScreenView   == [status : Statuses, courier : BOOLEAN]
Screen == [live : BOOLEAN, status : Statuses, courier : BOOLEAN]

ScreensTypeOK ==
    /\ order \in Row
    /\ row_lock \in Handlers \cup {NoOne}
    /\ task \in [Handlers -> Task \cup {NoTask}]
    /\ inbox \in [Watched -> Seq(ScreenView)]
    /\ screen \in [Watched -> Screen]
    /\ trouble \in BOOLEAN

\* Whoever has saved and not committed holds the row lock, and nobody else does.
LockOK == \A h \in Handlers : In(h, {"saved"}) <=> row_lock = h

\* What a screen will show once its channel is empty, if anything.
Speaks(q, scr) == q # <<>> \/ scr.live
LastOf(q)      == q[Len(q)]
Shown(q, scr)  == IF q # <<>> THEN LastOf(q)
                  ELSE [status |-> scr.status, courier |-> scr.courier]

\* The holder of the row lock has told the screens what it is about to commit.
Telling == row_lock # NoOne /\ Sent(task[row_lock])
\* A request that wrote the order without telling is about to tell.
Pending(h)  == In(h, {"done"}) /\ task[h].via \in {"process", "replace"}
SomePending == \E h \in Handlers : Pending(h)

\* A screen shows, or its last message says, what is committed or about to be,
\* or somebody is about to send that.
Right(g) ==
    Speaks(inbox[g], screen[g]) =>
        \/ Telling /\ Shown(inbox[g], screen[g]) = Of(task[row_lock].mem)
        \/ ~Telling /\ (Shown(inbox[g], screen[g]) = Of(order) \/ SomePending)
ScreensCurrent == ~trouble => \A g \in Watched \cap Parties : Right(g)

ScreensInv == ScreensTypeOK /\ LockOK /\ ScreensCurrent

LEMMA LastAppended ==
    ASSUME NEW T, NEW q \in Seq(T), NEW x \in T
    PROVE  Append(q, x) \in Seq(T) /\ Append(q, x) # <<>> /\ LastOf(Append(q, x)) = x
<1> DEFINE t == Append(q, x)
<1>1. t \in Seq(T) /\ Len(t) = Len(q) + 1 /\ t[Len(q) + 1] = x
  OBVIOUS
<1>2. Len(q) \in Nat
  OBVIOUS
<1>3. t # <<>>
  BY <1>1, <1>2
<1> QED BY <1>1, <1>3 DEF LastOf

LEMMA LastOfTail ==
    ASSUME NEW T, NEW q \in Seq(T), q # <<>>
    PROVE  /\ Tail(q) \in Seq(T) /\ Head(q) \in T
           /\ Tail(q) = <<>> => Head(q) = LastOf(q)
           /\ Tail(q) # <<>> => LastOf(Tail(q)) = LastOf(q)
<1>1. Tail(q) \in Seq(T) /\ Head(q) \in T /\ Len(Tail(q)) = Len(q) - 1 /\ Len(q) \in Nat
  OBVIOUS
<1>2. \A i \in 1 .. Len(q) - 1 : Tail(q)[i] = q[i + 1]
  OBVIOUS
<1>3. Head(q) = q[1]
  OBVIOUS
<1>4. CASE Tail(q) = <<>>
  <2>1. Len(q) = 1
    BY <1>1, <1>4
  <2> QED BY <1>1, <1>3, <1>4, <2>1 DEF LastOf
<1>5. CASE Tail(q) # <<>>
  <2>1. Len(q) - 1 >= 1 /\ Len(q) - 1 \in 1 .. Len(q) - 1
    BY <1>1, <1>5
  <2>2. Tail(q)[Len(q) - 1] = q[Len(q)]
    BY <1>1, <1>2, <2>1
  <2> QED BY <1>1, <1>5, <2>2 DEF LastOf
<1> QED BY <1>4, <1>5, <1>1

-----------------------------------------------------------------------------
(* What a group message does.                                              *)

LEMMA Message ==
    ASSUME ScreensTypeOK, NEW gs, NEW to \in SUBSET gs, NEW view \in ScreenView, group_send(gs, view)
    PROVE  /\ inbox' \in [Watched -> Seq(ScreenView)]
           /\ \A g \in Watched \ gs : inbox'[g] = inbox[g]
           /\ ~Full(to) => \A g \in Watched \cap to : Shown(inbox'[g], screen'[g]) = view
<1>1. inbox' = [g \in Watched |-> IF g \in gs /\ Len(inbox[g]) < Capacity
                                  THEN Append(inbox[g], view) ELSE inbox[g]]
  BY DEF group_send
<1>2. \A g \in Watched : inbox[g] \in Seq(ScreenView) /\ Len(inbox[g]) \in Nat
  BY DEF ScreensTypeOK
<1>3. \A g \in Watched : /\ Append(inbox[g], view) \in Seq(ScreenView) /\ Append(inbox[g], view) # <<>>
                         /\ LastOf(Append(inbox[g], view)) = view
  BY <1>2, LastAppended
<1>4. ~Full(to) => \A g \in Watched \cap to : Len(inbox[g]) < Capacity
  BY <1>2, ScreenConstants DEF Full
<1>5. ~Full(to) => \A g \in Watched \cap to : inbox'[g] = Append(inbox[g], view)
  BY <1>1, <1>4
<1>6. inbox' \in [Watched -> Seq(ScreenView)] /\ \A g \in Watched \ gs : inbox'[g] = inbox[g]
  BY <1>1, <1>2, <1>3
<1> QED BY <1>3, <1>5, <1>6 DEF Shown

LEMMA RowsFit ==
    ASSUME NEW row \in Row
    PROVE  /\ Of(row) \in ScreenView
           /\ \A s \in Statuses : [row EXCEPT !.status = s] \in Row
           /\ \A on \in BOOLEAN : [row EXCEPT !.courier = on] \in Row
           /\ [row EXCEPT !.process = TRUE] \in Row
           /\ [row EXCEPT !.process = FALSE, !.status = "incident"] \in Row
BY DEF Row, Of, ScreenView, Statuses

LEMMA Tasks ==
    ASSUME ScreensTypeOK, NEW h \in Handlers, task[h] # NoTask
    PROVE  /\ task[h] \in Task /\ task[h].row \in Row /\ task[h].mem \in Row
           /\ task[h].want \in Statuses /\ task[h].via \in Vias
BY DEF ScreensTypeOK, Task

\* A request goes to another stage.
LEMMA TaskGoes ==
    ASSUME ScreensTypeOK, NEW h \in Handlers, task[h] # NoTask, NEW mem \in Row,
           NEW stage \in TaskStages, Go(h, mem, stage)
    PROVE  /\ task' \in [Handlers -> Task \cup {NoTask}]
           /\ \A k \in Handlers \ {h} : task'[k] = task[k]
           /\ task'[h] # NoTask /\ task'[h].stage = stage /\ task'[h].mem = mem
           /\ task'[h].via = task[h].via
<1>1. task[h] \in Task
  BY Tasks
<1>2. task' = [task EXCEPT ![h] = [[task[h] EXCEPT !.mem = mem] EXCEPT !.stage = stage]]
  BY <1>1 DEF Go, ScreensTypeOK
<1>3. [[task[h] EXCEPT !.mem = mem] EXCEPT !.stage = stage] \in Task
  BY <1>1 DEF Task
<1>4. task'[h] = [[task[h] EXCEPT !.mem = mem] EXCEPT !.stage = stage]
  BY <1>2 DEF ScreensTypeOK
<1> QED BY <1>1, <1>2, <1>3, <1>4, ScreenConstants DEF ScreensTypeOK, Task

\* Nobody but h has changed; whoever else was pending still is.
LEMMA OthersPend ==
    ASSUME NEW h \in Handlers, \A k \in Handlers \ {h} : task'[k] = task[k], ~Pending(h)
    PROVE  SomePending => SomePending'
BY DEF SomePending, Pending, In

\* A step that no screen and no waiting handler notices.
LEMMA Unseen ==
    ASSUME ScreensInv, ScreensTypeOK', NEW h \in Handlers, row_lock' = row_lock, order' = order, trouble' = trouble,
           \A g \in Watched \cap Parties : inbox'[g] = inbox[g], screen' = screen,
           \A k \in Handlers \ {h} : task'[k] = task[k],
           row_lock # h, ~In(h, {"saved"})', ~Pending(h)
    PROVE  ScreensInv'
<1>1. LockOK'
  BY DEF ScreensInv, LockOK, In
<1>2. SomePending => SomePending'
  BY OthersPend
<1>3. (Telling' <=> Telling) /\ (Telling => task'[row_lock'] = task[row_lock])
  BY DEF Telling, Sent, ScreensInv, ScreensTypeOK
<1>4. ASSUME ~trouble, NEW g \in Watched \cap Parties PROVE Right(g)'
  <2>1. Right(g)
    BY <1>4 DEF ScreensInv, ScreensCurrent
  <2>2. inbox'[g] = inbox[g] /\ screen'[g] = screen[g]
    OBVIOUS
  <2> QED BY <1>2, <1>3, <2>1, <2>2 DEF Right
<1> QED BY <1>1, <1>4 DEF ScreensInv, ScreensCurrent

-----------------------------------------------------------------------------
(* Actions.                                                                *)

LEMMA LockFacts ==
    ASSUME ScreensInv, NEW h \in Handlers
    PROVE  /\ In(h, {"saved"}) => row_lock = h /\ ~Pending(h)
           /\ task[h] = NoTask => row_lock # h /\ ~Pending(h)
           /\ In(h, {"loaded", "handled", "refused", "same", "failed"}) => row_lock # h /\ ~Pending(h)
           /\ In(h, {"done"}) => row_lock # h
BY DEF ScreensInv, LockOK, In, Pending

LEMMA AnnounceKeeps == ASSUME ScreensInv, Announce PROVE ScreensInv'
<1> DEFINE gs == ToNew(announced)
           view == Of(NewRow)
<1>1. view \in ScreenView
  <2>1. NewRow \in Row
    BY DEF NewRow, Row, Statuses
  <2> QED BY <2>1, RowsFit
<1>2. /\ group_send(gs, view) /\ trouble' = (trouble \/ Full(gs) \/ Stale(view))
      /\ order' = order /\ row_lock' = row_lock /\ task' = task /\ screen' = screen
  BY DEF Announce
<1> HIDE DEF view, gs
<1>3. /\ inbox' \in [Watched -> Seq(ScreenView)]
      /\ \A g \in Watched \ gs : inbox'[g] = inbox[g]
      /\ ~Full(gs) => \A g \in Watched \cap gs : Shown(inbox'[g], screen'[g]) = view
  BY <1>1, <1>2, Message DEF ScreensInv
<1>4. ScreensTypeOK'
  BY <1>2, <1>3 DEF ScreensInv, ScreensTypeOK, Full, Stale
<1>5. LockOK'
  BY <1>2 DEF ScreensInv, LockOK, In
<1>6. (Telling' <=> Telling) /\ task'[row_lock'] = task[row_lock] /\ (SomePending' <=> SomePending)
  BY <1>2 DEF Telling, Sent, SomePending, Pending, In
<1>7. ASSUME ~trouble', NEW g \in Watched \cap Parties PROVE Right(g)'
  <2>1. ~trouble /\ ~Full(gs) /\ view = Of(order) /\ row_lock = NoOne
    BY <1>2, <1>7 DEF Stale
  <2>2. Right(g) /\ ~Telling
    BY <2>1 DEF ScreensInv, ScreensCurrent, Telling
  <2>3. CASE g \in gs
    BY <1>2, <1>3, <1>6, <2>1, <2>2, <2>3 DEF Right
  <2>4. CASE g \notin gs
    <3>1. inbox'[g] = inbox[g] /\ screen'[g] = screen[g]
      BY <1>2, <1>3, <2>4
    <3> QED BY <1>2, <1>6, <2>2, <3>1 DEF Right
  <2> QED BY <2>3, <2>4
<1> QED BY <1>4, <1>5, <1>7 DEF ScreensInv, ScreensCurrent

LEMMA SilentKeeps ==
    ASSUME ScreensInv, UNCHANGED <<order, row_lock, task, inbox, screen, trouble>>
    PROVE  ScreensInv'
BY DEF ScreensInv, ScreensTypeOK, LockOK, ScreensCurrent, Right, Telling, SomePending, Pending, In, Sent

LEMMA LoadTaskKeeps ==
    ASSUME ScreensInv, NEW h \in Handlers, NEW r \in Requests, Load(h, r)
    PROVE  ScreensInv'
<1> DEFINE new == [via |-> r.via, want |-> r.want, row |-> order, mem |-> order, stage |-> "loaded"]
<1>1. task[h] = NoTask /\ task' = [task EXCEPT ![h] = new]
      /\ UNCHANGED <<order, row_lock, inbox, screen, trouble>>
  BY DEF Load
<1>2. new \in Task /\ new.stage = "loaded"
  BY ScreenConstants DEF Input, Task, TaskStages, ScreensInv, ScreensTypeOK
<1> HIDE DEF new
<1>3. task'[h] = new /\ \A k \in Handlers \ {h} : task'[k] = task[k]
  BY <1>1 DEF ScreensInv, ScreensTypeOK
<1>4. ScreensTypeOK'
  BY <1>1, <1>2 DEF ScreensInv, ScreensTypeOK
<1>5. ~In(h, {"saved"})'
  BY <1>2, <1>3 DEF In
<1> QED BY <1>1, <1>3, <1>4, <1>5, LockFacts, Unseen

\* The object in memory changes, or the request ends without a message to the screens.
LEMMA GoKeeps ==
    ASSUME ScreensInv, NEW h \in Handlers, In(h, {"loaded"}), NEW mem \in Row,
           NEW stage \in {"refused", "same", "handled"}, Go(h, mem, stage), Silent,
           inbox' \in [Watched -> Seq(ScreenView)], \A g \in Watched \cap Parties : inbox'[g] = inbox[g]
    PROVE  ScreensInv'
<1>1. task[h] # NoTask /\ stage \in TaskStages
  BY DEF In, TaskStages
<1>2. /\ task' \in [Handlers -> Task \cup {NoTask}]
      /\ \A k \in Handlers \ {h} : task'[k] = task[k]
      /\ task'[h].stage = stage
  BY <1>1, TaskGoes DEF ScreensInv
<1>3. UNCHANGED <<order, row_lock, screen, trouble>>
  BY DEF Silent
<1>4. ScreensTypeOK'
  BY <1>2, <1>3 DEF ScreensInv, ScreensTypeOK
<1>5. ~In(h, {"saved"})' /\ row_lock # h /\ ~Pending(h)
  BY <1>2, LockFacts DEF In
<1> QED BY <1>2, <1>3, <1>4, <1>5, Unseen

LEMMA UpdateTaskKeeps ==
    ASSUME ScreensInv, NEW h \in Handlers, Update(h) \/ AssignTaken(h)
    PROVE  ScreensInv'
<1>1. In(h, {"loaded"}) /\ task[h] # NoTask
  BY DEF Update, Refuse, Same, InProcess, PaymentFails, Handle, AssignTaken,
     Asks, Ready, In
<1>2. /\ task[h].row \in Row /\ task[h].want \in Statuses /\ order \in Row
      /\ inbox \in [Watched -> Seq(ScreenView)]
  BY <1>1, Tasks DEF ScreensInv, ScreensTypeOK
<1>3. \A s \in Statuses : Status(h, s) \in Row /\ Of(Status(h, s)) \in ScreenView
  BY <1>2, RowsFit DEF Status
<1>s. "accepted" \in Statuses /\ "created" \in Statuses
  BY DEF Statuses
<1>a. CASE Refuse(h)
  BY <1>1, <1>2, <1>a, GoKeeps DEF Refuse
<1>b. CASE Same(h)
  BY <1>1, <1>2, <1>b, GoKeeps DEF Same
<1>c. CASE InProcess(h)
  BY <1>1, <1>2, <1>3, <1>s, <1>c, GoKeeps DEF InProcess
<1>d. CASE PaymentFails(h)
  BY <1>1, <1>2, <1>3, <1>s, <1>d, GoKeeps DEF PaymentFails
<1>e. CASE Handle(h)
  <2>1. /\ Go(h, Status(h, task[h].want), "handled") /\ Silent
        /\ \/ group_send({"ready_orders"}, Of(Status(h, task[h].want)))
           \/ inbox' = inbox
    BY <1>e DEF Handle
  <2>2. inbox' \in [Watched -> Seq(ScreenView)] /\ \A g \in Watched \ {"ready_orders"} : inbox'[g] = inbox[g]
    <3> DEFINE gs   == {"ready_orders"}
               view == Of(Status(h, task[h].want))
    <3>1. view \in ScreenView /\ gs \in SUBSET gs
      BY <1>2, <1>3
    <3>2. group_send(gs, view) \/ inbox' = inbox
      BY <2>1
    <3> HIDE DEF gs, view
    <3>3. inbox' \in [Watched -> Seq(ScreenView)] /\ \A g \in Watched \ gs : inbox'[g] = inbox[g]
      <4>1. CASE group_send(gs, view)
        BY <3>1, <4>1, Message DEF ScreensInv
      <4> QED BY <1>2, <3>2, <4>1
    <3> QED BY <3>3 DEF gs
  <2>3. \A g \in Watched \cap Parties : inbox'[g] = inbox[g]
    BY <2>2 DEF Parties
  <2> QED BY <1>1, <1>2, <1>3, <2>1, <2>2, <2>3, GoKeeps
<1>f. CASE AssignTaken(h)
  BY <1>1, <1>2, <1>f, GoKeeps DEF AssignTaken
<1> QED BY <1>a, <1>b, <1>c, <1>d, <1>e, <1>f DEF Update

LEMMA FailKeeps ==
    ASSUME ScreensInv, NEW h \in Handlers, Fail(h) PROVE ScreensInv'
<1>1. /\ In(h, {"failed"}) /\ task' = [task EXCEPT ![h] = NoTask]
      /\ UNCHANGED <<order, row_lock, inbox, screen, trouble>>
  BY DEF Fail
<1>2. /\ task'[h] = NoTask /\ \A k \in Handlers \ {h} : task'[k] = task[k]
      /\ task' \in [Handlers -> Task \cup {NoTask}]
  BY <1>1 DEF ScreensInv, ScreensTypeOK
<1>3. ScreensTypeOK' /\ ~In(h, {"saved"})'
  BY <1>1, <1>2 DEF ScreensInv, ScreensTypeOK, In
<1>4. row_lock # h /\ ~Pending(h)
  BY <1>1, LockFacts DEF In
<1> QED BY <1>1, <1>2, <1>3, <1>4, Unseen

LEMMA SaveOrderKeeps ==
    ASSUME ScreensInv, NEW h \in Handlers, SaveOrder(h) PROVE ScreensInv'
<1>1. /\ In(h, {"handled"}) /\ task[h] # NoTask /\ row_lock = NoOne /\ row_lock' = h
      /\ task' = [task EXCEPT ![h].stage = "saved"] /\ order' = order /\ screen' = screen
      /\ IF Sent(task[h])
         THEN /\ group_send(Parties, Of(task[h].mem))
              /\ trouble' = (trouble \/ Full(Parties))
         ELSE UNCHANGED <<inbox, trouble>>
  BY DEF SaveOrder, In
<1>2. task[h] \in Task /\ task[h].mem \in Row
  BY <1>1, Tasks DEF ScreensInv
<1>3. /\ task'[h] = [task[h] EXCEPT !.stage = "saved"]
      /\ \A k \in Handlers \ {h} : task'[k] = task[k]
  BY <1>1 DEF ScreensInv, ScreensTypeOK
<1>4. /\ task'[h] \in Task /\ task'[h] # NoTask /\ task'[h].stage = "saved"
      /\ task'[h].mem = task[h].mem /\ task'[h].via = task[h].via
  BY <1>2, <1>3, ScreenConstants DEF Task, TaskStages
<1>5. /\ inbox' \in [Watched -> Seq(ScreenView)] /\ trouble' \in BOOLEAN
      /\ Sent(task[h]) /\ ~trouble' =>
           \A g \in Watched \cap Parties : Shown(inbox'[g], screen'[g]) = Of(task[h].mem)
  <2>1. CASE Sent(task[h])
    <3>1. Of(task[h].mem) \in ScreenView /\ Parties \in SUBSET Parties /\ ScreensTypeOK
      BY <1>2, RowsFit DEF ScreensInv
    <3>2. group_send(Parties, Of(task[h].mem)) /\ trouble' = (trouble \/ Full(Parties))
      BY <1>1, <2>1
    <3>3. /\ inbox' \in [Watched -> Seq(ScreenView)]
          /\ ~Full(Parties) => \A g \in Watched \cap Parties :
                                       Shown(inbox'[g], screen'[g]) = Of(task[h].mem)
      BY ONLY <3>1, <3>2, Message
    <3>4. trouble' \in BOOLEAN
      BY <3>2 DEF ScreensInv, ScreensTypeOK, Full
    <3> QED BY <3>2, <3>3, <3>4
  <2> QED BY <1>1, <2>1 DEF ScreensInv, ScreensTypeOK
<1>6. ScreensTypeOK'
  <2>1. task' \in [Handlers -> Task \cup {NoTask}]
    BY <1>1, <1>3, <1>4 DEF ScreensInv, ScreensTypeOK
  <2> QED BY <1>1, <1>5, <2>1 DEF ScreensInv, ScreensTypeOK
<1>7. LockOK'
  BY <1>1, <1>3, <1>4, ScreenConstants DEF ScreensInv, LockOK, In
<1>8. (Telling' <=> Sent(task[h])) /\ task'[row_lock'].mem = task[h].mem
  BY <1>1, <1>4, ScreenConstants DEF Telling, Sent
<1>9. SomePending => SomePending'
  BY <1>1, <1>3, LockFacts, OthersPend DEF In
<1>10. ASSUME ~trouble', NEW g \in Watched \cap Parties PROVE Right(g)'
  <2>1. CASE Sent(task[h])
    BY <1>5, <1>8, <1>10, <2>1 DEF Right
  <2>2. CASE ~Sent(task[h])
    <3>1. inbox' = inbox /\ ~trouble
      BY <1>1, <1>10, <2>2
    <3>2. Right(g) /\ ~Telling
      BY <1>1, <3>1 DEF ScreensInv, ScreensCurrent, Telling
    <3> QED BY <1>1, <1>8, <1>9, <2>2, <3>1, <3>2 DEF Right
  <2> QED BY <2>1, <2>2
<1> QED BY <1>6, <1>7, <1>10 DEF ScreensInv, ScreensCurrent

LEMMA CommitKeeps ==
    ASSUME ScreensInv, NEW h \in Handlers, Commit(h) PROVE ScreensInv'
<1>1. /\ In(h, {"saved"}) /\ task[h] # NoTask /\ order' = task[h].mem /\ row_lock' = NoOne
      /\ task' = [task EXCEPT ![h].stage = "done"] /\ inbox' = inbox /\ screen' = screen
      /\ trouble' = (trouble \/ (~Sent(task[h]) /\ task[h].mem # order))
  BY DEF Commit, In
<1>2. task[h] \in Task /\ task[h].mem \in Row /\ row_lock = h /\ ~Pending(h)
  BY <1>1, Tasks, LockFacts DEF ScreensInv
<1>3. /\ task'[h] = [task[h] EXCEPT !.stage = "done"]
      /\ \A k \in Handlers \ {h} : task'[k] = task[k]
  BY <1>1 DEF ScreensInv, ScreensTypeOK
<1>4. task'[h] \in Task /\ task'[h].stage = "done"
  BY <1>2, <1>3 DEF Task, TaskStages
<1>5. ScreensTypeOK'
  <2>1. task' \in [Handlers -> Task \cup {NoTask}]
    BY <1>1, <1>3, <1>4 DEF ScreensInv, ScreensTypeOK
  <2>2. trouble' \in BOOLEAN
    BY <1>1 DEF ScreensInv, ScreensTypeOK, Sent
  <2> QED BY <1>1, <1>2, <2>1, <2>2 DEF ScreensInv, ScreensTypeOK
<1>6. LockOK'
  BY <1>1, <1>2, <1>3, <1>4, ScreenConstants DEF ScreensInv, LockOK, In
<1>7. ~Telling' /\ (SomePending => SomePending')
  BY <1>1, <1>2, <1>3, OthersPend DEF Telling
<1>8. Telling <=> Sent(task[h])
  BY <1>2, ScreenConstants DEF Telling
<1>9. ASSUME ~trouble', NEW g \in Watched \cap Parties PROVE Right(g)'
  <2>1. Right(g) /\ (Telling \/ task[h].mem = order)
    BY <1>1, <1>8, <1>9 DEF ScreensInv, ScreensCurrent
  <2> QED BY <1>1, <1>2, <1>7, <2>1 DEF Right
<1> QED BY <1>5, <1>6, <1>9 DEF ScreensInv, ScreensCurrent

LEMMA AbortKeeps ==
    ASSUME ScreensInv, NEW h \in Handlers, Abort(h) PROVE ScreensInv'
<1>1. /\ In(h, {"loaded", "handled", "saved"}) /\ task[h] # NoTask
      /\ task' = [task EXCEPT ![h].stage = "failed"]
      /\ row_lock' = IF row_lock = h THEN NoOne ELSE row_lock
      /\ trouble' = (trouble \/ (task[h].stage = "saved" /\ Sent(task[h])))
      /\ UNCHANGED <<order, inbox, screen>>
  BY DEF Abort, In
<1>2. task[h] \in Task
  BY <1>1, Tasks DEF ScreensInv
<1>3. /\ task'[h] = [task[h] EXCEPT !.stage = "failed"]
      /\ \A k \in Handlers \ {h} : task'[k] = task[k]
  BY <1>1 DEF ScreensInv, ScreensTypeOK
<1>4. task'[h] \in Task /\ task'[h].stage = "failed"
  BY <1>2, <1>3 DEF Task, TaskStages
<1>5. ScreensTypeOK'
  <2>1. task' \in [Handlers -> Task \cup {NoTask}]
    BY <1>1, <1>3, <1>4 DEF ScreensInv, ScreensTypeOK
  <2>2. trouble' \in BOOLEAN
    BY <1>1 DEF ScreensInv, ScreensTypeOK, Sent
  <2> QED BY <1>1, <2>1, <2>2 DEF ScreensInv, ScreensTypeOK
<1>6. ~In(h, {"saved"})'
  BY <1>4 DEF In
<1>7. CASE task[h].stage # "saved"
  <2>1. In(h, {"loaded", "handled", "refused", "same", "failed"})
    BY <1>1, <1>7 DEF In
  <2>2. row_lock # h /\ ~Pending(h)
    BY <2>1, LockFacts
  <2>3. row_lock' = row_lock /\ trouble' = trouble
    BY <1>1, <1>7, <2>2 DEF ScreensInv, ScreensTypeOK
  <2> QED BY <1>1, <1>3, <1>5, <1>6, <2>2, <2>3, Unseen
<1>8. CASE task[h].stage = "saved"
  <2>1. row_lock = h /\ ~Pending(h)
    BY <1>1, <1>8, LockFacts DEF In
  <2>2. LockOK'
    BY <1>1, <1>3, <1>4, <2>1, ScreenConstants DEF ScreensInv, LockOK, In
  <2>3. ~Telling' /\ (SomePending => SomePending') /\ (Telling <=> Sent(task[h]))
    BY <1>1, <1>3, <2>1, OthersPend, ScreenConstants DEF Telling
  <2>4. ASSUME ~trouble', NEW g \in Watched \cap Parties PROVE Right(g)'
    <3>1. Right(g) /\ ~Telling
      BY <1>1, <1>8, <2>3, <2>4 DEF ScreensInv, ScreensCurrent
    <3> QED BY <1>1, <2>3, <3>1 DEF Right
  <2> QED BY <1>5, <2>2, <2>4 DEF ScreensInv, ScreensCurrent
<1> QED BY <1>7, <1>8

LEMMA AssignTaskKeeps ==
    ASSUME ScreensInv, NEW h \in Handlers, Assign(h) PROVE ScreensInv'
<1> DEFINE mem == [order EXCEPT !.courier = TRUE]
           new == [via |-> "assign", want |-> task[h].want, row |-> order, mem |-> mem, stage |-> "saved"]
<1>1. /\ In(h, {"loaded"}) /\ task[h] # NoTask /\ row_lock = NoOne /\ row_lock' = h
      /\ task' = [task EXCEPT ![h] = new] /\ order' = order /\ screen' = screen
      /\ group_send(Groups, Of(mem))
      /\ trouble' = (trouble \/ Full(Parties))
  BY DEF Assign, In
<1>2. mem \in Row /\ Of(mem) \in ScreenView
  BY RowsFit DEF ScreensInv, ScreensTypeOK
<1>3. new \in Task /\ new.stage = "saved" /\ new.mem = mem /\ new.via = "assign"
  BY <1>1, <1>2, Tasks DEF ScreensInv, ScreensTypeOK, Task, TaskStages, Vias
<1> HIDE DEF mem, new
<1>4. task'[h] = new /\ \A k \in Handlers \ {h} : task'[k] = task[k]
  BY <1>1 DEF ScreensInv, ScreensTypeOK
<1>5. /\ inbox' \in [Watched -> Seq(ScreenView)]
      /\ ~Full(Parties) =>
           \A g \in Watched \cap Parties : Shown(inbox'[g], screen'[g]) = Of(mem)
  <2>1. Parties \in SUBSET Groups
    BY DEF Parties
  <2> QED BY <1>1, <1>2, <2>1, Message DEF ScreensInv
<1>6. ScreensTypeOK'
  <2>1. task' \in [Handlers -> Task \cup {NoTask}]
    BY <1>1, <1>3 DEF ScreensInv, ScreensTypeOK
  <2> QED BY <1>1, <1>5, <2>1 DEF ScreensInv, ScreensTypeOK, Full
<1>7. LockOK'
  BY <1>1, <1>3, <1>4, ScreenConstants DEF ScreensInv, LockOK, In
<1>8. Telling' /\ task'[row_lock'].mem = mem
  BY <1>1, <1>3, <1>4, ScreenConstants DEF Telling, Sent
<1>9. ASSUME ~trouble', NEW g \in Watched \cap Parties PROVE Right(g)'
  BY <1>1, <1>5, <1>8, <1>9 DEF Right
<1> QED BY <1>6, <1>7, <1>9 DEF ScreensInv, ScreensCurrent

LEMMA WriteTaskKeeps ==
    ASSUME ScreensInv, NEW h \in Handlers, Write(h) PROVE ScreensInv'
<1>1. /\ In(h, {"loaded"}) /\ task[h] # NoTask /\ task[h].via \in {"process", "replace"}
      /\ row_lock = NoOne /\ UNCHANGED <<row_lock, inbox, screen, trouble>>
  BY DEF Write, In
<1>2. PICK mem \in Rewritten(h) : order' = mem /\ Go(h, mem, "done")
  BY DEF Write
<1>3. mem \in Row
  <2>1. task[h].row \in Row
    BY <1>1, Tasks DEF ScreensInv
  <2> QED BY <1>2, <2>1, RowsFit DEF Rewritten
<1>4. /\ task' \in [Handlers -> Task \cup {NoTask}]
      /\ \A k \in Handlers \ {h} : task'[k] = task[k]
      /\ task'[h] # NoTask /\ task'[h].stage = "done" /\ task'[h].via = task[h].via
  <2>1. "done" \in TaskStages
    BY DEF TaskStages
  <2> QED BY <1>1, <1>2, <1>3, <2>1, TaskGoes DEF ScreensInv
<1>5. ScreensTypeOK'
  BY <1>1, <1>2, <1>3, <1>4 DEF ScreensInv, ScreensTypeOK
<1>6. LockOK'
  BY <1>1, <1>4 DEF ScreensInv, LockOK, In
<1>7. SomePending' /\ ~Telling'
  BY <1>1, <1>4 DEF SomePending, Pending, In, Telling
<1> QED BY <1>5, <1>6, <1>7 DEF ScreensInv, ScreensCurrent, Right

LEMMA AnswerTaskKeeps ==
    ASSUME ScreensInv, NEW h \in Handlers, Answer(h) PROVE ScreensInv'
<1>1. /\ In(h, {"done", "refused", "same"}) /\ task[h] # NoTask
      /\ task' = [task EXCEPT ![h] = NoTask] /\ UNCHANGED <<order, row_lock, screen>>
  BY DEF Answer, In
<1> DEFINE view == Of(task[h].mem)
<1>2. PICK gs \in Told(h) :
         /\ group_send(gs, view)
         /\ trouble' = (\/ trouble
                        \/ gs # {} /\ (gs # Parties \/ Full(gs) \/ Stale(view)))
  BY DEF Answer
<1>3. view \in ScreenView
  BY <1>1, Tasks, RowsFit DEF ScreensInv
<1> HIDE DEF view
<1>4. /\ inbox' \in [Watched -> Seq(ScreenView)]
      /\ \A g \in Watched \ gs : inbox'[g] = inbox[g]
      /\ ~Full(gs) => \A g \in Watched \cap gs : Shown(inbox'[g], screen'[g]) = view
  <2>1. gs \in SUBSET gs
    OBVIOUS
  <2> QED BY <1>2, <1>3, <2>1, Message DEF ScreensInv
<1>5. /\ task'[h] = NoTask /\ \A k \in Handlers \ {h} : task'[k] = task[k]
      /\ task' \in [Handlers -> Task \cup {NoTask}]
  BY <1>1 DEF ScreensInv, ScreensTypeOK
<1>6. trouble' \in BOOLEAN
  BY <1>2 DEF ScreensInv, ScreensTypeOK, Full, Stale
<1>7. ScreensTypeOK' /\ ~In(h, {"saved"})'
  BY <1>1, <1>4, <1>5, <1>6 DEF ScreensInv, ScreensTypeOK, In
<1>8. row_lock # h
  BY <1>1 DEF ScreensInv, LockOK, In
<1>9. CASE gs = {}
  <2>1. ~Pending(h)
    BY <1>1, <1>2, <1>9 DEF Pending, Told, Again, Parties, Groups
  <2>2. trouble' = trouble /\ \A g \in Watched \cap Parties : inbox'[g] = inbox[g]
    BY <1>2, <1>4, <1>9 DEF ScreensInv, ScreensTypeOK
  <2> QED BY <1>1, <1>5, <1>7, <1>8, <2>1, <2>2, Unseen
<1>10. CASE gs # {}
  <2>1. LockOK'
    BY <1>1, <1>5, <1>7, <1>8 DEF ScreensInv, LockOK, In
  <2>2. ASSUME ~trouble', NEW g \in Watched \cap Parties PROVE Right(g)'
    <3>1. gs = Parties /\ ~Full(gs) /\ view = Of(order) /\ row_lock = NoOne
      BY <1>2, <1>10, <2>2 DEF Stale
    <3>2. ~Telling' /\ Shown(inbox'[g], screen'[g]) = Of(order')
      BY <1>1, <1>4, <3>1 DEF Telling
    <3> QED BY <3>2 DEF Right
  <2> QED BY <1>7, <2>1, <2>2 DEF ScreensInv, ScreensCurrent
<1> QED BY <1>9, <1>10

\* What a screen will show does not change when a message reaches it.
LEMMA DeliverKeeps ==
    ASSUME ScreensInv, NEW g \in Watched, Deliver(g) PROVE ScreensInv'
<1> DEFINE q == inbox[g]
           scr == [live |-> TRUE, status |-> Head(q).status, courier |-> Head(q).courier]
<1>1. /\ q # <<>> /\ inbox' = [inbox EXCEPT ![g] = Tail(q)]
      /\ screen' = [screen EXCEPT ![g] = scr]
      /\ UNCHANGED <<order, row_lock, task, trouble>>
  BY DEF Deliver
<1>2. q \in Seq(ScreenView)
  BY DEF ScreensInv, ScreensTypeOK
<1>3. /\ Tail(q) \in Seq(ScreenView) /\ Head(q) \in ScreenView
      /\ Tail(q) = <<>> => Head(q) = LastOf(q)
      /\ Tail(q) # <<>> => LastOf(Tail(q)) = LastOf(q)
  BY <1>1, <1>2, LastOfTail
<1>4. scr \in Screen /\ [status |-> scr.status, courier |-> scr.courier] = Head(q)
  BY <1>3 DEF ScreenView, Screen
<1>5. inbox'[g] = Tail(q) /\ screen'[g] = scr
      /\ \A k \in Watched \ {g} : inbox'[k] = inbox[k] /\ screen'[k] = screen[k]
  BY <1>1 DEF ScreensInv, ScreensTypeOK
<1>6. Shown(Tail(q), scr) = Shown(q, screen[g]) /\ Speaks(q, screen[g])
  BY <1>1, <1>3, <1>4 DEF Shown, Speaks
<1> HIDE DEF scr, q
<1>7. ScreensTypeOK'
  BY <1>1, <1>3, <1>4 DEF ScreensInv, ScreensTypeOK
<1>8. LockOK'
  BY <1>1 DEF ScreensInv, LockOK, In
<1>9. (Telling' <=> Telling) /\ task'[row_lock'] = task[row_lock] /\ (SomePending' <=> SomePending)
  BY <1>1 DEF Telling, Sent, SomePending, Pending, In
<1>10. ASSUME ~trouble', NEW k \in Watched \cap Parties PROVE Right(k)'
  <2>1. Right(k) /\ Shown(inbox'[k], screen'[k]) = Shown(inbox[k], screen[k])
    BY <1>1, <1>5, <1>6, <1>10 DEF ScreensInv, ScreensCurrent, q
  <2>2. Speaks(inbox'[k], screen'[k]) => Speaks(inbox[k], screen[k])
    BY <1>5, <1>6 DEF q
  <2> QED BY <1>1, <1>9, <2>1, <2>2 DEF Right
<1> QED BY <1>7, <1>8, <1>10 DEF ScreensInv, ScreensCurrent

LEMMA ReconnectKeeps ==
    ASSUME ScreensInv, NEW g \in Watched, Reconnect(g) PROVE ScreensInv'
<1>1. /\ inbox' = [inbox EXCEPT ![g] = <<>>] /\ screen' = [screen EXCEPT ![g] = Blank]
      /\ UNCHANGED <<order, row_lock, task, trouble>>
  BY DEF Reconnect
<1>2. Blank \in Screen /\ ~Blank.live /\ <<>> \in Seq(ScreenView)
  BY DEF Blank, Screen, Statuses
<1>3. inbox'[g] = <<>> /\ screen'[g] = Blank
      /\ \A k \in Watched \ {g} : inbox'[k] = inbox[k] /\ screen'[k] = screen[k]
  BY <1>1 DEF ScreensInv, ScreensTypeOK
<1>4. ScreensTypeOK'
  BY <1>1, <1>2 DEF ScreensInv, ScreensTypeOK
<1>5. LockOK'
  BY <1>1 DEF ScreensInv, LockOK, In
<1>6. (Telling' <=> Telling) /\ task'[row_lock'] = task[row_lock] /\ (SomePending' <=> SomePending)
  BY <1>1 DEF Telling, Sent, SomePending, Pending, In
<1>7. ~Speaks(inbox'[g], screen'[g])
  BY <1>2, <1>3 DEF Speaks
<1>8. ASSUME ~trouble', NEW k \in Watched \cap Parties PROVE Right(k)'
  <2>1. Right(k)
    BY <1>1, <1>8 DEF ScreensInv, ScreensCurrent
  <2> QED BY <1>1, <1>3, <1>6, <1>7, <2>1 DEF Right
<1> QED BY <1>4, <1>5, <1>8 DEF ScreensInv, ScreensCurrent

-----------------------------------------------------------------------------
LEMMA ScreensInitially == ASSUME InitScreens PROVE ScreensInv
<1>1. /\ order \in FoundRows /\ row_lock = NoOne /\ task = [h \in Handlers |-> NoTask]
      /\ inbox = [g \in Watched |-> <<>>] /\ screen = [g \in Watched |-> Blank] /\ trouble = FALSE
  BY DEF InitScreens
<1>2. Blank \in Screen /\ ~Blank.live /\ <<>> \in Seq(ScreenView)
  BY DEF Blank, Screen, Statuses
<1>3. ScreensTypeOK
  BY <1>1, <1>2, ScreenConstants DEF ScreensTypeOK
<1>4. LockOK
  BY <1>1, ScreenConstants DEF LockOK, In
<1>5. \A g \in Watched : ~Speaks(inbox[g], screen[g])
  BY <1>1, <1>2 DEF Speaks
<1> QED BY <1>3, <1>4, <1>5 DEF ScreensInv, ScreensCurrent, Right

LEMMA ScreensInductive == ASSUME ScreensInv, [NextScreens]_screenVars PROVE ScreensInv'
<1>1. CASE UNCHANGED screenVars
  BY <1>1, SilentKeeps DEF screenVars
<1>2. CASE Announce
  BY <1>2, AnnounceKeeps
<1>3. CASE AnnounceFails
  BY <1>3, SilentKeeps DEF AnnounceFails
<1>4. ASSUME NEW h \in Handlers, Step(h) PROVE ScreensInv'
  BY <1>4, UpdateTaskKeeps, SaveOrderKeeps, CommitKeeps, AbortKeeps, AssignTaskKeeps, WriteTaskKeeps, AnswerTaskKeeps,
     FailKeeps DEF Step
<1>5. ASSUME NEW h \in Handlers, NEW r \in Requests, Load(h, r) PROVE ScreensInv'
  BY <1>5, LoadTaskKeeps
<1>6. ASSUME NEW g \in Watched, Deliver(g) \/ Reconnect(g) PROVE ScreensInv'
  BY <1>6, DeliverKeeps, ReconnectKeeps
<1> QED BY <1>1, <1>2, <1>3, <1>4, <1>5, <1>6 DEF NextScreens

\* A screen with nothing to come shows the committed order, however many handlers
\* save, notify, commit and fail around it, unless a message had no commit behind it
\* or was dropped.
THEOREM ScreensShowTheOrder == SpecScreens => []ScreensAgree
<1>1. InitScreens => ScreensInv
  BY ScreensInitially
<1>2. ScreensInv /\ [NextScreens]_screenVars => ScreensInv'
  BY ScreensInductive
<1>3. ScreensInv => ScreensAgree
  <2> SUFFICES ASSUME ScreensInv, NEW g \in Watched \cap Parties,
                      screen[g].live, inbox[g] = <<>>, ~trouble,
                      \A h \in Handlers : ~In(h, {"saved", "done"})
               PROVE  screen[g].status = order.status /\ screen[g].courier = order.courier
    BY DEF ScreensAgree
  <2>1. row_lock = NoOne /\ ~SomePending
    BY DEF ScreensInv, ScreensTypeOK, LockOK, SomePending, Pending, In
  <2>2. Right(g) /\ Speaks(inbox[g], screen[g]) /\ ~Telling
    BY <2>1 DEF ScreensInv, ScreensCurrent, Speaks, Telling
  <2>3. Shown(inbox[g], screen[g]) = Of(order)
    BY <2>1, <2>2 DEF Right
  <2>4. [status |-> screen[g].status, courier |-> screen[g].courier] =
        [status |-> order.status, courier |-> order.courier]
    BY <2>3 DEF Shown, Of
  <2> QED BY <2>4
<1> QED BY <1>1, <1>2, <1>3, PTL DEF SpecScreens

=============================================================================
