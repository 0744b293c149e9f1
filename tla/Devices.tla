------------------------------- MODULE Devices -------------------------------
(***************************************************************************)
(* The phones and browsers that accounts have signed up for push           *)
(* notifications, beside the accounts themselves.  A registration id is    *)
(* unique in the table (user/migrations/0012) and belongs to one           *)
(* installation of one app.  The views read a row, delete it by its        *)
(* primary key or save it, and none has a transaction; Django's save()     *)
(* inserts a row again that was deleted since it was read.                 *)
(***************************************************************************)
EXTENDS Accounts

CONSTANTS Tokens,    \* registration ids, each of one installation
          SignedUp,  \* those signed up at the beginning, and by whom
          Calls,     \* requests about devices under way
          NoCall, NoDevice

ASSUME DevicesAssumption ==
    /\ DOMAIN SignedUp \subseteq Tokens
    /\ \A t \in DOMAIN SignedUp : SignedUp[t] \in {Customer, Owner, Admin}

VARIABLES device,    \* the row with each registration id
          call,
          phone,     \* whom each installation is signed in as: its last good answer
          dead,      \* installations that were removed; FCM refuses their ids
          crossed    \* ids whose row changed while a request was about them
devices == <<device, call, phone, dead, crossed>>

Device == [user : Users, active : BOOLEAN, pk : 1 .. MaxRequests + 1]
View   == {"register", "crm", "patch", "logout"}
Call   == [view : View, at : {"wipe", "add", "mark"}, u : Users, t : Tokens,
           row : Device \cup {NoDevice}]

ASSUME DeviceSentinels == NoCall \notin Call /\ NoDevice \notin Device

InitDevices ==
    /\ Init
    /\ device = [t \in Tokens |-> IF t \in DOMAIN SignedUp
                                  THEN [user |-> SignedUp[t], active |-> TRUE, pk |-> MaxRequests + 1]
                                  ELSE NoDevice]
    /\ phone = [t \in Tokens |-> IF t \in DOMAIN SignedUp THEN SignedUp[t] ELSE None]
    /\ call = [c \in Calls |-> NoCall] /\ dead = {} /\ crossed = {}

\* A request of u, whose token of the API is refused once the account is not active.
Ask(c, view, at, u, t, row) ==
    /\ call[c] = NoCall /\ requests < MaxRequests
    /\ user[u].active /\ t \notin dead
    /\ requests' = requests + 1
    /\ call' = [call EXCEPT ![c] = [view |-> view, at |-> at, u |-> u, t |-> t, row |-> row]]
    /\ UNCHANGED <<tables, job, gone, loose, device, phone, dead>>
Answered(c) == call' = [call EXCEPT ![c] = NoCall]
At(c, at)   == call[c] # NoCall /\ call[c].at = at
Quiet       == UNCHANGED <<tables, job, requests, gone, loose>>
\* u's row with this id.
Own(u, t)   == device[t] # NoDevice /\ device[t].user = u

-----------------------------------------------------------------------------
(* Requests.                                                               *)

\* (Mutant: only a row of the caller's own is replaced.)
PostDeviceOwn(c, u, t) ==
    IF Own(u, t) THEN Ask(c, "register", "wipe", u, t, device[t])
    ELSE Ask(c, "register", "add", u, t, NoDevice)

\* POST devices/: the row with this id, whoever it belongs to, is replaced.
PostDevice(c, u, t) ==
    IF device[t] # NoDevice THEN Ask(c, "register", "wipe", u, t, device[t])
    ELSE Ask(c, "register", "add", u, t, NoDevice)

\* The panel only adds.
RegisterDevice(c, u, t) == Ask(c, "crm", "add", u, t, NoDevice)

\* PATCH devices/ switches pushes on and off; without a row it fails.
PatchDevice(c, u, t, active) ==
    /\ Own(u, t)
    /\ Ask(c, "patch", "mark", u, t, [device[t] EXCEPT !.active = active])

\* Of app and panel; without a row it succeeds and does nothing.
Logout(c, u, t) == Own(u, t) /\ Ask(c, "logout", "wipe", u, t, device[t])

-----------------------------------------------------------------------------
(* Steps.                                                                  *)

\* delete() of the row that was read: by its primary key.
Wipe(c) ==
    /\ At(c, "wipe")
    /\ LET t == call[c].t IN
       /\ device' = IF device[t] # NoDevice /\ device[t].pk = call[c].row.pk
                    THEN [device EXCEPT ![t] = NoDevice] ELSE device
       /\ IF call[c].view = "logout"
          THEN Answered(c) /\ phone' = [phone EXCEPT ![t] = None]
          ELSE call' = [call EXCEPT ![c] = [@ EXCEPT !.at = "add"]] /\ UNCHANGED phone
    /\ Quiet /\ UNCHANGED dead

\* The serializer or the unique column refuses an id that is in the table.  The app
\* is signed in as its user either way, the panel without a row is not.
Add(c) ==
    /\ At(c, "add")
    /\ LET t == call[c].t  u == call[c].u  free == device[t] = NoDevice IN
       /\ device' = IF free
                    THEN [device EXCEPT ![t] = [user |-> u, active |-> TRUE, pk |-> requests]]
                    ELSE device
       /\ phone' = IF free \/ call[c].view = "register" THEN [phone EXCEPT ![t] = u] ELSE phone
    /\ Answered(c) /\ Quiet /\ UNCHANGED dead

\* save(): an update by primary key, and when no row has it any more, an insert.
Mark(c) ==
    /\ At(c, "mark")
    /\ LET t == call[c].t IN
       device' = IF device[t] = NoDevice \/ device[t].pk = call[c].row.pk
                 THEN [device EXCEPT ![t] = call[c].row] ELSE device
    /\ Answered(c) /\ Quiet /\ UNCHANGED <<phone, dead>>

DieDevice(c) ==
    /\ call[c] # NoCall /\ Answered(c)
    /\ Quiet /\ UNCHANGED <<device, phone, dead>>

\* The app is removed from the phone, or FCM gives it a new id.
Uninstall(t) ==
    /\ t \notin dead /\ requests < MaxRequests /\ requests' = requests + 1
    /\ dead' = dead \cup {t} /\ phone' = [phone EXCEPT ![t] = None]
    /\ UNCHANGED <<tables, job, gone, loose, device, call>>

-----------------------------------------------------------------------------
(* Pushes.                                                                 *)

Reached(A) == {t \in Tokens : device[t] # NoDevice /\ device[t].active /\ device[t].user \in A}

\* Who is told of a new order: workers of the branch, administrator and owner.
Restaurant == worker \cup ({institution.holder[p] : p \in Posts} \ {None})

\* One consumer per kind of message: rows of the ids that FCM refuses are deleted.
\* Customer, courier, all couriers, or the restaurant.
FirebaseConsumer(A) ==
    /\ Reached(A) \cap dead # {}
    /\ device' = [t \in Tokens |-> IF t \in Reached(A) \cap dead THEN NoDevice ELSE device[t]]
    /\ Quiet /\ UNCHANGED <<call, phone, dead>>

\* A message to all switches off every id that failed, for whatever reason.
SendToAll ==
    /\ requests < MaxRequests /\ requests' = requests + 1
    /\ \E failed \in SUBSET Reached(Users) :
         /\ Reached(Users) \cap dead \subseteq failed
         /\ device' = [t \in Tokens |-> IF t \in failed THEN [device[t] EXCEPT !.active = FALSE]
                                        ELSE device[t]]
    /\ UNCHANGED <<tables, job, gone, loose, call, phone, dead>>

-----------------------------------------------------------------------------
Crossed == {t \in Tokens : device'[t] # device[t] /\
              \E c \in Calls : call[c] # NoCall /\ call[c].t = t /\ call'[c] = call[c]}

DeviceSteps ==
    \/ \E c \in Calls, u \in Users, t \in Tokens :
         \/ PostDevice(c, u, t) \/ RegisterDevice(c, u, t) \/ Logout(c, u, t)
         \/ \E active \in BOOLEAN : PatchDevice(c, u, t, active)
    \/ \E c \in Calls : Wipe(c) \/ Add(c) \/ Mark(c) \/ DieDevice(c)
    \/ \E t \in Tokens : Uninstall(t)
    \/ \E A \in {{u} : u \in Users} \cup {Users, Restaurant} : FirebaseConsumer(A)
    \/ SendToAll

NextDevices ==
    \/ Next /\ UNCHANGED devices
    \/ DeviceSteps /\ crossed' = crossed \cup Crossed /\ UNCHANGED raced

SpecDevices == InitDevices /\ [][NextDevices]_<<vars, devices>>

-----------------------------------------------------------------------------
(* Properties.                                                             *)

\* A push about an order arrives where somebody of the restaurant is signed in.  The
\* device with a row is signed in as the account of the row, though one phone serves
\* several accounts and rows are deleted and saved by what was read before: not so
\* for an id that two requests were about at once.  And it is an account that works
\* there, as long as accounts and posts agree (PostsAgree): deleting an account, or
\* dropping it from its post, leaves its devices in the table.
PushesArrive ==
    \A t \in Tokens \ (crossed \cup dead) :
       (device[t] # NoDevice /\ ~\E c \in Calls : call[c] # NoCall /\ call[c].t = t) =>
          /\ phone[t] = device[t].user
          /\ (t \in Reached(Restaurant) /\ None \notin raced /\ ~institution.deleted
              /\ device[t].user \notin loose \cup raced /\ ~Busy(device[t].user)) =>
               user[phone[t]].active /\ user[phone[t]].type \in Staff
=============================================================================
