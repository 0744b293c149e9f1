-------------------------- MODULE MCNotifications --------------------------
(* A small instance of Notifications: an order is accepted, assigned, given *)
(* to another courier, marked in process, set back, rejected.              *)
EXTENDS Notifications
R(via, want) == [via |-> via, want |-> want]
MCRequests   == {R("view", "accepted"), R("crm", "created"), R("crm", "rejected"), R("view", "ready"),
                 R("assign", "accepted"), R("replace", "accepted"), R("process", "incident")}
MCFound      == {NewRow, [status |-> "accepted", courier |-> TRUE, process |-> FALSE]}
=============================================================================
