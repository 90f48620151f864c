------------------------------- MODULE Devices -------------------------------
(***************************************************************************)
(* The security plugin: the rows of one user's login devices and the audit *)
(* log.  The listener's handlers are started by the events of a login,     *)
(* often two of them back to back, and nobody waits for them.              *)
(*                                                                         *)
(* Names, addresses and cities of devices decide nothing and are left out. *)
(***************************************************************************)
EXTENDS Integers

CONSTANTS
  Calls,        \* handlers and calls of logoutDevice
  DeviceIds,
  None,         \* no device claim in the token
  MaxRows,      \* bound on the rows ever inserted
  MaxFailures   \* bound on failed awaits and restarts

RowIds == 1 .. MaxRows
Rows == [exists : BOOLEAN, device : DeviceIds \cup {None}, isCurrent : BOOLEAN]
NoRow == [exists |-> FALSE, device |-> None, isCurrent |-> FALSE]

Events == {"LOGIN", "DEVICE_LOGOUT"} \X DeviceIds

VARIABLES
  devices,   \* rows of user_login_device
  audit,     \* how many rows of security_audit_log tell of each event
  call,      \* local state of each call
  changes,   \* history: how many saves of the device, and how many removals of a row
  contested, \* history: devices one of whose rows two calls of logoutDevice held at once
  failures

vars == <<devices, audit, call, changes, contested, failures>>

\* id: the row at hand, 0 for a new one.
Local == [pc : {"idle", "save", "remove", "auditLogin", "auditLogout", "done"},
          id : RowIds \cup {0}, row : Rows]

Idle == [pc |-> "idle", id |-> 0, row |-> NoRow]
Done == [Idle EXCEPT !.pc = "done"]

TypeOK ==
  /\ devices \in [RowIds -> Rows]
  /\ audit \in [Events -> Nat] /\ changes \in [Events -> Nat]
  /\ call \in [Calls -> Local]
  /\ contested \subseteq DeviceIds
  /\ failures \in 0 .. MaxFailures

Init ==
  /\ devices = [i \in RowIds |-> NoRow]
  /\ audit = [e \in Events |-> 0] /\ changes = audit
  /\ call = [c \in Calls |-> Idle]
  /\ contested = {} /\ failures = 0

At(c, pc) == call[c].pc = pc

RowsOf(d) == {i \in RowIds : devices[i].exists /\ devices[i].device = d}

(***************************************************************************)
(* addDevice, for an event of registration or login.                       *)
(***************************************************************************)
\* findOne: any of the device's rows, or none.  Every event marks its device
\* as the current one, and nothing unmarks the others.
AddDevice(c, d) ==
  LET row == [exists |-> TRUE, device |-> d, isCurrent |-> TRUE]
  IN /\ At(c, "idle")
     /\ \/ /\ RowsOf(d) = {}
           /\ call' = [call EXCEPT ![c] = [pc |-> "save", id |-> 0, row |-> row]]
        \/ \E i \in RowsOf(d) : call' = [call EXCEPT ![c] = [pc |-> "save", id |-> i, row |-> row]]
     /\ UNCHANGED <<devices, audit, changes, contested, failures>>

\* A new row, or the loaded one, which save inserts again if it was removed.
SaveDevice(c) ==
  LET new == {i \in RowIds : devices[i] = NoRow}
  IN /\ At(c, "save")
     /\ \E i \in IF call[c].id = 0 THEN new ELSE {call[c].id} :
          /\ \A j \in new : call[c].id = 0 => i <= j
          /\ devices' = [devices EXCEPT ![i] = call[c].row]
     /\ changes' = [changes EXCEPT ![<<"LOGIN", call[c].row.device>>] = @ + 1]
     /\ call' = [call EXCEPT ![c].pc = "auditLogin"]
     /\ UNCHANGED <<audit, contested, failures>>

(***************************************************************************)
(* logoutDevice, with the device claim of the token or without.            *)
(***************************************************************************)
\* Mutation: the removal is forgotten.
LogoutDeviceOnlyTold(c, d, claim) ==
  /\ At(c, "idle")
  /\ \E i \in RowsOf(d) :
       /\ IF claim = None THEN ~devices[i].isCurrent ELSE d # claim
       /\ call' = [call EXCEPT ![c] = [pc |-> "auditLogout", id |-> i, row |-> devices[i]]]
  /\ UNCHANGED <<devices, audit, changes, contested, failures>>

\* Since every row is marked as current, a token without the claim logs out nothing.
LogoutDevice(c, d, claim) ==
  /\ At(c, "idle")
  /\ \E i \in RowsOf(d) :
       /\ IF claim = None THEN ~devices[i].isCurrent ELSE d # claim
       /\ call' = [call EXCEPT ![c] = [pc |-> "remove", id |-> i, row |-> devices[i]]]
       /\ contested' = IF \E other \in Calls : At(other, "remove") /\ call[other].id = i
                       THEN contested \cup {d} ELSE contested
  /\ UNCHANGED <<devices, audit, changes, failures>>

\* remove deletes by id; that another call has deleted the row goes unnoticed.
RemoveDevice(c) ==
  /\ At(c, "remove")
  /\ devices' = [devices EXCEPT ![call[c].id].exists = FALSE]
  /\ changes' = IF devices[call[c].id].exists
                THEN [changes EXCEPT ![<<"DEVICE_LOGOUT", call[c].row.device>>] = @ + 1]
                ELSE changes
  /\ call' = [call EXCEPT ![c].pc = "auditLogout"]
  /\ UNCHANGED <<audit, contested, failures>>

AddAuditLog(c) ==
  /\ At(c, "auditLogin") \/ At(c, "auditLogout")
  /\ LET event == IF At(c, "auditLogin") THEN "LOGIN" ELSE "DEVICE_LOGOUT"
     IN audit' = [audit EXCEPT ![<<event, call[c].row.device>>] = @ + 1]
  /\ call' = [call EXCEPT ![c] = Done]
  /\ UNCHANGED <<devices, changes, contested, failures>>

AwaitFails(c) ==
  /\ call[c].pc \notin {"idle", "done"}
  /\ failures < MaxFailures
  /\ failures' = failures + 1
  /\ call' = [call EXCEPT ![c] = Done]
  /\ UNCHANGED <<devices, audit, changes, contested>>

Next ==
  \E c \in Calls :
    \/ \E d \in DeviceIds : AddDevice(c, d)
    \/ \E d \in DeviceIds, claim \in DeviceIds \cup {None} : LogoutDevice(c, d, claim)
    \/ SaveDevice(c) \/ RemoveDevice(c) \/ AddAuditLog(c) \/ AwaitFails(c)

Spec == Init /\ [][Next]_vars

-----------------------------------------------------------------------------
(***************************************************************************)
(* Properties.                                                             *)
(***************************************************************************)
\* The audit log tells of no more logouts of a device than removals of a row of
\* it, whatever logins insert second rows, mark rows again or bring removed ones
\* back - unless two calls of logoutDevice held one row at once, when both are
\* told and one row is removed.  (Of logins, of no more than saved the device.)
\* And when no call is under way it misses none, unless an await failed.
AuditIsTrue ==
  /\ \A e \in Events : e[2] \notin contested => audit[e] <= changes[e]
  /\ failures = 0 /\ (\A c \in Calls : call[c].pc \in {"idle", "done"})
       => \A e \in Events : changes[e] <= audit[e]
=============================================================================
