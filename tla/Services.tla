------------------------------- MODULE Services -------------------------------
(***************************************************************************)
(* The services that run beside the wallet and the sessions.  They share   *)
(* no state that these modules keep, so they share a specification         *)
(* instead: the initial state puts one of them in focus, and only that one *)
(* moves.  Roles, extended, keeps its variables and rests in its initial   *)
(* state while it is out of focus; the others use registers x1 to x8 for   *)
(* theirs.  Nine of them come through one module, which holds the proofs   *)
(* about them as well; so do accounts and guards.                          *)
(***************************************************************************)
EXTENDS Roles

CONSTANTS
  Three,   \* the requests of every service but Roles
  None,
  Wx, Phones, Cooldown, CodeLife, MaxUsers,           \* Accounts
  Orders, Transactions, Notifies, Receipts,           \* Payments
  MaxToken, Life, Margin,                             \* Wechat
  Entries, FlushSize,                                 \* ApiMonitor
  MaxNotices,                                         \* Notices
  DeviceIds, MaxRows,                                 \* Devices
  PictureIds, Files, Settings,                        \* Catalogue
  Sheet, Names, MaxCompanies,                         \* Couriers
  Tasks, Rewards,                                     \* Member
  File, MaxId,                                        \* Regions
  Requests, Grants, MaxChanges                        \* Guards

VARIABLES focus, x1, x2, x3, x4, x5, x6, x7, x8

Registers == <<x1, x2, x3, x4, x5, x6, x7, x8>>

Acc == INSTANCE AccountsProofs WITH
  Calls <- Three, Life <- CodeLife, users <- x1, privacy <- x2, sms <- x3, uses <- x4,
  spoiled <- x5, outcasts <- x6, call <- x7, failures <- x8

Small == INSTANCE SmallServicesProofs WITH
  Calls <- Three, Ids <- PictureIds, call <- x7, failures <- x8,
  orders <- x1, transactions <- x2, notifies <- x3, overdue <- x4, mixed <- x6,
  configured <- x1, age <- x2, issued <- x3, revoked <- x4, cache <- x5, rejected <- x6,
  mode <- x1, buffer <- x2, saving <- x3, last <- x4, stored <- x5, fate <- x6,
  notices <- x1, confirms <- x2, settled <- x3, withdrawn <- x4,
  devices <- x1, audit <- x2, changes <- x3, contested <- x4,
  kind <- x1, rows <- x2, config <- x3,
  companies <- x1, typed <- x3, overlaps <- x4,
  profiles <- x1, tasks <- x2, records <- x3, growth <- x4, overlapped <- x5,
  nextId <- x1, loaded <- x3

Gua == INSTANCE GuardsProofs WITH
  status <- x1, granted <- x2, request <- x3, changes <- x4, failures <- x8

\* What the code, or the data it is delivered with, says of the constants.
ASSUME ServicesAssumption ==
  /\ IsFiniteSet(Three) /\ None \notin Three /\ None \notin Receipts
  /\ Life \in Nat /\ Margin \in Nat /\ CodeLife \in Nat
  /\ MaxUsers \in Nat /\ MaxId \in Nat /\ MaxChanges \in Nat
  /\ Rewards \subseteq Int
  /\ Small!SettingsWellFormed /\ Small!SheetWellFormed /\ Small!FileWellFormed

all == <<vars, focus, Registers>>

AllInit ==
  /\ Init
  /\ \/ focus = "roles" /\ x1 = {} /\ x2 = {} /\ x3 = {} /\ x4 = {} /\ x5 = {} /\ x6 = {} /\ x7 = {} /\ x8 = {}
     \/ focus = "accounts" /\ Acc!Init
     \/ focus = "payments" /\ Small!Pay!Init /\ x5 = {}
     \/ focus = "devices" /\ Small!Dev!Init /\ x5 = {} /\ x6 = {}
     \/ focus = "member" /\ Small!Mem!Init
     \/ focus = "apiMonitor" /\ Small!Api!Init /\ x7 = {}
     \/ focus = "wechat" /\ Small!Wec!Init /\ x8 = {}
     \/ focus = "notices" /\ Small!Not!Init /\ x5 = {} /\ x6 = {}
     \/ focus = "catalogue" /\ Small!Cat!Init /\ x4 = {} /\ x5 = {} /\ x6 = {}
     \/ focus = "regions" /\ Small!Reg!Init /\ x5 = {} /\ x6 = {}
     \/ focus = "couriers" /\ Small!Cou!Init /\ x2 = {} /\ x5 = {} /\ x6 = {}
     \/ focus = "guards" /\ Gua!Init /\ x5 = {} /\ x6 = {} /\ x7 = {}

\* Bound: a second row under one code only while nothing has failed.
RolesBound == failures' = 0 \/ \A code \in Codes : inserted'[code] <= 1

\* Roles moves alone, and so does every other service.
AllNext ==
  /\ UNCHANGED focus
  /\ \/ focus = "roles" /\ Next /\ RolesBound /\ UNCHANGED Registers
     \/ focus = "accounts" /\ Acc!Next /\ UNCHANGED vars
     \/ focus = "payments" /\ Small!Pay!Next /\ UNCHANGED <<vars, x5>>
     \/ focus = "devices" /\ Small!Dev!Next /\ UNCHANGED <<vars, x5, x6>>
     \/ focus = "member" /\ Small!Mem!Next /\ UNCHANGED vars
     \/ focus = "apiMonitor" /\ Small!Api!Next /\ UNCHANGED <<vars, x7>>
     \/ focus = "wechat" /\ Small!Wec!Next /\ UNCHANGED <<vars, x8>>
     \/ focus = "notices" /\ Small!Not!Next /\ UNCHANGED <<vars, x5, x6>>
     \/ focus = "catalogue" /\ Small!Cat!Next /\ UNCHANGED <<vars, x4, x5, x6>>
     \/ focus = "regions" /\ Small!Reg!Next /\ UNCHANGED <<vars, x5, x6>>
     \/ focus = "couriers" /\ Small!Cou!Next /\ UNCHANGED <<vars, x2, x5, x6>>
     \/ focus = "guards" /\ Gua!Next /\ UNCHANGED <<vars, x5, x6, x7>>

AllSpec == AllInit /\ [][AllNext]_all

-----------------------------------------------------------------------------
(***************************************************************************)
(* Properties: those of the modules, each for the behaviours in which its  *)
(* service is in focus.  Those of Roles hold under their own names.        *)
(***************************************************************************)
\* The type invariant of the service in focus.
TypesOK ==
  /\ TypeOK
  /\ focus = "accounts" => Acc!TypeOK
  /\ focus = "payments" => Small!Pay!TypeOK
  /\ focus = "devices" => Small!Dev!TypeOK
  /\ focus = "member" => Small!Mem!TypeOK
  /\ focus = "apiMonitor" => Small!Api!TypeOK
  /\ focus = "wechat" => Small!Wec!TypeOK
  /\ focus = "notices" => Small!Not!TypeOK
  /\ focus = "catalogue" => Small!Cat!TypeOK
  /\ focus = "regions" => Small!Reg!TypeOK
  /\ focus = "couriers" => Small!Cou!TypeOK
  /\ focus = "guards" => Gua!TypeOK

\* A verification code gets one call past the check, however many present it.
CodeUsedOnce == focus = "accounts" => Acc!CodeUsedOnce

\* Every account gets its privacy settings, however it was created.
AccountsComplete == focus = "accounts" => Acc!AccountsComplete

\* A user who is banned all along does not log in.
BannedStayOut == focus = "accounts" => Acc!BannedStayOut

\* No recharge that was paid is cancelled or opened again.
PaidIsFinal == [][focus = "payments" => Small!Pay!PaidStays]_all

\* Receipts, dates and statuses of payments agree, whatever overtakes what, but in
\* rows that two saves have written at once.
ReceiptMatchesStatus == focus = "payments" => Small!Pay!ReceiptMatchesStatus

\* The audit log tells of what happened to login devices, all of it and, of devices
\* that no two logouts removed at once, no more.
AuditIsTrue == focus = "devices" => Small!Dev!AuditIsTrue

\* A profile's level is the one that its growth earns, unless two saves wrote it at
\* once.
LevelMatchesGrowth == focus = "member" => Small!Mem!LevelMatchesGrowth

\* Growth records explain a user's growth unless two rewards ran at once.
GrowthAddsUp == focus = "member" => Small!Mem!GrowthAddsUp

\* A monitored request is stored once, or is gone for a reason that is accepted.
StoredOnce == focus = "apiMonitor" => Small!Api!StoredOnce

\* The WeChat token handed to a request has neither ended nor been refused.
HandedOutIsGood == focus = "wechat" => Small!Wec!HandedOutIsGood

\* A notice that a user has confirmed does not pop up again.
ConfirmedNotPending == focus = "notices" => Small!Not!ConfirmedNotPending

\* Pictures are stored without the host of a full base, banners and member levels
\* apart.
StoredIsBare == focus = "catalogue" => Small!Cat!StoredIsBare

\* After a load that nothing ran beside, the tree of regions is that of the file.
TreeShowsFile == focus = "regions" => Small!Reg!TreeShowsFile

\* The import lists a company once.
ImportedOnce == focus = "couriers" => Small!Cou!ImportedOnce

\* The guards let a request in, or turn it away, for a reason that held during it.
DecisionIsJust == focus = "guards" => Gua!DecisionIsJust
=============================================================================
