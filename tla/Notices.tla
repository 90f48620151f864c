------------------------------- MODULE Notices -------------------------------
(***************************************************************************)
(* Notifications that pop up on a page of the client until the user has    *)
(* confirmed them, and their administration.  Nothing ties a confirmation  *)
(* to its notification, and no method runs in a transaction.               *)
(*                                                                         *)
(* One target page; contents and times decide nothing, but notices are     *)
(* numbered in the order of their creation.                                *)
(***************************************************************************)
EXTENDS Integers

CONSTANTS
  Calls,        \* requests
  Users,
  MaxNotices,   \* bound on the notices ever created
  MaxFailures   \* bound on failed awaits and restarts

Notices == 1 .. MaxNotices
Pages == {"page", "elsewhere"}

VARIABLES
  notices,    \* notifications: the page of each row, "none" before its insert and "removed" after
  confirms,   \* notification_confirms: pairs of notice and user, unique
  call,       \* local state of each request
  settled,    \* history: confirmations that a user was told of
  withdrawn,  \* history: notices whose confirmations were deleted
  failures

vars == <<notices, confirms, call, settled, withdrawn, failures>>

\* row: the entity loaded; known: confirmed notices read; before: those settled
\* when a query started; shown: its answer, 0 for none.
Local == [pc : {"idle", "done"}]
         \cup [pc : {"save"}, notice : Notices, row : Pages]
         \cup [pc : {"deleteConfirms", "remove"}, notice : Notices]
         \cup [pc : {"insert"}, notice : Notices, user : Users]
         \cup [pc : {"query"}, user : Users, known : SUBSET Notices, before : SUBSET Notices]
         \cup [pc : {"shown"}, user : Users, notice : Notices \cup {0}, before : SUBSET Notices]

TypeOK ==
  /\ notices \in [Notices -> Pages \cup {"none", "removed"}]
  /\ confirms \subseteq Notices \X Users /\ settled \subseteq Notices \X Users
  /\ call \in [Calls -> Local]
  /\ withdrawn \subseteq Notices
  /\ failures \in 0 .. MaxFailures

Init ==
  /\ notices = [n \in Notices |-> "none"]
  /\ confirms = {} /\ settled = {} /\ withdrawn = {}
  /\ call = [c \in Calls |-> [pc |-> "idle"]]
  /\ failures = 0

At(c, pc) == call[c].pc = pc

Exists(n) == notices[n] \in Pages

Set(c, local) == call' = [call EXCEPT ![c] = local]

Done == [pc |-> "done"]

Of(u, pairs) == {n \in Notices : <<n, u>> \in pairs}

(***************************************************************************)
(* Administration                                                          *)
(***************************************************************************)
CreateNotification(page) ==
  /\ \E n \in Notices :
       /\ notices[n] = "none" /\ \A older \in 1 .. n - 1 : notices[older] # "none"
       /\ notices' = [notices EXCEPT ![n] = page]
  /\ UNCHANGED <<confirms, call, settled, withdrawn, failures>>

\* A body may leave the page as it is.
UpdateNotification(c, n, page) ==
  /\ At(c, "idle") /\ Exists(n)
  /\ \E row \in {notices[n], page} : Set(c, [pc |-> "save", notice |-> n, row |-> row])
  /\ UNCHANGED <<notices, confirms, settled, withdrawn, failures>>

\* A row removed in the meantime is inserted again.
SaveNotification(c) ==
  /\ At(c, "save")
  /\ notices' = [notices EXCEPT ![call[c].notice] = call[c].row]
  /\ Set(c, Done)
  /\ UNCHANGED <<confirms, settled, withdrawn, failures>>

DeleteNotification(c, n) ==
  /\ At(c, "idle") /\ Exists(n)
  /\ Set(c, [pc |-> "deleteConfirms", notice |-> n])
  /\ UNCHANGED <<notices, confirms, settled, withdrawn, failures>>

DeleteConfirms(c) ==
  /\ At(c, "deleteConfirms")
  /\ confirms' = {p \in confirms : p[1] # call[c].notice}
  /\ withdrawn' = withdrawn \cup {call[c].notice}
  /\ Set(c, [call[c] EXCEPT !.pc = "remove"])
  /\ UNCHANGED <<notices, settled, failures>>

\* A confirmation inserted since keeps its row although the notice is gone.
RemoveNotification(c) ==
  /\ At(c, "remove")
  /\ notices' = [notices EXCEPT ![call[c].notice] = "removed"]
  /\ Set(c, Done)
  /\ UNCHANGED <<confirms, settled, withdrawn, failures>>

(***************************************************************************)
(* getPendingNotification: which has the user confirmed, and the oldest of *)
(* the page that is not among them.                                        *)
(***************************************************************************)
GetPending(c, u) ==
  /\ At(c, "idle")
  /\ Set(c, [pc |-> "query", user |-> u, known |-> Of(u, confirms), before |-> Of(u, settled)])
  /\ UNCHANGED <<notices, confirms, settled, withdrawn, failures>>

\* Mutation: the filter is added only for more than one confirmed notice.
PendingFromTwo(known) ==
  LET skipped == IF \E m, n \in known : m # n THEN known ELSE {}
  IN {n \in Notices : /\ notices[n] = "page" /\ n \notin skipped
                      /\ \A older \in 1 .. n - 1 : notices[older] = "page" => older \in skipped}

\* The condition and the order of the query.
Pending(known) == {n \in Notices : /\ notices[n] = "page" /\ n \notin known
                                   /\ \A older \in 1 .. n - 1 : notices[older] = "page" => older \in known}

QueryPending(c) ==
  /\ At(c, "query")
  /\ \E n \in IF Pending(call[c].known) = {} THEN {0} ELSE Pending(call[c].known) :
       Set(c, [pc |-> "shown", user |-> call[c].user, notice |-> n, before |-> call[c].before])
  /\ UNCHANGED <<notices, confirms, settled, withdrawn, failures>>

(***************************************************************************)
(* confirmNotification                                                     *)
(***************************************************************************)
ConfirmNotification(c, n, u) ==
  /\ At(c, "idle") /\ Exists(n)
  /\ Set(c, [pc |-> "insert", notice |-> n, user |-> u])
  /\ UNCHANGED <<notices, confirms, settled, withdrawn, failures>>

\* INSERT IGNORE: a second confirmation is none.
InsertConfirm(c) ==
  /\ At(c, "insert")
  /\ confirms' = confirms \cup {<<call[c].notice, call[c].user>>}
  /\ settled' = settled \cup {<<call[c].notice, call[c].user>>}
  /\ Set(c, Done)
  /\ UNCHANGED <<notices, withdrawn, failures>>

AwaitFails(c) ==
  /\ call[c].pc \notin {"idle", "shown", "done"} /\ failures < MaxFailures
  /\ failures' = failures + 1
  /\ Set(c, Done)
  /\ UNCHANGED <<notices, confirms, settled, withdrawn>>

Next ==
  \/ \E page \in Pages : CreateNotification(page)
  \/ \E c \in Calls :
       \/ \E n \in Notices, page \in Pages : UpdateNotification(c, n, page)
       \/ \E n \in Notices : DeleteNotification(c, n)
       \/ \E u \in Users : GetPending(c, u)
       \/ \E n \in Notices, u \in Users : ConfirmNotification(c, n, u)
       \/ SaveNotification(c) \/ DeleteConfirms(c) \/ RemoveNotification(c)
       \/ QueryPending(c) \/ InsertConfirm(c) \/ AwaitFails(c)

Spec == Init /\ [][Next]_vars

-----------------------------------------------------------------------------
(***************************************************************************)
(* Properties.                                                             *)
(***************************************************************************)
\* A notice that a user had confirmed before the query does not pop up again,
\* through updates, moves and other users' confirmations, unless somebody
\* deleted its confirmations on the way to removing it (an update that is under
\* way then brings the notice back without them).
ConfirmedNotPending ==
  \A c \in Calls : At(c, "shown") => call[c].notice \notin call[c].before \ withdrawn
=============================================================================
