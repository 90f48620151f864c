------------------------------- MODULE Regions -------------------------------
(***************************************************************************)
(* The table of regions: its initialisation from region-data.ts, by the    *)
(* administrator's request or by the script, the switches of a region, and *)
(* the tree that clients are shown.  Nothing keeps the code of a region    *)
(* unique, and no load runs in a transaction.                              *)
(*                                                                         *)
(* Names, levels and the order of siblings decide nothing; importRegions,  *)
(* which has no caller, is left out.                                       *)
(***************************************************************************)
EXTENDS Integers, Sequences, FiniteSetsExt

CONSTANTS
  Calls,       \* requests and runs of the script
  File,        \* region-data.ts by level: records of a code and its parent's code, "0" at the top
  MaxId,       \* bound on the ids that auto-increment gives out
  MaxFailures  \* bound on failed awaits

RegionIds == 1 .. MaxId
Codes == {File[i].code : i \in DOMAIN File}

VARIABLES
  rows,      \* regions: [id -> row] for the ids that exist
  nextId,    \* the table's auto-increment counter
  call,      \* local state of each call
  overlaps,  \* history: calls during which another one was under way
  loaded,    \* history: the last initialisation to finish, if none has started since
  failures

vars == <<rows, nextId, call, overlaps, loaded, failures>>

RegionRow == [code : Codes, parentId : 0 .. MaxId, isActive : BOOLEAN]

\* next: item to insert; ids: codeToId, 0 for a code without a row.
Local == [at : {"idle", "clear", "done"}]
         \cup [at : {"insert"}, next : 1 .. Len(File) + 1, ids : [Codes -> 0 .. MaxId],
             cleared : BOOLEAN]
         \cup [at : {"save"}, id : RegionIds, row : RegionRow]

\* Types of the table, its counter, the calls and the histories.
TypeOK ==
  /\ DOMAIN rows \subseteq RegionIds /\ \A id \in DOMAIN rows : rows[id] \in RegionRow
  /\ nextId \in 1 .. MaxId + 1
  /\ call \in [Calls -> Local]
  /\ overlaps \subseteq Calls
  /\ loaded \in Calls \cup {"none"}
  /\ failures \in 0 .. MaxFailures

Init ==
  /\ rows = <<>> /\ nextId = 1
  /\ call = [c \in Calls |-> [at |-> "idle"]]
  /\ overlaps = {} /\ loaded = "none"
  /\ failures = 0

At(c, at) == call[c].at = at
Set(c, local) == call' = [call EXCEPT ![c] = local]
Done == [at |-> "done"]
UnderWay == {c \in Calls : call[c].at \notin {"idle", "done"}}

\* A call begins: what is under way overlaps with it.
Begin(c) ==
  /\ At(c, "idle")
  /\ overlaps' = overlaps \cup IF UnderWay = {} THEN {} ELSE UnderWay \cup {c}

Loading(cleared) ==
  [at |-> "insert", next |-> 1, ids |-> [code \in Codes |-> 0], cleared |-> cleared]

(***************************************************************************)
(* Loading                                                                 *)
(***************************************************************************)
InitFromRegionData(c) ==
  /\ Begin(c)
  /\ Set(c, [at |-> "clear"])
  /\ loaded' = "none"
  /\ UNCHANGED <<rows, nextId, failures>>

\* TRUNCATE empties the table and starts its ids again.
Clear(c) ==
  /\ At(c, "clear")
  /\ rows' = <<>> /\ nextId' = 1
  /\ Set(c, Loading(TRUE))
  /\ UNCHANGED <<overlaps, loaded, failures>>

\* The script does not clear the table.
Script(c) ==
  /\ Begin(c)
  /\ Set(c, Loading(FALSE))
  /\ loaded' = "none"
  /\ UNCHANGED <<rows, nextId, failures>>

\* Mutation: a region hangs below the one inserted last.
ParentIdPrevious(ids, item) == IF item.parent = "0" THEN 0 ELSE Max({ids[code] : code \in Codes})
\* The id its parent got in this load; 0 makes a region one of the top.
ParentId(ids, item) == IF item.parent = "0" THEN 0 ELSE ids[item.parent]

\* One save per item, by level; then the call is done.
InsertRegion(c) ==
  /\ At(c, "insert") /\ call[c].next <= Len(File) /\ nextId <= MaxId
  /\ LET item == File[call[c].next]
         row == [code |-> item.code, parentId |-> ParentId(call[c].ids, item), isActive |-> TRUE]
     IN  /\ rows' = [id \in DOMAIN rows \cup {nextId} |-> IF id = nextId THEN row ELSE rows[id]]
         /\ Set(c, [call[c] EXCEPT !.next = @ + 1, !.ids[item.code] = nextId])
  /\ nextId' = nextId + 1
  /\ UNCHANGED <<overlaps, loaded, failures>>

FinishLoad(c) ==
  /\ At(c, "insert") /\ call[c].next > Len(File)
  /\ Set(c, Done)
  /\ loaded' = IF call[c].cleared THEN c ELSE "none"
  /\ UNCHANGED <<rows, nextId, overlaps, failures>>

(***************************************************************************)
(* Switches: the whole row is loaded and saved                             *)
(***************************************************************************)
ToggleRegionActive(c, id, isActive) ==
  /\ Begin(c)
  /\ Set(c, IF id \in DOMAIN rows
            THEN [at |-> "save", id |-> id, row |-> [rows[id] EXCEPT !.isActive = isActive]] ELSE Done)
  /\ UNCHANGED <<rows, nextId, loaded, failures>>

\* isRemote decides nothing here, but the rest of the row is saved with it.
ToggleRegionRemote(c, id) ==
  /\ Begin(c)
  /\ Set(c, IF id \in DOMAIN rows THEN [at |-> "save", id |-> id, row |-> rows[id]] ELSE Done)
  /\ UNCHANGED <<rows, nextId, loaded, failures>>

\* A row cleared in the meantime is inserted again under its id, and one loaded
\* under the same id since then takes the old row's columns.
SaveRegion(c) ==
  /\ At(c, "save")
  /\ LET saved == call[c].id
     IN  /\ rows' = [id \in DOMAIN rows \cup {saved} |-> IF id = saved THEN call[c].row ELSE rows[id]]
         /\ nextId' = Max({nextId, saved + 1})
  /\ Set(c, Done)
  /\ UNCHANGED <<overlaps, loaded, failures>>

\* A failed load leaves what it has inserted.
AwaitFails(c) ==
  /\ failures < MaxFailures /\ c \in UnderWay
  /\ failures' = failures + 1
  /\ Set(c, Done)
  /\ UNCHANGED <<rows, nextId, overlaps, loaded>>

Step(c) ==
  \/ InitFromRegionData(c)
  \/ Clear(c)
  \/ Script(c)
  \/ InsertRegion(c)
  \/ FinishLoad(c)
  \/ \E id \in RegionIds, isActive \in BOOLEAN : ToggleRegionActive(c, id, isActive)
  \/ \E id \in RegionIds : ToggleRegionRemote(c, id)
  \/ SaveRegion(c)
  \/ AwaitFails(c)

Next == \E c \in Calls : Step(c)

Spec == Init /\ [][Next]_vars

(***************************************************************************)
(* Correctness                                                             *)
(***************************************************************************)
\* getRegionTree and buildTree: the active rows, and of those the ones whose
\* parent row is in the tree; a region has three levels.
BuildTree ==
  LET Below(tree) == {id \in DOMAIN rows : rows[id].isActive /\ rows[id].parentId \in tree \cup {0}}
  IN  Below(Below(Below({})))

\* A region of the file is reachable while it and all above it are switched on.
Reachable ==
  LET on == {code \in Codes : \A id \in DOMAIN rows : rows[id].code = code => rows[id].isActive}
      Below(codes) == {File[i].code : i \in {j \in DOMAIN File :
                         File[j].code \in on /\ File[j].parent \in codes \cup {"0"}}}
  IN  Below(Below(Below({})))

\* Once an initialisation that cleared the table has finished and nothing ran
\* beside it, clients are shown each reachable region of the file once, below its
\* own parent, whatever was switched since.
TreeShowsFile ==
  loaded # "none" /\ loaded \notin overlaps =>
    /\ {rows[id].code : id \in BuildTree} = Reachable
    /\ \A i, j \in BuildTree : rows[i].code = rows[j].code => i = j
    /\ \A id \in BuildTree :
         LET above == {rows[p].code : p \in {q \in BuildTree : q = rows[id].parentId}}
         IN  \E i \in DOMAIN File : File[i].code = rows[id].code
               /\ above = {File[i].parent} \ {"0"}
===============================================================================
