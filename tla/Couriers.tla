------------------------------ MODULE Couriers -------------------------------
(***************************************************************************)
(* Courier companies: their administration and the import of a spreadsheet *)
(* that skips the companies whose names are known.  No index keeps names   *)
(* unique: the import reads them once and inserts row by row.              *)
(*                                                                         *)
(* Codes, types and the order of the list decide nothing.                  *)
(***************************************************************************)
EXTENDS Integers, Sequences, FiniteSets

CONSTANTS
  Calls,         \* requests
  Sheet,         \* names in the spreadsheet, in its order, "" for a row without one
  Names,         \* names that administrators type
  MaxCompanies,  \* bound on the rows ever inserted
  MaxFailures    \* bound on failed awaits

Rows == 1 .. MaxCompanies
AllNames == Names \cup {Sheet[i] : i \in DOMAIN Sheet}

VARIABLES
  companies,  \* courier_companies: the name of each row, "none" before its insert and "gone" after
  call,       \* local state of each request
  typed,      \* history: names typed into a form, or brought back by a late save
  overlaps,   \* history: imports under way at the same time as another one
  failures

vars == <<companies, call, typed, overlaps, failures>>

\* name: the whole row; next: row of the sheet; known: existingNames.
Local == [at : {"idle", "open", "done"}]
         \cup [at : {"save"}, id : Rows, name : AllNames]
         \cup [at : {"remove"}, id : Rows]
         \cup [at : {"insert"}, next : 1 .. Len(Sheet) + 1, known : SUBSET AllNames]

\* Types of the table, the requests and the histories.
TypeOK ==
  /\ companies \in [Rows -> AllNames \cup {"none", "gone"}]
  /\ call \in [Calls -> Local]
  /\ typed \subseteq AllNames /\ overlaps \subseteq Calls
  /\ failures \in 0 .. MaxFailures

Init ==
  /\ companies = [id \in Rows |-> "none"]
  /\ call = [c \in Calls |-> [at |-> "idle"]]
  /\ typed = {} /\ overlaps = {}
  /\ failures = 0

At(c, at) == call[c].at = at
Set(c, local) == call' = [call EXCEPT ![c] = local]
Done == [at |-> "done"]
Exists(id) == companies[id] \notin {"none", "gone"}
Importing == {c \in Calls : call[c].at \in {"open", "insert"}}

Insert(name) ==
  \E id \in Rows :
    /\ companies[id] = "none" /\ \A older \in 1 .. id - 1 : companies[older] # "none"
    /\ companies' = [companies EXCEPT ![id] = name]

CreateCompany(c, name) ==
  /\ At(c, "idle")
  /\ Insert(name)
  /\ typed' = typed \cup {name}
  /\ Set(c, Done)
  /\ UNCHANGED <<overlaps, failures>>

\* A body may leave the name as it is, and change what is not modelled.
UpdateCompany(c, id, name) ==
  /\ At(c, "idle") /\ companies[id] # "none"
  /\ \/ ~ Exists(id) /\ Set(c, Done) /\ UNCHANGED typed
     \/ Exists(id) /\ Set(c, [at |-> "save", id |-> id, name |-> companies[id]]) /\ UNCHANGED typed
     \/ /\ Exists(id) /\ Set(c, [at |-> "save", id |-> id, name |-> name])
        /\ typed' = typed \cup {name}
  /\ UNCHANGED <<companies, overlaps, failures>>

\* The whole row; one removed in the meantime is inserted again.
SaveCompany(c) ==
  /\ At(c, "save")
  /\ companies' = [companies EXCEPT ![call[c].id] = call[c].name]
  /\ typed' = typed \cup ({call[c].name} \ {companies[call[c].id]})
  /\ Set(c, Done)
  /\ UNCHANGED <<overlaps, failures>>

DeleteCompany(c, id) ==
  /\ At(c, "idle") /\ companies[id] # "none"
  /\ Set(c, IF Exists(id) THEN [at |-> "remove", id |-> id] ELSE Done)
  /\ UNCHANGED <<companies, typed, overlaps, failures>>

RemoveCompany(c) ==
  /\ At(c, "remove")
  /\ companies' = [companies EXCEPT ![call[c].id] = "gone"]
  /\ Set(c, Done)
  /\ UNCHANGED <<typed, overlaps, failures>>

(***************************************************************************)
(* initFromXlsx                                                            *)
(***************************************************************************)
\* The file is opened and its headings are recognised, or the request ends.
InitFromXlsx(c) ==
  /\ At(c, "idle")
  /\ \/ Set(c, [at |-> "open"]) /\ overlaps' = overlaps \cup IF Importing = {} THEN {}
                                                             ELSE Importing \cup {c}
     \/ Set(c, Done) /\ UNCHANGED overlaps
  /\ UNCHANGED <<companies, typed, failures>>

ReadNames(c) ==
  /\ At(c, "open")
  /\ Set(c, [at |-> "insert", next |-> 1, known |-> {companies[id] : id \in {r \in Rows : Exists(r)}}])
  /\ UNCHANGED <<companies, typed, overlaps, failures>>

\* Mutation: a name inserted is not remembered.
KnownBefore(known, name) == known
Known(known, name) == known \cup {name}

Skipped(c, i) == Sheet[i] = "" \/ Sheet[i] \in call[c].known

\* One save per name that is not known; the rows skipped on the way cost no await.
InsertNext(c) ==
  /\ At(c, "insert")
  /\ \E i \in call[c].next .. Len(Sheet) :
       /\ \A j \in call[c].next .. i - 1 : Skipped(c, j)
       /\ ~ Skipped(c, i)
       /\ Insert(Sheet[i])
       /\ Set(c, [at |-> "insert", next |-> i + 1, known |-> Known(call[c].known, Sheet[i])])
  /\ UNCHANGED <<typed, overlaps, failures>>

FinishImport(c) ==
  /\ At(c, "insert")
  /\ \A i \in call[c].next .. Len(Sheet) : Skipped(c, i)
  /\ Set(c, Done)
  /\ UNCHANGED <<companies, typed, overlaps, failures>>

\* A failed import leaves what it has inserted.
AwaitFails(c) ==
  /\ failures < MaxFailures
  /\ call[c].at \notin {"idle", "done"}
  /\ failures' = failures + 1
  /\ Set(c, Done)
  /\ UNCHANGED <<companies, typed, overlaps>>

Step(c) ==
  \/ \E name \in Names : CreateCompany(c, name)
  \/ \E id \in Rows, name \in Names : UpdateCompany(c, id, name)
  \/ SaveCompany(c)
  \/ \E id \in Rows : DeleteCompany(c, id)
  \/ RemoveCompany(c)
  \/ InitFromXlsx(c)
  \/ ReadNames(c)
  \/ InsertNext(c)
  \/ FinishImport(c)
  \/ AwaitFails(c)

Next == \E c \in Calls : Step(c)

Spec == Init /\ [][Next]_vars

(***************************************************************************)
(* Correctness                                                             *)
(***************************************************************************)
\* initFromXlsx is to skip the companies that exist: as long as no two imports
\* ran at once, however often it is repeated, interrupted or run beside edits and
\* removals, a name that nobody typed, and no late save brought back, is listed at
\* most once.
ImportedOnce ==
  overlaps = {} =>
    \A i, j \in Rows :
      Exists(i) /\ companies[i] = companies[j] /\ companies[i] \notin typed => i = j
===============================================================================
