------------------------------- MODULE Member -------------------------------
(***************************************************************************)
(* Membership growth: tasks, records of completed tasks, the profile with  *)
(* its growth and level, and growth records.  A reward is spread over six  *)
(* awaits with no transaction: find the task, find the record, save it,    *)
(* find the profile, save it, save the growth record.  The save of a       *)
(* profile that was found takes two: repository.save selects the row and   *)
(* then writes the columns in which the entity differs from it.            *)
(*                                                                         *)
(* Points, titles, types and times decide nothing and are left out.        *)
(***************************************************************************)
EXTENDS Integers, SequencesExt

CONSTANTS
  Calls,        \* requests
  Users, Tasks,
  Rewards,      \* values of growthReward; the request's check allows any number
  MaxFailures   \* bound on failed awaits and restarts

levelThresholds == <<0, 100, 300, 600, 1000, 1500, 2100, 2800, 3600, 4500>>

Profiles == [exists : BOOLEAN, growthValue : Int, level : 1 .. Len(levelThresholds)]
TaskRows == [status : {"NONE", "ACTIVE", "INACTIVE", "REMOVED"}, growthReward : Rewards]
GrowthRecords == [user : Users, task : Tasks, delta : Rewards, balanceAfter : Int]

VARIABLES
  profiles,   \* member_profiles, at most one row for a user
  tasks,      \* member_tasks
  records,    \* member_task_records: how many rows of each user and task, all completed
  growth,     \* member_growth_records, in the order of their inserts
  call,       \* local state of each request
  overlapped, \* history: users two of whose rewards were given at once
  mixed,      \* history: users whose profile changed between the snapshot and
              \* the write of a save
  failures

tables == <<profiles, tasks, records, growth>>
vars == <<tables, call, overlapped, mixed, failures>>

NewProfile == [exists |-> TRUE, growthValue |-> 0, level |-> 1]

Local == [pc : {"idle", "done"}]
         \cup [pc : {"findRecord", "saveRecord", "findProfile", "insertProfile", "saveProfile",
                     "writeProfile", "saveGrowth"},
               user : Users, task : Tasks, growthReward : Rewards, new : BOOLEAN,
               profile : Profiles, seen : Profiles]
         \cup [pc : {"insertEmpty"}, user : Users]
         \cup [pc : {"saveTask", "removeTask"}, task : Tasks, row : TaskRows]

TypeOK ==
  /\ profiles \in [Users -> Profiles]
  /\ tasks \in [Tasks -> TaskRows]
  /\ records \in [Users \X Tasks -> Nat]
  /\ growth \in Seq(GrowthRecords)
  /\ call \in [Calls -> Local]
  /\ overlapped \subseteq Users /\ mixed \subseteq Users
  /\ failures \in 0 .. MaxFailures

Init ==
  /\ profiles = [u \in Users |-> [NewProfile EXCEPT !.exists = FALSE]]
  /\ tasks \in [Tasks -> {row \in TaskRows : row.status \in {"NONE", "ACTIVE"}}]
  /\ records = [r \in Users \X Tasks |-> 0]
  /\ growth = <<>>
  /\ call = [c \in Calls |-> [pc |-> "idle"]]
  /\ overlapped = {} /\ mixed = {}
  /\ failures = 0

At(c, pc) == call[c].pc = pc

Done == [pc |-> "done"]

\* A request ends, with an answer or an error.
Return(c) == call' = [call EXCEPT ![c] = Done]

Exists(t) == tasks[t].status \in {"ACTIVE", "INACTIVE"}

GoTo(c, pc) == call' = [call EXCEPT ![c].pc = pc]

\* Mutation: the threshold itself is not enough.
CalculateLevelAbove(value) ==
  LET reached == SelectLastInSubSeq(levelThresholds, 1, Len(levelThresholds), LAMBDA t : value > t)
  IN IF reached = 0 THEN 1 ELSE reached

\* calculateLevel: the last threshold that the growth reaches, from the top down.
CalculateLevel(value) ==
  LET reached == SelectLastInSubSeq(levelThresholds, 1, Len(levelThresholds), LAMBDA t : value >= t)
  IN IF reached = 0 THEN 1 ELSE reached

(***************************************************************************)
(* getProfile                                                              *)
(***************************************************************************)
GetProfile(c, u) ==
  /\ At(c, "idle")
  /\ call' = [call EXCEPT ![c] = IF profiles[u].exists THEN Done
                                 ELSE [pc |-> "insertEmpty", user |-> u]]
  /\ UNCHANGED <<tables, overlapped, mixed, failures>>

\* Mutation: no unique index on the user: the new profile takes the other's place.
InsertEmptyAnyway(c) ==
  /\ At(c, "insertEmpty")
  /\ profiles' = [profiles EXCEPT ![call[c].user] = NewProfile]
  /\ Return(c)
  /\ UNCHANGED <<tasks, records, growth, overlapped, mixed, failures>>

\* The unique index on the user refuses a second profile.
InsertEmpty(c) ==
  /\ At(c, "insertEmpty")
  /\ profiles' = [profiles EXCEPT ![call[c].user] = IF @.exists THEN @ ELSE NewProfile]
  /\ Return(c)
  /\ UNCHANGED <<tasks, records, growth, overlapped, mixed, failures>>

(***************************************************************************)
(* completeTask: neither the task's status nor an earlier completion       *)
(* stands in the way of the reward.                                        *)
(***************************************************************************)
CompleteTask(c, u, t) ==
  /\ At(c, "idle")
  /\ call' = [call EXCEPT ![c] =
       IF ~Exists(t) THEN Done
       ELSE [pc |-> "findRecord", user |-> u, task |-> t, growthReward |-> tasks[t].growthReward,
             new |-> FALSE, profile |-> NewProfile, seen |-> NewProfile]]
  /\ UNCHANGED <<tables, overlapped, mixed, failures>>

FindRecord(c) ==
  /\ At(c, "findRecord")
  /\ call' = [call EXCEPT ![c].pc = "saveRecord",
                          ![c].new = records[<<call[c].user, call[c].task>>] = 0]
  /\ UNCHANGED <<tables, overlapped, mixed, failures>>

\* No unique index stops two requests from inserting a record each.
SaveRecord(c) ==
  /\ At(c, "saveRecord")
  /\ records' = [records EXCEPT ![<<call[c].user, call[c].task>>] = IF call[c].new THEN @ + 1 ELSE @]
  /\ GoTo(c, "findProfile")
  /\ UNCHANGED <<profiles, tasks, growth, overlapped, mixed, failures>>

(***************************************************************************)
(* addGrowth                                                               *)
(***************************************************************************)
\* The calls between the load of the user's profile and its save.
Rewarding(u) ==
  {c \in Calls : /\ call[c].pc \in {"insertProfile", "saveProfile", "writeProfile"}
                 /\ call[c].user = u}

FindProfile(c) ==
  /\ At(c, "findProfile")
  /\ LET u == call[c].user
         profile == IF profiles[u].exists THEN profiles[u] ELSE NewProfile
         value == profile.growthValue + call[c].growthReward
     IN /\ call' = [call EXCEPT
             ![c].pc = IF profiles[u].exists THEN "saveProfile" ELSE "insertProfile",
             ![c].profile = [exists |-> TRUE, growthValue |-> value, level |-> CalculateLevel(value)]]
        /\ overlapped' = IF Rewarding(u) = {} THEN overlapped ELSE overlapped \cup {u}
  /\ UNCHANGED <<tables, mixed, failures>>

\* The column is unsigned: a negative value is refused.
Refused(profile) == profile.growthValue < 0

\* A new entity is inserted; an entity that was found is compared with the row.
InsertProfile(c) ==
  /\ At(c, "insertProfile")
  /\ LET u == call[c].user
         refused == Refused(call[c].profile) \/ profiles[u].exists
     IN /\ profiles' = IF refused THEN profiles ELSE [profiles EXCEPT ![u] = call[c].profile]
        /\ IF refused THEN Return(c) ELSE GoTo(c, "saveGrowth")
  /\ UNCHANGED <<tasks, records, growth, overlapped, mixed, failures>>

Snapshot(c) ==
  /\ At(c, "saveProfile")
  /\ call' = [call EXCEPT ![c].pc = "writeProfile", ![c].seen = profiles[call[c].user]]
  /\ UNCHANGED <<tables, overlapped, mixed, failures>>

\* The columns in which the entity differs from the snapshot are written.
Merge(current, entity, seen) ==
  [f \in DOMAIN current |-> IF entity[f] # seen[f] THEN entity[f] ELSE current[f]]

WriteProfile(c) ==
  /\ At(c, "writeProfile")
  /\ LET u == call[c].user
         written == Merge(profiles[u], call[c].profile, call[c].seen)
     IN /\ profiles' = IF Refused(written) THEN profiles ELSE [profiles EXCEPT ![u] = written]
        /\ IF Refused(written) THEN Return(c) ELSE GoTo(c, "saveGrowth")
        /\ mixed' = IF profiles[u] = call[c].seen THEN mixed ELSE mixed \cup {u}
  /\ UNCHANGED <<tasks, records, growth, overlapped, failures>>

SaveGrowth(c) ==
  /\ At(c, "saveGrowth")
  /\ growth' = Append(growth, [user |-> call[c].user, task |-> call[c].task,
       delta |-> call[c].growthReward, balanceAfter |-> call[c].profile.growthValue])
  /\ Return(c)
  /\ UNCHANGED <<profiles, tasks, records, overlapped, mixed, failures>>

(***************************************************************************)
(* The administrators' side                                                *)
(***************************************************************************)
CreateTask(t, reward) ==
  /\ tasks[t].status = "NONE"
  /\ tasks' = [tasks EXCEPT ![t] = [status |-> "ACTIVE", growthReward |-> reward]]
  /\ UNCHANGED <<profiles, records, growth, call, overlapped, mixed, failures>>

\* updateTask and deleteTask load the row; the fields given are changed.
FindTask(c, t) ==
  /\ At(c, "idle") /\ Exists(t)
  /\ \/ \E reward \in Rewards, status \in {"ACTIVE", "INACTIVE"} :
          call' = [call EXCEPT ![c] = [pc |-> "saveTask", task |-> t,
                     row |-> [status |-> status, growthReward |-> reward]]]
     \/ call' = [call EXCEPT ![c] = [pc |-> "removeTask", task |-> t, row |-> tasks[t]]]
  /\ UNCHANGED <<tables, overlapped, mixed, failures>>

\* A row removed in the meantime is inserted again.
SaveTask(c) ==
  /\ At(c, "saveTask")
  /\ tasks' = [tasks EXCEPT ![call[c].task] = call[c].row]
  /\ Return(c)
  /\ UNCHANGED <<profiles, records, growth, overlapped, mixed, failures>>

RemoveTask(c) ==
  /\ At(c, "removeTask")
  /\ tasks' = [tasks EXCEPT ![call[c].task].status = "REMOVED"]
  /\ Return(c)
  /\ UNCHANGED <<profiles, records, growth, overlapped, mixed, failures>>

AwaitFails(c) ==
  /\ call[c].pc \notin {"idle", "done"}
  /\ failures < MaxFailures
  /\ failures' = failures + 1
  /\ Return(c)
  /\ UNCHANGED <<tables, overlapped, mixed>>

Next ==
  \/ \E c \in Calls :
       \/ \E u \in Users : GetProfile(c, u)
       \/ \E u \in Users, t \in Tasks : CompleteTask(c, u, t)
       \/ \E t \in Tasks : FindTask(c, t)
       \/ InsertEmpty(c) \/ FindRecord(c) \/ SaveRecord(c) \/ FindProfile(c) \/ InsertProfile(c)
       \/ Snapshot(c) \/ WriteProfile(c) \/ SaveGrowth(c)
       \/ SaveTask(c) \/ RemoveTask(c) \/ AwaitFails(c)
  \/ \E t \in Tasks, reward \in Rewards : CreateTask(t, reward)

Spec == Init /\ [][Next]_vars

-----------------------------------------------------------------------------
(***************************************************************************)
(* Properties.                                                             *)
(***************************************************************************)
\* A profile's level is the one its growth earns, for every level the number
\* of thresholds reached, however rewards of several requests overlap, unless
\* the profile changed between the snapshot and the write of a save: then a
\* growth that one request wrote may stand beside a level that another did.
LevelMatchesGrowth ==
  \A u \in Users \ mixed :
    profiles[u].level =
      Cardinality({i \in DOMAIN levelThresholds : levelThresholds[i] <= profiles[u].growthValue})

\* The rewards a user was given: those with a growth record and those whose
\* record is still to be written, each with where it stands.
Given(u) ==
  {<<"record", i, growth[i].delta>> : i \in {j \in DOMAIN growth : growth[j].user = u}}
  \cup {<<"call", c, call[c].growthReward>> :
          c \in {b \in Calls : At(b, "saveGrowth") /\ call[b].user = u}}

\* What rewards come to, upwards and downwards, one element per unit of growth.
Gained(rewards) == UNION {{r} \X (1 .. r[3]) : r \in rewards}
Lost(rewards) == UNION {{r} \X (1 .. - r[3]) : r \in rewards}

\* A user's growth is the sum of the growth records, whatever else the requests
\* do (open the profile for the first time, change or delete the task), as long
\* as no two rewards of the user were given at once and no await failed.
GrowthAddsUp ==
  \A u \in Users :
    \/ u \in overlapped \/ failures > 0
    \/ profiles[u].growthValue + Cardinality(Lost(Given(u))) = Cardinality(Gained(Given(u)))
=============================================================================
