---------------------------- MODULE ServicesProofs ----------------------------
(***************************************************************************)
(* The properties of Services, from the theorems about each service.       *)
(*                                                                         *)
(* The service in focus stays in focus, starts as its own module says and  *)
(* takes that module's steps; so a behaviour of Services is one of every   *)
(* service, unless the service is out of focus from the start.  Whatever   *)
(* holds of a service's own specification then holds of Services.          *)
(***************************************************************************)
EXTENDS Services, RolesProofs

-----------------------------------------------------------------------------
(***************************************************************************)
(* Each service behaves as its module says while it is in focus.           *)
(***************************************************************************)
LEMMA FocusStays == [AllNext]_all => focus' = focus
BY DEF AllNext, all

\* Out of focus, Roles rests.
LEMMA RolesRun == AllSpec => Spec
<1>1. AllInit => Init
  BY DEF AllInit
<1>2. [AllNext]_all => [Next]_vars
  <2>1. AllNext => [Next]_vars
    BY DEF AllNext
  <2>2. UNCHANGED all => UNCHANGED vars
    BY DEF all
  <2>3. QED
    BY <2>1, <2>2
<1>3. QED
  BY <1>1, <1>2, PTL DEF AllSpec, Spec

LEMMA AccountsRun == AllSpec => Acc!Spec \/ []~(focus = "accounts")
<1>1. AllInit /\ focus = "accounts" => Acc!Init
  BY DEF AllInit
<1>2. ASSUME [AllNext]_all, focus = "accounts"
      PROVE  (focus = "accounts")' /\ [Acc!Next]_(Acc!vars)
  <2>1. CASE AllNext
    BY <1>2, <2>1 DEF AllNext
  <2>2. CASE UNCHANGED all
    BY <1>2, <2>2 DEF all, Registers, Acc!vars
  <2>3. QED
    BY <1>2, <2>1, <2>2
<1>3. [AllNext]_all /\ ~(focus = "accounts") => ~(focus = "accounts")'
  BY FocusStays
<1>4. QED
  BY <1>1, <1>2, <1>3, PTL DEF AllSpec, Acc!Spec

LEMMA PaymentsRun == AllSpec => Small!Pay!Spec \/ []~(focus = "payments")
<1>1. AllInit /\ focus = "payments" => Small!Pay!Init
  BY DEF AllInit
<1>2. ASSUME [AllNext]_all, focus = "payments"
      PROVE  (focus = "payments")' /\ [Small!Pay!Next]_(Small!Pay!vars)
  <2>1. CASE AllNext
    BY <1>2, <2>1 DEF AllNext
  <2>2. CASE UNCHANGED all
    BY <1>2, <2>2 DEF all, Registers, Small!Pay!vars, Small!Pay!tables
  <2>3. QED
    BY <1>2, <2>1, <2>2
<1>3. [AllNext]_all /\ ~(focus = "payments") => ~(focus = "payments")'
  BY FocusStays
<1>4. QED
  BY <1>1, <1>2, <1>3, PTL DEF AllSpec, Small!Pay!Spec

LEMMA DevicesRun == AllSpec => Small!Dev!Spec \/ []~(focus = "devices")
<1>1. AllInit /\ focus = "devices" => Small!Dev!Init
  BY DEF AllInit
<1>2. ASSUME [AllNext]_all, focus = "devices"
      PROVE  (focus = "devices")' /\ [Small!Dev!Next]_(Small!Dev!vars)
  <2>1. CASE AllNext
    BY <1>2, <2>1 DEF AllNext
  <2>2. CASE UNCHANGED all
    BY <1>2, <2>2 DEF all, Registers, Small!Dev!vars
  <2>3. QED
    BY <1>2, <2>1, <2>2
<1>3. [AllNext]_all /\ ~(focus = "devices") => ~(focus = "devices")'
  BY FocusStays
<1>4. QED
  BY <1>1, <1>2, <1>3, PTL DEF AllSpec, Small!Dev!Spec

LEMMA MemberRun == AllSpec => Small!Mem!Spec \/ []~(focus = "member")
<1>1. AllInit /\ focus = "member" => Small!Mem!Init
  BY DEF AllInit
<1>2. ASSUME [AllNext]_all, focus = "member"
      PROVE  (focus = "member")' /\ [Small!Mem!Next]_(Small!Mem!vars)
  <2>1. CASE AllNext
    BY <1>2, <2>1 DEF AllNext
  <2>2. CASE UNCHANGED all
    BY <1>2, <2>2 DEF all, Registers, Small!Mem!vars, Small!Mem!tables
  <2>3. QED
    BY <1>2, <2>1, <2>2
<1>3. [AllNext]_all /\ ~(focus = "member") => ~(focus = "member")'
  BY FocusStays
<1>4. QED
  BY <1>1, <1>2, <1>3, PTL DEF AllSpec, Small!Mem!Spec

LEMMA ApiMonitorRun == AllSpec => Small!Api!Spec \/ []~(focus = "apiMonitor")
<1>1. AllInit /\ focus = "apiMonitor" => Small!Api!Init
  BY DEF AllInit
<1>2. ASSUME [AllNext]_all, focus = "apiMonitor"
      PROVE  (focus = "apiMonitor")' /\ [Small!Api!Next]_(Small!Api!vars)
  <2>1. CASE AllNext
    BY <1>2, <2>1 DEF AllNext
  <2>2. CASE UNCHANGED all
    BY <1>2, <2>2 DEF all, Registers, Small!Api!vars
  <2>3. QED
    BY <1>2, <2>1, <2>2
<1>3. [AllNext]_all /\ ~(focus = "apiMonitor") => ~(focus = "apiMonitor")'
  BY FocusStays
<1>4. QED
  BY <1>1, <1>2, <1>3, PTL DEF AllSpec, Small!Api!Spec

LEMMA WechatRun == AllSpec => Small!Wec!Spec \/ []~(focus = "wechat")
<1>1. AllInit /\ focus = "wechat" => Small!Wec!Init
  BY DEF AllInit
<1>2. ASSUME [AllNext]_all, focus = "wechat"
      PROVE  (focus = "wechat")' /\ [Small!Wec!Next]_(Small!Wec!vars)
  <2>1. CASE AllNext
    BY <1>2, <2>1 DEF AllNext
  <2>2. CASE UNCHANGED all
    BY <1>2, <2>2 DEF all, Registers, Small!Wec!vars, Small!Wec!wechat
  <2>3. QED
    BY <1>2, <2>1, <2>2
<1>3. [AllNext]_all /\ ~(focus = "wechat") => ~(focus = "wechat")'
  BY FocusStays
<1>4. QED
  BY <1>1, <1>2, <1>3, PTL DEF AllSpec, Small!Wec!Spec

LEMMA NoticesRun == AllSpec => Small!Not!Spec \/ []~(focus = "notices")
<1>1. AllInit /\ focus = "notices" => Small!Not!Init
  BY DEF AllInit
<1>2. ASSUME [AllNext]_all, focus = "notices"
      PROVE  (focus = "notices")' /\ [Small!Not!Next]_(Small!Not!vars)
  <2>1. CASE AllNext
    BY <1>2, <2>1 DEF AllNext
  <2>2. CASE UNCHANGED all
    BY <1>2, <2>2 DEF all, Registers, Small!Not!vars
  <2>3. QED
    BY <1>2, <2>1, <2>2
<1>3. [AllNext]_all /\ ~(focus = "notices") => ~(focus = "notices")'
  BY FocusStays
<1>4. QED
  BY <1>1, <1>2, <1>3, PTL DEF AllSpec, Small!Not!Spec

LEMMA CatalogueRun == AllSpec => Small!Cat!Spec \/ []~(focus = "catalogue")
<1>1. AllInit /\ focus = "catalogue" => Small!Cat!Init
  BY DEF AllInit
<1>2. ASSUME [AllNext]_all, focus = "catalogue"
      PROVE  (focus = "catalogue")' /\ [Small!Cat!Next]_(Small!Cat!vars)
  <2>1. CASE AllNext
    BY <1>2, <2>1 DEF AllNext
  <2>2. CASE UNCHANGED all
    BY <1>2, <2>2 DEF all, Registers, Small!Cat!vars
  <2>3. QED
    BY <1>2, <2>1, <2>2
<1>3. [AllNext]_all /\ ~(focus = "catalogue") => ~(focus = "catalogue")'
  BY FocusStays
<1>4. QED
  BY <1>1, <1>2, <1>3, PTL DEF AllSpec, Small!Cat!Spec

LEMMA RegionsRun == AllSpec => Small!Reg!Spec \/ []~(focus = "regions")
<1>1. AllInit /\ focus = "regions" => Small!Reg!Init
  BY DEF AllInit
<1>2. ASSUME [AllNext]_all, focus = "regions"
      PROVE  (focus = "regions")' /\ [Small!Reg!Next]_(Small!Reg!vars)
  <2>1. CASE AllNext
    BY <1>2, <2>1 DEF AllNext
  <2>2. CASE UNCHANGED all
    BY <1>2, <2>2 DEF all, Registers, Small!Reg!vars
  <2>3. QED
    BY <1>2, <2>1, <2>2
<1>3. [AllNext]_all /\ ~(focus = "regions") => ~(focus = "regions")'
  BY FocusStays
<1>4. QED
  BY <1>1, <1>2, <1>3, PTL DEF AllSpec, Small!Reg!Spec

LEMMA CouriersRun == AllSpec => Small!Cou!Spec \/ []~(focus = "couriers")
<1>1. AllInit /\ focus = "couriers" => Small!Cou!Init
  BY DEF AllInit
<1>2. ASSUME [AllNext]_all, focus = "couriers"
      PROVE  (focus = "couriers")' /\ [Small!Cou!Next]_(Small!Cou!vars)
  <2>1. CASE AllNext
    BY <1>2, <2>1 DEF AllNext
  <2>2. CASE UNCHANGED all
    BY <1>2, <2>2 DEF all, Registers, Small!Cou!vars
  <2>3. QED
    BY <1>2, <2>1, <2>2
<1>3. [AllNext]_all /\ ~(focus = "couriers") => ~(focus = "couriers")'
  BY FocusStays
<1>4. QED
  BY <1>1, <1>2, <1>3, PTL DEF AllSpec, Small!Cou!Spec

LEMMA GuardsRun == AllSpec => Gua!Spec \/ []~(focus = "guards")
<1>1. AllInit /\ focus = "guards" => Gua!Init
  BY DEF AllInit
<1>2. ASSUME [AllNext]_all, focus = "guards"
      PROVE  (focus = "guards")' /\ [Gua!Next]_(Gua!vars)
  <2>1. CASE AllNext
    BY <1>2, <2>1 DEF AllNext
  <2>2. CASE UNCHANGED all
    BY <1>2, <2>2 DEF all, Registers, Gua!vars
  <2>3. QED
    BY <1>2, <2>1, <2>2
<1>3. [AllNext]_all /\ ~(focus = "guards") => ~(focus = "guards")'
  BY FocusStays
<1>4. QED
  BY <1>1, <1>2, <1>3, PTL DEF AllSpec, Gua!Spec

-----------------------------------------------------------------------------
(***************************************************************************)
(* What the theorems about the services assume holds.                      *)
(***************************************************************************)
LEMMA Assumed ==
  /\ Acc!NumbersOK /\ Small!MemNumbersOK /\ Small!RegBoundsOK
  /\ Small!SettingsWellFormed /\ Small!SheetWellFormed /\ Small!FileWellFormed
  /\ MaxFailures \in Nat /\ MaxChanges \in Nat /\ Life \in Nat /\ Margin \in Nat
  /\ None \notin Receipts /\ None \notin Three
BY BoundsAssumption, ServicesAssumption DEF Acc!NumbersOK, Small!MemNumbersOK, Small!RegBoundsOK

LEMMA FiniteRequests == Small!IsFiniteSet(Three)
BY ServicesAssumption DEF Small!IsFiniteSet, IsFiniteSet

-----------------------------------------------------------------------------
(***************************************************************************)
(* Types.                                                                  *)
(***************************************************************************)
\* Roles and the service in focus keep their types.
THEOREM TypesCorrect == AllSpec => []TypesOK
<1>1. Spec => []TypeOK
  BY TypeCorrect
<1>2. Acc!Spec => []Acc!TypeOK
  <2>1. Acc!Spec => []Acc!TypeInv
    BY Assumed, Acc!TypeCorrect
  <2>2. Acc!TypeInv => Acc!TypeOK
    BY DEF Acc!TypeInv
  <2>3. QED
    BY <2>1, <2>2, PTL
<1>3. Small!Pay!Spec => []Small!Pay!TypeOK
  BY Assumed, Small!PayTypeCorrect
<1>4. Small!Dev!Spec => []Small!Dev!TypeOK
  BY Assumed, Small!DevTypeCorrect
<1>5. Small!Mem!Spec => []Small!Mem!TypeOK
  BY Assumed, Small!MemTypeCorrect
<1>6. Small!Api!Spec => []Small!Api!TypeOK
  BY Assumed, Small!ApiTypeCorrect
<1>7. Small!Wec!Spec => []Small!Wec!TypeOK
  <2>1. Small!Wec!Spec => []Small!WecTypeInv
    BY Assumed, Small!WecTypeCorrect
  <2>2. Small!WecTypeInv => Small!Wec!TypeOK
    BY DEF Small!WecTypeInv
  <2>3. QED
    BY <2>1, <2>2, PTL
<1>8. Small!Not!Spec => []Small!Not!TypeOK
  BY Assumed, Small!NotTypeCorrect
<1>9. Small!Cat!Spec => []Small!Cat!TypeOK
  BY Assumed, Small!CatTypeCorrect
<1>10. Small!Reg!Spec => []Small!Reg!TypeOK
  BY Assumed, Small!RegTypeCorrect
<1>11. Small!Cou!Spec => []Small!Cou!TypeOK
  BY Assumed, Small!CouTypeCorrect
<1>12. Gua!Spec => []Gua!TypeOK
  BY Assumed, Gua!TypeCorrect
<1>13. QED
  BY <1>1, <1>2, <1>3, <1>4, <1>5, <1>6, <1>7, <1>8, <1>9, <1>10, <1>11, <1>12,
     RolesRun, AccountsRun, PaymentsRun, DevicesRun, MemberRun, ApiMonitorRun,
     WechatRun, NoticesRun, CatalogueRun, RegionsRun, CouriersRun, GuardsRun,
     PTL DEF TypesOK

-----------------------------------------------------------------------------
(***************************************************************************)
(* Safety.                                                                 *)
(***************************************************************************)
\* A verification code gets one call past the check, however many present it.
THEOREM CodeUsedOnceCorrect == AllSpec => []CodeUsedOnce
<1>1. Acc!Spec => []Acc!CodeUsedOnce
  BY Assumed, Acc!CodeUsedOnceCorrect
<1>2. QED
  BY <1>1, AccountsRun, PTL DEF CodeUsedOnce

\* Once no call is under way every account has its privacy settings, unless it was removed
\* or an error broke its registration off.
THEOREM AccountsCompleteCorrect == AllSpec => []AccountsComplete
<1>1. Acc!Spec => []Acc!AccountsComplete
  BY Assumed, Acc!AccountsCompleteCorrect
<1>2. QED
  BY <1>1, AccountsRun, PTL DEF AccountsComplete

\* A user who is banned from the start of a login to its end is not let in.
THEOREM BannedStayOutCorrect == AllSpec => []BannedStayOut
<1>1. Acc!Spec => []Acc!BannedStayOut
  BY Assumed, Acc!BannedStayOutCorrect
<1>2. QED
  BY <1>1, AccountsRun, PTL DEF BannedStayOut

\* No recharge that was paid is cancelled or opened again.
THEOREM PaidIsFinalCorrect == AllSpec => PaidIsFinal
<1>1. Small!Pay!Spec => Small!Pay!PaidIsFinal
  BY Assumed, Small!PaidIsFinalCorrect
<1>2. [Small!Pay!PaidStays]_(Small!Pay!vars) => Small!Pay!PaidStays
  BY DEF Small!Pay!PaidStays, Small!Pay!vars, Small!Pay!tables
<1>3. QED
  BY <1>1, <1>2, PaymentsRun, PTL DEF Small!Pay!PaidIsFinal, PaidIsFinal

\* Receipts, dates and statuses of payments agree, whatever overtakes what, but in
\* rows that two saves have written at once.
THEOREM ReceiptMatchesStatusCorrect == AllSpec => []ReceiptMatchesStatus
<1>1. Small!Pay!Spec => []Small!Pay!ReceiptMatchesStatus
  BY Assumed, Small!ReceiptMatchesStatusCorrect
<1>2. QED
  BY <1>1, PaymentsRun, PTL DEF ReceiptMatchesStatus

\* Every logout of a device is told of, and of a device that no two logouts removed
\* at once no more is told than happened.
THEOREM AuditIsTrueCorrect == AllSpec => []AuditIsTrue
<1>1. Small!Dev!Spec => []Small!Dev!AuditIsTrue
  BY Assumed, FiniteRequests, Small!AuditIsTrueCorrect
<1>2. QED
  BY <1>1, DevicesRun, PTL DEF AuditIsTrue

\* A profile's level is the one that its growth earns, unless two saves wrote the
\* profile at once.
THEOREM LevelMatchesGrowthCorrect == AllSpec => []LevelMatchesGrowth
<1>1. Small!Mem!Spec => []Small!Mem!LevelMatchesGrowth
  BY Assumed, Small!LevelMatchesGrowthCorrect
<1>2. QED
  BY <1>1, MemberRun, PTL DEF LevelMatchesGrowth

\* A user's growth is the sum of the growth records, as long as no two rewards of the user
\* were given at once and no await failed.
THEOREM GrowthAddsUpCorrect == AllSpec => []GrowthAddsUp
<1>1. Small!Mem!Spec => []Small!Mem!GrowthAddsUp
  BY Assumed, Small!GrowthAddsUpCorrect
<1>2. QED
  BY <1>1, MemberRun, PTL DEF GrowthAddsUp

\* A monitored request is stored once, or is gone for a reason that is accepted.
THEOREM StoredOnceCorrect == AllSpec => []StoredOnce
<1>1. Small!Api!Spec => []Small!Api!StoredOnce
  BY Assumed, Small!StoredOnceCorrect
<1>2. QED
  BY <1>1, ApiMonitorRun, PTL DEF StoredOnce

\* The WeChat token handed to a request has neither ended nor been refused.
THEOREM HandedOutIsGoodCorrect == AllSpec => []HandedOutIsGood
<1>1. Small!Wec!Spec => []Small!Wec!HandedOutIsGood
  BY Assumed, Small!HandedOutIsGoodCorrect
<1>2. QED
  BY <1>1, WechatRun, PTL DEF HandedOutIsGood

\* A notice that a user had confirmed before the query does not pop up, unless somebody
\* deleted its confirmations.
THEOREM ConfirmedNotPendingCorrect == AllSpec => []ConfirmedNotPending
<1>1. Small!Not!Spec => []Small!Not!ConfirmedNotPending
  BY Assumed, Small!ConfirmedNotPendingCorrect
<1>2. QED
  BY <1>1, NoticesRun, PTL DEF ConfirmedNotPending

\* No stored picture is a full URL, and none has the host of a full base in it, whatever
\* the settings hold, banners and member levels apart.
THEOREM StoredIsBareCorrect == AllSpec => []StoredIsBare
<1>1. Small!Cat!Spec => []Small!Cat!StoredIsBare
  BY Assumed, Small!StoredIsBareCorrect
<1>2. QED
  BY <1>1, CatalogueRun, PTL DEF StoredIsBare

\* After a load that nothing ran beside, clients are shown the reachable regions of the
\* file, each once and below its parent.
THEOREM TreeShowsFileCorrect == AllSpec => []TreeShowsFile
<1>1. Small!Reg!Spec => []Small!Reg!TreeShowsFile
  BY Assumed, Small!TreeShowsFileCorrect
<1>2. QED
  BY <1>1, RegionsRun, PTL DEF TreeShowsFile

\* As long as no two imports ran at once, a name that nobody typed is listed once.
THEOREM ImportedOnceCorrect == AllSpec => []ImportedOnce
<1>1. Small!Cou!Spec => []Small!Cou!ImportedOnce
  BY Assumed, Small!ImportedOnceCorrect
<1>2. QED
  BY <1>1, CouriersRun, PTL DEF ImportedOnce

\* The guards let a request in, or turn it away, for a reason that held during it.
THEOREM DecisionIsJustCorrect == AllSpec => []DecisionIsJust
<1>1. Gua!Spec => []Gua!DecisionIsJust
  BY Assumed, Gua!DecisionIsJustCorrect
<1>2. QED
  BY <1>1, GuardsRun, PTL DEF DecisionIsJust

\* What is proved of Roles holds beside the other services.
THEOREM RolesCorrect ==
  AllSpec => /\ []CodesUnique /\ []SystemCodesReserved /\ []GuardIsCurrent /\ []TokenIsCurrent
             /\ SystemRolesStay
BY RolesRun, OneRowPerCode, BuiltInCodesReserved, GuardSeesPresent, TokenSeesPresent,
   SystemRolesAreKept, PTL
===============================================================================
