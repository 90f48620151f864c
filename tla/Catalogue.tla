------------------------------ MODULE Catalogue ------------------------------
(***************************************************************************)
(* The rows that administrators edit and clients are shown, each with a    *)
(* picture: banners, quick navigation, rules, payment methods, member      *)
(* levels, images and the system's own settings.  Their services are one   *)
(* program seven times over, so one record per service says where it       *)
(* differs, and the initial state picks the service.                       *)
(*                                                                         *)
(* A picture is stored as a path and shown as a URL: StorageConfigService  *)
(* puts the domain of the moment before it, and takes any domain off what  *)
(* a form sends back.  Columns without a picture decide nothing.           *)
(***************************************************************************)
EXTENDS Naturals, Sequences

CONSTANTS
  Calls,      \* forms and requests
  Ids,        \* keys of rows
  Files,      \* names of uploaded files
  Settings,   \* bodies of an update of the storage settings: records of some of the columns
  MaxFailures \* bound on failed awaits

(***************************************************************************)
(* Pictures and settings are texts, cut at their slashes: whether a text   *)
(* begins with http:// or https://, whether one without them begins with a *)
(* slash, and the parts, which for a full URL are the host and the path.   *)
(* Settings are whatever was typed in: a base may have a path or no scheme.*)
(***************************************************************************)
Empty == [scheme |-> FALSE, slash |-> FALSE, parts |-> <<>>]

\* What is stored of an upload, the text that a promise turns into, and what is
\* between two slashes next to each other.
Folder == "images"
Broken == "[object Promise]"
Blank == "blank"
Uploaded(file) == [scheme |-> FALSE, slash |-> FALSE, parts |-> <<Folder, file>>]
Promised == [scheme |-> FALSE, slash |-> FALSE, parts |-> <<Broken>>]

TextFields == {"localBaseUrl", "ossCdnDomain", "ossEndpoint", "ossBucket", "ossRegion"}
PartsOf(text) == {text.parts[i] : i \in DOMAIN text.parts}
Segments == Files \cup {Broken, Folder, "https:", Blank}
            \cup UNION {UNION {PartsOf(body[f]) : f \in TextFields \cap DOMAIN body} : body \in Settings}

Texts == [scheme : BOOLEAN, slash : BOOLEAN, parts : Seq(Segments)]

\* https:// and the bucket's name; the region only lengthens the host.
OfBucket(bucket) ==
  [scheme |-> TRUE, slash |-> FALSE,
   parts |-> (IF bucket.scheme THEN <<"https:", Blank>> ELSE <<>>) \o bucket.parts]

\* Domain of the storage settings.
Base(config) ==
  IF config.provider = "local" THEN config.localBaseUrl
  ELSE IF config.ossCdnDomain # Empty THEN config.ossCdnDomain
  ELSE IF config.ossEndpoint # Empty THEN config.ossEndpoint
  ELSE IF config.ossBucket # Empty /\ config.ossRegion # Empty THEN OfBucket(config.ossBucket)
  ELSE Empty

NeedsConfig(url) == url # Empty /\ ~url.scheme

\* resolveFileUrl: an object store without a domain leaves a bare path.
Resolved(url, config) ==
  LET base == Base(config)
  IN  IF ~NeedsConfig(url) THEN url
      ELSE IF base = Empty THEN [url EXCEPT !.slash = (config.provider = "local")]
      ELSE [base EXCEPT !.parts = @ \o url.parts]

\* Mutation: every URL is returned as it is.
NormalizedNot(url) == url

\* normalizeFileUrl: what has no scheme is returned as it is, of a full URL the
\* path behind the host; of two slashes that come next to each other one is left.
Normalized(url) ==
  LET slash == Len(url.parts) > 2 /\ url.parts[2] = Blank
  IN  IF ~url.scheme THEN url
      ELSE [scheme |-> FALSE, slash |-> slash,
            parts |-> SubSeq(url.parts, IF slash THEN 3 ELSE 2, Len(url.parts))]

(***************************************************************************)
(* The services: what each does besides finding, saving and showing rows.  *)
(* create, update: whether there is such a method, and what it does with   *)
(* the picture sent; remove: whether it looks the row up first; seeds:     *)
(* rows it inserts on its own; shows: how a row is displayed.              *)
(***************************************************************************)
Banner == [create |-> "normalized", update |-> "resolved", remove |-> "found",
           seeds |-> FALSE, shows |-> "url"]
QuickNav == [create |-> "normalized", update |-> "normalized", remove |-> "blind",
             seeds |-> FALSE, shows |-> "url"]
Rule == [create |-> "never", update |-> "normalized", remove |-> "never",
         seeds |-> TRUE, shows |-> "url"]
PaymentMethod == [create |-> "normalized", update |-> "normalized", remove |-> "found",
                  seeds |-> TRUE, shows |-> "url"]
MemberLevel == [create |-> "normalized", update |-> "normalized", remove |-> "found",
                seeds |-> FALSE, shows |-> "promise"]
Image == [create |-> "normalized", update |-> "never", remove |-> "found",
          seeds |-> FALSE, shows |-> "url"]
SystemConfig == [create |-> "never", update |-> "normalized", remove |-> "never",
                 seeds |-> TRUE, shows |-> "url"]

Services == [banner |-> Banner, quickNav |-> QuickNav, rule |-> Rule,
             paymentMethod |-> PaymentMethod, memberLevel |-> MemberLevel,
             image |-> Image, systemConfig |-> SystemConfig]
Kinds == DOMAIN Services

\* Kinds whose create accepts a body without a picture.
PictureOptional == {"paymentMethod", "memberLevel"}

VARIABLES
  kind,      \* the service of this run
  rows,      \* its table: "none" before the insert, "gone" after the removal, else the picture
  config,    \* storage_config: NoConfig before the row exists
  call,      \* local state of each form or request
  failures

vars == <<kind, rows, config, call, failures>>

Service == Services[kind]

Absent == "none"
Gone == "gone"
Pictures == [row : {Absent, Gone}] \cup [row : {"live"}, url : Texts]
Live(id) == rows[id].row = "live"

Configs == [provider : {"local", "oss"}, localBaseUrl : Texts, ossCdnDomain : Texts,
            ossEndpoint : Texts, ossBucket : Texts, ossRegion : Texts]
NoConfig == [provider |-> "none"]
Defaults == [provider |-> "local", localBaseUrl |-> Empty, ossCdnDomain |-> Empty,
             ossEndpoint |-> Empty, ossBucket |-> Empty, ossRegion |-> Empty]

(***************************************************************************)
(* A form holds a picture to send, in a call that goes on as its request.  *)
(* then: what follows once a picture is resolved.                          *)
(***************************************************************************)
Local == [at : {"idle", "done", "settings"}]
         \cup [at : {"resolve", "insertConfig"}, then : {"form", "save"}, id : Ids, url : Texts]
         \cup [at : {"form", "save"}, id : Ids, url : Texts]
         \cup [at : {"remove"}, id : Ids]
         \cup [at : {"saveSettings"}, row : Configs \cup {NoConfig}]

\* Types of the service's table, the storage settings and the calls.
TypeOK ==
  /\ kind \in Kinds
  /\ rows \in [Ids -> Pictures]
  /\ config \in Configs \cup {NoConfig}
  /\ call \in [Calls -> Local]
  /\ failures \in 0 .. MaxFailures

\* onModuleInit, or the first reading of the settings, has inserted the seeds.
Init ==
  /\ kind \in Kinds
  /\ \E seeds \in SUBSET Ids :
       /\ IF Service.seeds THEN seeds # {} ELSE seeds = {}
       /\ rows = [id \in Ids |-> IF id \in seeds THEN [row |-> "live", url |-> Empty]
                                 ELSE [row |-> Absent]]
  /\ config = NoConfig
  /\ call = [c \in Calls |-> [at |-> "idle"]]
  /\ failures = 0

At(c, at) == call[c].at = at
Set(c, local) == call' = [call EXCEPT ![c] = local]
Done == [at |-> "done"]

(***************************************************************************)
(* Pictures into a form                                                    *)
(***************************************************************************)
\* A listing has read its rows, and goes on to resolve their pictures.
List(c, id) ==
  /\ At(c, "idle") /\ Live(id)
  /\ Set(c, IF Service.shows = "url"
            THEN [at |-> "resolve", then |-> "form", id |-> id, url |-> rows[id].url]
            ELSE [at |-> "form", id |-> id,
                  url |-> IF rows[id].url = Empty THEN Empty ELSE Promised])
  /\ UNCHANGED <<kind, rows, config, failures>>

\* An upload answers with the URL of the new file.
Upload(c, id, file) ==
  /\ At(c, "idle")
  /\ Set(c, [at |-> "resolve", then |-> "form", id |-> id, url |-> Uploaded(file)])
  /\ UNCHANGED <<kind, rows, config, failures>>

Continue(c, url) == Set(c, [at |-> call[c].then, id |-> call[c].id, url |-> url])

\* getConfig inside resolveFileUrl, when the picture needs it.
Resolve(c) ==
  /\ At(c, "resolve")
  /\ IF NeedsConfig(call[c].url) /\ config = NoConfig
     THEN Set(c, [call[c] EXCEPT !.at = "insertConfig"])
     ELSE Continue(c, IF NeedsConfig(call[c].url) THEN Resolved(call[c].url, config)
                      ELSE call[c].url)
  /\ UNCHANGED <<kind, rows, config, failures>>

\* save of the default row: what another call has inserted takes its provider,
\* but the caller resolves with the defaults.
StoredDefaults == IF config = NoConfig THEN Defaults ELSE [config EXCEPT !.provider = "local"]

EnsureConfig(c) ==
  /\ At(c, "insertConfig")
  /\ config' = StoredDefaults
  /\ Continue(c, Resolved(call[c].url, Defaults))
  /\ UNCHANGED <<kind, rows, failures>>

(***************************************************************************)
(* The service                                                             *)
(***************************************************************************)
Store(id, url) == rows' = [rows EXCEPT ![id] = [row |-> "live", url |-> url]]

\* create: a payment method whose code is taken is refused.
Create(c) ==
  /\ At(c, "form") /\ Service.create = "normalized"
  /\ rows[call[c].id].row = Absent
  /\ \/ Store(call[c].id, Normalized(call[c].url))
     \/ kind \in PictureOptional /\ Store(call[c].id, Empty)
  /\ Set(c, Done)
  /\ UNCHANGED <<kind, config, failures>>

\* update, and toggleEnabled: the row is loaded and its columns are assigned; a
\* body without a picture leaves the one loaded.
Update(c) ==
  /\ At(c, "form") /\ Service.update # "never"
  /\ LET id == call[c].id
     IN  IF ~ Live(id) THEN Set(c, Done)
         ELSE \/ Set(c, [at |-> "save", id |-> id, url |-> rows[id].url])
              \/ /\ Service.update = "normalized"
                 /\ Set(c, [at |-> "save", id |-> id, url |-> Normalized(call[c].url)])
              \/ /\ Service.update = "resolved"
                 /\ Set(c, [at |-> "resolve", then |-> "save", id |-> id, url |-> call[c].url])
  /\ UNCHANGED <<kind, rows, config, failures>>

\* The whole row is saved; one removed in the meantime is inserted again.
Save(c) ==
  /\ At(c, "save")
  /\ Store(call[c].id, call[c].url)
  /\ Set(c, Done)
  /\ UNCHANGED <<kind, config, failures>>

RemoveFind(c, id) ==
  /\ At(c, "idle") /\ Service.remove # "never" /\ rows[id].row # Absent
  /\ Set(c, IF Service.remove = "blind" \/ Live(id) THEN [at |-> "remove", id |-> id] ELSE Done)
  /\ UNCHANGED <<kind, rows, config, failures>>

Remove(c) ==
  /\ At(c, "remove")
  /\ rows' = [rows EXCEPT ![call[c].id] = [row |-> Gone]]
  /\ Set(c, Done)
  /\ UNCHANGED <<kind, config, failures>>

(***************************************************************************)
(* Storage settings                                                        *)
(***************************************************************************)
\* updateConfig: ensureConfig may have to insert the default row first.
UpdateConfig(c) ==
  /\ At(c, "idle")
  /\ Set(c, IF config = NoConfig THEN [at |-> "settings"] ELSE [at |-> "saveSettings", row |-> config])
  /\ UNCHANGED <<kind, rows, config, failures>>

InsertSettings(c) ==
  /\ At(c, "settings")
  /\ config' = StoredDefaults
  /\ Set(c, [at |-> "saveSettings", row |-> NoConfig])
  /\ UNCHANGED <<kind, rows, failures>>

\* The body replaces the columns it has; the whole loaded row is saved.  An entity
\* that this call has inserted has no other column than the provider.
SaveSettings(c) ==
  /\ At(c, "saveSettings")
  /\ \E body \in Settings :
       LET row == IF call[c].row = NoConfig THEN StoredDefaults ELSE call[c].row
       IN  config' = [f \in DOMAIN row |-> IF f \in DOMAIN body THEN body[f] ELSE row[f]]
  /\ Set(c, Done)
  /\ UNCHANGED <<kind, rows, failures>>

\* A failed statement ends the request; a form waits on no statement.
AwaitFails(c) ==
  /\ failures < MaxFailures
  /\ call[c].at \notin {"idle", "form", "done"}
  /\ failures' = failures + 1
  /\ Set(c, Done)
  /\ UNCHANGED <<kind, rows, config>>

Step(c) ==
  \/ \E id \in Ids : List(c, id)
  \/ \E id \in Ids, file \in Files : Upload(c, id, file)
  \/ Resolve(c)
  \/ EnsureConfig(c)
  \/ Create(c)
  \/ Update(c)
  \/ Save(c)
  \/ \E id \in Ids : RemoveFind(c, id)
  \/ Remove(c)
  \/ UpdateConfig(c)
  \/ InsertSettings(c)
  \/ SaveSettings(c)
  \/ AwaitFails(c)

Next == \E c \in Calls : Step(c)

Spec == Init /\ [][Next]_vars

(***************************************************************************)
(* Correctness                                                             *)
(***************************************************************************)
\* The bases that the settings can give, and the parts of them that stay in a
\* path: all but the host of a full URL.
Bases == UNION {{IF f = "ossBucket" THEN OfBucket(body[f]) ELSE body[f] :
                   f \in (TextFields \ {"ossRegion"}) \cap DOMAIN body} : body \in Settings}
Kept == {Folder} \cup UNION {{base.parts[i] : i \in (IF base.scheme THEN 2 ELSE 1) .. Len(base.parts)} :
                              base \in Bases}

\* normalizeFileUrl is there so that a new domain reaches every picture: however
\* the settings change between the moment a form is filled and the moment it is
\* sent, and however often, a stored picture is no full URL, it ends in an
\* uploaded file unless it is empty, and no host of a full base is in it.  Paths
\* of bases, and bases without a scheme, do stay.  Banners and member levels do
\* not even keep this.
StoredIsBare ==
  kind \notin {"banner", "memberLevel"} =>
    \A id \in Ids : Live(id) =>
      LET url == rows[id].url
      IN  /\ ~url.scheme
          /\ \A i \in 1 .. Len(url.parts) :
               url.parts[i] \in IF i = Len(url.parts) THEN Files ELSE Kept

\* What the comment of ensureConfig promises: the default settings are for a row
\* that does not exist, and an existing one changes by an update only.
OnlyUpdatesChange ==
  [][config # NoConfig /\ config' # config
       => \E c \in Calls : At(c, "saveSettings") /\ ~At(c, "saveSettings")']_vars
===============================================================================
