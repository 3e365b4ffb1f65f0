------------------------------ MODULE AppCatalog ------------------------------
(***************************************************************************)
(* The application catalog (apps/app-catalog-store.ts,                     *)
(* apps/app-catalog-feed-sync.ts, apps/app-catalog-auto-refresh.ts and     *)
(* their routes in web/routes/app-catalog.ts).  A feed source lists        *)
(* releases of applications; a synchronization, asked for by an            *)
(* administrator or begun by the timer, fetches the feed, then for each    *)
(* item the manifest it names, and stores what both agree on: an entry     *)
(* with the source's trust, and the author's signal for an installed       *)
(* application.  Between these steps the feed, the application's server,   *)
(* the source and the entry may change, and a signal may expire.           *)
(*                                                                         *)
(* A release is a number, the manifest with its version and hash; a server *)
(* never goes back to an earlier one.  An item of a feed is for one        *)
(* application, the one whose server it names.  Of the times only the      *)
(* expiry of signals is modelled, as the days that are left; the others    *)
(* and the errors are only shown and left out.                             *)
(***************************************************************************)
EXTENDS Naturals, FiniteSets

CONSTANTS
    Sources, Apps,
    Requests,       \* slots for the administrators' requests
    Timer,          \* the automatic refresh of the process
    Modes,          \* trust modes the administrators give to sources
    Claims,         \* trust statuses they give to manifests
    None,
    \* Bounds of the model, not of the code.
    MaxRelease,     \* releases of an application
    Validity,       \* days a signal is valid: seven in the code
    MaxChanges,     \* administrators' requests
    MaxFaults       \* failed fetches and restarts

TrustModes == {"dev", "manual", "verified", "official"}
Statuses == TrustModes \cup {"unverified"}
Releases == 1..MaxRelease
Tasks == Requests \cup {Timer}

Source == [trust : Modes, enabled : BOOLEAN, auto : BOOLEAN]
(* A feed's item: the release its manifest_sha256 or version names, the    *)
(* one its signed signal is about, 0 where it has none, and the days       *)
(* before the signal or its certificate expires: 0 too for one that does   *)
(* not verify, for whatever reason.                                        *)
Item == [release : 0..MaxRelease, signal : 0..MaxRelease, left : 0..Validity]
Provenance == [source : Sources \cup {None}, status : Statuses]
Manual == [source |-> None, status |-> "manual"]
Entry == [release : Releases, from : Provenance, published : BOOLEAN,
          refreshed : BOOLEAN]      \* history: its last writer was a refresh from the
                                    \* installed application
Task == [kind : {"sync", "manifest", "refresh", "auto", "publish"},
         step : {"feed", "item", "signal", "read", "store", "update"},
         from : Provenance,                     \* of what it stores
         items : [Apps -> Item \cup {None}],    \* of its feed, still to do
         app : Apps \cup {None},
         release : 0..MaxRelease,               \* fetched
         signal : 0..MaxRelease]                \* of the item it was fetched for

CatalogAssumption ==
    /\ Modes \subseteq TrustModes /\ Claims \subseteq {"dev", "manual", "unverified"}
    /\ Timer \notin Requests
    /\ MaxRelease \in Nat \ {0} /\ Validity \in Nat /\ MaxChanges \in Nat /\ MaxFaults \in Nat
    /\ None \notin Sources \cup Apps \cup Releases \cup Source \cup Item \cup Entry \cup Task

VARIABLES
    serves,     \* the release each application's server has (external)
    feed,       \* what each source's feed lists (external)
    listed,     \* history: what it has listed
    source,     \* core.app_catalog_sources
    entry,      \* core.app_catalog_entries
    signed,     \* core.app_update_signals: the release a signed row is about, or 0
    installed,  \* core.installed_apps: the release installed
    task,       \* what each request and the timer is doing
    todo,       \* the sources of this tick not yet synchronized, as they were read
    changes, faults

vars == <<serves, feed, listed, source, entry, signed, installed, task, todo, changes, faults>>

TypeOK ==
    /\ serves \in [Apps -> Releases]
    /\ feed \in [Sources -> [Apps -> Item \cup {None}]]
    /\ listed \subseteq Sources \X Apps \X (0..MaxRelease)
    /\ source \in [Sources -> Source \cup {None}]
    /\ entry \in [Apps -> Entry \cup {None}]
    /\ signed \in [Apps -> 0..MaxRelease]
    /\ installed \in [Apps -> Releases \cup {None}]
    /\ task \in [Tasks -> Task \cup {None}]
    /\ todo \subseteq Sources \X Modes
    /\ changes \in 0..MaxChanges /\ faults \in 0..MaxFaults
    /\ \A a \in Apps : signed[a] # 0 => installed[a] # None     \* a foreign key

Init ==
    /\ serves = [a \in Apps |-> 1]
    /\ feed = [s \in Sources |-> [a \in Apps |-> None]]
    /\ listed = {}
    /\ source = [s \in Sources |-> None]
    /\ entry = [a \in Apps |-> None]
    /\ signed = [a \in Apps |-> 0]
    /\ installed = [a \in Apps |-> None]
    /\ task = [t \in Tasks |-> None]
    /\ todo = {}
    /\ changes = 0 /\ faults = 0

world == <<serves, feed, listed>>
tables == <<source, entry, signed, installed>>

-----------------------------------------------------------------------------
(* Outside: releases, feeds and installations *)

Nothing == [a \in Apps |-> None]
At(t, step) == task[t] # None /\ task[t].step = step

Release(a) ==
    /\ serves[a] < MaxRelease
    /\ serves' = [serves EXCEPT ![a] = @ + 1]
    /\ UNCHANGED <<feed, listed, tables, task, todo, changes, faults>>

(* A feed lists what is served, with a hash or without, and with a signal  *)
(* of its author, one that does not verify, or none.                       *)
UpdateFeed(s, a, r, signal, left) ==
    /\ r \in {0, serves[a]} /\ <<s, a, r>> \notin listed
    /\ signal \in {0, serves[a]} /\ left \in {0, Validity} /\ (signal = 0 => left = 0)
    /\ feed' = [feed EXCEPT ![s][a] = [release |-> r, signal |-> signal, left |-> left]]
    /\ listed' = listed \cup {<<s, a, r>>}
    /\ UNCHANGED <<serves, tables, task, todo, changes, faults>>

(* The author signs what the feed lists once more. *)
RenewSignal(s, a) ==
    /\ feed[s][a] # None /\ feed[s][a].signal # 0 /\ feed[s][a].left < Validity
    /\ feed' = [feed EXCEPT ![s][a].left = Validity]
    /\ UNCHANGED <<serves, listed, tables, task, todo, changes, faults>>

DayOlder(item) ==
    IF item = None \/ item.left = 0 THEN item ELSE [item EXCEPT !.left = @ - 1]

NextDay ==
    /\ feed' = [s \in Sources |-> [a \in Apps |-> DayOlder(feed[s][a])]]
    /\ UNCHANGED <<serves, listed, tables, task, todo, changes, faults>>

(* An installation stores what it fetched, perhaps some time ago; of the   *)
(* same release nothing that matters here changes.                         *)
Install(a, r) ==
    /\ r <= serves[a] /\ installed[a] # r /\ changes < MaxChanges
    /\ changes' = changes + 1
    /\ installed' = [installed EXCEPT ![a] = r]
    /\ UNCHANGED <<world, source, entry, signed, task, todo, faults>>

(* The signal's row goes with the application. *)
Uninstall(a) ==
    /\ installed[a] # None /\ changes < MaxChanges
    /\ changes' = changes + 1
    /\ installed' = [installed EXCEPT ![a] = None]
    /\ signed' = [signed EXCEPT ![a] = 0]
    /\ UNCHANGED <<world, source, entry, task, todo, faults>>

-----------------------------------------------------------------------------
(* Sources *)

(* The url of a source that exists gets its new trust and is enabled; the  *)
(* flag of the automatic refresh stays.                                    *)
CreateFeedSource(s, mode) ==
    /\ changes < MaxChanges
    /\ changes' = changes + 1
    /\ source' = [source EXCEPT ![s] =
         [trust |-> mode, enabled |-> TRUE, auto |-> @ # None /\ @.auto]]
    /\ UNCHANGED <<world, entry, signed, installed, task, todo, faults>>

SetSourceEnabled(s, is) ==
    /\ source[s] # None /\ source[s].enabled # is /\ changes < MaxChanges
    /\ changes' = changes + 1
    /\ source' = [source EXCEPT ![s].enabled = is]
    /\ UNCHANGED <<world, entry, signed, installed, task, todo, faults>>

Trusted(mode) == mode \in {"verified", "official"}

-----------------------------------------------------------------------------
(* Tasks *)

NewTask(kind, step, from, app, release) ==
    [kind |-> kind, step |-> step, from |-> from, items |-> Nothing, app |-> app,
     release |-> release, signal |-> 0]

End(t) == task' = [task EXCEPT ![t] = None]

Begin(q, new) ==
    /\ task[q] = None /\ changes < MaxChanges
    /\ task' = [task EXCEPT ![q] = new]
    /\ changes' = changes + 1
    /\ UNCHANGED <<world, tables, todo, faults>>

(* setSourceAutoRefresh reads the source, then updates it. *)
StartAutoRefresh(q, s) ==
    /\ source[s] # None /\ Trusted(source[s].trust) /\ ~source[s].auto
    /\ Begin(q, NewTask("auto", "update", [source |-> s, status |-> source[s].trust], None, 0))

SetSourceAutoRefresh(q) ==
    LET s == task[q].from.source IN
    /\ At(q, "update") /\ task[q].kind = "auto"
    /\ source' = [source EXCEPT ![s].auto = TRUE]
    /\ End(q)
    /\ UNCHANGED <<world, entry, signed, installed, todo, changes, faults>>

StopAutoRefresh(s) ==
    /\ source[s] # None /\ source[s].auto /\ changes < MaxChanges
    /\ changes' = changes + 1
    /\ source' = [source EXCEPT ![s].auto = FALSE]
    /\ UNCHANGED <<world, entry, signed, installed, task, todo, faults>>

-----------------------------------------------------------------------------
(* Synchronizing a source, as it was when it was read *)

TrustStatusFromSource(mode) == IF mode = "manual" THEN "unverified" ELSE mode

Sync(s, mode) ==
    NewTask("sync", "feed", [source |-> s, status |-> TrustStatusFromSource(mode)], None, 0)

StartSync(q, s) ==
    /\ source[s] # None /\ source[s].enabled
    /\ Begin(q, Sync(s, source[s].trust))

(* Mutant: the flag is trusted. *)
IsFlagged(s) == source[s] # None /\ source[s].enabled /\ source[s].auto

IsAutoRefreshEligible(s) ==
    source[s] # None /\ source[s].enabled /\ source[s].auto /\ Trusted(source[s].trust)

(* A tick does nothing while the last one runs. *)
Tick ==
    LET eligible == {s \in Sources : IsAutoRefreshEligible(s)} IN
    /\ todo = {} /\ task[Timer] = None /\ eligible # {}
    /\ todo' = {<<s, source[s].trust>> : s \in eligible}
    /\ UNCHANGED <<world, tables, task, changes, faults>>

TickNext(s, mode) ==
    /\ task[Timer] = None /\ <<s, mode>> \in todo
    /\ task' = [task EXCEPT ![Timer] = Sync(s, mode)]
    /\ todo' = todo \ {<<s, mode>>}
    /\ UNCHANGED <<world, tables, changes, faults>>

FetchCatalogFeed(t) ==
    /\ At(t, "feed")
    /\ task' = [task EXCEPT ![t].step = "item", ![t].items = feed[task[t].from.source]]
    /\ UNCHANGED <<world, tables, todo, changes, faults>>

(* The signatures and the expiry of an item's signal. *)
VerifyAuthorUpdateSignal(item) == item.signal # 0 => item.left > 0

(* Mutant: without a signal the hash is not compared. *)
MatchesSignal(item, release) ==
    item.signal \in {0, release} /\ VerifyAuthorUpdateSignal(item)

(* What an item and the manifest fetched for it must agree on. *)
Matches(item, release) ==
    /\ item.release \in {0, release} /\ item.signal \in {0, release}
    /\ VerifyAuthorUpdateSignal(item)

Fetched(x, a) ==
    [x EXCEPT !.step = "signal", !.items[a] = None, !.app = a, !.release = serves[a],
              !.signal = x.items[a].signal]

(* The manifest an item names; one that does not match is an error of the  *)
(* item only.  A day may have ended since the feed was fetched, but not    *)
(* two: the fetches of its items, two hundred at most, end after eight     *)
(* seconds each.                                                           *)
FetchItemManifest(t, a) ==
    LET listing == task[t].items[a] IN
    /\ At(t, "item") /\ listing # None
    /\ \E item \in {listing, DayOlder(listing)} :
         task' = IF Matches(item, serves[a])
                 THEN [task EXCEPT ![t] = Fetched(@, a)]
                 ELSE [task EXCEPT ![t].items[a] = None]
    /\ UNCHANGED <<world, tables, todo, changes, faults>>

(* Mutant: nothing is asked of core.installed_apps. *)
InsertSignalAnyway(t) ==
    LET a == task[t].app IN
    /\ At(t, "signal")
    /\ signed' = IF task[t].signal # 0
                 THEN [signed EXCEPT ![a] = task[t].signal] ELSE signed
    /\ task' = [task EXCEPT ![t].step = "store", ![t].signal = 0]
    /\ UNCHANGED <<world, source, entry, installed, todo, changes, faults>>

(* The insert finds its row in core.installed_apps or inserts nothing. *)
InsertSignal(t) ==
    LET a == task[t].app IN
    /\ At(t, "signal")
    /\ signed' = IF task[t].signal # 0 /\ installed[a] # None
                 THEN [signed EXCEPT ![a] = task[t].signal] ELSE signed
    /\ task' = [task EXCEPT ![t].step = "store", ![t].signal = 0]
    /\ UNCHANGED <<world, source, entry, installed, todo, changes, faults>>

(* A report of the application or an administrator takes the row, and the  *)
(* signature from it.                                                      *)
ReportSignal(a) ==
    /\ installed[a] # None /\ signed[a] # 0
    /\ signed' = [signed EXCEPT ![a] = 0]
    /\ UNCHANGED <<world, source, entry, installed, task, todo, changes, faults>>

EndSync(t) ==
    /\ At(t, "item") /\ task[t].items = Nothing
    /\ End(t)
    /\ UNCHANGED <<world, tables, todo, changes, faults>>

(* The feed's fetch fails and ends the synchronization, or a manifest's    *)
(* fetch and ends the item.                                                *)
FetchFails(t) ==
    /\ faults < MaxFaults
    /\ faults' = faults + 1
    /\ \/ At(t, "feed") /\ End(t)
       \/ \E a \in Apps :
            /\ At(t, "item") /\ task[t].items[a] # None
            /\ task' = [task EXCEPT ![t].items[a] = None]
    /\ UNCHANGED <<world, tables, todo, changes>>

-----------------------------------------------------------------------------
(* Storing an entry *)

(* Mutant: on conflict do nothing. *)
InsertFromManifest(a, release, from, refreshed) ==
    entry' = [entry EXCEPT ![a] = IF @ # None THEN @ ELSE
      [release |-> release, from |-> from, refreshed |-> refreshed, published |-> FALSE]]

(* On conflict only what publication has written stays. *)
UpsertFromManifest(a, release, from, refreshed) ==
    entry' = [entry EXCEPT ![a] =
      [release |-> release, from |-> from, refreshed |-> refreshed,
       published |-> @ # None /\ @.published]]

StoreEntry(t) ==
    LET a == task[t].app IN
    /\ At(t, "store")
    /\ UpsertFromManifest(a, task[t].release, task[t].from, task[t].kind = "refresh")
    /\ task' = [task EXCEPT ![t] =
         IF @.kind = "sync"
         THEN [@ EXCEPT !.step = "item", !.app = None, !.release = 0] ELSE None]
    /\ UNCHANGED <<world, source, signed, installed, todo, changes, faults>>

(* From a manifest's url, with a status that claims nothing. *)
StartFromManifest(q, a, status) ==
    Begin(q, NewTask("manifest", "store", [source |-> None, status |-> status], a, serves[a]))

(* From the installed application: its manifest is fetched, the entry read *)
(* and stored again with the provenance it had.                            *)
StartRefreshFromInstalled(q, a) ==
    /\ installed[a] # None
    /\ Begin(q, NewTask("refresh", "read", Manual, a, serves[a]))

ReadEntry(q) ==
    LET existing == entry[task[q].app] IN
    /\ At(q, "read")
    /\ task' = [task EXCEPT ![q].step = "store",
                            ![q].from = IF existing = None THEN Manual ELSE existing.from]
    /\ UNCHANGED <<world, tables, todo, changes, faults>>

-----------------------------------------------------------------------------
(* Publication, deletion, and the end of the process *)

(* The entry and the installed application are read, then the entry is     *)
(* updated, if it is still there.                                          *)
StartPublication(q, a) ==
    /\ entry[a] # None /\ ~entry[a].published /\ installed[a] # None
    /\ Begin(q, NewTask("publish", "update", Manual, a, 0))

SetEntryPublished(q) ==
    LET a == task[q].app IN
    /\ At(q, "update") /\ task[q].kind = "publish"
    /\ entry' = [entry EXCEPT ![a] = IF @ = None THEN None ELSE [@ EXCEPT !.published = TRUE]]
    /\ End(q)
    /\ UNCHANGED <<world, source, signed, installed, todo, changes, faults>>

Unpublish(a) ==
    /\ entry[a] # None /\ entry[a].published
    /\ entry' = [entry EXCEPT ![a].published = FALSE]
    /\ UNCHANGED <<world, source, signed, installed, task, todo, changes, faults>>

DeleteEntry(a) ==
    /\ entry[a] # None /\ changes < MaxChanges
    /\ changes' = changes + 1
    /\ entry' = [entry EXCEPT ![a] = None]
    /\ UNCHANGED <<world, source, signed, installed, task, todo, faults>>

Restart ==
    /\ todo # {} \/ \E t \in Tasks : task[t] # None
    /\ faults < MaxFaults
    /\ faults' = faults + 1
    /\ task' = [t \in Tasks |-> None]
    /\ todo' = {}
    /\ UNCHANGED <<world, tables, changes>>

-----------------------------------------------------------------------------

SyncStep(t) ==
    \/ FetchCatalogFeed(t) \/ InsertSignal(t) \/ StoreEntry(t) \/ EndSync(t)
    \/ \E a \in Apps : FetchItemManifest(t, a)

TimerStep == Tick \/ (\E s \in Sources, mode \in Modes : TickNext(s, mode)) \/ SyncStep(Timer)

RequestStep(q) == SyncStep(q) \/ SetSourceAutoRefresh(q) \/ ReadEntry(q) \/ SetEntryPublished(q)

Next ==
    \/ \E a \in Apps :
         \/ Release(a) \/ Uninstall(a) \/ Unpublish(a) \/ DeleteEntry(a) \/ ReportSignal(a)
         \/ \E r \in Releases : Install(a, r)
         \/ \E s \in Sources :
              \/ \E r, signal \in 0..MaxRelease, left \in 0..Validity :
                   UpdateFeed(s, a, r, signal, left)
              \/ RenewSignal(s, a)
    \/ NextDay
    \/ \E s \in Sources :
         \/ \E mode \in Modes : CreateFeedSource(s, mode)
         \/ \E is \in BOOLEAN : SetSourceEnabled(s, is)
         \/ StopAutoRefresh(s)
    \/ \E q \in Requests :
         \/ \E s \in Sources : StartSync(q, s) \/ StartAutoRefresh(q, s)
         \/ \E a \in Apps :
              \/ \E status \in Claims : StartFromManifest(q, a, status)
              \/ StartRefreshFromInstalled(q, a) \/ StartPublication(q, a)
         \/ RequestStep(q)
    \/ TimerStep
    \/ \E t \in Tasks : FetchFails(t)
    \/ Restart

(* The interval fires again and again, and a request that has begun goes   *)
(* on.                                                                     *)
Fairness == WF_vars(TimerStep) /\ \A q \in Requests : WF_vars(RequestStep(q))

Spec == Init /\ [][Next]_vars /\ Fairness

-----------------------------------------------------------------------------
(* What the timer stores comes from a source that was trusted when the     *)
(* tick began, whatever flag a source kept when it lost its trust.         *)
TimerTrustsSource ==
    [][\A a \in Apps :
         entry'[a] # entry[a] /\ task'[Timer] # task[Timer]
           => Trusted(entry'[a].from.status)]_vars

(* However the feed and the server change between the fetches: an entry   *)
(* that names a source has a release that this source's feed has listed,   *)
(* unless the feed has listed the application without a hash or the entry  *)
(* was refreshed from the installed application.                           *)
FeedEntriesWereListed ==
    \A a \in Apps :
      entry[a] # None /\ entry[a].from.source # None /\ ~entry[a].refreshed
        => \E r \in {0, entry[a].release} : <<entry[a].from.source, a, r>> \in listed

(* What a source that stays eligible lists, consistently and for good, is  *)
(* in the end what the catalog has, if no other source lists the           *)
(* application: an older synchronization stored last is overtaken.  Days   *)
(* pass all the while: a signed item must be signed again each time before *)
(* its last day, or it fails at every synchronization from then on.        *)
SettledAt(s, a, r) ==
    /\ IsAutoRefreshEligible(s) /\ serves[a] = r
    /\ feed[s][a] # None /\ Matches(feed[s][a], r)
    /\ feed[s][a].signal # 0 => feed[s][a].left > 1
    /\ \A o \in Sources \ {s} : feed[o][a] = None

EntriesCatchUp ==
    \A s \in Sources, a \in Apps, r \in Releases :
      <>[]SettledAt(s, a, r) => <>[](entry[a] # None /\ entry[a].release = r)
=============================================================================
