------------------------------ MODULE AppInstall ------------------------------
(***************************************************************************)
(* Installing, refreshing and uninstalling applications                    *)
(* (apps/app-installer.ts, web/routes/apps-installed.ts): the manifest and *)
(* the UI bundle are fetched from the application's own service, the       *)
(* bundle is written to the file of the application's slug, the row is     *)
(* upserted into core.installed_apps, and a refresh ends by clearing the   *)
(* update signal that announced the new version.                           *)
(*                                                                         *)
(* A request is a sequence of awaits with nothing held between them.       *)
(* Manifest and bundle are two fetches, between which the service may      *)
(* publish again; the file is written before the slug is found to be       *)
(* taken; the file is opened with truncation and filled afterwards.  Only  *)
(* the unique constraints of the table see two requests at once.           *)
(***************************************************************************)
EXTENDS Naturals

CONSTANTS
    Apps, Slugs,
    Urls,           \* normalised base URLs (origins)
    Requests,       \* slots for install and refresh requests
    None,
    Blank, Torn,    \* file contents that are no bundle
    \* Bounds of the model, not of the code.
    MaxRev,         \* releases a service publishes
    Reported        \* releases an update signal announces

Revs == 1..MaxRev
Manifest == [app : Apps, slug : Slugs, rev : Revs]
Bundle == Urls \X Revs
Row == [slug : Slugs, url : Urls, rev : Revs, ui : Bundle]
Signal == [rev : Revs, open : BOOLEAN]
Steps == {"manifest", "artifact", "open", "write", "slug", "insert", "clear"}
Request == [kind : {"install", "refresh"}, step : Steps, app : Apps, url : Urls,
            man : Manifest \cup {None}, bundle : Bundle \cup {None},
            alone : BOOLEAN]    \* history: no other request was under way since it began

ASSUME InstallAssumption == MaxRev \in Nat \ {0} /\ Reported \subseteq Revs

ASSUME AbsenceAssumption ==
    /\ None \notin Manifest \cup Row \cup Signal \cup Request
    /\ {None, Blank, Torn} \cap Bundle = {}
    /\ None # Blank /\ None # Torn /\ Blank # Torn

VARIABLES
    served,     \* the manifest each service serves now (external)
    row,        \* core.installed_apps
    signal,     \* core.app_update_signals
    file,       \* <CORE_DATA_DIR>/apps/<slug>/ui/plugin.js
    req         \* the requests under way

vars == <<served, row, signal, file, req>>

TypeOK ==
    /\ served \in [Urls -> Manifest]
    /\ row \in [Apps -> Row \cup {None}]
    /\ signal \in [Apps -> Signal \cup {None}]
    /\ file \in [Slugs -> Bundle \cup {None, Blank, Torn}]
    /\ req \in [Requests -> Request \cup {None}]

Installed == {a \in Apps : row[a] # None}

Init ==
    /\ served \in [Urls -> [app : Apps, slug : Slugs, rev : {1}]]
    /\ row = [a \in Apps |-> None]
    /\ signal = [a \in Apps |-> None]
    /\ file = [s \in Slugs |-> None]
    /\ req = [q \in Requests |-> None]

-----------------------------------------------------------------------------
(* Steps of a request *)

At(q, step) == req[q] # None /\ req[q].step = step
Advance(q, step) == req' = [req EXCEPT ![q].step = step]
End(q) == req' = [req EXCEPT ![q] = None]

Overlapped(x) == IF x = None THEN None ELSE [x EXCEPT !.alone = FALSE]
Alone(q) == \A p \in Requests \ {q} : req[p] = None
Begin(q, x) ==
    /\ req[q] = None
    /\ req' = [p \in Requests |-> IF p = q THEN x ELSE Overlapped(req[p])]

(* POST /apps/installed.  The manifest must still have the hash the        *)
(* administrator was shown, so the installed one is the served one.        *)
StartInstall(q, u) ==
    /\ Begin(q, [kind |-> "install", step |-> "artifact", app |-> served[u].app, url |-> u,
                 man |-> served[u], bundle |-> None, alone |-> Alone(q)])
    /\ UNCHANGED <<served, row, signal, file>>

(* POST /apps/installed/:app_id/refresh-artifact: the base URL of the row. *)
StartRefresh(q, a) ==
    /\ a \in Installed
    /\ Begin(q, [kind |-> "refresh", step |-> "manifest", app |-> a, url |-> row[a].url,
                 man |-> None, bundle |-> None, alone |-> Alone(q)])
    /\ UNCHANGED <<served, row, signal, file>>

(* Mutant: whatever the service has become, the refresh goes on. *)
FetchManifestAnyApp(q) ==
    /\ At(q, "manifest")
    /\ req' = [req EXCEPT ![q].man = served[req[q].url], ![q].step = "artifact"]
    /\ UNCHANGED <<served, row, signal, file>>

(* Mutant: a refresh of what is no longer this application takes its       *)
(* announcement back.                                                      *)
FetchManifestForgetful(q) ==
    /\ At(q, "manifest")
    /\ LET man == served[req[q].url] IN
         IF man.app = req[q].app
           THEN req' = [req EXCEPT ![q].man = man, ![q].step = "artifact"]
           ELSE Advance(q, "clear")
    /\ UNCHANGED <<served, row, signal, file>>

(* A refresh stops when the service has become another application's. *)
FetchManifest(q) ==
    /\ At(q, "manifest")
    /\ LET man == served[req[q].url] IN
         IF man.app = req[q].app
           THEN req' = [req EXCEPT ![q].man = man, ![q].step = "artifact"]
           ELSE End(q)
    /\ UNCHANGED <<served, row, signal, file>>

(* Mutant: a bundle of this service that is stored already is not fetched. *)
FetchArtifactCached(q) ==
    /\ At(q, "artifact")
    /\ LET stored == file[req[q].man.slug] IN
         req' = [req EXCEPT ![q].step = "open",
                   ![q].bundle = IF stored \in {req[q].url} \X Revs THEN stored
                                 ELSE <<req[q].url, served[req[q].url].rev>>]
    /\ UNCHANGED <<served, row, signal, file>>

FetchArtifact(q) ==
    /\ At(q, "artifact")
    /\ req' = [req EXCEPT ![q].bundle = <<req[q].url, served[req[q].url].rev>>,
                          ![q].step = "open"]
    /\ UNCHANGED <<served, row, signal, file>>

OpenFile(q) ==
    /\ At(q, "open")
    /\ file' = [file EXCEPT ![req[q].man.slug] = Blank]
    /\ Advance(q, "write")
    /\ UNCHANGED <<served, row, signal>>

(* Written from the start of the file: over another bundle that arrived    *)
(* since the truncation, a shorter one leaves a tail of the other.         *)
WriteFile(q) ==
    /\ At(q, "write")
    /\ LET s == req[q].man.slug
           mine == req[q].bundle
       IN  \E content \in {mine} \cup (IF file[s] \in {Blank, mine} THEN {} ELSE {Torn}) :
             file' = [file EXCEPT ![s] = content]
    /\ Advance(q, "slug")
    /\ UNCHANGED <<served, row, signal>>

SlugTaken(a, s) == \E b \in Installed \ {a} : row[b].slug = s
UrlTaken(a, u) == \E b \in Installed \ {a} : row[b].url = u

CheckSlug(q) ==
    /\ At(q, "slug")
    /\ IF SlugTaken(req[q].man.app, req[q].man.slug) THEN End(q) ELSE Advance(q, "insert")
    /\ UNCHANGED <<served, row, signal, file>>

(* Mutant: the integrity recorded is that of the bundle served by now. *)
InsertRowRefetched(q) ==
    /\ At(q, "insert")
    /\ LET man == req[q].man IN
         IF SlugTaken(man.app, man.slug) \/ UrlTaken(man.app, req[q].url)
           THEN End(q) /\ UNCHANGED row
           ELSE /\ row' = [row EXCEPT ![man.app] =
                             [slug |-> man.slug, url |-> req[q].url, rev |-> man.rev,
                              ui |-> <<req[q].url, served[req[q].url].rev>>]]
                /\ IF req[q].kind = "refresh" THEN Advance(q, "clear") ELSE End(q)
    /\ UNCHANGED <<served, signal, file>>

(* The upsert, against the unique slug and the unique base URL. *)
InsertRow(q) ==
    /\ At(q, "insert")
    /\ LET man == req[q].man IN
         IF SlugTaken(man.app, man.slug) \/ UrlTaken(man.app, req[q].url)
           THEN End(q) /\ UNCHANGED row
           ELSE /\ row' = [row EXCEPT ![man.app] =
                             [slug |-> man.slug, url |-> req[q].url,
                              rev |-> man.rev, ui |-> req[q].bundle]]
                /\ IF req[q].kind = "refresh" THEN Advance(q, "clear") ELSE End(q)
    /\ UNCHANGED <<served, signal, file>>

Closed(sig) == IF sig = None THEN None ELSE [sig EXCEPT !.open = FALSE]

ClearSignal(q) ==
    /\ At(q, "clear")
    /\ signal' = [signal EXCEPT ![req[q].app] = Closed(signal[req[q].app])]
    /\ End(q)
    /\ UNCHANGED <<served, row, file>>

(* A fetch, a file operation or a query fails. *)
RequestFails(q) ==
    /\ req[q] # None
    /\ End(q)
    /\ UNCHANGED <<served, row, signal, file>>

-----------------------------------------------------------------------------
(* The rest of the system *)

(* DELETE /apps/installed/:app_id: the row, and by cascade its signal. *)
Uninstall(a) ==
    /\ a \in Installed
    /\ row' = [row EXCEPT ![a] = None]
    /\ signal' = [signal EXCEPT ![a] = None]
    /\ UNCHANGED <<served, file, req>>

(* An application, a feed or an administrator reports a release. *)
ReportSignal(a, r) ==
    /\ a \in Installed
    /\ signal' = [signal EXCEPT ![a] = [rev |-> r, open |-> TRUE]]
    /\ UNCHANGED <<served, row, file, req>>

(* DELETE /apps/installed/:app_id/update-signal *)
DismissSignal(a) ==
    /\ signal[a] # None /\ signal[a].open
    /\ signal' = [signal EXCEPT ![a] = Closed(signal[a])]
    /\ UNCHANGED <<served, row, file, req>>

Restart ==
    /\ \E q \in Requests : req[q] # None
    /\ req' = [q \in Requests |-> None]
    /\ UNCHANGED <<served, row, signal, file>>

Publish(u) ==
    /\ served[u].rev < MaxRev
    /\ \E a \in Apps, s \in Slugs :
         served' = [served EXCEPT ![u] = [app |-> a, slug |-> s, rev |-> @.rev + 1]]
    /\ UNCHANGED <<row, signal, file, req>>

Step(q) ==
    \/ FetchManifest(q) \/ FetchArtifact(q) \/ OpenFile(q) \/ WriteFile(q)
    \/ CheckSlug(q) \/ InsertRow(q) \/ ClearSignal(q) \/ RequestFails(q)

Next ==
    \/ \E q \in Requests, u \in Urls : StartInstall(q, u)
    \/ \E q \in Requests, a \in Apps : StartRefresh(q, a)
    \/ \E q \in Requests : Step(q)
    \/ \E a \in Apps : Uninstall(a) \/ DismissSignal(a) \/ \E r \in Reported : ReportSignal(a, r)
    \/ Restart
    \/ \E u \in Urls : Publish(u)

Spec == Init /\ [][Next]_vars

-----------------------------------------------------------------------------
(* What holds under any interleaving *)

(* No two installed applications answer for one slug or for one base URL:  *)
(* the proxy and the UI route find an application by them.                 *)
NamesUnique == \A a, b \in Installed : a # b => row[a].slug # row[b].slug
                                             /\ row[a].url # row[b].url

(* The bundle of every installed application has a file: the file comes    *)
(* before the row and outlives it, so "missing" is never reported.         *)
InstalledHasFile == \A a \in Installed : file[row[a].slug] # None

(* A bundle comes from the base URL of its row and is never of an older    *)
(* release than the manifest it is installed with, though it is fetched    *)
(* after the service may have published again.                             *)
BundleNotOlder == \A a \in Installed : row[a].ui[1] = row[a].url /\ row[a].rev <= row[a].ui[2]

(* A step of a refresh changes the row of its own application only, even   *)
(* if the service has been taken over by another one.                      *)
RefreshStaysHome ==
    \A q \in Requests, a \in Apps :
      At(q, "insert") /\ req[q].kind = "refresh" /\ req'[q] # req[q] /\ row'[a] # row[a]
        => a = req[q].app
RefreshesStayHome == [][RefreshStaysHome]_vars

(* What holds of a request that no other one overlaps *)

(* The file holds the recorded bundle at the moment a row is stored, so a  *)
(* finished install or refresh is one whose UI is reported "ready".        *)
StoredIsServed ==
    \A q \in Requests, a \in Apps :
      At(q, "insert") /\ req[q].alone /\ row'[a] # row[a] /\ row'[a] # None
        => file'[row'[a].slug] = row'[a].ui
StoresServeTheirUi == [][StoredIsServed]_vars

(* A refresh takes back an announcement only after its manifest has become *)
(* the installed one; failing, it leaves the announcement to be seen.      *)
ClearedIsInstalled ==
    \A q \in Requests, a \in Apps :
      /\ req[q] # None /\ req[q].kind = "refresh" /\ req[q].alone /\ req'[q] # req[q]
      /\ signal[a] # None /\ signal[a].open /\ signal'[a] # signal[a]
      => /\ req[q].man # None /\ row[a] # None
         /\ row[a].url = req[q].url /\ row[a].rev = req[q].man.rev
ClearsFollowInstalls == [][ClearedIsInstalled]_vars

-----------------------------------------------------------------------------
(* What the repository says and the code does not do *)

(* MANUAL_TEST_PLAN.md and the uninstall test: after an uninstall the      *)
(* application is no longer listed; it comes back by an install.           *)
ReturnsByInstall ==
    \A a \in Apps : row[a] = None /\ row'[a] # None
      => \E q \in Requests : At(q, "insert") /\ req[q].kind = "install" /\ req'[q] # req[q]
UninstalledStaysGone == [][ReturnsByInstall]_vars
=============================================================================
