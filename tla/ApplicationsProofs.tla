-------------------------- MODULE ApplicationsProofs --------------------------
(***************************************************************************)
(* Proofs about Applications, for any number of applications, services,    *)
(* tenants, packages and overlapping requests.  Those about installing     *)
(* from a service are here, and follow from one inductive invariant:       *)
(* TypeOK, what a request has fetched at each of its steps (Fetched), the  *)
(* three invariants of the table, and that a release already fetched is    *)
(* not served again (NotAhead).  Those about enabling and about Compose    *)
(* runtimes come from TenantAppsProofs and ComposeInstallProofs: at the    *)
(* end, a behaviour of the composition is shown to be one of each part.    *)
(***************************************************************************)
EXTENDS Applications, TLAPS

USE InstallAssumption, AbsenceAssumption

(* What a request holds: a manifest once it is past fetching it, a bundle  *)
(* of its own service once past fetching that, no older than the manifest; *)
(* and the file it has opened exists.                                      *)
Fetched ==
    \A q \in Requests : req[q] # None =>
      /\ req[q].step = "manifest" => req[q].kind = "refresh"
      /\ req[q].step # "manifest" => req[q].man # None /\ req[q].man.app = req[q].app
      /\ req[q].step \notin {"manifest", "artifact"} =>
           /\ req[q].bundle # None /\ req[q].bundle[1] = req[q].url
           /\ req[q].man.rev <= req[q].bundle[2]
      /\ req[q].step \in {"write", "slug", "insert"} => file[req[q].man.slug] # None

(* Services do not go back behind the manifests fetched from them. *)
NotAhead ==
    \A q \in Requests :
      req[q] # None /\ req[q].step = "artifact" => req[q].man.rev <= served[req[q].url].rev

IInv ==
    /\ TypeOK /\ Fetched /\ NotAhead
    /\ NamesUnique /\ InstalledHasFile /\ BundleNotOlder

-----------------------------------------------------------------------------
(* The fields of a request, of a row and of a manifest. *)
LEMMA RequestFields ==
    ASSUME NEW x \in Request
    PROVE  /\ x # None /\ x.kind \in {"install", "refresh"} /\ x.step \in Steps
           /\ x.app \in Apps /\ x.url \in Urls
           /\ x.man \in Manifest \cup {None} /\ x.bundle \in Bundle \cup {None}
  BY DEF Request

LEMMA ManifestFields ==
    ASSUME NEW x \in Manifest
    PROVE  x # None /\ x.app \in Apps /\ x.slug \in Slugs /\ x.rev \in Revs /\ x.rev \in Nat
  BY DEF Manifest, Revs

(* Beginning a typed request, which the others then overlap. *)
LEMMA BeginTyped ==
    ASSUME NEW q \in Requests, req \in [Requests -> Request \cup {None}],
           NEW x \in Request, Begin(q, x)
    PROVE  req' \in [Requests -> Request \cup {None}]
  <1>1. ASSUME NEW y \in Request \cup {None} PROVE Overlapped(y) \in Request \cup {None}
    BY <1>1 DEF Overlapped, Request
  <1>2. \A p \in Requests : req[p] \in Request \cup {None}
    OBVIOUS
  <1> QED BY <1>1, <1>2 DEF Begin

(* All that the code sees of a request is as it was. *)
Kept(p) ==
    \/ req'[p] = req[p]
    \/ /\ req[p] # None /\ req'[p] # None
       /\ req'[p].kind = req[p].kind /\ req'[p].step = req[p].step
       /\ req'[p].app = req[p].app /\ req'[p].url = req[p].url
       /\ req'[p].man = req[p].man /\ req'[p].bundle = req[p].bundle

LEMMA Begun ==
    ASSUME NEW q \in Requests, req \in [Requests -> Request \cup {None}], NEW x, Begin(q, x)
    PROVE  req'[q] = x /\ \A p \in Requests : p # q => Kept(p)
  <1>1. req'[q] = x
    BY DEF Begin
  <1>2. ASSUME NEW p \in Requests, p # q PROVE Kept(p)
    <2>1. req'[p] = Overlapped(req[p])
      BY <1>2 DEF Begin
    <2>2. CASE req[p] = None
      BY <2>1, <2>2 DEF Overlapped, Kept
    <2>3. CASE req[p] # None
      <3>1. req[p] \in Request
        BY <2>3
      <3>2. [req[p] EXCEPT !.alone = FALSE] \in Request
        BY <3>1 DEF Request
      <3>3. req'[p] = [req[p] EXCEPT !.alone = FALSE]
        BY <2>1, <2>3 DEF Overlapped
      <3>4. req'[p] # None
        BY <3>2, <3>3, RequestFields
      <3> QED BY <2>3, <3>1, <3>3, <3>4 DEF Request, Kept
    <2> QED BY <2>2, <2>3
  <1> QED BY <1>1, <1>2

(* A request that only takes another step is typed. *)
LEMMA StepTyped ==
    ASSUME NEW x \in Request, NEW s \in Steps
    PROVE  [x EXCEPT !.step = s] \in Request
  BY DEF Request

-----------------------------------------------------------------------------
(* TypeOK *)

LEMMA TypeInit == Init => TypeOK
  <1> SUFFICES ASSUME Init PROVE TypeOK
    OBVIOUS
  <1>1. served \in [Urls -> Manifest]
    BY DEF Init, Manifest, Revs
  <1> QED
    BY <1>1 DEF Init, TypeOK

LEMMA TypeRequest ==
    ASSUME TypeOK, NEW q \in Requests, Fetched, Step(q)
    PROVE  TypeOK'
  <1> USE DEF TypeOK
  <1>0. req[q] # None /\ req[q] \in Request
    BY DEF Step, At, FetchManifest, FetchArtifact, OpenFile, WriteFile, CheckSlug,
           InsertRow, ClearSignal, RequestFails
  <1>1. /\ req[q].kind \in {"install", "refresh"} /\ req[q].step \in Steps
        /\ req[q].app \in Apps /\ req[q].url \in Urls
        /\ req[q].man \in Manifest \cup {None} /\ req[q].bundle \in Bundle \cup {None}
    BY <1>0, RequestFields
  <1>2. served[req[q].url] \in Manifest
    BY <1>1
  <1>3. req[q].step # "manifest" => req[q].man \in Manifest
    BY <1>0, <1>1 DEF Fetched
  <1>4. req[q].step \notin {"manifest", "artifact"} => req[q].bundle \in Bundle
    BY <1>0, <1>1 DEF Fetched
  <1>5. ASSUME End(q) PROVE req' \in [Requests -> Request \cup {None}]
    BY <1>5 DEF End
  <1>6. ASSUME NEW s \in Steps, Advance(q, s)
        PROVE  req' \in [Requests -> Request \cup {None}]
    BY <1>0, <1>6, StepTyped DEF Advance
  <1>7. CASE FetchManifest(q)
    <2>1. CASE End(q)
      BY <1>5, <1>7, <2>1 DEF FetchManifest
    <2>2. CASE req' = [req EXCEPT ![q].man = served[req[q].url], ![q].step = "artifact"]
      <3>1. [req[q] EXCEPT !.man = served[req[q].url], !.step = "artifact"] \in Request
        BY <1>0, <1>2 DEF Request, Steps
      <3>2. req' \in [Requests -> Request \cup {None}]
        BY <2>2, <3>1
      <3> QED BY <1>7, <3>2 DEF FetchManifest
    <2> QED BY <1>7, <2>1, <2>2 DEF FetchManifest
  <1>8. CASE FetchArtifact(q)
    <2>1. <<req[q].url, served[req[q].url].rev>> \in Bundle
      BY <1>1, <1>2, ManifestFields DEF Bundle
    <2>2. [req[q] EXCEPT !.bundle = <<req[q].url, served[req[q].url].rev>>,
                         !.step = "open"] \in Request
      BY <1>0, <2>1 DEF Request, Steps
    <2>3. req' \in [Requests -> Request \cup {None}]
      BY <1>8, <2>2 DEF FetchArtifact
    <2> QED BY <1>8, <2>3 DEF FetchArtifact
  <1>9. CASE OpenFile(q)
    BY <1>6, <1>9 DEF OpenFile, Steps
  <1>10. CASE WriteFile(q)
    <2>1. req[q].bundle \in Bundle
      BY <1>4, <1>10 DEF WriteFile, At
    <2>2. file' \in [Slugs -> Bundle \cup {None, Blank, Torn}]
      BY <1>10, <2>1 DEF WriteFile
    <2> QED BY <1>6, <1>10, <2>2 DEF WriteFile, Steps
  <1>11. CASE CheckSlug(q)
    BY <1>5, <1>6, <1>11 DEF CheckSlug, Steps
  <1>12. CASE InsertRow(q)
    <2>1. req[q].man \in Manifest /\ req[q].bundle \in Bundle
      BY <1>3, <1>4, <1>12 DEF InsertRow, At
    <2>2. [slug |-> req[q].man.slug, url |-> req[q].url, rev |-> req[q].man.rev,
           ui |-> req[q].bundle] \in Row
      BY <1>1, <2>1, ManifestFields DEF Row
    <2>3. row' \in [Apps -> Row \cup {None}]
      BY <1>12, <2>2 DEF InsertRow
    <2>4. req' \in [Requests -> Request \cup {None}]
      BY <1>5, <1>6, <1>12 DEF InsertRow, Steps
    <2> QED BY <1>12, <2>3, <2>4 DEF InsertRow
  <1>13. CASE ClearSignal(q)
    <2>1. Closed(signal[req[q].app]) \in Signal \cup {None}
      BY <1>1 DEF Closed, Signal
    <2> QED BY <1>5, <1>13, <2>1 DEF ClearSignal
  <1>14. CASE RequestFails(q)
    BY <1>5, <1>14 DEF RequestFails
  <1> QED
    BY <1>7, <1>8, <1>9, <1>10, <1>11, <1>12, <1>13, <1>14 DEF Step

LEMMA TypeStep ==
    ASSUME TypeOK, Fetched, [Next]_vars
    PROVE  TypeOK'
  <1> USE DEF TypeOK
  <1>1. ASSUME NEW q \in Requests, NEW u \in Urls, StartInstall(q, u)
        PROVE  TypeOK'
    <2>1. served[u] \in Manifest /\ served[u].app \in Apps
      BY ManifestFields
    <2>2. [kind |-> "install", step |-> "artifact", app |-> served[u].app, url |-> u,
           man |-> served[u], bundle |-> None, alone |-> Alone(q)] \in Request
      BY <2>1 DEF Request, Steps, Alone
    <2> QED BY <1>1, <2>2, BeginTyped DEF StartInstall
  <1>2. ASSUME NEW q \in Requests, NEW a \in Apps, StartRefresh(q, a)
        PROVE  TypeOK'
    <2>1. row[a].url \in Urls
      BY <1>2 DEF StartRefresh, Installed, Row
    <2>2. [kind |-> "refresh", step |-> "manifest", app |-> a, url |-> row[a].url,
           man |-> None, bundle |-> None, alone |-> Alone(q)] \in Request
      BY <2>1 DEF Request, Steps, Alone
    <2> QED BY <1>2, <2>2, BeginTyped DEF StartRefresh
  <1>3. ASSUME NEW q \in Requests, Step(q) PROVE TypeOK'
    BY <1>3, TypeRequest
  <1>4. ASSUME NEW a \in Apps, Uninstall(a) PROVE TypeOK'
    BY <1>4 DEF Uninstall
  <1>5. ASSUME NEW a \in Apps, DismissSignal(a) PROVE TypeOK'
    BY <1>5 DEF DismissSignal, Closed, Signal
  <1>6. ASSUME NEW a \in Apps, NEW r \in Reported, ReportSignal(a, r) PROVE TypeOK'
    <2>1. [rev |-> r, open |-> TRUE] \in Signal
      BY DEF Signal
    <2> QED BY <1>6, <2>1 DEF ReportSignal
  <1>7. CASE Restart
    BY <1>7 DEF Restart
  <1>8. ASSUME NEW u \in Urls, Publish(u) PROVE TypeOK'
    <2>1. PICK a \in Apps, s \in Slugs :
            served' = [served EXCEPT ![u] = [app |-> a, slug |-> s, rev |-> served[u].rev + 1]]
      BY <1>8 DEF Publish
    <2>2. served[u].rev \in Revs /\ served[u].rev < MaxRev
      BY <1>8, ManifestFields DEF Publish
    <2>3. [app |-> a, slug |-> s, rev |-> served[u].rev + 1] \in Manifest
      BY <2>2 DEF Manifest, Revs
    <2> QED BY <1>8, <2>1, <2>3 DEF Publish
  <1>9. CASE UNCHANGED vars
    BY <1>9 DEF vars
  <1> QED
    BY <1>1, <1>2, <1>3, <1>4, <1>5, <1>6, <1>7, <1>8, <1>9 DEF Next

-----------------------------------------------------------------------------
(* Fetched and NotAhead *)

(* No step takes a file away. *)
LEMMA FilesPersist ==
    ASSUME TypeOK, Fetched, [Next]_vars, NEW s \in Slugs, file[s] # None
    PROVE  file'[s] # None
  <1> USE DEF TypeOK
  <1>1. ASSUME NEW q \in Requests, OpenFile(q) PROVE file'[s] # None
    BY <1>1 DEF OpenFile
  <1>2. ASSUME NEW q \in Requests, WriteFile(q) PROVE file'[s] # None
    <2>1. req[q].bundle # None
      BY <1>2 DEF WriteFile, At, Fetched
    <2> QED BY <1>2, <2>1 DEF WriteFile
  <1>3. ASSUME NEW q \in Requests, Step(q), ~OpenFile(q), ~WriteFile(q) PROVE file'[s] # None
    BY <1>3 DEF Step, FetchManifest, FetchArtifact, CheckSlug, InsertRow, ClearSignal,
                RequestFails
  <1>4. CASE ~\E q \in Requests : Step(q)
    BY <1>4 DEF Next, vars, StartInstall, StartRefresh, Uninstall, DismissSignal,
                ReportSignal, Restart, Publish
  <1> QED BY <1>1, <1>2, <1>3, <1>4

(* What Fetched says of one request. *)
FetchedBy(x) ==
    x # None =>
      /\ x.step = "manifest" => x.kind = "refresh"
      /\ x.step # "manifest" => x.man # None /\ x.man.app = x.app
      /\ x.step \notin {"manifest", "artifact"} =>
           /\ x.bundle # None /\ x.bundle[1] = x.url /\ x.man.rev <= x.bundle[2]
      /\ x.step \in {"write", "slug", "insert"} => file[x.man.slug] # None

LEMMA FetchedRequest ==
    ASSUME TypeOK, Fetched, NotAhead, NEW q \in Requests, Step(q)
    PROVE  FetchedBy(req[q])' /\ \A p \in Requests : p # q => req'[p] = req[p]
  <1> USE DEF TypeOK
  <1>0. req[q] # None /\ req[q] \in Request
    BY DEF Step, At, FetchManifest, FetchArtifact, OpenFile, WriteFile, CheckSlug,
           InsertRow, ClearSignal, RequestFails
  <1>1. /\ req[q].url \in Urls /\ served[req[q].url] \in Manifest
        /\ req[q].man \in Manifest \cup {None} /\ req[q].bundle \in Bundle \cup {None}
    BY <1>0, RequestFields
  <1>2. FetchedBy(req[q])
    BY DEF Fetched, FetchedBy
  <1>3. ASSUME End(q)
        PROVE  FetchedBy(req[q])' /\ \A p \in Requests : p # q => req'[p] = req[p]
    BY <1>3 DEF End, FetchedBy
  <1>4. ASSUME NEW s \in Steps, Advance(q, s)
        PROVE  /\ \A p \in Requests : p # q => req'[p] = req[p]
               /\ req'[q] # None /\ req'[q].step = s /\ req'[q].kind = req[q].kind
               /\ req'[q].man = req[q].man /\ req'[q].bundle = req[q].bundle
               /\ req'[q].url = req[q].url /\ req'[q].app = req[q].app
    <2>1. [req[q] EXCEPT !.step = s] \in Request
      BY <1>0, StepTyped
    <2> QED BY <1>0, <1>4, <2>1 DEF Advance, Request
  <1>5. CASE FetchManifest(q)
    <2>1. CASE req' = [req EXCEPT ![q].man = served[req[q].url], ![q].step = "artifact"]
               /\ served[req[q].url].app = req[q].app
      <3>1. [req[q] EXCEPT !.man = served[req[q].url], !.step = "artifact"] \in Request
        BY <1>0, <1>1 DEF Request, Steps
      <3>2. /\ req'[q] # None /\ req'[q].step = "artifact" /\ req'[q].man = served[req[q].url]
            /\ req'[q].app = req[q].app
        BY <1>0, <2>1, <3>1 DEF Request
      <3> QED BY <1>1, <2>1, <3>2, ManifestFields DEF FetchedBy
    <2> QED BY <1>3, <1>5, <2>1 DEF FetchManifest
  <1>6. CASE FetchArtifact(q)
    <2> DEFINE b == <<req[q].url, served[req[q].url].rev>>
    <2>1. b \in Bundle /\ b # None
      BY <1>1, ManifestFields DEF Bundle
    <2>2. req[q].man # None /\ req[q].man.app = req[q].app /\ req[q].man.rev <= b[2]
      BY <1>0, <1>6 DEF FetchArtifact, At, Fetched, NotAhead
    <2>3. [req[q] EXCEPT !.bundle = b, !.step = "open"] \in Request
      BY <1>0, <2>1 DEF Request, Steps
    <2>4. /\ req'[q].step = "open" /\ req'[q].bundle = b /\ req'[q].man = req[q].man
          /\ req'[q].app = req[q].app /\ req'[q].url = req[q].url
      BY <1>0, <1>6, <2>3 DEF FetchArtifact, Request
    <2>5. \A p \in Requests : p # q => req'[p] = req[p]
      BY <1>6 DEF FetchArtifact
    <2> QED BY <2>1, <2>2, <2>4, <2>5 DEF FetchedBy
  <1>7. CASE OpenFile(q)
    <2>1. req[q].man \in Manifest
      BY <1>1, <1>2, <1>7, <1>0 DEF OpenFile, At, FetchedBy
    <2>2. file'[req[q].man.slug] # None
      BY <1>7, <2>1, ManifestFields DEF OpenFile
    <2> QED BY <1>0, <1>2, <1>4, <1>7, <2>2 DEF OpenFile, Steps, FetchedBy, At
  <1>8. CASE WriteFile(q)
    <2>1. req[q].man \in Manifest /\ req[q].bundle # None
      BY <1>1, <1>2, <1>8, <1>0 DEF WriteFile, At, FetchedBy
    <2>2. file'[req[q].man.slug] # None
      BY <1>8, <2>1, ManifestFields DEF WriteFile
    <2> QED BY <1>0, <1>2, <1>4, <1>8, <2>2 DEF WriteFile, Steps, FetchedBy, At
  <1>9. CASE CheckSlug(q)
    BY <1>0, <1>2, <1>3, <1>4, <1>9 DEF CheckSlug, Steps, FetchedBy, At
  <1>10. CASE InsertRow(q)
    BY <1>0, <1>2, <1>3, <1>4, <1>10 DEF InsertRow, Steps, FetchedBy, At
  <1>11. CASE ClearSignal(q) \/ RequestFails(q)
    BY <1>3, <1>11 DEF ClearSignal, RequestFails
  <1> QED
    BY <1>5, <1>6, <1>7, <1>8, <1>9, <1>10, <1>11 DEF Step

(* A request that did not move keeps what it has: no file is taken away. *)
LEMMA FetchedStays ==
    ASSUME TypeOK, Fetched, [Next]_vars, NEW p \in Requests, Kept(p)
    PROVE  FetchedBy(req[p])'
  <1>1. FetchedBy(req[p])
    BY DEF Fetched, FetchedBy
  <1>2. ASSUME req[p] # None, req[p].step \in {"write", "slug", "insert"}
        PROVE  req[p].man.slug \in Slugs /\ file[req[p].man.slug] # None
    BY <1>1, <1>2, RequestFields, ManifestFields DEF FetchedBy, TypeOK
  <1>3. CASE req[p] = None
    BY <1>3 DEF FetchedBy, Kept
  <1>4. CASE req[p] # None
    BY <1>1, <1>2, <1>4, FilesPersist DEF FetchedBy, Kept
  <1> QED BY <1>3, <1>4

LEMMA FetchedStep ==
    ASSUME TypeOK, Fetched, NotAhead, [Next]_vars
    PROVE  Fetched'
  <1> USE DEF TypeOK
  <1> SUFFICES ASSUME NEW p \in Requests PROVE FetchedBy(req[p])'
    BY DEF Fetched, FetchedBy
  <1>1. ASSUME NEW q \in Requests, Step(q) PROVE FetchedBy(req[p])'
    BY <1>1, FetchedRequest, FetchedStays DEF Kept
  <1>2. ASSUME NEW q \in Requests, NEW u \in Urls, StartInstall(q, u) PROVE FetchedBy(req[p])'
    <2> DEFINE x == [kind |-> "install", step |-> "artifact", app |-> served[u].app, url |-> u,
                     man |-> served[u], bundle |-> None, alone |-> Alone(q)]
    <2>1. req'[q] = x /\ (p # q => Kept(p))
      BY <1>2, Begun DEF StartInstall
    <2>2. CASE p = q
      <3>1. served[u] # None
        BY ManifestFields
      <3> QED BY <2>1, <2>2, <3>1 DEF FetchedBy
    <2> QED BY <2>1, <2>2, FetchedStays
  <1>3. ASSUME NEW q \in Requests, NEW a \in Apps, StartRefresh(q, a) PROVE FetchedBy(req[p])'
    <2> DEFINE x == [kind |-> "refresh", step |-> "manifest", app |-> a, url |-> row[a].url,
                     man |-> None, bundle |-> None, alone |-> Alone(q)]
    <2>1. req'[q] = x /\ (p # q => Kept(p))
      BY <1>3, Begun DEF StartRefresh
    <2>2. CASE p = q
      BY <2>1, <2>2 DEF FetchedBy
    <2> QED BY <2>1, <2>2, FetchedStays
  <1>4. CASE Restart
    BY <1>4 DEF Restart, FetchedBy
  <1>5. CASE UNCHANGED req
    BY <1>5, FetchedStays DEF Kept
  <1> QED
    BY <1>1, <1>2, <1>3, <1>4, <1>5
    DEF Next, vars, Uninstall, DismissSignal, ReportSignal, Publish

LEMMA NotAheadStep ==
    ASSUME TypeOK, Fetched, NotAhead, [Next]_vars
    PROVE  NotAhead'
  <1> USE DEF TypeOK
  <1>0. ASSUME NEW u \in Urls PROVE served'[u].rev \in Nat /\ served[u].rev \in Nat
                                      /\ served[u].rev <= served'[u].rev
    <2>0. TypeOK'
      BY TypeStep
    <2>1. served[u] \in Manifest /\ served'[u] \in Manifest
      BY <2>0
    <2>2. ASSUME NEW v \in Urls, Publish(v) PROVE served[u].rev <= served'[u].rev
      BY <2>1, <2>2, ManifestFields DEF Publish
    <2>3. CASE UNCHANGED served
      BY <2>1, <2>3, ManifestFields
    <2> QED
      BY <2>1, <2>2, <2>3, ManifestFields
      DEF Next, vars, StartInstall, StartRefresh, Step, FetchManifest, FetchArtifact, OpenFile,
          WriteFile, CheckSlug, InsertRow, ClearSignal, RequestFails, Uninstall,
          DismissSignal, ReportSignal, Restart
  <1> SUFFICES ASSUME NEW p \in Requests, req'[p] # None, req'[p].step = "artifact"
               PROVE  req'[p].man.rev <= served'[req'[p].url].rev
    BY DEF NotAhead
  <1>1. CASE Kept(p)
    <2>1. /\ req[p] # None /\ req[p].step = "artifact"
          /\ req'[p].man = req[p].man /\ req'[p].url = req[p].url
      BY <1>1 DEF Kept
    <2>2. req[p].url \in Urls /\ req[p].man \in Manifest
      BY <2>1, RequestFields DEF Fetched
    <2> QED BY <1>0, <2>1, <2>2, ManifestFields DEF NotAhead
  <1>2. CASE \E u \in Urls : StartInstall(p, u)
    <2>1. PICK u \in Urls : StartInstall(p, u)
      BY <1>2
    <2>2. req'[p].man = served[u] /\ req'[p].url = u /\ served'[u] = served[u]
      BY <2>1, Begun DEF StartInstall
    <2>3. served[u].rev \in Nat
      BY ManifestFields
    <2> QED BY <2>2, <2>3
  <1>3. CASE FetchManifest(p)
    <2>1. req[p] \in Request /\ req[p] # None
      BY <1>3 DEF FetchManifest, At
    <2>2. req[p].url \in Urls /\ served[req[p].url] \in Manifest
      BY <2>1, RequestFields
    <2>3. [req[p] EXCEPT !.man = served[req[p].url], !.step = "artifact"] \in Request
      BY <2>1, <2>2 DEF Request, Steps
    <2>4. req'[p].man = served[req[p].url] /\ req'[p].url = req[p].url
      BY <1>3, <2>1, <2>3 DEF FetchManifest, End, Request
    <2> QED BY <1>0, <1>3, <2>2, <2>4 DEF FetchManifest
  <1>4. CASE ~FetchManifest(p) /\ Step(p)
    <2>1. req[p] \in Request /\ req[p] # None
      BY <1>4 DEF Step, At, FetchArtifact, OpenFile, WriteFile, CheckSlug, InsertRow,
                  ClearSignal, RequestFails
    <2>2. ASSUME NEW s \in Steps, Advance(p, s) PROVE req'[p].step = s
      BY <2>1, <2>2 DEF Advance, Request
    <2>3. FetchArtifact(p) => req'[p].step = "open"
      BY <2>1 DEF FetchArtifact, Request
    <2> QED
      BY <1>4, <2>2, <2>3 DEF Step, OpenFile, WriteFile, CheckSlug, InsertRow, ClearSignal,
                              RequestFails, End, Steps
  <1>5. CASE \E a \in Apps : StartRefresh(p, a)
    BY <1>5, Begun DEF StartRefresh
  <1>6. CASE Restart
    BY <1>6 DEF Restart
  <1>7. ASSUME NEW q \in Requests, q # p,
               \/ Step(q)
               \/ \E u \in Urls : StartInstall(q, u)
               \/ \E a \in Apps : StartRefresh(q, a)
        PROVE  Kept(p)
    <2>1. CASE Step(q)
      BY <1>7, <2>1, FetchedRequest DEF Kept
    <2>2. ASSUME NEW x, Begin(q, x) PROVE Kept(p)
      BY <1>7, <2>2, Begun
    <2>3. ASSUME NEW u \in Urls, StartInstall(q, u) PROVE Kept(p)
      BY <2>2, <2>3 DEF StartInstall
    <2>4. ASSUME NEW a \in Apps, StartRefresh(q, a) PROVE Kept(p)
      BY <2>2, <2>4 DEF StartRefresh
    <2> QED BY <1>7, <2>1, <2>3, <2>4
  <1>8. CASE UNCHANGED req
    BY <1>1, <1>8 DEF Kept
  <1>9. \/ Restart \/ UNCHANGED req
        \/ \E q \in Requests : \/ Step(q) \/ (\E u \in Urls : StartInstall(q, u))
                             \/ \E a \in Apps : StartRefresh(q, a)
    BY DEF Next, vars, Uninstall, DismissSignal, ReportSignal, Publish
  <1> QED
    BY <1>1, <1>2, <1>3, <1>4, <1>5, <1>6, <1>7, <1>8, <1>9

-----------------------------------------------------------------------------
(* The table *)

(* Only an upsert and an uninstall change the rows. *)
LEMMA RowChanges ==
    ASSUME [Next]_vars
    PROVE  \/ UNCHANGED row
           \/ \E a \in Apps : Uninstall(a)
           \/ \E q \in Requests : InsertRow(q)
  BY DEF Next, vars, StartInstall, StartRefresh, Step, FetchManifest, FetchArtifact, OpenFile,
         WriteFile, CheckSlug, ClearSignal, RequestFails, DismissSignal, ReportSignal,
         Restart, Publish

(* What an upsert that is not rejected stores. *)
LEMMA Stored ==
    ASSUME TypeOK, Fetched, NEW q \in Requests, InsertRow(q), row' # row
    PROVE  LET man == req[q].man IN
             /\ man \in Manifest /\ req[q].bundle \in Bundle
             /\ man.app = req[q].app /\ man.rev <= req[q].bundle[2]
             /\ req[q].bundle[1] = req[q].url /\ file[man.slug] # None /\ UNCHANGED file
             /\ ~SlugTaken(man.app, man.slug) /\ ~UrlTaken(man.app, req[q].url)
             /\ row' = [row EXCEPT ![man.app] = [slug |-> man.slug, url |-> req[q].url,
                                                 rev |-> man.rev, ui |-> req[q].bundle]]
  <1>1. req[q] \in Request /\ req[q] # None /\ req[q].step = "insert"
    BY DEF InsertRow, At, TypeOK
  <1>2. /\ req[q].man # None /\ req[q].man.app = req[q].app
        /\ req[q].bundle # None /\ req[q].bundle[1] = req[q].url
        /\ req[q].man.rev <= req[q].bundle[2] /\ file[req[q].man.slug] # None
    BY <1>1 DEF Fetched
  <1>3. req[q].man \in Manifest /\ req[q].bundle \in Bundle
    BY <1>1, <1>2, RequestFields
  <1> QED
    BY <1>2, <1>3 DEF InsertRow

LEMMA NamesStep ==
    ASSUME TypeOK, Fetched, NamesUnique, [Next]_vars
    PROVE  NamesUnique'
  <1> USE DEF TypeOK
  <1>1. CASE UNCHANGED row
    BY <1>1 DEF NamesUnique, Installed
  <1>2. ASSUME NEW a \in Apps, Uninstall(a) PROVE NamesUnique'
    BY <1>2 DEF Uninstall, NamesUnique, Installed
  <1>3. ASSUME NEW q \in Requests, InsertRow(q), row' # row PROVE NamesUnique'
    <2> DEFINE c == req[q].man.app
    <2>1. c \in Apps /\ \A b \in Apps \ {c} : row'[b] = row[b]
      BY <1>3, Stored, ManifestFields
    <2>0. row'[c] = [slug |-> req[q].man.slug, url |-> req[q].url,
                     rev |-> req[q].man.rev, ui |-> req[q].bundle]
      <3>1. row' = [row EXCEPT ![c] = [slug |-> req[q].man.slug, url |-> req[q].url,
                                       rev |-> req[q].man.rev, ui |-> req[q].bundle]]
        BY <1>3, Stored
      <3> QED BY <2>1, <3>1
    <2>2. /\ row'[c].slug = req[q].man.slug /\ row'[c].url = req[q].url
          /\ ~SlugTaken(c, req[q].man.slug) /\ ~UrlTaken(c, req[q].url)
      BY <1>3, <2>0, Stored
    <2>3. \A b \in Apps \ {c} : row[b] # None => row[b].slug # row'[c].slug
                                                 /\ row[b].url # row'[c].url
      BY <2>2 DEF SlugTaken, UrlTaken, Installed
    <2> QED BY <2>1, <2>3 DEF NamesUnique, Installed
  <1> QED BY <1>1, <1>2, <1>3, RowChanges

LEMMA FileStep ==
    ASSUME TypeOK, Fetched, InstalledHasFile, [Next]_vars
    PROVE  InstalledHasFile'
  <1> USE DEF TypeOK
  <1>0. ASSUME NEW a \in Apps, row[a] # None PROVE row[a].slug \in Slugs
    BY <1>0 DEF Row
  <1>1. CASE UNCHANGED row
    BY <1>0, <1>1, FilesPersist DEF InstalledHasFile, Installed
  <1>2. ASSUME NEW a \in Apps, Uninstall(a) PROVE InstalledHasFile'
    BY <1>2 DEF Uninstall, InstalledHasFile, Installed
  <1>3. ASSUME NEW q \in Requests, InsertRow(q), row' # row PROVE InstalledHasFile'
    <2> DEFINE c == req[q].man.app
    <2>1. c \in Apps /\ \A b \in Apps \ {c} : row'[b] = row[b]
      BY <1>3, Stored, ManifestFields
    <2>0. row'[c] = [slug |-> req[q].man.slug, url |-> req[q].url,
                     rev |-> req[q].man.rev, ui |-> req[q].bundle]
      <3>1. row' = [row EXCEPT ![c] = [slug |-> req[q].man.slug, url |-> req[q].url,
                                       rev |-> req[q].man.rev, ui |-> req[q].bundle]]
        BY <1>3, Stored
      <3> QED BY <2>1, <3>1
    <2>2. row'[c].slug = req[q].man.slug /\ file'[req[q].man.slug] # None /\ file' = file
      BY <1>3, <2>0, Stored
    <2> QED BY <2>1, <2>2 DEF InstalledHasFile, Installed
  <1> QED BY <1>1, <1>2, <1>3, RowChanges

LEMMA BundleStep ==
    ASSUME TypeOK, Fetched, BundleNotOlder, [Next]_vars
    PROVE  BundleNotOlder'
  <1> USE DEF TypeOK
  <1>1. CASE UNCHANGED row
    BY <1>1 DEF BundleNotOlder, Installed
  <1>2. ASSUME NEW a \in Apps, Uninstall(a) PROVE BundleNotOlder'
    BY <1>2 DEF Uninstall, BundleNotOlder, Installed
  <1>3. ASSUME NEW q \in Requests, InsertRow(q), row' # row PROVE BundleNotOlder'
    <2> DEFINE c == req[q].man.app
    <2>1. c \in Apps /\ \A b \in Apps \ {c} : row'[b] = row[b]
      BY <1>3, Stored, ManifestFields
    <2>0. row'[c] = [slug |-> req[q].man.slug, url |-> req[q].url,
                     rev |-> req[q].man.rev, ui |-> req[q].bundle]
      <3>1. row' = [row EXCEPT ![c] = [slug |-> req[q].man.slug, url |-> req[q].url,
                                       rev |-> req[q].man.rev, ui |-> req[q].bundle]]
        BY <1>3, Stored
      <3> QED BY <2>1, <3>1
    <2>2. row'[c].ui[1] = row'[c].url /\ row'[c].rev <= row'[c].ui[2]
      BY <1>3, <2>0, Stored
    <2> QED BY <2>1, <2>2 DEF BundleNotOlder, Installed
  <1> QED BY <1>1, <1>2, <1>3, RowChanges

LEMMA IInvInit == Init => IInv
  BY TypeInit
  DEF Init, IInv, Fetched, NotAhead, NamesUnique, InstalledHasFile, BundleNotOlder, Installed

LEMMA IInvStep == IInv /\ [Next]_vars => IInv'
  BY TypeStep, FetchedStep, NotAheadStep, NamesStep, FileStep, BundleStep DEF IInv

-----------------------------------------------------------------------------
(* A request that no other one overlaps *)

(* What such a request finds: the file it has truncated, the bundle it has *)
(* written, and the row it has stored, if no uninstall came after.         *)
Finds(x) ==
    /\ x.step = "write" => file[x.man.slug] = Blank
    /\ x.step \in {"slug", "insert"} => file[x.man.slug] = x.bundle
    /\ x.step = "clear" =>
         (row[x.app] # None => row[x.app].url = x.url /\ row[x.app].rev = x.man.rev)

Undisturbed ==
    \A q \in Requests : req[q] # None /\ req[q].alone =>
      Finds(req[q]) /\ \A p \in Requests \ {q} : req[p] = None

(* A signal is of an installed application. *)
SignalsInstalled == \A a \in Apps : signal[a] # None => row[a] # None

AInv == IInv /\ Undisturbed /\ SignalsInstalled

LEMMA SignalsStep ==
    ASSUME TypeOK, Fetched, SignalsInstalled, [Next]_vars
    PROVE  SignalsInstalled'
  <1> USE DEF TypeOK, SignalsInstalled
  <1>1. ASSUME NEW a \in Apps, Uninstall(a) PROVE SignalsInstalled'
    BY <1>1 DEF Uninstall
  <1>2. ASSUME NEW a \in Apps, NEW r \in Revs, ReportSignal(a, r) PROVE SignalsInstalled'
    BY <1>2 DEF ReportSignal, Installed
  <1>3. ASSUME NEW a \in Apps, DismissSignal(a) PROVE SignalsInstalled'
    BY <1>3 DEF DismissSignal
  <1>4. ASSUME NEW q \in Requests, InsertRow(q) PROVE SignalsInstalled'
    <2>1. CASE UNCHANGED row
      BY <1>4, <2>1 DEF InsertRow
    <2>2. CASE row' # row
      <3> DEFINE new == [slug |-> req[q].man.slug, url |-> req[q].url,
                         rev |-> req[q].man.rev, ui |-> req[q].bundle]
      <3>1. req[q] \in Request
        BY <1>4 DEF InsertRow, At
      <3>2. new \in Row /\ new # None
        <4>1. req[q].man \in Manifest /\ req[q].bundle \in Bundle /\ req[q].url \in Urls
          BY <1>4, <2>2, <3>1, Stored, RequestFields
        <4>2. new \in Row
          BY <4>1, ManifestFields DEF Row
        <4> QED BY <4>2, AbsenceAssumption
      <3>3. row' = [row EXCEPT ![req[q].man.app] = new]
        BY <1>4, <2>2, Stored
      <3> QED BY <1>4, <3>2, <3>3 DEF InsertRow
    <2> QED BY <2>1, <2>2
  <1>5. ASSUME NEW q \in Requests, ClearSignal(q) PROVE SignalsInstalled'
    BY <1>5 DEF ClearSignal, Closed
  <1>6. CASE UNCHANGED <<row, signal>>
    BY <1>6
  <1> QED
    BY <1>1, <1>2, <1>3, <1>4, <1>5, <1>6, InstallAssumption
    DEF Next, vars, Step, FetchManifest, FetchArtifact, OpenFile, WriteFile, CheckSlug,
        RequestFails, StartInstall, StartRefresh, Restart, Publish

(* A step of a request that is alone afterwards: it was alone before. *)
LEMMA AloneStays ==
    ASSUME TypeOK, NEW q \in Requests, Step(q)
    PROVE  /\ req[q] # None
           /\ \A p \in Requests : p # q => req'[p] = req[p]
           /\ req'[q] # None /\ req'[q].alone => req[q].alone
  <1> USE DEF TypeOK
  <1>0. req[q] # None /\ req[q] \in Request
    BY DEF Step, At, FetchManifest, FetchArtifact, OpenFile, WriteFile, CheckSlug,
           InsertRow, ClearSignal, RequestFails
  <1>1. CASE End(q)
    BY <1>0, <1>1 DEF End
  <1>2. ASSUME NEW s, Advance(q, s) 
        PROVE  req'[q].alone = req[q].alone /\ \A p \in Requests : p # q => req'[p] = req[p]
    BY <1>0, <1>2 DEF Advance, Request
  <1>3. CASE FetchArtifact(q)
    BY <1>0, <1>3 DEF FetchArtifact, Request
  <1>4. CASE FetchManifest(q)
    BY <1>0, <1>1, <1>4 DEF FetchManifest, Request
  <1> QED
    BY <1>0, <1>1, <1>2, <1>3, <1>4
    DEF Step, OpenFile, WriteFile, CheckSlug, InsertRow, ClearSignal, RequestFails

(* What a request that is alone finds after a step of its own. *)
LEMMA FindsStep ==
    ASSUME TypeOK, Fetched, Undisturbed, NEW q \in Requests, Step(q),
           req[q].alone, req'[q] # None
    PROVE  Finds(req[q])'
  <1> USE DEF TypeOK
  <1>0. req[q] # None /\ req[q] \in Request
    BY DEF Step, At, FetchManifest, FetchArtifact, OpenFile, WriteFile, CheckSlug,
           InsertRow, ClearSignal, RequestFails
  <1>1. /\ req[q].step # "manifest" => req[q].man \in Manifest /\ req[q].man.slug \in Slugs
                                       /\ req[q].man.app = req[q].app
        /\ req[q].step \notin {"manifest", "artifact"} => req[q].bundle \in Bundle
    BY <1>0, RequestFields, ManifestFields DEF Fetched
  <1>2. Finds(req[q])
    BY <1>0 DEF Undisturbed
  <1>3. ~End(q)
    BY DEF End
  <1>4. ASSUME NEW s \in Steps, Advance(q, s)
        PROVE  /\ req'[q].step = s /\ req'[q].man = req[q].man /\ req'[q].bundle = req[q].bundle
               /\ req'[q].url = req[q].url /\ req'[q].app = req[q].app
    BY <1>0, <1>4 DEF Advance, Request
  <1>5. CASE FetchManifest(q)
    BY <1>0, <1>3, <1>5 DEF FetchManifest, Request, Finds
  <1>6. CASE FetchArtifact(q)
    BY <1>0, <1>6 DEF FetchArtifact, Request, Finds
  <1>7. CASE OpenFile(q)
    <2>1. req'[q].step = "write" /\ req'[q].man = req[q].man
      BY <1>4, <1>7 DEF OpenFile, Steps
    <2>2. file'[req[q].man.slug] = Blank
      BY <1>0, <1>1, <1>7 DEF OpenFile, At
    <2> QED BY <2>1, <2>2 DEF Finds
  <1>8. CASE WriteFile(q)
    <2>1. req'[q].step = "slug" /\ req'[q].man = req[q].man /\ req'[q].bundle = req[q].bundle
      BY <1>4, <1>8 DEF WriteFile, Steps
    <2>2. file[req[q].man.slug] = Blank
      BY <1>2, <1>8 DEF WriteFile, At, Finds
    <2>3. file'[req[q].man.slug] = req[q].bundle
      BY <1>0, <1>1, <1>8, <2>2 DEF WriteFile, At
    <2> QED BY <2>1, <2>3 DEF Finds
  <1>9. CASE CheckSlug(q)
    <2>1. req'[q].step = "insert" /\ req'[q].man = req[q].man /\ req'[q].bundle = req[q].bundle
      BY <1>3, <1>4, <1>9 DEF CheckSlug, Steps
    <2> QED BY <1>2, <1>9, <2>1 DEF CheckSlug, At, Finds
  <1>10. CASE InsertRow(q)
    <2>1. /\ req'[q].step = "clear" /\ req'[q].man = req[q].man /\ req'[q].url = req[q].url
          /\ req'[q].app = req[q].app
      BY <1>3, <1>4, <1>10 DEF InsertRow, Steps
    <2>2. /\ row' = [row EXCEPT ![req[q].app] = [slug |-> req[q].man.slug, url |-> req[q].url,
                                                 rev |-> req[q].man.rev, ui |-> req[q].bundle]]
          /\ req[q].app \in Apps
      BY <1>0, <1>1, <1>3, <1>10, RequestFields DEF InsertRow, At
    <2>3. row'[req[q].app].url = req[q].url /\ row'[req[q].app].rev = req[q].man.rev
      BY <2>2
    <2> QED BY <2>1, <2>3 DEF Finds
  <1>11. CASE ClearSignal(q) \/ RequestFails(q)
    BY <1>3, <1>11 DEF ClearSignal, RequestFails
  <1> QED
    BY <1>5, <1>6, <1>7, <1>8, <1>9, <1>10, <1>11 DEF Step

LEMMA UndisturbedStep ==
    ASSUME TypeOK, Fetched, Undisturbed, [Next]_vars
    PROVE  Undisturbed'
  <1> USE DEF TypeOK
  <1> SUFFICES ASSUME NEW p \in Requests, req'[p] # None, req'[p].alone
               PROVE  Finds(req[p])' /\ \A o \in Requests \ {p} : req'[o] = None
    BY DEF Undisturbed
  <1>1. ASSUME NEW q \in Requests, Step(q)
        PROVE  Finds(req[p])' /\ \A o \in Requests \ {p} : req'[o] = None
    <2>1. p = q
      BY <1>1, AloneStays DEF Undisturbed
    <2> QED BY <1>1, <2>1, AloneStays, FindsStep DEF Undisturbed
  <1>2. ASSUME NEW q \in Requests, NEW x, Begin(q, x), x.step \in {"artifact", "manifest"},
               x.alone => Alone(q)
        PROVE  Finds(req[p])' /\ \A o \in Requests \ {p} : req'[o] = None
    <2>1. p = q
      <3>1. ASSUME p # q PROVE FALSE
        <4>1. req'[p] = Overlapped(req[p])
          BY <1>2, <3>1 DEF Begin
        <4>2. req[p] \in Request
          BY <4>1 DEF Overlapped
        <4> QED BY <4>1, <4>2 DEF Overlapped, Request
      <3> QED BY <3>1
    <2>2. req'[p] = x /\ \A o \in Requests \ {p} : req'[o] = Overlapped(req[o])
      BY <1>2, <2>1 DEF Begin
    <2>3. \A o \in Requests \ {p} : req'[o] = None
      BY <1>2, <2>1, <2>2 DEF Alone, Overlapped
    <2> QED BY <1>2, <2>2, <2>3 DEF Finds
  <1>3. ASSUME NEW q \in Requests, NEW u \in Urls, StartInstall(q, u)
        PROVE  Finds(req[p])' /\ \A o \in Requests \ {p} : req'[o] = None
    BY <1>2, <1>3 DEF StartInstall
  <1>4. ASSUME NEW q \in Requests, NEW a \in Apps, StartRefresh(q, a)
        PROVE  Finds(req[p])' /\ \A o \in Requests \ {p} : req'[o] = None
    BY <1>2, <1>4 DEF StartRefresh
  <1>5. CASE Restart
    BY <1>5 DEF Restart
  <1>6. CASE UNCHANGED <<req, file, row>>
    BY <1>6 DEF Undisturbed, Finds
  <1>7. ASSUME NEW a \in Apps, Uninstall(a)
        PROVE  Finds(req[p])' /\ \A o \in Requests \ {p} : req'[o] = None
    <2>1. \A b \in Apps : row'[b] = None \/ row'[b] = row[b]
      BY <1>7 DEF Uninstall
    <2>2. req[p].app \in Apps
      BY <1>7, RequestFields DEF Uninstall
    <2>3. req' = req /\ file' = file
      BY <1>7 DEF Uninstall
    <2>4. Finds(req[p]) /\ \A o \in Requests \ {p} : req[o] = None
      BY <2>3 DEF Undisturbed
    <2>5. row'[req[p].app] = None \/ row'[req[p].app] = row[req[p].app]
      BY <2>1, <2>2
    <2> QED BY <2>3, <2>4, <2>5 DEF Finds
  <1> QED
    BY <1>1, <1>3, <1>4, <1>5, <1>6, <1>7
    DEF Next, vars, DismissSignal, ReportSignal, Publish

LEMMA AInvInductive == Spec => []AInv
  <1>1. Init => AInv
    BY IInvInit DEF Init, AInv, Undisturbed, SignalsInstalled
  <1>2. AInv /\ [Next]_vars => AInv'
    BY IInvStep, UndisturbedStep, SignalsStep DEF AInv, IInv
  <1> QED BY <1>1, <1>2, PTL DEF Spec

-----------------------------------------------------------------------------
(* The theorems *)

LEMMA Inductive == Spec => []IInv
  BY IInvInit, IInvStep, PTL DEF Spec

(* Rows, signals, files and requests stay well-formed. *)
THEOREM TypeCorrect == Spec => []TypeOK
  BY Inductive, PTL DEF IInv

(* No two installed applications share a slug or a base URL: two requests  *)
(* that both passed the slug check meet the unique constraints.            *)
THEOREM NamesStayUnique == Spec => []NamesUnique
  BY Inductive, PTL DEF IInv

(* Every installed application has a bundle file: a request opens it       *)
(* before its row is stored, and nothing in the code removes one.          *)
THEOREM FilesStay == Spec => []InstalledHasFile
  BY Inductive, PTL DEF IInv

(* A stored bundle is of its row's service and not older than the manifest *)
(* stored with it, whenever the service publishes.                         *)
THEOREM BundlesFresh == Spec => []BundleNotOlder
  BY Inductive, PTL DEF IInv

(* A refresh stores a row of its own application only. *)
THEOREM RefreshesKeepHome == Spec => RefreshesStayHome
  <1>1. ASSUME IInv, [Next]_vars PROVE RefreshStaysHome
    <2> SUFFICES ASSUME NEW q \in Requests, NEW a \in Apps, At(q, "insert"),
                        req'[q] # req[q], row'[a] # row[a]
                 PROVE  a = req[q].app
      BY DEF RefreshStaysHome
    <2>1. row' # row
      OBVIOUS
    <2>2. PICK p \in Requests : InsertRow(p)
      BY <1>1, <2>1, RowChanges DEF Uninstall
    <2>3. p = q
      BY <1>1, <2>2, FetchedRequest DEF Step, IInv
    <2> QED BY <1>1, <2>1, <2>2, <2>3, Stored, ManifestFields DEF IInv, TypeOK
  <1> QED BY <1>1, Inductive, PTL DEF Spec, RefreshesStayHome
(* When a row is stored by a request that none overlapped, the file holds  *)
(* the bundle it records.                                                  *)
THEOREM StoresServe == Spec => StoresServeTheirUi
  <1>1. ASSUME AInv, [Next]_vars PROVE StoredIsServed
    <2> USE DEF AInv, IInv
    <2> SUFFICES ASSUME NEW q \in Requests, NEW a \in Apps, At(q, "insert"), req[q].alone,
                        row'[a] # row[a], row'[a] # None
                 PROVE  file'[row'[a].slug] = row'[a].ui
      BY <1>1 DEF StoredIsServed
    <2>1. PICK p \in Requests : InsertRow(p)
      BY <1>1, RowChanges DEF Uninstall, TypeOK
    <2>2. p = q
      BY <1>1, <2>1 DEF InsertRow, At, Undisturbed
    <2>3. Finds(req[q])
      BY <1>1 DEF Undisturbed, At
    <2>4. /\ req[q].man.app \in Apps /\ UNCHANGED file
          /\ row' = [row EXCEPT ![req[q].man.app] =
                       [slug |-> req[q].man.slug, url |-> req[q].url,
                        rev |-> req[q].man.rev, ui |-> req[q].bundle]]
      BY <1>1, <2>1, <2>2, Stored, ManifestFields
    <2>5. row'[a].slug = req[q].man.slug /\ row'[a].ui = req[q].bundle
      BY <1>1, <2>4 DEF TypeOK
    <2> QED BY <2>3, <2>4, <2>5 DEF Finds, At
  <1> QED BY <1>1, AInvInductive, PTL DEF Spec, StoresServeTheirUi

(* A refresh that none overlapped takes an announcement back only after    *)
(* its manifest has become the installed one.                              *)
THEOREM ClearsFollow == Spec => ClearsFollowInstalls
  <1>1. ASSUME AInv, [Next]_vars PROVE ClearedIsInstalled
    <2> USE DEF AInv, IInv
    <2> SUFFICES ASSUME NEW q \in Requests, NEW a \in Apps, req[q] # None, req[q].alone,
                        req'[q] # req[q], signal[a] # None, signal'[a] # signal[a]
                 PROVE  /\ req[q].man # None /\ row[a] # None
                        /\ row[a].url = req[q].url /\ row[a].rev = req[q].man.rev
      BY <1>1 DEF ClearedIsInstalled
    <2>1. PICK p \in Requests : ClearSignal(p)
      BY <1>1 DEF Next, vars, StartInstall, StartRefresh, Step, FetchManifest, FetchArtifact,
              OpenFile, WriteFile, CheckSlug, InsertRow, RequestFails, Uninstall, DismissSignal,
              ReportSignal, Restart, Publish
    <2>2. p = q
      BY <1>1, <2>1 DEF ClearSignal, At, Undisturbed
    <2>3. req[q].step = "clear" /\ a = req[q].app
      BY <1>1, <2>1, <2>2 DEF ClearSignal, At, TypeOK
    <2>4. Finds(req[q]) /\ row[a] # None
      BY <1>1 DEF Undisturbed, SignalsInstalled
    <2> QED BY <1>1, <2>3, <2>4 DEF Finds, Fetched
  <1> QED BY <1>1, AInvInductive, PTL DEF Spec, ClearsFollowInstalls

-----------------------------------------------------------------------------
(* The composition *)

(* The proofs of the other two parts, about the variables here. *)
EnablingProofs == INSTANCE TenantAppsProofs WITH
    Apps <- Enableable, Requests <- Enablers, MaxChanges <- MaxEnablements,
    req <- enabling, changes <- enablements
DeployingProofs == INSTANCE ComposeInstallProofs WITH
    Apps <- Deployable, Requests <- Installers, MaxChanges <- MaxInstalls,
    serves <- base, row <- runtime, installed <- deployed, changes <- installs

LEMMA EnablingGiven == EnablingProofs!Assumptions
  BY EnablingAssumption
  DEF EnablingProofs!Assumptions,
      Enabling!Schemas, Enabling!Applied, Enabling!Transaction,
      Enabling!NewTransaction, Enabling!States, Enabling!Steps, Enabling!Request,
      Enabling!NoneIsNothing,
      EnablingProofs!Schemas, EnablingProofs!Applied, EnablingProofs!Transaction,
      EnablingProofs!NewTransaction, EnablingProofs!States, EnablingProofs!Steps,
      EnablingProofs!Request, EnablingProofs!NoneIsNothing

LEMMA DeployingGiven == DeployingProofs!Assumptions
  BY DeployingAssumption
  DEF DeployingProofs!Assumptions,
      Deploying!Plan, Deploying!Entry, Deploying!Container, Deploying!Row,
      Deploying!Steps, Deploying!Task, Deploying!PackagesAssumption,
      Deploying!OffersAssumption, Deploying!NoneIsNothing,
      DeployingProofs!Plan, DeployingProofs!Entry, DeployingProofs!Container,
      DeployingProofs!Row, DeployingProofs!Steps, DeployingProofs!Task,
      DeployingProofs!PackagesAssumption, DeployingProofs!OffersAssumption,
      DeployingProofs!NoneIsNothing

(* The proofs are about the same operators: one by one, they differ in the *)
(* name of the instance.                                                   *)
LEMMA SameEnabling ==
    ASSUME Enabling!Next
    PROVE  EnablingProofs!Next
  BY DEF
    Enabling!Schemas, Enabling!Applied, Enabling!NewTransaction, Enabling!At,
    Enabling!Installation, Enabling!Others, Enabling!Given, Enabling!Queried,
    Enabling!Goto, Enabling!SetState, Enabling!EnableApp, Enabling!SetInstalling,
    Enabling!FetchMigrations, Enabling!Begin, Enabling!SetPath, Enabling!RunMigration,
    Enabling!Ended, Enabling!Commit, Enabling!Rollback, Enabling!FinishMigrations,
    Enabling!FindRole, Enabling!CreateRole, Enabling!GrantRole,
    Enabling!NotifyInstallationComplete, Enabling!SetReady, Enabling!SetFailed,
    Enabling!UpsertTenantApp, Enabling!DisableTenantApp, Enabling!SetDisabled,
    Enabling!Restart, Enabling!Query, Enabling!Next,
    EnablingProofs!Schemas, EnablingProofs!Applied, EnablingProofs!NewTransaction,
    EnablingProofs!At, EnablingProofs!Installation, EnablingProofs!Others,
    EnablingProofs!Given, EnablingProofs!Queried, EnablingProofs!Goto,
    EnablingProofs!SetState, EnablingProofs!EnableApp, EnablingProofs!SetInstalling,
    EnablingProofs!FetchMigrations, EnablingProofs!Begin, EnablingProofs!SetPath,
    EnablingProofs!RunMigration, EnablingProofs!Ended, EnablingProofs!Commit,
    EnablingProofs!Rollback, EnablingProofs!FinishMigrations, EnablingProofs!FindRole,
    EnablingProofs!CreateRole, EnablingProofs!GrantRole,
    EnablingProofs!NotifyInstallationComplete, EnablingProofs!SetReady,
    EnablingProofs!SetFailed, EnablingProofs!UpsertTenantApp,
    EnablingProofs!DisableTenantApp, EnablingProofs!SetDisabled,
    EnablingProofs!Restart, EnablingProofs!Query, EnablingProofs!Next

LEMMA SameDeploying ==
    ASSUME Deploying!Next
    PROVE  DeployingProofs!Next
  BY DEF
    Deploying!Plan, Deploying!Entry, Deploying!Change, Deploying!StoreEntry,
    Deploying!ServeManifest, Deploying!Review, Deploying!At, Deploying!Goto,
    Deploying!End, Deploying!RequestVars, Deploying!Begin, Deploying!ApprovalIsCurrent,
    Deploying!StartCompose, Deploying!StartComposeInstall,
    Deploying!StartRuntimeUpdate, Deploying!FindManagedRuntime,
    Deploying!RecordApproval, Deploying!StagePackage, Deploying!UnpackPackage,
    Deploying!ValidateComposePolicy, Deploying!DeliverToken, Deploying!Replaced,
    Deploying!ComposeUp, Deploying!FetchFromRuntime, Deploying!StartExternalInstall,
    Deploying!FetchFromBaseUrl, Deploying!InstallFetchedApp,
    Deploying!UpsertRuntimeInstallation, Deploying!Answer, Deploying!RequestFails,
    Deploying!StartStop, Deploying!StopRuntime, Deploying!ExpireToken,
    Deploying!RotateToken, Deploying!StartUninstall, Deploying!RemoveRuntime,
    Deploying!UninstallApp, Deploying!Next,
    DeployingProofs!Plan, DeployingProofs!Entry, DeployingProofs!Change,
    DeployingProofs!StoreEntry, DeployingProofs!ServeManifest, DeployingProofs!Review,
    DeployingProofs!At, DeployingProofs!Goto, DeployingProofs!End,
    DeployingProofs!RequestVars, DeployingProofs!Begin,
    DeployingProofs!ApprovalIsCurrent, DeployingProofs!StartCompose,
    DeployingProofs!StartComposeInstall, DeployingProofs!StartRuntimeUpdate,
    DeployingProofs!FindManagedRuntime, DeployingProofs!RecordApproval,
    DeployingProofs!StagePackage, DeployingProofs!UnpackPackage,
    DeployingProofs!ValidateComposePolicy, DeployingProofs!DeliverToken,
    DeployingProofs!Replaced, DeployingProofs!ComposeUp,
    DeployingProofs!FetchFromRuntime, DeployingProofs!StartExternalInstall,
    DeployingProofs!FetchFromBaseUrl, DeployingProofs!InstallFetchedApp,
    DeployingProofs!UpsertRuntimeInstallation, DeployingProofs!Answer,
    DeployingProofs!RequestFails, DeployingProofs!StartStop,
    DeployingProofs!StopRuntime, DeployingProofs!ExpireToken,
    DeployingProofs!RotateToken, DeployingProofs!StartUninstall,
    DeployingProofs!RemoveRuntime, DeployingProofs!UninstallApp, DeployingProofs!Next

LEMMA EnablingProperties ==
    /\ EnablingProofs!TypeOK => Enabling!TypeOK
    /\ EnablingProofs!EnabledWasInformed => Enabling!EnabledWasInformed
    /\ EnablingProofs!ReadyIsMigrated => Enabling!ReadyIsMigrated
  BY DEF
    Enabling!Schemas, Enabling!Applied, Enabling!Transaction, Enabling!NewTransaction,
    Enabling!States, Enabling!Steps, Enabling!Request, Enabling!At, Enabling!TypeOK,
    Enabling!EnabledWasInformed, Enabling!ReadyIsMigrated,
    EnablingProofs!Schemas, EnablingProofs!Applied, EnablingProofs!Transaction,
    EnablingProofs!NewTransaction, EnablingProofs!States, EnablingProofs!Steps,
    EnablingProofs!Request, EnablingProofs!At, EnablingProofs!TypeOK,
    EnablingProofs!EnabledWasInformed, EnablingProofs!ReadyIsMigrated

LEMMA DeployingProperties ==
    /\ DeployingProofs!TypeOK => Deploying!TypeOK
    /\ DeployingProofs!RuntimesWereApproved => Deploying!RuntimesWereApproved
    /\ DeployingProofs!InstallsWhatWasOffered => Deploying!InstallsWhatWasOffered
  BY DEF
    Deploying!Plan, Deploying!Entry, Deploying!Container, Deploying!Row,
    Deploying!Steps, Deploying!Task, Deploying!At, Deploying!TypeOK,
    Deploying!Approved, Deploying!RuntimesWereApproved,
    Deploying!InstallsWhatWasOffered,
    DeployingProofs!Plan, DeployingProofs!Entry, DeployingProofs!Container,
    DeployingProofs!Row, DeployingProofs!Steps, DeployingProofs!Task,
    DeployingProofs!At, DeployingProofs!TypeOK, DeployingProofs!Approved,
    DeployingProofs!RuntimesWereApproved, DeployingProofs!InstallsWhatWasOffered

(* A step of the composition is one of each part, or leaves it alone. *)
LEMMA StepsOfAll ==
    [AllNext]_allVars =>
      /\ [Next]_vars
      /\ [EnablingProofs!Next]_(EnablingProofs!vars)
      /\ [DeployingProofs!Next]_(DeployingProofs!vars)
  BY SameEnabling, SameDeploying
  DEF AllNext, allVars, enablingVars, deployingVars, EnablingProofs!vars, DeployingProofs!vars

LEMMA InstallingRuns == AllSpec => Spec
  <1>1. AllInit => Init
    BY DEF AllInit
  <1> QED BY <1>1, StepsOfAll, PTL DEF AllSpec, Spec

LEMMA EnablingRuns == AllSpec => EnablingProofs!Spec
  <1>1. AllInit => EnablingProofs!Init
    BY DEF AllInit, Enabling!Init, Enabling!Schemas, EnablingProofs!Init,
           EnablingProofs!Schemas
  <1> QED BY <1>1, StepsOfAll, PTL DEF AllSpec, EnablingProofs!Spec

LEMMA DeployingRuns == AllSpec => DeployingProofs!Spec
  <1>1. AllInit => DeployingProofs!Init
    BY DEF AllInit, Deploying!Init, DeployingProofs!Init
  <1> QED BY <1>1, StepsOfAll, PTL DEF AllSpec, DeployingProofs!Spec

(***************************************************************************)
(* The tables, files, transactions, containers and requests of all three   *)
(* keep their form.                                                        *)
(***************************************************************************)
THEOREM AllTyped == AllSpec => []AllTypeOK
  <1>1. TypeOK /\ EnablingProofs!TypeOK /\ DeployingProofs!TypeOK => AllTypeOK
    BY EnablingProperties, DeployingProperties DEF AllTypeOK
  <1> QED
    BY <1>1, InstallingRuns, TypeCorrect, EnablingRuns, EnablingGiven,
       EnablingProofs!TypeCorrect, DeployingRuns, DeployingGiven,
       DeployingProofs!TypeCorrect, PTL

(***************************************************************************)
(* What is proved of installing holds beside the other two: the table does *)
(* not name a bundle older than its manifest, a refresh stores under the   *)
(* address it found, an undisturbed installation serves what it stores,    *)
(* and a signal is cleared by a request that installs its application.     *)
(***************************************************************************)
THEOREM InstallingHolds ==
    AllSpec => /\ []BundleNotOlder
               /\ RefreshesStayHome
               /\ StoresServeTheirUi
               /\ ClearsFollowInstalls
  BY InstallingRuns, BundlesFresh, RefreshesKeepHome, StoresServe, ClearsFollow, PTL

(***************************************************************************)
(* No interleaving of enabling, disabling, failures and restarts enables   *)
(* an application whose service has not accepted the installation.         *)
(***************************************************************************)
THEOREM EnabledInformed == AllSpec => []EnabledWasInformed
  <1>1. EnablingProofs!EnabledWasInformed => EnabledWasInformed
    BY EnablingProperties DEF EnabledWasInformed
  <1> QED
    BY <1>1, EnablingRuns, EnablingGiven, EnablingProofs!EnabledAreInformed, PTL

(***************************************************************************)
(* A request that nothing overlaps reports ready only what has all its     *)
(* migrations committed in its own schema.                                 *)
(***************************************************************************)
THEOREM ReadyMigrated == AllSpec => []ReadyIsMigrated
  <1>1. EnablingProofs!ReadyIsMigrated => ReadyIsMigrated
    BY EnablingProperties DEF ReadyIsMigrated
  <1> QED
    BY <1>1, EnablingRuns, EnablingGiven, EnablingProofs!ReadyAreMigrated, PTL

(***************************************************************************)
(* Every container Core has started and every runtime it records is of a   *)
(* package and service approved together, which the policy allows.         *)
(***************************************************************************)
THEOREM RuntimesApproved == AllSpec => []RuntimesWereApproved
  <1>1. DeployingProofs!RuntimesWereApproved => RuntimesWereApproved
    BY DeployingProperties DEF RuntimesWereApproved
  <1> QED
    BY <1>1, DeployingRuns, DeployingGiven, DeployingProofs!OnlyApprovedRuns, PTL

(***************************************************************************)
(* An installation that no other request overlapped ends with the manifest *)
(* and the runtime its entry offered, running and recorded.                *)
(***************************************************************************)
THEOREM OfferedInstalled == AllSpec => []InstallsWhatWasOffered
  <1>1. DeployingProofs!InstallsWhatWasOffered => InstallsWhatWasOffered
    BY DeployingProperties DEF InstallsWhatWasOffered
  <1> QED
    BY <1>1, DeployingRuns, DeployingGiven, DeployingProofs!OfferedIsInstalled, PTL
=============================================================================
