--------------------------- MODULE AuthorOnboarding ---------------------------
(***************************************************************************)
(* Requests to become an author, their review, the registration of the     *)
(* author at the registry and the rotation of the author's keys            *)
(* (web/routes/author-portal.ts, web/routes/authors.ts,                    *)
(* authors/author-registry-client.ts).                                     *)
(*                                                                         *)
(* A submission or a review reads the request's row, checks that the       *)
(* status may change as it wants, and later writes the status without      *)
(* looking again.  An approval registers the author in between: four calls *)
(* to the registry, a service of its own, then one transaction here.       *)
(* Nothing undoes what the registry has done when a later step fails.      *)
(*                                                                         *)
(* What a requester fills in is reduced to the operating mode, the public  *)
(* key and the acceptance of the terms.  The key pair that Core generates  *)
(* for a hosted author is named by the author.                             *)
(***************************************************************************)
EXTENDS Naturals

CONSTANTS
    Requests,       \* request_id
    Contents,       \* what requesters fill in
    Keys,           \* public keys of authors that manage their own
    Authors,        \* the author_ids the registry gives
    Tasks,          \* slots for requests to Core under way
    None,
    MaxChanges      \* bound of the model: decisions of reviews, edits, operators' actions

Modes == {"talpaversum_hosted", "trusted_self_hosted"}
Content == [mode : Modes, key : Keys \cup {None}, terms : BOOLEAN]
Statuses == {"draft", "submitted", "pending_review", "needs_changes", "approved", "rejected"}
AllKeys == Keys \cup Authors
RegistryStatuses == {"created", "active", "suspended"}  \* suspended: or revoked, or deleted
Registered == [status : RegistryStatuses,
               keys : SUBSET AllKeys,
               revoked : SUBSET AllKeys,    \* history: revoked, and restored it may be
               certified : SUBSET AllKeys]  \* history: named by a certificate
Profile == [request : Requests, content : Content, key : AllKeys]
Kinds == {"submit", "start_review", "request_changes", "approve", "reject", "onboard", "rotate"}
Steps == {"register", "keys", "activate", "certificate", "profile", "insert", "store", "update"}
Task == [kind : Kinds, step : Steps, request : Requests \cup {None},
         content : Content \cup {None},     \* of the row that was read
         author : Authors \cup {None}, key : AllKeys \cup {None}]

ContentsAssumption == Contents \subseteq Content /\ MaxChanges \in Nat
NoneIsNothing ==
    None \notin Requests \cup Content \cup Statuses \cup AllKeys \cup Registered \cup Profile
                \cup Task

ASSUME OnboardingAssumption == ContentsAssumption /\ NoneIsNothing

VARIABLES
    content, status, author,    \* core.author_requests
    profile,        \* core.author_profiles, with the owner's membership
    signing,        \* core.author_signing_keys: the author of each key
    onboarded,      \* core.author_onboardings: the author's key
    registry,       \* the authors at the registry (external)
    task,
    raced,          \* history: the requests of which two changes of the status were under
                    \* way at once, or a submission and an edit
    changes

vars == <<content, status, author, profile, signing, onboarded, registry, task, raced, changes>>
rows == <<content, status, author>>
authors == <<profile, signing, onboarded>>

TypeOK ==
    /\ content \in [Requests -> Content \cup {None}]
    /\ status \in [Requests -> Statuses \cup {None}]
    /\ author \in [Requests -> Authors \cup {None}]
    /\ profile \in [Authors -> Profile \cup {None}]
    /\ signing \in [AllKeys -> Authors \cup {None}]
    /\ onboarded \in [Authors -> AllKeys \cup {None}]
    /\ registry \in [Authors -> Registered \cup {None}]
    /\ task \in [Tasks -> Task \cup {None}]
    /\ raced \subseteq Requests
    /\ changes \in 0..MaxChanges

Init ==
    /\ content = [r \in Requests |-> None]
    /\ status = [r \in Requests |-> None]
    /\ author = [r \in Requests |-> None]
    /\ profile = [a \in Authors |-> None]
    /\ signing = [k \in AllKeys |-> None]
    /\ onboarded = [a \in Authors |-> None]
    /\ registry = [a \in Authors |-> None]
    /\ task = [x \in Tasks |-> None]
    /\ raced = {}
    /\ changes = 0

-----------------------------------------------------------------------------
(* Requests of authors, and their review *)

RequestTransitions ==
    [draft |-> {"submitted"}, submitted |-> {"pending_review"},
     pending_review |-> {"needs_changes", "approved", "rejected"},
     needs_changes |-> {"draft", "submitted"}, approved |-> {"suspended", "revoked"},
     rejected |-> {"draft"}]
Target ==
    [submit |-> "submitted", start_review |-> "pending_review", reject |-> "rejected",
     request_changes |-> "needs_changes", approve |-> "approved"]
Reviews == {"start_review", "request_changes", "approve", "reject"}

Change == changes < MaxChanges /\ changes' = changes + 1

Begin(x, t) ==
    /\ task[x] = None
    /\ task' = [task EXCEPT ![x] = t]
    /\ raced' = IF \E y \in Tasks : task[y] # None /\ task[y].request = t.request
                THEN raced \cup ({t.request} \ {None}) ELSE raced
    /\ UNCHANGED <<rows, authors, registry>>

CreateRequest(r, c) ==
    /\ content[r] = None
    /\ content' = [content EXCEPT ![r] = c]
    /\ status' = [status EXCEPT ![r] = "draft"]
    /\ UNCHANGED <<author, authors, registry, task, raced, changes>>

(* Mutant: what waits for a review may still be edited. *)
EditableToTheEnd == {"draft", "submitted", "pending_review", "needs_changes", "rejected"}

Editable == {"draft", "needs_changes", "rejected"}

(* One statement, so that it sees the status of the moment; a submission   *)
(* under way has read the content before.                                  *)
EditRequest(r, c) ==
    /\ Change
    /\ content[r] # None /\ status[r] \in Editable
    /\ content' = [content EXCEPT ![r] = c]
    /\ raced' = IF \E x \in Tasks : task[x] # None /\ task[x].request = r
                                     /\ task[x].kind = "submit"
                THEN raced \cup {r} ELSE raced
    /\ UNCHANGED <<status, author, authors, registry, task>>

StartSubmit(x, r) ==
    /\ content[r] # None /\ content[r].terms
    /\ Target["submit"] \in RequestTransitions[status[r]]
    /\ Begin(x, [kind |-> "submit", step |-> "update", request |-> r, content |-> content[r],
                 author |-> None, key |-> None])
    /\ UNCHANGED changes

(* An approval needs a key, of the author or generated here.  One whose    *)
(* request has an author already goes straight to the status.              *)
Registers(r, action) == action = "approve" /\ author[r] = None
HasKey(c) == c.mode = "talpaversum_hosted" \/ c.key # None

StartReview(x, r, action) ==
    /\ IF action = "start_review" THEN UNCHANGED changes ELSE Change
    /\ content[r] # None
    /\ Target[action] \in RequestTransitions[status[r]]
    /\ Registers(r, action) => HasKey(content[r])
    /\ Begin(x, [kind |-> action, step |-> IF Registers(r, action) THEN "register" ELSE "update",
                 request |-> r, content |-> content[r], author |-> author[r],
                 key |-> IF content[r].mode = "talpaversum_hosted" THEN None ELSE content[r].key])

-----------------------------------------------------------------------------
(* Registration at the registry *)

At(x, step) == task[x] # None /\ task[x].step = step
Goto(x, step) == task' = [task EXCEPT ![x].step = step]
End(x) == task' = [task EXCEPT ![x] = None]

(* Mutant: no key is generated for a hosted author. *)
RegisterAuthorKeyless(x, a) ==
    /\ At(x, "register") /\ registry[a] = None
    /\ registry' = [registry EXCEPT ![a] =
         [status |-> "created", keys |-> {}, revoked |-> {}, certified |-> {}]]
    /\ task' = [task EXCEPT ![x].step = "keys", ![x].author = a]
    /\ UNCHANGED <<rows, authors, raced, changes>>

RegisterAuthor(x, a) ==
    /\ At(x, "register") /\ registry[a] = None
    /\ registry' = [registry EXCEPT ![a] =
         [status |-> "created", keys |-> {}, revoked |-> {}, certified |-> {}]]
    /\ task' = [task EXCEPT ![x].step = "keys", ![x].author = a,
                            ![x].key = IF task[x].key = None THEN a ELSE task[x].key]
    /\ UNCHANGED <<rows, authors, raced, changes>>

(* Mutant: Core's row goes first. *)
PostKeysLast(x) ==
    /\ At(x, "keys")
    /\ registry' = [registry EXCEPT ![task[x].author].keys = @ \cup {task[x].key}]
    /\ onboarded' = IF task[x].kind = "rotate"
                    THEN [onboarded EXCEPT ![task[x].author] = task[x].key] ELSE onboarded
    /\ Goto(x, IF task[x].kind = "rotate" THEN "certificate" ELSE "activate")
    /\ UNCHANGED <<rows, profile, signing, raced, changes>>

PostKeys(x) ==
    /\ At(x, "keys")
    /\ registry' = [registry EXCEPT ![task[x].author].keys = @ \cup {task[x].key}]
    /\ Goto(x, IF task[x].kind = "rotate" THEN "certificate" ELSE "activate")
    /\ UNCHANGED <<rows, authors, raced, changes>>

ActivateAuthor(x) ==
    /\ At(x, "activate")
    /\ registry' = [registry EXCEPT ![task[x].author].status = "active"]
    /\ Goto(x, "certificate")
    /\ UNCHANGED <<rows, authors, raced, changes>>

(* The certificate of an active author names the keys that are not revoked *)
(* at that time: a revoked key may have been restored.                     *)
IssueCertificate(x) ==
    /\ At(x, "certificate") /\ registry[task[x].author].status = "active"
    /\ \E barred \in SUBSET registry[task[x].author].revoked :
         registry' = [registry EXCEPT ![task[x].author].certified =
           @ \cup (registry[task[x].author].keys \ barred)]
    /\ Goto(x, CASE task[x].kind = "approve" -> "profile"
                 [] task[x].kind = "onboard" -> "insert"
                 [] task[x].kind = "rotate" -> "store")
    /\ UNCHANGED <<rows, authors, raced, changes>>

(* One transaction, which a key of another author makes fail. *)
StoreProfile(x) ==
    /\ At(x, "profile") /\ signing[task[x].key] = None
    /\ profile' = [profile EXCEPT ![task[x].author] =
         [request |-> task[x].request, content |-> task[x].content, key |-> task[x].key]]
    /\ onboarded' = [onboarded EXCEPT ![task[x].author] = task[x].key]
    /\ signing' = [signing EXCEPT ![task[x].key] = task[x].author]
    /\ Goto(x, "update")
    /\ UNCHANGED <<rows, registry, raced, changes>>

(* Mutant: the author is left out. *)
UpdateStatus(x) ==
    /\ At(x, "update")
    /\ status' = [status EXCEPT ![task[x].request] = Target[task[x].kind]]
    /\ End(x)
    /\ UNCHANGED <<content, author, authors, registry, raced, changes>>

UpdateRequest(x) ==
    /\ At(x, "update")
    /\ status' = [status EXCEPT ![task[x].request] = Target[task[x].kind]]
    /\ author' = [author EXCEPT ![task[x].request] =
         IF task[x].author # None THEN task[x].author ELSE @]
    /\ End(x)
    /\ UNCHANGED <<content, authors, registry, raced, changes>>

-----------------------------------------------------------------------------
(* Onboarding by an operator, and the rotation of keys *)

StartOnboard(x, k) ==
    /\ Change
    /\ Begin(x, [kind |-> "onboard", step |-> "register", request |-> None, content |-> None,
                 author |-> None, key |-> k])

InsertOnboarding(x) ==
    /\ At(x, "insert")
    /\ onboarded' = [onboarded EXCEPT ![task[x].author] = task[x].key]
    /\ End(x)
    /\ UNCHANGED <<rows, profile, signing, registry, raced, changes>>

StartRotate(x, a, k) ==
    /\ Change
    /\ onboarded[a] # None
    /\ Begin(x, [kind |-> "rotate", step |-> "keys", request |-> None, content |-> None,
                 author |-> a, key |-> k])

StoreRotation(x) ==
    /\ At(x, "store")
    /\ onboarded' = [onboarded EXCEPT ![task[x].author] = task[x].key]
    /\ End(x)
    /\ UNCHANGED <<rows, profile, signing, registry, raced, changes>>

(* Operators of the registry, of which Core passes on what they ask for,   *)
(* without a record of its own.                                            *)
UpdateRegistryAuthor(a, s) ==
    /\ Change
    /\ registry[a] # None /\ registry[a].status # s
    /\ registry' = [registry EXCEPT ![a].status = s]
    /\ UNCHANGED <<rows, authors, task, raced>>

RevokeKey(a, k) ==
    /\ Change
    /\ registry[a] # None /\ k \in registry[a].keys \ registry[a].revoked
    /\ registry' = [registry EXCEPT ![a].revoked = @ \cup {k}]
    /\ UNCHANGED <<rows, authors, task, raced>>

(* A query or a call fails, or the process ends. *)
TaskFails(x) ==
    /\ task[x] # None
    /\ End(x)
    /\ UNCHANGED <<rows, authors, registry, raced, changes>>

-----------------------------------------------------------------------------
RequestStep ==
    \/ \E r \in Requests, c \in Contents : CreateRequest(r, c) \/ EditRequest(r, c)
    \/ \E x \in Tasks, r \in Requests :
         StartSubmit(x, r) \/ \E action \in Reviews : StartReview(x, r, action)
    \/ \E x \in Tasks : UpdateRequest(x)

RegistrationStep ==
    \E x \in Tasks :
      \/ \E a \in Authors : RegisterAuthor(x, a)
      \/ PostKeys(x) \/ ActivateAuthor(x) \/ IssueCertificate(x) \/ StoreProfile(x)

OperatorStep ==
    \/ \E x \in Tasks, k \in Keys :
         StartOnboard(x, k) \/ \E a \in Authors : StartRotate(x, a, k)
    \/ \E x \in Tasks : InsertOnboarding(x) \/ StoreRotation(x)
    \/ \E a \in Authors :
         \/ \E s \in {"active", "suspended"} : UpdateRegistryAuthor(a, s)
         \/ \E k \in AllKeys : RevokeKey(a, k)

Next ==
    \/ RequestStep \/ RegistrationStep \/ OperatorStep
    \/ \E x \in Tasks : TaskFails(x)

Spec == Init /\ [][Next]_vars

-----------------------------------------------------------------------------
(* Whatever overlaps and fails: an approved request names an author whose  *)
(* profile was made for it, and whom the registry has registered.          *)
ApprovedHasAuthor ==
    \A r \in Requests :
      status[r] = "approved" =>
        /\ author[r] # None
        /\ profile[author[r]] # None /\ profile[author[r]].request = r
        /\ registry[author[r]] # None

(* Unless two changes of the status, or a submission and an edit, were     *)
(* under way at once: the author has accepted the terms, and the profile   *)
(* is of what the request says, although an approval takes five steps at   *)
(* two services, of which any may fail and be asked for again.             *)
ApprovedAsSubmitted ==
    \A r \in Requests \ raced :
      status[r] = "approved" =>
        /\ content[r].terms
        /\ profile[author[r]].content = content[r]

(* Whatever overlaps and fails: a key that Core keeps for an author is in  *)
(* a certificate of the registry, or was revoked there.                    *)
LocalWasCertified ==
    \A a \in Authors :
      /\ profile[a] # None =>
           profile[a].key \in registry[a].certified \cup registry[a].revoked
      /\ onboarded[a] # None =>
           onboarded[a] \in registry[a].certified \cup registry[a].revoked

=============================================================================
