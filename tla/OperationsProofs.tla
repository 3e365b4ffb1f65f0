-------------------------- MODULE OperationsProofs --------------------------
(***************************************************************************)
(* Proofs about Operations.  An approved author is one the registry knows  *)
(* and has certified, and of what was submitted for review; the states of  *)
(* applications are typed, whoever checks, and the failure counts are real *)
(* while only the monitor checks.  The composition keeps all of it.        *)
(***************************************************************************)
EXTENDS Operations, TLAPS

USE OnboardingAssumption

(* What a task at a step has established, and what the rows and the        *)
(* registry have in common: the inductive invariant of the admission.      *)

(* A profile made for the request, of an author the registry knows. *)
Made(r, a) == profile[a] # None /\ profile[a].request = r /\ registry[a] # None

(* The registration of an approval that has an author at the registry and  *)
(* none here yet.                                                          *)
Pending(t) == t.kind = "approve" /\ t.step \in {"keys", "activate", "certificate", "profile"}

(* What a task has established when it reaches a step. *)
Sound(t) ==
    /\ t.step = "register" => t.kind \in {"approve", "onboard"} /\ t.author = None
    /\ t.step \in {"activate", "insert"} => t.kind \in {"approve", "onboard"}
    /\ t.step = "insert" => t.kind = "onboard"
    /\ t.step = "store" => t.kind = "rotate"
    /\ t.step = "profile" => t.kind = "approve"
    /\ t.step = "update" => t.kind \in {"submit"} \cup Reviews
    /\ t.step # "update" => t.kind \in {"approve", "onboard", "rotate"}
    /\ t.kind \in {"onboard", "rotate"} => t.request = None
    /\ t.kind \in {"submit"} \cup Reviews =>
         /\ t.request # None /\ content[t.request] # None /\ t.content # None
    /\ t.step \notin {"register", "update"} =>
         t.author # None /\ t.key # None /\ registry[t.author] # None
    /\ t.step \in {"activate", "certificate"} => t.key \in registry[t.author].keys
    /\ t.step \in {"profile", "insert", "store"} =>
         t.key \in registry[t.author].certified \cup registry[t.author].revoked
    /\ Pending(t) => profile[t.author] = None
    /\ t.step = "update" /\ (t.author # None \/ t.kind = "approve") =>
         t.author # None /\ Made(t.request, t.author)

TasksSound == \A x \in Tasks : task[x] # None => Sound(task[x])

Apart ==
    \A x, y \in Tasks :
      /\ x # y /\ task[x] # None /\ task[y] # None
      /\ Pending(task[x]) /\ Pending(task[y])
      => task[x].author # task[y].author

RowsSound ==
    \A r \in Requests :
      /\ content[r] = None => status[r] = None
      /\ status[r] = None => content[r] = None
      /\ author[r] # None => Made(r, author[r])
      /\ status[r] = "approved" => author[r] # None

AuthorsKnown ==
    \A a \in Authors : profile[a] # None \/ onboarded[a] # None => registry[a] # None

IInv == TypeOK /\ TasksSound /\ Apart /\ RowsSound /\ AuthorsKnown /\ LocalWasCertified


LEMMA TaskFields ==
    ASSUME NEW t \in Task
    PROVE  /\ t # None /\ t.kind \in Kinds /\ t.step \in Steps
           /\ t.request \in Requests \cup {None} /\ t.content \in Content \cup {None}
           /\ t.author \in Authors \cup {None} /\ t.key \in AllKeys \cup {None}
  BY DEF Task, NoneIsNothing

(* What no step undoes: requests and profiles stay, and the registry       *)
(* forgets no author, no key, no certificate and no revocation.            *)
Grows ==
    /\ \A r \in Requests : content[r] # None => content'[r] # None
    /\ \A a \in Authors : profile[a] # None => profile'[a] = profile[a]
    /\ \A a \in Authors : registry[a] # None =>
         /\ registry'[a] # None /\ registry[a].keys \subseteq registry'[a].keys
         /\ registry[a].certified \cup registry[a].revoked
              \subseteq registry'[a].certified \cup registry'[a].revoked

LEMMA SoundKept ==
    ASSUME IInv, Grows, NEW y \in Tasks, task[y] # None,
           task'[y] = task[y],
           Pending(task[y]) => profile'[task[y].author] = profile[task[y].author]
    PROVE  Sound(task[y])'
  <1> DEFINE t == task[y]
  <1>1. t \in Task /\ Sound(t)
    BY DEF IInv, TypeOK, TasksSound
  <1>2. /\ t.kind \in Kinds /\ t.request \in Requests \cup {None}
        /\ t.author \in Authors \cup {None}
    BY <1>1, TaskFields
  <1>3. t.step \notin {"register", "update"} => t.author \in Authors
    BY <1>1, <1>2 DEF Sound
  <1>4. Pending(t) <=> Pending(t)'
    BY DEF Pending
  <1>5. Made(t.request, t.author) /\ t.author # None => Made(t.request, t.author)'
    BY <1>2 DEF Made, Grows
  <1> QED BY <1>1, <1>2, <1>3, <1>4, <1>5 DEF Sound, Grows

(* Of a step that one task takes, it is enough to see that task, and that  *)
(* only the profile of an author it is registering is written.             *)
LEMMA TaskStep ==
    ASSUME IInv, Grows, NEW x \in Tasks,
           \A y \in Tasks : y # x => task'[y] = task[y],
           task'[x] # None => Sound(task[x])',
           \A a \in Authors :
             profile'[a] # profile[a] => task[x] # None /\ Pending(task[x]) /\ a = task[x].author,
           task'[x] # None /\ Pending(task'[x]) =>
             \/ registry[task'[x].author] = None
             \/ task[x] # None /\ Pending(task[x]) /\ task'[x].author = task[x].author
    PROVE  TasksSound' /\ Apart'
  <1>1. ASSUME NEW y \in Tasks, y # x, task[y] # None, Pending(task[y])
        PROVE  /\ task[y].author \in Authors /\ registry[task[y].author] # None
               /\ task[x] # None /\ Pending(task[x]) => task[x].author # task[y].author
    <2>1. task[y] \in Task /\ Sound(task[y])
      BY <1>1 DEF IInv, TypeOK, TasksSound
    <2>2. task[y].author \in Authors /\ registry[task[y].author] # None
      BY <1>1, <2>1, TaskFields DEF Pending, Sound
    <2> QED BY <1>1, <2>2 DEF IInv, Apart
  <1>2. ASSUME NEW y \in Tasks, task'[y] # None
        PROVE  Sound(task[y])'
    <2>1. CASE y = x
      BY <1>2, <2>1
    <2>2. CASE y # x
      BY <1>1, <1>2, <2>2, SoundKept
    <2> QED BY <2>1, <2>2
  <1>3. ASSUME NEW y \in Tasks, NEW z \in Tasks, y # z, task'[y] # None, task'[z] # None,
               Pending(task'[y]), Pending(task'[z])
        PROVE  task'[y].author # task'[z].author
    <2>1. CASE y # x /\ z # x
      BY <1>3, <2>1 DEF IInv, Apart
    <2>2. CASE y = x
      BY <1>1, <1>3, <2>2
    <2>3. CASE z = x
      BY <1>1, <1>3, <2>3
    <2> QED BY <2>1, <2>2, <2>3
  <1> QED BY <1>2, <1>3 DEF TasksSound, Apart, Pending

(* What the rows say is kept by a step that writes no status and no author *)
(* of a request.                                                           *)
LEMMA RowsKept ==
    ASSUME IInv, Grows, UNCHANGED <<status, author>>,
           \A r \in Requests : content'[r] = None <=> content[r] = None
    PROVE  RowsSound'
  <1>1. ASSUME NEW r \in Requests, author[r] # None
        PROVE  Made(r, author[r])'
    BY <1>1 DEF IInv, TypeOK, RowsSound, Made, Grows
  <1> QED BY <1>1 DEF IInv, RowsSound

(* ... and what Core has of an author by one that writes none of it. *)
LEMMA AuthorsKept ==
    ASSUME IInv, Grows, UNCHANGED <<profile, onboarded>>
    PROVE  AuthorsKnown' /\ LocalWasCertified'
  BY DEF IInv, AuthorsKnown, LocalWasCertified, Grows

LEMMA StillGrows ==
    ASSUME UNCHANGED <<content, profile, registry>>
    PROVE  Grows
  BY DEF Grows

-----------------------------------------------------------------------------
(* Rows *)

LEMMA CreateRequestSound ==
    ASSUME IInv, NEW r \in Requests, NEW c \in Contents,
           CreateRequest(r, c)
    PROVE  IInv'
  <1> USE DEF IInv, CreateRequest, rows, authors
  <1>1. c \in Content /\ c # None
    BY DEF ContentsAssumption, NoneIsNothing
  <1>2. TypeOK'
    BY <1>1 DEF TypeOK, Statuses
  <1>3. Grows
    BY <1>1 DEF Grows, TypeOK
  <1>4. TasksSound' /\ Apart'
    <2>1. \A y \in Tasks : task[y] # None => Sound(task[y])'
      BY <1>3, SoundKept
    <2> QED BY <2>1 DEF TasksSound, Apart, Pending
  <1>5. RowsSound'
    <2>1. status[r] = None
      BY DEF RowsSound
    <2>2. "draft" # None
      BY DEF NoneIsNothing, Statuses
    <2>3. \A o \in Requests : author[o] # None => Made(o, author[o])'
      BY DEF RowsSound, Made, TypeOK
    <2> QED BY <1>1, <2>1, <2>2, <2>3 DEF RowsSound, TypeOK
  <1>6. AuthorsKnown' /\ LocalWasCertified'
    BY <1>3, AuthorsKept
  <1> QED BY <1>2, <1>4, <1>5, <1>6

LEMMA EditRequestSound ==
    ASSUME IInv, NEW r \in Requests, NEW c \in Contents,
           EditRequest(r, c)
    PROVE  IInv'
  <1> USE DEF IInv, EditRequest, Change, authors
  <1>1. c \in Content /\ c # None
    BY DEF ContentsAssumption, NoneIsNothing
  <1>2. TypeOK'
    BY <1>1 DEF TypeOK, ContentsAssumption
  <1>3. Grows
    BY <1>1 DEF Grows, TypeOK
  <1>4. TasksSound' /\ Apart'
    <2>1. \A y \in Tasks : task[y] # None => Sound(task[y])'
      BY <1>3, SoundKept
    <2> QED BY <2>1 DEF TasksSound, Apart, Pending
  <1>5. RowsSound'
    BY <1>1, <1>3, RowsKept DEF TypeOK
  <1>6. AuthorsKnown' /\ LocalWasCertified'
    BY <1>3, AuthorsKept
  <1> QED BY <1>2, <1>4, <1>5, <1>6

-----------------------------------------------------------------------------
(* The beginning of a task *)

LEMMA BeginSound ==
    ASSUME IInv, NEW x \in Tasks, NEW t \in Task, Begin(x, t),
           Sound(t), ~Pending(t), changes' \in 0..MaxChanges
    PROVE  IInv'
  <1> USE DEF Begin, rows, authors
  <1>1. t # None
    BY TaskFields
  <1>2. TypeOK'
    <2>1. t.request \in Requests \cup {None}
      BY TaskFields
    <2> QED BY <2>1 DEF IInv, TypeOK
  <1>3. Grows
    BY StillGrows
  <1>4. TasksSound' /\ Apart'
    <2>1. task'[x] = t /\ \A y \in Tasks : y # x => task'[y] = task[y]
      BY DEF IInv, TypeOK
    <2>2. content' = content /\ profile' = profile /\ registry' = registry
      OBVIOUS
    <2>3. Sound(task[x])' <=> Sound(t)
      BY <2>1, <2>2 DEF Sound, Made, Pending
    <2>4. ~Pending(task'[x])
      BY <2>1 DEF Pending
    <2> QED BY <1>3, <2>1, <2>2, <2>3, <2>4, TaskStep
  <1>5. RowsSound'
    BY <1>3, RowsKept
  <1>6. AuthorsKnown' /\ LocalWasCertified'
    BY <1>3, AuthorsKept
  <1> QED BY <1>2, <1>4, <1>5, <1>6 DEF IInv

LEMMA StartSubmitSound ==
    ASSUME IInv, NEW x \in Tasks, NEW r \in Requests, StartSubmit(x, r)
    PROVE  IInv'
  <1> DEFINE t == [kind |-> "submit", step |-> "update", request |-> r,
                   content |-> content[r], author |-> None, key |-> None]
  <1>1. content[r] \in Content /\ content[r] # None /\ r # None
    BY DEF StartSubmit, IInv, TypeOK, NoneIsNothing
  <1>2. t \in Task
    BY <1>1 DEF Task, Kinds, Steps
  <1>3. Sound(t) /\ ~Pending(t)
    BY <1>1 DEF Sound, Pending
  <1>4. Begin(x, t) /\ changes' \in 0..MaxChanges
    BY DEF StartSubmit, IInv, TypeOK
  <1> QED BY <1>2, <1>3, <1>4, BeginSound

LEMMA StartReviewSound ==
    ASSUME IInv, NEW x \in Tasks, NEW r \in Requests,
           NEW action \in Reviews, StartReview(x, r, action)
    PROVE  IInv'
  <1> DEFINE step == IF Registers(r, action) THEN "register" ELSE "update"
             key == IF content[r].mode = "talpaversum_hosted" THEN None ELSE content[r].key
             t == [kind |-> action, step |-> step, request |-> r, content |-> content[r],
                   author |-> author[r], key |-> key]
  <1>1. content[r] \in Content /\ content[r] # None /\ r # None
    BY DEF StartReview, IInv, TypeOK, NoneIsNothing
  <1>2. key \in AllKeys \cup {None}
    BY <1>1 DEF Content, AllKeys
  <1>3. t \in Task
    <2>1. author[r] \in Authors \cup {None}
      BY DEF IInv, TypeOK
    <2>2. action \in Kinds /\ step \in Steps
      BY DEF Reviews, Kinds, Steps
    <2> HIDE DEF key, step
    <2> QED BY <1>1, <1>2, <2>1, <2>2 DEF Task
  <1>4. Sound(t) /\ ~Pending(t)
    <2>1. author[r] # None => Made(r, author[r])
      BY DEF IInv, RowsSound
    <2> QED BY <1>1, <2>1 DEF Sound, Pending, Registers, Reviews
  <1>5. Begin(x, t) /\ changes' \in 0..MaxChanges
    BY DEF StartReview, IInv, TypeOK, Change, ContentsAssumption
  <1> QED BY <1>3, <1>4, <1>5, BeginSound

LEMMA StartOnboardSound ==
    ASSUME IInv, NEW x \in Tasks, NEW k \in Keys, StartOnboard(x, k)
    PROVE  IInv'
  <1> DEFINE t == [kind |-> "onboard", step |-> "register", request |-> None, content |-> None,
                   author |-> None, key |-> k]
  <1>1. t \in Task
    BY DEF Task, Kinds, Steps, AllKeys
  <1>2. Sound(t) /\ ~Pending(t)
    BY DEF Sound, Pending, Reviews
  <1>3. Begin(x, t) /\ changes' \in 0..MaxChanges
    BY DEF StartOnboard, IInv, TypeOK, Change, ContentsAssumption
  <1> QED BY <1>1, <1>2, <1>3, BeginSound

LEMMA StartRotateSound ==
    ASSUME IInv, NEW x \in Tasks, NEW a \in Authors, NEW k \in Keys,
           StartRotate(x, a, k)
    PROVE  IInv'
  <1> DEFINE t == [kind |-> "rotate", step |-> "keys", request |-> None, content |-> None,
                   author |-> a, key |-> k]
  <1>1. t \in Task
    BY DEF Task, Kinds, Steps, AllKeys
  <1>2. a # None /\ k # None
    BY DEF AllKeys, NoneIsNothing
  <1>3. registry[a] # None
    BY DEF StartRotate, IInv, AuthorsKnown
  <1>4. Sound(t) /\ ~Pending(t)
    BY <1>2, <1>3 DEF Sound, Pending, Reviews
  <1>5. Begin(x, t) /\ changes' \in 0..MaxChanges
    BY DEF StartRotate, IInv, TypeOK, Change, ContentsAssumption
  <1> QED BY <1>1, <1>4, <1>5, BeginSound

-----------------------------------------------------------------------------
(* The registry *)

(* The task and its author, at a step that it takes after the registration *)
(* there.                                                                  *)
LEMMA AtAuthor ==
    ASSUME IInv, NEW x \in Tasks, NEW s \in Steps \ {"register", "update"},
           At(x, s)
    PROVE  /\ task[x] \in Task /\ Sound(task[x]) /\ task[x].step = s
           /\ task[x].author \in Authors /\ task[x].key \in AllKeys
           /\ registry[task[x].author] \in Registered
  <1>1. task[x] \in Task /\ Sound(task[x]) /\ task[x].step = s
    BY DEF At, IInv, TypeOK, TasksSound
  <1>2. task[x].author \in Authors /\ task[x].key \in AllKeys
    BY <1>1, TaskFields DEF Sound
  <1> QED BY <1>1, <1>2 DEF Sound, IInv, TypeOK

LEMMA GoTo ==
    ASSUME IInv, NEW x \in Tasks, task[x] # None, NEW s \in Steps,
           Goto(x, s)
    PROVE  /\ task' \in [Tasks -> Task \cup {None}]
           /\ task'[x] \in Task /\ task'[x].step = s
           /\ task'[x].kind = task[x].kind /\ task'[x].request = task[x].request
           /\ task'[x].content = task[x].content /\ task'[x].author = task[x].author
           /\ task'[x].key = task[x].key
           /\ \A y \in Tasks : y # x => task'[y] = task[y]
  <1>1. task[x] \in Task /\ task \in [Tasks -> Task \cup {None}]
    BY DEF IInv, TypeOK
  <1>2. task'[x] = [task[x] EXCEPT !.step = s]
    BY <1>1 DEF Goto
  <1>3. [task[x] EXCEPT !.step = s] \in Task
    BY <1>1 DEF Task
  <1>4. \A y \in Tasks : y # x => task'[y] = task[y]
    BY <1>1 DEF Goto
  <1>5. task' \in [Tasks -> Task \cup {None}]
    BY <1>1, <1>3 DEF Goto
  <1> QED BY <1>1, <1>2, <1>3, <1>4, <1>5 DEF Task

(* A step of a task that writes one author at the registry. *)
LEMMA RegistryStep ==
    ASSUME IInv, NEW x \in Tasks, NEW a \in Authors, NEW g \in Registered,
           registry' = [registry EXCEPT ![a] = g],
           registry[a] # None =>
             /\ registry[a].keys \subseteq g.keys
             /\ registry[a].certified \cup registry[a].revoked \subseteq g.certified \cup g.revoked,
           UNCHANGED <<rows, authors, raced, changes>>,
           task' \in [Tasks -> Task \cup {None}],
           \A y \in Tasks : y # x => task'[y] = task[y],
           Sound(task[x])',
           Pending(task'[x]) =>
             \/ registry[task'[x].author] = None
             \/ task[x] # None /\ Pending(task[x]) /\ task'[x].author = task[x].author
    PROVE  IInv'
  <1> USE DEF rows, authors
  <1>1. TypeOK'
    BY DEF IInv, TypeOK
  <1>2. g # None
    BY DEF NoneIsNothing
  <1>3. Grows
    <2>1. \A b \in Authors : registry'[b] = IF b = a THEN g ELSE registry[b]
      BY DEF IInv, TypeOK
    <2> QED BY <1>2, <2>1 DEF Grows
  <1>4. TasksSound' /\ Apart'
    BY <1>3, TaskStep
  <1>5. RowsSound' /\ AuthorsKnown' /\ LocalWasCertified'
    BY <1>3, RowsKept, AuthorsKept
  <1> QED BY <1>1, <1>4, <1>5 DEF IInv

LEMMA RegisterAuthorSound ==
    ASSUME IInv, NEW x \in Tasks, NEW a \in Authors, RegisterAuthor(x, a)
    PROVE  IInv'
  <1> DEFINE g == [status |-> "created", keys |-> {}, revoked |-> {}, certified |-> {}]
             k == IF task[x].key = None THEN a ELSE task[x].key
             t == [task[x] EXCEPT !.step = "keys", !.author = a, !.key = k]
  <1>1. task[x] \in Task /\ task[x] # None /\ Sound(task[x]) /\ task[x].step = "register"
    BY DEF RegisterAuthor, At, IInv, TypeOK, TasksSound
  <1>2. g \in Registered /\ registry[a] = None
    BY DEF Registered, RegistryStatuses, RegisterAuthor
  <1>3. k \in AllKeys /\ k # None /\ a # None
    BY <1>1, TaskFields DEF AllKeys, NoneIsNothing
  <1> HIDE DEF k
  <1>4. /\ t \in Task /\ t.step = "keys" /\ t.author = a /\ t.key = k
        /\ t.kind = task[x].kind /\ t.request = task[x].request /\ t.content = task[x].content
    BY <1>1, <1>3 DEF Task, Steps
  <1>5. task' = [task EXCEPT ![x] = t]
    BY DEF RegisterAuthor, k
  <1>6. registry' = [registry EXCEPT ![a] = g] /\ UNCHANGED <<rows, authors, raced, changes>>
    BY DEF RegisterAuthor
  <1> HIDE DEF t, g
  <1>7. /\ task'[x] = t /\ task' \in [Tasks -> Task \cup {None}]
        /\ \A y \in Tasks : y # x => task'[y] = task[y]
    BY <1>4, <1>5 DEF IInv, TypeOK
  <1>8. g # None /\ registry'[a] = g
    BY <1>2, <1>6 DEF NoneIsNothing, IInv, TypeOK
  <1>9. profile[a] = None
    BY <1>2 DEF IInv, AuthorsKnown
  <1>10. Sound(task[x])'
    BY <1>1, <1>3, <1>4, <1>6, <1>7, <1>8, <1>9 DEF Sound, Pending, rows, authors
  <1> QED BY <1>2, <1>4, <1>6, <1>7, <1>10, RegistryStep

LEMMA PostKeysSound ==
    ASSUME IInv, NEW x \in Tasks, PostKeys(x)
    PROVE  IInv'
  <1> DEFINE a == task[x].author
             g == [registry[a] EXCEPT !.keys = @ \cup {task[x].key}]
             s == IF task[x].kind = "rotate" THEN "certificate" ELSE "activate"
  <1>1. /\ task[x] \in Task /\ Sound(task[x]) /\ task[x].step = "keys"
        /\ a \in Authors /\ task[x].key \in AllKeys /\ registry[a] \in Registered
    BY AtAuthor DEF PostKeys, Steps
  <1>2. g \in Registered /\ g.keys = registry[a].keys \cup {task[x].key}
        /\ g.certified = registry[a].certified /\ g.revoked = registry[a].revoked
    BY <1>1 DEF Registered
  <1>3. task[x] # None /\ s \in Steps /\ Goto(x, s)
    BY DEF PostKeys, At, Steps
  <1>4. registry' = [registry EXCEPT ![a] = g] /\ UNCHANGED <<rows, authors, raced, changes>>
    BY DEF PostKeys
  <1> HIDE DEF g
  <1>5. registry'[a] = g /\ g # None
    BY <1>1, <1>2, <1>4 DEF IInv, TypeOK, NoneIsNothing
  <1>6. task[x].kind \in {"approve", "onboard", "rotate"}
    BY <1>1 DEF Sound
  <1> HIDE DEF s
  <1>7. /\ task' \in [Tasks -> Task \cup {None}]
        /\ task'[x] \in Task /\ task'[x].step = s
        /\ task'[x].kind = task[x].kind /\ task'[x].request = task[x].request
        /\ task'[x].content = task[x].content /\ task'[x].author = task[x].author
        /\ task'[x].key = task[x].key
        /\ \A y \in Tasks : y # x => task'[y] = task[y]
    BY <1>3, GoTo
  <1>8. Sound(task[x])'
    BY <1>1, <1>2, <1>4, <1>5, <1>6, <1>7 DEF Sound, Pending, rows, authors, s
  <1>9. Pending(task'[x]) => Pending(task[x])
    BY <1>1, <1>7 DEF Pending
  <1> QED BY <1>1, <1>2, <1>3, <1>4, <1>7, <1>8, <1>9, RegistryStep

LEMMA ActivateAuthorSound ==
    ASSUME IInv, NEW x \in Tasks, ActivateAuthor(x)
    PROVE  IInv'
  <1> DEFINE a == task[x].author
             g == [registry[a] EXCEPT !.status = "active"]
  <1>1. /\ task[x] \in Task /\ Sound(task[x]) /\ task[x].step = "activate"
        /\ a \in Authors /\ task[x].key \in AllKeys /\ registry[a] \in Registered
    BY AtAuthor DEF ActivateAuthor, Steps
  <1>2. g \in Registered /\ g.keys = registry[a].keys
        /\ g.certified = registry[a].certified /\ g.revoked = registry[a].revoked
    BY <1>1 DEF Registered, RegistryStatuses
  <1>3. task[x] # None /\ "certificate" \in Steps /\ Goto(x, "certificate")
    BY DEF ActivateAuthor, At, Steps
  <1>4. registry' = [registry EXCEPT ![a] = g] /\ UNCHANGED <<rows, authors, raced, changes>>
    BY DEF ActivateAuthor
  <1> HIDE DEF g
  <1>5. registry'[a] = g /\ g # None
    BY <1>1, <1>2, <1>4 DEF IInv, TypeOK, NoneIsNothing
  <1>7. /\ task' \in [Tasks -> Task \cup {None}]
        /\ task'[x] \in Task /\ task'[x].step = "certificate"
        /\ task'[x].kind = task[x].kind /\ task'[x].request = task[x].request
        /\ task'[x].content = task[x].content /\ task'[x].author = task[x].author
        /\ task'[x].key = task[x].key
        /\ \A y \in Tasks : y # x => task'[y] = task[y]
    BY <1>3, GoTo
  <1>8. Sound(task[x])'
    BY <1>1, <1>2, <1>4, <1>5, <1>7 DEF Sound, Pending, rows, authors
  <1>9. Pending(task'[x]) => Pending(task[x])
    BY <1>1, <1>7 DEF Pending
  <1> QED BY <1>1, <1>2, <1>3, <1>4, <1>7, <1>8, <1>9, RegistryStep

LEMMA IssueCertificateSound ==
    ASSUME IInv, NEW x \in Tasks, IssueCertificate(x)
    PROVE  IInv'
  <1> DEFINE a == task[x].author
             s == CASE task[x].kind = "approve" -> "profile"
                    [] task[x].kind = "onboard" -> "insert"
                    [] task[x].kind = "rotate" -> "store"
  <1>1. /\ task[x] \in Task /\ Sound(task[x]) /\ task[x].step = "certificate"
        /\ a \in Authors /\ task[x].key \in AllKeys /\ registry[a] \in Registered
    BY AtAuthor DEF IssueCertificate, Steps
  <1>2. PICK barred \in SUBSET registry[a].revoked :
          registry' = [registry EXCEPT ![a].certified = @ \cup (registry[a].keys \ barred)]
    BY DEF IssueCertificate
  <1> DEFINE g == [registry[a] EXCEPT !.certified = @ \cup (registry[a].keys \ barred)]
  <1>3. g \in Registered /\ g.keys = registry[a].keys
        /\ g.certified = registry[a].certified \cup (registry[a].keys \ barred)
        /\ g.revoked = registry[a].revoked
    BY <1>1 DEF Registered
  <1>4. task[x].kind \in {"approve", "onboard", "rotate"}
    BY <1>1 DEF Sound
  <1>5. task[x] # None /\ s \in Steps /\ Goto(x, s)
    BY <1>4 DEF IssueCertificate, At, Steps
  <1>6. registry' = [registry EXCEPT ![a] = g] /\ UNCHANGED <<rows, authors, raced, changes>>
    BY <1>2 DEF IssueCertificate
  <1> HIDE DEF g
  <1>7. registry'[a] = g /\ g # None
    BY <1>1, <1>3, <1>6 DEF IInv, TypeOK, NoneIsNothing
  <1>8. /\ task[x].kind = "approve" => s = "profile"
        /\ task[x].kind = "onboard" => s = "insert"
        /\ task[x].kind = "rotate" => s = "store"
    OBVIOUS
  <1> HIDE DEF s
  <1>9. /\ task' \in [Tasks -> Task \cup {None}]
        /\ task'[x] \in Task /\ task'[x].step = s
        /\ task'[x].kind = task[x].kind /\ task'[x].request = task[x].request
        /\ task'[x].content = task[x].content /\ task'[x].author = task[x].author
        /\ task'[x].key = task[x].key
        /\ \A y \in Tasks : y # x => task'[y] = task[y]
    BY <1>5, GoTo
  <1>10. task[x].key \in g.certified \cup g.revoked
    BY <1>1, <1>2, <1>3 DEF Sound
  <1>11. Sound(task[x])'
    BY <1>1, <1>4, <1>6, <1>7, <1>8, <1>9, <1>10 DEF Sound, Pending, rows, authors
  <1>12. Pending(task'[x]) => Pending(task[x])
    BY <1>1, <1>9 DEF Pending
  <1> QED BY <1>1, <1>3, <1>5, <1>6, <1>9, <1>11, <1>12, RegistryStep

-----------------------------------------------------------------------------
(* What Core stores of an author, and the end of a task *)

LEMMA StoreProfileSound ==
    ASSUME IInv, NEW x \in Tasks, StoreProfile(x)
    PROVE  IInv'
  <1> DEFINE a == task[x].author
             p == [request |-> task[x].request, content |-> task[x].content, key |-> task[x].key]
  <1> USE DEF rows
  <1>1. /\ task[x] \in Task /\ Sound(task[x]) /\ task[x].step = "profile"
        /\ a \in Authors /\ task[x].key \in AllKeys /\ registry[a] # None
    BY AtAuthor DEF StoreProfile, Steps, NoneIsNothing
  <1>2. /\ task[x].kind = "approve" /\ Pending(task[x]) /\ profile[a] = None
        /\ task[x].request \in Requests /\ task[x].content \in Content
        /\ task[x].key \in registry[a].certified \cup registry[a].revoked
    BY <1>1, TaskFields DEF Sound, Pending, Reviews
  <1>3. p \in Profile /\ p.request = task[x].request /\ p.key = task[x].key /\ p # None
    BY <1>1, <1>2 DEF Profile, NoneIsNothing
  <1>4. /\ profile' = [profile EXCEPT ![a] = p]
        /\ onboarded' = [onboarded EXCEPT ![a] = p.key]
        /\ signing' = [signing EXCEPT ![p.key] = a]
        /\ task[x] # None /\ Goto(x, "update")
        /\ UNCHANGED <<content, status, author, registry, raced, changes>>
    BY <1>3 DEF StoreProfile, At
  <1> HIDE DEF p
  <1>5. /\ task' \in [Tasks -> Task \cup {None}]
        /\ task'[x] \in Task /\ task'[x].step = "update"
        /\ task'[x].kind = task[x].kind /\ task'[x].request = task[x].request
        /\ task'[x].content = task[x].content /\ task'[x].author = task[x].author
        /\ task'[x].key = task[x].key
        /\ \A y \in Tasks : y # x => task'[y] = task[y]
    BY <1>4, GoTo DEF Steps
  <1>6. TypeOK'
    BY <1>1, <1>3, <1>4, <1>5 DEF IInv, TypeOK
  <1>7. /\ profile'[a] = p /\ onboarded'[a] = p.key
        /\ \A b \in Authors : b # a => profile'[b] = profile[b] /\ onboarded'[b] = onboarded[b]
    BY <1>1, <1>4 DEF IInv, TypeOK
  <1>8. Grows
    BY <1>2, <1>4, <1>7 DEF Grows
  <1>9. Sound(task[x])'
    BY <1>1, <1>2, <1>3, <1>4, <1>5, <1>7 DEF Sound, Pending, Made, Reviews
  <1>10. ~Pending(task'[x])
    BY <1>5 DEF Pending
  <1>11. TasksSound' /\ Apart'
    BY <1>2, <1>4, <1>5, <1>7, <1>8, <1>9, <1>10, TaskStep
  <1>12. RowsSound'
    BY <1>4, <1>8, RowsKept
  <1>13. AuthorsKnown' /\ LocalWasCertified'
    BY <1>1, <1>2, <1>3, <1>4, <1>7 DEF IInv, AuthorsKnown, LocalWasCertified
  <1> QED BY <1>6, <1>11, <1>12, <1>13 DEF IInv

LEMMA EndTask ==
    ASSUME IInv, NEW x \in Tasks, End(x), Grows, profile' = profile
    PROVE  /\ task' \in [Tasks -> Task \cup {None}] /\ task'[x] = None
           /\ \A y \in Tasks : y # x => task'[y] = task[y]
           /\ TasksSound' /\ Apart'
  <1>1. /\ task' \in [Tasks -> Task \cup {None}] /\ task'[x] = None
        /\ \A y \in Tasks : y # x => task'[y] = task[y]
    BY DEF End, IInv, TypeOK
  <1> QED BY <1>1, TaskStep

LEMMA UpdateRequestSound ==
    ASSUME IInv, NEW x \in Tasks, UpdateRequest(x)
    PROVE  IInv'
  <1> DEFINE r == task[x].request
             a == IF task[x].author # None THEN task[x].author ELSE author[r]
  <1> USE DEF authors
  <1>1. task[x] \in Task /\ task[x] # None /\ Sound(task[x]) /\ task[x].step = "update"
    BY DEF UpdateRequest, At, IInv, TypeOK, TasksSound
  <1>2. task[x].kind \in {"submit"} \cup Reviews /\ r \in Requests /\ content[r] # None
    BY <1>1, TaskFields DEF Sound
  <1>3. Target[task[x].kind] \in Statuses
    BY <1>2 DEF Target, Statuses, Reviews
  <1>4. a \in Authors \cup {None}
    BY <1>1, <1>2, TaskFields DEF IInv, TypeOK
  <1>5. a # None => Made(r, a)
    BY <1>1, <1>2 DEF Sound, IInv, RowsSound
  <1>6. Target[task[x].kind] = "approved" => a # None
    BY <1>1, <1>2 DEF Sound, Target, Reviews
  <1>7. /\ status' = [status EXCEPT ![r] = Target[task[x].kind]]
        /\ author' = [author EXCEPT ![r] = a]
        /\ End(x) /\ UNCHANGED <<content, profile, signing, onboarded, registry, raced, changes>>
    BY DEF UpdateRequest
  <1> HIDE DEF a
  <1>8. Grows
    BY <1>7, StillGrows
  <1>9. task' \in [Tasks -> Task \cup {None}] /\ TasksSound' /\ Apart'
    BY <1>7, <1>8, EndTask
  <1>10. TypeOK'
    BY <1>2, <1>3, <1>4, <1>7, <1>9 DEF IInv, TypeOK
  <1>11. RowsSound'
    <2>1. Target[task[x].kind] # None
      BY <1>3 DEF NoneIsNothing
    <2>2. \A o \in Requests : /\ status'[o] = IF o = r THEN Target[task[x].kind] ELSE status[o]
                              /\ author'[o] = IF o = r THEN a ELSE author[o]
      BY <1>2, <1>7 DEF IInv, TypeOK
    <2>3. \A o \in Requests, b \in Authors : Made(o, b)' <=> Made(o, b)
      BY <1>7 DEF Made
    <2>4. ASSUME NEW o \in Requests
          PROVE  author'[o] # None => Made(o, author[o])'
      <3>1. author'[o] \in Authors \cup {None}
        BY <1>10 DEF TypeOK
      <3>2. author'[o] # None => Made(o, author'[o])
        BY <1>5, <2>2 DEF IInv, RowsSound
      <3> QED BY <1>7, <3>1, <3>2 DEF Made
    <2> QED BY <1>2, <1>6, <1>7, <2>1, <2>2, <2>4 DEF IInv, RowsSound
  <1>12. AuthorsKnown' /\ LocalWasCertified'
    BY <1>7, <1>8, AuthorsKept
  <1> QED BY <1>9, <1>10, <1>11, <1>12 DEF IInv

(* An onboarding and a rotation store a certified key. *)
LEMMA StoreKeySound ==
    ASSUME IInv, NEW x \in Tasks, InsertOnboarding(x) \/ StoreRotation(x)
    PROVE  IInv'
  <1> DEFINE a == task[x].author
  <1>1. /\ a \in Authors /\ task[x].key \in AllKeys /\ registry[a] # None
        /\ task[x].key \in registry[a].certified \cup registry[a].revoked
    <2>1. CASE InsertOnboarding(x)
      BY <2>1, AtAuthor DEF InsertOnboarding, Steps, Sound
    <2>2. CASE StoreRotation(x)
      BY <2>2, AtAuthor DEF StoreRotation, Steps, Sound
    <2> QED BY <2>1, <2>2
  <1>2. /\ onboarded' = [onboarded EXCEPT ![a] = task[x].key] /\ End(x)
        /\ UNCHANGED <<content, status, author, profile, signing, registry, raced, changes>>
    BY DEF InsertOnboarding, StoreRotation, rows
  <1>3. Grows
    BY <1>2, StillGrows
  <1>4. task' \in [Tasks -> Task \cup {None}] /\ TasksSound' /\ Apart'
    BY <1>2, <1>3, EndTask
  <1>5. TypeOK'
    BY <1>1, <1>2, <1>4 DEF IInv, TypeOK
  <1>6. RowsSound'
    BY <1>2, <1>3, RowsKept
  <1>7. AuthorsKnown' /\ LocalWasCertified'
    BY <1>1, <1>2 DEF IInv, TypeOK, AuthorsKnown, LocalWasCertified
  <1> QED BY <1>4, <1>5, <1>6, <1>7 DEF IInv

LEMMA TaskFailsSound ==
    ASSUME IInv, NEW x \in Tasks, TaskFails(x)
    PROVE  IInv'
  <1>1. End(x) /\ UNCHANGED <<content, status, author, profile, signing, onboarded, registry,
                              raced, changes>>
    BY DEF TaskFails, rows, authors
  <1>2. Grows
    BY <1>1, StillGrows
  <1>3. task' \in [Tasks -> Task \cup {None}] /\ TasksSound' /\ Apart'
    BY <1>1, <1>2, EndTask
  <1>4. TypeOK'
    BY <1>1, <1>3 DEF IInv, TypeOK
  <1>5. RowsSound' /\ AuthorsKnown' /\ LocalWasCertified'
    BY <1>1, <1>2, RowsKept, AuthorsKept
  <1> QED BY <1>3, <1>4, <1>5 DEF IInv

(* Operators of the registry. *)
LEMMA OperatorSound ==
    ASSUME IInv, NEW a \in Authors,
           \/ \E s \in {"active", "suspended"} : UpdateRegistryAuthor(a, s)
           \/ \E k \in AllKeys : RevokeKey(a, k)
    PROVE  IInv'
  <1>1. registry[a] \in Registered /\ changes' \in 0..MaxChanges
        /\ UNCHANGED <<content, status, author, profile, signing, onboarded, task, raced>>
    BY DEF UpdateRegistryAuthor, RevokeKey, Change, rows, authors, IInv, TypeOK,
           ContentsAssumption
  <1>2. PICK g \in Registered :
          /\ registry' = [registry EXCEPT ![a] = g]
          /\ registry[a].keys \subseteq g.keys
          /\ registry[a].certified \cup registry[a].revoked \subseteq g.certified \cup g.revoked
    <2>1. ASSUME NEW s \in {"active", "suspended"}, UpdateRegistryAuthor(a, s)
          PROVE  \E g \in Registered :
                   /\ registry' = [registry EXCEPT ![a] = g]
                   /\ registry[a].keys \subseteq g.keys
                   /\ registry[a].certified \cup registry[a].revoked
                        \subseteq g.certified \cup g.revoked
      <3> DEFINE g == [registry[a] EXCEPT !.status = s]
      <3>1. g \in Registered /\ g.keys = registry[a].keys
            /\ g.certified = registry[a].certified /\ g.revoked = registry[a].revoked
        BY <1>1 DEF Registered, RegistryStatuses
      <3>2. registry' = [registry EXCEPT ![a] = g]
        BY <2>1 DEF UpdateRegistryAuthor
      <3> QED BY <3>1, <3>2
    <2>2. ASSUME NEW k \in AllKeys, RevokeKey(a, k)
          PROVE  \E g \in Registered :
                   /\ registry' = [registry EXCEPT ![a] = g]
                   /\ registry[a].keys \subseteq g.keys
                   /\ registry[a].certified \cup registry[a].revoked
                        \subseteq g.certified \cup g.revoked
      <3> DEFINE g == [registry[a] EXCEPT !.revoked = @ \cup {k}]
      <3>1. g \in Registered /\ g.keys = registry[a].keys
            /\ g.certified = registry[a].certified /\ g.revoked = registry[a].revoked \cup {k}
        BY <1>1 DEF Registered
      <3>2. registry' = [registry EXCEPT ![a] = g]
        BY <2>2 DEF RevokeKey
      <3> QED BY <3>1, <3>2
    <2> QED BY <2>1, <2>2
  <1>3. \A b \in Authors : registry'[b] = IF b = a THEN g ELSE registry[b]
    BY <1>2 DEF IInv, TypeOK
  <1>4. Grows
    BY <1>1, <1>2, <1>3 DEF Grows, NoneIsNothing
  <1>5. TypeOK'
    BY <1>1, <1>2 DEF IInv, TypeOK
  <1>6. TasksSound' /\ Apart'
    <2>1. \A y \in Tasks : task[y] # None => Sound(task[y])'
      BY <1>1, <1>4, SoundKept
    <2> QED BY <1>1, <2>1 DEF TasksSound, Apart, Pending, IInv
  <1>7. RowsSound' /\ AuthorsKnown' /\ LocalWasCertified'
    BY <1>1, <1>4, RowsKept, AuthorsKept
  <1> QED BY <1>5, <1>6, <1>7 DEF IInv

LEMMA StutterSound ==
    ASSUME IInv, UNCHANGED vars
    PROVE  IInv'
  <1>1. UNCHANGED <<content, status, author, profile, signing, onboarded, registry, task, raced,
                    changes>>
    BY DEF vars
  <1>2. Grows
    BY <1>1, StillGrows
  <1>3. TypeOK'
    BY <1>1 DEF IInv, TypeOK
  <1>4. TasksSound' /\ Apart'
    <2>1. \A y \in Tasks : task[y] # None => Sound(task[y])'
      BY <1>1, <1>2, SoundKept
    <2> QED BY <1>1, <2>1 DEF TasksSound, Apart, Pending, IInv
  <1>5. RowsSound' /\ AuthorsKnown' /\ LocalWasCertified'
    BY <1>1, <1>2, RowsKept, AuthorsKept
  <1> QED BY <1>3, <1>4, <1>5 DEF IInv

-----------------------------------------------------------------------------
LEMMA IInvInit == Init => IInv
  <1> SUFFICES ASSUME Init PROVE IInv
    OBVIOUS
  <1>1. TypeOK
    BY DEF Init, TypeOK, ContentsAssumption
  <1>2. None # "approved"
    BY DEF NoneIsNothing, Statuses
  <1> QED BY <1>1, <1>2 DEF Init, IInv, TasksSound, Apart, RowsSound, AuthorsKnown,
                            LocalWasCertified

LEMMA IInvStep ==
    ASSUME IInv, [Next]_vars
    PROVE  IInv'
  <1>1. ASSUME NEW r \in Requests, NEW c \in Contents, CreateRequest(r, c) \/ EditRequest(r, c)
        PROVE  IInv'
    BY <1>1, CreateRequestSound, EditRequestSound
  <1>2. ASSUME NEW x \in Tasks, NEW r \in Requests,
               StartSubmit(x, r) \/ \E action \in Reviews : StartReview(x, r, action)
        PROVE  IInv'
    BY <1>2, StartSubmitSound, StartReviewSound
  <1>3. ASSUME NEW x \in Tasks, NEW k \in Keys,
               StartOnboard(x, k) \/ \E a \in Authors : StartRotate(x, a, k)
        PROVE  IInv'
    BY <1>3, StartOnboardSound, StartRotateSound
  <1>4. ASSUME NEW x \in Tasks,
               \/ \E a \in Authors : RegisterAuthor(x, a)
               \/ PostKeys(x) \/ ActivateAuthor(x) \/ IssueCertificate(x)
        PROVE  IInv'
    BY <1>4, RegisterAuthorSound, PostKeysSound, ActivateAuthorSound, IssueCertificateSound
  <1>5. ASSUME NEW x \in Tasks,
               \/ StoreProfile(x) \/ UpdateRequest(x)
               \/ InsertOnboarding(x) \/ StoreRotation(x) \/ TaskFails(x)
        PROVE  IInv'
    BY <1>5, StoreProfileSound, UpdateRequestSound, StoreKeySound, TaskFailsSound
  <1>6. ASSUME NEW a \in Authors,
               \/ \E s \in {"active", "suspended"} : UpdateRegistryAuthor(a, s)
               \/ \E k \in AllKeys : RevokeKey(a, k)
        PROVE  IInv'
    BY <1>6, OperatorSound
  <1>7. CASE RequestStep
    BY <1>1, <1>2, <1>5, <1>7 DEF RequestStep
  <1>8. CASE RegistrationStep
    BY <1>4, <1>5, <1>8 DEF RegistrationStep
  <1>9. CASE OperatorStep
    BY <1>3, <1>5, <1>6, <1>9 DEF OperatorStep
  <1> QED BY <1>5, <1>7, <1>8, <1>9, StutterSound DEF Next

LEMMA IInvAlways == Spec => []IInv
  <1>1. Init => IInv
    BY IInvInit
  <1>2. IInv /\ [Next]_vars => IInv'
    BY IInvStep
  <1> QED BY <1>1, <1>2, PTL DEF Spec

(* Whatever overlaps and fails: an approved request has an author, whose   *)
(* profile was made for it and whom the registry has registered.           *)
THEOREM ApprovalsHaveAuthors == Spec => []ApprovedHasAuthor
  <1>1. IInv => ApprovedHasAuthor
    BY DEF IInv, RowsSound, Made, ApprovedHasAuthor
  <1> QED BY <1>1, IInvAlways, PTL

THEOREM LocalKeysWereCertified == Spec => []LocalWasCertified
  <1>1. IInv => LocalWasCertified
    BY DEF IInv
  <1> QED BY <1>1, IInvAlways, PTL


-----------------------------------------------------------------------------
(* Requests of which no two changes overlap *)

Under(x, r) == task[x] # None /\ task[x].request = r

Before ==
    [submit |-> {"draft", "needs_changes"}, start_review |-> {"submitted"},
     request_changes |-> {"pending_review"}, approve |-> {"pending_review"},
     reject |-> {"pending_review"}]

Calm(r) ==
    /\ \A x, y \in Tasks : Under(x, r) /\ Under(y, r) => x = y
    /\ status[r] \in {"submitted", "pending_review", "approved"} => content[r].terms
    /\ author[r] # None => status[r] = "approved"
    /\ status[r] = "approved" => profile[author[r]].content = content[r]
    /\ \A x \in Tasks : Under(x, r) =>
         /\ status[r] \in Before[task[x].kind]
         /\ task[x].kind = "submit" => content[r].terms
         /\ task[x].kind # "approve" => task[x].author = None
         /\ task[x].kind = "approve" => task[x].content = content[r]
         /\ task[x].kind = "approve" /\ task[x].step = "update" =>
              profile[task[x].author].content = content[r]

AllCalm == \A r \in Requests \ raced : Calm(r)

LEMMA UnderTask ==
    ASSUME IInv, NEW r \in Requests, NEW x \in Tasks, Under(x, r)
    PROVE  /\ task[x] \in Task /\ Sound(task[x])
           /\ task[x].kind \in {"submit"} \cup Reviews /\ content[r] # None
  <1>1. task[x] \in Task /\ Sound(task[x])
    BY DEF Under, IInv, TypeOK, TasksSound
  <1>2. task[x].request = r /\ r # None
    BY DEF Under, NoneIsNothing
  <1>3. task[x].kind \in Kinds /\ task[x].step \in Steps
    BY <1>1, TaskFields
  <1>4. task[x].kind \in {"submit"} \cup Reviews
    BY <1>1, <1>2, <1>3 DEF Sound, Kinds, Reviews
  <1> QED BY <1>1, <1>2, <1>4 DEF Sound

(* What a task may do to itself without disturbing its request. *)
Goes(y) ==
    /\ task[y] # None
    /\ task'[y].request = task[y].request /\ task'[y].kind = task[y].kind
    /\ task'[y].content = task[y].content
    /\ task[y].kind # "approve" => task'[y].author = task[y].author
    /\ task[y].kind = "approve" /\ task'[y].step = "update" =>
         \/ task[y].step = "update" /\ task'[y].author = task[y].author
         \/ profile'[task'[y].author].content = task[y].content

LEMMA CalmKept ==
    ASSUME IInv,
           \A a \in Authors : profile[a] # None => profile'[a] = profile[a],
           NEW r \in Requests, Calm(r),
           content'[r] = content[r], status'[r] = status[r], author'[r] = author[r],
           \A y \in Tasks : Under(y, r)' => Goes(y)
    PROVE  Calm(r)'
  <1>1. \A y \in Tasks : Under(y, r)' => Under(y, r)
    BY DEF Under, Goes
  <1>2. status[r] = "approved" => profile'[author[r]].content = content[r]
    BY DEF Calm, IInv, RowsSound, Made, TypeOK
  <1>3. ASSUME NEW y \in Tasks, Under(y, r)'
        PROVE  /\ status[r] \in Before[task'[y].kind]
               /\ task'[y].kind = "submit" => content[r].terms
               /\ task'[y].kind # "approve" => task'[y].author = None
               /\ task'[y].kind = "approve" => task'[y].content = content[r]
               /\ task'[y].kind = "approve" /\ task'[y].step = "update" =>
                    profile'[task'[y].author].content = content[r]
    <2>1. Under(y, r) /\ Goes(y)
      BY <1>1, <1>3
    <2>2. task[y].step = "update" /\ task[y].kind = "approve" =>
            /\ profile[task[y].author].content = content[r]
            /\ profile'[task[y].author] = profile[task[y].author]
      <3>1. task[y] \in Task /\ Sound(task[y])
        BY <2>1, UnderTask
      <3> QED BY <2>1, <3>1, TaskFields DEF Calm, Sound, Made
    <2> QED BY <2>1, <2>2 DEF Calm, Goes
  <1> QED BY <1>1, <1>2, <1>3 DEF Calm, Under

LEMMA CreateCalm ==
    ASSUME IInv, IInv', NEW o \in Requests, NEW c \in Contents,
           CreateRequest(o, c), NEW r \in Requests, Calm(r)
    PROVE  Calm(r)'
  <1> USE DEF CreateRequest, authors
  <1>1. CASE r # o
    <2>1. content'[r] = content[r] /\ status'[r] = status[r] /\ author'[r] = author[r]
      BY <1>1 DEF IInv, TypeOK
    <2>2. \A y \in Tasks : Under(y, r)' => Goes(y)
      BY DEF Under, Goes
    <2> QED BY <2>1, <2>2, CalmKept
  <1>2. CASE r = o
    <2>1. \A y \in Tasks : ~Under(y, r)
      BY <1>2, UnderTask
    <2>2. content[r] = None /\ status[r] = None
      BY <1>2 DEF IInv, RowsSound
    <2>3. author[r] = None
      BY <2>2 DEF Calm, NoneIsNothing, Statuses
    <2>4. status'[r] = "draft" /\ author'[r] = None
      BY <1>2, <2>3 DEF IInv, TypeOK
    <2> QED BY <2>1, <2>4 DEF Calm, Under
  <1> QED BY <1>1, <1>2

LEMMA EditCalm ==
    ASSUME IInv, IInv', NEW o \in Requests, NEW c \in Contents,
           EditRequest(o, c), NEW r \in Requests, r \notin raced', Calm(r)
    PROVE  Calm(r)'
  <1> USE DEF EditRequest, authors
  <1>1. CASE r # o
    <2>1. content'[r] = content[r] /\ status'[r] = status[r] /\ author'[r] = author[r]
      BY <1>1 DEF IInv, TypeOK
    <2>2. \A y \in Tasks : Under(y, r)' => Goes(y)
      BY DEF Under, Goes
    <2> QED BY <2>1, <2>2, CalmKept
  <1>2. CASE r = o
    <2>1. \A y \in Tasks : Under(y, r) => task[y].kind # "submit"
      BY <1>2 DEF Under
    <2>2. \A y \in Tasks : ~Under(y, r)
      <3>1. status[r] \in Editable
        BY <1>2
      <3> QED BY <2>1, <3>1, UnderTask DEF Calm, Before, Reviews, Editable
    <2>3. status[r] # "approved" /\ status'[r] = status[r] /\ author'[r] = author[r]
          /\ status[r] \notin {"submitted", "pending_review"}
      BY <1>2 DEF Editable
    <2> QED BY <2>2, <2>3 DEF Calm, Under
  <1> QED BY <1>1, <1>2

(* A task that begins on a calm request is the only one on it, and begins  *)
(* in a status that it may change.                                         *)
LEMMA BeginCalm ==
    ASSUME IInv, IInv', NEW x \in Tasks, NEW t \in Task, Begin(x, t),
           NEW r \in Requests, r \notin raced', Calm(r),
           t.request = r =>
             /\ status[r] \in Before[t.kind]
             /\ t.kind = "submit" => content[r].terms
             /\ t.kind # "approve" => t.author = None
             /\ t.kind = "approve" => t.step = "register" /\ t.content = content[r]
    PROVE  Calm(r)'
  <1> USE DEF Begin, rows, authors
  <1>1. task'[x] = t /\ \A y \in Tasks : y # x => task'[y] = task[y]
    BY DEF IInv, TypeOK
  <1>2. content' = content /\ status' = status /\ author' = author /\ profile' = profile
        /\ registry' = registry
    OBVIOUS
  <1>3. CASE t.request # r
    <2>1. \A y \in Tasks : Under(y, r)' => Goes(y)
      BY <1>1, <1>3 DEF Under, Goes
    <2> QED BY <1>2, <2>1, CalmKept
  <1>4. CASE t.request = r
    <2>1. \A y \in Tasks : ~Under(y, r)
      BY <1>4 DEF Under, NoneIsNothing
    <2>2. \A y \in Tasks : Under(y, r)' => y = x
      BY <1>1, <2>1 DEF Under
    <2> QED BY <1>1, <1>2, <1>4, <2>2 DEF Calm, Under
  <1> QED BY <1>3, <1>4

LEMMA SubmitCalm ==
    ASSUME IInv, IInv', NEW x \in Tasks, NEW o \in Requests,
           StartSubmit(x, o), NEW r \in Requests, r \notin raced', Calm(r)
    PROVE  Calm(r)'
  <1> DEFINE t == [kind |-> "submit", step |-> "update", request |-> o,
                   content |-> content[o], author |-> None, key |-> None]
  <1>1. content[o] \in Content /\ content[o].terms /\ status[o] \in Statuses
    BY DEF StartSubmit, IInv, TypeOK, RowsSound
  <1>2. t \in Task /\ Begin(x, t)
    BY <1>1 DEF StartSubmit, Task, Kinds, Steps
  <1>3. status[o] \in Before["submit"]
    BY <1>1 DEF StartSubmit, Target, RequestTransitions, Statuses, Before
  <1> QED BY <1>1, <1>2, <1>3, BeginCalm

LEMMA ReviewCalm ==
    ASSUME IInv, IInv', NEW x \in Tasks, NEW o \in Requests,
           NEW action \in Reviews, StartReview(x, o, action),
           NEW r \in Requests, r \notin raced', Calm(r)
    PROVE  Calm(r)'
  <1> DEFINE step == IF Registers(o, action) THEN "register" ELSE "update"
             key == IF content[o].mode = "talpaversum_hosted" THEN None ELSE content[o].key
             t == [kind |-> action, step |-> step, request |-> o, content |-> content[o],
                   author |-> author[o], key |-> key]
  <1>1. content[o] \in Content /\ status[o] \in Statuses /\ author[o] \in Authors \cup {None}
    BY DEF StartReview, IInv, TypeOK, RowsSound
  <1>2. t \in Task
    <2>1. key \in AllKeys \cup {None}
      BY <1>1 DEF Content, AllKeys
    <2>2. action \in Kinds /\ step \in Steps
      BY DEF Reviews, Kinds, Steps
    <2> HIDE DEF key, step
    <2> QED BY <1>1, <2>1, <2>2 DEF Task
  <1>3. Begin(x, t)
    BY DEF StartReview
  <1>4. status[o] \in Before[action] /\ status[o] # "approved"
    BY <1>1 DEF StartReview, Target, RequestTransitions, Statuses, Before, Reviews
  <1>5. o = r => author[o] = None
    BY <1>4 DEF Calm
  <1>6. o = r /\ action = "approve" => step = "register"
    BY <1>5 DEF Registers
  <1>7. t.request = o /\ t.kind = action /\ t.step = step /\ t.author = author[o]
        /\ t.content = content[o] /\ action # "submit"
    BY DEF Reviews
  <1> HIDE DEF t, step
  <1> QED BY <1>2, <1>3, <1>4, <1>5, <1>6, <1>7, BeginCalm

LEMMA OperatorBeginCalm ==
    ASSUME IInv, IInv', NEW x \in Tasks, NEW k \in Keys,
           StartOnboard(x, k) \/ \E a \in Authors : StartRotate(x, a, k),
           NEW r \in Requests, r \notin raced', Calm(r)
    PROVE  Calm(r)'
  <1>1. r # None
    BY DEF NoneIsNothing
  <1>2. CASE StartOnboard(x, k)
    <2> DEFINE t == [kind |-> "onboard", step |-> "register", request |-> None,
                     content |-> None, author |-> None, key |-> k]
    <2>1. t \in Task /\ Begin(x, t)
      BY <1>2 DEF StartOnboard, Task, Kinds, Steps, AllKeys
    <2> QED BY <1>1, <2>1, BeginCalm
  <1>3. ASSUME NEW a \in Authors, StartRotate(x, a, k)
        PROVE  Calm(r)'
    <2> DEFINE t == [kind |-> "rotate", step |-> "keys", request |-> None,
                     content |-> None, author |-> a, key |-> k]
    <2>1. t \in Task /\ Begin(x, t)
      BY <1>3 DEF StartRotate, Task, Kinds, Steps, AllKeys
    <2> QED BY <1>1, <2>1, BeginCalm
  <1> QED BY <1>2, <1>3

(* Tasks that go on, or end without a word to their request. *)

LEMMA RegisterCalm ==
    ASSUME IInv, IInv', NEW x \in Tasks, NEW a \in Authors,
           RegisterAuthor(x, a), NEW r \in Requests, Calm(r)
    PROVE  Calm(r)'
  <1> USE DEF RegisterAuthor, rows, authors
  <1> DEFINE k == IF task[x].key = None THEN a ELSE task[x].key
             t == [task[x] EXCEPT !.step = "keys", !.author = a, !.key = k]
  <1>1. task[x] \in Task /\ task[x] # None /\ Sound(task[x]) /\ task[x].step = "register"
    BY DEF At, IInv, TypeOK, TasksSound
  <1>2. task'[x] = t /\ \A y \in Tasks : y # x => task'[y] = task[y]
    BY DEF IInv, TypeOK
  <1> HIDE DEF k
  <1>3. /\ t.request = task[x].request /\ t.kind = task[x].kind /\ t.content = task[x].content
        /\ t.step = "keys"
    BY <1>1 DEF Task
  <1>4. ASSUME NEW y \in Tasks, Under(y, r)'
        PROVE  Goes(y)
    <2>1. CASE y # x
      BY <1>2, <1>4, <2>1 DEF Under, Goes
    <2>2. CASE y = x
      <3>1. Under(x, r)
        BY <1>1, <1>2, <1>3, <1>4, <2>2 DEF Under
      <3>2. task[x].kind = "approve"
        BY <1>1, <3>1, UnderTask DEF Sound, Reviews
      <3> QED BY <1>1, <1>2, <1>3, <2>2, <3>2 DEF Goes
    <2> QED BY <2>1, <2>2
  <1> QED BY <1>4, CalmKept

LEMMA GoesCalm ==
    ASSUME IInv, IInv', NEW x \in Tasks, NEW s \in Steps,
           task[x] # None, Goto(x, s), profile' = profile, s # "update",
           UNCHANGED rows, NEW r \in Requests, Calm(r)
    PROVE  Calm(r)'
  <1>1. \A y \in Tasks : Under(y, r)' => Goes(y)
    BY GoTo DEF Under, Goes
  <1> QED BY <1>1, CalmKept DEF rows

LEMMA RegistryCalm ==
    ASSUME IInv, IInv', NEW x \in Tasks,
           PostKeys(x) \/ ActivateAuthor(x) \/ IssueCertificate(x),
           NEW r \in Requests, Calm(r)
    PROVE  Calm(r)'
  <1>1. /\ task[x] # None /\ profile' = profile /\ UNCHANGED rows
        /\ \E s \in Steps \ {"update"} : Goto(x, s)
    <2>1. CASE PostKeys(x)
      BY <2>1 DEF PostKeys, At, authors, Steps
    <2>2. CASE ActivateAuthor(x)
      BY <2>2 DEF ActivateAuthor, At, authors, Steps
    <2>3. CASE IssueCertificate(x)
      <3>1. Sound(task[x]) /\ task[x].step = "certificate"
        BY <2>3, AtAuthor DEF IssueCertificate, Steps
      <3>2. task[x].kind \in {"approve", "onboard", "rotate"}
        BY <3>1 DEF Sound
      <3> QED BY <2>3, <3>2 DEF IssueCertificate, At, authors, Steps
    <2> QED BY <2>1, <2>2, <2>3
  <1> QED BY <1>1, GoesCalm

LEMMA StoreProfileCalm ==
    ASSUME IInv, IInv', NEW x \in Tasks, StoreProfile(x),
           NEW r \in Requests, Calm(r)
    PROVE  Calm(r)'
  <1> DEFINE a == task[x].author
  <1>1. /\ task[x] \in Task /\ Sound(task[x]) /\ task[x].step = "profile" /\ a \in Authors
    BY AtAuthor DEF StoreProfile, Steps
  <1>2. profile[a] = None
    BY <1>1 DEF Sound, Pending
  <1>3. /\ profile'[a].content = task[x].content
        /\ \A b \in Authors : b # a => profile'[b] = profile[b]
    BY <1>1 DEF StoreProfile, IInv, TypeOK
  <1>4. /\ task'[x].kind = task[x].kind /\ task'[x].request = task[x].request
        /\ task'[x].content = task[x].content /\ task'[x].author = a
        /\ \A y \in Tasks : y # x => task'[y] = task[y]
    BY GoTo DEF StoreProfile, At, Steps
  <1>5. \A y \in Tasks : Under(y, r)' => Goes(y)
    BY <1>1, <1>3, <1>4 DEF Under, Goes, StoreProfile, At
  <1> QED BY <1>2, <1>3, <1>5, CalmKept DEF StoreProfile, rows

LEMMA EndCalm ==
    ASSUME IInv, IInv', NEW x \in Tasks, End(x), profile' = profile,
           NEW r \in Requests, Calm(r),
           content'[r] = content[r], status'[r] = status[r], author'[r] = author[r]
    PROVE  Calm(r)'
  <1>1. task'[x] = None /\ \A y \in Tasks : y # x => task'[y] = task[y]
    BY DEF End, IInv, TypeOK
  <1>2. \A y \in Tasks : Under(y, r)' => Goes(y)
    BY <1>1 DEF Under, Goes
  <1> QED BY <1>2, CalmKept

(* A task writes its status as the only one on its request. *)
LEMMA UpdateCalm ==
    ASSUME IInv, IInv', NEW x \in Tasks, UpdateRequest(x),
           NEW r \in Requests, Calm(r)
    PROVE  Calm(r)'
  <1> DEFINE o == task[x].request
  <1> USE DEF UpdateRequest, authors
  <1>1. task[x] \in Task /\ task[x] # None /\ Sound(task[x]) /\ task[x].step = "update"
    BY DEF At, IInv, TypeOK, TasksSound
  <1>2. task[x].kind \in {"submit"} \cup Reviews /\ o \in Requests
    BY <1>1, TaskFields DEF Sound
  <1>3. CASE o # r
    <2>1. content'[r] = content[r] /\ status'[r] = status[r] /\ author'[r] = author[r]
      BY <1>2, <1>3 DEF IInv, TypeOK
    <2> QED BY <2>1, EndCalm
  <1>4. CASE o = r
    <2>1. Under(x, r)
      BY <1>1, <1>4 DEF Under
    <2>2. task'[x] = None /\ \A y \in Tasks : y # x => task'[y] = task[y]
      BY DEF End, IInv, TypeOK
    <2>3. \A y \in Tasks : ~Under(y, r)'
      BY <2>1, <2>2 DEF Calm, Under
    <2>4. /\ status[r] \in Before[task[x].kind] /\ status[r] # "approved"
          /\ task[x].kind \in {"start_review", "approve"} =>
               status[r] \in {"submitted", "pending_review"}
      BY <1>2, <2>1 DEF Calm, Before, Reviews
    <2>5. author[r] = None
      BY <2>4 DEF Calm
    <2>6. /\ status'[r] = Target[task[x].kind]
          /\ author'[r] = task[x].author
      BY <1>2, <1>4, <2>5 DEF IInv, TypeOK
    <2>7. CASE task[x].kind = "approve"
      <3>1. profile[task[x].author].content = content[r] /\ content[r].terms
        BY <1>1, <2>1, <2>4, <2>7 DEF Calm
      <3> QED BY <2>3, <2>6, <2>7, <3>1 DEF Calm, Target
    <2>8. CASE task[x].kind # "approve"
      <3>1. task[x].author = None
        BY <2>1, <2>8 DEF Calm
      <3>2. Target[task[x].kind] # "approved"
        BY <1>2, <2>8 DEF Target, Reviews
      <3>3. status'[r] \in {"submitted", "pending_review"} => content[r].terms
        BY <1>2, <2>1, <2>4, <2>6 DEF Calm, Target, Reviews
      <3> QED BY <2>3, <2>6, <3>1, <3>2, <3>3 DEF Calm
    <2> QED BY <2>7, <2>8
  <1> QED BY <1>3, <1>4

LEMMA CalmStep ==
    ASSUME IInv, IInv', AllCalm, [Next]_vars
    PROVE  AllCalm'
  <1> SUFFICES ASSUME NEW r \in Requests, r \notin raced'
               PROVE  Calm(r)'
    BY DEF AllCalm
  <1>1. r \notin raced
    <2>1. raced \subseteq raced'
      BY DEF Next, RequestStep, RegistrationStep, OperatorStep, CreateRequest, EditRequest,
             StartSubmit, StartReview, Begin, UpdateRequest, RegisterAuthor, PostKeys,
             ActivateAuthor, IssueCertificate, StoreProfile, StartOnboard, StartRotate,
             InsertOnboarding, StoreRotation, UpdateRegistryAuthor, RevokeKey, TaskFails, vars
    <2> QED BY <2>1
  <1>2. Calm(r)
    BY <1>1 DEF AllCalm
  <1>3. ASSUME NEW o \in Requests, NEW c \in Contents, CreateRequest(o, c) \/ EditRequest(o, c)
        PROVE  Calm(r)'
    BY <1>2, <1>3, CreateCalm, EditCalm
  <1>4. ASSUME NEW x \in Tasks, NEW o \in Requests,
               StartSubmit(x, o) \/ \E action \in Reviews : StartReview(x, o, action)
        PROVE  Calm(r)'
    BY <1>2, <1>4, SubmitCalm, ReviewCalm
  <1>5. ASSUME NEW x \in Tasks, NEW k \in Keys,
               StartOnboard(x, k) \/ \E a \in Authors : StartRotate(x, a, k)
        PROVE  Calm(r)'
    BY <1>2, <1>5, OperatorBeginCalm
  <1>6. ASSUME NEW x \in Tasks,
               \/ \E a \in Authors : RegisterAuthor(x, a)
               \/ PostKeys(x) \/ ActivateAuthor(x) \/ IssueCertificate(x) \/ StoreProfile(x)
        PROVE  Calm(r)'
    BY <1>2, <1>6, RegisterCalm, RegistryCalm, StoreProfileCalm
  <1>7. ASSUME NEW x \in Tasks, InsertOnboarding(x) \/ StoreRotation(x) \/ TaskFails(x)
        PROVE  Calm(r)'
    BY <1>2, <1>7, EndCalm DEF InsertOnboarding, StoreRotation, TaskFails, rows, authors
  <1>8. ASSUME NEW x \in Tasks, UpdateRequest(x)
        PROVE  Calm(r)'
    BY <1>2, <1>8, UpdateCalm
  <1>9. ASSUME UNCHANGED <<content, status, author, profile, task>>
        PROVE  Calm(r)'
    <2>1. \A y \in Tasks : Under(y, r)' => Goes(y)
      BY <1>9 DEF Under, Goes
    <2> QED BY <1>2, <1>9, <2>1, CalmKept
  <1>10. CASE RequestStep
    BY <1>3, <1>4, <1>8, <1>10 DEF RequestStep
  <1>11. CASE RegistrationStep
    BY <1>6, <1>11 DEF RegistrationStep
  <1>12. CASE OperatorStep
    BY <1>5, <1>7, <1>9, <1>12 DEF OperatorStep, UpdateRegistryAuthor, RevokeKey, rows, authors
  <1> QED BY <1>7, <1>9, <1>10, <1>11, <1>12 DEF Next, vars

LEMMA CalmAlways == Spec => []AllCalm
  <1>1. Init => AllCalm
    <2>1. None # "approved" /\ None # "submitted" /\ None # "pending_review"
      BY DEF NoneIsNothing, Statuses
    <2> QED BY <2>1 DEF Init, AllCalm, Calm, Under
  <1>2. IInv /\ IInv' /\ AllCalm /\ [Next]_vars => AllCalm'
    BY CalmStep
  <1> QED BY <1>1, <1>2, IInvAlways, PTL DEF Spec

(* Unless two changes of the status, or a submission and an edit, were     *)
(* under way at once: the author of an approved request has accepted the   *)
(* terms, and the profile is of what the request says.                     *)
THEOREM ApprovalsAreAsSubmitted ==
    Spec => []ApprovedAsSubmitted
  <1>1. AllCalm => ApprovedAsSubmitted
    BY DEF AllCalm, Calm, ApprovedAsSubmitted
  <1> QED BY <1>1, CalmAlways, PTL

-----------------------------------------------------------------------------
(* The health of applications. *)
USE MonitoringAssumption DEF Health!HealthAssumption

(* A failure more is still a count. *)
LEMMA BumpTyped ==
    ASSUME NEW n \in 0..CountCap
    PROVE  Health!Bump(n) \in 0..CountCap /\ Health!Bump(n) >= n
  BY DEF Health!Bump

(* The outcome of a check is a state. *)
LEMMA NextTyped ==
    ASSUME NEW h \in Health!Health, NEW answer \in {"healthy", "degraded", "failing"},
           NEW n \in Nat
    PROVE  Health!NextHealth(h, answer, n) \in Health!Health
  <1>1. h.failures \in 0..CountCap /\ h.status \in Health!Statuses
    BY DEF Health!Health
  <1>2. Health!Bump(h.failures) \in 0..CountCap
    BY <1>1, BumpTyped
  <1> QED
    BY <1>1, <1>2 DEF Health!NextHealth, Health!Health, Health!Statuses

(* Writing one task with a phase and a state keeps the tasks typed. *)
LEMMA CheckWritten ==
    ASSUME NEW c \in Health!Checkers, NEW a \in Apps,
           check \in [Health!Checkers -> [Apps -> Health!Task]],
           NEW t \in Health!Task
    PROVE  [check EXCEPT ![c][a] = t] \in [Health!Checkers -> [Apps -> Health!Task]]
  OBVIOUS

LEMMA IdleTyped == Health!IdleTask \in Health!Task /\ Health!Initial \in Health!Health
  BY DEF Health!IdleTask, Health!Task, Health!Phases, Health!Initial, Health!Health,
         Health!Statuses

(* A crash leaves a typed memory. *)
LEMMA CrashTyped ==
    ASSUME Health!TypeOK, Health!Crash
    PROVE  /\ up' \in BOOLEAN /\ mon' \in {"load", "list", "checking", "waiting"}
           /\ check' \in [Health!Checkers -> [Apps -> Health!Task]]
           /\ mem' \in [Apps -> Health!Health]
  BY IdleTyped DEF Health!TypeOK, Health!Crash, Health!AllIdle

LEMMA HealthTypeStep ==
    ASSUME Health!TypeOK, [Health!Next]_(Health!vars)
    PROVE  Health!TypeOK'
  <1> USE DEF Health!TypeOK
  <1>1. ASSUME NEW c \in Health!Checkers, NEW a \in Apps, Health!CheckerStep(c, a)
        PROVE  Health!TypeOK'
    <2>0. check[c][a] \in Health!Task /\ mem[a] \in Health!Health
      OBVIOUS
    <2>1. check[c][a].health \in Health!Health /\ check[c][a].phase \in Health!Phases
      BY <2>0 DEF Health!Task
    <2>2. CASE Health!BeginCheck(c, a)
      <3>1. [phase |-> "fetch", health |-> mem[a]] \in Health!Task
        BY <2>0 DEF Health!Task, Health!Phases
      <3>2. check' \in [Health!Checkers -> [Apps -> Health!Task]]
        BY <3>1, <2>2, CheckWritten DEF Health!BeginCheck
      <3> QED BY <3>2, <2>2 DEF Health!BeginCheck, Health!boundVars
    <2>3. CASE Health!CompleteFetch(c, a)
      <3> DEFINE next == Health!NextHealth(check[c][a].health, answers[a], Health!ThresholdOf(c))
      <3>0. Health!ThresholdOf(c) \in Nat /\ answers[a] \in {"healthy", "degraded", "failing"}
        BY DEF Health!ThresholdOf
      <3>1. next \in Health!Health
        BY <2>1, <3>0, NextTyped
      <3>2. [phase |-> "persist", health |-> next] \in Health!Task
        BY <3>1 DEF Health!Task, Health!Phases
      <3>3. /\ mem' \in [Apps -> Health!Health]
            /\ check' \in [Health!Checkers -> [Apps -> Health!Task]]
        <4> HIDE DEF next
        <4> QED BY <3>1, <3>2, <2>3, CheckWritten DEF Health!CompleteFetch, next
      <3>4. streak' \in [Apps -> 0..CountCap]
        BY <2>3, BumpTyped DEF Health!CompleteFetch
      <3> QED BY <3>3, <3>4, <2>3 DEF Health!CompleteFetch, Health!boundVars
    <2>4. CASE Health!ContainerStops(c, a)
      <3>1. [check[c][a] EXCEPT !.phase = "halted"] \in Health!Task
        BY <2>0 DEF Health!Task, Health!Phases
      <3>2. check' = [check EXCEPT ![c][a] = [check[c][a] EXCEPT !.phase = "halted"]]
        BY <2>4 DEF Health!ContainerStops
      <3> QED BY <3>1, <3>2, <2>4, CheckWritten DEF Health!ContainerStops, Health!boundVars
    <2>5. CASE Health!StopFails(c, a)
      BY <2>5, CheckWritten, IdleTyped DEF Health!StopFails, Health!boundVars
    <2>6. CASE Health!MarkStopped(c, a)
      <3> DEFINE next == [mem[a] EXCEPT !.status = "stopped"]
      <3>1. next \in Health!Health
        BY <2>0 DEF Health!Health, Health!Statuses
      <3>2. [phase |-> "persist", health |-> next] \in Health!Task
        BY <3>1 DEF Health!Task, Health!Phases
      <3> HIDE DEF next
      <3> QED BY <3>1, <3>2, <2>6, CheckWritten DEF Health!MarkStopped, Health!boundVars, next
    <2>7. CASE Health!Persist(c, a)
      BY <2>1, <2>7, CheckWritten, IdleTyped DEF Health!Persist, Health!boundVars
    <2>8. CASE Health!PersistOrphan(c, a)
      BY <2>8, CheckWritten, IdleTyped, CrashTyped DEF Health!PersistOrphan, Health!boundVars
    <2> QED
      BY <1>1, <2>2, <2>3, <2>4, <2>5, <2>6, <2>7, <2>8 DEF Health!CheckerStep
  <1>2. CASE Health!MonitorStep
    <2>1. CASE Health!LoadRows
      <3>1. mem' \in [Apps -> Health!Health]
        BY <2>1 DEF Health!LoadRows
      <3>2. streak' \in [Apps -> 0..CountCap]
        BY <3>1, <2>1 DEF Health!LoadRows, Health!Health
      <3> QED BY <3>1, <3>2, <2>1 DEF Health!LoadRows, Health!boundVars
    <2>2. CASE Health!ListApps
      <3>1. \A a \in Apps : [phase |-> "fetch", health |-> mem[a]] \in Health!Task
        BY DEF Health!Task, Health!Phases
      <3>2. Monitor \in Health!Checkers
        BY DEF Health!Checkers
      <3> QED BY <3>1, <3>2, <2>2, IdleTyped DEF Health!ListApps, Health!boundVars
    <2>3. CASE Health!FinishTick
      BY <2>3 DEF Health!FinishTick, Health!boundVars
    <2>4. CASE Health!TimerFires
      BY <2>4 DEF Health!TimerFires, Health!boundVars
    <2> QED BY <1>2, <2>1, <2>2, <2>3, <2>4 DEF Health!MonitorStep
  <1>3. CASE Health!Restart
    BY <1>3 DEF Health!Restart, Health!boundVars
  <1>4. CASE Health!Environment
    <2>1. CASE Health!MonitorQueryFails
      BY <2>1, CrashTyped DEF Health!MonitorQueryFails, Health!Fault
    <2>2. ASSUME NEW c \in Health!Checkers, NEW a \in Apps,
                 Health!StartDiagnosis(c, a) \/ Health!StartStop(c, a)
          PROVE  Health!TypeOK'
      <3>1. /\ [phase |-> "queued", health |-> Health!Initial] \in Health!Task
            /\ [phase |-> "stopping", health |-> Health!Initial] \in Health!Task
        BY IdleTyped DEF Health!Task, Health!Phases
      <3>2. check' \in [Health!Checkers -> [Apps -> Health!Task]]
        <4>1. CASE Health!StartDiagnosis(c, a)
          BY <3>1, <4>1, CheckWritten DEF Health!StartDiagnosis
        <4>2. CASE Health!StartStop(c, a)
          BY <3>1, <4>2, CheckWritten DEF Health!StartStop
        <4> QED BY <2>2, <4>1, <4>2
      <3> QED BY <3>2, <2>2 DEF Health!StartDiagnosis, Health!StartStop, Health!boundVars
    <2>3. ASSUME NEW c \in Health!Checkers, NEW a \in Apps, Health!PersistFails(c, a)
          PROVE  Health!TypeOK'
      <3>1. /\ up' \in BOOLEAN /\ mon' \in {"load", "list", "checking", "waiting"}
            /\ check' \in [Health!Checkers -> [Apps -> Health!Task]]
            /\ mem' \in [Apps -> Health!Health]
        <4>1. CASE c = Monitor
          BY <4>1, <2>3, CrashTyped DEF Health!PersistFails
        <4>2. CASE c # Monitor
          <5>1. check' = [check EXCEPT ![c][a] = Health!IdleTask] /\ UNCHANGED <<mem, up, mon>>
            BY <4>2, <2>3 DEF Health!PersistFails
          <5> QED BY <5>1, CheckWritten, IdleTyped
        <4> QED BY <4>1, <4>2
      <3> QED BY <3>1, <2>3 DEF Health!PersistFails, Health!Fault
    <2>4. ASSUME NEW a \in Apps, Health!Install(a) \/ Health!Uninstall(a)
          PROVE  Health!TypeOK'
      BY <2>4 DEF Health!Install, Health!Uninstall, Health!boundVars
    <2>5. ASSUME NEW a \in Apps, NEW answer \in {"healthy", "degraded", "failing"},
                 Health!ApplicationChanges(a, answer)
          PROVE  Health!TypeOK'
      BY <2>5 DEF Health!ApplicationChanges, Health!boundVars
    <2> QED BY <1>4, <2>1, <2>2, <2>3, <2>4, <2>5 DEF Health!Environment
  <1>5. CASE UNCHANGED Health!vars
    BY <1>5 DEF Health!vars
  <1> QED
    BY <1>1, <1>2, <1>3, <1>4, <1>5 DEF Health!Next

LEMMA HealthTypeInit == Health!Init => Health!TypeOK
  BY IdleTyped DEF Health!Init, Health!TypeOK, Health!AllIdle

(***************************************************************************)
(* Memory, table and checks hold states of the declared form in every      *)
(* reachable state: no crash, failed query or reload leaves an application *)
(* with half a state.                                                      *)
(***************************************************************************)
THEOREM HealthTyped == Health!Spec => []Health!TypeOK
  BY HealthTypeInit, HealthTypeStep, PTL DEF Health!Spec

-----------------------------------------------------------------------------
(* What a check makes of a real count is a real count, at the threshold    *)
(* the monitor uses.                                                       *)
LEMMA NextReal ==
    ASSUME NEW h \in Health!Health, NEW answer \in {"healthy", "degraded", "failing"},
           Health!HealthReal(h)
    PROVE  /\ Health!HealthReal(Health!NextHealth(h, answer, Threshold))
           /\ answer # "failing" => Health!NextHealth(h, answer, Threshold).failures = 0
           /\ answer = "failing" =>
                Health!NextHealth(h, answer, Threshold).failures = Health!Bump(h.failures)
  <1>1. h.failures \in 0..CountCap
    BY DEF Health!Health
  <1>2. Health!Bump(h.failures) \in 0..CountCap /\ Health!Bump(h.failures) >= h.failures
    BY <1>1, BumpTyped
  <1> QED
    BY <1>1, <1>2 DEF Health!NextHealth, Health!HealthReal

(* Counting on keeps an order between counts. *)
LEMMA BumpMonotone ==
    ASSUME NEW n \in 0..CountCap, NEW k \in 0..CountCap, n <= k
    PROVE  Health!Bump(n) <= Health!Bump(k)
  BY DEF Health!Bump

LEMMA IdleReal == Health!HealthReal(Health!Initial) /\ Health!HealthReal(Health!IdleTask.health)
  BY DEF Health!HealthReal, Health!Initial, Health!IdleTask

(* A crash leaves nothing to count. *)
LEMMA CrashReal ==
    ASSUME Health!IInv, Health!Crash, Health!TypeOK', UNCHANGED <<row, streak>>
    PROVE  Health!IInv'
  <1> USE DEF Health!IInv, Health!TypeOK
  <1>1. /\ \A a \in Apps : mem'[a] = Health!Initial
        /\ \A c \in Health!Checkers, a \in Apps : check'[c][a] = Health!IdleTask
    BY DEF Health!Crash, Health!AllIdle
  <1>2. Health!CopiesReal'
    BY <1>1, IdleReal DEF Health!CopiesReal
  <1>3. Health!FailuresCounted' /\ Health!OnlyMonitorChecks'
    BY <1>1 DEF Health!FailuresCounted, Health!OnlyMonitorChecks, Health!Initial,
                Health!IdleTask, Health!Checkers
  <1> QED BY <1>2, <1>3

(* A step that leaves the memory and the streaks, and writes one task that *)
(* is not a check, with a real count.                                      *)
LEMMA QuietReal ==
    ASSUME Health!IInv, Health!TypeOK', UNCHANGED <<mem, streak, mon>>,
           NEW c \in Health!Checkers, NEW a \in Apps, NEW t \in Health!Task,
           check' = [check EXCEPT ![c][a] = t],
           t.phase \notin {"queued", "fetch"}, Health!HealthReal(t.health),
           \A b \in Apps : row'[b] = row[b] \/ row'[b] = None \/ Health!HealthReal(row'[b])
    PROVE  Health!IInv'
  <1> USE DEF Health!IInv, Health!TypeOK
  <1>1. \A d \in Health!Checkers, b \in Apps :
          check'[d][b] = IF d = c /\ b = a THEN t ELSE check[d][b]
    OBVIOUS
  <1>2. Health!CopiesReal'
    BY <1>1 DEF Health!CopiesReal, Health!HealthReal
  <1>3. Health!FailuresCounted' /\ Health!OnlyMonitorChecks'
    BY <1>1 DEF Health!FailuresCounted, Health!OnlyMonitorChecks, Health!Checkers
  <1> QED BY <1>2, <1>3

LEMMA HealthStep ==
    ASSUME Diagnosers = {}, Health!IInv, [Health!Next]_(Health!vars)
    PROVE  Health!IInv'
  <1> USE DEF Health!IInv
  <1>0. Health!TypeOK'
    BY HealthTypeStep
  <1>1. ASSUME NEW c \in Health!Checkers, NEW a \in Apps, Health!CheckerStep(c, a)
        PROVE  Health!IInv'
    <2>0. check[c][a] \in Health!Task /\ mem[a] \in Health!Health
      BY DEF Health!TypeOK
    <2>1. check[c][a].health \in Health!Health /\ check[c][a].phase \in Health!Phases
      BY <2>0 DEF Health!Task
    <2>2. CASE Health!BeginCheck(c, a)
      BY <2>2 DEF Health!BeginCheck, Health!OnlyMonitorChecks
    <2>3. CASE Health!CompleteFetch(c, a)
      <3> DEFINE next == Health!NextHealth(check[c][a].health, answers[a], Threshold)
      <3>1. c = Monitor /\ check[c][a].phase = "fetch"
        BY <2>3 DEF Health!CompleteFetch, Health!OnlyMonitorChecks
      <3>2. Health!ThresholdOf(c) = Threshold
        BY <3>1 DEF Health!ThresholdOf
      <3>3. /\ mem' = [mem EXCEPT ![a] = next]
            /\ check' = [check EXCEPT ![c][a] = [phase |-> "persist", health |-> next]]
            /\ streak' = [streak EXCEPT ![a] =
                            IF answers[a] = "failing" THEN Health!Bump(@) ELSE 0]
            /\ UNCHANGED <<row, mon>>
        BY <2>3, <3>2 DEF Health!CompleteFetch
      <3>4. answers[a] \in {"healthy", "degraded", "failing"} /\ streak[a] \in 0..CountCap
        BY DEF Health!TypeOK
      <3>5. Health!HealthReal(check[c][a].health) /\ check[c][a].health.failures <= streak[a]
        BY <3>1 DEF Health!CopiesReal, Health!FailuresCounted
      <3>6. /\ Health!HealthReal(next)
            /\ answers[a] # "failing" => next.failures = 0
            /\ answers[a] = "failing" => next.failures = Health!Bump(check[c][a].health.failures)
        BY <2>1, <3>4, <3>5, NextReal
      <3>7. check[c][a].health.failures \in 0..CountCap
        BY <2>1 DEF Health!Health
      <3>8. next.failures <= (IF answers[a] = "failing" THEN Health!Bump(streak[a]) ELSE 0)
        BY <3>4, <3>5, <3>6, <3>7, BumpMonotone
      <3> HIDE DEF next
      <3>9. /\ \A d \in Health!Checkers, b \in Apps :
                 check'[d][b] = IF d = c /\ b = a THEN [phase |-> "persist", health |-> next]
                                                ELSE check[d][b]
            /\ \A b \in Apps : mem'[b] = IF b = a THEN next ELSE mem[b]
            /\ \A b \in Apps : streak'[b] =
                 IF b = a THEN (IF answers[a] = "failing" THEN Health!Bump(streak[a]) ELSE 0)
                          ELSE streak[b]
        BY <3>3 DEF Health!TypeOK
      <3>10. Health!CopiesReal'
        BY <3>3, <3>6, <3>9 DEF Health!CopiesReal
      <3>11. Health!FailuresCounted'
        BY <3>1, <3>3, <3>8, <3>9 DEF Health!FailuresCounted, Health!Checkers
      <3>12. Health!OnlyMonitorChecks'
        BY <3>9 DEF Health!OnlyMonitorChecks
      <3> QED BY <1>0, <3>10, <3>11, <3>12
    <2>4. CASE Health!ContainerStops(c, a)
      <3> DEFINE t == [check[c][a] EXCEPT !.phase = "halted"]
      <3>1. /\ t \in Health!Task /\ t.phase = "halted" /\ t.health = check[c][a].health
        BY <2>0 DEF Health!Task, Health!Phases
      <3>2. check' = [check EXCEPT ![c][a] = t] /\ UNCHANGED <<mem, row, streak, mon>>
        BY <2>4 DEF Health!ContainerStops
      <3>3. Health!HealthReal(t.health)
        BY <3>1 DEF Health!CopiesReal
      <3> HIDE DEF t
      <3> QED BY <1>0, <3>1, <3>2, <3>3, QuietReal
    <2>5. CASE Health!StopFails(c, a)
      <3>1. /\ check' = [check EXCEPT ![c][a] = Health!IdleTask]
            /\ UNCHANGED <<mem, row, streak, mon>>
        BY <2>5 DEF Health!StopFails
      <3>2. Health!IdleTask.phase = "idle"
        BY DEF Health!IdleTask
      <3> QED BY <1>0, <3>1, <3>2, IdleTyped, IdleReal, QuietReal
    <2>6. CASE Health!MarkStopped(c, a)
      <3> DEFINE next == [mem[a] EXCEPT !.status = "stopped"]
      <3>1. next \in Health!Health /\ next.failures = mem[a].failures /\ Health!HealthReal(next)
        BY <2>0 DEF Health!Health, Health!Statuses, Health!HealthReal
      <3>2. /\ mem' = [mem EXCEPT ![a] = next]
            /\ check' = [check EXCEPT ![c][a] = [phase |-> "persist", health |-> next]]
            /\ UNCHANGED <<row, streak, mon>>
        BY <2>6 DEF Health!MarkStopped
      <3> HIDE DEF next
      <3>3. /\ \A d \in Health!Checkers, b \in Apps :
                 check'[d][b] = IF d = c /\ b = a THEN [phase |-> "persist", health |-> next]
                                                ELSE check[d][b]
            /\ \A b \in Apps : mem'[b] = IF b = a THEN next ELSE mem[b]
        BY <3>2 DEF Health!TypeOK
      <3>4. Health!CopiesReal'
        BY <3>1, <3>2, <3>3 DEF Health!CopiesReal
      <3>5. Health!FailuresCounted' /\ Health!OnlyMonitorChecks'
        BY <3>1, <3>2, <3>3 DEF Health!FailuresCounted, Health!OnlyMonitorChecks, Health!Checkers
      <3> QED BY <1>0, <3>4, <3>5
    <2>7. CASE Health!Persist(c, a)
      <3>1. /\ check' = [check EXCEPT ![c][a] = Health!IdleTask] /\ UNCHANGED <<mem, streak, mon>>
            /\ row' = [row EXCEPT ![a] = check[c][a].health]
        BY <2>7 DEF Health!Persist
      <3>2. Health!IdleTask.phase = "idle" /\ Health!HealthReal(check[c][a].health)
        BY DEF Health!IdleTask, Health!CopiesReal
      <3>3. \A b \in Apps : row'[b] = row[b] \/ row'[b] = None \/ Health!HealthReal(row'[b])
        BY <3>1, <3>2 DEF Health!TypeOK
      <3> QED BY <1>0, <3>1, <3>2, <3>3, IdleTyped, IdleReal, QuietReal
    <2>8. CASE Health!PersistOrphan(c, a)
      <3>1. CASE c = Monitor
        BY <1>0, <2>8, <3>1, CrashReal DEF Health!PersistOrphan
      <3>2. CASE c # Monitor
        <4>1. /\ check' = [check EXCEPT ![c][a] = Health!IdleTask]
              /\ UNCHANGED <<mem, row, streak, mon>>
          BY <2>8, <3>2 DEF Health!PersistOrphan
        <4>2. Health!IdleTask.phase = "idle"
          BY DEF Health!IdleTask
        <4> QED BY <1>0, <4>1, <4>2, IdleTyped, IdleReal, QuietReal
      <3> QED BY <3>1, <3>2
    <2> QED
      BY <1>1, <2>2, <2>3, <2>4, <2>5, <2>6, <2>7, <2>8 DEF Health!CheckerStep
  <1>2. CASE Health!MonitorStep
    <2>1. CASE Health!LoadRows
      <3>1. /\ \A a \in Apps : mem'[a] = IF row[a] = None THEN mem[a] ELSE row[a]
            /\ \A a \in Apps : streak'[a] = mem'[a].failures
            /\ UNCHANGED <<row, check>>
            /\ \A a \in Apps : mem'[a].failures \in 0..CountCap
        BY <1>0, <2>1 DEF Health!LoadRows, Health!TypeOK, Health!Health
      <3>2. Health!CopiesReal'
        BY <3>1 DEF Health!CopiesReal
      <3>3. \A a \in Apps : check[Monitor][a].phase # "fetch"
        BY <2>1 DEF Health!LoadRows, Health!FailuresCounted
      <3>4. Health!FailuresCounted' /\ Health!OnlyMonitorChecks'
        BY <3>1, <3>3 DEF Health!FailuresCounted, Health!OnlyMonitorChecks
      <3> QED BY <1>0, <3>2, <3>4
    <2>2. CASE Health!ListApps
      <3>1. /\ \A d \in Health!Checkers, b \in Apps :
                 check'[d][b] = IF d # Monitor THEN check[d][b]
                               ELSE IF b \in installed THEN [phase |-> "fetch", health |-> mem[b]]
                               ELSE Health!IdleTask
            /\ UNCHANGED <<mem, row, streak>> /\ mon' = "checking"
        BY <2>2 DEF Health!ListApps, Health!TypeOK, Health!Checkers
      <3>2. ASSUME NEW d \in Health!Checkers, NEW b \in Apps
            PROVE  /\ Health!HealthReal(check'[d][b].health)
                   /\ check'[d][b].phase \in {"queued", "fetch"} =>
                        /\ d = Monitor /\ check'[d][b].phase = "fetch"
                        /\ check'[d][b].health.failures <= streak[b]
        <4>1. CASE d # Monitor
          <5>1. check'[d][b] = check[d][b]
            BY <3>1, <4>1
          <5> QED BY <4>1, <5>1 DEF Health!CopiesReal, Health!OnlyMonitorChecks
        <4>2. CASE d = Monitor /\ b \in installed
          <5>1. check'[d][b] = [phase |-> "fetch", health |-> mem[b]]
            BY <3>1, <4>2
          <5> QED BY <4>2, <5>1 DEF Health!CopiesReal, Health!FailuresCounted
        <4>3. CASE d = Monitor /\ b \notin installed
          <5>1. check'[d][b] = Health!IdleTask
            BY <3>1, <4>3
          <5> QED BY <5>1, IdleReal DEF Health!IdleTask
        <4> QED BY <4>1, <4>2, <4>3
      <3>3. Health!CopiesReal'
        BY <3>1, <3>2 DEF Health!CopiesReal
      <3>4. Health!FailuresCounted' /\ Health!OnlyMonitorChecks'
        BY <3>1, <3>2 DEF Health!FailuresCounted, Health!OnlyMonitorChecks, Health!Checkers
      <3> QED BY <1>0, <3>3, <3>4
    <2>3. CASE Health!FinishTick \/ Health!TimerFires
      <3>1. UNCHANGED <<mem, row, streak, check>> /\ mon' # "load"
        BY <2>3 DEF Health!FinishTick, Health!TimerFires
      <3> QED BY <1>0, <3>1 DEF Health!CopiesReal, Health!FailuresCounted,
                                Health!OnlyMonitorChecks
    <2> QED BY <1>2, <2>1, <2>2, <2>3 DEF Health!MonitorStep
  <1>3. CASE Health!Restart
    BY <1>0, <1>3 DEF Health!Restart, Health!CopiesReal, Health!FailuresCounted,
                      Health!OnlyMonitorChecks
  <1>4. CASE Health!Environment
    <2>1. CASE Health!MonitorQueryFails
      BY <1>0, <2>1, CrashReal DEF Health!MonitorQueryFails
    <2>2. ASSUME NEW c \in Health!Checkers, NEW a \in Apps, Health!StartDiagnosis(c, a)
          PROVE  Health!IInv'
      BY <2>2 DEF Health!StartDiagnosis
    <2>3. ASSUME NEW c \in Health!Checkers, NEW a \in Apps, Health!StartStop(c, a)
          PROVE  Health!IInv'
      <3> DEFINE t == [phase |-> "stopping", health |-> Health!Initial]
      <3>1. t \in Health!Task /\ t.phase = "stopping" /\ Health!HealthReal(t.health)
        BY IdleTyped, IdleReal DEF Health!Task, Health!Phases
      <3>2. check' = [check EXCEPT ![c][a] = t] /\ UNCHANGED <<mem, row, streak, mon>>
        BY <2>3 DEF Health!StartStop
      <3> HIDE DEF t
      <3> QED BY <1>0, <3>1, <3>2, QuietReal
    <2>4. ASSUME NEW c \in Health!Checkers, NEW a \in Apps, Health!PersistFails(c, a)
          PROVE  Health!IInv'
      <3>1. CASE c = Monitor
        BY <1>0, <2>4, <3>1, CrashReal DEF Health!PersistFails
      <3>2. CASE c # Monitor
        <4>1. /\ check' = [check EXCEPT ![c][a] = Health!IdleTask]
              /\ UNCHANGED <<mem, row, streak, mon>>
          BY <2>4, <3>2 DEF Health!PersistFails
        <4>2. Health!IdleTask.phase = "idle"
          BY DEF Health!IdleTask
        <4> QED BY <1>0, <4>1, <4>2, IdleTyped, IdleReal, QuietReal
      <3> QED BY <3>1, <3>2
    <2>5. ASSUME NEW a \in Apps, Health!Install(a)
          PROVE  Health!IInv'
      BY <1>0, <2>5 DEF Health!Install, Health!CopiesReal, Health!FailuresCounted,
                        Health!OnlyMonitorChecks
    <2>6. ASSUME NEW a \in Apps, Health!Uninstall(a)
          PROVE  Health!IInv'
      <3>1. /\ \A b \in Apps : row'[b] = row[b] \/ row'[b] = None
            /\ UNCHANGED <<mem, streak, check, mon>>
        BY <2>6 DEF Health!Uninstall, Health!TypeOK
      <3> QED BY <1>0, <3>1 DEF Health!CopiesReal, Health!FailuresCounted,
                                Health!OnlyMonitorChecks
    <2>7. ASSUME NEW a \in Apps, NEW answer \in {"healthy", "degraded", "failing"},
                 Health!ApplicationChanges(a, answer)
          PROVE  Health!IInv'
      BY <1>0, <2>7 DEF Health!ApplicationChanges, Health!CopiesReal, Health!FailuresCounted,
                        Health!OnlyMonitorChecks
    <2> QED BY <1>4, <2>1, <2>2, <2>3, <2>4, <2>5, <2>6, <2>7 DEF Health!Environment
  <1>5. CASE UNCHANGED Health!vars
    BY <1>0, <1>5 DEF Health!vars, Health!CopiesReal, Health!FailuresCounted,
                      Health!OnlyMonitorChecks
  <1> QED
    BY <1>1, <1>2, <1>3, <1>4, <1>5 DEF Health!Next

LEMMA HealthInit == Health!Init => Health!IInv
  <1> SUFFICES ASSUME Health!Init PROVE Health!IInv
    OBVIOUS
  <1>1. Health!TypeOK
    BY HealthTypeInit
  <1>2. /\ \A a \in Apps : mem[a] = Health!Initial /\ row[a] = None /\ streak[a] = 0
        /\ \A c \in Health!Checkers, a \in Apps : check[c][a] = Health!IdleTask
    BY DEF Health!Init, Health!AllIdle
  <1>3. Health!CopiesReal
    BY <1>2, IdleReal DEF Health!CopiesReal
  <1>4. Health!FailuresCounted /\ Health!OnlyMonitorChecks
    BY <1>2 DEF Health!FailuresCounted, Health!OnlyMonitorChecks, Health!Initial,
                Health!IdleTask, Health!Checkers
  <1> QED BY <1>1, <1>3, <1>4 DEF Health!IInv

-----------------------------------------------------------------------------
(* The composition: a behaviour of it is one of both components. *)
LEMMA StepsOfBoth == [AllNext]_allVars => [Next]_vars /\ [Health!Next]_(Health!vars)
  BY DEF AllNext, allVars, healthVars, AdmissionEnds, Health!vars

LEMMA AdmissionRuns == AllSpec => Spec
  <1>1. AllInit => Init
    BY DEF AllInit
  <1> QED
    BY <1>1, StepsOfBoth, PTL DEF AllSpec, Spec

LEMMA MonitoringRuns == AllSpec => Health!Spec
  <1>1. AllInit => Health!Init
    BY DEF AllInit
  <1> QED
    BY <1>1, StepsOfBoth, PTL DEF AllSpec, Health!Spec

(***************************************************************************)
(* Rows, tasks and the registry keep their form, before and after the      *)
(* first request.                                                          *)
(***************************************************************************)
THEOREM AdmissionTyped == AllSpec => []AdmissionTypeOK
  <1>1. IInv => AdmissionTypeOK
    BY DEF IInv, AdmissionTypeOK
  <1> QED
    BY <1>1, AdmissionRuns, IInvAlways, PTL

(***************************************************************************)
(* A request is approved only with an author the registry knows, whatever  *)
(* reviews, resubmissions and registry answers overlap.                    *)
(***************************************************************************)
THEOREM ApprovedAreAuthors == AllSpec => []ApprovedHasAuthor
  BY AdmissionRuns, ApprovalsHaveAuthors, PTL

(***************************************************************************)
(* What Core calls a certified key of an author, the registry certified.   *)
(***************************************************************************)
THEOREM LocalCertified == AllSpec => []LocalWasCertified
  BY AdmissionRuns, LocalKeysWereCertified, PTL

(***************************************************************************)
(* A request no two changes of which overlapped is approved as submitted.  *)
(***************************************************************************)
THEOREM ApprovedUnchanged == AllSpec => []ApprovedAsSubmitted
  BY AdmissionRuns, ApprovalsAreAsSubmitted, PTL

(***************************************************************************)
(* While no diagnostics run, the failure counts are real: no interleaving  *)
(* of checks, stops, uninstalls, failed queries and crashes makes an       *)
(* application unreachable below the threshold or counts a failure that    *)
(* was not one.                                                            *)
(***************************************************************************)
THEOREM CountsReal == ASSUME Diagnosers = {} PROVE AllSpec => []CountsAreReal
  <1>1. Health!Init => Health!IInv
    BY HealthInit
  <1>2. Health!IInv /\ [Health!Next]_(Health!vars) => Health!IInv'
    BY HealthStep
  <1>3. Health!IInv => CountsAreReal
    BY DEF Health!IInv, Health!CopiesReal, Health!FailuresCounted, Health!CountsAreReal,
           Health!HealthReal, CountsAreReal
  <1> QED
    BY <1>1, <1>2, <1>3, MonitoringRuns, PTL DEF Health!Spec
=============================================================================
