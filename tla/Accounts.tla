------------------------------ MODULE Accounts ------------------------------
(***************************************************************************)
(* The accounts API of the daemon that leads: who signs up, which          *)
(* collections a user lists, and the documents each user has in them.  A   *)
(* request takes dbLock (for reading if it is a GET), reads the database,  *)
(* decides, submits its commands one after another, and lets the lock go   *)
(* when its response ends or its connection closes.  submitCommand returns *)
(* when a command is committed; the apply loop, which does not take the    *)
(* lock, executes it later.                                                *)
(***************************************************************************)
EXTENDS Integers, Sequences, FiniteSets, SequencesExt

CONSTANTS
    Slot,               \* what can be handled at a time
    Username,           \* the names one can sign up with
    Registered,         \* those that have signed up already; their id is their name
    Coll, DocName, Nil,
    Setting,            \* the kinds of behaviour there are, out of
                        \*   "calm"     clients let a command be applied before they go on,
                        \*              use collections that exist, create none that does,
                        \*              keep their connection until they are served, and
                        \*              send one fetchDocuments at a time
                        \*   "eager"    the same, but with several fetchDocuments at a time
                        \*   "busy"     they do none of this
                        \*   "failing"  and submitCommand may fail
    MaxRequests, MaxBusyRequests, MaxFailingRequests    \* bounds of the model

VARIABLES
    setting,
    log,            \* the commands, committed in this order
    applied,        \* how many of them have been applied on this node
    db,             \* the database
    stuck,          \* whether the application executes nothing any more
    request,        \* what each slot is doing
    tokens,         \* the ids that requests are authenticated as
    count,          \* the requests so far, which also numbers users and documents
    expected        \* the database, had each request run by itself

vars == <<setting, log, applied, db, stuck, request, tokens, count, expected>>

InitialDb == [users |-> {[id |-> n, username |-> n, collections |-> {}] : n \in Registered},
              colls |-> {}, docs |-> {}]

OneOf(S) == CHOOSE x \in S : TRUE

WithId(d, id) == {u \in d.users : u.id = id}
User(d, id) == IF WithId(d, id) = {} THEN Nil ELSE OneOf(WithId(d, id))
WithList(d, id, collections) ==
    [d EXCEPT !.users = {IF u.id = id THEN [u EXCEPT !.collections = collections] ELSE u : u \in @}]

\* Mutant of Own: the documents of all.
OwnOrNot(d, id, coll) == {x \in d.docs : x.coll = coll}

\* The documents a user has in a collection, and those of one name.
Own(d, id, coll) == {x \in d.docs : x.coll = coll /\ x.userId = id}
Named(d, q) == {x \in Own(d, q.by, q.coll) : x.name = q.name}

-----------------------------------------------------------------------------
(* Commands, and what the application makes of them. *)

Command(type, by, id, coll, content) ==
    [type |-> type, by |-> by, id |-> id, coll |-> coll, content |-> content]
AddUser(id, username) == Command("AddUser", id, id, Nil, username)
Create(by, coll) == Command("Create", by, Nil, coll, Nil)
SetList(by, collections) == Command("SetList", by, by, Nil, collections)
AddDoc(q, id) == Command("AddDoc", q.by, id, q.coll, [name |-> q.name, content |-> id])
UpdateDoc(q, doc, id) == Command("Update", q.by, doc.id, q.coll, id)
DeleteDoc(by, doc) == Command("Delete", by, doc.id, doc.coll, Nil)

\* UPDATE and DELETE in SQL are submitted for nobody ('NO_USER'), and find their
\* documents when they are executed.
NoUser == Nil
SqlUpdate(q, id) == Command("SqlUpdate", NoUser, Nil, q.coll, [name |-> q.name, content |-> id])
SqlDelete(q) == Command("SqlDelete", NoUser, Nil, q.coll, [name |-> q.name])

\* What a statement finds: the documents of a collection, whoever has them,
\* or those of one name (WHERE name = ...).
Found(d, coll, name) == {x \in d.docs : x.coll = coll /\ name \in {Nil, x.name}}

Effect(d, c) ==
    CASE c.type = "AddUser" ->
             [d EXCEPT !.users = @ \cup {[id |-> c.id, username |-> c.content, collections |-> {}]}]
      [] c.type = "Create" -> [d EXCEPT !.colls = @ \cup {c.coll}]
      [] c.type = "SetList" -> WithList(d, c.id, c.content)
      [] c.type = "AddDoc" ->
             [d EXCEPT !.colls = @ \cup {c.coll},
                       !.docs = @ \cup {[id |-> c.id, userId |-> c.by, coll |-> c.coll,
                                         name |-> c.content.name, content |-> c.content.content]}]
      [] c.type = "Update" ->
             [d EXCEPT !.docs = {IF x.id = c.id THEN [x EXCEPT !.content = c.content] ELSE x : x \in @}]
      [] c.type = "Delete" -> [d EXCEPT !.docs = {x \in @ : x.id # c.id}]
      [] c.type = "SqlUpdate" ->
             [d EXCEPT !.docs = {IF x \in Found(d, c.coll, c.content.name)
                                 THEN [x EXCEPT !.content = c.content.content] ELSE x : x \in @}]
      [] c.type = "SqlDelete" -> [d EXCEPT !.docs = @ \ Found(d, c.coll, c.content.name)]

\* A CREATE of a collection that exists stays in the buffer and is met first
\* by every later command; SQL that writes to one that is missing throws.
Sticks(d, c) ==
    \/ c.type = "Create" /\ c.coll \in d.colls
    \/ c.type = "AddDoc" /\ c.content.name = Nil /\ c.coll \notin d.colls
    \/ c.type \in {"SqlUpdate", "SqlDelete"} /\ c.coll \notin d.colls

\* The database after the first k of some commands, each executed once.
After(d, commands, k) ==
    LET D[i \in 0 .. k] == IF i = 0 THEN d ELSE Effect(D[i - 1], commands[i])
    IN  D[k]

Executed(run, c) ==
    IF run.stuck \/ Sticks(run.db, c) THEN [run EXCEPT !.stuck = TRUE]
    ELSE [run EXCEPT !.db = Effect(@, c)]

-----------------------------------------------------------------------------
(* The handlers: what they do, given the request, its number, the user they *)
(* read first and the database they look at then.  A reply says whether the *)
(* request succeeds, what is submitted, and what the response holds.        *)

Refuse == [ok |-> FALSE, commands |-> <<>>, answer |-> {}]
Submitting(commands) == [ok |-> TRUE, commands |-> commands, answer |-> {}]
Answering(answer) == [ok |-> TRUE, commands |-> <<>>, answer |-> answer]

Lists(user, coll) == user # Nil /\ coll \in user.collections

SignUp(q, id, user, d) ==
    IF \E u \in d.users : u.username = q.username THEN Refuse
    ELSE Submitting(<<AddUser(id, q.username)>>)

Login(q, id, user, d) ==
    IF \E u \in d.users : u.username = q.username THEN Submitting(<<>>) ELSE Refuse

\* Mutant of NewCollection: listed before it is there.
ListedFirst(q, user) == <<SetList(q.by, user.collections \cup {q.coll}), Create(q.by, q.coll)>>

NewCollection(q, user) == <<Create(q.by, q.coll), SetList(q.by, user.collections \cup {q.coll})>>

\* Of a user that is not there nothing is done, and success is reported.
CreateCollection(q, id, user, d) ==
    IF user = Nil THEN Submitting(<<>>)
    ELSE IF Lists(user, q.coll) THEN Refuse
    ELSE Submitting(NewCollection(q, user))

\* The documents go, one command each, and the name on the user's list; the
\* collection stays.
DeleteCollection(q, id, user, d) ==
    LET docs == SetToSeq(Own(d, q.by, q.coll))
    IN  IF ~Lists(user, q.coll) \/ q.coll \notin d.colls THEN Refuse
        ELSE Submitting([k \in DOMAIN docs |-> DeleteDoc(q.by, docs[k])]
                        \o <<SetList(q.by, user.collections \ {q.coll})>>)

CreateDocument(q, id, user, d) ==
    IF ~Lists(user, q.coll) \/ q.coll \notin d.colls \/ Named(d, q) # {} THEN Refuse
    ELSE Submitting(<<AddDoc(q, id)>>)

\* Both find the first of the user's documents with that name.
OfDocument(q, user, d, Do(_)) ==
    IF ~Lists(user, q.coll) \/ Named(d, q) = {} THEN Refuse
    ELSE Do(OneOf(Named(d, q)))
UpdateDocument(q, id, user, d) ==
    OfDocument(q, user, d, LAMBDA doc : Submitting(<<UpdateDoc(q, doc, id)>>))
DeleteDocument(q, id, user, d) ==
    OfDocument(q, user, d, LAMBDA doc : Submitting(<<DeleteDoc(q.by, doc)>>))
FetchDocumentContent(q, id, user, d) ==
    OfDocument(q, user, d, LAMBDA doc : Answering({doc}))

\* Where the user has documents in a collection that is not on the list, the
\* collection is listed.
FetchDocuments(q, id, user, d) ==
    IF user = Nil \/ (~Lists(user, q.coll) /\ Own(d, q.by, q.coll) = {}) THEN Refuse
    ELSE Answering(Own(d, q.by, q.coll))

GetAllUserData(q, id, user, d) ==
    IF user = Nil THEN Refuse
    ELSE Answering(UNION {Own(d, q.by, coll) : coll \in user.collections})

FetchDocumentsPaged(q, id, user, d) ==
    IF ~Lists(user, q.coll) \/ q.coll \notin d.colls THEN Refuse
    ELSE Answering(Own(d, q.by, q.coll))

FetchCollections(q, id, user, d) ==
    IF user = Nil THEN Refuse ELSE Answering(user.collections)

GetUserData(q, id, user, d) ==
    IF user = Nil THEN Refuse ELSE Answering({user.username})

\* A statement in SQL.  The document of an INSERT has an owner and, here, no
\* name; the other statements do not look at owners.
QuerySql(q, id, user, d) ==
    IF user = Nil \/ (q.kind = "sqlSelect" /\ q.coll \notin d.colls) THEN Refuse
    ELSE CASE q.kind = "sqlSelect" -> Answering(Found(d, q.coll, q.name))
           [] q.kind = "sqlInsert" -> Submitting(<<AddDoc(q, id)>>)
           [] q.kind = "sqlUpdate" -> Submitting(<<SqlUpdate(q, id)>>)
           [] q.kind = "sqlDelete" -> Submitting(<<SqlDelete(q)>>)

IsSql(q) == q.kind \in {"sqlSelect", "sqlInsert", "sqlUpdate", "sqlDelete"}

Handled(q, id, user, d) ==
    CASE q.kind = "signup" -> SignUp(q, id, user, d)
      [] q.kind = "login" -> Login(q, id, user, d)
      [] q.kind = "createCollection" -> CreateCollection(q, id, user, d)
      [] q.kind = "deleteCollection" -> DeleteCollection(q, id, user, d)
      [] q.kind = "createDocument" -> CreateDocument(q, id, user, d)
      [] q.kind = "updateDocument" -> UpdateDocument(q, id, user, d)
      [] q.kind = "deleteDocument" -> DeleteDocument(q, id, user, d)
      [] q.kind = "fetchDocumentContent" -> FetchDocumentContent(q, id, user, d)
      [] q.kind = "fetchDocuments" -> FetchDocuments(q, id, user, d)
      [] q.kind = "fetchDocumentsPaged" -> FetchDocumentsPaged(q, id, user, d)
      [] q.kind = "fetchCollections" -> FetchCollections(q, id, user, d)
      [] q.kind = "getUserData" -> GetUserData(q, id, user, d)
      [] q.kind = "getAllUserData" -> GetAllUserData(q, id, user, d)
      [] IsSql(q) -> QuerySql(q, id, user, d)

\* What a handler writes to this database without submitting it.
WrittenHere(q, user, d) ==
    IF q.kind = "fetchDocuments" /\ user # Nil /\ ~Lists(user, q.coll) /\ Own(d, q.by, q.coll) # {}
    THEN WithList(d, q.by, user.collections \cup {q.coll})
    ELSE d

-----------------------------------------------------------------------------
(* Requests. *)

Request(kind, by, coll, name) ==
    [kind |-> kind, by |-> by, coll |-> coll, name |-> name, username |-> Nil]
Requests ==
    {[Request(kind, Nil, Nil, Nil) EXCEPT !.username = n] :
        kind \in {"signup", "login"}, n \in Username} \cup
    {Request(kind, by, Nil, Nil) :
        kind \in {"fetchCollections", "getUserData", "getAllUserData"}, by \in tokens} \cup
    {Request(kind, by, coll, Nil) :
        kind \in {"createCollection", "deleteCollection", "fetchDocuments",
                  "fetchDocumentsPaged", "sqlInsert"},
        by \in tokens, coll \in Coll} \cup
    {Request(kind, by, coll, name) :
        kind \in {"sqlSelect", "sqlUpdate", "sqlDelete"},
        by \in tokens, coll \in Coll, name \in DocName \cup {Nil}} \cup
    {Request(kind, by, coll, name) :
        kind \in {"createDocument", "updateDocument", "deleteDocument", "fetchDocumentContent"},
        by \in tokens, coll \in Coll, name \in DocName}

IsGet(q) == q.kind \in {"fetchDocuments", "fetchDocumentsPaged", "fetchDocumentContent",
                        "fetchCollections", "getUserData", "getAllUserData"}

Idle == [at |-> "idle", q |-> Request(Nil, Nil, Nil, Nil), id |-> 0, user |-> Nil,
         reply |-> Refuse, holds |-> FALSE, before |-> InitialDb]

Holding(gets) == {r \in Slot : request[r].holds /\ IsGet(request[r].q) = gets}

\* Mutant of Enters: every request takes the lock for reading.
EntersToRead(q) == TRUE

\* The middleware's lock: GETs together, any other request alone.
Enters(q) == Holding(FALSE) = {} /\ (IsGet(q) \/ Holding(TRUE) = {})

Orderly == setting \in {"calm", "eager"}

\* What orderly clients ask for.
Asked(q) ==
    /\ applied = Len(log)
    /\ setting = "calm" /\ q.kind = "fetchDocuments" =>
          \A r \in Holding(TRUE) : request[r].q.kind # q.kind \/ request[r].q.by # q.by
    /\ q.kind = "createCollection" => q.coll \notin db.colls
    /\ IsSql(q) => q.coll \in db.colls

\* A request gets the lock, and its handler reads the user.
Begin(r) ==
    /\ request[r].at = "idle"
    /\ count < (IF Orderly THEN MaxRequests
                ELSE IF setting = "busy" THEN MaxBusyRequests ELSE MaxFailingRequests)
    /\ \E q \in Requests :
          /\ Enters(q)
          /\ Orderly => Asked(q)
          /\ count' = count + 1
          /\ request' = [request EXCEPT ![r] =
                [Idle EXCEPT !.at = "deciding", !.q = q, !.id = count + 1,
                             !.user = User(db, q.by), !.holds = TRUE, !.before = expected]]
    /\ UNCHANGED <<setting, log, applied, db, stuck, tokens, expected>>

\* It reads the rest, and knows what to do.
Decide(r) ==
    LET s == request[r]
    IN  /\ s.at = "deciding"
        /\ request' = [request EXCEPT ![r] = [@ EXCEPT !.at = "submitting",
                                                       !.reply = Handled(s.q, s.id, s.user, db)]]
        /\ db' = WrittenHere(s.q, s.user, db)
        /\ expected' = WrittenHere(s.q, User(expected, s.q.by), expected)
        /\ UNCHANGED <<setting, log, applied, stuck, tokens, count>>

\* submitCommand; nobody looks at what it returns.
Submit(r) ==
    LET s == request[r]
    IN  /\ s.at = "submitting" /\ s.reply.commands # <<>>
        /\ request' = [request EXCEPT ![r].reply.commands = Tail(@)]
        /\ \/ log' = Append(log, Head(s.reply.commands))
           \/ setting = "failing" /\ UNCHANGED log
        /\ UNCHANGED <<setting, applied, db, stuck, tokens, count, expected>>

\* The response.  That of an SQL statement that writes is never ended: the
\* lock is kept until the client goes away.
Ends(s) == s.at = "submitting" /\ s.reply.commands = <<>>

Alone(d, q, id) ==
    LET commands == Handled(q, id, User(d, q.by), d).commands
    IN  After(d, commands, Len(commands))

Respond(r) ==
    LET s == request[r]
    IN  /\ Ends(s)
        /\ request' = [request EXCEPT ![r] = Idle]
        /\ tokens' = tokens \cup
               (IF ~s.reply.ok THEN {}
                ELSE IF s.q.kind = "signup" THEN {s.id}
                ELSE {u.id : u \in {u \in db.users : s.q.kind = "login" /\ u.username = s.q.username}})
        /\ expected' = IF Orderly THEN Alone(expected, s.q, s.id) ELSE expected
        /\ UNCHANGED <<setting, log, applied, db, stuck, count>>

\* The connection closes; the handler goes on without the lock.
Disconnect(r) ==
    /\ ~Orderly
    /\ request[r].holds
    /\ request' = [request EXCEPT ![r].holds = FALSE]
    /\ UNCHANGED <<setting, log, applied, db, stuck, tokens, count, expected>>

\* The apply loop.
Apply ==
    /\ applied < Len(log)
    /\ LET run == Executed([db |-> db, stuck |-> stuck], log[applied + 1])
       IN  db' = run.db /\ stuck' = run.stuck
    /\ applied' = applied + 1
    /\ UNCHANGED <<setting, log, request, tokens, count, expected>>

Init ==
    /\ setting \in Setting
    /\ log = <<>>
    /\ applied = 0
    /\ db = InitialDb
    /\ stuck = FALSE
    /\ request = [r \in Slot |-> Idle]
    /\ tokens = Registered
    /\ count = 0
    /\ expected = InitialDb

Next ==
    \/ Apply
    \/ \E r \in Slot : Begin(r) \/ Decide(r) \/ Submit(r) \/ Respond(r) \/ Disconnect(r)

Spec == Init /\ [][Next]_vars

-----------------------------------------------------------------------------
(* What is promised. *)

\* While clients are orderly the database is what the requests answered so far
\* would have made of it one after the other, and they were answered as then,
\* those that only read as before or after what ran along with them: what a
\* handler read is still so when its commands are executed, although the apply
\* loop does not wait for it (the middleware's lock; "mutating verbs serialize
\* via writeLock").  It holds of calm clients; two fetchDocuments of an eager
\* one lose a collection of its list.
AsIfAlone ==
    Orderly =>
        /\ applied = Len(log) /\ (\A r \in Slot : request[r].at = "idle") => db = expected
        /\ \A r \in Slot :
              LET s == request[r]
                  Reply(d) == Handled(s.q, s.id, User(d, s.q.by), d)
              IN  Ends(s) => \E d \in {expected, s.before} :
                                s.reply.ok = Reply(d).ok /\ s.reply.answer = Reply(d).answer

\* Whatever clients do, and whatever order their commands get into the log:
\* what a command changes or deletes by its id is its own user's, the list of
\* that user or a document that user created, in the collection the command
\* names (the handlers' filters on userId).  It says nothing of UPDATE and
\* DELETE in SQL, which have no user and no filter on one: they change the
\* documents of all (POST /api/query/sql).
OnlyOwners ==
    \A i \in DOMAIN log :
        LET c == log[i]
        IN  /\ c.type = "SetList" => c.id = c.by
            /\ c.type \in {"Update", "Delete"} =>
                  \E j \in 1 .. i - 1 :
                      /\ log[j].type = "AddDoc" /\ log[j].id = c.id
                      /\ log[j].by = c.by /\ log[j].coll = c.coll

\* A collection on a user's list is there, also between the two commands that
\* create and list it, and when others do the same (createCollection).
ListedExists ==
    setting # "failing" => \A u \in db.users : u.collections \subseteq db.colls
=============================================================================
