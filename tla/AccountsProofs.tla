--------------------------- MODULE AccountsProofs ---------------------------
(***************************************************************************)
(* Three promises of the accounts API, for any number of users, requests   *)
(* and collections, in this order.                                         *)
(*                                                                         *)
(* OnlyOwners, whatever clients do.  A document of the database was        *)
(* created by a command of the log, with the owner and the collection it   *)
(* has (DocsCreated): an Update leaves both, and so does one in SQL, which *)
(* finds the documents of all.  The other handlers find what they change   *)
(* among the documents of their user, so that what they are still to       *)
(* submit names a document that user has created (ToSubmitOwned); the log  *)
(* only grows, hence this stays, also when other requests go first.        *)
(*                                                                         *)
(* ListedExists, whatever clients do, as long as submitting does not fail. *)
(* The collections of a list are there, or a command that creates them     *)
(* goes before it, in the log or in the same request (ListInv).            *)
(*                                                                         *)
(* AsIfAlone, for clients that are calm.  Every handler starts on the      *)
(* database that the requests before it make, one after the other; GETs    *)
(* leave log and database alone but for a list nobody else is writing, and *)
(* a request that writes has the lock to itself until its commands are in  *)
(* the log, so that a later reader that waits for the apply loop finds     *)
(* them executed (AloneInv).                                               *)
(***************************************************************************)
EXTENDS Accounts, FiniteSetTheorems, WellFoundedInduction, TLAPS

-----------------------------------------------------------------------------
(* The invariant. *)

Kinds ==
    {"signup", "login", "createCollection", "deleteCollection", "createDocument",
     "updateDocument", "deleteDocument", "fetchDocumentContent", "fetchDocuments",
     "fetchDocumentsPaged", "fetchCollections", "getUserData", "getAllUserData",
     "sqlSelect", "sqlInsert", "sqlUpdate", "sqlDelete"}
CommandTypes ==
    {"AddUser", "Create", "SetList", "AddDoc", "Update", "Delete", "SqlUpdate", "SqlDelete"}

IsSequence(s) == Len(s) \in Nat /\ DOMAIN s = 1 .. Len(s)

\* Records with the fields of a database, a document, a request and a reply.
IsDb(d) == d \in [users : {d.users}, colls : {d.colls}, docs : {d.docs}]
IsDoc(x) ==
    x \in [id : {x.id}, userId : {x.userId}, coll : {x.coll}, name : {x.name}, content : {x.content}]
IsReply(y) == y \in [ok : {y.ok}, commands : {y.commands}, answer : {y.answer}]
IsSlot(s) ==
    s \in [at : {s.at}, q : {s.q}, id : {s.id}, user : {s.user}, reply : {s.reply},
           holds : {s.holds}, before : {s.before}]

ShapeOK ==
    /\ IsSequence(log) /\ applied \in 0 .. Len(log) /\ IsDb(db)
    /\ DOMAIN request = Slot
    /\ \A r \in Slot : /\ IsSlot(request[r]) /\ IsReply(request[r].reply)
                       /\ IsSequence(request[r].reply.commands)
                       /\ request[r].at # "idle" => request[r].q.kind \in Kinds

\* A command of l creates the document with this id, for this user.
Created(l, id, by, coll) ==
    \E j \in DOMAIN l : /\ l[j].type = "AddDoc" /\ l[j].id = id
                        /\ l[j].by = by /\ l[j].coll = coll

\* After the commands of l, c is about its own user's list or document.
OwnersCommand(l, c) ==
    /\ c.type \in CommandTypes
    /\ c.type = "SetList" => c.id = c.by
    /\ c.type \in {"Update", "Delete"} => Created(l, c.id, c.by, c.coll)

DocsCreated(d, l) ==
    /\ IsFiniteSet(d.docs)
    /\ \A x \in d.docs : IsDoc(x) /\ Created(l, x.id, x.userId, x.coll)

ToSubmitOwned ==
    \A r \in Slot : \A k \in DOMAIN request[r].reply.commands :
        OwnersCommand(log, request[r].reply.commands[k])

TypesKnown == \A i \in DOMAIN log : log[i].type \in CommandTypes

OwnersInv == ShapeOK /\ DocsCreated(db, log) /\ ToSubmitOwned /\ TypesKnown /\ OnlyOwners

-----------------------------------------------------------------------------
(* Commands, and what handlers make of a database. *)

\* The sequence of a finite set has elements of the set.
LEMMA SetToSeqType ==
    ASSUME NEW S, IsFiniteSet(S)
    PROVE  SetToSeq(S) \in Seq(S)
<1>1. Cardinality(S) \in Nat /\ ExistsBijection(1 .. Cardinality(S), S)
  BY FS_CardinalityType
<1>2. PICK f \in [1 .. Cardinality(S) -> S] : IsInjective(f)
  <2>1. PICK f : f \in Bijection(1 .. Cardinality(S), S)
    BY <1>1 DEF ExistsBijection
  <2> QED BY <2>1 DEF Bijection, Injection, IsInjective
<1>3. SetToSeq(S) \in [1 .. Cardinality(S) -> S]
  BY <1>2 DEF SetToSeq
<1> QED BY <1>1, <1>3

\* A longer log still creates what it did.
LEMMA CreatedLater ==
    ASSUME NEW l, NEW c, IsSequence(l)
    PROVE  /\ IsSequence(Append(l, c)) /\ Len(Append(l, c)) = Len(l) + 1
           /\ \A i \in DOMAIN l : Append(l, c)[i] = l[i]
           /\ Append(l, c)[Len(l) + 1] = c
           /\ \A id, by, coll : Created(l, id, by, coll) => Created(Append(l, c), id, by, coll)
           /\ \A b : OwnersCommand(l, b) => OwnersCommand(Append(l, c), b)
<1>1. /\ IsSequence(Append(l, c)) /\ Len(Append(l, c)) = Len(l) + 1
      /\ \A i \in DOMAIN l : i \in DOMAIN Append(l, c) /\ Append(l, c)[i] = l[i]
      /\ Append(l, c)[Len(l) + 1] = c
  BY DEF IsSequence
<1>2. ASSUME NEW id, NEW by, NEW coll, Created(l, id, by, coll)
      PROVE  Created(Append(l, c), id, by, coll)
  BY <1>1, <1>2 DEF Created
<1> QED BY <1>1, <1>2 DEF OwnersCommand

\* Documents that keep their id, owner and collection.
LEMMA DocsRewritten ==
    ASSUME NEW d, NEW e, NEW l, DocsCreated(d, l), NEW f, e.docs = {f[x] : x \in d.docs},
           \A x \in d.docs : /\ IsDoc(f[x]) /\ f[x].id = x.id
                             /\ f[x].userId = x.userId /\ f[x].coll = x.coll
    PROVE  DocsCreated(e, l)
<1> DEFINE image == {f[x] : x \in d.docs}
<1>1. IsFiniteSet(image)
  <2>1. PICK n \in Nat : ExistsSurjection(1 .. n, d.docs)
    BY FS_NatSurjection DEF DocsCreated
  <2>2. PICK g : g \in Surjection(1 .. n, d.docs)
    BY <2>1 DEF ExistsSurjection
  <2> DEFINE h == [i \in 1 .. n |-> f[g[i]]]
  <2>3. g \in [1 .. n -> d.docs] /\ \A x \in d.docs : \E i \in 1 .. n : g[i] = x
    BY <2>2 DEF Surjection
  <2>4. h \in [1 .. n -> image]
    BY <2>3
  <2>5. ASSUME NEW y \in image PROVE \E i \in 1 .. n : h[i] = y
    BY <2>3
  <2>6. h \in Surjection(1 .. n, image)
    BY <2>4, <2>5 DEF Surjection
  <2> QED BY <2>6, FS_NatSurjection DEF ExistsSurjection
<1>2. ASSUME NEW x \in d.docs PROVE IsDoc(f[x]) /\ Created(l, f[x].id, f[x].userId, f[x].coll)
  BY DEF DocsCreated
<1> QED BY <1>1, <1>2 DEF DocsCreated

\* What a command makes of the documents.
LEMMA EffectOnDocs ==
    ASSUME NEW d, NEW l, NEW c, IsDb(d), DocsCreated(d, l), c.type \in CommandTypes,
           c.type = "AddDoc" => Created(l, c.id, c.by, c.coll)
    PROVE  IsDb(Effect(d, c)) /\ DocsCreated(Effect(d, c), l)
<1>1. CASE c.type \in {"AddUser", "Create", "SetList"}
  <2>1. IsDb(Effect(d, c)) /\ Effect(d, c).docs = d.docs
    BY <1>1 DEF Effect, IsDb, WithList
  <2> QED BY <2>1 DEF DocsCreated
<1>2. CASE c.type = "AddDoc"
  <2> DEFINE doc == [id |-> c.id, userId |-> c.by, coll |-> c.coll,
                     name |-> c.content.name, content |-> c.content.content]
  <2>1. IsDb(Effect(d, c)) /\ Effect(d, c).docs = d.docs \cup {doc}
    BY <1>2 DEF Effect, IsDb
  <2>2. IsFiniteSet(d.docs \cup {doc})
    BY FS_AddElement DEF DocsCreated
  <2>3. IsDoc(doc) /\ Created(l, doc.id, doc.userId, doc.coll)
    BY <1>2 DEF IsDoc
  <2> QED BY <2>1, <2>2, <2>3 DEF DocsCreated
<1>3. CASE c.type = "Update"
  <2> DEFINE f == [x \in d.docs |-> IF x.id = c.id THEN [x EXCEPT !.content = c.content] ELSE x]
  <2>1. IsDb(Effect(d, c)) /\ Effect(d, c).docs = {f[x] : x \in d.docs}
    BY <1>3 DEF Effect, IsDb
  <2>2. ASSUME NEW x \in d.docs
        PROVE  /\ IsDoc(f[x]) /\ f[x].id = x.id
               /\ f[x].userId = x.userId /\ f[x].coll = x.coll
    BY DEF DocsCreated, IsDoc
  <2> HIDE DEF f
  <2> QED BY <2>1, <2>2, DocsRewritten
<1>4. CASE c.type = "Delete"
  <2>1. IsDb(Effect(d, c)) /\ Effect(d, c).docs \in SUBSET d.docs
    BY <1>4 DEF Effect, IsDb
  <2> QED BY <2>1, FS_Subset DEF DocsCreated
<1>5. CASE c.type = "SqlUpdate"
  <2> DEFINE found == Found(d, c.coll, c.content.name)
             f == [x \in d.docs |-> IF x \in found THEN [x EXCEPT !.content = c.content.content] ELSE x]
  <2>1. IsDb(Effect(d, c)) /\ Effect(d, c).docs = {f[x] : x \in d.docs}
    <3> HIDE DEF found
    <3>1. Effect(d, c) = [d EXCEPT !.docs = {IF x \in found THEN [x EXCEPT !.content = c.content.content]
                                             ELSE x : x \in @}]
      BY <1>5 DEF Effect, found
    <3> QED BY <3>1 DEF IsDb
  <2> HIDE DEF found
  <2>2. ASSUME NEW x \in d.docs
        PROVE  /\ IsDoc(f[x]) /\ f[x].id = x.id
               /\ f[x].userId = x.userId /\ f[x].coll = x.coll
    BY DEF DocsCreated, IsDoc
  <2> HIDE DEF f
  <2> QED BY <2>1, <2>2, DocsRewritten
<1>6. CASE c.type = "SqlDelete"
  <2>1. IsDb(Effect(d, c)) /\ Effect(d, c).docs \in SUBSET d.docs
    BY <1>6 DEF Effect, IsDb
  <2> QED BY <2>1, FS_Subset DEF DocsCreated
<1> QED BY <1>1, <1>2, <1>3, <1>4, <1>5, <1>6 DEF CommandTypes

\* A reply is sound: it submits commands about what is its user's.
SoundReply(l, y) ==
    /\ IsReply(y) /\ IsSequence(y.commands)
    /\ \A k \in DOMAIN y.commands : OwnersCommand(l, y.commands[k])

LEMMA NoneOrOne ==
    ASSUME NEW l
    PROVE  /\ SoundReply(l, Refuse) /\ SoundReply(l, Submitting(<<>>))
           /\ \A answer : SoundReply(l, Answering(answer))
           /\ \A c : OwnersCommand(l, c) => SoundReply(l, Submitting(<<c>>))
           /\ \A b, c : OwnersCommand(l, b) /\ OwnersCommand(l, c)
                            => SoundReply(l, Submitting(<<b, c>>))
BY DEF SoundReply, IsReply, IsSequence, Refuse, Submitting, Answering

LEMMA HandledIsSound ==
    ASSUME NEW q, NEW id, NEW user, NEW d, NEW l, q.kind \in Kinds, DocsCreated(d, l)
    PROVE  SoundReply(l, Handled(q, id, user, d))
<1> USE NoneOrOne
<1> DEFINE mine == Named(d, q)
<1>0. \A x \in Own(d, q.by, q.coll) : /\ x \in d.docs /\ x.coll = q.coll /\ x.userId = q.by
                                      /\ Created(l, x.id, q.by, q.coll)
  BY DEF Own, DocsCreated
<1>1. CASE q.kind \in {"signup", "login"}
  <2>1. OwnersCommand(l, AddUser(id, q.username))
    BY DEF OwnersCommand, AddUser, Command, CommandTypes
  <2> QED BY <1>1, <2>1 DEF Handled, IsSql, SignUp, Login
<1>2. CASE q.kind = "createCollection"
  <2>1. \A list : OwnersCommand(l, SetList(q.by, list)) /\ OwnersCommand(l, Create(q.by, q.coll))
    BY DEF OwnersCommand, SetList, Create, Command, CommandTypes
  <2> QED BY <1>2, <2>1 DEF Handled, IsSql, CreateCollection, NewCollection
<1>3. CASE q.kind = "deleteCollection"
  <2> DEFINE own == Own(d, q.by, q.coll)
             docs == SetToSeq(own)
             deletes == [k \in DOMAIN docs |-> DeleteDoc(q.by, docs[k])]
             list == SetList(q.by, user.collections \ {q.coll})
             sent == deletes \o <<list>>
  <2>1. docs \in Seq(own)
    <3>1. IsFiniteSet(own)
      BY FS_Subset DEF DocsCreated, Own
    <3> QED BY <3>1, SetToSeqType
  <2>2. \A x \in own : OwnersCommand(l, DeleteDoc(q.by, x))
    BY <1>0 DEF OwnersCommand, DeleteDoc, Command, CommandTypes
  <2>3. OwnersCommand(l, list)
    BY DEF OwnersCommand, SetList, Command, CommandTypes
  <2> HIDE DEF own, list
  <2>4. deletes \in Seq({DeleteDoc(q.by, x) : x \in own})
    BY <2>1
  <2>5. /\ IsSequence(sent) /\ Len(sent) = Len(deletes) + 1
        /\ \A k \in 1 .. Len(deletes) : sent[k] \in {DeleteDoc(q.by, x) : x \in own}
        /\ sent[Len(deletes) + 1] = list
    BY <2>4 DEF IsSequence
  <2>6. SoundReply(l, Submitting(sent))
    <3>1. \A k \in DOMAIN sent : k \in 1 .. Len(deletes) \/ k = Len(deletes) + 1
      BY <2>4, <2>5 DEF IsSequence
    <3>2. \A k \in DOMAIN sent : OwnersCommand(l, sent[k])
      BY <2>2, <2>3, <2>5, <3>1
    <3> HIDE DEF sent
    <3> QED BY <2>5, <3>2 DEF SoundReply, Submitting, IsReply
  <2>7. Handled(q, id, user, d) \in {Refuse, Submitting(sent)}
    BY <1>3 DEF Handled, IsSql, DeleteCollection, own, list
  <2> QED BY <2>6, <2>7
<1>4. CASE q.kind = "createDocument" \/ IsSql(q)
  <2>1. /\ OwnersCommand(l, AddDoc(q, id))
        /\ OwnersCommand(l, SqlUpdate(q, id)) /\ OwnersCommand(l, SqlDelete(q))
    BY DEF OwnersCommand, AddDoc, SqlUpdate, SqlDelete, Command, CommandTypes
  <2> QED BY <1>4, <2>1 DEF Handled, IsSql, CreateDocument, QuerySql
<1>5. CASE q.kind \in {"updateDocument", "deleteDocument", "fetchDocumentContent"}
  <2>1. ASSUME mine # {} PROVE OneOf(mine) \in Own(d, q.by, q.coll)
    BY <2>1 DEF Named, OneOf
  <2>2. \A x \in Own(d, q.by, q.coll) : /\ OwnersCommand(l, UpdateDoc(q, x, id))
                                        /\ OwnersCommand(l, DeleteDoc(q.by, x))
    BY <1>0 DEF OwnersCommand, UpdateDoc, DeleteDoc, Command, CommandTypes
  <2>3. CASE q.kind = "updateDocument"
    BY <2>1, <2>2, <2>3 DEF Handled, IsSql, UpdateDocument, OfDocument
  <2>4. CASE q.kind = "deleteDocument"
    BY <2>1, <2>2, <2>4 DEF Handled, IsSql, DeleteDocument, OfDocument
  <2>5. CASE q.kind = "fetchDocumentContent"
    BY <2>5 DEF Handled, IsSql, FetchDocumentContent, OfDocument
  <2> QED BY <1>5, <2>3, <2>4, <2>5
<1>6. CASE q.kind \in {"fetchDocuments", "fetchDocumentsPaged", "fetchCollections",
                       "getUserData", "getAllUserData"}
  BY <1>6 DEF Handled, IsSql, FetchDocuments, FetchDocumentsPaged, FetchCollections, GetUserData,
              GetAllUserData
<1> QED BY <1>1, <1>2, <1>3, <1>4, <1>5, <1>6 DEF Kinds, IsSql

-----------------------------------------------------------------------------
(* Steps. *)

LEMMA IdleSlot ==
    /\ IsSlot(Idle) /\ Idle.at = "idle" /\ Idle.reply = Refuse
    /\ IsReply(Idle.reply) /\ IsSequence(Idle.reply.commands)
<1>1. IsReply(Refuse) /\ IsSequence(Refuse.commands)
  BY DEF Refuse, IsReply, IsSequence
<1>2. IsSlot(Idle) /\ Idle.at = "idle" /\ Idle.reply = Refuse
  BY DEF Idle, IsSlot
<1> QED BY <1>1, <1>2

LEMMA OwnersInit == Init => OwnersInv
<1> SUFFICES ASSUME Init PROVE OwnersInv
  OBVIOUS
<1>1. ShapeOK
  <2>1. IsSequence(log) /\ applied \in 0 .. Len(log)
    BY DEF Init, IsSequence
  <2>2. IsDb(db)
    BY DEF Init, InitialDb, IsDb
  <2> QED BY <2>1, <2>2, IdleSlot DEF Init, ShapeOK
<1>2. DocsCreated(db, log)
  BY FS_EmptySet DEF Init, InitialDb, DocsCreated
<1>3. ToSubmitOwned /\ TypesKnown /\ OnlyOwners
  BY DEF Init, Idle, Refuse, ToSubmitOwned, TypesKnown, OnlyOwners
<1> QED BY <1>1, <1>2, <1>3 DEF OwnersInv

LEMMA OwnersStep == OwnersInv /\ [Next]_vars => OwnersInv'
<1> SUFFICES ASSUME OwnersInv, [Next]_vars PROVE OwnersInv'
  OBVIOUS
<1>1. CASE UNCHANGED vars
  BY <1>1 DEF vars, OwnersInv, ShapeOK, ToSubmitOwned, TypesKnown, OnlyOwners
<1>2. CASE Apply
  <2> DEFINE c == log[applied + 1]
             run == Executed([db |-> db, stuck |-> stuck], c)
  <2>1. applied' \in 0 .. Len(log) /\ applied + 1 \in DOMAIN log
    BY <1>2 DEF Apply, OwnersInv, ShapeOK, IsSequence
  <2>2. c.type \in CommandTypes /\ (c.type = "AddDoc" => Created(log, c.id, c.by, c.coll))
    BY <2>1 DEF OwnersInv, TypesKnown, Created
  <2>3. IsDb(Effect(db, c)) /\ DocsCreated(Effect(db, c), log)
    BY <2>2, EffectOnDocs DEF OwnersInv, ShapeOK
  <2>4. run.db \in {db, Effect(db, c)}
    BY DEF Executed
  <2>5. db' = run.db /\ UNCHANGED <<log, request>>
    BY <1>2 DEF Apply
  <2>6. IsDb(db') /\ DocsCreated(db', log)
    BY <2>3, <2>4, <2>5 DEF OwnersInv, ShapeOK
  <2> QED BY <2>1, <2>5, <2>6 DEF OwnersInv, ShapeOK, ToSubmitOwned, TypesKnown, OnlyOwners
<1>3. ASSUME NEW r \in Slot, Begin(r) PROVE OwnersInv'
  <2>1. PICK q \in Requests :
            request' = [request EXCEPT ![r] =
                [Idle EXCEPT !.at = "deciding", !.q = q, !.id = count + 1,
                             !.user = User(db, q.by), !.holds = TRUE, !.before = expected]]
    BY <1>3 DEF Begin
  <2>2. q.kind \in Kinds
    BY DEF Requests, Request, Kinds
  <2>3. DOMAIN request' = Slot /\ \A k \in Slot \ {r} : request'[k] = request[k]
    BY <2>1 DEF OwnersInv, ShapeOK
  <2>4. /\ IsSlot(request'[r]) /\ request'[r].q = q /\ request'[r].reply = Refuse
    BY <2>1 DEF OwnersInv, ShapeOK, Idle, IsSlot
  <2>5. UNCHANGED <<log, applied, db>>
    BY <1>3 DEF Begin
  <2>6. ShapeOK'
    BY <2>2, <2>3, <2>4, <2>5 DEF OwnersInv, ShapeOK, Refuse, IsReply, IsSequence
  <2>7. ToSubmitOwned'
    BY <2>3, <2>4, <2>5 DEF OwnersInv, ToSubmitOwned, Refuse
  <2> QED BY <2>5, <2>6, <2>7 DEF OwnersInv, TypesKnown, OnlyOwners
<1>4. ASSUME NEW r \in Slot, Decide(r) PROVE OwnersInv'
  <2> DEFINE s == request[r]
             reply == Handled(s.q, s.id, s.user, db)
  <2>1. /\ request' = [request EXCEPT ![r] = [@ EXCEPT !.at = "submitting", !.reply = reply]]
        /\ s.at = "deciding" /\ db' = WrittenHere(s.q, s.user, db) /\ UNCHANGED <<log, applied>>
    BY <1>4 DEF Decide
  <2>2. s.q.kind \in Kinds
    BY <2>1 DEF OwnersInv, ShapeOK
  <2>3. SoundReply(log, reply)
    BY <2>2, HandledIsSound DEF OwnersInv
  <2>4. DOMAIN request' = Slot /\ \A k \in Slot \ {r} : request'[k] = request[k]
    BY <2>1 DEF OwnersInv, ShapeOK
  <2> HIDE DEF reply
  <2>5. IsSlot(request'[r]) /\ request'[r].reply = reply /\ request'[r].q = s.q
    <3>1. IsSlot(s) /\ request'[r] = [s EXCEPT !.at = "submitting", !.reply = reply]
      BY <2>1 DEF OwnersInv, ShapeOK
    <3> QED BY <3>1 DEF IsSlot
  <2>6. IsDb(db') /\ db'.docs = db.docs
    BY <2>1 DEF WrittenHere, WithList, OwnersInv, ShapeOK, IsDb
  <2>7. ShapeOK'
    BY <2>1, <2>2, <2>3, <2>4, <2>5, <2>6 DEF OwnersInv, ShapeOK, SoundReply
  <2>8. ToSubmitOwned'
    BY <2>1, <2>3, <2>4, <2>5 DEF OwnersInv, ToSubmitOwned, SoundReply
  <2> QED BY <2>1, <2>6, <2>7, <2>8 DEF OwnersInv, DocsCreated, TypesKnown, OnlyOwners
<1>5. ASSUME NEW r \in Slot, Submit(r) PROVE OwnersInv'
  <2> DEFINE s == request[r]
             sent == s.reply.commands
             c == Head(sent)
  <2>1. /\ sent # <<>> /\ request' = [request EXCEPT ![r].reply.commands = Tail(sent)]
        /\ log' = Append(log, c) \/ log' = log
        /\ UNCHANGED <<applied, db>>
    BY <1>5 DEF Submit
  <2>2. DOMAIN request' = Slot /\ \A k \in Slot \ {r} : request'[k] = request[k]
    BY <2>1 DEF OwnersInv, ShapeOK
  <2>3. /\ IsSlot(request'[r]) /\ IsReply(request'[r].reply)
        /\ request'[r].at = s.at /\ request'[r].q = s.q
        /\ request'[r].reply.commands = Tail(sent)
    <3> DEFINE y == [s.reply EXCEPT !.commands = Tail(sent)]
    <3>1. IsSlot(s) /\ IsReply(s.reply) /\ request'[r] = [s EXCEPT !.reply = y]
      BY <2>1 DEF OwnersInv, ShapeOK
    <3>2. IsReply(y) /\ y.commands = Tail(sent)
      BY <3>1 DEF IsReply
    <3> HIDE DEF y
    <3> QED BY <3>1, <3>2 DEF IsSlot
  <2>4. /\ IsSequence(sent) /\ 1 \in DOMAIN sent /\ c = sent[1] /\ IsSequence(Tail(sent))
        /\ \A k \in DOMAIN Tail(sent) : k + 1 \in DOMAIN sent /\ Tail(sent)[k] = sent[k + 1]
    BY <2>1 DEF OwnersInv, ShapeOK, IsSequence
  <2>5. \A k \in DOMAIN sent : OwnersCommand(log, sent[k])
    BY DEF OwnersInv, ToSubmitOwned
  <2> HIDE DEF sent
  <2>6. \A k \in Slot : \A i \in DOMAIN request'[k].reply.commands :
            OwnersCommand(log, request'[k].reply.commands[i])
    BY <2>2, <2>3, <2>4, <2>5 DEF OwnersInv, ToSubmitOwned
  <2>7. ShapeOK /\ IsSequence(log) /\ OwnersCommand(log, c)
    BY <2>4, <2>5 DEF OwnersInv, ShapeOK
  <2>8. CASE log' = log
    <3>1. ShapeOK'
      BY <2>1, <2>2, <2>3, <2>4, <2>7, <2>8 DEF ShapeOK
    <3> QED BY <2>1, <2>6, <2>8, <3>1 DEF OwnersInv, ToSubmitOwned, TypesKnown, OnlyOwners
  <2>9. CASE log' = Append(log, c)
    <3> HIDE DEF c
    <3>1. /\ IsSequence(log') /\ Len(log') = Len(log) + 1
          /\ \A i \in DOMAIN log : log'[i] = log[i]
          /\ log'[Len(log) + 1] = c
          /\ \A id, by, coll : Created(log, id, by, coll) => Created(log', id, by, coll)
          /\ \A b : OwnersCommand(log, b) => OwnersCommand(log', b)
      <4> DEFINE l == log
      <4>1. IsSequence(l)
        BY <2>7
      <4> HIDE DEF l
      <4>2. /\ IsSequence(Append(l, c)) /\ Len(Append(l, c)) = Len(l) + 1
            /\ \A i \in DOMAIN l : Append(l, c)[i] = l[i]
            /\ Append(l, c)[Len(l) + 1] = c
            /\ \A id, by, coll : Created(l, id, by, coll) => Created(Append(l, c), id, by, coll)
            /\ \A b : OwnersCommand(l, b) => OwnersCommand(Append(l, c), b)
        BY <4>1, CreatedLater
      <4> QED BY <2>9, <4>2, Zenon DEF l
    <3>2. /\ DOMAIN log = 1 .. Len(log) /\ Len(log) \in Nat
          /\ \A i \in DOMAIN log' : i \in DOMAIN log \/ i = Len(log) + 1
      BY <2>7, <3>1 DEF IsSequence
    <3>3. ShapeOK'
      <4>1. applied' \in 0 .. Len(log')
        BY <2>1, <2>7, <3>1, <3>2 DEF ShapeOK
      <4> QED BY <2>1, <2>2, <2>3, <2>4, <2>7, <3>1, <4>1 DEF ShapeOK
    <3>4. DocsCreated(db', log')
      BY <2>1, <3>1 DEF OwnersInv, DocsCreated
    <3>5. ToSubmitOwned'
      BY <2>6, <3>1 DEF ToSubmitOwned
    <3>6. TypesKnown'
      BY <2>7, <3>1, <3>2 DEF OwnersInv, TypesKnown, OwnersCommand
    <3>7. OnlyOwners'
      <4>1. ASSUME NEW i \in DOMAIN log
            PROVE  \A j \in 1 .. i - 1 : j \in DOMAIN log /\ log'[j] = log[j]
        BY <3>1, <3>2
      <4>2. ASSUME NEW id, NEW by, NEW coll, Created(log, id, by, coll)
            PROVE  \E j \in 1 .. Len(log) + 1 - 1 :
                       /\ log'[j].type = "AddDoc" /\ log'[j].id = id
                       /\ log'[j].by = by /\ log'[j].coll = coll
        BY <3>1, <3>2, <4>2 DEF Created
      <4>3. ASSUME NEW i \in DOMAIN log', i \in DOMAIN log
            PROVE  /\ log'[i].type = "SetList" => log'[i].id = log'[i].by
                   /\ log'[i].type \in {"Update", "Delete"} =>
                         \E j \in 1 .. i - 1 :
                             /\ log'[j].type = "AddDoc" /\ log'[j].id = log'[i].id
                             /\ log'[j].by = log'[i].by /\ log'[j].coll = log'[i].coll
        <5>1. log'[i] = log[i]
          BY <3>1, <4>3
        <5>2. log[i].type \in {"Update", "Delete"} =>
                  \E j \in 1 .. i - 1 :
                      /\ log[j].type = "AddDoc" /\ log[j].id = log[i].id
                      /\ log[j].by = log[i].by /\ log[j].coll = log[i].coll
          BY <4>3 DEF OwnersInv, OnlyOwners
        <5> QED BY <4>1, <4>3, <5>1, <5>2 DEF OwnersInv, OnlyOwners
      <4>4. /\ c.type = "SetList" => c.id = c.by
            /\ c.type \in {"Update", "Delete"} => Created(log, c.id, c.by, c.coll)
        BY <2>7 DEF OwnersCommand
      <4> QED BY <3>1, <3>2, <4>2, <4>3, <4>4 DEF OnlyOwners
    <3> QED BY <3>3, <3>4, <3>5, <3>6, <3>7 DEF OwnersInv
  <2> QED BY <2>1, <2>8, <2>9
<1>6. ASSUME NEW r \in Slot, Respond(r) PROVE OwnersInv'
  <2>1. request' = [request EXCEPT ![r] = Idle] /\ UNCHANGED <<log, applied, db>>
    BY <1>6 DEF Respond
  <2>2. ShapeOK'
    BY <2>1, IdleSlot DEF OwnersInv, ShapeOK
  <2>3. ToSubmitOwned'
    BY <2>1 DEF OwnersInv, ShapeOK, ToSubmitOwned, Idle, Refuse
  <2> QED BY <2>1, <2>2, <2>3 DEF OwnersInv, TypesKnown, OnlyOwners
<1>7. ASSUME NEW r \in Slot, Disconnect(r) PROVE OwnersInv'
  <2>1. request' = [request EXCEPT ![r].holds = FALSE] /\ UNCHANGED <<log, applied, db>>
    BY <1>7 DEF Disconnect
  <2>2. IsSlot(request[r]) /\ request'[r] = [request[r] EXCEPT !.holds = FALSE]
    BY <2>1 DEF OwnersInv, ShapeOK
  <2>3. /\ IsSlot(request'[r]) /\ request'[r].reply = request[r].reply
        /\ request'[r].at = request[r].at /\ request'[r].q = request[r].q
    BY <2>2 DEF IsSlot
  <2>4. DOMAIN request' = Slot /\ \A k \in Slot \ {r} : request'[k] = request[k]
    BY <2>1 DEF OwnersInv, ShapeOK
  <2>5. ShapeOK' /\ ToSubmitOwned'
    BY <2>1, <2>3, <2>4 DEF OwnersInv, ShapeOK, ToSubmitOwned
  <2> QED BY <2>1, <2>5 DEF OwnersInv, TypesKnown, OnlyOwners
<1> QED BY <1>1, <1>2, <1>3, <1>4, <1>5, <1>6, <1>7 DEF Next

\* Whatever clients do and whatever fails, what a request changes or deletes is
\* by its id is the list of its own user, or a document this user created (the
\* handlers of simpledbmsd.mts and their filters on userId; not UPDATE and
\* DELETE in SQL, which filter on no user).
THEOREM OwnersAlone == Spec => []OnlyOwners
<1>1. OwnersInv => OnlyOwners
  BY DEF OwnersInv
<1> QED BY <1>1, OwnersInit, OwnersStep, PTL DEF Spec

-----------------------------------------------------------------------------
(* Lists of collections.  A list names a collection that is there, or that  *)
(* a command before the list in the log, or before it in the same request,  *)
(* is to create: as long as submitting does not fail, that command goes     *)
(* first, and the application executes both or, once stuck, neither.        *)

IsUser(u) == u \in [id : {u.id}, username : {u.username}, collections : {u.collections}]

\* What is listed in a database, and what its documents are in, is there.
CollsThere(d) ==
    /\ \A u \in d.users : IsUser(u) /\ u.collections \subseteq d.colls
    /\ \A x \in d.docs : x.coll \in d.colls

\* One of the commands of l before the i-th creates the collection.
Announced(l, i, coll) == \E j \in 1 .. i - 1 : l[j].type = "Create" /\ l[j].coll = coll

ExecutedThere == stuck \/ \A j \in 1 .. applied : log[j].type = "Create" => log[j].coll \in db.colls

ReadThere == \A r \in Slot : request[r].user # Nil => request[r].user.collections \subseteq db.colls

ListsAnnounced ==
    \A i \in DOMAIN log : log[i].type = "SetList" =>
        \A x \in log[i].content : x \in db.colls \/ Announced(log, i, x)

AnnouncedBy(y, d, l) ==
    \A k \in DOMAIN y.commands : y.commands[k].type = "SetList" =>
        \A x \in y.commands[k].content :
            \/ x \in d.colls
            \/ Announced(l, Len(l) + 1, x)
            \/ Announced(y.commands, k, x)

ToSubmitAnnounced == \A r \in Slot : AnnouncedBy(request[r].reply, db, log)

ListInv ==
    setting # "failing" =>
        /\ CollsThere(db) /\ ExecutedThere /\ ReadThere
        /\ ListsAnnounced /\ ToSubmitAnnounced

\* No command removes a collection.
LEMMA EffectOnColls ==
    ASSUME NEW d, NEW l, NEW c, IsDb(d), DocsCreated(d, l), CollsThere(d), c.type \in CommandTypes,
           c.type = "SetList" => c.content \subseteq d.colls
    PROVE  /\ CollsThere(Effect(d, c)) /\ d.colls \subseteq Effect(d, c).colls
           /\ c.type = "Create" => c.coll \in Effect(d, c).colls
<1>1. CASE c.type = "AddUser"
  <2> DEFINE u == [id |-> c.id, username |-> c.content, collections |-> {}]
  <2>1. /\ Effect(d, c).users = d.users \cup {u}
        /\ Effect(d, c).colls = d.colls /\ Effect(d, c).docs = d.docs
    BY <1>1 DEF Effect, IsDb
  <2>2. IsUser(u) /\ u.collections = {}
    BY DEF IsUser
  <2> QED BY <1>1, <2>1, <2>2 DEF CollsThere
<1>2. CASE c.type = "Create"
  <2>1. /\ Effect(d, c).users = d.users
        /\ Effect(d, c).colls = d.colls \cup {c.coll} /\ Effect(d, c).docs = d.docs
    BY <1>2 DEF Effect, IsDb
  <2> QED BY <2>1 DEF CollsThere
<1>3. CASE c.type = "SetList"
  <2> DEFINE f(u) == IF u.id = c.id THEN [u EXCEPT !.collections = c.content] ELSE u
  <2>1. /\ Effect(d, c).users = {f(u) : u \in d.users}
        /\ Effect(d, c).colls = d.colls /\ Effect(d, c).docs = d.docs
    BY <1>3 DEF Effect, IsDb, WithList
  <2>2. ASSUME NEW u \in d.users PROVE IsUser(f(u)) /\ f(u).collections \subseteq d.colls
    BY <1>3 DEF CollsThere, IsUser
  <2> QED BY <1>3, <2>1, <2>2 DEF CollsThere
<1>4. CASE c.type = "AddDoc"
  <2> DEFINE x == [id |-> c.id, userId |-> c.by, coll |-> c.coll,
                   name |-> c.content.name, content |-> c.content.content]
  <2>1. /\ Effect(d, c).users = d.users
        /\ Effect(d, c).colls = d.colls \cup {c.coll} /\ Effect(d, c).docs = d.docs \cup {x}
    BY <1>4 DEF Effect, IsDb
  <2> QED BY <1>4, <2>1 DEF CollsThere
<1>5. CASE c.type = "Update"
  <2> DEFINE f(x) == IF x.id = c.id THEN [x EXCEPT !.content = c.content] ELSE x
  <2>1. /\ Effect(d, c).users = d.users
        /\ Effect(d, c).colls = d.colls /\ Effect(d, c).docs = {f(x) : x \in d.docs}
    BY <1>5 DEF Effect, IsDb
  <2>2. ASSUME NEW x \in d.docs PROVE f(x).coll = x.coll
    BY DEF DocsCreated, IsDoc
  <2> QED BY <1>5, <2>1, <2>2 DEF CollsThere
<1>6. CASE c.type \in {"Delete", "SqlDelete"}
  <2>1. /\ Effect(d, c).users = d.users
        /\ Effect(d, c).colls = d.colls /\ Effect(d, c).docs \subseteq d.docs
    BY <1>6 DEF Effect, IsDb
  <2> QED BY <1>6, <2>1 DEF CollsThere
<1>7. CASE c.type = "SqlUpdate"
  <2> DEFINE found == Found(d, c.coll, c.content.name)
             f(x) == IF x \in found THEN [x EXCEPT !.content = c.content.content] ELSE x
  <2>1. /\ Effect(d, c).users = d.users
        /\ Effect(d, c).colls = d.colls /\ Effect(d, c).docs = {f(x) : x \in d.docs}
    BY <1>7 DEF Effect, IsDb
  <2> HIDE DEF found
  <2>2. ASSUME NEW x \in d.docs PROVE f(x).coll = x.coll
    BY DEF DocsCreated, IsDoc
  <2> QED BY <1>7, <2>1, <2>2 DEF CollsThere
<1> QED BY <1>1, <1>2, <1>3, <1>4, <1>5, <1>6, <1>7 DEF CommandTypes

\* Replies without a list, and with one that goes last.
LEMMA ListAlone ==
    ASSUME NEW d, NEW l
    PROVE  /\ AnnouncedBy(Refuse, d, l) /\ AnnouncedBy(Submitting(<<>>), d, l)
           /\ \A answer : AnnouncedBy(Answering(answer), d, l)
           /\ \A c : c.type # "SetList" => AnnouncedBy(Submitting(<<c>>), d, l)
BY DEF AnnouncedBy, Refuse, Submitting, Answering

LEMMA HandledAnnounces ==
    ASSUME NEW q, NEW id, NEW user, NEW d, NEW l, q.kind \in Kinds, DocsCreated(d, l),
           user # Nil => user.collections \subseteq d.colls
    PROVE  AnnouncedBy(Handled(q, id, user, d), d, l)
<1> USE ListAlone
<1>1. CASE q.kind \in {"signup", "login"}
  <2>1. AddUser(id, q.username).type # "SetList"
    BY DEF AddUser, Command
  <2> QED BY <1>1, <2>1 DEF Handled, IsSql, SignUp, Login
<1>2. CASE q.kind = "createCollection"
  <2> DEFINE y == Submitting(NewCollection(q, user))
  <2>1. ASSUME user # Nil PROVE AnnouncedBy(y, d, l)
    <3>1. /\ y.commands = <<Create(q.by, q.coll), SetList(q.by, user.collections \cup {q.coll})>>
          /\ Create(q.by, q.coll).type = "Create" /\ Create(q.by, q.coll).coll = q.coll
          /\ SetList(q.by, user.collections \cup {q.coll}).content = user.collections \cup {q.coll}
      BY DEF Submitting, NewCollection, Create, SetList, Command
    <3> HIDE DEF y
    <3>2. Announced(y.commands, 2, q.coll)
      BY <3>1 DEF Announced
    <3>3. DOMAIN y.commands = {1, 2} /\ y.commands[1].type # "SetList"
      BY <3>1
    <3>4. \A x \in y.commands[2].content : x \in d.colls \/ Announced(y.commands, 2, x)
      <4>1. y.commands[2] = SetList(q.by, user.collections \cup {q.coll})
        BY <3>1
      <4>2. y.commands[2].content = user.collections \cup {q.coll}
        BY <3>1, <4>1
      <4> QED BY <2>1, <3>2, <4>2
    <3> QED BY <3>3, <3>4 DEF AnnouncedBy
  <2> HIDE DEF y
  <2>2. Handled(q, id, user, d) \in {Submitting(<<>>), Refuse} \/ (user # Nil /\ Handled(q, id, user, d) = y)
    BY <1>2 DEF Handled, IsSql, CreateCollection, y
  <2> QED BY <2>1, <2>2
<1>3. CASE q.kind = "deleteCollection"
  <2> DEFINE own == Own(d, q.by, q.coll)
             docs == SetToSeq(own)
             deletes == [k \in DOMAIN docs |-> DeleteDoc(q.by, docs[k])]
             list == SetList(q.by, user.collections \ {q.coll})
             sent == deletes \o <<list>>
  <2>1. docs \in Seq(own)
    <3>1. IsFiniteSet(own)
      BY FS_Subset DEF DocsCreated, Own
    <3> QED BY <3>1, SetToSeqType
  <2>2. \A x \in own : DeleteDoc(q.by, x).type # "SetList"
    BY DEF DeleteDoc, Command
  <2>3. list.content = user.collections \ {q.coll}
    BY DEF SetList, Command
  <2> HIDE DEF own, list
  <2>4. deletes \in Seq({DeleteDoc(q.by, x) : x \in own})
    BY <2>1
  <2>5. /\ \A k \in DOMAIN sent : k \in 1 .. Len(deletes) \/ k = Len(deletes) + 1
        /\ \A k \in 1 .. Len(deletes) : sent[k] \in {DeleteDoc(q.by, x) : x \in own}
        /\ sent[Len(deletes) + 1] = list
    BY <2>4
  <2> HIDE DEF deletes
  <2>6. ASSUME user # Nil PROVE AnnouncedBy(Submitting(sent), d, l)
    <3>1. Submitting(sent).commands = sent
      BY DEF Submitting
    <3> HIDE DEF sent
    <3>2. ASSUME NEW k \in DOMAIN sent, sent[k].type = "SetList"
          PROVE  sent[k].content \subseteq d.colls
      BY <2>2, <2>3, <2>5, <2>6, <3>2
    <3> QED BY <3>1, <3>2 DEF AnnouncedBy
  <2>7. Handled(q, id, user, d) = Refuse \/ (user # Nil /\ Handled(q, id, user, d) = Submitting(sent))
    BY <1>3 DEF Handled, IsSql, DeleteCollection, own, list, deletes, Lists
  <2> QED BY <2>6, <2>7
<1>4. CASE q.kind = "createDocument" \/ IsSql(q)
  <2>1. "SetList" \notin {AddDoc(q, id).type, SqlUpdate(q, id).type, SqlDelete(q).type}
    BY DEF AddDoc, SqlUpdate, SqlDelete, Command
  <2> QED BY <1>4, <2>1 DEF Handled, IsSql, CreateDocument, QuerySql
<1>5. CASE q.kind \in {"updateDocument", "deleteDocument", "fetchDocumentContent"}
  <2>1. \A x : UpdateDoc(q, x, id).type # "SetList" /\ DeleteDoc(q.by, x).type # "SetList"
    BY DEF UpdateDoc, DeleteDoc, Command
  <2> QED BY <1>5, <2>1 DEF Handled, IsSql, UpdateDocument, DeleteDocument, FetchDocumentContent,
                          OfDocument
<1>6. CASE q.kind \in {"fetchDocuments", "fetchDocumentsPaged", "fetchCollections",
                       "getUserData", "getAllUserData"}
  BY <1>6 DEF Handled, IsSql, FetchDocuments, FetchDocumentsPaged, FetchCollections, GetUserData,
              GetAllUserData
<1> QED BY <1>1, <1>2, <1>3, <1>4, <1>5, <1>6 DEF Kinds, IsSql

\* What was announced stays so when collections and the log only grow.
LEMMA AnnouncedLater ==
    ASSUME NEW y, NEW d, NEW e, NEW l, NEW c, IsSequence(l), AnnouncedBy(y, d, l),
           d.colls \subseteq e.colls
    PROVE  AnnouncedBy(y, e, l) /\ AnnouncedBy(y, e, Append(l, c))
<1>1. /\ Len(l) \in Nat /\ Len(Append(l, c)) = Len(l) + 1
      /\ \A i \in 1 .. Len(l) : Append(l, c)[i] = l[i]
  BY CreatedLater DEF IsSequence
<1>2. \A x : Announced(l, Len(l) + 1, x) => Announced(Append(l, c), Len(Append(l, c)) + 1, x)
  BY <1>1 DEF Announced
<1> QED BY <1>2 DEF AnnouncedBy

LEMMA ListsLater ==
    ASSUME db.colls \subseteq db'.colls, IsSequence(log), log' = log,
           ReadThere, ListsAnnounced, ToSubmitAnnounced, request' = request
    PROVE  ReadThere' /\ ListsAnnounced' /\ ToSubmitAnnounced'
BY AnnouncedLater DEF ReadThere, ListsAnnounced, ToSubmitAnnounced

LEMMA ListInit == Init => ListInv
<1> SUFFICES ASSUME Init PROVE ListInv
  OBVIOUS
<1>1. CollsThere(db)
  BY DEF Init, InitialDb, CollsThere, IsUser
<1>2. ExecutedThere /\ ListsAnnounced
  BY DEF Init, ExecutedThere, ListsAnnounced
<1>3. ReadThere /\ ToSubmitAnnounced
  BY ListAlone DEF Init, Idle, ReadThere, ToSubmitAnnounced
<1> QED BY <1>1, <1>2, <1>3 DEF ListInv

LEMMA ListStep == OwnersInv /\ ListInv /\ [Next]_vars => ListInv'
<1> SUFFICES ASSUME OwnersInv, ListInv, [Next]_vars, setting' # "failing" PROVE ListInv'
  BY DEF ListInv
<1>0. /\ setting' = setting /\ setting # "failing"
      /\ CollsThere(db) /\ ExecutedThere /\ ReadThere /\ ListsAnnounced /\ ToSubmitAnnounced
      /\ IsSequence(log) /\ applied \in 0 .. Len(log) /\ IsDb(db) /\ DocsCreated(db, log)
  <2>1. setting' = setting
    BY DEF Next, vars, Apply, Begin, Decide, Submit, Respond, Disconnect
  <2> QED BY <2>1 DEF ListInv, OwnersInv, ShapeOK
<1>1. CASE UNCHANGED vars
  BY <1>0, <1>1 DEF vars, ListInv, ExecutedThere, ReadThere, ListsAnnounced, ToSubmitAnnounced
<1>2. CASE Apply
  <2> DEFINE c == log[applied + 1]
             run == Executed([db |-> db, stuck |-> stuck], c)
  <2>1. /\ db' = run.db /\ stuck' = run.stuck /\ applied' = applied + 1
        /\ UNCHANGED <<log, request>> /\ applied + 1 \in DOMAIN log
    BY <1>0, <1>2 DEF Apply, IsSequence
  <2>2. c.type \in CommandTypes
    BY <2>1 DEF OwnersInv, TypesKnown
  <2>3. CASE stuck \/ Sticks(db, c)
    <3>1. stuck' = TRUE /\ db' = db
      BY <2>1, <2>3 DEF Executed
    <3> QED BY <1>0, <2>1, <3>1, ListsLater DEF ListInv, ExecutedThere
  <2>4. CASE ~ stuck /\ ~ Sticks(db, c)
    <3>1. stuck' = stuck /\ db' = Effect(db, c)
      BY <2>1, <2>4 DEF Executed
    <3>2. ASSUME c.type = "SetList" PROVE c.content \subseteq db.colls
      <4>1. \A j \in 1 .. applied : log[j].type = "Create" => log[j].coll \in db.colls
        BY <1>0, <2>4 DEF ExecutedThere
      <4>2. \A x \in c.content : x \in db.colls \/ Announced(log, applied + 1, x)
        BY <1>0, <2>1, <3>2 DEF ListsAnnounced
      <4>3. \A x : Announced(log, applied + 1, x) => x \in db.colls
        BY <1>0, <4>1 DEF Announced
      <4> QED BY <4>2, <4>3
    <3> HIDE DEF c
    <3>3. /\ CollsThere(db') /\ db.colls \subseteq db'.colls
          /\ c.type = "Create" => c.coll \in db'.colls
      BY <1>0, <2>2, <3>1, <3>2, EffectOnColls
    <3>4. ExecutedThere'
      <4>1. \A j \in 1 .. applied + 1 : j \in 1 .. applied \/ (j = applied + 1 /\ log[j] = c)
        BY <1>0 DEF c
      <4> QED BY <1>0, <2>1, <2>4, <3>3, <4>1 DEF ExecutedThere
    <3> QED BY <1>0, <2>1, <3>3, <3>4, ListsLater DEF ListInv
  <2> QED BY <2>3, <2>4
<1>3. ASSUME NEW r \in Slot, Begin(r) PROVE ListInv'
  <2>1. PICK q \in Requests :
            request' = [request EXCEPT ![r] =
                [Idle EXCEPT !.at = "deciding", !.q = q, !.id = count + 1,
                             !.user = User(db, q.by), !.holds = TRUE, !.before = expected]]
    BY <1>3 DEF Begin
  <2>2. /\ \A k \in Slot \ {r} : request'[k] = request[k]
        /\ request'[r].user = User(db, q.by) /\ request'[r].reply = Refuse
    BY <2>1 DEF OwnersInv, ShapeOK, Idle
  <2>3. UNCHANGED <<log, applied, db, stuck>>
    BY <1>3 DEF Begin
  <2>4. User(db, q.by) # Nil => User(db, q.by) \in db.users
    BY DEF User, WithId, OneOf
  <2>5. ReadThere'
    BY <1>0, <2>2, <2>3, <2>4 DEF ReadThere, CollsThere
  <2>6. ToSubmitAnnounced'
    BY <1>0, <2>2, <2>3, ListAlone DEF ToSubmitAnnounced
  <2> QED BY <1>0, <2>3, <2>5, <2>6 DEF ListInv, ExecutedThere, ListsAnnounced
<1>4. ASSUME NEW r \in Slot, Decide(r) PROVE ListInv'
  <2> DEFINE s == request[r]
             reply == Handled(s.q, s.id, s.user, db)
             grown == s.user.collections \cup {s.q.coll}
  <2>1. /\ request' = [request EXCEPT ![r] = [@ EXCEPT !.at = "submitting", !.reply = reply]]
        /\ s.at = "deciding" /\ db' = WrittenHere(s.q, s.user, db)
        /\ UNCHANGED <<log, applied, stuck>>
    BY <1>4 DEF Decide
  <2>2. s.q.kind \in Kinds /\ IsSlot(s)
    BY <2>1 DEF OwnersInv, ShapeOK
  <2>3. s.user # Nil => s.user.collections \subseteq db.colls
    BY <1>0 DEF ReadThere
  <2>4. AnnouncedBy(reply, db, log)
    BY <1>0, <2>2, <2>3, HandledAnnounces
  <2> HIDE DEF reply
  <2>5. /\ \A k \in Slot \ {r} : request'[k] = request[k]
        /\ request'[r].reply = reply /\ request'[r].user = s.user
    <3>1. request'[r] = [s EXCEPT !.at = "submitting", !.reply = reply]
      BY <2>1 DEF OwnersInv, ShapeOK
    <3> QED BY <2>1, <2>2, <3>1 DEF IsSlot, OwnersInv, ShapeOK
  <2>6. CollsThere(db') /\ db'.colls = db.colls
    <3>1. CASE db' = db
      BY <1>0, <3>1
    <3>2. CASE /\ db' = WithList(db, s.q.by, grown) /\ s.user # Nil
               /\ Own(db, s.q.by, s.q.coll) # {}
      <4>1. grown \subseteq db.colls
        BY <1>0, <2>3, <3>2 DEF Own, CollsThere
      <4> DEFINE f(u) == IF u.id = s.q.by THEN [u EXCEPT !.collections = grown] ELSE u
      <4>2. db'.users = {f(u) : u \in db.users} /\ db'.colls = db.colls /\ db'.docs = db.docs
        BY <1>0, <3>2 DEF WithList, IsDb
      <4> HIDE DEF grown
      <4>3. ASSUME NEW u \in db.users PROVE IsUser(f(u)) /\ f(u).collections \subseteq db.colls
        BY <1>0, <4>1 DEF CollsThere, IsUser
      <4> QED BY <1>0, <4>2, <4>3 DEF CollsThere
    <3> QED BY <2>1, <3>1, <3>2 DEF WrittenHere
  <2>7. ReadThere'
    BY <1>0, <2>5, <2>6 DEF ReadThere
  <2>8. ToSubmitAnnounced'
    BY <1>0, <2>1, <2>4, <2>5, <2>6 DEF ToSubmitAnnounced, AnnouncedBy
  <2> QED BY <1>0, <2>1, <2>6, <2>7, <2>8 DEF ListInv, ExecutedThere, ListsAnnounced
<1>5. ASSUME NEW r \in Slot, Submit(r) PROVE ListInv'
  <2> DEFINE s == request[r]
             sent == s.reply.commands
             c == Head(sent)
  <2>1. /\ sent # <<>> /\ request' = [request EXCEPT ![r].reply.commands = Tail(sent)]
        /\ log' = Append(log, c)
        /\ UNCHANGED <<applied, db, stuck>>
    BY <1>0, <1>5 DEF Submit
  <2>2. \A k \in Slot \ {r} : request'[k] = request[k]
    BY <2>1 DEF OwnersInv, ShapeOK
  <2>3. request'[r].reply.commands = Tail(sent) /\ request'[r].user = s.user
    <3> DEFINE y == [s.reply EXCEPT !.commands = Tail(sent)]
    <3>1. IsSlot(s) /\ IsReply(s.reply) /\ request'[r] = [s EXCEPT !.reply = y]
      BY <2>1 DEF OwnersInv, ShapeOK
    <3>2. y.commands = Tail(sent)
      BY <3>1 DEF IsReply
    <3> HIDE DEF y
    <3> QED BY <3>1, <3>2 DEF IsSlot
  <2>4. /\ IsSequence(sent) /\ 1 \in DOMAIN sent /\ c = sent[1] /\ IsSequence(Tail(sent))
        /\ \A k \in DOMAIN Tail(sent) :
               k \in Nat \ {0} /\ k + 1 \in DOMAIN sent /\ Tail(sent)[k] = sent[k + 1]
        /\ \A k \in DOMAIN sent : k # 1 => Tail(sent)[k - 1] = sent[k]
    <3>1. IsSequence(sent)
      BY DEF OwnersInv, ShapeOK
    <3> HIDE DEF sent
    <3>2. /\ 1 \in DOMAIN sent /\ Head(sent) = sent[1] /\ IsSequence(Tail(sent))
          /\ \A k \in DOMAIN Tail(sent) :
                 k \in Nat \ {0} /\ k + 1 \in DOMAIN sent /\ Tail(sent)[k] = sent[k + 1]
      BY <2>1, <3>1 DEF IsSequence
    <3>3. \A k \in DOMAIN sent : k # 1 => k - 1 \in 1 .. Len(sent) - 1 /\ (k - 1) + 1 = k
      BY <3>1 DEF IsSequence
    <3>4. \A k \in 1 .. Len(sent) - 1 : Tail(sent)[k] = sent[k + 1]
      BY <2>1, <3>1 DEF IsSequence
    <3>5. \A k \in DOMAIN sent : k # 1 => Tail(sent)[k - 1] = sent[k]
      BY <3>3, <3>4
    <3> QED BY <3>1, <3>2, <3>5
  <2>5. AnnouncedBy(s.reply, db, log)
    BY <1>0 DEF ToSubmitAnnounced
  <2> DEFINE rest == Tail(sent)
  <2> HIDE DEF sent, c, rest
  <2>6. /\ IsSequence(log') /\ Len(log') = Len(log) + 1 /\ Len(log) \in Nat
        /\ DOMAIN log = 1 .. Len(log) /\ DOMAIN log' = 1 .. Len(log) + 1
        /\ \A i \in DOMAIN log : log'[i] = log[i]
        /\ log'[Len(log) + 1] = c
    BY <1>0, <2>1, CreatedLater DEF IsSequence
  <2>7. \A i \in 1 .. Len(log) + 1 : \A x : Announced(log, i, x) => Announced(log', i, x)
    BY <2>6 DEF Announced
  <2>8. ListsAnnounced'
    <3>1. ASSUME NEW i \in DOMAIN log, log'[i].type = "SetList", NEW x \in log'[i].content
          PROVE  x \in db.colls \/ Announced(log', i, x)
      BY <1>0, <2>6, <2>7, <3>1 DEF ListsAnnounced
    <3>2. ASSUME c.type = "SetList", NEW x \in c.content
          PROVE  x \in db.colls \/ Announced(log', Len(log) + 1, x)
      <4>1. \/ x \in db.colls \/ Announced(log, Len(log) + 1, x) \/ Announced(sent, 1, x)
        BY <2>4, <2>5, <3>2 DEF AnnouncedBy, sent
      <4>2. ~ Announced(sent, 1, x)
        BY DEF Announced
      <4> QED BY <2>6, <2>7, <4>1, <4>2
    <3>3. \A i \in DOMAIN log' : i \in DOMAIN log \/ i = Len(log) + 1
      BY <2>6
    <3> QED BY <2>1, <2>6, <3>1, <3>2, <3>3 DEF ListsAnnounced
  <2>9. AnnouncedBy(request'[r].reply, db', log')
    <3>1. ASSUME NEW k \in DOMAIN rest, rest[k].type = "SetList", NEW x \in rest[k].content
          PROVE  \/ x \in db.colls
                 \/ Announced(log', Len(log') + 1, x)
                 \/ Announced(rest, k, x)
      <4>1. k \in Nat \ {0} /\ k + 1 \in DOMAIN sent /\ rest[k] = sent[k + 1]
        BY <2>4 DEF rest
      <4>2. \/ x \in db.colls \/ Announced(log, Len(log) + 1, x) \/ Announced(sent, k + 1, x)
        BY <2>5, <3>1, <4>1 DEF AnnouncedBy, sent
      <4>3. ASSUME Announced(log, Len(log) + 1, x) PROVE Announced(log', Len(log') + 1, x)
        BY <2>6, <4>3 DEF Announced
      <4>4. ASSUME Announced(sent, k + 1, x)
            PROVE  Announced(log', Len(log') + 1, x) \/ Announced(rest, k, x)
        <5>1. PICK j \in 1 .. k : sent[j].type = "Create" /\ sent[j].coll = x
          BY <4>1, <4>4 DEF Announced
        <5>2. CASE j = 1
          <6>1. log'[Len(log) + 1].type = "Create" /\ log'[Len(log) + 1].coll = x
            BY <2>4, <2>6, <5>1, <5>2
          <6>2. Len(log) + 1 \in 1 .. Len(log') + 1 - 1
            BY <2>6
          <6> QED BY <6>1, <6>2 DEF Announced
        <5>3. CASE j # 1
          <6>1. j \in DOMAIN sent /\ rest[j - 1] = sent[j]
            BY <2>4, <4>1, <5>1, <5>3 DEF IsSequence, rest
          <6> QED BY <4>1, <5>1, <5>3, <6>1 DEF Announced
        <5> QED BY <5>2, <5>3
      <4> QED BY <4>2, <4>3, <4>4
    <3> QED BY <2>1, <2>3, <3>1 DEF AnnouncedBy, rest
  <2>10. ToSubmitAnnounced'
    <3>1. ASSUME NEW k \in Slot \ {r} PROVE AnnouncedBy(request'[k].reply, db', log')
      BY <1>0, <2>1, <2>2, AnnouncedLater DEF ToSubmitAnnounced
    <3> QED BY <2>9, <3>1 DEF ToSubmitAnnounced
  <2>11. ReadThere'
    BY <1>0, <2>1, <2>2, <2>3 DEF ReadThere
  <2>12. ExecutedThere'
    BY <1>0, <2>1, <2>6 DEF ExecutedThere
  <2> QED BY <1>0, <2>1, <2>8, <2>10, <2>11, <2>12 DEF ListInv
<1>6. ASSUME NEW r \in Slot, Respond(r) PROVE ListInv'
  <2>1. request' = [request EXCEPT ![r] = Idle] /\ UNCHANGED <<log, applied, db, stuck>>
    BY <1>6 DEF Respond
  <2>2. ReadThere' /\ ToSubmitAnnounced'
    BY <1>0, <2>1, ListAlone DEF OwnersInv, ShapeOK, Idle, ReadThere, ToSubmitAnnounced
  <2> QED BY <1>0, <2>1, <2>2 DEF ListInv, ExecutedThere, ListsAnnounced
<1>7. ASSUME NEW r \in Slot, Disconnect(r) PROVE ListInv'
  <2>1. request' = [request EXCEPT ![r].holds = FALSE] /\ UNCHANGED <<log, applied, db, stuck>>
    BY <1>7 DEF Disconnect
  <2>2. IsSlot(request[r]) /\ request'[r] = [request[r] EXCEPT !.holds = FALSE]
    BY <2>1 DEF OwnersInv, ShapeOK
  <2>3. \A k \in Slot : request'[k].reply = request[k].reply /\ request'[k].user = request[k].user
    BY <2>1, <2>2 DEF IsSlot, OwnersInv, ShapeOK
  <2>4. ReadThere' /\ ToSubmitAnnounced'
    BY <1>0, <2>1, <2>3 DEF ReadThere, ToSubmitAnnounced
  <2> QED BY <1>0, <2>1, <2>4 DEF ListInv, ExecutedThere, ListsAnnounced
<1> QED BY <1>1, <1>2, <1>3, <1>4, <1>5, <1>6, <1>7 DEF Next

\* As long as submitting does not fail, a collection on a user's list is there,
\* whatever clients do, whatever comes between the two commands that create and
\* list it, and also once the application executes nothing any more
\* (createCollection, deleteCollection and fetchDocuments of simpledbmsd.mts).
THEOREM ListsAreTrue == Spec => []ListedExists
<1>1. Init => OwnersInv /\ ListInv
  BY OwnersInit, ListInit
<1>2. OwnersInv /\ ListInv /\ [Next]_vars => (OwnersInv /\ ListInv)'
  BY OwnersStep, ListStep
<1>3. ListInv => ListedExists
  BY DEF ListInv, CollsThere, ListedExists
<1> QED BY <1>1, <1>2, <1>3, PTL DEF Spec

-----------------------------------------------------------------------------
(* Sequences of commands, by induction over their length: where a statement *)
(* about numbers fails, it fails for a least one.                           *)

LEMMA LeastExists ==
    ASSUME NEW S \in SUBSET Nat, S # {}
    PROVE  \E i \in S : \A j \in S : i <= j
<1> DEFINE R == OpToRel(<, Nat)
<1>1. IsWellFoundedOn(R, Nat)
  BY NatLessThanWellFounded
<1>2. ASSUME NEW x \in Nat, NEW y \in Nat, x < y PROVE <<x, y>> \in R
  BY <1>2 DEF OpToRel
<1> HIDE DEF R
<1>3. PICK x \in S : \A y \in S : ~(<<y, x>> \in R)
  BY <1>1, WFMin
<1>4. ASSUME NEW y \in S PROVE x <= y
  <2>1. x \in Nat /\ y \in Nat
    OBVIOUS
  <2>2. ~(y < x)
    BY <1>2, <1>3, <2>1
  <2> QED BY <2>1, <2>2
<1> QED BY <1>4

\* g runs through the databases after the first k commands.
Runs(d, cs, k, g) ==
    g = [j \in 0 .. k |-> IF j = 0 THEN d ELSE Effect(g[j - 1], cs[j])]

LEMMA RunsExist ==
    ASSUME NEW d, NEW cs, NEW k \in Nat
    PROVE  \E g : Runs(d, cs, k, g)
<1> DEFINE Lacks == {i \in Nat : \A g : ~ Runs(d, cs, i, g)}
<1>1. SUFFICES ASSUME Lacks # {} PROVE FALSE
  OBVIOUS
<1>2. PICK m \in Lacks : \A i \in Lacks : m <= i
  BY <1>1, LeastExists
<1>3. CASE m = 0
  <2>1. Runs(d, cs, 0, [j \in 0 .. 0 |-> d])
    BY DEF Runs
  <2> QED BY <1>3, <2>1
<1>4. CASE m # 0
  <2>1. m - 1 \in Nat /\ m - 1 \notin Lacks
    BY <1>2, <1>4
  <2>2. PICK h : Runs(d, cs, m - 1, h)
    BY <2>1
  <2> DEFINE g == [j \in 0 .. m |-> IF j = m THEN Effect(h[m - 1], cs[m]) ELSE h[j]]
  <2>3. \A j \in 0 .. m - 1 : g[j] = IF j = 0 THEN d ELSE Effect(g[j - 1], cs[j])
    BY <1>4, <2>1, <2>2 DEF Runs
  <2>4. g[m] = Effect(g[m - 1], cs[m])
    BY <1>4, <2>1
  <2>5. \A j \in 0 .. m : g[j] = IF j = 0 THEN d ELSE Effect(g[j - 1], cs[j])
    <3> HIDE DEF g
    <3>1. m \in Nat /\ \A j \in 0 .. m : j \in 0 .. m - 1 \/ j = m
      BY <2>1
    <3>2. g[m] = IF m = 0 THEN d ELSE Effect(g[m - 1], cs[m])
      BY <1>4, <2>4
    <3> QED BY <2>3, <3>1, <3>2
  <2>6. \E f : f = g
    OBVIOUS
  <2>7. PICK f : f = g
    BY <2>6
  <2>8. f = [j \in 0 .. m |-> f[j]]
    BY <2>7
  <2> HIDE DEF g
  <2>9. Runs(d, cs, m, f)
    BY <2>5, <2>7, <2>8 DEF Runs
  <2> QED BY <2>9
<1> QED BY <1>3, <1>4

\* The databases that After runs through.
RunOf(d, cs, k) ==
    CHOOSE D : D = [i \in 0 .. k |-> IF i = 0 THEN d ELSE Effect(D[i - 1], cs[i])]

\* Two runs through the same commands agree: where they differed first, the
\* databases before that command would be the same.
LEMMA RunOfIsRun ==
    ASSUME NEW d, NEW cs, NEW k \in Nat, NEW m \in Nat, k <= m, NEW g, Runs(d, cs, m, g)
    PROVE  RunOf(d, cs, k)[k] = g[k]
<1>1. Runs(d, cs, k, RunOf(d, cs, k))
  <2>1. PICK f : Runs(d, cs, k, f)
    BY RunsExist
  <2>2. \E D : D = [i \in 0 .. k |-> IF i = 0 THEN d ELSE Effect(D[i - 1], cs[i])]
    BY <2>1 DEF Runs
  <2> QED BY <2>2 DEF RunOf, Runs
<1> HIDE DEF RunOf
<1> DEFINE Differ == {j \in 0 .. k : RunOf(d, cs, k)[j] # g[j]}
<1>2. SUFFICES ASSUME Differ # {} PROVE FALSE
  OBVIOUS
<1>3. PICK j \in Differ : \A n \in Differ : j <= n
  <2>1. Differ \in SUBSET Nat
    OBVIOUS
  <2> HIDE DEF Differ
  <2> QED BY <1>2, <2>1, LeastExists
<1>4. j # 0
  BY <1>1 DEF Runs
<1>5. RunOf(d, cs, k)[j - 1] = g[j - 1]
  BY <1>3, <1>4
<1>6. /\ RunOf(d, cs, k)[j] = Effect(RunOf(d, cs, k)[j - 1], cs[j])
      /\ g[j] = Effect(g[j - 1], cs[j])
  BY <1>1, <1>4 DEF Runs
<1> QED BY <1>4, <1>5, <1>6

\* The equations of After.
LEMMA AfterStep ==
    ASSUME NEW d, NEW cs
    PROVE  /\ After(d, cs, 0) = d
           /\ \A k \in Nat : After(d, cs, k + 1) = Effect(After(d, cs, k), cs[k + 1])
<1>0. \A k : After(d, cs, k) = RunOf(d, cs, k)[k]
  BY DEF After, RunOf
<1>1. After(d, cs, 0) = d
  <2>1. PICK g : Runs(d, cs, 0, g)
    BY RunsExist
  <2>2. RunOf(d, cs, 0)[0] = g[0]
    BY <2>1, RunOfIsRun
  <2>3. g[0] = d
    BY <2>1 DEF Runs
  <2> QED BY <1>0, <2>2, <2>3
<1>2. ASSUME NEW k \in Nat PROVE After(d, cs, k + 1) = Effect(After(d, cs, k), cs[k + 1])
  <2>1. PICK g : Runs(d, cs, k + 1, g)
    BY RunsExist
  <2>2. After(d, cs, k + 1) = g[k + 1] /\ After(d, cs, k) = g[k]
    BY <1>0, <2>1, RunOfIsRun
  <2>3. g[k + 1] = Effect(g[k], cs[k + 1])
    BY <2>1 DEF Runs
  <2> QED BY <2>2, <2>3
<1> QED BY <1>1, <1>2

-----------------------------------------------------------------------------
(* Calm clients are served as if each were alone.  The argument: a handler  *)
(* starts when all that was committed is applied, hence on the database     *)
(* expected.  While GETs run, no command comes, and what they write makes   *)
(* the two databases the same again; the user a GET has read is that of     *)
(* the database it began with (GetServed).  While another request runs, it  *)
(* runs alone, and database and log are somewhere within its commands, of   *)
(* which none gets stuck (WriterServed); after its response they still are. *)

Active(r) == request[r].at # "idle"

Writing(r) == request[r].at = "submitting" /\ ~ IsGet(request[r].q)

\* What the request submits, as decided on the database expected.
Full(r) == Handled(request[r].q, request[r].id, User(expected, request[r].q.by), expected).commands

\* The application executes these commands one after another.
Smooth(d, cs) ==
    \A i \in DOMAIN cs : IF i = 1 THEN ~ Sticks(d, cs[1]) ELSE cs[i].type \in {"SetList", "Delete"}

\* The log ends in the first k of the commands, and the database is e after
\* those of them that have been applied.
Within(e, cs, k) ==
    /\ IsSequence(cs) /\ k \in 0 .. Len(cs) /\ k <= Len(log) /\ Len(log) - k <= applied
    /\ \A i \in 1 .. k : log[Len(log) - k + i] = cs[i]
    /\ db = After(e, cs, applied - (Len(log) - k))
    /\ Smooth(e, cs)

\* What is committed makes the database expected.
Settling == \E e, cs : Within(e, cs, Len(cs)) /\ expected = After(e, cs, Len(cs))

GetServed(s) ==
    /\ s.before.docs = db.docs /\ s.before.colls = db.colls
    /\ s.at = "deciding" =>
          /\ s.user = User(s.before, s.q.by)
          /\ s.q.kind = "fetchDocuments" => s.user = User(db, s.q.by)
    /\ s.at = "submitting" => s.reply = Handled(s.q, s.id, User(s.before, s.q.by), s.before)

WriterServed(s, full) ==
    LET alone == Handled(s.q, s.id, User(expected, s.q.by), expected)
        rest == s.reply.commands
    IN  /\ s.at = "deciding" =>
              /\ s.user = User(db, s.q.by)
              /\ s.q.kind = "createCollection" => s.q.coll \notin db.colls
              /\ IsSql(s.q) => s.q.coll \in db.colls
        /\ s.at = "submitting" =>
              /\ s.reply.ok = alone.ok /\ s.reply.answer = alone.answer
              /\ \E k \in 0 .. Len(full) :
                    /\ Within(expected, full, k)
                    /\ Len(rest) = Len(full) - k
                    /\ \A i \in 1 .. Len(rest) : rest[i] = full[k + i]

ServedAlone ==
    \A r \in Slot : Active(r) =>
        /\ request[r].at \in {"deciding", "submitting"} /\ request[r].holds
        /\ IsGet(request[r].q) => GetServed(request[r])
        /\ ~ IsGet(request[r].q) => WriterServed(request[r], Full(r))

\* Who shares the lock: GETs, and one fetchDocuments of each user.
Sharing ==
    \A r, t \in Slot : Active(r) /\ Active(t) /\ r # t =>
        /\ IsGet(request[r].q) /\ IsGet(request[t].q)
        /\ request[r].q.kind = "fetchDocuments" /\ request[t].q.kind = "fetchDocuments" =>
              request[r].q.by # request[t].q.by

AloneInv ==
    /\ setting \in Setting
    /\ setting = "calm" =>
          /\ ~ stuck /\ Sharing /\ ServedAlone
          /\ \A r \in Slot : Active(r) /\ ~ Writing(r) => applied = Len(log)
          /\ (\A r \in Slot : ~ Writing(r)) => Settling

\* A GET submits nothing, and looks at the documents and collections and at
\* the user it has read only.
LEMMA GetReads ==
    ASSUME NEW q, NEW id, NEW user, NEW d, NEW e, q.kind \in Kinds, IsGet(q),
           d.docs = e.docs, d.colls = e.colls
    PROVE  /\ Handled(q, id, user, d) = Handled(q, id, user, e)
           /\ Handled(q, id, user, d).commands = <<>>
<1>1. \A by, coll : Own(d, by, coll) = Own(e, by, coll)
  BY DEF Own
<1>2. Named(d, q) = Named(e, q)
  BY <1>1 DEF Named
<1>3. Refuse.commands = <<>> /\ \A answer : Answering(answer).commands = <<>>
  BY DEF Refuse, Answering
<1>4. CASE q.kind = "fetchDocumentContent"
  BY <1>2, <1>3, <1>4 DEF Handled, IsSql, FetchDocumentContent, OfDocument
<1>5. CASE q.kind = "fetchDocuments"
  BY <1>1, <1>3, <1>5 DEF Handled, IsSql, FetchDocuments
<1>6. CASE q.kind = "fetchDocumentsPaged"
  BY <1>1, <1>3, <1>6 DEF Handled, IsSql, FetchDocumentsPaged
<1>7. CASE q.kind \in {"fetchCollections", "getUserData"}
  BY <1>3, <1>7 DEF Handled, IsSql, FetchCollections, GetUserData
<1>8. CASE q.kind = "getAllUserData"
  <2>1. {Own(d, q.by, coll) : coll \in user.collections} = {Own(e, q.by, coll) : coll \in user.collections}
    BY <1>1
  <2> QED BY <1>3, <1>8, <2>1 DEF Handled, IsSql, GetAllUserData
<1> QED BY <1>4, <1>5, <1>6, <1>7, <1>8 DEF IsGet

\* Commands of which only the first can get stuck.
LEMMA SmoothOnes ==
    ASSUME NEW d
    PROVE  /\ Smooth(d, <<>>) /\ Smooth(d, Refuse.commands) /\ Smooth(d, Submitting(<<>>).commands)
           /\ \A c : ~ Sticks(d, c) => Smooth(d, Submitting(<<c>>).commands)
BY DEF Smooth, Refuse, Submitting

LEMMA HandledSmooth ==
    ASSUME NEW q, NEW id, NEW user, NEW d, NEW l, q.kind \in Kinds, ~ IsGet(q), DocsCreated(d, l),
           q.kind = "createCollection" => q.coll \notin d.colls,
           IsSql(q) => q.coll \in d.colls
    PROVE  Smooth(d, Handled(q, id, user, d).commands)
<1> USE SmoothOnes
<1>1. CASE q.kind \in {"signup", "login"}
  <2>1. ~ Sticks(d, AddUser(id, q.username))
    BY DEF Sticks, AddUser, Command
  <2> QED BY <1>1, <2>1 DEF Handled, IsSql, SignUp, Login
<1>2. CASE q.kind = "createCollection"
  <2> DEFINE y == Submitting(NewCollection(q, user))
  <2>1. Smooth(d, y.commands)
    <3>1. y.commands = <<Create(q.by, q.coll), SetList(q.by, user.collections \cup {q.coll})>>
      BY DEF Submitting, NewCollection
    <3>2. ~ Sticks(d, Create(q.by, q.coll))
      BY <1>2 DEF Sticks, Create, Command
    <3>3. SetList(q.by, user.collections \cup {q.coll}).type = "SetList"
      BY DEF SetList, Command
    <3> HIDE DEF y
    <3>4. /\ DOMAIN y.commands = {1, 2} /\ y.commands[1] = Create(q.by, q.coll)
          /\ y.commands[2] = SetList(q.by, user.collections \cup {q.coll})
      BY <3>1
    <3> QED BY <3>2, <3>3, <3>4 DEF Smooth
  <2> HIDE DEF y
  <2>2. Handled(q, id, user, d) \in {Submitting(<<>>), Refuse, y}
    BY <1>2 DEF Handled, IsSql, CreateCollection, y
  <2> QED BY <2>1, <2>2
<1>3. CASE q.kind = "deleteCollection"
  <2> DEFINE own == Own(d, q.by, q.coll)
             docs == SetToSeq(own)
             deletes == [k \in DOMAIN docs |-> DeleteDoc(q.by, docs[k])]
             list == SetList(q.by, user.collections \ {q.coll})
             sent == deletes \o <<list>>
  <2>1. docs \in Seq(own)
    <3>1. IsFiniteSet(own)
      BY FS_Subset DEF DocsCreated, Own
    <3> QED BY <3>1, SetToSeqType
  <2>2. \A x \in own : DeleteDoc(q.by, x).type = "Delete"
    BY DEF DeleteDoc, Command
  <2>3. list.type = "SetList"
    BY DEF SetList, Command
  <2> HIDE DEF own, list
  <2>4. deletes \in Seq({DeleteDoc(q.by, x) : x \in own})
    BY <2>1
  <2>5. /\ \A k \in DOMAIN sent : k \in 1 .. Len(deletes) \/ k = Len(deletes) + 1
        /\ \A k \in 1 .. Len(deletes) : sent[k] \in {DeleteDoc(q.by, x) : x \in own}
        /\ sent[Len(deletes) + 1] = list
    BY <2>4
  <2> HIDE DEF deletes
  <2>6. Smooth(d, Submitting(sent).commands)
    <3>1. Submitting(sent).commands = sent
      BY DEF Submitting
    <3> HIDE DEF sent
    <3>2. \A k \in DOMAIN sent : sent[k].type \in {"Delete", "SetList"}
      BY <2>2, <2>3, <2>5
    <3> QED BY <3>1, <3>2 DEF Smooth, Sticks
  <2>7. Handled(q, id, user, d) = Refuse \/ Handled(q, id, user, d) = Submitting(sent)
    BY <1>3 DEF Handled, IsSql, DeleteCollection, own, list, deletes
  <2> QED BY <2>6, <2>7
<1>4. CASE q.kind = "createDocument" \/ IsSql(q)
  <2>1. q.coll \in d.colls => /\ ~ Sticks(d, AddDoc(q, id))
                              /\ ~ Sticks(d, SqlUpdate(q, id)) /\ ~ Sticks(d, SqlDelete(q))
    BY DEF Sticks, AddDoc, SqlUpdate, SqlDelete, Command
  <2>2. \A answer : Smooth(d, Answering(answer).commands)
    BY DEF Smooth, Answering
  <2> QED BY <1>4, <2>1, <2>2 DEF Handled, IsSql, CreateDocument, QuerySql
<1>5. CASE q.kind \in {"updateDocument", "deleteDocument"}
  <2>1. \A x : ~ Sticks(d, UpdateDoc(q, x, id)) /\ ~ Sticks(d, DeleteDoc(q.by, x))
    BY DEF Sticks, UpdateDoc, DeleteDoc, Command
  <2> QED BY <1>5, <2>1 DEF Handled, IsSql, UpdateDocument, DeleteDocument, OfDocument
<1> QED BY <1>1, <1>2, <1>3, <1>4, <1>5 DEF Kinds, IsGet, IsSql

-----------------------------------------------------------------------------
(* Steps. *)

\* When a request has not come to its commands, all is applied.
LEMMA AtRest ==
    ASSUME OwnersInv, AloneInv, setting = "calm", applied = Len(log), \A r \in Slot : ~ Writing(r)
    PROVE  db = expected
<1>1. PICK e, cs : Within(e, cs, Len(cs)) /\ expected = After(e, cs, Len(cs))
  BY DEF AloneInv, Settling
<1>2. Len(cs) \in Nat /\ Len(log) \in Nat
  BY <1>1 DEF Within, OwnersInv, ShapeOK, IsSequence
<1>3. applied - (Len(log) - Len(cs)) = Len(cs)
  <2> DEFINE n == Len(log)
             k == Len(cs)
  <2>1. n \in Nat /\ k \in Nat /\ applied = n
    BY <1>2
  <2> HIDE DEF n, k
  <2>2. applied - (n - k) = k
    BY <2>1
  <2> QED BY <2>2 DEF n, k
<1> QED BY <1>1, <1>3 DEF Within

\* A request that writes is alone, and so is one that is about to.
LEMMA WriterIsAlone ==
    ASSUME AloneInv, setting = "calm", NEW r \in Slot, Active(r), ~ IsGet(request[r].q)
    PROVE  \A t \in Slot \ {r} : ~ Active(t)
BY DEF AloneInv, Sharing

LEMMA NobodyWrites ==
    ASSUME AloneInv, setting = "calm", NEW r \in Slot, Active(r), ~ Writing(r)
    PROVE  applied = Len(log) /\ \A t \in Slot : ~ Writing(t)
<1>1. applied = Len(log)
  BY DEF AloneInv
<1>2. ASSUME NEW t \in Slot, Writing(t) PROVE FALSE
  <2>1. Active(t) /\ t # r
    BY <1>2 DEF Active, Writing
  <2>2. ~ IsGet(request[t].q)
    BY <1>2 DEF Writing
  <2> QED BY <2>1, <2>2 DEF AloneInv, Sharing
<1> QED BY <1>1, <1>2

LEMMA NothingToDo ==
    ASSUME OwnersInv, applied = Len(log)
    PROVE  Within(db, <<>>, 0) /\ After(db, <<>>, 0) = db /\ Len(<<>>) = 0
<1>1. After(db, <<>>, 0) = db
  BY AfterStep
<1>2. Len(log) \in Nat /\ applied - (Len(log) - 0) = 0
  BY DEF OwnersInv, ShapeOK, IsSequence
<1>3. IsSequence(<<>>) /\ Smooth(db, <<>>)
  BY SmoothOnes DEF IsSequence
<1> QED BY <1>1, <1>2, <1>3 DEF Within

LEMMA AloneInit == Init => AloneInv
<1> SUFFICES ASSUME Init PROVE AloneInv
  OBVIOUS
<1>1. \A r \in Slot : ~ Active(r) /\ ~ Writing(r)
  BY DEF Init, Idle, Active, Writing
<1>2. Settling
  <2>1. Within(db, <<>>, 0) /\ After(db, <<>>, 0) = db /\ Len(<<>>) = 0
    BY OwnersInit, NothingToDo DEF Init
  <2> QED BY <2>1 DEF Settling, Init
<1> QED BY <1>1, <1>2 DEF Init, AloneInv, Sharing, ServedAlone

\* The next command of those the log ends in is executed.
LEMMA ApplyWithin ==
    ASSUME OwnersInv, Apply, ~ stuck, NEW e, NEW cs, NEW k, Within(e, cs, k)
    PROVE  Within(e, cs, k)' /\ ~ stuck'
<1> DEFINE base == Len(log) - k
           j == applied - base
           c == log[applied + 1]
<1>1. /\ Len(log) \in Nat /\ applied \in Nat /\ applied < Len(log) /\ k \in Nat /\ Len(cs) \in Nat
      /\ DOMAIN cs = 1 .. Len(cs) /\ k <= Len(cs) /\ k <= Len(log) /\ base <= applied
  BY DEF Within, OwnersInv, ShapeOK, IsSequence, Apply
<1>2. j \in Nat /\ j + 1 \in 1 .. k /\ base + (j + 1) = applied + 1 /\ j + 1 \in DOMAIN cs
  BY <1>1
<1>3. c = cs[j + 1] /\ db = After(e, cs, j)
  <2>1. log[Len(log) - k + (j + 1)] = cs[j + 1]
    BY <1>2 DEF Within
  <2> QED BY <1>2, <2>1 DEF Within
<1> HIDE DEF base, j
<1>4. ~ Sticks(db, c)
  <2>1. CASE j = 0
    <3>1. db = e /\ c = cs[1]
      BY <1>3, <2>1, AfterStep
    <3> QED BY <1>2, <2>1, <3>1 DEF Within, Smooth
  <2>2. CASE j # 0
    <3>1. c.type \in {"SetList", "Delete"}
      BY <1>2, <1>3, <2>2 DEF Within, Smooth
    <3> QED BY <3>1 DEF Sticks
  <2> QED BY <2>1, <2>2
<1>5. db' = Effect(db, c) /\ ~ stuck' /\ applied' = applied + 1 /\ log' = log
  BY <1>4 DEF Apply, Executed
<1>6. Effect(db, c) = After(e, cs, j + 1)
  <2>1. After(e, cs, j + 1) = Effect(After(e, cs, j), cs[j + 1])
    BY <1>2, AfterStep
  <2> QED BY <1>3, <2>1
<1>7. applied' - (Len(log') - k) = j + 1 /\ Len(log') - k <= applied'
  BY <1>1, <1>5 DEF base, j
<1> HIDE DEF c
<1> QED BY <1>5, <1>6, <1>7 DEF Within

LEMMA ApplyStep ==
    ASSUME OwnersInv, AloneInv, setting = "calm", Apply
    PROVE  AloneInv'
<1>1. UNCHANGED <<setting, log, request, expected>> /\ applied < Len(log) /\ ~ stuck
  BY DEF Apply, AloneInv
<1>2. applied # Len(log)
  <2>1. Len(log) \in Nat /\ applied \in Nat /\ applied < Len(log)
    BY DEF OwnersInv, ShapeOK, IsSequence, Apply
  <2> QED BY <2>1
<1>3. \A r \in Slot : Active(r) => Writing(r)
  BY <1>2 DEF AloneInv
<1>4. CASE \E r \in Slot : Active(r)
  <2>1. PICK r \in Slot : Active(r) /\ Writing(r)
    BY <1>3, <1>4
  <2>2. ~ IsGet(request[r].q) /\ request[r].at = "submitting"
    BY <2>1 DEF Writing
  <2>3. \A t \in Slot \ {r} : ~ Active(t)
    BY <2>1, <2>2, WriterIsAlone
  <2>4. PICK k \in 0 .. Len(Full(r)) :
            /\ Within(expected, Full(r), k)
            /\ Len(request[r].reply.commands) = Len(Full(r)) - k
            /\ \A i \in 1 .. Len(request[r].reply.commands) :
                   request[r].reply.commands[i] = Full(r)[k + i]
    BY <2>1, <2>2 DEF AloneInv, ServedAlone, WriterServed
  <2>5. PICK e, cs : e = expected /\ cs = Full(r)
    OBVIOUS
  <2>6. expected' = e /\ Full(r)' = cs /\ request' = request
    BY <1>1, <2>5 DEF Full
  <2>7. Within(e, cs, k)' /\ ~ stuck'
    BY <1>1, <2>4, <2>5, ApplyWithin
  <2>8. Within(expected, Full(r), k)'
    BY <2>6, <2>7 DEF Within
  <2>9. WriterServed(request[r], Full(r))'
    <3>1. WriterServed(request[r], Full(r))
      BY <2>1, <2>2 DEF AloneInv, ServedAlone
    <3> QED BY <1>1, <2>2, <2>4, <2>5, <2>6, <2>8, <3>1 DEF WriterServed
  <2>10. ServedAlone'
    BY <1>1, <2>1, <2>2, <2>3, <2>9 DEF ServedAlone, Active, AloneInv
  <2> QED BY <1>1, <1>3, <2>1, <2>7, <2>10 DEF AloneInv, Sharing, Active, Writing
<1>5. CASE \A r \in Slot : ~ Active(r)
  <2>1. \A r \in Slot : ~ Writing(r)
    BY <1>5 DEF Active, Writing
  <2>2. PICK e, cs : Within(e, cs, Len(cs)) /\ expected = After(e, cs, Len(cs))
    BY <2>1 DEF AloneInv, Settling
  <2>3. Within(e, cs, Len(cs))' /\ ~ stuck'
    BY <1>1, <2>2, ApplyWithin
  <2>4. Settling'
    BY <1>1, <2>2, <2>3 DEF Settling
  <2> QED BY <1>1, <1>5, <2>3, <2>4 DEF AloneInv, Sharing, ServedAlone, Active
<1> QED BY <1>4, <1>5

LEMMA BeginStep ==
    ASSUME OwnersInv, AloneInv, setting = "calm", NEW r \in Slot, Begin(r)
    PROVE  AloneInv'
<1>1. PICK q \in Requests :
          /\ Enters(q) /\ Asked(q)
          /\ request' = [request EXCEPT ![r] =
                [Idle EXCEPT !.at = "deciding", !.q = q, !.id = count + 1,
                             !.user = User(db, q.by), !.holds = TRUE, !.before = expected]]
  BY DEF Begin, Orderly
<1>2. UNCHANGED <<setting, log, applied, db, stuck, expected>> /\ request[r].at = "idle"
  BY DEF Begin
<1>3. /\ \A k \in Slot \ {r} : request'[k] = request[k]
      /\ request'[r].at = "deciding" /\ request'[r].q = q /\ request'[r].holds
      /\ request'[r].user = User(db, q.by) /\ request'[r].before = expected
  BY <1>1 DEF OwnersInv, ShapeOK, Idle
<1>4. \A t \in Slot : Active(t) => IsGet(request[t].q) /\ IsGet(q) /\ t \in Holding(TRUE)
  <2>1. SUFFICES ASSUME NEW t \in Slot, Active(t)
                 PROVE  IsGet(request[t].q) /\ IsGet(q) /\ t \in Holding(TRUE)
    OBVIOUS
  <2>2. request[t].holds
    BY <2>1 DEF AloneInv, ServedAlone
  <2>3. IsGet(request[t].q) \in BOOLEAN
    BY DEF IsGet
  <2>4. IsGet(request[t].q)
    BY <1>1, <2>2, <2>3 DEF Enters, Holding
  <2> QED BY <1>1, <2>2, <2>4 DEF Enters, Holding
<1>5. \A t \in Slot : ~ Writing(t)
  BY <1>4 DEF Active, Writing
<1>6. applied = Len(log) /\ db = expected
  BY <1>1, <1>5, AtRest DEF Asked
<1>7. Sharing'
  <2>1. ASSUME NEW t \in Slot \ {r}, Active(t)'
        PROVE  /\ IsGet(request[t].q) /\ IsGet(q)
               /\ q.kind = "fetchDocuments" /\ request[t].q.kind = "fetchDocuments" =>
                      q.by # request[t].q.by
    <3>1. Active(t)
      BY <1>3, <2>1 DEF Active
    <3> QED BY <1>1, <1>4, <3>1 DEF Asked
  <2>2. ASSUME NEW t \in Slot \ {r}, NEW v \in Slot \ {r}, t # v, Active(t)', Active(v)'
        PROVE  /\ IsGet(request[t].q) /\ IsGet(request[v].q)
               /\ request[t].q.kind = "fetchDocuments" /\ request[v].q.kind = "fetchDocuments" =>
                      request[t].q.by # request[v].q.by
    BY <1>3, <2>2 DEF AloneInv, Sharing, Active
  <2> QED BY <1>3, <2>1, <2>2 DEF Sharing
<1>8. ServedAlone'
  <2>1. ASSUME NEW t \in Slot \ {r}, Active(t)'
        PROVE  /\ request'[t].at \in {"deciding", "submitting"} /\ request'[t].holds
               /\ IsGet(request'[t].q) /\ GetServed(request[t])'
    <3>1. Active(t) /\ IsGet(request[t].q)
      BY <1>3, <1>4, <2>1 DEF Active
    <3>2. GetServed(request[t])
      BY <3>1 DEF AloneInv, ServedAlone
    <3>3. GetServed(request[t])'
      BY <1>2, <1>3, <3>2 DEF GetServed
    <3> QED BY <1>3, <3>1, <3>3 DEF AloneInv, ServedAlone
  <2>2. IsGet(q) => GetServed(request[r])'
    BY <1>2, <1>3, <1>6 DEF GetServed
  <2>3. ~ IsGet(q) => WriterServed(request[r], Full(r))'
    BY <1>1, <1>2, <1>3 DEF WriterServed, Asked
  <2> QED BY <1>3, <2>1, <2>2, <2>3 DEF ServedAlone
<1>9. Settling'
  BY <1>2, <1>5 DEF AloneInv, Settling, Within
<1> QED BY <1>2, <1>6, <1>7, <1>8, <1>9 DEF AloneInv

\* A user's list is written: the users with other ids stay as they are.
LEMMA OthersKeepLists ==
    ASSUME NEW d, NEW id, NEW list, NEW other, IsDb(d), CollsThere(d), other # id
    PROVE  /\ User(WithList(d, id, list), other) = User(d, other)
           /\ WithList(d, id, list).docs = d.docs /\ WithList(d, id, list).colls = d.colls
<1> DEFINE f(u) == IF u.id = id THEN [u EXCEPT !.collections = list] ELSE u
<1>1. /\ WithList(d, id, list).users = {f(u) : u \in d.users}
      /\ WithList(d, id, list).docs = d.docs /\ WithList(d, id, list).colls = d.colls
  BY DEF WithList, IsDb
<1>2. ASSUME NEW u \in d.users PROVE f(u).id = u.id /\ (u.id = other => f(u) = u)
  BY DEF CollsThere, IsUser
<1>3. WithId(WithList(d, id, list), other) = WithId(d, other)
  <2> HIDE DEF f
  <2> QED BY <1>1, <1>2 DEF WithId
<1> QED BY <1>1, <1>3 DEF User

\* A GET decides on what it would decide on had it run when it began, and what
\* it writes is written to the database expected, too.
LEMMA DecideGetStep ==
    ASSUME OwnersInv, ListInv, AloneInv, setting = "calm", NEW r \in Slot, Decide(r),
           IsGet(request[r].q)
    PROVE  AloneInv'
<1> DEFINE s == request[r]
           reply == Handled(s.q, s.id, s.user, db)
<1>1. /\ request' = [request EXCEPT ![r] = [@ EXCEPT !.at = "submitting", !.reply = reply]]
      /\ s.at = "deciding" /\ db' = WrittenHere(s.q, s.user, db)
      /\ expected' = WrittenHere(s.q, User(expected, s.q.by), expected)
      /\ UNCHANGED <<setting, log, applied, stuck>>
  BY DEF Decide
<1>2. s.q.kind \in Kinds /\ IsSlot(s)
  BY <1>1 DEF OwnersInv, ShapeOK
<1>3. Active(r) /\ ~ Writing(r) /\ GetServed(s)
  BY <1>1 DEF Active, Writing, AloneInv, ServedAlone
<1>4. applied = Len(log) /\ (\A t \in Slot : ~ Writing(t)) /\ db = expected
  BY <1>3, NobodyWrites, AtRest
<1>5. reply = Handled(s.q, s.id, User(s.before, s.q.by), s.before)
  BY <1>1, <1>2, <1>3, GetReads DEF GetServed
<1> HIDE DEF reply
<1>6. /\ \A t \in Slot \ {r} : request'[t] = request[t]
      /\ request'[r].at = "submitting" /\ request'[r].q = s.q /\ request'[r].id = s.id
      /\ request'[r].reply = reply /\ request'[r].holds = s.holds /\ request'[r].before = s.before
  <2>1. request'[r] = [s EXCEPT !.at = "submitting", !.reply = reply]
    BY <1>1 DEF OwnersInv, ShapeOK
  <2> QED BY <1>1, <1>2, <2>1 DEF IsSlot, OwnersInv, ShapeOK
<1>7. db' = expected'
  <2>1. CASE s.q.kind = "fetchDocuments"
    BY <1>1, <1>3, <1>4, <2>1 DEF GetServed
  <2>2. CASE s.q.kind # "fetchDocuments"
    BY <1>1, <1>4, <2>2 DEF WrittenHere
  <2> QED BY <2>1, <2>2
<1>8. IsDb(db) /\ CollsThere(db)
  BY DEF OwnersInv, ShapeOK, ListInv
<1>9. /\ db'.docs = db.docs /\ db'.colls = db.colls
      /\ \/ db' = db
         \/ /\ s.q.kind = "fetchDocuments"
            /\ \A other : other # s.q.by => User(db', other) = User(db, other)
  <2>1. CASE db' = db
    BY <2>1
  <2>2. CASE s.q.kind = "fetchDocuments" /\ db' = WithList(db, s.q.by, s.user.collections \cup {s.q.coll})
    <3>1. WithList(db, s.q.by, s.user.collections \cup {s.q.coll}).docs = db.docs
      BY <1>8 DEF WithList, IsDb
    <3>2. WithList(db, s.q.by, s.user.collections \cup {s.q.coll}).colls = db.colls
      BY <1>8 DEF WithList, IsDb
    <3> QED BY <1>8, <2>2, <3>1, <3>2, OthersKeepLists
  <2> QED BY <1>1, <2>1, <2>2 DEF WrittenHere
<1>10. \A t \in Slot : Active(t)' <=> Active(t)
  BY <1>3, <1>6 DEF Active
<1>11. \A t \in Slot : request'[t].q = request[t].q
  BY <1>6
<1>12. \A t \in Slot : Active(t) => IsGet(request[t].q)
  BY <1>3 DEF AloneInv, Sharing
<1>13. Sharing'
  BY <1>10, <1>11 DEF AloneInv, Sharing
<1>14. ServedAlone'
  <2>1. ASSUME NEW t \in Slot \ {r}, Active(t)
        PROVE  GetServed(request[t])'
    <3>1. GetServed(request[t]) /\ IsGet(request[t].q)
      BY <1>12, <2>1 DEF AloneInv, ServedAlone
    <3>2. ASSUME request[t].at = "deciding", request[t].q.kind = "fetchDocuments"
          PROVE  request[t].user = User(db', request[t].q.by)
      <4>1. request[t].user = User(db, request[t].q.by)
        BY <3>1, <3>2 DEF GetServed
      <4>2. s.q.kind = "fetchDocuments" => request[t].q.by # s.q.by
        BY <1>3, <2>1, <3>2 DEF AloneInv, Sharing
      <4> QED BY <1>9, <4>1, <4>2
    <3> QED BY <1>6, <1>9, <3>1, <3>2 DEF GetServed
  <2>2. GetServed(request[r])'
    BY <1>3, <1>5, <1>6, <1>9 DEF GetServed
  <2>3. \A t \in Slot : Active(t) => /\ request'[t].at \in {"deciding", "submitting"}
                                     /\ request'[t].holds
    BY <1>3, <1>6 DEF AloneInv, ServedAlone
  <2> QED BY <1>10, <1>11, <1>12, <2>1, <2>2, <2>3 DEF ServedAlone
<1>15. Settling'
  <2>1. OwnersInv' /\ applied' = Len(log')
    <3>1. [Next]_vars
      BY DEF Next
    <3> QED BY <1>1, <1>4, <3>1, OwnersStep
  <2>2. PICK e : e = db'
    OBVIOUS
  <2>3. IsSequence(<<>>) /\ Smooth(e, <<>>) /\ After(e, <<>>, 0) = e /\ Len(<<>>) = 0
    BY SmoothOnes, AfterStep DEF IsSequence
  <2>4. Len(log') \in Nat /\ applied' - (Len(log') - 0) = 0
    BY <2>1 DEF OwnersInv, ShapeOK, IsSequence
  <2>5. Within(e, <<>>, 0)'
    BY <2>1, <2>2, <2>3, <2>4 DEF Within
  <2>6. expected' = After(e, <<>>, 0)
    BY <1>7, <2>2, <2>3
  <2> QED BY <2>3, <2>5, <2>6 DEF Settling
<1> QED BY <1>1, <1>4, <1>13, <1>14, <1>15 DEF AloneInv

\* Another request decides on the database expected.
LEMMA DecideWriteStep ==
    ASSUME OwnersInv, AloneInv, setting = "calm", NEW r \in Slot, Decide(r),
           ~ IsGet(request[r].q)
    PROVE  AloneInv'
<1> DEFINE s == request[r]
           reply == Handled(s.q, s.id, s.user, db)
<1>1. /\ request' = [request EXCEPT ![r] = [@ EXCEPT !.at = "submitting", !.reply = reply]]
      /\ s.at = "deciding" /\ db' = WrittenHere(s.q, s.user, db)
      /\ expected' = WrittenHere(s.q, User(expected, s.q.by), expected)
      /\ UNCHANGED <<setting, log, applied, stuck>>
  BY DEF Decide
<1>2. s.q.kind \in Kinds /\ IsSlot(s) /\ DocsCreated(db, log)
  BY <1>1 DEF OwnersInv, ShapeOK
<1>3. Active(r) /\ ~ Writing(r) /\ WriterServed(s, Full(r))
  BY <1>1 DEF Active, Writing, AloneInv, ServedAlone
<1>4. applied = Len(log) /\ db = expected
  BY <1>3, NobodyWrites, AtRest
<1>5. db' = db /\ expected' = expected
  BY <1>1 DEF WrittenHere, IsGet
<1>6. \A t \in Slot \ {r} : ~ Active(t)
  BY <1>3, WriterIsAlone
<1>7. /\ s.user = User(db, s.q.by)
      /\ s.q.kind = "createCollection" => s.q.coll \notin db.colls
      /\ IsSql(s.q) => s.q.coll \in db.colls
  BY <1>1, <1>3 DEF WriterServed
<1>8. SoundReply(log, reply) /\ Smooth(db, reply.commands)
  BY <1>2, <1>7, HandledIsSound, HandledSmooth
<1>9. reply = Handled(s.q, s.id, User(expected, s.q.by), expected)
  BY <1>4, <1>7
<1> HIDE DEF reply
<1>10. /\ \A t \in Slot \ {r} : request'[t] = request[t]
       /\ request'[r].at = "submitting" /\ request'[r].q = s.q /\ request'[r].id = s.id
       /\ request'[r].reply = reply /\ request'[r].holds = s.holds
  <2>1. request'[r] = [s EXCEPT !.at = "submitting", !.reply = reply]
    BY <1>1 DEF OwnersInv, ShapeOK
  <2> QED BY <1>1, <1>2, <2>1 DEF IsSlot, OwnersInv, ShapeOK
<1>11. \A t \in Slot \ {r} : ~ Active(t)'
  BY <1>6, <1>10 DEF Active
<1>12. Sharing'
  BY <1>11 DEF Sharing
<1>13. WriterServed(request[r], Full(r))'
  <2>1. PICK e, cs : e = db /\ cs = reply.commands
    OBVIOUS
  <2>2. Full(r)' = cs /\ expected' = e
    BY <1>4, <1>5, <1>9, <1>10, <2>1 DEF Full
  <2>3. After(e, cs, 0) = e /\ IsSequence(cs) /\ Smooth(e, cs)
    BY <1>8, <2>1, AfterStep DEF SoundReply
  <2>4. Len(log) \in Nat /\ applied - (Len(log) - 0) = 0 /\ Len(cs) \in Nat
    BY <1>4, <2>3 DEF OwnersInv, ShapeOK, IsSequence
  <2>5. Within(e, cs, 0)'
    BY <1>1, <1>4, <1>5, <2>1, <2>3, <2>4 DEF Within
  <2>6. Within(expected, Full(r), 0)'
    BY <2>2, <2>5 DEF Within
  <2>7. /\ Len(cs) = Len(cs) - 0 /\ \A i \in 1 .. Len(cs) : cs[i] = cs[0 + i]
        /\ 0 \in 0 .. Len(cs)
    BY <2>4
  <2>8. request'[r].reply.commands = cs
    BY <1>10, <2>1
  <2>9. \E k \in 0 .. Len(Full(r)') :
            /\ Within(expected, Full(r), k)'
            /\ Len(request'[r].reply.commands) = Len(Full(r)') - k
            /\ \A i \in 1 .. Len(request'[r].reply.commands) :
                   request'[r].reply.commands[i] = Full(r)'[k + i]
    BY <2>2, <2>6, <2>7, <2>8
  <2> QED BY <1>5, <1>9, <1>10, <2>9 DEF WriterServed
<1>14. ServedAlone'
  BY <1>3, <1>10, <1>11, <1>13 DEF ServedAlone, AloneInv
<1>15. Writing(r)'
  BY <1>10 DEF Writing
<1> QED BY <1>1, <1>11, <1>12, <1>14, <1>15 DEF AloneInv

LEMMA SubmitStep ==
    ASSUME OwnersInv, AloneInv, setting = "calm", NEW r \in Slot, Submit(r)
    PROVE  AloneInv'
<1> DEFINE s == request[r]
           sent == s.reply.commands
<1>1. /\ sent # <<>> /\ request' = [request EXCEPT ![r].reply.commands = Tail(sent)]
      /\ log' = Append(log, Head(sent)) /\ s.at = "submitting"
      /\ UNCHANGED <<setting, applied, db, stuck, expected>>
  BY DEF Submit
<1>2. /\ s.q.kind \in Kinds /\ IsSlot(s) /\ IsReply(s.reply) /\ IsSequence(sent)
      /\ IsSequence(log) /\ applied \in 0 .. Len(log)
  BY <1>1 DEF OwnersInv, ShapeOK
<1>3. Active(r)
  BY <1>1 DEF Active
<1>4. ~ IsGet(s.q)
  <2>1. SUFFICES ASSUME IsGet(s.q) PROVE FALSE
    OBVIOUS
  <2>2. s.reply = Handled(s.q, s.id, User(s.before, s.q.by), s.before)
    BY <1>1, <1>3, <2>1 DEF AloneInv, ServedAlone, GetServed
  <2>3. sent = <<>>
    BY <1>2, <2>1, <2>2, GetReads
  <2> QED BY <1>1, <2>3
<1>5. \A t \in Slot \ {r} : ~ Active(t)
  BY <1>3, <1>4, WriterIsAlone
<1>6. WriterServed(s, Full(r))
  BY <1>3, <1>4 DEF AloneInv, ServedAlone
<1>7. PICK k \in 0 .. Len(Full(r)) :
          /\ Within(expected, Full(r), k)
          /\ Len(sent) = Len(Full(r)) - k
          /\ \A i \in 1 .. Len(sent) : sent[i] = Full(r)[k + i]
  BY <1>1, <1>6 DEF WriterServed
<1>8. /\ \A t \in Slot \ {r} : request'[t] = request[t]
      /\ request'[r].at = "submitting" /\ request'[r].q = s.q /\ request'[r].id = s.id
      /\ request'[r].holds = s.holds
      /\ request'[r].reply.ok = s.reply.ok /\ request'[r].reply.answer = s.reply.answer
      /\ request'[r].reply.commands = Tail(sent)
  <2> DEFINE y == [s.reply EXCEPT !.commands = Tail(sent)]
  <2>1. request'[r] = [s EXCEPT !.reply = y]
    BY <1>1, <1>2 DEF OwnersInv, ShapeOK
  <2>2. y.commands = Tail(sent) /\ y.ok = s.reply.ok /\ y.answer = s.reply.answer
    BY <1>2 DEF IsReply
  <2> HIDE DEF y
  <2> QED BY <1>1, <1>2, <2>1, <2>2 DEF IsSlot, OwnersInv, ShapeOK
<1>9. PICK e, cs : e = expected /\ cs = Full(r)
  OBVIOUS
<1>10. Full(r)' = cs /\ expected' = e
  BY <1>1, <1>8, <1>9 DEF Full
<1>11. Within(e, cs, k) /\ IsSequence(cs) /\ Len(cs) \in Nat /\ Len(log) \in Nat
  BY <1>2, <1>7, <1>9 DEF Within, IsSequence
<1> HIDE DEF sent
<1>12. /\ Len(sent) \in Nat \ {0} /\ Head(sent) = sent[1] /\ Len(Tail(sent)) = Len(sent) - 1
       /\ \A i \in 1 .. Len(sent) - 1 : Tail(sent)[i] = sent[i + 1]
  BY <1>1, <1>2 DEF IsSequence
<1>13. k \in Nat /\ k + 1 \in 0 .. Len(cs) /\ Len(sent) = Len(cs) - k /\ Head(sent) = cs[k + 1]
  BY <1>7, <1>9, <1>11, <1>12
<1>14. /\ Len(log') = Len(log) + 1 /\ log'[Len(log) + 1] = Head(sent)
       /\ \A i \in 1 .. Len(log) : log'[i] = log[i]
  BY <1>1, <1>2, CreatedLater DEF IsSequence
<1>15. Within(e, cs, k + 1)'
  <2>1. Len(log') - (k + 1) = Len(log) - k /\ k + 1 <= Len(log') /\ k <= Len(log)
    BY <1>11, <1>13, <1>14 DEF Within
  <2>2. ASSUME NEW i \in 1 .. k + 1 PROVE log'[Len(log') - (k + 1) + i] = cs[i]
    <3>1. CASE i = k + 1
      <4>1. Len(log') - (k + 1) + i = Len(log) + 1
        BY <1>11, <1>13, <1>14, <3>1
      <4> QED BY <1>13, <1>14, <3>1, <4>1
    <3>2. CASE i # k + 1
      <4>1. i \in 1 .. k /\ Len(log) - k + i \in 1 .. Len(log)
        BY <1>11, <1>13, <2>1, <3>2
      <4> QED BY <1>11, <1>14, <2>1, <4>1 DEF Within
    <3> QED BY <3>1, <3>2
  <2> QED BY <1>1, <1>11, <1>13, <2>1, <2>2 DEF Within
<1>16. Within(expected, Full(r), k + 1)'
  BY <1>10, <1>15 DEF Within
<1>17. /\ Len(Tail(sent)) = Len(cs) - (k + 1)
       /\ \A i \in 1 .. Len(Tail(sent)) : Tail(sent)[i] = cs[k + 1 + i]
  <2>1. Len(Tail(sent)) = Len(cs) - (k + 1)
    BY <1>11, <1>12, <1>13
  <2>2. ASSUME NEW i \in 1 .. Len(sent) - 1 PROVE Tail(sent)[i] = cs[k + 1 + i]
    <3>1. i + 1 \in 1 .. Len(sent) /\ k + (i + 1) = k + 1 + i
      <4>1. Len(sent) \in Nat /\ i \in Nat /\ 1 <= i /\ i <= Len(sent) - 1
        BY <1>12
      <4>2. i + 1 \in 1 .. Len(sent)
        BY <4>1
      <4>3. k + (i + 1) = k + 1 + i
        BY <1>13, <4>1
      <4> QED BY <4>2, <4>3
    <3>2. sent[i + 1] = cs[k + (i + 1)]
      BY <1>7, <1>9, <3>1 DEF sent
    <3> QED BY <1>12, <3>1, <3>2
  <2> QED BY <1>12, <2>1, <2>2
<1>18. WriterServed(request[r], Full(r))'
  <2>1. Handled(s.q, s.id, User(expected', s.q.by), expected') = Handled(s.q, s.id, User(expected, s.q.by), expected)
    BY <1>1
  <2>2. \E i \in 0 .. Len(Full(r)') :
            /\ Within(expected, Full(r), i)'
            /\ Len(request'[r].reply.commands) = Len(Full(r)') - i
            /\ \A j \in 1 .. Len(request'[r].reply.commands) :
                   request'[r].reply.commands[j] = Full(r)'[i + j]
    BY <1>8, <1>10, <1>13, <1>16, <1>17
  <2> QED BY <1>1, <1>6, <1>8, <2>1, <2>2 DEF WriterServed
<1>19. \A t \in Slot \ {r} : ~ Active(t)'
  BY <1>5, <1>8 DEF Active
<1>20. Sharing' /\ ServedAlone' /\ Writing(r)'
  <2>1. ServedAlone'
    BY <1>3, <1>4, <1>8, <1>18, <1>19 DEF ServedAlone, AloneInv
  <2> QED BY <1>4, <1>8, <1>19, <2>1 DEF Sharing, Writing
<1> QED BY <1>1, <1>19, <1>20 DEF AloneInv

\* The response, after which it is as if the request had run by itself.
LEMMA RespondStep ==
    ASSUME OwnersInv, AloneInv, setting = "calm", NEW r \in Slot, Respond(r)
    PROVE  AloneInv'
<1> DEFINE s == request[r]
<1>1. /\ request' = [request EXCEPT ![r] = Idle] /\ s.at = "submitting" /\ s.reply.commands = <<>>
      /\ expected' = Alone(expected, s.q, s.id)
      /\ UNCHANGED <<setting, log, applied, db, stuck>>
  BY DEF Respond, Ends, Orderly
<1>2. s.q.kind \in Kinds /\ Active(r)
  BY <1>1 DEF OwnersInv, ShapeOK, Active
<1>3. /\ \A t \in Slot \ {r} : request'[t] = request[t]
      /\ ~ Active(r)' /\ ~ Writing(r)'
  <2>1. request'[r] = Idle /\ Idle.at = "idle"
    BY <1>1 DEF OwnersInv, ShapeOK, Idle
  <2> QED BY <1>1, <2>1 DEF OwnersInv, ShapeOK, Active, Writing
<1>4. expected' = After(expected, Full(r), Len(Full(r)))
  BY <1>1 DEF Alone, Full
<1>5. Sharing'
  BY <1>3 DEF AloneInv, Sharing, Active
<1>6. CASE IsGet(s.q)
  <2>1. Full(r) = <<>>
    BY <1>2, <1>6, GetReads DEF Full
  <2>2. expected' = expected
    BY <1>4, <2>1, AfterStep
  <2>3. ~ Writing(r)
    BY <1>6 DEF Writing
  <2>4. applied = Len(log) /\ \A t \in Slot : ~ Writing(t)
    BY <1>2, <2>3, NobodyWrites
  <2>5. Settling'
    BY <1>1, <2>2, <2>4 DEF AloneInv, Settling, Within
  <2>6. \A t \in Slot : Active(t) => IsGet(request[t].q)
    BY <1>2, <1>6 DEF AloneInv, Sharing
  <2>7. ServedAlone'
    <3>1. ASSUME NEW t \in Slot \ {r}, Active(t)'
          PROVE  /\ request'[t].at \in {"deciding", "submitting"} /\ request'[t].holds
                 /\ IsGet(request'[t].q) /\ GetServed(request[t])'
      <4>1. Active(t) /\ IsGet(request[t].q)
        BY <1>3, <2>6, <3>1 DEF Active
      <4>2. GetServed(request[t])'
        BY <1>1, <1>3, <4>1 DEF AloneInv, ServedAlone, GetServed
      <4> QED BY <1>3, <4>1, <4>2 DEF AloneInv, ServedAlone
    <3> QED BY <1>3, <3>1 DEF ServedAlone
  <2> QED BY <1>1, <1>5, <2>4, <2>5, <2>7 DEF AloneInv
<1>7. CASE ~ IsGet(s.q)
  <2>1. WriterServed(s, Full(r))
    BY <1>2, <1>7 DEF AloneInv, ServedAlone
  <2>2. PICK k \in 0 .. Len(Full(r)) : Within(expected, Full(r), k) /\ Len(<<>>) = Len(Full(r)) - k
    BY <1>1, <2>1 DEF WriterServed
  <2>3. PICK e, cs : e = expected /\ cs = Full(r)
    OBVIOUS
  <2>4. k = Len(cs)
    <3>1. Len(cs) \in Nat /\ Len(<<>>) = 0
      BY <2>2, <2>3 DEF Within, IsSequence
    <3> QED BY <2>2, <2>3, <3>1
  <2>5. Within(e, cs, Len(cs))'
    <3>1. Within(e, cs, Len(cs))
      BY <2>2, <2>3, <2>4
    <3> QED BY <1>1, <3>1 DEF Within
  <2>6. Settling'
    BY <1>4, <2>3, <2>5 DEF Settling
  <2>7. \A t \in Slot : ~ Active(t)'
    <3>1. \A t \in Slot \ {r} : ~ Active(t)
      BY <1>2, <1>7, WriterIsAlone
    <3> QED BY <1>3, <3>1 DEF Active
  <2> QED BY <1>1, <1>5, <2>6, <2>7 DEF AloneInv, ServedAlone
<1> QED BY <1>6, <1>7

LEMMA AloneStep == OwnersInv /\ ListInv /\ AloneInv /\ [Next]_vars => AloneInv'
<1> SUFFICES ASSUME OwnersInv, ListInv, AloneInv, [Next]_vars PROVE AloneInv'
  OBVIOUS
<1>1. CASE UNCHANGED vars
  BY <1>1 DEF vars, AloneInv, Sharing, ServedAlone, Settling, Active, Writing, Within,
              GetServed, WriterServed, Full
<1>2. CASE Next /\ setting # "calm"
  <2>1. setting' = setting
    BY <1>2 DEF Next, Apply, Begin, Decide, Submit, Respond, Disconnect
  <2> QED BY <1>2, <2>1 DEF AloneInv
<1>3. CASE Next /\ setting = "calm"
  <2>1. \A r \in Slot : ~ Disconnect(r)
    BY <1>3 DEF Disconnect, Orderly
  <2> QED BY <1>3, <2>1, ApplyStep, BeginStep, DecideGetStep, DecideWriteStep, SubmitStep, RespondStep
          DEF Next
<1> QED BY <1>1, <1>2, <1>3

\* Calm clients find the daemon as if each of their requests had run by itself,
\* one after the other: the database is then what those answered so far would
\* have made of it, and each was answered as then, although handlers interleave
\* with each other and with the apply loop, for any number of slots, users,
\* collections and requests.  An eager client does not.
THEOREM CalmAreAlone ==
    ASSUME "eager" \notin Setting
    PROVE  Spec => []AsIfAlone
<1>1. Init => OwnersInv /\ ListInv /\ AloneInv
  BY OwnersInit, ListInit, AloneInit
<1>2. OwnersInv /\ ListInv /\ AloneInv /\ [Next]_vars => (OwnersInv /\ ListInv /\ AloneInv)'
  BY OwnersStep, ListStep, AloneStep
<1>3. OwnersInv /\ AloneInv => AsIfAlone
  <2> SUFFICES ASSUME OwnersInv, AloneInv, Orderly PROVE AsIfAlone
    BY DEF AsIfAlone
  <2>1. setting = "calm"
    BY DEF AloneInv, Orderly
  <2>2. ASSUME applied = Len(log), \A r \in Slot : request[r].at = "idle" PROVE db = expected
    <3>1. \A r \in Slot : ~ Writing(r)
      BY <2>2 DEF Writing
    <3> QED BY <2>1, <2>2, <3>1, AtRest
  <2>3. ASSUME NEW r \in Slot, Ends(request[r])
        PROVE  \E d \in {expected, request[r].before} :
                   LET s == request[r]
                       y == Handled(s.q, s.id, User(d, s.q.by), d)
                   IN  s.reply.ok = y.ok /\ s.reply.answer = y.answer
    <3>1. Active(r) /\ request[r].at = "submitting"
      BY <2>3 DEF Ends, Active
    <3>2. CASE IsGet(request[r].q)
      BY <2>1, <3>1, <3>2 DEF AloneInv, ServedAlone, GetServed
    <3>3. CASE ~ IsGet(request[r].q)
      BY <2>1, <3>1, <3>3 DEF AloneInv, ServedAlone, WriterServed
    <3> QED BY <3>2, <3>3
  <2> QED BY <2>2, <2>3 DEF AsIfAlone
<1> QED BY <1>1, <1>2, <1>3, PTL DEF Spec
=============================================================================
