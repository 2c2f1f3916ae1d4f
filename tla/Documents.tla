----------------------------- MODULE Documents -----------------------------
(***************************************************************************)
(* The data store of centrald: clients read an object, change it and write *)
(* the attributes they name, with or without the version they have read    *)
(* (pkg/centrald/mongods/odh.go and helpers.go, one handler per collection *)
(* as in DocTables, makeStdUpdateArgs of pkg/centrald/handlers/misc.go).   *)
(*                                                                         *)
(* A field is a small value of its kind: fields of one kind are treated    *)
(* alike by the code, so that a document is given one field of each kind   *)
(* beside those of its keys and its state.                                 *)
(***************************************************************************)
EXTENDS DocTables, Naturals, Sequences, FiniteSets, SequencesExt, Functions

CONSTANTS
    Types,        \* the collections to look at
    Client,       \* the clients of the data store
    MaxDocs,      \* documents created, a copy of a service plan not counted
    MaxUpdates,   \* updates and copies asked for
    Subfields,    \* TRUE: a policy that is inherited may have one of its fields set
    FreshObject   \* TRUE: the answer of mongo is decoded into an object of its own

VARIABLES
    type,    \* the collection
    docs,    \* id -> [ver, f], the documents
    made,    \* the number of documents ever made: ids are not used again
    held,    \* client -> what it has read: [id, ver, obj]
    late,    \* client -> the answer it awaits from a handler that has yet to cache it: [id, doc]
    cache,   \* id -> document: the copies the cluster handler keeps
    did,     \* the last operation
    asked    \* the number of updates and copies asked for

vars == <<type, docs, made, held, late, cache, did, asked>>

None == [none |-> TRUE]
Nothing == [op |-> "none"]

---------------------------------------------------------------------------
(* Values.  0 is the zero value of a scalar; 9 is the state a field has by default. *)

Numbers == {1, 2}
Index == {0, 1}
Name == {"x", "y"}
Terminal == {2}
DefaultState == 9

OneOfEach(fields) == {CHOOSE f \in DOMAIN fields : fields[f].k = k : k \in {fields[f].k : f \in DOMAIN fields}}

Inner(kind) == OneOfEach(kind.f)

Leaf(k) ==
    CASE k \in {"scalar", "default"} -> {0} \cup Numbers
      [] k = "list" -> {<<1>>, <<2, 1>>}
      [] k = "map" -> UNION {[S -> Numbers] : S \in SUBSET Name}

Empty(k) == CASE k \in {"scalar", "default"} -> 0 [] k = "list" -> <<>> [] k = "map" -> [x \in {} |-> 0]
Filled(k) == CASE k \in {"scalar", "default"} -> 1 [] k = "list" -> <<1>> [] k = "map" -> [x \in {"x"} |-> 1]

(* An object as the API shows it: a policy that is inherited is not there. *)
ZeroOf(kind) ==
    CASE kind.k = "struct" -> [s \in Inner(kind) |-> Empty(kind.f[s].k)]
      [] kind.k = "policy" -> None
      [] OTHER -> Empty(kind.k)
SomeOf(kind) ==
    CASE kind.k \in {"struct", "policy"} -> [s \in Inner(kind) |-> Filled(kind.f[s].k)]
      [] OTHER -> Filled(kind.k)

(* The values a client may put in the body for a field. *)
Bodies(kind) ==
    CASE kind.k \in {"struct", "policy"} -> {ZeroOf(kind), SomeOf(kind)}
      [] kind.k = "map" -> {m \in Leaf("map") : \A x \in DOMAIN m : m[x] = 2}
      [] kind.k \in {"scalar", "default"} -> Numbers
      [] OTHER -> Leaf(kind.k)

---------------------------------------------------------------------------
(* Conversions between the objects of the API and the documents. *)

FromLeaf(k, m) == IF k = "default" /\ m = 0 THEN DefaultState ELSE m

PolicyFromModel(kind, m) ==
    IF m = None THEN [inherited |-> TRUE, p |-> [s \in Inner(kind) |-> Empty(kind.f[s].k)]] ELSE [inherited |-> FALSE, p |-> m]
PolicyToModel(v) == IF v.inherited THEN None ELSE v.p

FromModel(kind, m) ==
    CASE kind.k = "struct" -> [s \in Inner(kind) |-> FromLeaf(kind.f[s].k, m[s])]
      [] kind.k = "policy" -> PolicyFromModel(kind, m)
      [] OTHER -> FromLeaf(kind.k, m)
ToModel(kind, v) == IF kind.k = "policy" THEN PolicyToModel(v) ELSE v

Kind(f) == Docs[type][f]
FieldsOf ==
    [t \in DOMAIN Docs |->
        OneOfEach(Docs[t]) \cup UNION Keys[t] \cup {StateField[u] : u \in {t} \cap DOMAIN StateField}
        \cup (IF "Terminated" \in Ops[t] THEN {"Terminated"} ELSE {})
        \cup (IF "RemoveAccount" \in Ops[t] THEN {"Accounts"} ELSE {})]
Fields == FieldsOf[type]

Derived == {"Terminated"} \cap Fields
Model(d) == [f \in Fields \ Derived |-> ToModel(Kind(f), d.f[f])]

(* FromModel of a request derives Terminated from its state. *)
Document(obj) ==
    [f \in Fields |->
        IF f \in Derived THEN (IF obj[StateField[type]] \in Terminal THEN 1 ELSE 0) ELSE FromModel(Kind(f), obj[f])]

---------------------------------------------------------------------------
(***************************************************************************)
(* An update names, for some fields, the actions and a subfield or index   *)
(* (<<>> for the whole field), and brings an object in the body.             *)
(***************************************************************************)
Part(kind) ==
    CASE kind.k = "map" -> Name
      [] kind.k \in {"struct", "policy"} -> Inner(kind)
      [] kind.k = "list" -> Index
      [] OTHER -> {}

Attr(acts, sub) == [acts |-> acts, sub |-> sub]

ValidAttr(f, a) ==
    /\ Cardinality(a.acts) = 1
    /\ a.sub # <<>> => a.acts = {"set"} /\ a.sub[1] \in Part(Kind(f))
    /\ a.acts # {"set"} => Kind(f).k \in {"list", "map"}

MakeStdUpdateArgs(attrs) == DOMAIN attrs # {} /\ \A f \in DOMAIN attrs : ValidAttr(f, attrs[f])

(* The state of a request is never written without Terminated. *)
WithDerived(attrs) ==
    IF "Terminated" \in Ops[type] /\ StateField[type] \in DOMAIN attrs
    THEN [f \in DOMAIN attrs \cup {"Terminated"} |-> IF f = "Terminated" THEN Attr({"set"}, <<>>) ELSE attrs[f]]
    ELSE attrs

(* A subfield must be in the body, and an index within the list of the body. *)
Specified(f, a, body) ==
    a.sub # <<>> => CASE Kind(f).k = "map" -> a.sub[1] \in DOMAIN body[f]
                      [] Kind(f).k = "list" -> a.sub[1] < Len(body[f])
                      [] OTHER -> TRUE

(* An append to a map or a removal from it that names no key changes nothing. *)
Changes(f, a, body) == Kind(f).k = "map" /\ a.acts # {"set"} => DOMAIN body[f] # {}

CreateUpdateQuery(attrs, body) ==
    /\ \A f \in DOMAIN attrs : Specified(f, attrs[f], body)
    /\ \E f \in DOMAIN attrs : Changes(f, attrs[f], body)

---------------------------------------------------------------------------
(* What mongo does with the update: $set, $unset, $addToSet, $pull. *)

SetIndex(v, i, x) ==
    IF i < Len(v) THEN [v EXCEPT ![i + 1] = x] ELSE [j \in 1 .. i + 1 |-> IF j <= Len(v) THEN v[j] ELSE IF j = i + 1 THEN x ELSE 0]
AddToSet(v, new) == FoldLeft(LAMBDA acc, x : IF Contains(acc, x) THEN acc ELSE Append(acc, x), v, new)
Pull(v, old) == SelectSeq(v, LAMBDA x : ~Contains(old, x))
SetKeys(v, new) == [x \in DOMAIN v \cup DOMAIN new |-> IF x \in DOMAIN new THEN new[x] ELSE v[x]]
UnsetKeys(v, old) == Restrict(v, DOMAIN v \ DOMAIN old)

SetPart(kind, v, sub, b) ==
    CASE kind.k = "map" -> SetKeys(v, [x \in {sub} |-> b[sub]])
      [] kind.k = "list" -> SetIndex(v, sub, b[sub + 1])
      [] kind.k = "policy" -> [v EXCEPT !.p = [v.p EXCEPT ![sub] = b.p[sub]]]
      [] OTHER -> [v EXCEPT ![sub] = b[sub]]

Written(kind, v, a, b) ==
    CASE a.acts = {"set"} /\ a.sub = <<>> -> b
      [] a.acts = {"set"} /\ a.sub # <<>> -> SetPart(kind, v, a.sub[1], b)
      [] a.acts = {"append"} /\ kind.k = "list" -> AddToSet(v, b)
      [] a.acts = {"remove"} /\ kind.k = "list" -> Pull(v, b)
      [] a.acts = {"append"} /\ kind.k = "map" -> SetKeys(v, b)
      [] a.acts = {"remove"} /\ kind.k = "map" -> UnsetKeys(v, b)

Updated_Append(d, attrs, b) ==
    [ver |-> d.ver + 1,
     f |-> [f \in Fields |->
             CASE f \notin DOMAIN attrs -> d.f[f]
               [] f \in DOMAIN attrs /\ Kind(f).k = "list" /\ attrs[f].acts = {"append"} -> d.f[f] \o b[f]
               [] OTHER -> Written(Kind(f), d.f[f], attrs[f], b[f])]]
Updated(d, attrs, b) ==
    [ver |-> d.ver + 1,
     f |-> [f \in Fields |-> IF f \in DOMAIN attrs THEN Written(Kind(f), d.f[f], attrs[f], b[f]) ELSE d.f[f]]]

(***************************************************************************)
(* The document as it is after the update is decoded into the object made  *)
(* of the body, where a map keeps the keys it already has, in a struct     *)
(* also.                                                                   *)
(***************************************************************************)
Over(k, b, d) == IF k = "map" /\ ~FreshObject THEN SetKeys(b, d) ELSE d
DecodeField(kind, b, d) ==
    IF kind.k = "struct" THEN [s \in DOMAIN d |-> Over(kind.f[s].k, b[s], d[s])] ELSE Over(kind.k, b, d)
Decode(b, d) == [ver |-> d.ver, f |-> [f \in Fields |-> DecodeField(Kind(f), b[f], d.f[f])]]

---------------------------------------------------------------------------
Clashes(i, f) ==
    \E key \in Keys[type], j \in DOMAIN docs \ {i} : \A k \in key : docs[j].f[k] = f[k]

Init ==
    /\ type \in Types
    /\ docs = << >> /\ made = 0
    /\ late = [c \in Client |-> None]
    /\ held = [c \in Client |-> None]
    /\ cache = << >>
    /\ did = Nothing
    /\ asked = 0

Cached == "Cache" \in Ops[type]
PutCache(i, d) == cache' = IF Cached THEN SetKeys(cache, [j \in {i} |-> d]) ELSE cache

Holding(i, d) == [id |-> i, ver |-> d.ver, obj |-> Model(d)]

(* The handler has written and answers: that of clusters only when it has     *)
(* locked its cache and put the document there, other calls in between.       *)
Answer(c, i, d) ==
    /\ late[c] = None
    /\ IF Cached THEN late' = [late EXCEPT ![c] = [id |-> i, doc |-> d]] /\ UNCHANGED held
                 ELSE held' = [held EXCEPT ![c] = Holding(i, d)] /\ UNCHANGED late
    /\ UNCHANGED cache

CacheAnswer(c) ==
    /\ late[c] # None
    /\ PutCache(late[c].id, late[c].doc)
    /\ held' = [held EXCEPT ![c] = Holding(late[c].id, late[c].doc)]
    /\ late' = [late EXCEPT ![c] = None]
    /\ did' = Nothing
    /\ UNCHANGED <<type, docs, made, asked>>

NewId == made + 1

Insert(f) ==
    /\ ~Clashes(NewId, f)
    /\ docs' = SetKeys(docs, [i \in {NewId} |-> [ver |-> 1, f |-> f]])
    /\ made' = NewId

(* Create: the object is converted and inserted; a duplicate key is an error.  Service plans come with centrald (Populate). *)
Create(c) ==
    /\ {"Create", "Populate"} \cap Ops[type] # {}
    /\ made < MaxDocs
    /\ \E full \in BOOLEAN, n \in Numbers :
         LET obj == [f \in Fields \ Derived |->
                        IF f \in UNION Keys[type] \cup {StateField[t] : t \in {type} \cap DOMAIN StateField}
                        THEN (IF full THEN n ELSE 1)
                        ELSE IF full THEN SomeOf(Kind(f)) ELSE ZeroOf(Kind(f))]
             d == [ver |-> 1, f |-> Document(obj)]
         IN  Insert(d.f) /\ Answer(c, NewId, d)
    /\ did' = Nothing
    /\ UNCHANGED <<type, asked>>

(* Fetch: a cluster that is in the cache is served from there. *)
Fetch(c, i) ==
    /\ late[c] = None
    /\ i \in DOMAIN docs \cup DOMAIN cache
    /\ LET d == IF i \in DOMAIN cache THEN cache[i] ELSE docs[i]
       IN  held' = [held EXCEPT ![c] = Holding(i, d)] /\ PutCache(i, d)
    /\ did' = Nothing
    /\ UNCHANGED <<type, docs, made, late, asked>>

(* List: every document that is found replaces the copy in the cache. *)
ListAll(c) ==
    /\ Cached /\ docs # << >>
    /\ cache' = SetKeys(cache, docs)
    /\ did' = Nothing
    /\ UNCHANGED <<type, docs, made, held, late, asked>>

Delete(i) ==
    /\ i \in DOMAIN docs
    /\ docs' = Restrict(docs, DOMAIN docs \ {i})
    /\ cache' = Restrict(cache, DOMAIN cache \ {i})
    /\ held' = [c \in Client |-> IF held[c] # None /\ held[c].id = i THEN None ELSE held[c]]
    /\ did' = Nothing
    /\ UNCHANGED <<type, made, late, asked>>

(* UpdateOne: the document with the id, and the version unless it is 0. *)
Found_AnyVersion(i, ver) == i \in DOMAIN docs
Found(i, ver) == i \in DOMAIN docs /\ (ver = 0 \/ docs[i].ver = ver)

UpdateOne(c, i, ver, attrs, b) ==
    /\ Found(i, ver)
    /\ LET d == Updated(docs[i], attrs, b)
           answer == Decode(b, d)
       IN  /\ ~Clashes(i, d.f)
           /\ docs' = [docs EXCEPT ![i] = d]
           /\ Answer(c, i, answer)
           /\ did' = [op |-> "update", id |-> i, answer |-> answer, attrs |-> attrs, ver |-> ver, body |-> b, was |-> docs[i],
                      read |-> held[c]]
    /\ UNCHANGED made

(* The requests a client makes of the object it holds: one attribute, or the state with messages. *)
Settable(t) == FieldsOf[t] \ ({"Terminated"} \cup UNION Keys[t])
Attributes ==
    [t \in DOMAIN Docs |->
        {[f \in {g} |-> Attr(acts, <<>>)] : g \in Settable(t), acts \in {{"set"}, {"append"}, {"remove"}, {"append", "remove"}}}
        \cup UNION {{[f \in {g} |-> Attr({"set"}, <<sub>>)] : sub \in Part(Docs[t][g])} : g \in Settable(t)}
        \cup {[f \in {StateField[u], g} |-> Attr(IF f = g THEN {"append"} ELSE {"set"}, <<>>)] :
                 u \in {t} \cap DOMAIN StateField, g \in {h \in Settable(t) : Docs[t][h].k = "list"}}]

NewValues(attrs) ==
    IF Cardinality(DOMAIN attrs) = 1
    THEN {[f \in DOMAIN attrs |-> b] : b \in UNION {Bodies(Kind(f)) : f \in DOMAIN attrs}}
    ELSE {[f \in DOMAIN attrs |-> IF f = StateField[type] THEN n ELSE <<2>>] : n \in Numbers}

Update(c) ==
    /\ held[c] # None
    /\ asked' = asked + 1
    /\ \E attrs \in Attributes[type], versioned \in BOOLEAN :
         /\ MakeStdUpdateArgs(attrs)
         /\ \E new \in NewValues(attrs) :
              /\ \A f \in DOMAIN attrs : attrs[f].sub # <<>> /\ Kind(f).k = "policy" => new[f] # None
              /\ LET obj == [f \in Fields \ Derived |-> IF f \in DOMAIN attrs THEN new[f] ELSE held[c].obj[f]]
                     all == WithDerived(attrs)
                 IN  /\ CreateUpdateQuery(attrs, obj)
                     /\ \A f \in DOMAIN attrs :
                          Kind(f).k = "policy" /\ attrs[f].sub # <<>> /\ held[c].id \in DOMAIN docs
                            => Subfields \/ ~docs[held[c].id].f[f].inherited
                     /\ UpdateOne(c, held[c].id, IF versioned THEN held[c].ver ELSE 0, all, Document(obj))
    /\ UNCHANGED type

(* Cancel: the flag of the request is set, with the version the client gives. *)
Cancel(c) ==
    /\ "Cancel" \in Ops[type] /\ held[c] # None
    /\ asked' = asked + 1
    /\ LET g == CHOOSE f \in Fields : Kind(f).k = "scalar" /\ f \notin Derived \cup {StateField[type]}
           attrs == [f \in {g} |-> Attr({"set"}, <<>>)]
           obj == [f \in Fields \ Derived |-> IF f = g THEN 1 ELSE ZeroOf(Kind(f))]
       IN  \E versioned \in BOOLEAN : UpdateOne(c, held[c].id, IF versioned THEN held[c].ver ELSE 0, attrs, Document(obj))
    /\ UNCHANGED type

(* Publish and Retire: the state of a plan, provided it is not, or is, PUBLISHED (1). *)
SetPlanState(c) ==
    /\ "Publish" \in Ops[type] /\ held[c] # None /\ held[c].id \in DOMAIN docs
    /\ asked' = asked + 1
    /\ \E new \in Numbers :
         /\ IF new = 1 THEN docs[held[c].id].f["State"] # 1 ELSE docs[held[c].id].f["State"] = 1
         /\ LET obj == [f \in Fields |-> IF f = "State" THEN new ELSE ZeroOf(Kind(f))]
            IN  UpdateOne(c, held[c].id, held[c].ver, [f \in {"State"} |-> Attr({"set"}, <<>>)], Document(obj))
    /\ UNCHANGED type

(* Clone: a copy of the plan under another name, unpublished. *)
Clone(c, i) ==
    /\ "Clone" \in Ops[type] /\ i \in DOMAIN docs /\ made <= MaxDocs
    /\ \E n \in Numbers :
         LET d == [ver |-> 1, f |-> [docs[i].f EXCEPT !["Name"] = n, !["State"] = 0]]
         IN  Insert(d.f) /\ Answer(c, NewId, d)
    /\ asked' = asked + 1
    /\ did' = Nothing
    /\ UNCHANGED type

(* UpdateAll: every document the filter selects, here those in a state or all of them. *)
UpdateAll(attrs, b, S) ==
    /\ docs' = [i \in DOMAIN docs |-> IF i \in S THEN Updated(docs[i], attrs, b) ELSE docs[i]]
    /\ did' = Nothing
    /\ UNCHANGED <<type, made, held, late, cache>>

RemoveAccount ==
    /\ "RemoveAccount" \in Ops[type] /\ docs # << >>
    /\ asked' = asked + 1
    /\ LET obj == [f \in Fields |-> IF f = "Accounts" THEN <<1>> ELSE ZeroOf(Kind(f))]
       IN  UpdateAll([f \in {"Accounts"} |-> Attr({"remove"}, <<>>)], Document(obj), DOMAIN docs)

UpdateMultiple ==
    /\ "UpdateMultiple" \in Ops[type] /\ docs # << >>
    /\ asked' = asked + 1
    /\ \E s, new \in Numbers :
         LET obj == [f \in Fields |-> IF f = "State" THEN new ELSE ZeroOf(Kind(f))]
         IN  UpdateAll([f \in {"State"} |-> Attr({"set"}, <<>>)], Document(obj), {i \in DOMAIN docs : docs[i].f["State"] = s})

Next ==
    \/ \E c \in Client : CacheAnswer(c)
    \/ /\ asked < MaxUpdates
       /\ \/ \E c \in Client : Create(c) \/ ListAll(c) \/ Update(c) \/ Cancel(c) \/ SetPlanState(c)
          \/ \E c \in Client, i \in DOMAIN docs \cup DOMAIN cache : Fetch(c, i) \/ Clone(c, i)
          \/ \E i \in DOMAIN docs : Delete(i)
          \/ RemoveAccount \/ UpdateMultiple

Spec == Init /\ [][Next]_vars

---------------------------------------------------------------------------
(* Properties. *)

(* What the API promises of an update, stated on the objects it shows. *)
AsAsked(kind, old, new, a, body) ==
    CASE a.acts = {"set"} /\ a.sub = <<>> -> new = body
      [] a.acts = {"set"} /\ a.sub # <<>> /\ kind.k = "map" ->
            LET x == a.sub[1] IN new[x] = body[x] /\ DOMAIN new = DOMAIN old \cup {x} /\ \A y \in DOMAIN old \ {x} : new[y] = old[y]
      [] a.acts = {"set"} /\ a.sub # <<>> /\ kind.k = "list" ->
            LET i == a.sub[1] + 1 IN new[i] = body[i] /\ \A j \in DOMAIN old \ {i} : new[j] = old[j]
      [] a.acts = {"set"} /\ a.sub # <<>> /\ kind.k \in {"struct", "policy"} ->
            new # None /\ \A x \in DOMAIN new : new[x] = (IF x = a.sub[1] THEN body[x] ELSE old[x])
      [] a.acts = {"append"} /\ kind.k = "list" -> IsPrefix(old, new) /\ ToSet(new) = ToSet(old) \cup ToSet(body)
                                                   /\ \A j \in Len(old) + 1 .. Len(new) : new[j] \notin ToSet(SubSeq(new, 1, j - 1))
      [] a.acts = {"remove"} /\ kind.k = "list" -> ToSet(new) = ToSet(old) \ ToSet(body)
      [] a.acts = {"append"} /\ kind.k = "map" ->
            DOMAIN new = DOMAIN old \cup DOMAIN body /\ \A x \in DOMAIN new : new[x] = (IF x \in DOMAIN body THEN body[x] ELSE old[x])
      [] a.acts = {"remove"} /\ kind.k = "map" ->
            DOMAIN new = DOMAIN old \ DOMAIN body /\ \A x \in DOMAIN new : new[x] = old[x]

(***************************************************************************)
(* An update does what it was asked for and nothing else: the attributes   *)
(* it names have, in the object that is then read, the values asked for,   *)
(* what it appends is there once and what it removes is gone, every other  *)
(* attribute is as it was, and the version has moved on by one.            *)
(***************************************************************************)
UpdateAsAsked ==
    did.op = "update" =>
        LET new == docs[did.id]
        IN  /\ new.ver = did.was.ver + 1
            /\ \A f \in Fields \ Derived :
                 IF f \in DOMAIN did.attrs
                 THEN AsAsked(Kind(f), ToModel(Kind(f), did.was.f[f]), ToModel(Kind(f), new.f[f]), did.attrs[f],
                              ToModel(Kind(f), did.body[f]))
                 ELSE new.f[f] = did.was.f[f]

(***************************************************************************)
(* An update that names a version never overwrites a change its client has *)
(* not seen: the document it changes is the one the client read, fetched,  *)
(* from the cache of clusters or as an answer.  The exception: the answer  *)
(* of an update may show, in a map, keys that are not stored (odh.go:325   *)
(* decodes it over the body), and the cache passes it on.  A client misses *)
(* nothing, but may believe that such a key is still there.                *)
(***************************************************************************)
Shows(k, m, old) == IF k = "map" THEN DOMAIN old \subseteq DOMAIN m /\ Restrict(m, DOMAIN old) = old ELSE m = old
ShowsField(kind, m, old) ==
    IF kind.k = "struct" THEN \A s \in DOMAIN old : Shows(kind.f[s].k, m[s], old[s]) ELSE Shows(kind.k, m, old)
NoLostUpdate ==
    did.op = "update" /\ did.ver # 0 =>
        /\ did.read.ver = did.was.ver
        /\ \A f \in Fields \ Derived : ShowsField(Kind(f), did.read.obj[f], Model(did.was)[f])

(***************************************************************************)
(* The flag by which active requests are found (IsTerminated, the index on *)
(* active requests, the filter added to a query by state) always agrees    *)
(* with the state of the request.                                          *)
(***************************************************************************)
TerminatedIsDerived ==
    "Terminated" \in Ops[type] =>
        \A i \in DOMAIN docs : (docs[i].f["Terminated"] = 1) <=> docs[i].f[StateField[type]] \in Terminal

(***************************************************************************)
(* The object returned by an update is the object that is now stored.      *)
(***************************************************************************)
AnswerIsStored == did.op = "update" => did.answer = docs[did.id]
(* What clients rely on: updates, versions and the derived flag.           *)
UpdatesAreTrue == UpdateAsAsked /\ NoLostUpdate /\ TerminatedIsDerived
=============================================================================
