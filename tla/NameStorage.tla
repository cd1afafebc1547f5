---------------------------- MODULE NameStorage ----------------------------
(***************************************************************************)
(* The storages of the name server (naming.MemoryStorage, naming_storage.  *)
(* SqlStorage and DbmStorage) as maps, one call at a time, in a process    *)
(* that may crash and be started again.  A method of SqlStorage is a list  *)
(* of statements: its DML is in a transaction that the method commits, and *)
(* the DDL of __init__ is durable at once.  NameServer has the calls of    *)
(* several threads.                                                        *)
(***************************************************************************)
EXTENDS Values, Naturals, FiniteSets, Sequences, FiniteSetsExt

CONSTANTS Name, Uri, Tag,
    Begins,     \* of each prefix: the names that start with it
    Alike,      \* of each prefix: the names that LIKE takes to start with it
    Matched,    \* of each regex: the names that begin with what it matches
    MatchedAll, \* of each regex: the names that it matches to their end
    Databases,  \* what an SQL file may hold at the start: "none", "old", "current"
    MaxCalls

VARIABLES
    provider,   \* "memory", "dbm" or "sql"
    dict,       \* memory: the dict; dbm: the file
    file,       \* sql: the tables as they are on disk
    todo,       \* sql: the tables after each of the method's statements to come
    status,     \* "new"; of the process: "down", "opening", "up", "failed"
    method,     \* the call under way: [names, entry], or None
    saved,      \* what the storage held at the start
    calls       \* how many methods were called

storageVars == <<provider, dict, file, todo, status, method, saved, calls>>

Entry == [uri : Uri, meta : SUBSET Tag]

(* A row of pyro_names.  A new row's id is one higher than the highest, so *)
(* MaxId bounds those that MaxCalls calls can give.                        *)
MaxId == Cardinality(Name) + MaxCalls
Row == [id : 1 .. MaxId, name : Name, uri : Uri]

ASSUME StorageAssumption ==
    /\ IsFiniteSet(Name) /\ IsFiniteSet(Tag) /\ MaxCalls \in Nat
    /\ Databases \subseteq {"none", "old", "current"}
    /\ None \notin Entry /\ None \notin [names : SUBSET Name, entry : Entry \cup {None}]
    /\ \A S \in SUBSET Row : S # None
    /\ \A T \in SUBSET ((1 .. MaxId) \X Tag) : T # None
    /\ \A p \in DOMAIN Begins : Begins[p] \subseteq Alike[p]
    /\ DOMAIN MatchedAll = DOMAIN Matched
    /\ \A r \in DOMAIN Matched : MatchedAll[r] \subseteq Matched[r]

Empty == [n \in Name |-> None]

(* The tables pyro_names and pyro_metadata, and pyro_names_old.  None is a *)
(* table that does not exist.                                              *)
Tables(names, meta, old) == [names |-> names, meta |-> meta, old |-> old]

Rows(db) == IF db.names = None THEN {} ELSE db.names
TagsOf(db, id) == {t \in Tag : db.meta # None /\ <<id, t>> \in db.meta}

View(db) ==
    [n \in Name |->
        IF \E r \in Rows(db) : r.name = n
        THEN LET r == CHOOSE r \in Rows(db) : r.name = n
             IN  [uri |-> r.uri, meta |-> TagsOf(db, r.id)]
        ELSE None]

(* A row for each name, numbered from 1 as INSERT ... SELECT does. *)
Numbered(map) ==
    LET S == {n \in Name : map[n] # None}
        number == CHOOSE f \in [S -> 1 .. Cardinality(S)] : \A m, n \in S : f[m] = f[n] => m = n
    IN  {[id |-> number[n], name |-> n, uri |-> map[n].uri] : n \in S}

StorageInit ==
    /\ provider = "sql" /\ dict = Empty /\ file = Tables(None, None, None)
    /\ todo = <<>> /\ status = "new" /\ method = None
    /\ saved = Empty /\ calls = 0

(* A storage of some kind exists already.  The old schema had no metadata; *)
(* its rows are kept in the table that an upgrade starts from.             *)
Choose ==
    /\ status = "new" /\ status' = "down"
    /\ provider' \in {"memory", "dbm", "sql"}
    /\ saved' \in [Name -> {[uri |-> u, meta |-> {}] : u \in Uri} \cup {None}]
    /\ dict' = IF provider' = "dbm" THEN saved' ELSE Empty
    /\ IF provider' = "sql"
       THEN \E d \in Databases :
            /\ file' = CASE d = "none" -> Tables(None, None, None)
                         [] d = "old" -> Tables(Numbered(saved'), None, None)
                         [] d = "current" -> Tables(Numbered(saved'), {}, None)
            /\ d = "none" => saved' = Empty
       ELSE file' = file /\ (provider' = "memory" => saved' = Empty)
    /\ UNCHANGED <<todo, method, calls>>

-----------------------------------------------------------------------------
(* The statements of SqlStorage's methods, as what the tables hold after   *)
(* each of them.                                                           *)

Durable(db) == [db |-> db, durable |-> TRUE]
Pending(db) == [db |-> db, durable |-> FALSE]

(* Mutant: without a transaction. *)
CommittedEach(dbs) == [i \in 1 .. Len(dbs) |-> Durable(dbs[i])]

Committed(dbs) == [i \in 1 .. Len(dbs) |-> Pending(dbs[i])] \o <<Durable(dbs[Len(dbs)])>>

CreateSchema(db) ==
    <<Durable([db EXCEPT !.names = {}]), Durable([db EXCEPT !.names = {}, !.meta = {}])>>

(* The upgrade of a database without metadata. *)
Upgrade(db) ==
    LET renamed == Tables(None, None, db.names)
        copied == Tables(db.names, {}, db.names)
    IN  <<Durable(renamed)>> \o CreateSchema(renamed)
            \o Committed(<<copied, [copied EXCEPT !.old = None]>>)

(* Mutant: the metadata of a deleted name stays. *)
DeleteRowsKeepingTags(db, S) ==
    <<[db EXCEPT !.names = {r \in @ : r.name \notin S}]>>

DeleteRows(db, S) ==
    LET ids == {r.id : r \in {x \in db.names : x.name \in S}}
        untagged == [db EXCEPT !.meta = {t \in @ : t[1] \notin ids}]
    IN  <<untagged, [untagged EXCEPT !.names = {r \in @ : r.id \notin ids}]>>

(* A new row after the highest one, and then its metadata. *)
SetItem(db, n, e) ==
    LET deleted == DeleteRows(db, {n})
        base == deleted[Len(deleted)]
        id == 1 + Max({0} \cup {r.id : r \in base.names})
        inserted == [base EXCEPT !.names = @ \cup {[id |-> id, name |-> n, uri |-> e.uri]}]
    IN  deleted \o <<inserted, [inserted EXCEPT !.meta = @ \cup {<<id, t>> : t \in e.meta}]>>

-----------------------------------------------------------------------------
(* The process *)

(* __init__.  A table that cannot be renamed is an error, in every start.  *)
Open ==
    /\ status = "down"
    /\ IF provider # "sql" \/ (file.names # None /\ file.meta # None)
       THEN status' = "up" /\ todo' = todo
       ELSE IF file.names = None
       THEN status' = "opening" /\ todo' = CreateSchema(file)
       ELSE IF file.old # None
       THEN status' = "failed" /\ todo' = todo
       ELSE status' = "opening" /\ todo' = Upgrade(file)
    /\ UNCHANGED <<provider, dict, file, method, saved, calls>>

Call(S, e, statements) ==
    /\ status = "up" /\ method = None /\ calls < MaxCalls /\ calls' = calls + 1
    /\ method' = [names |-> S, entry |-> e]
    /\ todo' = IF provider = "sql" THEN Committed(statements) ELSE <<>>
    /\ UNCHANGED <<provider, dict, file, status, saved>>

Put(n, e) == Call({n}, e, SetItem(file, n, e))
Delete(n) == Call({n}, None, DeleteRows(file, {n}))
RemoveItems(S) == Call(S, None, DeleteRows(file, S))
ClearAll == Call(Name, None, DeleteRows(file, Name))

(* The next statement of SqlStorage. *)
Execute ==
    /\ todo # <<>> /\ todo' = Tail(todo)
    /\ file' = IF Head(todo).durable THEN Head(todo).db ELSE file
    /\ IF todo' = <<>> THEN status' = "up" /\ method' = None
       ELSE UNCHANGED <<status, method>>
    /\ UNCHANGED <<provider, dict, saved, calls>>

(* The dict of MemoryStorage, or the file of DbmStorage. *)
Update ==
    /\ method # None /\ provider # "sql" /\ method' = None
    /\ LET e == IF provider = "dbm" /\ method.entry # None
                THEN [method.entry EXCEPT !.meta = {}] ELSE method.entry
       IN  dict' = [n \in Name |-> IF n \in method.names THEN e ELSE dict[n]]
    /\ UNCHANGED <<provider, file, todo, status, saved, calls>>

Crash ==
    /\ status \in {"up", "opening"} /\ status' = "down"
    /\ todo' = <<>> /\ method' = None
    /\ dict' = IF provider = "memory" THEN Empty ELSE dict
    /\ UNCHANGED <<provider, file, saved, calls>>

StorageNext ==
    \/ Choose \/ Open \/ Execute \/ Update \/ Crash \/ ClearAll
    \/ \E n \in Name : Delete(n) \/ \E e \in Entry : Put(n, e)
    \/ \E S \in SUBSET Name : RemoveItems(S)

StorageSpec == StorageInit /\ [][StorageNext]_storageVars

-----------------------------------------------------------------------------
(* What can be read, in each storage and through the name server. *)

AtRest == status = "up" /\ method = None

SqlKeys == {r.name : r \in file.names}
DictKeys == {n \in Name : dict[n] # None}
Keys == IF provider = "sql" THEN SqlKeys ELSE DictKeys

SqlItem(n) ==
    LET r == CHOOSE r \in file.names : r.name = n
    IN  [uri |-> r.uri, meta |-> TagsOf(file, r.id)]
Item(n) == IF provider = "sql" THEN SqlItem(n) ELSE dict[n]

SqlCount == Cardinality(file.names)
Count == IF provider = "sql" THEN SqlCount ELSE Cardinality(DictKeys)

SqlEverything == [n \in SqlKeys |-> SqlItem(n)]
DictEverything == [n \in DictKeys |-> dict[n]]

SqlPrefixList(p) == {r.name : r \in {x \in file.names : x.name \in Alike[p]}}
DictPrefixList(p) == {n \in DictKeys : n \in Begins[p]}
ListPrefix(p) == IF provider = "sql" THEN SqlPrefixList(p) ELSE DictPrefixList(p)

(* NameServer.list uses re.match; DbmStorage adds "$" to the regex.         *)
DbmRegexList(r) == {n \in DictKeys : n \in MatchedAll[r]}
ListMatching(r) ==
    IF provider = "dbm" THEN DbmRegexList(r) ELSE {n \in Keys : n \in Matched[r]}

(* Mutant: the rows with the tags are not counted. *)
SqlSearchAllUncounted(T, given) ==
    {r.name : r \in {x \in file.names : \E t \in file.meta : t[1] = x.id /\ t[2] \in T}}

(* optimized_metadata_search counts the rows with the tags T, and compares *)
(* with how many tags were given, repetitions included (naming_storage     *)
(* lines 194-198); NameServer.list compares sets; DbmStorage refuses.      *)
SqlSearchAll(T, given) ==
    LET hits(id) == {t \in file.meta : t[1] = id /\ t[2] \in T}
    IN  {r.name : r \in {x \in file.names : Cardinality(hits(x.id)) = given}}

SqlSearchAny(T) ==
    {r.name : r \in {x \in file.names : \E t \in file.meta : t[1] = x.id /\ t[2] \in T}}

ListAllGiven(T, given) ==
    IF provider = "sql" THEN SqlSearchAll(T, given)
    ELSE {n \in DictKeys : T \subseteq dict[n].meta}
ListAll(T) == ListAllGiven(T, Cardinality(T))
ListAny(T) ==
    IF provider = "sql" THEN SqlSearchAny(T) ELSE {n \in DictKeys : T \cap dict[n].meta # {}}

-----------------------------------------------------------------------------
(* Properties *)

(* The constraints of the schema, on disk at any moment: ids and names are *)
(* unique, and metadata belongs to a row (naming_storage lines 68-79).     *)
StorageTypeOK ==
    /\ dict \in [Name -> Entry \cup {None}]
    /\ \A q, r \in Rows(file) : q.id = r.id \/ q.name = r.name => q = r
    /\ file.meta # None =>
        \A t \in file.meta : t[2] \in Tag /\ \E r \in Rows(file) : r.id = t[1]

(* Each storage is a map that changes by whole methods, at the moment of   *)
(* the commit, whatever a crash interrupts; an upgrade of the schema alone *)
(* may lose what it was to keep (lines 56-64).                             *)
Upgrades == todo # <<>> /\ todo[Len(todo)].db.old # file.old

Entries ==
    IF provider # "sql" THEN dict
    ELSE IF Upgrades THEN View(Tables(file.old, None, None))
    ELSE View(file)

Table == INSTANCE NameTable WITH
    entries <- Entries, call <- method, keeps <- provider # "dbm", lasts <- provider # "memory",
    upgrading <- file.old # None

StoresTable == [][UNCHANGED storageVars \/ status = "new" \/ Table!Next]_(Table!vars)

(* What a caller reads once a method has returned is the same map through  *)
(* each of the ways to read it, over each storage: the number of names,    *)
(* all entries, the names with a prefix or matching a regex, and the       *)
(* searches by metadata, although SqlStorage counts rows of a join (lines  *)
(* 184-206) where NameServer.list compares sets (naming lines 206-224).    *)
(* The exceptions are exact: LIKE (line 170) gives more than the prefix    *)
(* when a name is alike only, DbmStorage fewer than the regex when it does *)
(* not match to the end of a name, and each tag is given once.             *)
ReadsAgree ==
    AtRest =>
        /\ Count = Cardinality(Keys)
        /\ Keys = {n \in Name : Entries[n] # None}
        /\ IF provider = "sql" THEN SqlEverything = [n \in Keys |-> Entries[n]]
                               ELSE DictEverything = [n \in Keys |-> Entries[n]]
        /\ \A p \in DOMAIN Begins :
            /\ Keys \cap Begins[p] \subseteq ListPrefix(p)
            /\ (provider = "sql" => Keys \cap Alike[p] \subseteq Begins[p])
                => ListPrefix(p) = Keys \cap Begins[p]
        /\ \A r \in DOMAIN Matched :
            /\ Keys \cap MatchedAll[r] \subseteq ListMatching(r)
            /\ (provider = "dbm" => Keys \cap Matched[r] \subseteq MatchedAll[r])
                => ListMatching(r) = Keys \cap Matched[r]
        /\ provider # "dbm" => \A T \in (SUBSET Tag) \ {{}} :
            /\ ListAll(T) = {n \in Keys : T \subseteq Entries[n].meta}
            /\ ListAny(T) = UNION {ListAll({t}) : t \in T}

-----------------------------------------------------------------------------
(* What the docs and a comment say, which the code does not keep.          *)

(* naming_storage.py:60: "metadata schema needs to be created and existing *)
(* data migrated" -- a name server that starts has the names of the file.  *)
UpgradeKeepsNames == AtRest /\ calls = 0 => provider = "memory" \/ Entries = saved

(* nameserver.rst:231-232: "the list will be filtered to show only the     *)
(* objects whose name starts with the prefix" -- also where the list is    *)
(* the one of SqlStorage.optimized_prefix_list (line 170).                 *)
PrefixExact == AtRest => \A p \in DOMAIN Begins : ListPrefix(p) \subseteq Begins[p]

(* nameserver.rst:642, of metadata_all: "give all objects having *all* of  *)
(* the given metadata tags" -- also when an iterable that is no set names  *)
(* a tag twice (naming lines 200-203, naming_storage lines 195-197).       *)
SearchExact ==
    AtRest /\ provider # "dbm" =>
        \A T \in (SUBSET Tag) \ {{}} : \A given \in {Cardinality(T), Cardinality(T) + 1} :
            ListAllGiven(T, given) = {n \in Keys : T \subseteq Entries[n].meta}

(* The tables of names and metadata fit together at every step, and all    *)
(* reads agree on them, optimized or not.                                  *)
StorageInv == StorageTypeOK /\ ReadsAgree
=============================================================================
