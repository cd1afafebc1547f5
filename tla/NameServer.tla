----------------------------- MODULE NameServer -----------------------------
(***************************************************************************)
(* The name server: naming.NameServer over one of its storages.  Every     *)
(* client connection has a thread in the server, so operations overlap.    *)
(* NameServer.lock covers register, set_metadata, list and the deletion of *)
(* one name; it does not cover lookup, the test that remove starts with,   *)
(* or remove_items, which deletes what a prefix or regex has matched.      *)
(*                                                                         *)
(* The storages differ where threads meet.  MemoryStorage is a dict: a     *)
(* step is one dict operation, and iterating over it fails if its size     *)
(* changes.  DbmStorage has a lock of its own around every method and      *)
(* keeps no metadata.  SqlStorage runs one SELECT after another, and then  *)
(* one transaction; its rows are known by ids, and SQLite gives a new row  *)
(* the id after the highest one in use.                                    *)
(*                                                                         *)
(* Names that match a prefix or a regex are a set of names; the metadata   *)
(* of an entry is a set of tags.                                           *)
(***************************************************************************)
EXTENDS Naturals, FiniteSets

CONSTANTS
    Thread,    \* the threads that call the name server's methods
    Name,      \* the names that clients register
    NS,        \* NAMESERVER_NAME
    Uri, Tag,  \* uris and metadata tags
    Filters,   \* the sets of names that prefixes and regexes match
    Storages,  \* the storages to consider
    MaxOps,    \* bound: operations of all the clients
    MaxFaults, \* bound: how often the database fails
    None

AllNames == Name \cup {NS}

Row == [uri : Uri, meta : SUBSET Tag, id : Nat]  \* SqlStorage's row id, else 0

Op == [kind : {"register", "set_metadata", "remove", "remove_all", "list", "lookup"},
       name : AllNames, uri : Uri, meta : SUBSET Tag, safe : BOOLEAN,
       filter : SUBSET AllNames]

ASSUME NameAssumption ==
    /\ IsFiniteSet(Name) /\ NS \notin Name
    /\ None \notin Uri \cup Thread \cup AllNames \cup Row \cup Op
    /\ Filters \subseteq SUBSET AllNames
    /\ Storages \subseteq {"memory", "sql", "dbm"} /\ MaxOps \in Nat /\ MaxFaults \in Nat

VARIABLES
    storage,  \* the kind of storage, fixed
    table,    \* its contents
    lock,     \* NameServer.lock: the thread that holds it
    pc, op,   \* the threads: step, call
    items,    \* the names and uris a thread has listed
    picked,   \* the row a thread has selected
    crashed,  \* the threads whose last call ended with KeyError, RuntimeError, or the
              \* NamingError of a storage
    left,     \* operations the clients may still do
    faults    \* how often the database has failed

vars == <<storage, table, lock, pc, op, items, picked, crashed, left, faults>>

TypeOK ==
    /\ storage \in Storages /\ table \in [AllNames -> Row \cup {None}]
    /\ lock \in Thread \cup {None}
    /\ pc \in [Thread -> {"idle", "acquire", "write", "test", "delete", "list", "listing",
                          "items", "rows", "lookup", "meta"}]
    /\ op \in [Thread -> Op \cup {None}]
    /\ items \in [Thread -> [AllNames -> Uri \cup {None}]]
    /\ picked \in [Thread -> Row \cup {None}]
    /\ crashed \subseteq Thread
    /\ left \in 0 .. MaxOps /\ faults \in 0 .. MaxFaults

Nothing == [n \in AllNames |-> None]

(* The rows' ids when NameServerDaemon.__init__ has written its own entry. *)
FirstIds ==
    IF storage = "sql"
    THEN CHOOSE id \in [AllNames -> 1 .. Cardinality(AllNames)] :
            \A n \in Name : id[n] < id[NS] /\ \A m \in Name : id[m] = id[n] => m = n
    ELSE [n \in AllNames |-> 0]

(* A file may hold names from an earlier run. *)
Init ==
    /\ storage \in Storages
    /\ \E known \in SUBSET Name, u \in Uri :
        /\ storage = "memory" => known = {}
        /\ table = [n \in AllNames |->
                IF n \in known \cup {NS} THEN [uri |-> u, meta |-> {}, id |-> FirstIds[n]]
                                        ELSE None]
    /\ lock = None /\ pc = [t \in Thread |-> "idle"] /\ op = [t \in Thread |-> None]
    /\ items = [t \in Thread |-> Nothing] /\ picked = [t \in Thread |-> None]
    /\ crashed = {} /\ left = MaxOps /\ faults = 0

Keys == {n \in AllNames : table[n] # None}

Listed(t) == {n \in AllNames : items[t][n] # None}

Uris == [n \in AllNames |-> IF n \in Keys THEN table[n].uri ELSE None]

-----------------------------------------------------------------------------
FirstStep(kind) ==
    CASE kind \in {"register", "set_metadata"} -> "acquire"
      [] kind = "remove" -> "test"
      [] kind \in {"remove_all", "list"} -> "list"
      [] kind = "lookup" -> "lookup"

Call(t, o) ==
    /\ pc[t] = "idle"
    /\ op' = [op EXCEPT ![t] = o] /\ pc' = [pc EXCEPT ![t] = FirstStep(o.kind)]
    /\ UNCHANGED <<storage, table, lock, items, picked, crashed, faults>>

(* The calls of remote clients. *)
Begin(t) ==
    /\ left > 0 /\ left' = left - 1
    /\ \E o \in Op :
        /\ o.kind \notin {"register", "set_metadata"} => o.meta = {}
        /\ o.kind # "register" => ~o.safe /\ o.uri = CHOOSE u \in Uri : TRUE
        /\ IF o.kind = "remove_all" THEN o.filter \in Filters ELSE o.filter = {}
        /\ o.kind \in {"remove_all", "list"} => o.name = CHOOSE n \in Name : TRUE
        /\ Call(t, o)

(* Mutant: the lock is kept when the call fails. *)
ReturnLocked(t, r) ==
    /\ pc' = [pc EXCEPT ![t] = "idle"] /\ op' = [op EXCEPT ![t] = None]
    /\ picked' = [picked EXCEPT ![t] = None]
    /\ crashed' = IF r = "crashed" THEN crashed \cup {t} ELSE crashed \ {t}
    /\ lock' = IF lock = t /\ r = "ok" THEN None ELSE lock

(* The call ends: "ok", "none" (remove returns 0), "refused" (NamingError) *)
(* or "crashed" (another exception).  If it holds the lock, that is        *)
(* released.                                                               *)
Return(t, r) ==
    /\ pc' = [pc EXCEPT ![t] = "idle"] /\ op' = [op EXCEPT ![t] = None]
    /\ picked' = [picked EXCEPT ![t] = None]
    /\ crashed' = IF r = "crashed" THEN crashed \cup {t} ELSE crashed \ {t}
    /\ lock' = IF lock = t THEN None ELSE lock

-----------------------------------------------------------------------------
(* register and set_metadata *)

(* Mutant: the lock does not cover the test. *)
AcquireRegisterLate(t) ==
    /\ pc[t] = "acquire" /\ op[t].kind = "register" /\ lock = None
    /\ IF op[t].safe /\ op[t].name \in Keys
       THEN Return(t, "refused")
       ELSE pc' = [pc EXCEPT ![t] = "write"] /\ UNCHANGED <<lock, op, picked, crashed>>
    /\ UNCHANGED <<storage, table, items, left, faults>>

AcquireRegister(t) ==
    /\ pc[t] = "acquire" /\ op[t].kind = "register" /\ lock = None
    /\ IF op[t].safe /\ op[t].name \in Keys
       THEN Return(t, "refused")
       ELSE /\ lock' = t /\ pc' = [pc EXCEPT ![t] = "write"]
            /\ UNCHANGED <<op, picked, crashed>>
    /\ UNCHANGED <<storage, table, items, left, faults>>

(* Mutant: the lock does not cover the reading of the uri. *)
AcquireSetMetadataLate(t) ==
    /\ pc[t] = "acquire" /\ op[t].kind = "set_metadata" /\ lock = None
    /\ IF op[t].name \notin Keys
       THEN Return(t, "refused")
       ELSE /\ pc' = [pc EXCEPT ![t] = "write"]
            /\ op' = [op EXCEPT ![t].uri = table[op[t].name].uri]
            /\ UNCHANGED <<lock, picked, crashed>>
    /\ UNCHANGED <<storage, table, items, left, faults>>

(* Mutant: the whole row is taken for the uri. *)
AcquireSetMetadataOfRow(t) ==
    /\ pc[t] = "acquire" /\ op[t].kind = "set_metadata" /\ lock = None
    /\ IF op[t].name \notin Keys
       THEN Return(t, "refused")
       ELSE /\ lock' = t /\ pc' = [pc EXCEPT ![t] = "write"]
            /\ op' = [op EXCEPT ![t].uri = table[op[t].name]]
            /\ UNCHANGED <<picked, crashed>>
    /\ UNCHANGED <<storage, table, items, left, faults>>

AcquireSetMetadata(t) ==
    /\ pc[t] = "acquire" /\ op[t].kind = "set_metadata" /\ lock = None
    /\ IF op[t].name \notin Keys
       THEN Return(t, "refused")
       ELSE /\ lock' = t /\ pc' = [pc EXCEPT ![t] = "write"]
            /\ op' = [op EXCEPT ![t].uri = table[op[t].name].uri]
            /\ UNCHANGED <<picked, crashed>>
    /\ UNCHANGED <<storage, table, items, left, faults>>

(* Mutant: the number of rows is taken for the highest id. *)
NewIdByCount(n) == IF storage = "sql" THEN Cardinality(Keys \ {n}) + 1 ELSE 0

NewId(n) ==
    LET used == {0} \cup {table[m].id : m \in Keys \ {n}}
    IN  IF storage = "sql" THEN CHOOSE i \in {j + 1 : j \in used} : \A j \in used : j < i
                           ELSE 0

(* The storage's __setitem__; an existing row is deleted first. *)
SetItem(t) ==
    /\ pc[t] = "write"
    /\ table' = [table EXCEPT ![op[t].name] =
                    [uri  |-> op[t].uri,
                     meta |-> IF storage = "dbm" THEN {} ELSE op[t].meta,
                     id   |-> NewId(op[t].name)]]
    /\ Return(t, "ok")
    /\ UNCHANGED <<storage, items, left, faults>>

-----------------------------------------------------------------------------
(* remove(name): the test is made without the lock. *)
TestName(t) ==
    /\ pc[t] = "test"
    /\ IF op[t].name \in Keys /\ op[t].name # NS
       THEN pc' = [pc EXCEPT ![t] = "delete"] /\ UNCHANGED <<op, picked, crashed, lock>>
       ELSE Return(t, "none")
    /\ UNCHANGED <<storage, table, items, left, faults>>

(* The storage's __delitem__: of a name that is gone, KeyError, but not    *)
(* from SqlStorage.                                                        *)
DeleteName(t) ==
    /\ pc[t] = "delete" /\ lock = None
    /\ table' = [table EXCEPT ![op[t].name] = None]
    /\ Return(t, IF op[t].name \in Keys \/ storage = "sql" THEN "ok" ELSE "crashed")
    /\ UNCHANGED <<storage, items, left, faults>>

(* list, with a filter or without *)
ListBegins(t) ==
    /\ pc[t] = "list" /\ lock = None
    /\ lock' = t /\ pc' = [pc EXCEPT ![t] = "listing"]
    /\ items' = [items EXCEPT ![t] = Uris]
    /\ UNCHANGED <<storage, table, op, picked, crashed, left, faults>>

Disturbed(t) == storage = "memory" /\ Keys # Listed(t)

(* Over SqlStorage a regex is tried on the names of one SELECT, and each   *)
(* match is looked up by another.                                          *)
Missed(t) ==
    storage = "sql" /\ op[t].kind = "remove_all" /\ ~(Listed(t) \cap op[t].filter \subseteq Keys)

ListFails(t) ==
    /\ pc[t] = "listing" /\ (Disturbed(t) \/ Missed(t))
    /\ Return(t, "crashed") /\ items' = [items EXCEPT ![t] = Nothing]
    /\ UNCHANGED <<storage, table, left, faults>>

ListEnds(t) ==
    /\ pc[t] = "listing" /\ op[t].kind = "list" /\ ~Disturbed(t)
    /\ Return(t, "ok")
    /\ UNCHANGED <<storage, table, items, left, faults>>

(* Mutant: the name server's entry is not spared. *)
ListForRemovalOfAll(t) ==
    /\ pc[t] = "listing" /\ op[t].kind = "remove_all" /\ ~Disturbed(t)
    /\ lock' = None /\ pc' = [pc EXCEPT ![t] = "items"]
    /\ items' = [items EXCEPT ![t] =
                    [n \in AllNames |-> IF n \in op[t].filter THEN @[n] ELSE None]]
    /\ UNCHANGED <<storage, table, op, picked, crashed, left, faults>>

(* remove(prefix) and remove(regex): what matches, except the name server, *)
(* is deleted after the lock is released.                                  *)
ListForRemoval(t) ==
    /\ pc[t] = "listing" /\ op[t].kind = "remove_all" /\ ~Disturbed(t)
    /\ lock' = None /\ pc' = [pc EXCEPT ![t] = "items"]
    /\ items' = [items EXCEPT ![t] =
                    [n \in AllNames |-> IF n \in op[t].filter \ {NS} THEN @[n] ELSE None]]
    /\ UNCHANGED <<storage, table, op, picked, crashed, left, faults>>

(* MemoryStorage.remove_items: one del after another. *)
RemoveOneItem(t) ==
    /\ pc[t] = "items" /\ storage = "memory"
    /\ \E n \in Listed(t) :
        /\ table' = [table EXCEPT ![n] = None]
        /\ items' = [items EXCEPT ![t][n] = None]
    /\ UNCHANGED <<storage, lock, pc, op, picked, crashed, left, faults>>

(* DbmStorage.remove_items *)
RemoveAllItems(t) ==
    /\ pc[t] = "items" /\ storage = "dbm" /\ Listed(t) # {}
    /\ table' = [n \in AllNames |-> IF n \in Listed(t) THEN None ELSE table[n]]
    /\ items' = [items EXCEPT ![t] = Nothing]
    /\ UNCHANGED <<storage, lock, pc, op, picked, crashed, left, faults>>

(* SqlStorage.remove_items: the first row that is found is selected before *)
(* the transaction, the others inside it.                                  *)
SelectItem(t) ==
    /\ pc[t] = "items" /\ storage = "sql"
    /\ \E n \in Listed(t) :
        /\ items' = [items EXCEPT ![t][n] = None]
        /\ picked' = [picked EXCEPT ![t] = table[n]]
        /\ pc' = [pc EXCEPT ![t] = IF n \in Keys THEN "rows" ELSE @]
    /\ UNCHANGED <<storage, table, lock, op, crashed, left, faults>>

DeleteRows(t) ==
    /\ pc[t] = "rows"
    /\ table' = [n \in AllNames |->
                    IF n \in Listed(t) \/ (n \in Keys /\ table[n].id = picked[t].id)
                    THEN None ELSE table[n]]
    /\ items' = [items EXCEPT ![t] = Nothing]
    /\ picked' = [picked EXCEPT ![t] = None] /\ pc' = [pc EXCEPT ![t] = "items"]
    /\ UNCHANGED <<storage, lock, op, crashed, left, faults>>

RemovalEnds(t) ==
    /\ pc[t] = "items" /\ Listed(t) = {}
    /\ Return(t, "ok")
    /\ UNCHANGED <<storage, table, items, left, faults>>

-----------------------------------------------------------------------------
(* lookup, which takes no lock: SqlStorage selects the row and then the    *)
(* metadata by the row's id.                                               *)
Lookup(t) ==
    /\ pc[t] = "lookup"
    /\ IF op[t].name \notin Keys THEN Return(t, "refused")
       ELSE IF storage # "sql" THEN Return(t, "ok")
       ELSE /\ picked' = [picked EXCEPT ![t] = table[op[t].name]]
            /\ pc' = [pc EXCEPT ![t] = "meta"] /\ UNCHANGED <<lock, op, crashed>>
    /\ UNCHANGED <<storage, table, items, left, faults>>

LookupMetadata(t) ==
    /\ pc[t] = "meta"
    /\ Return(t, "ok")
    /\ UNCHANGED <<storage, table, items, left, faults>>

-----------------------------------------------------------------------------
(* The steps that open the database. *)
Opens(t) ==
    CASE pc[t] = "acquire" -> lock = None /\ (op[t].kind = "register" => op[t].safe)
      [] pc[t] \in {"delete", "list"} -> lock = None
      [] pc[t] = "items" -> Listed(t) # {}
      [] OTHER -> pc[t] \in {"write", "test", "rows", "lookup", "meta"}

(* SQLite or dbm reports an error, which the storage turns into a          *)
(* NamingError: nothing of a transaction is committed.                     *)
StorageFails(t) ==
    /\ storage # "memory" /\ faults < MaxFaults /\ faults' = faults + 1
    /\ pc[t] # "idle" /\ Opens(t)
    /\ Return(t, "crashed") /\ items' = [items EXCEPT ![t] = Nothing]
    /\ UNCHANGED <<storage, table, left>>

-----------------------------------------------------------------------------
Step(t) ==
    \/ AcquireRegister(t) \/ AcquireSetMetadata(t) \/ SetItem(t) \/ TestName(t)
    \/ DeleteName(t) \/ ListBegins(t) \/ ListFails(t) \/ ListEnds(t) \/ ListForRemoval(t)
    \/ RemoveOneItem(t) \/ RemoveAllItems(t) \/ SelectItem(t) \/ DeleteRows(t)
    \/ RemovalEnds(t) \/ Lookup(t) \/ LookupMetadata(t) \/ StorageFails(t)

-----------------------------------------------------------------------------
(* Properties *)

(* Rows in use have different ids: deleting a selected row deletes at most *)
(* one entry beside those asked for.                                       *)
IdsDiffer ==
    storage = "sql" => \A m, n \in Keys : table[m].id = table[n].id => m = n

(* remove with a regex deletes entries that match it, and no others        *)
(* (nameserver.rst:253, "Removes all entries matching the given regular    *)
(* expression pattern").  SqlStorage.remove_items, line 213, does not keep *)
(* this: the id it has selected may be another name's when it deletes.     *)
RemovesMatched ==
    [][\A t \in Thread : RemoveOneItem(t) \/ RemoveAllItems(t) \/ DeleteRows(t) =>
            \A n \in Keys : table'[n] = None => n \in op[t].filter]_vars

(* set_metadata updates an existing registration (naming.py:122, "update   *)
(* the metadata for an existing registration").  NameServer.remove does    *)
(* not keep this for it: remove_items may delete the name between the      *)
(* reading of its uri, line 130, and the writing, line 133, which then     *)
(* makes a new registration.                                               *)
UpdatesExisting ==
    [][\A t \in Thread : SetItem(t) /\ op[t].kind = "set_metadata" => op[t].name \in Keys]_vars

=============================================================================
