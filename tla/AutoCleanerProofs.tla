------------------------- MODULE AutoCleanerProofs --------------------------
(***************************************************************************)
(* Proofs about the name server and its cleaner, for any threads, names,   *)
(* uris, tags and filters, and any number of operations, over each of the  *)
(* storages.                                                               *)
(***************************************************************************)
EXTENDS AutoCleaner, FiniteSetTheorems, FunctionTheorems, WellFoundedInduction, TLAPS

(* A bounded set of numbers has a greatest element. *)
LEMMA Greatest ==
    ASSUME NEW S \in SUBSET Nat, S # {}, NEW b \in Nat, \A j \in S : j <= b
    PROVE  \E m \in S : \A j \in S : j <= m
<1> DEFINE Above == {n \in Nat : \A j \in S : j <= n}
           Less == {p \in Nat \X Nat : p[1] < p[2]}
<1>1. IsWellFoundedOn(Less, Nat)
  BY NatLessThanWellFounded DEF OpToRel
<1>2. PICK m \in Above : \A n \in Above : <<n, m>> \notin Less
  <2>1. Above \subseteq Nat /\ b \in Above
    OBVIOUS
  <2> HIDE DEF Above, Less
  <2>2. QED
    BY <1>1, <2>1, WFMin
<1>3. ASSUME NEW n \in Above PROVE m <= n
  <2>1. <<n, m>> \notin Less
    BY <1>2
  <2>2. m \in Nat /\ n \in Nat
    BY <1>2
  <2>3. n < m => <<n, m>> \in Less
    BY <2>2
  <2>4. QED
    BY <2>1, <2>2, <2>3
<1>4. m \in S
  <2>1. SUFFICES ASSUME m \notin S PROVE FALSE
    OBVIOUS
  <2>2. \A j \in S : j <= m - 1 /\ j # m
    BY <2>1
  <2>0. m \in Nat /\ \E j \in S : j <= m /\ j \in Nat
    BY <1>2
  <2>3. m - 1 \in Nat
    BY <2>0, <2>2
  <2>4. m - 1 \in Above
    BY <2>2, <2>3
  <2>5. QED
    BY <1>3, <2>4
<1>5. QED
  BY <1>4

(* SQLite's next id is higher than those of the rows in use                *)
(* (SqlStorage.__setitem__), and there is one.                             *)
LEMMA NewIdGreater ==
    ASSUME storage = "sql", NEW n,
           NEW b \in Nat, \A m \in Keys : table[m].id \in 0 .. b
    PROVE  /\ NewId(n) \in 1 .. b + 1
           /\ \A m \in Keys \ {n} : table[m].id < NewId(n)
<1> DEFINE used == {0} \cup {table[m].id : m \in Keys \ {n}}
<1>1. used \in SUBSET Nat /\ used # {} /\ \A j \in used : j <= b
  OBVIOUS
<1>2. PICK g \in used : \A j \in used : j <= g
  <2> HIDE DEF used
  <2>1. QED
    BY <1>1, Greatest
<1>3. g + 1 \in {j + 1 : j \in used} /\ \A j \in used : j < g + 1
  BY <1>1, <1>2
<1>4. NewId(n) \in {j + 1 : j \in used} /\ \A j \in used : j < NewId(n)
  BY <1>3 DEF NewId
<1>5. QED
  BY <1>1, <1>4

(* The rows of an existing database have different ids. *)
LEMMA FirstIdsDiffer ==
    ASSUME storage = "sql"
    PROVE  /\ FirstIds \in [AllNames -> 1 .. Cardinality(AllNames)]
           /\ \A m, n \in AllNames : FirstIds[m] = FirstIds[n] => m = n
<1>1. IsFiniteSet(Name) /\ NS \notin Name
  BY NameAssumption
<1>2. Cardinality(Name) \in Nat /\ Cardinality(AllNames) = Cardinality(Name) + 1
  BY <1>1, FS_CardinalityType, FS_AddElement DEF AllNames
<1>3. ExistsBijection(Name, 1 .. Cardinality(Name))
  BY <1>1, FS_CardinalityType, Fun_ExistsBijSymmetric
<1>4. PICK f \in [Name -> 1 .. Cardinality(Name)] : \A m, n \in Name : f[m] = f[n] => m = n
  BY <1>3 DEF ExistsBijection, Bijection, Injection, IsInjective
<1> DEFINE id == [n \in AllNames |-> IF n = NS THEN Cardinality(AllNames) ELSE f[n]]
<1>5. /\ id \in [AllNames -> 1 .. Cardinality(AllNames)]
      /\ \A n \in Name : id[n] < id[NS] /\ \A m \in Name : id[m] = id[n] => m = n
  BY <1>1, <1>2, <1>4 DEF AllNames
<1>6. /\ FirstIds \in [AllNames -> 1 .. Cardinality(AllNames)]
      /\ \A n \in Name : /\ FirstIds[n] < FirstIds[NS]
                         /\ \A m \in Name : FirstIds[m] = FirstIds[n] => m = n
  <2> HIDE DEF id
  <2> QED BY <1>5 DEF FirstIds
<1>7. QED
  BY <1>1, <1>2, <1>6 DEF AllNames

-----------------------------------------------------------------------------
(* Threads: one that is in a call has an operation. *)
StepsTyped ==
    /\ storage \in Storages
    /\ lock \in Thread \cup {None}
    /\ pc \in [Thread -> {"idle", "acquire", "write", "test", "delete", "list", "listing",
                          "items", "rows", "lookup", "meta"}]
    /\ op \in [Thread -> Op \cup {None}]
    /\ crashed \subseteq Thread
    /\ left \in 0 .. MaxOps /\ faults \in 0 .. MaxFaults
    /\ \A t \in Thread : pc[t] # "idle" => op[t] \in Op

ItemsTyped == items \in [Thread -> [AllNames -> Uri \cup {None}]]

(* The table: its ids are bounded, so that a higher one can be found. *)
TableTyped ==
    /\ table \in [AllNames -> Row \cup {None}]
    /\ picked \in [Thread -> Row \cup {None}]
    /\ \E b \in Nat : \A n \in Keys : table[n].id \in 0 .. b

Typed == StepsTyped /\ ItemsTyped /\ TableTyped

(* What happens to the name server in a step: a call begins, a thread goes *)
(* on in its call, the cleaner strikes names off its list (and begins to   *)
(* remove one), or nothing.                                                *)
Calls(t, o) ==
    /\ t \in Thread /\ o \in Op /\ (t = Cleaner => o.kind = "list")
    /\ pc[t] = "idle" /\ pc' = [pc EXCEPT ![t] = FirstStep(o.kind)]
    /\ op' = [op EXCEPT ![t] = o] /\ left' \in 0 .. MaxOps
    /\ UNCHANGED <<storage, table, lock, items, picked, crashed, faults, lastUri, renewed>>

Strikes(n) ==
    /\ n \in AllNames /\ items' = [items EXCEPT ![Cleaner] = [items[Cleaner] EXCEPT ![n] = None]]
    /\ UNCHANGED <<storage, table, lock, pc, op, picked, crashed, left, faults, lastUri, renewed>>

StrikesAll ==
    /\ items' = [items EXCEPT ![Cleaner] = Nothing]
    /\ UNCHANGED <<storage, table, lock, pc, op, picked, crashed, left, faults, lastUri, renewed>>

Removes(n, o) ==
    /\ n \in Name /\ o \in Op /\ o.kind = "remove" /\ o.name = n
    /\ items' = [items EXCEPT ![Cleaner] = [items[Cleaner] EXCEPT ![n] = None]]
    /\ pc' = [pc EXCEPT ![Cleaner] = "test"] /\ op' = [op EXCEPT ![Cleaner] = o]
    /\ UNCHANGED <<storage, table, lock, picked, crashed, left, faults, lastUri, renewed>>

(* Every step is one of these. *)
LEMMA NameServerSteps ==
    ASSUME Typed, [CleanerNext]_allVars
    PROVE  \/ \E t \in Thread : Step(t) /\ Watch
           \/ \E t \in Thread, o \in Op : Calls(t, o)
           \/ \E n \in Name : Strikes(n)
           \/ StrikesAll
           \/ \E n \in Name, o \in Op : Removes(n, o)
           \/ UNCHANGED <<vars, lastUri, renewed>>
<1> USE DEF history
<1>a. /\ Cleaner \in Thread /\ NS \notin Name /\ AllNames = Name \cup {NS}
      /\ left \in 0 .. MaxOps /\ MaxOps \in Nat
      /\ items \in [Thread -> [AllNames -> Uri \cup {None}]] /\ None \notin Uri
  BY CleanerAssumption, NameAssumption DEF Typed, StepsTyped, ItemsTyped, AllNames
<1>1. ASSUME NEW t \in Client, ClientBegins(t)
      PROVE  \E u \in Thread, o \in Op : Calls(u, o)
  <2>1. PICK o \in Op : Call(t, o) /\ left' = left - 1 /\ left > 0
    BY <1>1 DEF ClientBegins, Begin
  <2>2. t \in Thread /\ t # Cleaner /\ left' \in 0 .. MaxOps
    BY <1>a, <2>1 DEF Client
  <2>3. Calls(t, o)
    BY <1>1, <1>a, <2>1, <2>2 DEF ClientBegins, Call, Calls
  <2>4. QED
    BY <2>2, <2>3
<1>2. ASSUME NEW t \in Client, ClientSteps(t) PROVE \E u \in Thread : Step(u) /\ Watch
  BY <1>2 DEF ClientSteps, Client
<1>3. CASE CleanerWakes
  <2>1. PICK o \in Op : o.kind = "list" /\ Call(Cleaner, o) /\ left' = left
    BY <1>3 DEF CleanerWakes, CleanerCall
  <2>2. Calls(Cleaner, o)
    BY <1>3, <1>a, <2>1 DEF CleanerWakes, Call, Calls
  <2>3. QED
    BY <1>a, <2>1, <2>2
<1>4. CASE CleanerSteps
  BY <1>a, <1>4 DEF CleanerSteps
<1>5. CASE CleanerDies
  BY <1>5 DEF CleanerDies
<1>6. CASE HasListed
  BY <1>6 DEF HasListed
<1>7. CASE HasRemoved
  BY <1>7 DEF HasRemoved
<1>8. CASE RoundEnds
  BY <1>8 DEF RoundEnds, StrikesAll
<1>9. ASSUME NEW n \in Name, ProbeAnswers(n) \/ ProbeFails(n) PROVE Strikes(n)
  BY <1>a, <1>9 DEF ProbeAnswers, ProbeFails, Probe, Strikes
<1>10. ASSUME NEW n \in Name, GiveUp(n) PROVE \E o \in Op : Removes(n, o)
  <2> DEFINE o == [kind |-> "remove", name |-> n, uri |-> items[Cleaner][n],
                   meta |-> {}, safe |-> FALSE, filter |-> {}]
  <2>1. items[Cleaner][n] \in Uri
    BY <1>a, <1>10 DEF GiveUp, Listed
  <2>2. o \in Op
    BY <1>a, <2>1 DEF Op
  <2>3. Removes(n, o)
    BY <1>a, <1>10, <2>2 DEF GiveUp, Removes
  <2>4. QED
    BY <2>2, <2>3
<1>11. ASSUME NEW u \in Uri, ServerFlips(u) PROVE UNCHANGED <<vars, lastUri, renewed>>
  BY <1>11 DEF ServerFlips
<1>12. ASSUME NEW n \in Name, TimePasses(n) \/ ProbeRaises(n)
       PROVE  UNCHANGED <<vars, lastUri, renewed>>
  BY <1>12 DEF TimePasses, ProbeRaises
<1>13. UNCHANGED allVars => UNCHANGED <<vars, lastUri, renewed>>
  BY DEF allVars
<1>14. QED
  BY <1>1, <1>2, <1>3, <1>4, <1>5, <1>6, <1>7, <1>8, <1>9, <1>10, <1>11, <1>12, <1>13
     DEF CleanerNext, CleanerRuns

(* set_metadata writes with the uri that it has read. *)
LEMMA UriReplaced ==
    ASSUME NEW o \in Op, NEW u \in Uri
    PROVE  /\ [o EXCEPT !.uri = u] \in Op
           /\ [o EXCEPT !.uri = u].uri = u /\ [o EXCEPT !.uri = u].name = o.name
           /\ [o EXCEPT !.uri = u].kind = o.kind /\ [o EXCEPT !.uri = u].safe = o.safe
<1>1. PICK k \in {"register", "set_metadata", "remove", "remove_all", "list", "lookup"},
           n \in AllNames, v \in Uri, m \in SUBSET Tag, s \in BOOLEAN, f \in SUBSET AllNames :
        o = [kind |-> k, name |-> n, uri |-> v, meta |-> m, safe |-> s, filter |-> f]
  BY DEF Op
<1>2. [o EXCEPT !.uri = u] =
        [kind |-> k, name |-> n, uri |-> u, meta |-> m, safe |-> s, filter |-> f]
  BY <1>1
<1>3. QED
  BY <1>1, <1>2 DEF Op

(* The fields of an operation and of a row. *)
LEMMA OpFields ==
    ASSUME NEW o \in Op
    PROVE  /\ o.kind \in {"register", "set_metadata", "remove", "remove_all", "list", "lookup"}
           /\ o.name \in AllNames /\ o.uri \in Uri /\ o.meta \in SUBSET Tag
BY DEF Op

(* The fields of a row. *)
LEMMA RowFields ==
    ASSUME NEW r \in Row
    PROVE  r.uri \in Uri /\ r.id \in Nat
BY DEF Row

(* A call that ends. *)
LEMMA ReturnTyped ==
    ASSUME StepsTyped, NEW t \in Thread, NEW r, Return(t, r), UNCHANGED <<storage, left>>,
           faults' \in {faults} \cup 0 .. MaxFaults
    PROVE  StepsTyped'
BY DEF StepsTyped, Return

(* Each step of a thread moves it to a step of the method it has called. *)
LEMMA StepsTypedKept ==
    ASSUME Typed, [CleanerNext]_allVars
    PROVE  StepsTyped'
<1>a. StepsTyped /\ NS \notin Name /\ Cleaner \in Thread
  BY NameAssumption, CleanerAssumption DEF Typed
<1>1. ASSUME NEW t \in Thread, Step(t) PROVE StepsTyped'
  <2>1. CASE AcquireRegister(t)
    BY <2>1, <1>a, ReturnTyped DEF AcquireRegister, StepsTyped
  <2>2. CASE AcquireSetMetadata(t)
    <3>1. CASE op[t].name \notin Keys
      BY <2>2, <1>a, <3>1, ReturnTyped DEF AcquireSetMetadata
    <3>2. CASE op[t].name \in Keys
      <4>1. op[t] \in Op /\ op[t].name \in AllNames /\ table[op[t].name] \in Row
        BY <2>2, <1>a, <3>2 DEF AcquireSetMetadata, StepsTyped, Typed, TableTyped, Keys
      <4>2. table[op[t].name].uri \in Uri
        BY <4>1, RowFields
      <4>3. PICK o \in Op : op' = [op EXCEPT ![t] = o]
        BY <2>2, <3>2, <4>1, <4>2, UriReplaced DEF AcquireSetMetadata
      <4>4. QED
        BY <2>2, <1>a, <3>2, <4>3 DEF AcquireSetMetadata, StepsTyped
    <3>3. QED
      BY <3>1, <3>2
  <2>3. CASE SetItem(t)
    BY <2>3, <1>a, ReturnTyped DEF SetItem, StepsTyped
  <2>4. CASE TestName(t)
    BY <2>4, <1>a, ReturnTyped DEF TestName, StepsTyped
  <2>5. CASE DeleteName(t)
    BY <2>5, <1>a, ReturnTyped DEF DeleteName, StepsTyped
  <2>6. CASE ListBegins(t)
    BY <2>6, <1>a, ReturnTyped DEF ListBegins, StepsTyped
  <2>7. CASE ListFails(t)
    BY <2>7, <1>a, ReturnTyped DEF ListFails, StepsTyped
  <2>8. CASE ListEnds(t)
    BY <2>8, <1>a, ReturnTyped DEF ListEnds, StepsTyped
  <2>9. CASE ListForRemoval(t)
    BY <2>9, <1>a, ReturnTyped DEF ListForRemoval, StepsTyped
  <2>10. CASE RemoveOneItem(t)
    BY <2>10, <1>a, ReturnTyped DEF RemoveOneItem, StepsTyped
  <2>11. CASE RemoveAllItems(t)
    BY <2>11, <1>a, ReturnTyped DEF RemoveAllItems, StepsTyped
  <2>12. CASE SelectItem(t)
    BY <2>12, <1>a, ReturnTyped DEF SelectItem, StepsTyped
  <2>13. CASE DeleteRows(t)
    BY <2>13, <1>a, ReturnTyped DEF DeleteRows, StepsTyped
  <2>14. CASE RemovalEnds(t)
    BY <2>14, <1>a, ReturnTyped DEF RemovalEnds, StepsTyped
  <2>15. CASE Lookup(t)
    BY <2>15, <1>a, ReturnTyped DEF Lookup, StepsTyped
  <2>16. CASE LookupMetadata(t)
    BY <2>16, <1>a, ReturnTyped DEF LookupMetadata, StepsTyped
  <2>17. CASE StorageFails(t)
    <3>1. faults' \in 0 .. MaxFaults
      BY <1>a, <2>17, NameAssumption DEF StorageFails, StepsTyped
    <3>2. QED
      BY <2>17, <1>a, <3>1, ReturnTyped DEF StorageFails
  <2>18. QED
    BY <1>1, <2>1, <2>2, <2>3, <2>4, <2>5, <2>6, <2>7, <2>8, <2>9, <2>10, <2>11,
       <2>12, <2>13, <2>14, <2>15, <2>16, <2>17 DEF Step
<1>2. ASSUME NEW t \in Thread, NEW o \in Op, Calls(t, o) PROVE StepsTyped'
  <2>1. FirstStep(o.kind) \in {"acquire", "test", "list", "lookup"}
    BY OpFields DEF FirstStep
  <2>2. QED
    BY <1>2, <1>a, <2>1 DEF Calls, StepsTyped
<1>3. ASSUME NEW n \in Name, Strikes(n) PROVE StepsTyped'
  BY <1>3, <1>a DEF Strikes, StepsTyped
<1>4. CASE StrikesAll
  BY <1>4, <1>a DEF StrikesAll, StepsTyped
<1>5. ASSUME NEW n \in Name, NEW o \in Op, Removes(n, o) PROVE StepsTyped'
  BY <1>5, <1>a DEF Removes, StepsTyped
<1>6. CASE UNCHANGED vars
  BY <1>6, <1>a DEF vars, StepsTyped
<1>7. QED
  BY <1>1, <1>2, <1>3, <1>4, <1>5, <1>6, NameServerSteps

(* What a thread has listed are uris by their names. *)
LEMMA ItemsTypedKept ==
    ASSUME Typed, [CleanerNext]_allVars
    PROVE  ItemsTyped'
<1>a. /\ items \in [Thread -> [AllNames -> Uri \cup {None}]]
      /\ Nothing \in [AllNames -> Uri \cup {None}]
      /\ Uris \in [AllNames -> Uri \cup {None}]
      /\ Cleaner \in Thread /\ \A n \in Name : n \in AllNames
  <2>1. \A n \in Keys : table[n].uri \in Uri
    BY RowFields DEF Typed, TableTyped, Keys
  <2>2. QED
    BY <2>1, CleanerAssumption DEF Typed, ItemsTyped, Nothing, Uris, AllNames
<1>b. \A t \in Thread, f \in [AllNames -> Uri \cup {None}] :
        items' = [items EXCEPT ![t] = f] => ItemsTyped'
  BY <1>a DEF ItemsTyped
<1>1. ASSUME NEW t \in Thread, Step(t) PROVE ItemsTyped'
  <2>1. CASE AcquireRegister(t)
    BY <2>1, <1>a DEF AcquireRegister, ItemsTyped
  <2>2. CASE AcquireSetMetadata(t)
    BY <2>2, <1>a DEF AcquireSetMetadata, ItemsTyped
  <2>3. CASE SetItem(t)
    BY <2>3, <1>a DEF SetItem, ItemsTyped
  <2>4. CASE TestName(t)
    BY <2>4, <1>a DEF TestName, ItemsTyped
  <2>5. CASE DeleteName(t)
    BY <2>5, <1>a DEF DeleteName, ItemsTyped
  <2>6. CASE ListBegins(t)
    BY <2>6, <1>a, <1>b DEF ListBegins
  <2>7. CASE ListFails(t)
    BY <2>7, <1>a, <1>b DEF ListFails
  <2>8. CASE ListEnds(t)
    BY <2>8, <1>a DEF ListEnds, ItemsTyped
  <2>9. CASE ListForRemoval(t)
    <3>1. [n \in AllNames |-> IF n \in op[t].filter \ {NS} THEN items[t][n] ELSE None]
            \in [AllNames -> Uri \cup {None}]
      BY <1>a
    <3>2. QED
      BY <2>9, <1>b, <3>1 DEF ListForRemoval
  <2>10. CASE RemoveOneItem(t)
    <3>1. PICK n \in AllNames : items' = [items EXCEPT ![t] = [items[t] EXCEPT ![n] = None]]
      BY <2>10 DEF RemoveOneItem, Listed
    <3>2. QED
      BY <1>a, <1>b, <3>1
  <2>11. CASE RemoveAllItems(t)
    BY <2>11, <1>a, <1>b DEF RemoveAllItems
  <2>12. CASE SelectItem(t)
    <3>1. PICK n \in AllNames : items' = [items EXCEPT ![t] = [items[t] EXCEPT ![n] = None]]
      BY <2>12 DEF SelectItem, Listed
    <3>2. QED
      BY <1>a, <1>b, <3>1
  <2>13. CASE DeleteRows(t)
    BY <2>13, <1>a, <1>b DEF DeleteRows
  <2>14. CASE RemovalEnds(t)
    BY <2>14, <1>a DEF RemovalEnds, ItemsTyped
  <2>15. CASE Lookup(t)
    BY <2>15, <1>a DEF Lookup, ItemsTyped
  <2>16. CASE LookupMetadata(t)
    BY <2>16, <1>a DEF LookupMetadata, ItemsTyped
  <2>17. CASE StorageFails(t)
    BY <2>17, <1>a, <1>b DEF StorageFails
  <2>18. QED
    BY <1>1, <2>1, <2>2, <2>3, <2>4, <2>5, <2>6, <2>7, <2>8, <2>9, <2>10, <2>11,
       <2>12, <2>13, <2>14, <2>15, <2>16, <2>17 DEF Step
<1>2. ASSUME NEW t \in Thread, NEW o \in Op, Calls(t, o) PROVE ItemsTyped'
  BY <1>2, <1>a DEF Calls, ItemsTyped
<1>3. ASSUME NEW n \in Name, Strikes(n) PROVE ItemsTyped'
  BY <1>3, <1>a, <1>b DEF Strikes
<1>4. CASE StrikesAll
  BY <1>4, <1>a, <1>b DEF StrikesAll
<1>5. ASSUME NEW n \in Name, NEW o \in Op, Removes(n, o) PROVE ItemsTyped'
  BY <1>5, <1>a, <1>b DEF Removes
<1>6. CASE UNCHANGED vars
  BY <1>6, <1>a DEF vars, ItemsTyped
<1>7. QED
  BY <1>1, <1>2, <1>3, <1>4, <1>5, <1>6, NameServerSteps

(* Whatever is removed, the rest of the table stays as it was. *)
LEMMA Removed ==
    ASSUME Typed, table' = [n \in AllNames |-> table'[n]],
           \A n \in AllNames : table'[n] \in {table[n], None},
           picked' \in [Thread -> Row \cup {None}]
    PROVE  TableTyped'
<1>1. PICK b \in Nat : \A n \in Keys : table[n].id \in 0 .. b
  BY DEF Typed, TableTyped
<1>2. table' \in [AllNames -> Row \cup {None}]
  BY DEF Typed, TableTyped
<1>3. \A n \in Keys' : n \in Keys /\ table'[n] = table[n]
  BY DEF Keys
<1>4. QED
  BY <1>1, <1>2, <1>3 DEF TableTyped

(* What SetItem writes. *)
LEMMA SetItemWrites ==
    ASSUME Typed, NEW t \in Thread, SetItem(t)
    PROVE  \E r \in Row :
            /\ table' = [table EXCEPT ![op[t].name] = r]
            /\ op[t].name \in AllNames /\ op[t] \in Op
            /\ r.uri = op[t].uri /\ r.id = NewId(op[t].name)
<1>1. op[t] \in Op /\ storage \in Storages
  BY DEF Typed, StepsTyped, SetItem
<1>2. NewId(op[t].name) \in Nat
  <2>1. PICK b \in Nat : \A n \in Keys : table[n].id \in 0 .. b
    BY DEF Typed, TableTyped
  <2>2. CASE storage = "sql"
    BY <2>1, <2>2, NewIdGreater
  <2>3. CASE storage # "sql"
    BY <2>3 DEF NewId
  <2>4. QED
    BY <2>2, <2>3
<1> DEFINE r == [uri |-> op[t].uri, meta |-> IF storage = "dbm" THEN {} ELSE op[t].meta,
                 id |-> NewId(op[t].name)]
<1>3. r \in Row
  BY <1>1, <1>2, OpFields DEF Row
<1>4. table' = [table EXCEPT ![op[t].name] = r]
  BY DEF SetItem
<1>5. QED
  BY <1>1, <1>3, <1>4, OpFields

(* The table keeps its form, and a new row's id can be found               *)
(* (SqlStorage.__setitem__).                                               *)
LEMMA TableTypedKept ==
    ASSUME Typed, [CleanerNext]_allVars
    PROVE  TableTyped'
<1>a. /\ TableTyped /\ storage \in Storages /\ NS \in AllNames /\ Cleaner \in Thread
      /\ picked \in [Thread -> Row \cup {None}]
      /\ table \in [AllNames -> Row \cup {None}] /\ table = [n \in AllNames |-> table[n]]
      /\ \A t \in Thread : pc[t] # "idle" => op[t].name \in AllNames
  BY CleanerAssumption, OpFields DEF Typed, TableTyped, StepsTyped, AllNames
<1>b. UNCHANGED <<table, picked>> => TableTyped'
  BY <1>a DEF TableTyped, Keys
<1>1. ASSUME NEW t \in Thread, Step(t) PROVE TableTyped'
  <2>1. CASE AcquireRegister(t)
    BY <2>1, <1>a, <1>b, Removed DEF AcquireRegister, Return
  <2>2. CASE AcquireSetMetadata(t)
    BY <2>2, <1>a, <1>b, Removed DEF AcquireSetMetadata, Return
  <2>3. CASE SetItem(t)
    <3>1. PICK r \in Row :
            /\ table' = [table EXCEPT ![op[t].name] = r]
            /\ op[t].name \in AllNames /\ r.id = NewId(op[t].name)
      BY <2>3, SetItemWrites
    <3>2. PICK b \in Nat : \A n \in Keys : table[n].id \in 0 .. b
      BY <1>a DEF TableTyped
    <3>3. r.id \in 0 .. b + 1
      <4>1. CASE storage = "sql"
        BY <3>1, <3>2, <4>1, NewIdGreater
      <4>2. CASE storage # "sql"
        BY <3>1, <3>2, <4>2 DEF NewId
      <4>3. QED
        BY <4>1, <4>2
    <3>4. \A n \in Keys' : table'[n].id \in 0 .. b + 1
      BY <1>a, <3>1, <3>2, <3>3 DEF Keys
    <3>5. picked' \in [Thread -> Row \cup {None}]
      BY <2>3, <1>a DEF SetItem, Return
    <3>6. QED
      BY <1>a, <3>1, <3>4, <3>5 DEF TableTyped
  <2>4. CASE TestName(t)
    BY <2>4, <1>a, <1>b, Removed DEF TestName, Return
  <2>5. CASE DeleteName(t)
    <3>1. table' = [table EXCEPT ![op[t].name] = None] /\ picked' = [picked EXCEPT ![t] = None]
      BY <2>5 DEF DeleteName, Return
    <3>2. QED
      BY <1>a, <3>1, Removed
  <2>6. CASE ListBegins(t)
    BY <2>6, <1>a, <1>b, Removed DEF ListBegins, Return
  <2>7. CASE ListFails(t)
    BY <2>7, <1>a, <1>b, Removed DEF ListFails, Return
  <2>8. CASE ListEnds(t)
    BY <2>8, <1>a, <1>b, Removed DEF ListEnds, Return
  <2>9. CASE ListForRemoval(t)
    BY <2>9, <1>a, <1>b, Removed DEF ListForRemoval, Return
  <2>10. CASE RemoveOneItem(t)
    <3>1. PICK n \in AllNames : table' = [table EXCEPT ![n] = None] /\ picked' = picked
      BY <2>10 DEF RemoveOneItem, Listed
    <3>2. QED
      BY <1>a, <3>1, Removed
  <2>11. CASE RemoveAllItems(t)
    BY <2>11, <1>a, <1>b, Removed DEF RemoveAllItems, Return
  <2>12. CASE SelectItem(t)
    <3>1. PICK n \in AllNames : picked' = [picked EXCEPT ![t] = table[n]] /\ table' = table
      BY <2>12 DEF SelectItem, Listed
    <3>2. QED
      BY <1>a, <3>1, Removed
  <2>13. CASE DeleteRows(t)
    BY <2>13, <1>a, <1>b, Removed DEF DeleteRows, Return
  <2>14. CASE RemovalEnds(t)
    BY <2>14, <1>a, <1>b, Removed DEF RemovalEnds, Return
  <2>15. CASE Lookup(t)
    <3>1. table' = table /\ op[t].name \in AllNames
      BY <2>15, <1>a DEF Lookup
    <3>2. picked' \in {picked, [picked EXCEPT ![t] = table[op[t].name]], [picked EXCEPT ![t] = None]}
      BY <2>15 DEF Lookup, Return
    <3>3. QED
      BY <1>a, <3>1, <3>2, Removed
  <2>16. CASE LookupMetadata(t)
    BY <2>16, <1>a, <1>b, Removed DEF LookupMetadata, Return
  <2>17. CASE StorageFails(t)
    BY <2>17, <1>a, <1>b, Removed DEF StorageFails, Return
  <2>18. QED
    BY <1>1, <2>1, <2>2, <2>3, <2>4, <2>5, <2>6, <2>7, <2>8, <2>9, <2>10, <2>11,
       <2>12, <2>13, <2>14, <2>15, <2>16, <2>17 DEF Step
<1>2. ASSUME NEW t \in Thread, NEW o \in Op, Calls(t, o) PROVE TableTyped'
  BY <1>2, <1>b DEF Calls
<1>3. ASSUME NEW n \in Name, Strikes(n) PROVE TableTyped'
  BY <1>3, <1>b DEF Strikes
<1>4. CASE StrikesAll
  BY <1>4, <1>b DEF StrikesAll
<1>5. ASSUME NEW n \in Name, NEW o \in Op, Removes(n, o) PROVE TableTyped'
  BY <1>5, <1>b DEF Removes
<1>6. CASE UNCHANGED vars
  BY <1>6, <1>b DEF vars
<1>7. QED
  BY <1>1, <1>2, <1>3, <1>4, <1>5, <1>6, NameServerSteps

(* The table at the start: the name server's entry, and names of an        *)
(* earlier run.                                                            *)
LEMMA FirstTable ==
    ASSUME Init
    PROVE  /\ \E u \in Uri, known \in SUBSET Name :
                table = [n \in AllNames |->
                            IF n \in known \cup {NS} THEN [uri |-> u, meta |-> {}, id |-> FirstIds[n]]
                                                     ELSE None]
           /\ \A n \in AllNames : FirstIds[n] \in Nat
           /\ \A n \in AllNames : FirstIds[n] <= Cardinality(AllNames)
           /\ Cardinality(AllNames) \in Nat
<1>1. Cardinality(AllNames) \in Nat
  <2>1. IsFiniteSet(AllNames)
    BY NameAssumption, FS_AddElement DEF AllNames
  <2>2. QED
    BY <2>1, FS_CardinalityType
<1>2. \A n \in AllNames : FirstIds[n] \in 0 .. Cardinality(AllNames)
  <2>1. CASE storage = "sql"
    BY <1>1, <2>1, FirstIdsDiffer
  <2>2. CASE storage # "sql"
    BY <1>1, <2>2 DEF FirstIds
  <2>3. QED
    BY <2>1, <2>2
<1>3. \E u \in Uri, known \in SUBSET Name :
        table = [n \in AllNames |->
                    IF n \in known \cup {NS} THEN [uri |-> u, meta |-> {}, id |-> FirstIds[n]]
                                             ELSE None]
  BY DEF Init
<1>4. \A n \in AllNames : FirstIds[n] \in Nat /\ FirstIds[n] <= Cardinality(AllNames)
  BY <1>1, <1>2
<1>5. QED
  BY <1>1, <1>3, <1>4

(* All of it, in every reachable state. *)
LEMMA TypedInvariant == CleanerSpec => []Typed
<1>1. CleanerInit => Typed
  <2> SUFFICES ASSUME Init PROVE Typed
    BY DEF CleanerInit
  <2>1. StepsTyped
    BY NameAssumption DEF Init, StepsTyped
  <2>2. ItemsTyped
    BY DEF Init, ItemsTyped, Nothing
  <2>3. TableTyped
    <3>1. PICK u \in Uri, known \in SUBSET Name :
            table = [n \in AllNames |->
                        IF n \in known \cup {NS} THEN [uri |-> u, meta |-> {}, id |-> FirstIds[n]]
                                                 ELSE None]
      BY FirstTable
    <3>2. \A n \in AllNames : [uri |-> u, meta |-> {}, id |-> FirstIds[n]] \in Row
      BY FirstTable DEF Row
    <3>3. table \in [AllNames -> Row \cup {None}]
      BY <3>1, <3>2
    <3>4. \A n \in Keys : table[n].id \in 0 .. Cardinality(AllNames)
      BY <3>1, FirstTable DEF Keys
    <3>5. picked \in [Thread -> Row \cup {None}]
      BY DEF Init
    <3>6. QED
      BY <3>3, <3>4, <3>5, FirstTable DEF TableTyped
  <2>4. QED
    BY <2>1, <2>2, <2>3 DEF Typed
<1>2. Typed /\ [CleanerNext]_allVars => Typed'
  BY StepsTypedKept, ItemsTypedKept, TableTypedKept DEF Typed
<1>3. QED
  BY <1>1, <1>2, PTL DEF CleanerSpec

(* The name server's types, for any number of operations. *)
THEOREM TypeCorrect == CleanerSpec => []TypeOK
<1>1. Typed => TypeOK
  BY DEF Typed, StepsTyped, ItemsTyped, TableTyped, TypeOK
<1>2. QED
  BY <1>1, TypedInvariant, PTL

-----------------------------------------------------------------------------
(* The name server's entry: nobody has its name among those to be deleted, *)
(* and until it is written anew no row that is selected for deletion has   *)
(* its id.                                                                 *)
Protected == storage = "sql" => ~renewed

SparedInv ==
    /\ NameServerKept /\ IdsDiffer
    /\ \A t \in Thread :
        /\ pc[t] = "delete" => op[t].name # NS
        /\ pc[t] \in {"items", "rows"} => items[t][NS] = None
        /\ pc[t] = "rows" =>
            /\ storage = "sql" /\ picked[t] \in Row
            /\ Protected => picked[t].id # table[NS].id

(* A thread's steps leave the other threads alone. *)
LEMMA OthersStay ==
    ASSUME Typed, NEW t \in Thread, Step(t)
    PROVE  /\ storage' = storage
           /\ \A u \in Thread \ {t} : /\ pc'[u] = pc[u] /\ op'[u] = op[u]
                                      /\ items'[u] = items[u] /\ picked'[u] = picked[u]
<1> DEFINE Others == /\ storage' = storage
                     /\ \A u \in Thread \ {t} : /\ pc'[u] = pc[u] /\ op'[u] = op[u]
                                                /\ items'[u] = items[u] /\ picked'[u] = picked[u]
<1>a. /\ pc = [u \in Thread |-> pc[u]] /\ op = [u \in Thread |-> op[u]]
      /\ items = [u \in Thread |-> items[u]] /\ picked = [u \in Thread |-> picked[u]]
  BY DEF Typed, StepsTyped, ItemsTyped, TableTyped
<1>1. CASE AcquireRegister(t)
  BY <1>1, <1>a DEF AcquireRegister, Return
<1>2. CASE AcquireSetMetadata(t)
  BY <1>2, <1>a DEF AcquireSetMetadata, Return
<1>3. CASE SetItem(t)
  BY <1>3, <1>a DEF SetItem, Return
<1>4. CASE TestName(t)
  BY <1>4, <1>a DEF TestName, Return
<1>5. CASE DeleteName(t)
  BY <1>5, <1>a DEF DeleteName, Return
<1>6. CASE ListBegins(t)
  BY <1>6, <1>a DEF ListBegins, Return
<1>7. CASE ListFails(t)
  BY <1>7, <1>a DEF ListFails, Return
<1>8. CASE ListEnds(t)
  BY <1>8, <1>a DEF ListEnds, Return
<1>9. CASE ListForRemoval(t)
  BY <1>9, <1>a DEF ListForRemoval, Return
<1>10. CASE RemoveOneItem(t)
  BY <1>10, <1>a DEF RemoveOneItem, Return
<1>11. CASE RemoveAllItems(t)
  BY <1>11, <1>a DEF RemoveAllItems, Return
<1>12. CASE SelectItem(t)
  BY <1>12, <1>a DEF SelectItem, Return
<1>13. CASE DeleteRows(t)
  BY <1>13, <1>a DEF DeleteRows, Return
<1>14. CASE RemovalEnds(t)
  BY <1>14, <1>a DEF RemovalEnds, Return
<1>15. CASE Lookup(t)
  BY <1>15, <1>a DEF Lookup, Return
<1>16. CASE LookupMetadata(t)
  BY <1>16, <1>a DEF LookupMetadata, Return
<1>17. CASE StorageFails(t)
  BY <1>17, <1>a DEF StorageFails, Return
<1>18. QED
  BY Step(t), <1>1, <1>2, <1>3, <1>4, <1>5, <1>6, <1>7, <1>8, <1>9, <1>10, <1>11,
     <1>12, <1>13, <1>14, <1>15, <1>16, <1>17 DEF Step

(* The table: an entry is written, or entries are removed; the name        *)
(* server's own stays, or is written.                                      *)
LEMMA TableSteps ==
    ASSUME Typed, SparedInv, NEW t \in Thread, Step(t)
    PROVE  /\ Protected => table'[NS] = table[NS] \/ NS \in Keys'
           /\ SetItem(t) \/ \A n \in AllNames : table'[n] \in {table[n], None}
<1>a. /\ table = [n \in AllNames |-> table[n]] /\ NS \in AllNames
      /\ pc[t] = "delete" => op[t].name # NS
      /\ pc[t] \in {"items", "rows"} => items[t][NS] = None
      /\ pc[t] = "rows" => (Protected => picked[t].id # table[NS].id)
      /\ None \notin Row
  BY NameAssumption DEF Typed, TableTyped, AllNames, SparedInv
<1>1. CASE AcquireRegister(t)
  BY <1>1, <1>a DEF AcquireRegister
<1>2. CASE AcquireSetMetadata(t)
  BY <1>2, <1>a DEF AcquireSetMetadata
<1>3. CASE SetItem(t)
  <2>1. PICK r \in Row : table' = [table EXCEPT ![op[t].name] = r]
    BY <1>3, SetItemWrites
  <2>2. table'[NS] = table[NS] \/ NS \in Keys'
    BY <1>a, <2>1 DEF Keys
  <2>3. QED
    BY <1>3, <2>2
<1>4. CASE TestName(t)
  BY <1>4, <1>a DEF TestName
<1>5. CASE DeleteName(t)
  BY <1>5, <1>a DEF DeleteName
<1>6. CASE ListBegins(t)
  BY <1>6, <1>a DEF ListBegins
<1>7. CASE ListFails(t)
  BY <1>7, <1>a DEF ListFails
<1>8. CASE ListEnds(t)
  BY <1>8, <1>a DEF ListEnds
<1>9. CASE ListForRemoval(t)
  BY <1>9, <1>a DEF ListForRemoval
<1>10. CASE RemoveOneItem(t)
  <2>1. PICK n \in Listed(t) : table' = [table EXCEPT ![n] = None]
    BY <1>10 DEF RemoveOneItem
  <2>2. n # NS
    BY <1>10, <1>a DEF RemoveOneItem, Listed
  <2>3. QED
    BY <1>a, <2>1, <2>2
<1>11. CASE RemoveAllItems(t)
  BY <1>11, <1>a DEF RemoveAllItems, Listed
<1>12. CASE SelectItem(t)
  BY <1>12, <1>a DEF SelectItem
<1>13. CASE DeleteRows(t)
  BY <1>13, <1>a DEF DeleteRows, Listed
<1>14. CASE RemovalEnds(t)
  BY <1>14, <1>a DEF RemovalEnds
<1>15. CASE Lookup(t)
  BY <1>15, <1>a DEF Lookup
<1>16. CASE LookupMetadata(t)
  BY <1>16, <1>a DEF LookupMetadata
<1>17. CASE StorageFails(t)
  BY <1>17, <1>a DEF StorageFails
<1>18. QED
  BY Step(t), <1>1, <1>2, <1>3, <1>4, <1>5, <1>6, <1>7, <1>8, <1>9, <1>10, <1>11,
     <1>12, <1>13, <1>14, <1>15, <1>16, <1>17 DEF Step

(* SQLite gives a new row an id that no other has. *)
LEMMA IdsStayDifferent ==
    ASSUME Typed, SparedInv, NEW t \in Thread, Step(t)
    PROVE  IdsDiffer'
<1> SUFFICES ASSUME storage = "sql", NEW m \in Keys', NEW n \in Keys',
                    table'[m].id = table'[n].id
             PROVE  m = n
  BY OthersStay DEF IdsDiffer
<1>a. /\ table = [k \in AllNames |-> table[k]]
      /\ \A j, k \in Keys : table[j].id = table[k].id => j = k
      /\ \A k \in Keys : table[k].id \in Nat
  BY RowFields DEF Typed, TableTyped, SparedInv, IdsDiffer, Keys
<1>1. CASE SetItem(t)
  <2>1. PICK r \in Row : /\ table' = [table EXCEPT ![op[t].name] = r]
                         /\ op[t].name \in AllNames /\ r.id = NewId(op[t].name)
    BY <1>1, SetItemWrites
  <2>2. PICK b \in Nat : \A k \in Keys : table[k].id \in 0 .. b
    BY DEF Typed, TableTyped
  <2>3. r.id \in Nat /\ \A k \in Keys \ {op[t].name} : table[k].id < r.id
    BY <2>1, <2>2, NewIdGreater
  <2>4. table'[op[t].name].id = r.id
    BY <1>a, <2>1
  <2>5. \A k \in Keys' \ {op[t].name} : k \in Keys /\ table'[k] = table[k]
    BY <1>a, <2>1 DEF Keys
  <2>6. QED
    BY <1>a, <2>3, <2>4, <2>5
<1>2. CASE \A k \in AllNames : table'[k] \in {table[k], None}
  BY <1>a, <1>2 DEF Keys
<1>3. QED
  BY <1>1, <1>2, TableSteps

(* TestName and ListForRemoval spare the name server's entry               *)
(* (NameServer.remove lines 137-153), and what is done later goes by what  *)
(* they have let through.                                                  *)
LEMMA SparedKept ==
    ASSUME Typed, SparedInv, [CleanerNext]_allVars
    PROVE  SparedInv'
<1>a. /\ pc = [u \in Thread |-> pc[u]] /\ op = [u \in Thread |-> op[u]]
      /\ items = [u \in Thread |-> items[u]] /\ picked = [u \in Thread |-> picked[u]]
      /\ table \in [AllNames -> Row \cup {None}] /\ NS \in AllNames /\ NS \notin Name
      /\ None \notin Row
      /\ \A u \in Thread : items[u] = [n \in AllNames |-> items[u][n]]
      /\ Cleaner \in Thread
  BY NameAssumption, CleanerAssumption
     DEF Typed, StepsTyped, ItemsTyped, TableTyped, AllNames
<1>b. /\ Protected => NS \in Keys
      /\ \A u \in Thread :
            /\ pc[u] = "delete" => op[u].name # NS
            /\ pc[u] \in {"items", "rows"} => items[u][NS] = None
            /\ pc[u] = "rows" => /\ storage = "sql" /\ picked[u] \in Row
                                 /\ Protected => picked[u].id # table[NS].id
  BY DEF SparedInv, NameServerKept, Protected
<1>c. UNCHANGED <<table, storage, renewed>> =>
        NameServerKept' /\ IdsDiffer' /\ (Protected' <=> Protected)
  BY DEF SparedInv, NameServerKept, Protected, IdsDiffer, Keys
<1>1. ASSUME NEW t \in Thread, Step(t), Watch PROVE SparedInv'
  <2> DEFINE Mine == /\ pc'[t] = "delete" => op'[t].name # NS
                     /\ pc'[t] \in {"items", "rows"} => items'[t][NS] = None
                     /\ pc'[t] = "rows" => /\ storage = "sql" /\ picked'[t] \in Row
                                           /\ Protected => picked'[t].id # table[NS].id
  <2>a. pc[t] # "idle" => op[t] \in Op
    BY DEF Typed, StepsTyped
  <2>b. Mine
    <3>1. CASE AcquireRegister(t)
      BY <3>1, <1>a, <1>b DEF AcquireRegister, Return
    <3>2. CASE AcquireSetMetadata(t)
      BY <3>2, <1>a, <1>b DEF AcquireSetMetadata, Return
    <3>3. CASE SetItem(t)
      BY <3>3, <1>a, <1>b DEF SetItem, Return
    <3>4. CASE TestName(t)
      BY <3>4, <1>a, <1>b DEF TestName, Return
    <3>5. CASE DeleteName(t)
      BY <3>5, <1>a, <1>b DEF DeleteName, Return
    <3>6. CASE ListBegins(t)
      BY <3>6, <1>a, <1>b DEF ListBegins, Return
    <3>7. CASE ListFails(t)
      BY <3>7, <1>a, <1>b DEF ListFails, Return
    <3>8. CASE ListEnds(t)
      BY <3>8, <1>a, <1>b DEF ListEnds, Return
    <3>9. CASE ListForRemoval(t)
      <4>1. pc'[t] = "items" /\ items'[t][NS] = None
        BY <3>9, <1>a DEF ListForRemoval
      <4>2. QED
        BY <4>1
    <3>10. CASE RemoveOneItem(t)
      <4>1. PICK n \in AllNames : /\ items' = [items EXCEPT ![t] = [items[t] EXCEPT ![n] = None]]
                                  /\ pc' = pc /\ op' = op /\ picked' = picked /\ pc[t] = "items"
        BY <3>10 DEF RemoveOneItem, Listed
      <4>2. items'[t][NS] = None
        BY <1>a, <1>b, <4>1
      <4>3. QED
        BY <4>1, <4>2, <1>b
    <3>11. CASE RemoveAllItems(t)
      BY <3>11, <1>a, <1>b DEF RemoveAllItems, Nothing
    <3>12. CASE SelectItem(t)
      <4>1. PICK n \in Listed(t) :
              /\ items' = [items EXCEPT ![t] = [items[t] EXCEPT ![n] = None]]
              /\ picked' = [picked EXCEPT ![t] = table[n]] /\ op' = op
              /\ pc' = [pc EXCEPT ![t] = IF n \in Keys THEN "rows" ELSE pc[t]]
              /\ pc[t] = "items" /\ storage = "sql"
        BY <3>12 DEF SelectItem
      <4>2. n \in AllNames /\ n # NS /\ items[t][NS] = None
        BY <1>b, <4>1 DEF Listed
      <4>3. items'[t][NS] = None
        BY <1>a, <4>1, <4>2
      <4>4. CASE n \in Keys
        <5>1. pc'[t] = "rows" /\ picked'[t] = table[n] /\ table[n] \in Row
          BY <1>a, <4>1, <4>2, <4>4 DEF Keys
        <5>2. Protected => table[n].id # table[NS].id
          BY <1>b, <4>1, <4>2, <4>4 DEF SparedInv, IdsDiffer
        <5>3. QED
          BY <4>1, <4>3, <5>1, <5>2
      <4>5. CASE n \notin Keys
        BY <1>a, <4>1, <4>3, <4>5
      <4>6. QED
        BY <4>4, <4>5
    <3>13. CASE DeleteRows(t)
      BY <3>13, <1>a, <1>b DEF DeleteRows, Nothing
    <3>14. CASE RemovalEnds(t)
      BY <3>14, <1>a, <1>b DEF RemovalEnds, Return
    <3>15. CASE Lookup(t)
      BY <3>15, <1>a, <1>b DEF Lookup, Return
    <3>16. CASE LookupMetadata(t)
      BY <3>16, <1>a, <1>b DEF LookupMetadata, Return
    <3>17. CASE StorageFails(t)
      BY <3>17, <1>a, <1>b DEF StorageFails, Return
    <3>18. QED
      BY <1>1, <3>1, <3>2, <3>3, <3>4, <3>5, <3>6, <3>7, <3>8, <3>9, <3>10, <3>11,
         <3>12, <3>13, <3>14, <3>15, <3>16, <3>17 DEF Step
  <2>1. /\ storage' = storage /\ (Protected' => Protected)
        /\ Protected => table'[NS] = table[NS] \/ NS \in Keys'
    BY <1>1, OthersStay, TableSteps DEF Watch, Protected
  <2>2. NameServerKept'
    BY <1>b, <2>1 DEF NameServerKept, Protected, Keys
  <2>3. storage = "sql" /\ Protected' => table'[NS] = table[NS]
    BY <1>1, <2>1 DEF Watch, Protected
  <2>4. ASSUME NEW u \in Thread
        PROVE  /\ pc'[u] = "delete" => op'[u].name # NS
               /\ pc'[u] \in {"items", "rows"} => items'[u][NS] = None
               /\ pc'[u] = "rows" => /\ storage' = "sql" /\ picked'[u] \in Row
                                     /\ Protected' => picked'[u].id # table'[NS].id
    <3>1. CASE u = t
      BY <2>b, <2>1, <2>3, <3>1
    <3>2. CASE u # t
      BY <1>1, <1>b, <2>1, <2>3, <3>2, OthersStay
    <3>3. QED
      BY <3>1, <3>2
  <2>5. QED
    BY <1>1, <2>2, <2>4, IdsStayDifferent DEF SparedInv
<1>2. ASSUME NEW t \in Thread, NEW o \in Op, Calls(t, o) PROVE SparedInv'
  <2>1. FirstStep(o.kind) \in {"acquire", "test", "list", "lookup"}
    BY OpFields DEF FirstStep
  <2>2. /\ pc' = [pc EXCEPT ![t] = FirstStep(o.kind)] /\ op' = [op EXCEPT ![t] = o]
        /\ UNCHANGED <<table, storage, items, picked, renewed>>
    BY <1>2 DEF Calls
  <2>3. QED
    BY <1>a, <1>b, <1>c, <2>1, <2>2 DEF SparedInv
<1>3. ASSUME NEW n \in Name, Strikes(n) PROVE SparedInv'
  <2>1. \A u \in Thread : items[u][NS] = None => items'[u][NS] = None
    BY <1>a, <1>3 DEF Strikes
  <2>2. QED
    BY <1>a, <1>b, <1>c, <1>3, <2>1 DEF Strikes, SparedInv
<1>4. CASE StrikesAll
  <2>1. \A u \in Thread : items[u][NS] = None => items'[u][NS] = None
    BY <1>a, <1>4 DEF StrikesAll, Nothing
  <2>2. QED
    BY <1>a, <1>b, <1>c, <1>4, <2>1 DEF StrikesAll, SparedInv
<1>5. ASSUME NEW n \in Name, NEW o \in Op, Removes(n, o) PROVE SparedInv'
  <2>1. \A u \in Thread : items[u][NS] = None => items'[u][NS] = None
    BY <1>a, <1>5 DEF Removes
  <2>2. QED
    BY <1>a, <1>b, <1>c, <1>5, <2>1 DEF Removes, SparedInv
<1>6. CASE UNCHANGED <<vars, renewed>>
  BY <1>6, <1>a, <1>b, <1>c DEF vars, SparedInv
<1>7. QED
  BY <1>1, <1>2, <1>3, <1>4, <1>5, <1>6, NameServerSteps

(* The name server's entry, in every reachable state. *)
LEMMA SparedInvariant == CleanerSpec => []SparedInv
<1>1. CleanerInit => SparedInv
  <2> SUFFICES ASSUME Init PROVE SparedInv
    BY DEF CleanerInit
  <2>1. PICK u \in Uri, known \in SUBSET Name :
          table = [n \in AllNames |->
                      IF n \in known \cup {NS} THEN [uri |-> u, meta |-> {}, id |-> FirstIds[n]]
                                               ELSE None]
    BY FirstTable
  <2>2. \A n \in AllNames : [uri |-> u, meta |-> {}, id |-> FirstIds[n]] \in Row
    BY FirstTable DEF Row
  <2>3. NameServerKept
    BY <2>1, <2>2, NameAssumption DEF NameServerKept, Keys, AllNames
  <2>4. \A n \in Keys : table[n].id = FirstIds[n]
    BY <2>1 DEF Keys
  <2>5. IdsDiffer
    BY <2>4, FirstIdsDiffer DEF IdsDiffer, Keys
  <2>6. \A t \in Thread : pc[t] = "idle"
    BY DEF Init
  <2>7. QED
    BY <2>3, <2>5, <2>6 DEF SparedInv
<1>2. Typed /\ SparedInv /\ [CleanerNext]_allVars => SparedInv'
  BY SparedKept
<1>3. QED
  BY <1>1, <1>2, TypedInvariant, PTL DEF CleanerSpec

-----------------------------------------------------------------------------
(* A thread that is going to write holds the lock, and what it has found   *)
(* in the table is still true, or was until a removal: nobody else writes. *)
LastInv == \A n \in Keys : lastUri[n] = table[n].uri

WriteInv ==
    \A t \in Thread :
        /\ pc[t] \in {"write", "listing"} => lock = t
        /\ pc[t] = "write" =>
            /\ op[t].kind = "register" /\ op[t].safe => op[t].name \notin Keys
            /\ op[t].kind = "set_metadata" => op[t].uri = lastUri[op[t].name]

(* The thread that makes the step. *)
LEMMA WriteMine ==
    ASSUME Typed, WriteInv, NEW t \in Thread, Step(t), Watch
    PROVE  /\ pc'[t] \in {"write", "listing"} => lock' = t
           /\ pc'[t] = "write" =>
                /\ op'[t].kind = "register" /\ op'[t].safe => op'[t].name \notin Keys'
                /\ op'[t].kind = "set_metadata" => op'[t].uri = lastUri'[op'[t].name]
<1>a. /\ pc = [u \in Thread |-> pc[u]] /\ op = [u \in Thread |-> op[u]]
      /\ pc[t] # "idle" => op[t] \in Op
      /\ \A n \in Keys : table[n] \in Row
      /\ pc[t] \in {"write", "listing"} => lock = t
  BY DEF Typed, StepsTyped, TableTyped, WriteInv, Keys
<1>1. CASE AcquireRegister(t)
  BY <1>1, <1>a DEF AcquireRegister, Return, Keys
<1>2. CASE AcquireSetMetadata(t)
  <2>1. CASE op[t].name \notin Keys
    BY <1>2, <1>a, <2>1 DEF AcquireSetMetadata, Return
  <2>2. CASE op[t].name \in Keys
    <3>1. PICK u \in Uri : /\ u = table[op[t].name].uri
                           /\ op' = [op EXCEPT ![t] = [op[t] EXCEPT !.uri = u]]
      BY <1>2, <1>a, <2>2, RowFields DEF AcquireSetMetadata
    <3>2. op'[t] = [op[t] EXCEPT !.uri = u] /\ op[t] \in Op /\ op[t].kind = "set_metadata"
      BY <1>2, <1>a, <3>1 DEF AcquireSetMetadata
    <3>3. op'[t].uri = u /\ op'[t].name = op[t].name /\ op'[t].kind = "set_metadata"
      BY <3>2, UriReplaced
    <3>4. table' = table /\ lock' = t
      BY <1>2, <2>2 DEF AcquireSetMetadata
    <3>5. op[t].name \in AllNames /\ op[t].name \in Keys' /\ Uris'[op[t].name] = u
      BY <2>2, <3>1, <3>4 DEF Keys, Uris
    <3>6. lastUri'[op[t].name] = u
      BY <3>5 DEF Watch
    <3>7. QED
      BY <3>3, <3>4, <3>6
  <2>3. QED
    BY <2>1, <2>2
<1>3. CASE SetItem(t)
  BY <1>3, <1>a DEF SetItem, Return
<1>4. CASE TestName(t)
  BY <1>4, <1>a DEF TestName, Return
<1>5. CASE DeleteName(t)
  BY <1>5, <1>a DEF DeleteName, Return
<1>6. CASE ListBegins(t)
  BY <1>6, <1>a DEF ListBegins, Return
<1>7. CASE ListFails(t)
  BY <1>7, <1>a DEF ListFails, Return
<1>8. CASE ListEnds(t)
  BY <1>8, <1>a DEF ListEnds, Return
<1>9. CASE ListForRemoval(t)
  BY <1>9, <1>a DEF ListForRemoval, Return
<1>10. CASE RemoveOneItem(t)
  BY <1>10, <1>a DEF RemoveOneItem, Return
<1>11. CASE RemoveAllItems(t)
  BY <1>11, <1>a DEF RemoveAllItems, Return
<1>12. CASE SelectItem(t)
  BY <1>12, <1>a DEF SelectItem, Return
<1>13. CASE DeleteRows(t)
  BY <1>13, <1>a DEF DeleteRows, Return
<1>14. CASE RemovalEnds(t)
  BY <1>14, <1>a DEF RemovalEnds, Return
<1>15. CASE Lookup(t)
  BY <1>15, <1>a DEF Lookup, Return
<1>16. CASE LookupMetadata(t)
  BY <1>16, <1>a DEF LookupMetadata, Return
<1>17. CASE StorageFails(t)
  BY <1>17, <1>a DEF StorageFails, Return
<1>18. QED
  BY Step(t), <1>1, <1>2, <1>3, <1>4, <1>5, <1>6, <1>7, <1>8, <1>9, <1>10, <1>11,
     <1>12, <1>13, <1>14, <1>15, <1>16, <1>17 DEF Step

(* The lock keeps other writers away, and removals, which go on without    *)
(* it, cannot make either test untrue.                                     *)
LEMMA WriteInvariant == CleanerSpec => []WriteInv
<1>1. CleanerInit => WriteInv /\ LastInv
  BY DEF CleanerInit, Init, WriteInv, LastInv, Uris, Keys
<1>2. Typed /\ SparedInv /\ WriteInv /\ LastInv /\ [CleanerNext]_allVars => WriteInv' /\ LastInv'
  <2> SUFFICES ASSUME Typed, SparedInv, WriteInv, LastInv, [CleanerNext]_allVars
               PROVE  WriteInv' /\ LastInv'
    OBVIOUS
  <2>a. /\ pc = [u \in Thread |-> pc[u]] /\ op = [u \in Thread |-> op[u]]
        /\ \A u \in Thread : pc[u] # "idle" => op[u].name \in AllNames
        /\ None \notin Thread
    BY NameAssumption, OpFields DEF Typed, StepsTyped
  <2>1. ASSUME NEW t \in Thread, Step(t), Watch PROVE WriteInv' /\ LastInv'
    <3>a. LastInv'
      BY <2>1 DEF Watch, LastInv, Uris, Keys
    <3>1. ASSUME NEW u \in Thread \ {t}, pc[u] \in {"write", "listing"}
          PROVE  lock' = u /\ ~SetItem(t)
      <4>a. lock = u /\ (pc[t] \in {"write", "listing"} => lock = t) /\ None # u
        BY <2>a, <3>1 DEF WriteInv
      <4>1. CASE AcquireRegister(t)
        BY <4>1, <4>a DEF AcquireRegister, Return, SetItem
      <4>2. CASE AcquireSetMetadata(t)
        BY <4>2, <4>a DEF AcquireSetMetadata, Return, SetItem
      <4>3. CASE SetItem(t)
        BY <4>3, <4>a DEF SetItem, Return, SetItem
      <4>4. CASE TestName(t)
        BY <4>4, <4>a DEF TestName, Return, SetItem
      <4>5. CASE DeleteName(t)
        BY <4>5, <4>a DEF DeleteName, Return, SetItem
      <4>6. CASE ListBegins(t)
        BY <4>6, <4>a DEF ListBegins, Return, SetItem
      <4>7. CASE ListFails(t)
        BY <4>7, <4>a DEF ListFails, Return, SetItem
      <4>8. CASE ListEnds(t)
        BY <4>8, <4>a DEF ListEnds, Return, SetItem
      <4>9. CASE ListForRemoval(t)
        BY <4>9, <4>a DEF ListForRemoval, Return, SetItem
      <4>10. CASE RemoveOneItem(t)
        BY <4>10, <4>a DEF RemoveOneItem, Return, SetItem
      <4>11. CASE RemoveAllItems(t)
        BY <4>11, <4>a DEF RemoveAllItems, Return, SetItem
      <4>12. CASE SelectItem(t)
        BY <4>12, <4>a DEF SelectItem, Return, SetItem
      <4>13. CASE DeleteRows(t)
        BY <4>13, <4>a DEF DeleteRows, Return, SetItem
      <4>14. CASE RemovalEnds(t)
        BY <4>14, <4>a DEF RemovalEnds, Return, SetItem
      <4>15. CASE Lookup(t)
        BY <4>15, <4>a DEF Lookup, Return, SetItem
      <4>16. CASE LookupMetadata(t)
        BY <4>16, <4>a DEF LookupMetadata, Return, SetItem
      <4>17. CASE StorageFails(t)
        BY <4>17, <4>a DEF StorageFails, Return, SetItem
      <4>18. QED
        BY <2>1, <4>1, <4>2, <4>3, <4>4, <4>5, <4>6, <4>7, <4>8, <4>9, <4>10, <4>11,
           <4>12, <4>13, <4>14, <4>15, <4>16, <4>17 DEF Step
    <3>2. ASSUME NEW u \in Thread \ {t}
          PROVE  /\ pc'[u] \in {"write", "listing"} => lock' = u
                 /\ pc'[u] = "write" =>
                    /\ op'[u].kind = "register" /\ op'[u].safe => op'[u].name \notin Keys'
                    /\ op'[u].kind = "set_metadata" => op'[u].uri = lastUri'[op'[u].name]
      <4>1. pc'[u] = pc[u] /\ op'[u] = op[u]
        BY <2>1, OthersStay
      <4>2. pc[u] = "write" => \A n \in AllNames : table'[n] \in {table[n], None}
        BY <2>1, <3>1, TableSteps
      <4>3. pc[u] = "write" => lastUri'[op[u].name] = lastUri[op[u].name]
        BY <2>1, <2>a, <4>2 DEF Watch, LastInv, Uris, Keys
      <4>4. QED
        BY <2>a, <3>1, <4>1, <4>2, <4>3 DEF WriteInv, Keys
    <3>3. QED
      BY <2>1, <3>a, <3>2, WriteMine DEF WriteInv
  <2>2. ASSUME NEW t \in Thread, NEW o \in Op, Calls(t, o) PROVE WriteInv' /\ LastInv'
    <3>1. FirstStep(o.kind) \in {"acquire", "test", "list", "lookup"}
      BY OpFields DEF FirstStep
    <3>2. /\ pc' = [pc EXCEPT ![t] = FirstStep(o.kind)] /\ op' = [op EXCEPT ![t] = o]
          /\ UNCHANGED <<table, lock, lastUri>>
      BY <2>2 DEF Calls
    <3>3. QED
      BY <2>a, <3>1, <3>2 DEF WriteInv, LastInv, Keys
  <2>3. ASSUME NEW n \in Name, Strikes(n) PROVE WriteInv' /\ LastInv'
    BY <2>3 DEF Strikes, WriteInv, LastInv, Keys
  <2>4. CASE StrikesAll
    BY <2>4 DEF StrikesAll, WriteInv, LastInv, Keys
  <2>5. ASSUME NEW n \in Name, NEW o \in Op, Removes(n, o) PROVE WriteInv' /\ LastInv'
    BY <2>5, <2>a, CleanerAssumption DEF Removes, WriteInv, LastInv, Keys
  <2>6. CASE UNCHANGED <<vars, lastUri>>
    BY <2>6 DEF vars, WriteInv, LastInv, Keys
  <2>7. QED
    BY <2>1, <2>2, <2>3, <2>4, <2>5, <2>6, NameServerSteps
<1>3. QED
  BY <1>1, <1>2, TypedInvariant, SparedInvariant, PTL DEF CleanerSpec

(* A safe registration never replaces an entry, and new metadata go with   *)
(* the uri that the name had last (NameServer.register and set_metadata,   *)
(* lines 105-134), whoever removes names at the same time.                 *)
THEOREM RegistrationsAreKept == CleanerSpec => RegistrationsKept
<1> DEFINE Write(t) ==
        SetItem(t) =>
            /\ op[t].kind = "register" /\ op[t].safe => op[t].name \notin Keys
            /\ op[t].kind = "set_metadata" => op[t].uri = lastUri[op[t].name]
<1>1. WriteInv /\ [CleanerNext]_allVars => [\A t \in Thread : Write(t)]_allVars
  BY DEF WriteInv, SetItem
<1>2. QED
  BY <1>1, WriteInvariant, PTL DEF CleanerSpec, RegistrationsKept

-----------------------------------------------------------------------------
(* The cleaner's own attributes and what is noted of its work. *)
GraceTyped ==
    /\ up \subseteq Uri /\ flips \in 0 .. MaxFlips
    /\ cpc \in {"sleep", "list", "probe", "remove", "dead"} /\ target \in Name \cup {None}
    /\ unreachable \in [Name -> {"none", "new", "old"}]
    /\ found \subseteq Name /\ again \subseteq Name /\ hasty \subseteq {"first", "again"}
    /\ lastUri \in [AllNames -> Uri \cup {None}] /\ renewed \in BOOLEAN

(* A name that has been registered once is still what it was when it was   *)
(* listed, and has been found unreachable before it is counted so.         *)
GraceInv ==
    /\ cpc \in {"sleep", "list", "probe"} => target = None
    /\ target # None => unreachable[target] # "none"
    /\ \A n \in Name \ again :
        /\ items[Cleaner][n] # None => n \in Keys /\ table[n].uri = items[Cleaner][n]
        /\ unreachable[n] # "none" => n \in found
    /\ FirstGrace

(* The cleaner's attributes, in every reachable state. *)
LEMMA GraceTypedInvariant == CleanerSpec => []GraceTyped
<1>0. Typed => Uris \in [AllNames -> Uri \cup {None}]
  <2> SUFFICES ASSUME Typed PROVE Uris \in [AllNames -> Uri \cup {None}]
    OBVIOUS
  <2>1. \A n \in Keys : table[n].uri \in Uri
    BY RowFields DEF Typed, TableTyped, Keys
  <2>2. QED
    BY <2>1 DEF Uris
<1>1. Typed /\ CleanerInit => GraceTyped
  <2> SUFFICES ASSUME Typed, CleanerInit PROVE GraceTyped
    OBVIOUS
  <2>1. lastUri \in [AllNames -> Uri \cup {None}]
    BY <1>0 DEF CleanerInit
  <2>2. renewed \in BOOLEAN
    BY DEF CleanerInit
  <2>3. flips \in 0 .. MaxFlips
    BY CleanerAssumption DEF CleanerInit
  <2>4. QED
    BY <2>1, <2>2, <2>3 DEF CleanerInit, GraceTyped
<1>2. Typed /\ Typed' /\ GraceTyped /\ [CleanerNext]_allVars => GraceTyped'
  <2> SUFFICES ASSUME Typed, Typed', GraceTyped, [CleanerNext]_allVars PROVE GraceTyped'
    OBVIOUS
  <2>a. Watch => lastUri' \in [AllNames -> Uri \cup {None}]
    <3>1. \A n \in Keys' : table'[n].uri \in Uri
      BY RowFields DEF Typed, TableTyped, Keys
    <3>2. \A n \in AllNames : n \in Keys' => Uris'[n] \in Uri
      BY <3>1 DEF Uris
    <3>3. QED
      BY <3>2 DEF Watch, GraceTyped
  <2> USE CleanerAssumption DEF GraceTyped, cleanerVars, history
  <2>1. ASSUME NEW t \in Client, ClientBegins(t) \/ ClientSteps(t) PROVE GraceTyped'
    BY <2>1, <2>a DEF ClientBegins, ClientSteps, Watch
  <2>2. CASE CleanerWakes
    BY <2>2 DEF CleanerWakes
  <2>3. CASE CleanerSteps
    BY <2>3, <2>a DEF CleanerSteps, Watch
  <2>4. CASE CleanerDies
    BY <2>4 DEF CleanerDies
  <2>5. CASE HasListed
    BY <2>5 DEF HasListed
  <2>6. CASE HasRemoved
    BY <2>6 DEF HasRemoved
  <2>7. CASE RoundEnds
    BY <2>7 DEF RoundEnds
  <2>8. ASSUME NEW n \in Name, ProbeAnswers(n) \/ ProbeRaises(n) PROVE GraceTyped'
    BY <2>8 DEF ProbeAnswers, ProbeRaises, Probe
  <2>9. ASSUME NEW n \in Name, ProbeFails(n) PROVE GraceTyped'
    BY <2>9 DEF ProbeFails, Probe, Found
  <2>10. ASSUME NEW n \in Name, GiveUp(n) PROVE GraceTyped'
    BY <2>10 DEF GiveUp
  <2>11. ASSUME NEW u \in Uri, ServerFlips(u) PROVE GraceTyped'
    BY <2>11 DEF ServerFlips
  <2>12. ASSUME NEW n \in Name, TimePasses(n) PROVE GraceTyped'
    BY <2>12 DEF TimePasses
  <2>13. CASE UNCHANGED allVars
    BY <2>13 DEF allVars
  <2>14. QED
    BY <2>1, <2>2, <2>3, <2>4, <2>5, <2>6, <2>7, <2>8, <2>9, <2>10, <2>11, <2>12, <2>13
       DEF CleanerNext, CleanerRuns
<1>3. QED
  BY <1>1, <1>2, TypedInvariant, PTL DEF CleanerSpec

(* The cleaner lists all names or removes one. *)
CleanerInv ==
    /\ pc[Cleaner] \in {"idle", "list", "listing", "test", "delete"}
    /\ pc[Cleaner] \in {"list", "listing"} => op[Cleaner].kind = "list"

(* The cleaner calls list and remove only (AutoCleaner.run). *)
LEMMA CleanerInvariant == CleanerSpec => []CleanerInv
<1>1. CleanerInit => CleanerInv
  BY CleanerAssumption DEF CleanerInit, Init, CleanerInv
<1>2. Typed /\ CleanerInv /\ [CleanerNext]_allVars => CleanerInv'
  <2> SUFFICES ASSUME Typed, CleanerInv, [CleanerNext]_allVars PROVE CleanerInv'
    OBVIOUS
  <2>a. /\ pc = [u \in Thread |-> pc[u]] /\ op = [u \in Thread |-> op[u]]
        /\ Cleaner \in Thread
    BY CleanerAssumption DEF Typed, StepsTyped
  <2>1. ASSUME NEW t \in Thread, Step(t) PROVE CleanerInv'
    <3>1. CASE t # Cleaner
      BY <2>1, <2>a, <3>1, OthersStay DEF CleanerInv
    <3>2. CASE t = Cleaner
      <4>1. CASE AcquireRegister(t)
        BY <4>1, <2>a, <3>2 DEF AcquireRegister, Return, CleanerInv
      <4>2. CASE AcquireSetMetadata(t)
        BY <4>2, <2>a, <3>2 DEF AcquireSetMetadata, Return, CleanerInv
      <4>3. CASE SetItem(t)
        BY <4>3, <2>a, <3>2 DEF SetItem, Return, CleanerInv
      <4>4. CASE TestName(t)
        BY <4>4, <2>a, <3>2 DEF TestName, Return, CleanerInv
      <4>5. CASE DeleteName(t)
        BY <4>5, <2>a, <3>2 DEF DeleteName, Return, CleanerInv
      <4>6. CASE ListBegins(t)
        BY <4>6, <2>a, <3>2 DEF ListBegins, Return, CleanerInv
      <4>7. CASE ListFails(t)
        BY <4>7, <2>a, <3>2 DEF ListFails, Return, CleanerInv
      <4>8. CASE ListEnds(t)
        BY <4>8, <2>a, <3>2 DEF ListEnds, Return, CleanerInv
      <4>9. CASE ListForRemoval(t)
        BY <4>9, <2>a, <3>2 DEF ListForRemoval, Return, CleanerInv
      <4>10. CASE RemoveOneItem(t)
        BY <4>10, <2>a, <3>2 DEF RemoveOneItem, Return, CleanerInv
      <4>11. CASE RemoveAllItems(t)
        BY <4>11, <2>a, <3>2 DEF RemoveAllItems, Return, CleanerInv
      <4>12. CASE SelectItem(t)
        BY <4>12, <2>a, <3>2 DEF SelectItem, Return, CleanerInv
      <4>13. CASE DeleteRows(t)
        BY <4>13, <2>a, <3>2 DEF DeleteRows, Return, CleanerInv
      <4>14. CASE RemovalEnds(t)
        BY <4>14, <2>a, <3>2 DEF RemovalEnds, Return, CleanerInv
      <4>15. CASE Lookup(t)
        BY <4>15, <2>a, <3>2 DEF Lookup, Return, CleanerInv
      <4>16. CASE LookupMetadata(t)
        BY <4>16, <2>a, <3>2 DEF LookupMetadata, Return, CleanerInv
      <4>17. CASE StorageFails(t)
        BY <4>17, <2>a, <3>2 DEF StorageFails, Return, CleanerInv
      <4>18. QED
        BY <2>1, <4>1, <4>2, <4>3, <4>4, <4>5, <4>6, <4>7, <4>8, <4>9, <4>10, <4>11,
           <4>12, <4>13, <4>14, <4>15, <4>16, <4>17 DEF Step
    <3>3. QED
      BY <3>1, <3>2
  <2>2. ASSUME NEW t \in Thread, NEW o \in Op, Calls(t, o) PROVE CleanerInv'
    <3>1. o.kind = "list" => FirstStep(o.kind) = "list"
      BY DEF FirstStep
    <3>2. QED
      BY <2>2, <2>a, <3>1 DEF Calls, CleanerInv
  <2>3. ASSUME NEW n \in Name, Strikes(n) PROVE CleanerInv'
    BY <2>3 DEF Strikes, CleanerInv
  <2>4. CASE StrikesAll
    BY <2>4 DEF StrikesAll, CleanerInv
  <2>5. ASSUME NEW n \in Name, NEW o \in Op, Removes(n, o) PROVE CleanerInv'
    BY <2>5, <2>a DEF Removes, CleanerInv
  <2>6. CASE UNCHANGED vars
    BY <2>6 DEF vars, CleanerInv
  <2>7. QED
    BY <2>1, <2>2, <2>3, <2>4, <2>5, <2>6, NameServerSteps
<1>3. QED
  BY <1>1, <1>2, TypedInvariant, PTL DEF CleanerSpec

(* Its list is what the table says when it gets it. *)
LEMMA CleanerLists ==
    ASSUME Typed, CleanerInv, Step(Cleaner)
    PROVE  \/ items'[Cleaner] \in {items[Cleaner], Nothing}
           \/ items'[Cleaner] = Uris /\ table' = table
<1> DEFINE t == Cleaner
<1>a. /\ t \in Thread /\ items = [u \in Thread |-> items[u]]
      /\ pc[t] \in {"idle", "list", "listing", "test", "delete"}
      /\ pc[t] \in {"list", "listing"} => op[t].kind = "list"
  BY CleanerAssumption DEF Typed, ItemsTyped, CleanerInv
<1> HIDE DEF t
<1>1. CASE AcquireRegister(t)
  BY <1>1, <1>a DEF AcquireRegister, t
<1>2. CASE AcquireSetMetadata(t)
  BY <1>2, <1>a DEF AcquireSetMetadata, t
<1>3. CASE SetItem(t)
  BY <1>3, <1>a DEF SetItem, t
<1>4. CASE TestName(t)
  BY <1>4, <1>a DEF TestName, t
<1>5. CASE DeleteName(t)
  BY <1>5, <1>a DEF DeleteName, t
<1>6. CASE ListBegins(t)
  BY <1>6, <1>a DEF ListBegins, t
<1>7. CASE ListFails(t)
  BY <1>7, <1>a DEF ListFails, t
<1>8. CASE ListEnds(t)
  BY <1>8, <1>a DEF ListEnds, t
<1>9. CASE ListForRemoval(t)
  BY <1>9, <1>a DEF ListForRemoval, t
<1>10. CASE RemoveOneItem(t)
  BY <1>10, <1>a DEF RemoveOneItem, t
<1>11. CASE RemoveAllItems(t)
  BY <1>11, <1>a DEF RemoveAllItems, t
<1>12. CASE SelectItem(t)
  BY <1>12, <1>a DEF SelectItem, t
<1>13. CASE DeleteRows(t)
  BY <1>13, <1>a DEF DeleteRows, t
<1>14. CASE RemovalEnds(t)
  BY <1>14, <1>a DEF RemovalEnds, t
<1>15. CASE Lookup(t)
  BY <1>15, <1>a DEF Lookup, t
<1>16. CASE LookupMetadata(t)
  BY <1>16, <1>a DEF LookupMetadata, t
<1>17. CASE StorageFails(t)
  BY <1>17, <1>a DEF StorageFails, t
<1>18. QED
  BY Step(Cleaner), <1>1, <1>2, <1>3, <1>4, <1>5, <1>6, <1>7, <1>8, <1>9, <1>10,
     <1>11, <1>12, <1>13, <1>14, <1>15, <1>16, <1>17 DEF Step, t

(* What Watch notes keeps what is known of names that it does not note. *)
LEMMA Watched ==
    ASSUME GraceInv, GraceTyped, Watch, unreachable' = unreachable,
           \/ items'[Cleaner] \in {items[Cleaner], Nothing}
           \/ items'[Cleaner] = Uris /\ table' = table
    PROVE  \A n \in Name \ again' :
            /\ items'[Cleaner][n] # None => n \in Keys' /\ table'[n].uri = items'[Cleaner][n]
            /\ unreachable'[n] # "none" => n \in found'
<1> SUFFICES ASSUME NEW n \in Name \ again'
             PROVE  /\ items'[Cleaner][n] # None =>
                            n \in Keys' /\ table'[n].uri = items'[Cleaner][n]
                    /\ unreachable'[n] # "none" => n \in found'
  OBVIOUS
<1>1. n \in AllNames /\ n \notin again
  BY DEF Watch, AllNames
<1>2. table[n] # None => table'[n] = table[n] /\ (n \in found => n \in found')
  BY DEF Watch
<1>3. unreachable[n] # "none" => n \in found
  BY <1>1 DEF GraceInv
<1>4. n \in found => n \in found'
  BY <1>2 DEF Watch
<1>5. CASE items'[Cleaner] = items[Cleaner]
  <2>1. items[Cleaner][n] # None => n \in Keys /\ table[n].uri = items[Cleaner][n]
    BY <1>1 DEF GraceInv
  <2>2. QED
    BY <1>1, <1>2, <1>3, <1>4, <1>5, <2>1 DEF Keys
<1>6. CASE items'[Cleaner] = Nothing
  BY <1>1, <1>3, <1>4, <1>6 DEF Nothing
<1>7. CASE items'[Cleaner] = Uris /\ table' = table
  BY <1>1, <1>3, <1>4, <1>7 DEF Uris, Keys
<1>8. QED
  BY <1>5, <1>6, <1>7

(* A name becomes unreachable when it is on the list and does not answer,  *)
(* with the uri it is still registered with unless it was registered       *)
(* again.                                                                  *)
LEMMA GraceInvariant == CleanerSpec => []GraceInv
<1>1. CleanerInit => GraceInv
  BY CleanerAssumption DEF CleanerInit, Init, GraceInv, FirstGrace, Nothing, AllNames
<1>2. Typed /\ CleanerInv /\ GraceTyped /\ GraceInv /\ [CleanerNext]_allVars => GraceInv'
  <2> SUFFICES ASSUME Typed, CleanerInv, GraceTyped, GraceInv, [CleanerNext]_allVars
               PROVE  GraceInv'
    OBVIOUS
  <2>a. /\ items = [u \in Thread |-> items[u]] /\ Cleaner \in Thread
        /\ items[Cleaner] = [n \in AllNames |-> items[Cleaner][n]]
        /\ unreachable = [n \in Name |-> unreachable[n]]
        /\ AllNames = Name \cup {NS} /\ None \notin AllNames
        /\ target \in Name \cup {None}
    <3>1. None \notin AllNames
      BY NameAssumption
    <3>2. items \in [Thread -> [AllNames -> Uri \cup {None}]] /\ Cleaner \in Thread
      BY CleanerAssumption DEF Typed, ItemsTyped
    <3>3. QED
      BY <3>1, <3>2 DEF GraceTyped, AllNames
  <2>b. UNCHANGED <<table, items, found, again, hasty, unreachable, cpc, target>> => GraceInv'
    BY DEF GraceInv, FirstGrace, Keys
  <2> USE DEF cleanerVars, history
  <2>1. ASSUME NEW t \in Client, ClientBegins(t) PROVE GraceInv'
    BY <2>1, <2>b DEF ClientBegins, Begin, Call
  <2>2. ASSUME NEW t \in Client, ClientSteps(t) PROVE GraceInv'
    <3>1. items'[Cleaner] = items[Cleaner]
      BY <2>2, <2>a, OthersStay DEF ClientSteps, Client
    <3>2. Watch /\ UNCHANGED <<unreachable, cpc, target, hasty>>
      BY <2>2 DEF ClientSteps
    <3>3. QED
      BY <3>1, <3>2, Watched DEF GraceInv, FirstGrace
  <2>3. CASE CleanerWakes
    BY <2>3, <2>a DEF CleanerWakes, CleanerCall, Call, GraceInv, FirstGrace, Keys
  <2>4. CASE CleanerSteps
    <3>1. Step(Cleaner) /\ Watch /\ UNCHANGED <<unreachable, cpc, target>>
      BY <2>4 DEF CleanerSteps
    <3>2. target \in Keys \ found => target \in again
      BY <2>a DEF GraceInv, Keys
    <3>3. FirstGrace'
      BY <2>4, <3>2 DEF CleanerSteps, GraceInv, FirstGrace
    <3>4. QED
      BY <3>1, <3>3, CleanerLists, Watched DEF GraceInv
  <2>5. CASE CleanerDies
    BY <2>5 DEF CleanerDies, vars, GraceInv, FirstGrace, Keys
  <2>6. CASE HasListed
    BY <2>6 DEF HasListed, vars, GraceInv, FirstGrace, Keys
  <2>7. CASE HasRemoved
    <3>1. \A n \in Name : unreachable'[n] # "none" => unreachable[n] # "none"
      BY <2>7, <2>a DEF HasRemoved
    <3>2. QED
      BY <2>7, <3>1 DEF HasRemoved, vars, GraceInv, FirstGrace, Keys
  <2>8. CASE RoundEnds
    <3>1. items'[Cleaner] = Nothing
      BY <2>8, <2>a DEF RoundEnds
    <3>2. QED
      BY <2>8, <2>a, <3>1 DEF RoundEnds, GraceInv, FirstGrace, Keys, Nothing
  <2>9. ASSUME NEW n \in Name, ProbeAnswers(n) PROVE GraceInv'
    <3>1. items' = [items EXCEPT ![Cleaner] = [items[Cleaner] EXCEPT ![n] = None]]
      BY <2>9 DEF ProbeAnswers, Probe
    <3>2. \A m \in Name : items'[Cleaner][m] # None => items'[Cleaner][m] = items[Cleaner][m]
      BY <2>a, <3>1
    <3>3. \A m \in Name : unreachable'[m] # "none" => unreachable[m] # "none"
      BY <2>9, <2>a DEF ProbeAnswers
    <3>4. QED
      BY <2>9, <3>2, <3>3 DEF ProbeAnswers, Probe, GraceInv, FirstGrace, Keys
  <2>10. ASSUME NEW n \in Name, ProbeFails(n) PROVE GraceInv'
    <3>1. /\ items' = [items EXCEPT ![Cleaner] = [items[Cleaner] EXCEPT ![n] = None]]
          /\ items[Cleaner][n] # None /\ cpc = "probe"
          /\ unreachable' = [unreachable EXCEPT ![n] = "new"] /\ Found(n)
          /\ UNCHANGED <<table, again, hasty, cpc, target>>
      BY <2>10 DEF ProbeFails, Probe, Listed
    <3>2. \A m \in Name : items'[Cleaner][m] # None => items'[Cleaner][m] = items[Cleaner][m]
      BY <2>a, <3>1
    <3>3. \A m \in Name \ {n} : unreachable'[m] = unreachable[m]
      BY <2>a, <3>1
    <3>4. found \subseteq found'
      BY <3>1 DEF Found
    <3>5. n \notin again => n \in found'
      BY <3>1 DEF Found, GraceInv
    <3>6. target = None
      BY <3>1 DEF GraceInv
    <3>7. QED
      BY <3>1, <3>2, <3>3, <3>4, <3>5, <3>6 DEF GraceInv, FirstGrace, Keys
  <2>11. ASSUME NEW n \in Name, GiveUp(n) PROVE GraceInv'
    <3>1. items' = [items EXCEPT ![Cleaner] = [items[Cleaner] EXCEPT ![n] = None]]
      BY <2>11 DEF GiveUp
    <3>2. \A m \in Name : items'[Cleaner][m] # None => items'[Cleaner][m] = items[Cleaner][m]
      BY <2>a, <3>1
    <3>3. QED
      BY <2>11, <3>2 DEF GiveUp, GraceInv, FirstGrace, Keys
  <2>12. ASSUME NEW u \in Uri, ServerFlips(u) PROVE GraceInv'
    BY <2>12, <2>b DEF ServerFlips, vars
  <2>13. ASSUME NEW n \in Name, TimePasses(n) PROVE GraceInv'
    <3>1. \A m \in Name : unreachable'[m] # "none" <=> unreachable[m] # "none"
      BY <2>13, <2>a DEF TimePasses
    <3>2. QED
      BY <2>13, <2>a, <3>1 DEF TimePasses, vars, GraceInv, FirstGrace, Keys
  <2>14. ASSUME NEW n \in Name, ProbeRaises(n) PROVE GraceInv'
    BY <2>14 DEF ProbeRaises, vars, GraceInv, FirstGrace, Keys
  <2>15. CASE UNCHANGED allVars
    BY <2>15, <2>b DEF allVars, vars
  <2>16. QED
    BY <2>1, <2>2, <2>3, <2>4, <2>5, <2>6, <2>7, <2>8, <2>9, <2>10, <2>11, <2>12, <2>13,
       <2>14, <2>15 DEF CleanerNext, CleanerRuns
<1>3. QED
  BY <1>1, <1>2, TypedInvariant, CleanerInvariant, GraceTypedInvariant, PTL DEF CleanerSpec

(* What run names checks: the name server's entry stays, rows have ids of  *)
(* their own, and the cleaner removes no name that was registered once     *)
(* without having found it unreachable in an earlier round                 *)
(* (AutoCleaner.run lines 341-370), over each storage.                     *)
THEOREM NamesAreKept == CleanerSpec => []NamesInv
<1>1. Typed /\ GraceTyped => CleanerTypeOK
  BY DEF Typed, StepsTyped, ItemsTyped, TableTyped, GraceTyped, TypeOK, CleanerTypeOK
<1>2. Typed /\ GraceTyped /\ SparedInv /\ GraceInv => NamesInv
  BY <1>1 DEF SparedInv, GraceInv, NamesInv
<1>3. QED
  BY <1>2, TypedInvariant, GraceTypedInvariant, SparedInvariant, GraceInvariant, PTL
=============================================================================
