------------------------------- MODULE NamingProofs -------------------------
(***************************************************************************)
(* Proofs about the way from a name to a connection, for any names, uris,  *)
(* tags, hosts and processes and any number of calls and crashes: the      *)
(* storages of the name server and its lookups, addresses and sockets.  A  *)
(* section has a part's inductive invariant, what its operations keep of   *)
(* it, and the theorems.                                                   *)
(***************************************************************************)
EXTENDS
    NameStorage, NameLookup, Resolving, Addresses, Sockets,
    FiniteSetTheorems, FunctionTheorems, SequenceTheorems, WellFoundedInduction, TLAPS

-----------------------------------------------------------------------------
(* The storages of the name server: NameStorage. *)

(* A row of pyro_metadata: the id of a row of pyro_names, and a tag. *)
Tagging == (1 .. MaxId) \X Tag

(* Rows with ids up to b, no two with one id or one name. *)
GoodRows(S, b) ==
    /\ S \in SUBSET Row /\ \A r \in S : r.id <= b
    /\ \A q, r \in S : q.id = r.id \/ q.name = r.name => q = r

(* What is in the table of metadata belongs to a row. *)
GoodTags(T, S) == T \in SUBSET Tagging /\ \A t \in T : \E r \in S : r.id = t[1]

(* The three tables, each of which may not exist. *)
Db == [names : (SUBSET Row) \cup {None}, meta : (SUBSET Tagging) \cup {None},
       old : (SUBSET Row) \cup {None}]

(* Tables that fit together. *)
GoodDb(b) ==
    {db \in Db :
        /\ db.names # None => GoodRows(db.names, b)
        /\ db.meta # None => db.names # None /\ GoodTags(db.meta, db.names)
        /\ db.old # None => GoodRows(db.old, b)}

Statement(b) == [db : GoodDb(b), durable : BOOLEAN]

-----------------------------------------------------------------------------
(* What the statements do to the tables. *)

LEMMA RowsAreNot ==
    ASSUME NEW S \in SUBSET Row, NEW T \in SUBSET Tagging
    PROVE  S # None /\ T # None
  BY StorageAssumption DEF Tagging

LEMMA NoneIsNoEntry == None \notin Entry
  BY StorageAssumption

LEMMA TablesFields ==
    ASSUME NEW N, NEW M, NEW O
    PROVE  Tables(N, M, O).names = N /\ Tables(N, M, O).meta = M /\ Tables(N, M, O).old = O
  BY DEF Tables

LEMMA TablesNames ==
    ASSUME NEW N, NEW M, NEW O, NEW x
    PROVE  [Tables(N, M, O) EXCEPT !.names = x] = Tables(x, M, O)
  BY DEF Tables

LEMMA TablesMeta ==
    ASSUME NEW N, NEW M, NEW O, NEW x
    PROVE  [Tables(N, M, O) EXCEPT !.meta = x] = Tables(N, x, O)
  BY DEF Tables

LEMMA TablesOld ==
    ASSUME NEW N, NEW M, NEW O, NEW x
    PROVE  [Tables(N, M, O) EXCEPT !.old = x] = Tables(N, M, x)
  BY DEF Tables

LEMMA DbIs ==
    ASSUME NEW N \in (SUBSET Row) \cup {None}, NEW M \in (SUBSET Tagging) \cup {None},
           NEW O \in (SUBSET Row) \cup {None}, NEW b,
           N # None => GoodRows(N, b),
           M # None => N # None /\ GoodTags(M, N),
           O # None => GoodRows(O, b)
    PROVE  Tables(N, M, O) \in GoodDb(b)
<1>1. PICK db : db = Tables(N, M, O)
  OBVIOUS
<1>2. db.names = N /\ db.meta = M /\ db.old = O
  BY <1>1, TablesFields
<1>3. db \in Db
  BY <1>1 DEF Tables, Db
<1>4. QED
  BY <1>1, <1>2, <1>3 DEF GoodDb

LEMMA DbFields ==
    ASSUME NEW b, NEW db \in GoodDb(b)
    PROVE  /\ db = Tables(db.names, db.meta, db.old)
           /\ db.names \in (SUBSET Row) \cup {None} /\ db.meta \in (SUBSET Tagging) \cup {None}
           /\ db.old \in (SUBSET Row) \cup {None}
           /\ db.names # None => GoodRows(db.names, b)
           /\ db.meta # None => db.names # None /\ GoodTags(db.meta, db.names)
           /\ db.old # None => GoodRows(db.old, b)
<1>1. db \in Db
  BY DEF GoodDb
<1>2. db = Tables(db.names, db.meta, db.old)
  BY <1>1 DEF Db, Tables
<1>3. QED
  BY <1>1, <1>2 DEF GoodDb, Db

LEMMA GoodGrows ==
    ASSUME NEW b \in Nat, NEW db \in GoodDb(b)
    PROVE  db \in GoodDb(b + 1)
<1>1. ASSUME NEW S, GoodRows(S, b) PROVE GoodRows(S, b + 1)
  BY <1>1 DEF GoodRows, Row, MaxId
<1>2. QED
  BY <1>1 DEF GoodDb

LEMMA ViewAt ==
    ASSUME NEW b, NEW db \in GoodDb(b)
    PROVE  /\ View(db) \in [Name -> Entry \cup {None}]
           /\ \A r \in Rows(db) : View(db)[r.name] = [uri |-> r.uri, meta |-> TagsOf(db, r.id)]
           /\ \A n \in Name : (\A r \in Rows(db) : r.name # n) => View(db)[n] = None
           /\ Rows(db) \in SUBSET Row
<1>0. db.names = None \/ GoodRows(db.names, b)
  BY DbFields
<1>1. Rows(db) \in SUBSET Row
  BY <1>0 DEF Rows, GoodRows
<1>2. \A q, r \in Rows(db) : q.name = r.name => q = r
  BY <1>0 DEF Rows, GoodRows
<1>3. \A r \in Rows(db) : r.name \in Name /\ r.uri \in Uri
  BY <1>1 DEF Row
<1>4. ASSUME NEW r \in Rows(db) PROVE [uri |-> r.uri, meta |-> TagsOf(db, r.id)] \in Entry
  BY <1>3 DEF Entry, TagsOf
<1>5. ASSUME NEW r \in Rows(db)
      PROVE  View(db)[r.name] = [uri |-> r.uri, meta |-> TagsOf(db, r.id)]
  <2>1. (CHOOSE q \in Rows(db) : q.name = r.name) = r
    BY <1>2
  <2>2. QED
    BY <2>1, <1>3 DEF View
<1>6. ASSUME NEW n \in Name, \A r \in Rows(db) : r.name # n
      PROVE  View(db)[n] = None
  BY <1>6 DEF View
<1>7. ASSUME NEW n \in Name
      PROVE  View(db)[n] \in Entry \cup {None}
  <2>1. CASE \E r \in Rows(db) : r.name = n
    <3>1. PICK r \in Rows(db) : r.name = n
      BY <2>1
    <3>2. QED
      BY <1>4, <1>5, <3>1
  <2>2. QED
    BY <1>6, <2>1
<1>8. View(db) = [n \in Name |-> View(db)[n]]
  BY DEF View
<1>9. QED
  BY <1>1, <1>5, <1>6, <1>7, <1>8

(* Tables of which each name has the same are the same map. *)
LEMMA ViewIs ==
    ASSUME NEW db, NEW f, f = [n \in Name |-> f[n]], \A n \in Name : View(db)[n] = f[n]
    PROVE  View(db) = f
<1>1. View(db) = [n \in Name |-> View(db)[n]]
  BY DEF View
<1>2. QED
  BY <1>1

LEMMA TagsIn ==
    ASSUME NEW N, NEW M, NEW O, NEW i
    PROVE  /\ M = None => TagsOf(Tables(N, M, O), i) = {}
           /\ M # None => TagsOf(Tables(N, M, O), i) = {t \in Tag : <<i, t>> \in M}
  BY TablesFields DEF TagsOf

LEMMA RowsIn ==
    ASSUME NEW N, NEW M, NEW O
    PROVE  Rows(Tables(N, M, O)) = IF N = None THEN {} ELSE N
  BY TablesFields DEF Rows

(* A bounded set of numbers has a greatest element. *)
LEMMA Greatest ==
    ASSUME NEW S \in SUBSET Nat, S # {}, NEW b \in Nat, \A j \in S : j <= b
    PROVE  \E m \in S : \A j \in S : j <= m
<1> DEFINE Above == {n \in Nat : \A j \in S : j <= n}
           Less == {p \in Nat \X Nat : p[1] < p[2]}
<1>1. IsWellFoundedOn(Less, Nat)
  BY NatLessThanWellFounded DEF OpToRel
<1>2. PICK m \in Above : \A n \in Above : <<n, m>> \notin Less
  <2>1. Above \subseteq Nat /\ b \in Above
    OBVIOUS
  <2> HIDE DEF Above, Less
  <2>2. QED
    BY <1>1, <2>1, WFMin
<1>3. ASSUME NEW n \in Above PROVE m <= n
  <2>1. <<n, m>> \notin Less
    BY <1>2
  <2>2. m \in Nat /\ n \in Nat
    BY <1>2
  <2>3. n < m => <<n, m>> \in Less
    BY <2>2
  <2>4. QED
    BY <2>1, <2>2, <2>3
<1>4. m \in S
  <2>1. SUFFICES ASSUME m \notin S PROVE FALSE
    OBVIOUS
  <2>2. \A j \in S : j <= m - 1 /\ j # m
    BY <2>1
  <2>0. m \in Nat /\ \E j \in S : j <= m /\ j \in Nat
    BY <1>2
  <2>3. m - 1 \in Nat
    BY <2>0, <2>2
  <2>4. m - 1 \in Above
    BY <2>2, <2>3
  <2>5. QED
    BY <1>3, <2>4
<1>5. QED
  BY <1>4

(* A map in which the names of S have become e. *)
Changed(f, S, e) == [n \in Name |-> IF n \in S THEN e ELSE f[n]]

(* Deleting rows: the metadata first, then the rows. *)
LEMMA Deleted ==
    ASSUME NEW b, NEW db \in GoodDb(b), db.names # None, db.meta # None, NEW S
    PROVE  \E N1 \in SUBSET db.names, M1 \in SUBSET db.meta :
             /\ DeleteRows(db, S) = <<Tables(db.names, M1, db.old), Tables(N1, M1, db.old)>>
             /\ Tables(db.names, M1, db.old) \in GoodDb(b) /\ Tables(N1, M1, db.old) \in GoodDb(b)
             /\ N1 \in SUBSET Row /\ M1 \in SUBSET Tagging
             /\ \A r \in N1 : r.name \notin S
             /\ View(Tables(N1, M1, db.old)) = Changed(View(db), S, None)
<1> DEFINE ids == {r.id : r \in {x \in db.names : x.name \in S}}
           M1 == {t \in db.meta : t[1] \notin ids}
           N1 == {r \in db.names : r.id \notin ids}
<1>1. PICK N : N = db.names
  OBVIOUS
<1>2. PICK M : M = db.meta
  OBVIOUS
<1>3. PICK O : O = db.old
  OBVIOUS
<1>4. db = Tables(N, M, O) /\ GoodRows(N, b) /\ GoodTags(M, N)
      /\ O \in (SUBSET Row) \cup {None} /\ (O # None => GoodRows(O, b))
  BY <1>1, <1>2, <1>3, DbFields
<1>5. N1 = {r \in N : r.name \notin S}
  BY <1>1, <1>4 DEF GoodRows
<1>6. GoodRows(N1, b) /\ N1 \in SUBSET Row
  BY <1>1, <1>4 DEF GoodRows
<1>7. GoodTags(M1, N1) /\ GoodTags(M1, N) /\ M1 \in SUBSET Tagging
  BY <1>1, <1>2, <1>4 DEF GoodTags
<1>8. N # None /\ M # None /\ N1 # None /\ M1 # None
  BY <1>1, <1>2, <1>6, <1>7, RowsAreNot
<1>9. Tables(N, M1, O) \in GoodDb(b) /\ Tables(N1, M1, O) \in GoodDb(b)
  <2> HIDE DEF N1, M1
  <2>1. N \in SUBSET Row
    BY <1>4 DEF GoodRows
  <2>2. QED
    BY <1>4, <1>6, <1>7, <1>8, <2>1, DbIs
<1>10. DeleteRows(db, S) = <<Tables(N, M1, O), Tables(N1, M1, O)>>
  <2>1. [db EXCEPT !.meta = M1] = Tables(N, M1, O)
    <3> HIDE DEF M1
    <3>1. QED
      BY <1>4, TablesMeta
  <2>2. Tables(N, M1, O).names = N
    BY TablesFields
  <2>3. [Tables(N, M1, O) EXCEPT !.names = N1] = Tables(N1, M1, O)
    <3> HIDE DEF N1, M1
    <3>1. QED
      BY TablesNames
  <2>4. DeleteRows(db, S) = <<[db EXCEPT !.meta = M1],
                              [[db EXCEPT !.meta = M1] EXCEPT !.names = {r \in @ : r.id \notin ids}]>>
    BY DEF DeleteRows
  <2>5. QED
    BY <1>1, <2>1, <2>2, <2>3, <2>4
<1>11. ASSUME NEW r \in N1
       PROVE  TagsOf(Tables(N1, M1, O), r.id) = TagsOf(db, r.id)
  <2>1. \A t : <<r.id, t>> \in M <=> <<r.id, t>> \in M1
    <3>1. \A t : <<r.id, t>>[1] = r.id
      OBVIOUS
    <3>2. QED
      BY <1>2, <3>1
  <2> HIDE DEF M1, N1
  <2>2. PICK i : i = r.id
    OBVIOUS
  <2>3. TagsOf(Tables(N1, M1, O), i) = {t \in Tag : <<i, t>> \in M1}
    BY <1>8, TagsIn
  <2>4. TagsOf(Tables(N, M, O), i) = {t \in Tag : <<i, t>> \in M}
    BY <1>8, TagsIn
  <2>5. {t \in Tag : <<i, t>> \in M1} = {t \in Tag : <<i, t>> \in M}
    BY <2>1, <2>2
  <2>6. QED
    BY <1>4, <2>2, <2>3, <2>4, <2>5
<1>12. View(Tables(N1, M1, O)) = Changed(View(db), S, None)
  <2> HIDE DEF M1, N1
  <2>1. PICK d : d = Tables(N1, M1, O)
    OBVIOUS
  <2>2. Rows(d) = N1 /\ Rows(db) = N
    BY <1>4, <1>8, <2>1, RowsIn
  <2>3. d \in GoodDb(b)
    BY <1>9, <2>1
  <2>4. ASSUME NEW n \in Name PROVE View(d)[n] = IF n \in S THEN None ELSE View(db)[n]
    <3>1. CASE \E r \in N1 : r.name = n
      <4>1. PICK r \in N1 : r.name = n
        BY <3>1
      <4>2. View(d)[n] = [uri |-> r.uri, meta |-> TagsOf(d, r.id)]
        BY <2>2, <2>3, <4>1, ViewAt
      <4>3. View(db)[n] = [uri |-> r.uri, meta |-> TagsOf(db, r.id)]
        BY <1>5, <2>2, <4>1, ViewAt
      <4>4. n \notin S
        BY <1>5, <4>1
      <4>5. QED
        BY <1>11, <2>1, <4>1, <4>2, <4>3, <4>4
    <3>2. CASE ~ \E r \in N1 : r.name = n
      <4>1. View(d)[n] = None
        BY <2>2, <2>3, <3>2, ViewAt
      <4>2. n \notin S => View(db)[n] = None
        BY <1>5, <2>2, <3>2, ViewAt
      <4>3. QED
        BY <4>1, <4>2
    <3>3. QED
      BY <3>1, <3>2
  <2>5. PICK f : f = Changed(View(db), S, None)
    OBVIOUS
  <2>6. f = [n \in Name |-> f[n]] /\ \A n \in Name : View(d)[n] = f[n]
    BY <2>4, <2>5 DEF Changed
  <2>7. QED
    BY <2>1, <2>5, <2>6, ViewIs
<1>13. N1 \in SUBSET N /\ M1 \in SUBSET M /\ \A r \in N1 : r.name \notin S
  BY <1>1, <1>2, <1>5
<1>14. QED
  <2> HIDE DEF M1, N1
  <2>1. QED
    BY <1>1, <1>2, <1>3, <1>6, <1>7, <1>9, <1>10, <1>12, <1>13

(* The highest id in use, and 0 if there is none. *)
LEMMA HighestId ==
    ASSUME NEW N, NEW b \in Nat, GoodRows(N, b)
    PROVE  LET m == Max({0} \cup {r.id : r \in N})
           IN  m \in 0 .. b /\ \A r \in N : r.id <= m
<1> DEFINE used == {0} \cup {r.id : r \in N}
<1>1. used \in SUBSET Nat /\ used # {} /\ \A j \in used : j <= b
  BY DEF GoodRows, Row
<1> HIDE DEF used
<1>2. \E m \in used : \A j \in used : j <= m
  BY <1>1, Greatest
<1>3. Max(used) \in used /\ \A j \in used : Max(used) >= j
  BY <1>2 DEF Max
<1> USE DEF used
<1>4. \A r \in N : r.id \in used /\ r.id \in Nat
  BY DEF GoodRows, Row
<1>5. PICK m \in used : m = Max(used) /\ \A j \in used : m >= j
  BY <1>3
<1>6. m \in 0 .. b /\ \A r \in N : r.id <= m
  <2> HIDE DEF used
  <2>1. QED
    BY <1>1, <1>4, <1>5
<1>7. QED
  BY <1>5, <1>6

NewRow(id, n, e) == [id |-> id, name |-> n, uri |-> e.uri]
NewTags(id, e) == {<<id, t>> : t \in e.meta}

(* A row that was not there is inserted, and then its tags. *)
LEMMA Inserted ==
    ASSUME NEW b \in Nat, b + 1 <= MaxId, NEW N, NEW M, NEW O, Tables(N, M, O) \in GoodDb(b),
           N # None, M # None, NEW n \in Name, NEW e \in Entry, \A r \in N : r.name # n,
           NEW id \in 1 .. b + 1, \A r \in N : r.id < id
    PROVE  LET N2 == N \cup {NewRow(id, n, e)}
               M2 == M \cup NewTags(id, e)
           IN  /\ Tables(N2, M, O) \in GoodDb(b + 1) /\ Tables(N2, M2, O) \in GoodDb(b + 1)
               /\ N2 # None /\ M2 # None
               /\ View(Tables(N2, M2, O)) = Changed(View(Tables(N, M, O)), {n}, e)
<1>row. PICK row : row = NewRow(id, n, e)
  OBVIOUS
<1>names. PICK N2 : N2 = N \cup {row}
  OBVIOUS
<1>meta. PICK M2 : M2 = M \cup {<<id, t>> : t \in e.meta}
  OBVIOUS
<1>1. GoodRows(N, b) /\ GoodTags(M, N) /\ O \in (SUBSET Row) \cup {None} /\ (O # None => GoodRows(O, b))
  BY DbFields, TablesFields
<1>2. b + 1 \in Nat /\ MaxId \in Nat
  <2>1. Cardinality(Name) \in Nat
    BY StorageAssumption, FS_CardinalityType
  <2>2. QED
    BY <2>1, StorageAssumption DEF MaxId
<1>3. row \in Row /\ row.id = id /\ row.name = n /\ row.uri = e.uri
  <2>1. e.uri \in Uri
    BY DEF Entry
  <2>2. id \in 1 .. MaxId
    BY <1>2
  <2>3. QED
    BY <1>row, <2>1, <2>2 DEF Row, NewRow
<1>4. GoodRows(N2, b + 1)
  <2>1. N2 \in SUBSET Row /\ \A r \in N2 : r.id <= b + 1
    BY <1>1, <1>2, <1>3, <1>names DEF GoodRows, Row
  <2>2. ASSUME NEW q \in N2, NEW r \in N2, q.id = r.id \/ q.name = r.name PROVE q = r
    <3>1. \A x \in N : x.id # row.id /\ x.name # row.name
      BY <1>1, <1>3 DEF GoodRows, Row
    <3>2. QED
      BY <1>1, <1>names, <2>2, <3>1 DEF GoodRows
  <2>3. QED
    BY <2>1, <2>2 DEF GoodRows
<1>5. O # None => GoodRows(O, b + 1)
  BY <1>1, <1>2 DEF GoodRows, Row
<1>6. GoodTags(M, N2)
  BY <1>1, <1>names DEF GoodTags
<1>7. e.meta \in SUBSET Tag
  BY DEF Entry
<1>8. GoodTags(M2, N2)
  <2>1. ASSUME NEW t \in e.meta PROVE <<id, t>> \in Tagging /\ <<id, t>>[1] = row.id
    BY <1>2, <1>3, <1>7 DEF Tagging
  <2>2. row \in N2
    BY <1>names
  <2>3. QED
    BY <1>6, <1>meta, <2>1, <2>2 DEF GoodTags
<1>9. N2 \in SUBSET Row /\ M \in SUBSET Tagging /\ M2 \in SUBSET Tagging
  BY <1>4, <1>6, <1>8 DEF GoodRows, GoodTags
<1>10. N2 # None /\ M2 # None
  BY <1>9, RowsAreNot
<1>11. Tables(N2, M, O) \in GoodDb(b + 1)
  BY <1>1, <1>4, <1>5, <1>6, <1>9, <1>10, DbIs
<1>12. Tables(N2, M2, O) \in GoodDb(b + 1)
  BY <1>1, <1>4, <1>5, <1>8, <1>9, <1>10, DbIs
<1>13. PICK d : d = Tables(N2, M2, O)
  OBVIOUS
<1>14. PICK c : c = Tables(N, M, O)
  OBVIOUS
<1>15. Rows(d) = N2 /\ Rows(c) = N
  BY <1>10, <1>13, <1>14, RowsIn
<1>16. ASSUME NEW r \in N PROVE TagsOf(d, r.id) = TagsOf(c, r.id)
  <2>1. PICK i : i = r.id
    OBVIOUS
  <2>2. i # id /\ i \in Nat
    BY <1>1, <2>1 DEF GoodRows, Row
  <2>3. \A t : <<i, t>> \in M2 <=> <<i, t>> \in M
    <3>1. ASSUME NEW t, NEW u \in e.meta PROVE <<i, t>> # <<id, u>>
      BY <2>2
    <3>2. QED
      BY <1>meta, <3>1
  <2>4. TagsOf(d, i) = {t \in Tag : <<i, t>> \in M2}
    BY <1>10, <1>13, TagsIn
  <2>5. TagsOf(c, i) = {t \in Tag : <<i, t>> \in M}
    BY <1>14, TagsIn
  <2>6. QED
    BY <2>1, <2>3, <2>4, <2>5
<1>17. TagsOf(d, id) = e.meta
  <2>1. TagsOf(d, id) = {t \in Tag : <<id, t>> \in M2}
    BY <1>10, <1>13, TagsIn
  <2>2. \A t : <<id, t>> \notin M
    <3>1. ASSUME NEW t, <<id, t>> \in M PROVE FALSE
      <4>1. PICK x \in M : x = <<id, t>>
        BY <3>1
      <4>2. PICK r \in N : r.id = x[1]
        BY <1>1 DEF GoodTags
      <4>3. r.id = id
        BY <4>1, <4>2
      <4>4. QED
        BY <1>1, <4>3 DEF GoodRows, Row
    <3>2. QED
      BY <3>1
  <2>3. \A t : <<id, t>> \in M2 <=> t \in e.meta
    BY <1>meta, <2>2
  <2>4. QED
    BY <1>7, <2>1, <2>3
<1>18. ASSUME NEW m \in Name PROVE View(d)[m] = IF m \in {n} THEN e ELSE View(c)[m]
  <2>1. CASE m = n
    <3>1. View(d)[n] = [uri |-> row.uri, meta |-> TagsOf(d, row.id)]
      <4>1. row \in Rows(d)
        BY <1>15, <1>names
      <4>2. View(d)[row.name] = [uri |-> row.uri, meta |-> TagsOf(d, row.id)]
        BY <1>12, <1>13, <4>1, ViewAt
      <4>3. QED
        BY <1>3, <4>2
    <3>2. [uri |-> e.uri, meta |-> e.meta] = e
      BY DEF Entry
    <3>3. QED
      BY <1>3, <1>17, <2>1, <3>1, <3>2
  <2>2. CASE m # n /\ \E r \in N : r.name = m
    <3>1. PICK r \in N : r.name = m
      BY <2>2
    <3>2. View(d)[m] = [uri |-> r.uri, meta |-> TagsOf(d, r.id)]
      BY <1>12, <1>13, <1>15, <1>names, <3>1, ViewAt
    <3>3. View(c)[m] = [uri |-> r.uri, meta |-> TagsOf(c, r.id)]
      BY <1>14, <1>15, <3>1, ViewAt
    <3>4. QED
      BY <1>16, <2>2, <3>1, <3>2, <3>3
  <2>3. CASE m # n /\ ~ \E r \in N : r.name = m
    <3>1. \A r \in Rows(d) : r.name # m
      BY <1>3, <1>15, <1>names, <2>3
    <3>2. View(d)[m] = None
      BY <1>12, <1>13, <3>1, ViewAt
    <3>3. View(c)[m] = None
      BY <1>14, <1>15, <2>3, ViewAt
    <3>4. QED
      BY <2>3, <3>2, <3>3
  <2>4. QED
    BY <2>1, <2>2, <2>3
<1>19. View(d) = Changed(View(c), {n}, e)
  <2>1. PICK f : f = Changed(View(c), {n}, e)
    OBVIOUS
  <2>2. f = [m \in Name |-> f[m]] /\ \A m \in Name : View(d)[m] = f[m]
    BY <1>18, <2>1 DEF Changed
  <2>3. View(d) = f
    BY <2>2, ViewIs
  <2>4. QED
    BY <2>1, <2>3
<1>20. QED
  <2>1. M2 = M \cup NewTags(id, e)
    BY <1>meta DEF NewTags
  <2>2. QED
    BY <1>10, <1>11, <1>12, <1>13, <1>14, <1>19, <1>row, <1>names, <2>1

(* What a method does: its statements keep the tables good, and the last   *)
(* of them gives each name of S the entry e.                               *)
Does(statements, db, S, e, b) ==
    /\ statements \in Seq(GoodDb(b)) /\ statements # <<>>
    /\ LET last == statements[Len(statements)]
       IN  /\ last.names # None /\ last.meta # None /\ last.old = db.old
           /\ View(last) = Changed(View(db), S, e)

LEMMA GoodSeqs ==
    ASSUME NEW b, NEW x \in GoodDb(b), NEW y \in GoodDb(b)
    PROVE  /\ <<x, y>> \in Seq(GoodDb(b)) /\ Len(<<x, y>>) = 2
           /\ <<x, y>>[1] = x /\ <<x, y>>[2] = y
  OBVIOUS

LEMMA DoesIs ==
    ASSUME NEW b, NEW db, NEW S, NEW e, NEW ss \in Seq(GoodDb(b)), NEW k \in Nat \ {0}, Len(ss) = k,
           NEW last, last = ss[k], last.names # None, last.meta # None, last.old = db.old,
           View(last) = Changed(View(db), S, e)
    PROVE  Does(ss, db, S, e, b)
  BY DEF Does

LEMMA RowsDeleted ==
    ASSUME NEW b \in Nat, NEW db \in GoodDb(b), db.names # None, db.meta # None, NEW S
    PROVE  Does(DeleteRows(db, S), db, S, None, b + 1)
<1>1. PICK N1 \in SUBSET db.names, M1 \in SUBSET db.meta :
        /\ DeleteRows(db, S) = <<Tables(db.names, M1, db.old), Tables(N1, M1, db.old)>>
        /\ Tables(db.names, M1, db.old) \in GoodDb(b) /\ Tables(N1, M1, db.old) \in GoodDb(b)
        /\ N1 \in SUBSET Row /\ M1 \in SUBSET Tagging
        /\ View(Tables(N1, M1, db.old)) = Changed(View(db), S, None)
  BY Deleted
<1>2. PICK x \in GoodDb(b + 1) : x = Tables(db.names, M1, db.old)
  BY <1>1, GoodGrows
<1>3. PICK y \in GoodDb(b + 1) : y = Tables(N1, M1, db.old)
  BY <1>1, GoodGrows
<1>4. y.names # None /\ y.meta # None /\ y.old = db.old
  <2>1. N1 # None /\ M1 # None
    BY <1>1, RowsAreNot
  <2>2. y.names = N1 /\ y.meta = M1 /\ y.old = db.old
    BY <1>3, TablesFields
  <2>3. QED
    BY <2>1, <2>2
<1>5. PICK ss : ss = <<x, y>>
  OBVIOUS
<1>6. ss \in Seq(GoodDb(b + 1)) /\ Len(ss) = 2 /\ ss[2] = y
  BY <1>5, GoodSeqs
<1>7. Does(ss, db, S, None, b + 1)
  <2>1. View(y) = Changed(View(db), S, None)
    BY <1>1, <1>3
  <2>2. QED
    BY <1>4, <1>6, <2>1, DoesIs
<1>8. QED
  BY <1>1, <1>2, <1>3, <1>5, <1>7

LEMMA ItemSet ==
    ASSUME NEW b \in Nat, b + 1 <= MaxId, NEW db \in GoodDb(b), db.names # None, db.meta # None,
           NEW n \in Name, NEW e \in Entry
    PROVE  Does(SetItem(db, n, e), db, {n}, e, b + 1)
<1>1. PICK N1 \in SUBSET db.names, M1 \in SUBSET db.meta :
        /\ DeleteRows(db, {n}) = <<Tables(db.names, M1, db.old), Tables(N1, M1, db.old)>>
        /\ Tables(db.names, M1, db.old) \in GoodDb(b) /\ Tables(N1, M1, db.old) \in GoodDb(b)
        /\ N1 \in SUBSET Row /\ M1 \in SUBSET Tagging
        /\ \A r \in N1 : r.name \notin {n}
        /\ View(Tables(N1, M1, db.old)) = Changed(View(db), {n}, None)
  BY Deleted
<1>2. PICK O : O = db.old
  OBVIOUS
<1>3. PICK x \in GoodDb(b + 1) : x = Tables(db.names, M1, O)
  BY <1>1, <1>2, GoodGrows
<1>4. PICK y \in GoodDb(b) : y = Tables(N1, M1, O)
  BY <1>1, <1>2
<1>5. y.names = N1 /\ y.meta = M1 /\ y.old = O
  BY <1>4, TablesFields
<1>6. N1 # None /\ M1 # None
  BY <1>1, RowsAreNot
<1>7. GoodRows(N1, b)
  BY <1>5, <1>6, DbFields
<1>8. PICK id : id = 1 + Max({0} \cup {r.id : r \in N1})
  OBVIOUS
<1>9. id \in 1 .. b + 1 /\ \A r \in N1 : r.id < id
  <2>1. PICK m : m = Max({0} \cup {r.id : r \in N1})
    OBVIOUS
  <2>2. m \in 0 .. b /\ \A r \in N1 : r.id <= m
    BY <1>7, <2>1, HighestId
  <2>3. \A r \in N1 : r.id \in Nat
    BY <1>1 DEF Row
  <2>4. id = 1 + m
    BY <1>8, <2>1
  <2>5. QED
    BY <2>2, <2>3, <2>4
<1>10. PICK row : row = NewRow(id, n, e)
  OBVIOUS
<1>11. PICK N2 : N2 = N1 \cup {row}
  OBVIOUS
<1>12. PICK M2 : M2 = M1 \cup NewTags(id, e)
  OBVIOUS
<1>13. PICK z : z = Tables(N2, M1, O)
  OBVIOUS
<1>14. PICK w : w = Tables(N2, M2, O)
  OBVIOUS
<1>15. /\ z \in GoodDb(b + 1) /\ w \in GoodDb(b + 1) /\ N2 # None /\ M2 # None
       /\ View(w) = Changed(View(y), {n}, e)
  <2>1. \A r \in N1 : r.name # n
    BY <1>1
  <2>2. QED
    <3>1. /\ Tables(N2, M1, O) \in GoodDb(b + 1) /\ Tables(N2, M2, O) \in GoodDb(b + 1)
          /\ N2 # None /\ M2 # None
          /\ View(Tables(N2, M2, O)) = Changed(View(Tables(N1, M1, O)), {n}, e)
      <4>1. Tables(N1, M1, O) \in GoodDb(b)
        BY <1>4
      <4>2. id \in 1 .. b + 1 /\ \A r \in N1 : r.id < id
        BY <1>9
      <4>3. /\ Tables(N1 \cup {NewRow(id, n, e)}, M1, O) \in GoodDb(b + 1)
            /\ Tables(N1 \cup {NewRow(id, n, e)}, M1 \cup NewTags(id, e), O) \in GoodDb(b + 1)
            /\ N1 \cup {NewRow(id, n, e)} # None /\ M1 \cup NewTags(id, e) # None
            /\ View(Tables(N1 \cup {NewRow(id, n, e)}, M1 \cup NewTags(id, e), O))
               = Changed(View(Tables(N1, M1, O)), {n}, e)
        BY <1>6, <2>1, <4>1, <4>2, Inserted
      <4>4. QED
        BY ONLY <1>10, <1>11, <1>12, <4>3
    <3>2. QED
      BY <1>4, <1>13, <1>14, <3>1
<1>16. y \in GoodDb(b + 1)
  BY GoodGrows
<1>17. w.names # None /\ w.meta # None /\ w.old = O
  BY <1>14, <1>15, TablesFields
<1>18. View(w) = Changed(View(db), {n}, e)
  <2>1. View(y) = Changed(View(db), {n}, None)
    BY <1>1, <1>2, <1>4
  <2>2. Changed(Changed(View(db), {n}, None), {n}, e) = Changed(View(db), {n}, e)
    BY DEF Changed
  <2>3. QED
    BY <1>15, <2>1, <2>2
<1>19. SetItem(db, n, e) = <<x, y>> \o <<z, w>>
  <2>1. DeleteRows(db, {n}) = <<x, y>>
    BY <1>1, <1>2, <1>3, <1>4
  <2>2. <<x, y>>[Len(<<x, y>>)] = y
    OBVIOUS
  <2>3. [y EXCEPT !.names = N2] = z
    BY <1>4, <1>13, TablesNames
  <2>4. [z EXCEPT !.meta = M2] = w
    BY <1>13, <1>14, TablesMeta
  <2>5. z.meta = M1
    BY <1>13, TablesFields
  <2>6. SetItem(db, n, e) =
          LET base == y
              inserted == [base EXCEPT !.names =
                              @ \cup {[id |-> 1 + Max({0} \cup {r.id : r \in base.names}),
                                       name |-> n, uri |-> e.uri]}]
          IN  <<x, y>> \o <<inserted, [inserted EXCEPT !.meta = @ \cup
                  {<<1 + Max({0} \cup {r.id : r \in base.names}), t>> : t \in e.meta}]>>
    BY <2>1, <2>2 DEF SetItem
  <2>7. [y EXCEPT !.names = @ \cup {[id |-> 1 + Max({0} \cup {r.id : r \in y.names}),
                                     name |-> n, uri |-> e.uri]}] = z
    BY <1>5, <1>8, <1>10, <1>11, <2>3 DEF NewRow
  <2>8. [z EXCEPT !.meta = @ \cup {<<1 + Max({0} \cup {r.id : r \in y.names}), t>> : t \in e.meta}] = w
    BY <1>5, <1>8, <1>12, <2>4, <2>5 DEF NewTags
  <2>9. QED
    BY <2>6, <2>7, <2>8
<1>20. PICK ss : ss = <<x, y>> \o <<z, w>>
  OBVIOUS
<1>21. ss \in Seq(GoodDb(b + 1)) /\ Len(ss) = 4 /\ ss[4] = w
  <2>1. PICK p : p = <<x, y>>
    OBVIOUS
  <2>2. PICK q : q = <<z, w>>
    OBVIOUS
  <2>3. /\ p \in Seq(GoodDb(b + 1)) /\ Len(p) = 2
        /\ q \in Seq(GoodDb(b + 1)) /\ Len(q) = 2 /\ q[2] = w
    BY <1>15, <1>16, <2>1, <2>2, GoodSeqs
  <2>4. QED
    BY <1>20, <2>1, <2>2, <2>3, ConcatProperties
<1>22. Does(ss, db, {n}, e, b + 1)
  <2>1. w.old = db.old
    BY <1>2, <1>17
  <2>2. PICK k \in Nat \ {0} : k = 4
    OBVIOUS
  <2>3. ss \in Seq(GoodDb(b + 1)) /\ Len(ss) = k /\ ss[k] = w
    BY <1>21, <2>2
  <2>4. QED
    BY ONLY <1>17, <1>18, <2>1, <2>2, <2>3, DoesIs
<1>23. QED
  BY <1>19, <1>20, <1>22

-----------------------------------------------------------------------------
(* What is still to be done: the statements of a method, or of __init__.   *)

Outcome(t) == t[Len(t)].db

(* The tables are complete after the last statement, which is durable.     *)
GoodPlan(t, b) ==
    /\ t \in Seq(Statement(b)) /\ Len(t) > 0 /\ t[Len(t)].durable
    /\ Outcome(t).names # None /\ Outcome(t).meta # None

(* Nothing of a method is durable before its commit.                       *)
MethodPlan(t, db, S, e) ==
    /\ \A i \in DOMAIN t : t[i].durable => i = Len(t)
    /\ Outcome(t).old = db.old /\ View(Outcome(t)) = Changed(View(db), S, e)

(* The names that a start is to keep: as long as there is a table that the *)
(* upgrade will drop, those in it.                                         *)
Shown(db, old) == IF db.old # old THEN View(Tables(db.old, None, None)) ELSE View(db)

(* If it is interrupted then, there is nothing in the other tables.        *)
Hidden(db, old) == db.old # old => db.old # None /\ View(db) = Empty

OpenPlan(t, db) ==
    /\ Hidden(db, Outcome(t).old)
    /\ \A i \in DOMAIN t : t[i].durable =>
         Hidden(t[i].db, Outcome(t).old) /\ Shown(t[i].db, Outcome(t).old) = Shown(db, Outcome(t).old)

LEMMA NoRows ==
    ASSUME NEW db, Rows(db) = {}
    PROVE  View(db) = Empty
  BY DEF View, Empty

LEMMA StatementIs ==
    ASSUME NEW b, NEW db \in GoodDb(b)
    PROVE  /\ Durable(db) \in Statement(b) /\ Durable(db).db = db /\ Durable(db).durable
           /\ Pending(db) \in Statement(b) /\ Pending(db).db = db /\ ~Pending(db).durable
<1>1. Durable(db).db = db /\ Durable(db).durable = TRUE
  BY DEF Durable
<1>2. Pending(db).db = db /\ Pending(db).durable = FALSE
  BY DEF Pending
<1>3. Durable(db) \in Statement(b) /\ Pending(db) \in Statement(b)
  BY DEF Durable, Pending, Statement
<1>4. QED
  BY <1>1, <1>2, <1>3

LEMMA CommittedIs ==
    ASSUME NEW b, NEW dbs \in Seq(GoodDb(b)), NEW k \in Nat \ {0}, Len(dbs) = k
    PROVE  /\ Committed(dbs) \in Seq(Statement(b)) /\ Len(Committed(dbs)) = k + 1
           /\ \A i \in 1 .. k : ~Committed(dbs)[i].durable
           /\ Committed(dbs)[k + 1].durable /\ Committed(dbs)[k + 1].db = dbs[k]
<1>1. \A i \in 1 .. k : dbs[i] \in GoodDb(b)
  OBVIOUS
<1>2. PICK p : p = [i \in 1 .. k |-> Pending(dbs[i])]
  OBVIOUS
<1>3. \A i \in 1 .. k : p[i] = Pending(dbs[i]) /\ p[i] \in Statement(b) /\ ~p[i].durable
  BY <1>1, <1>2, StatementIs
<1>4. p \in Seq(Statement(b)) /\ Len(p) = k
  <2>1. p = [i \in 1 .. k |-> p[i]]
    BY <1>2
  <2>2. p \in [1 .. k -> Statement(b)]
    BY <1>3, <2>1
  <2>3. QED
    BY <2>2
<1>5. PICK d : d = Durable(dbs[k])
  OBVIOUS
<1>6. d \in Statement(b) /\ d.durable /\ d.db = dbs[k]
  BY <1>1, <1>5, StatementIs
<1>7. PICK c : c = Committed(dbs)
  OBVIOUS
<1>8. c = p \o <<d>>
  BY <1>2, <1>5, <1>7 DEF Committed
<1>9. /\ c \in Seq(Statement(b)) /\ Len(c) = k + 1
      /\ c[k + 1] = d /\ \A i \in 1 .. k : c[i] = p[i]
  BY <1>4, <1>6, <1>8
<1>10. QED
  BY <1>3, <1>6, <1>7, <1>9

(* What a method is to do after it has been called.                        *)
LEMMA MethodPlanned ==
    ASSUME NEW b, NEW db, NEW S, NEW e, NEW ss, Does(ss, db, S, e, b)
    PROVE  GoodPlan(Committed(ss), b) /\ MethodPlan(Committed(ss), db, S, e)
<1>1. PICK k \in Nat \ {0} : k = Len(ss) /\ ss \in Seq(GoodDb(b))
  BY DEF Does
<1>2. PICK t : t = Committed(ss)
  OBVIOUS
<1>3. /\ t \in Seq(Statement(b)) /\ Len(t) = k + 1
      /\ \A i \in 1 .. k : ~t[i].durable
      /\ t[k + 1].durable /\ t[k + 1].db = ss[k]
  BY <1>1, <1>2, CommittedIs
<1>4. PICK last : last = ss[k]
  OBVIOUS
<1>5. Outcome(t) = last
  BY <1>3, <1>4 DEF Outcome
<1>6. last.names # None /\ last.meta # None /\ last.old = db.old
      /\ View(last) = Changed(View(db), S, e)
  BY <1>1, <1>4 DEF Does
<1>7. GoodPlan(t, b)
  BY <1>3, <1>5, <1>6 DEF GoodPlan
<1>8. \A i \in DOMAIN t : t[i].durable => i = Len(t)
  BY <1>3
<1>9. QED
  BY <1>2, <1>5, <1>6, <1>7, <1>8 DEF MethodPlan

(* A statement is executed: what is left of a plan.                        *)
LEMMA PlanGoesOn ==
    ASSUME NEW b, NEW t, GoodPlan(t, b), Tail(t) # <<>>
    PROVE  /\ GoodPlan(Tail(t), b) /\ Outcome(Tail(t)) = Outcome(t) /\ Len(t) > 1
           /\ Len(Tail(t)) = Len(t) - 1 /\ DOMAIN Tail(t) = 1 .. Len(t) - 1
           /\ \A i \in DOMAIN Tail(t) : i + 1 \in DOMAIN t /\ Tail(t)[i] = t[i + 1]
<1>1. t \in Seq(Statement(b)) /\ Len(t) \in Nat /\ Len(t) > 0
  BY DEF GoodPlan
<1>2. PICK u : u = Tail(t)
  OBVIOUS
<1>3. /\ u \in Seq(Statement(b)) /\ Len(u) = Len(t) - 1
      /\ \A i \in 1 .. Len(t) - 1 : u[i] = t[i + 1]
  BY <1>1, <1>2
<1>4. Len(t) > 1
  BY <1>1, <1>2, <1>3
<1>5. u[Len(u)] = t[Len(t)]
  BY <1>1, <1>3, <1>4
<1>6. GoodPlan(u, b) /\ Outcome(u) = Outcome(t)
  BY <1>1, <1>3, <1>4, <1>5 DEF GoodPlan, Outcome
<1>7. DOMAIN u = 1 .. Len(t) - 1 /\ DOMAIN t = 1 .. Len(t)
  BY <1>1, <1>3
<1>8. QED
  BY <1>1, <1>2, <1>3, <1>4, <1>6, <1>7

LEMMA PlanEnds ==
    ASSUME NEW b, NEW t, GoodPlan(t, b), Tail(t) = <<>>
    PROVE  Head(t) = t[Len(t)] /\ Len(t) = 1
<1>1. t \in Seq(Statement(b)) /\ Len(t) \in Nat /\ Len(t) > 0
  BY DEF GoodPlan
<1>2. Len(Tail(t)) = Len(t) - 1
  BY <1>1
<1>3. Len(t) = 1
  <2>1. PICK u : u = Tail(t)
    OBVIOUS
  <2>2. Len(u) = 0
    BY <2>1
  <2>3. QED
    BY <1>1, <1>2, <2>1, <2>2
<1>4. QED
  BY <1>1, <1>3

LEMMA PlanGrows ==
    ASSUME NEW b \in Nat, NEW t, GoodPlan(t, b)
    PROVE  GoodPlan(t, b + 1)
<1>1. Statement(b) \subseteq Statement(b + 1)
  BY GoodGrows DEF Statement
<1>2. QED
  BY <1>1 DEF GoodPlan

LEMMA MayBeNone ==
    ASSUME NEW S, NEW T \in SUBSET S
    PROVE  T \in (SUBSET S) \cup {None} /\ None \in (SUBSET S) \cup {None}
  OBVIOUS

LEMMA SchemaIs ==
    ASSUME NEW O, NEW b, O \in (SUBSET Row) \cup {None}, O # None => GoodRows(O, b), NEW t,
           t = CreateSchema(Tables(None, None, O))
    PROVE  /\ Tables({}, None, O) \in GoodDb(b) /\ Tables({}, {}, O) \in GoodDb(b)
           /\ {} \in SUBSET Row /\ {} # None
           /\ t = <<Durable(Tables({}, None, O)), Durable(Tables({}, {}, O))>>
<1>1. {} # None /\ {} \in SUBSET Row /\ {} \in SUBSET Tagging
  BY RowsAreNot
<1>2. GoodRows({}, b) /\ GoodTags({}, {})
  BY DEF GoodRows, GoodTags
<1>3. PICK z : z = {}
  OBVIOUS
<1>4. Tables(z, None, O) \in GoodDb(b) /\ Tables(z, z, O) \in GoodDb(b)
  <2>z. z \in SUBSET Row /\ z \in SUBSET Tagging /\ z # None /\ GoodRows(z, b) /\ GoodTags(z, z)
    BY <1>1, <1>2, <1>3
  <2>1. /\ z \in (SUBSET Row) \cup {None} /\ z \in (SUBSET Tagging) \cup {None}
        /\ None \in (SUBSET Tagging) \cup {None} /\ z # None /\ GoodRows(z, b) /\ GoodTags(z, z)
    BY <2>z, MayBeNone
  <2>2. Tables(z, None, O) \in GoodDb(b)
    BY <2>1, DbIs
  <2>3. Tables(z, z, O) \in GoodDb(b)
    BY <2>1, DbIs
  <2>4. QED
    BY <2>2, <2>3
<1>5. [Tables(None, None, O) EXCEPT !.names = z] = Tables(z, None, O)
  BY TablesNames
<1>6. [Tables(None, None, O) EXCEPT !.names = z, !.meta = z] = Tables(z, z, O)
  <2>1. [Tables(z, None, O) EXCEPT !.meta = z] = Tables(z, z, O)
    BY TablesMeta
  <2>2. [Tables(None, None, O) EXCEPT !.names = z, !.meta = z]
        = [[Tables(None, None, O) EXCEPT !.names = z] EXCEPT !.meta = z]
    OBVIOUS
  <2>3. QED
    BY <1>5, <2>1, <2>2
<1>7. t = <<Durable(Tables(z, None, O)), Durable(Tables(z, z, O))>>
  BY <1>3, <1>5, <1>6 DEF CreateSchema
<1>8. QED
  BY <1>1, <1>3, <1>4, <1>7

(* A file without tables.                                                  *)
LEMMA SchemaPlanned ==
    ASSUME NEW b, NEW db \in GoodDb(b), db.names = None
    PROVE  /\ GoodPlan(CreateSchema(db), b) /\ OpenPlan(CreateSchema(db), db)
           /\ Outcome(CreateSchema(db)).old = db.old
<1>1. PICK O : O = db.old
  OBVIOUS
<1>2. db = Tables(None, None, O) /\ O \in (SUBSET Row) \cup {None} /\ (O # None => GoodRows(O, b))
  BY <1>1, DbFields
<1>3. PICK t : t = CreateSchema(db)
  OBVIOUS
<1>4. /\ Tables({}, None, O) \in GoodDb(b) /\ Tables({}, {}, O) \in GoodDb(b)
      /\ {} # None /\ t = <<Durable(Tables({}, None, O)), Durable(Tables({}, {}, O))>>
  BY <1>2, <1>3, SchemaIs
<1>5. PICK x \in GoodDb(b) : x = Tables({}, None, O)
  BY <1>4
<1>6. PICK y \in GoodDb(b) : y = Tables({}, {}, O)
  BY <1>4
<1>7. x.old = O /\ y.old = O /\ y.names # None /\ y.meta # None
  BY <1>4, <1>5, <1>6, TablesFields
<1>8. View(x) = Empty /\ View(y) = Empty /\ View(db) = Empty
  BY <1>2, <1>4, <1>5, <1>6, RowsIn, NoRows
<1>9. PICK v \in Statement(b) : v = Durable(x) /\ v.db = x
  BY StatementIs
<1>10. PICK w \in Statement(b) : w = Durable(y) /\ w.db = y /\ w.durable
  BY StatementIs
<1>11. t = <<v, w>>
  BY <1>4, <1>5, <1>6, <1>9, <1>10
<1>12. t \in Seq(Statement(b)) /\ Len(t) = 2 /\ t[1] = v /\ t[2] = w
  BY <1>11
<1>13. Outcome(t) = y
  BY <1>10, <1>12 DEF Outcome
<1>14. GoodPlan(t, b)
  BY <1>7, <1>10, <1>12, <1>13 DEF GoodPlan
<1>15. OpenPlan(t, db)
  <2>1. \A i \in DOMAIN t : t[i].db = x \/ t[i].db = y
    BY <1>9, <1>10, <1>12
  <2>2. \A i \in DOMAIN t : t[i].db.old = O /\ View(t[i].db) = View(db)
    BY <1>7, <1>8, <2>1
  <2>3. QED
    BY <1>1, <1>7, <1>13, <2>2 DEF OpenPlan, Hidden, Shown
<1>16. QED
  BY <1>1, <1>3, <1>7, <1>13, <1>14, <1>15

LEMMA CommittedTwo ==
    ASSUME NEW b, NEW x \in GoodDb(b), NEW y \in GoodDb(b), NEW m, m = Committed(<<x, y>>)
    PROVE  /\ m \in Seq(Statement(b)) /\ Len(m) = 3
           /\ ~m[1].durable /\ ~m[2].durable /\ m[3].durable /\ m[3].db = y
<1>1. PICK ss : ss = <<x, y>>
  OBVIOUS
<1>2. ss \in Seq(GoodDb(b)) /\ Len(ss) = 2 /\ ss[2] = y
  BY <1>1, GoodSeqs
<1>3. PICK k \in Nat \ {0} : k = Len(ss) /\ ss \in Seq(GoodDb(b))
  BY <1>2
<1>4. m = Committed(ss)
  BY <1>1
<1>5. /\ m \in Seq(Statement(b)) /\ Len(m) = k + 1
      /\ \A i \in 1 .. k : ~m[i].durable
      /\ m[k + 1].durable /\ m[k + 1].db = ss[k]
  BY ONLY <1>3, <1>4, CommittedIs
<1>6. QED
  BY <1>2, <1>3, <1>5

(* A file without metadata: rows R are kept in pyro_names_old meanwhile.   *)
LEMMA UpgradePlanned ==
    ASSUME NEW b, NEW db \in GoodDb(b), db.names # None, db.meta = None, db.old = None
    PROVE  /\ GoodPlan(Upgrade(db), b) /\ OpenPlan(Upgrade(db), db)
           /\ Outcome(Upgrade(db)).old = db.old
<1>1. PICK R : R = db.names
  OBVIOUS
<1>2. PICK z : z = {}
  OBVIOUS
<1>3. db = Tables(R, None, None) /\ R \in SUBSET Row /\ R # None /\ GoodRows(R, b)
  <2>1. db = Tables(db.names, db.meta, db.old)
    BY DbFields
  <2>2. R \in (SUBSET Row) \cup {None} /\ R # None /\ GoodRows(R, b)
    BY <1>1, DbFields
  <2>3. db = Tables(R, None, None)
    BY <1>1, <2>1
  <2>4. R \in SUBSET Row
    BY <2>2 DEF GoodRows
  <2>5. QED
    BY <2>2, <2>3, <2>4
<1>4. z # None /\ z \in SUBSET Row /\ z \in SUBSET Tagging /\ GoodRows(z, b) /\ GoodTags(z, R)
      /\ GoodTags(z, z)
  BY <1>2, RowsAreNot DEF GoodRows, GoodTags
<1>good. /\ z \in (SUBSET Row) \cup {None} /\ z \in (SUBSET Tagging) \cup {None}
         /\ R \in (SUBSET Row) \cup {None}
         /\ None \in (SUBSET Row) \cup {None} /\ None \in (SUBSET Tagging) \cup {None}
  BY <1>3, <1>4, MayBeNone
<1>5. PICK d1 \in GoodDb(b) : d1 = Tables(None, None, R)
  <2>1. Tables(None, None, R) \in GoodDb(b)
    BY <1>3, <1>4, <1>good, DbIs
  <2>2. QED
    BY <2>1
<1>6. PICK d2 \in GoodDb(b) : d2 = Tables(z, None, R)
  <2>1. Tables(z, None, R) \in GoodDb(b)
    BY <1>3, <1>4, <1>good, DbIs
  <2>2. QED
    BY <2>1
<1>7. PICK d3 \in GoodDb(b) : d3 = Tables(z, z, R)
  <2>1. Tables(z, z, R) \in GoodDb(b)
    BY <1>3, <1>4, <1>good, DbIs
  <2>2. QED
    BY <2>1
<1>8. PICK d4 \in GoodDb(b) : d4 = Tables(R, z, R)
  <2>1. Tables(R, z, R) \in GoodDb(b)
    BY <1>3, <1>4, <1>good, DbIs
  <2>2. QED
    BY <2>1
<1>9. PICK d5 \in GoodDb(b) : d5 = Tables(R, z, None)
  <2>1. Tables(R, z, None) \in GoodDb(b)
    BY <1>3, <1>4, <1>good, DbIs
  <2>2. QED
    BY <2>1
<1>10. /\ d1.old = R /\ d2.old = R /\ d3.old = R
       /\ d5.old = None /\ d5.names # None /\ d5.meta # None
  BY <1>3, <1>4, <1>5, <1>6, <1>7, <1>9, TablesFields
<1>11. View(d1) = Empty /\ View(d2) = Empty /\ View(d3) = Empty
  BY <1>2, <1>4, <1>5, <1>6, <1>7, RowsIn, NoRows
<1>12. View(d5) = View(db)
  <2>1. Rows(d5) = R /\ Rows(db) = R
    BY <1>3, <1>9, RowsIn
  <2>2. \A i : TagsOf(d5, i) = {} /\ TagsOf(db, i) = {}
    <3>1. \A i : TagsOf(d5, i) = {t \in Tag : <<i, t>> \in z}
      BY <1>4, <1>9, TagsIn
    <3>2. \A i : TagsOf(db, i) = {}
      BY <1>3, TagsIn
    <3>3. QED
      BY <1>2, <3>1, <3>2
  <2>3. QED
    BY <2>1, <2>2 DEF View
<1>13. PICK s : s = CreateSchema(d1)
  OBVIOUS
<1>14. s \in Seq(Statement(b)) /\ Len(s) = 2 /\ s[1].db = d2 /\ s[2].db = d3
  <2>1. s = <<Durable(d2), Durable(d3)>>
    BY <1>2, <1>3, <1>5, <1>6, <1>7, <1>13, SchemaIs
  <2>2. PICK v \in Statement(b) : v = Durable(d2) /\ v.db = d2
    BY StatementIs
  <2>3. PICK w \in Statement(b) : w = Durable(d3) /\ w.db = d3
    BY StatementIs
  <2>4. s = <<v, w>>
    BY <2>1, <2>2, <2>3
  <2>5. QED
    BY <2>2, <2>3, <2>4
<1>15. PICK m : m = Committed(<<d4, d5>>)
  OBVIOUS
<1>16. /\ m \in Seq(Statement(b)) /\ Len(m) = 3
       /\ ~m[1].durable /\ ~m[2].durable /\ m[3].durable /\ m[3].db = d5
  BY <1>15, CommittedTwo
<1>17. PICK u \in Statement(b) : u = Durable(d1) /\ u.db = d1
  BY StatementIs
<1>18. PICK t : t = Upgrade(db)
  OBVIOUS
<1>19. t = (<<u>> \o s) \o m
  <2>1. [d4 EXCEPT !.old = None] = d5
    BY <1>8, <1>9, TablesOld
  <2>2. Tables(db.names, {}, db.names) = d4 /\ Tables(None, None, db.names) = d1
    BY <1>1, <1>2, <1>5, <1>8
  <2>3. t = (<<Durable(d1)>> \o CreateSchema(d1)) \o Committed(<<d4, [d4 EXCEPT !.old = None]>>)
    BY <1>18, <2>2 DEF Upgrade
  <2>4. QED
    BY <1>13, <1>15, <1>17, <2>1, <2>3
<1>20. PICK c : c = <<u>> \o s
  OBVIOUS
<1>21. c \in Seq(Statement(b)) /\ Len(c) = 3 /\ c[1] = u /\ c[2] = s[1] /\ c[3] = s[2]
  <2>1. PICK p : p = <<u>>
    OBVIOUS
  <2>2. p \in Seq(Statement(b)) /\ Len(p) = 1 /\ p[1] = u
    BY <2>1
  <2>3. c = p \o s
    BY <1>20, <2>1
  <2>4. /\ c \in Seq(Statement(b)) /\ Len(c) = Len(p) + Len(s)
        /\ \A i \in 1 .. Len(p) + Len(s) : c[i] = IF i <= Len(p) THEN p[i] ELSE s[i - Len(p)]
    BY <1>14, <2>2, <2>3, ConcatProperties
  <2>5. Len(c) = 3 /\ \A i \in 1 .. 3 : c[i] = IF i <= 1 THEN p[i] ELSE s[i - 1]
    BY <1>14, <2>2, <2>4
  <2>6. c[1] = p[1] /\ c[2] = s[1] /\ c[3] = s[2]
    BY <2>5
  <2>7. QED
    BY <2>2, <2>4, <2>5, <2>6
<1>22. /\ t \in Seq(Statement(b)) /\ Len(t) = 6 /\ t[1] = u /\ t[2] = s[1] /\ t[3] = s[2]
       /\ t[4] = m[1] /\ t[5] = m[2] /\ t[6] = m[3]
  BY <1>16, <1>19, <1>20, <1>21
<1>23. Outcome(t) = d5
  BY <1>16, <1>22 DEF Outcome
<1>24. GoodPlan(t, b)
  BY <1>10, <1>16, <1>22, <1>23 DEF GoodPlan
<1>25. ASSUME NEW i \in DOMAIN t, t[i].durable
       PROVE  t[i].db \in {d1, d2, d3, d5}
  <2>1. i \in 1 .. 6
    BY <1>22
  <2>2. i # 4 /\ i # 5
    BY <1>16, <1>22, <1>25
  <2>3. i = 1 \/ i = 2 \/ i = 3 \/ i = 6
    BY <2>1, <2>2
  <2>4. QED
    BY <1>14, <1>16, <1>17, <1>22, <2>3
<1>26. ASSUME NEW d \in {d1, d2, d3, d5}
       PROVE  Hidden(d, None) /\ Shown(d, None) = View(db)
  <2>1. View(Tables(R, None, None)) = View(db)
    BY <1>3
  <2>2. CASE d \in {d1, d2, d3}
    BY <1>3, <1>10, <1>11, <2>1, <2>2 DEF Hidden, Shown
  <2>3. CASE d = d5
    BY <1>10, <1>12, <2>3 DEF Hidden, Shown
  <2>4. QED
    BY <2>2, <2>3
<1>27. Hidden(db, None) /\ Shown(db, None) = View(db)
  BY DEF Hidden, Shown
<1>28. OpenPlan(t, db)
  BY <1>10, <1>23, <1>25, <1>26, <1>27 DEF OpenPlan
<1>29. QED
  BY <1>10, <1>18, <1>23, <1>24, <1>28

-----------------------------------------------------------------------------
(* The invariant of the specification. *)

Bound == Cardinality(Name) + calls
Method == [names : SUBSET Name, entry : Entry \cup {None}]
IsSql == provider = "sql"
IsUp == status = "up"
Opening == status = "opening"

TypesOK ==
    /\ calls \in 0 .. MaxCalls /\ dict \in [Name -> Entry \cup {None}]
    /\ file \in GoodDb(Bound) /\ method \in Method \cup {None}

(* A method runs in a process that is up and has found its tables; what is *)
(* still to be done belongs to the method, or else to the start.           *)
PhaseOK ==
    /\ method # None => IsUp /\ (IsSql => todo # <<>>)
    /\ Opening => todo # <<>>
    /\ IsUp /\ IsSql => file.names # None /\ file.meta # None

PlanOK ==
    todo # <<>> =>
        /\ IsSql /\ GoodPlan(todo, Bound)
        /\ method # None => MethodPlan(todo, file, method.names, method.entry)
        /\ method = None => Opening /\ OpenPlan(todo, file)

StorageIInv == TypesOK /\ PhaseOK /\ PlanOK

LEMMA BoundIs ==
    ASSUME calls \in 0 .. MaxCalls
    PROVE  Bound \in Nat /\ Bound <= MaxId /\ (calls < MaxCalls => Bound + 1 <= MaxId)
<1>1. Cardinality(Name) \in Nat /\ MaxCalls \in Nat
  BY StorageAssumption, FS_CardinalityType
<1>2. QED
  BY <1>1 DEF Bound, MaxId

LEMMA AfterInit == StorageInit => StorageIInv
<1> SUFFICES ASSUME StorageInit PROVE StorageIInv
  OBVIOUS
<1>1. file \in GoodDb(Bound)
  <2>1. file = Tables(None, None, None)
    BY DEF StorageInit
  <2>2. Tables(None, None, None) \in GoodDb(Bound)
    BY DbIs
  <2>3. QED
    BY <2>1, <2>2
<1>2. calls \in 0 .. MaxCalls
  BY StorageAssumption DEF StorageInit
<1>3. dict \in [Name -> Entry \cup {None}] /\ method = None
  BY DEF StorageInit, Empty
<1>4. todo = <<>> /\ ~Opening /\ ~IsUp
  BY DEF StorageInit, Opening, IsUp
<1>5. QED
  BY <1>1, <1>2, <1>3, <1>4 DEF StorageIInv, TypesOK, PhaseOK, PlanOK

(* A row for each name of a map.                                           *)
LEMMA NumberedRows ==
    ASSUME NEW map, \A n \in Name : map[n] # None => map[n].uri \in Uri
    PROVE  GoodRows(Numbered(map), Cardinality(Name)) /\ Numbered(map) \in SUBSET Row
<1> DEFINE S == {n \in Name : map[n] # None}
           c == Cardinality(S)
           number == CHOOSE f \in [S -> 1 .. c] : \A m, n \in S : f[m] = f[n] => m = n
<1>8. Numbered(map) = {[id |-> number[n], name |-> n, uri |-> map[n].uri] : n \in S}
  BY DEF Numbered
<1>1. S \in SUBSET Name /\ \A n \in S : map[n] # None
  OBVIOUS
<1>2. c = Cardinality(S)
  OBVIOUS
<1>4. number = CHOOSE f \in [S -> 1 .. c] : \A m, n \in S : f[m] = f[n] => m = n
  OBVIOUS
<1> HIDE DEF S, c, number
<1>3. c \in Nat /\ c <= Cardinality(Name) /\ Cardinality(Name) <= MaxId /\ Cardinality(Name) \in Nat
      /\ MaxId \in Nat
  <2>1. IsFiniteSet(S) /\ Cardinality(S) <= Cardinality(Name)
    BY <1>1, StorageAssumption, FS_Subset
  <2>2. c \in Nat /\ Cardinality(Name) \in Nat
    BY <1>2, <2>1, StorageAssumption, FS_CardinalityType
  <2>3. QED
    BY <1>2, <2>1, <2>2, StorageAssumption DEF MaxId
<1>5. \E f \in [S -> 1 .. c] : \A m, n \in S : f[m] = f[n] => m = n
  <2>0. IsFiniteSet(S)
    BY <1>1, StorageAssumption, FS_Subset
  <2>1. ExistsBijection(1 .. c, S)
    BY <1>2, <2>0, FS_CardinalityType
  <2>2. ExistsBijection(S, 1 .. c)
    BY <2>1, Fun_ExistsBijSymmetric
  <2>3. PICK f : f \in Bijection(S, 1 .. c)
    BY <2>2 DEF ExistsBijection
  <2>4. f \in [S -> 1 .. c] /\ \A m, n \in S : f[m] = f[n] => m = n
    BY <2>3, Fun_BijectionProperties
  <2>5. QED
    BY <2>4
<1>6. number \in [S -> 1 .. c] /\ \A m, n \in S : number[m] = number[n] => m = n
  BY <1>4, <1>5
<1>7. PICK N : N = Numbered(map)
  OBVIOUS
<1>sets. N = {[id |-> number[n], name |-> n, uri |-> map[n].uri] : n \in S}
  BY <1>7, <1>8
<1>9. \A r \in N : r.id \in 1 .. c /\ r.name \in S /\ r.id = number[r.name] /\ r.uri = map[r.name].uri
  BY <1>6, <1>sets
<1>10. \A r \in N : r \in Row /\ r.id <= Cardinality(Name)
  <2>1. ASSUME NEW n \in S PROVE [id |-> number[n], name |-> n, uri |-> map[n].uri] \in Row
    <3>1. number[n] \in 1 .. MaxId
      BY <1>3, <1>6
    <3>2. n \in Name /\ map[n].uri \in Uri
      BY <1>1
    <3>3. QED
      BY <3>1, <3>2 DEF Row
  <2>2. QED
    BY <1>3, <1>sets, <1>9, <2>1
<1>11. \A q, r \in N : q.id = r.id \/ q.name = r.name => q = r
  BY <1>6, <1>sets
<1>12. QED
  BY <1>7, <1>10, <1>11 DEF GoodRows

LEMMA RowsBounded ==
    ASSUME NEW S, NEW a \in Nat, NEW b \in Nat, a <= b, GoodRows(S, a)
    PROVE  GoodRows(S, b)
  BY DEF GoodRows, Row, MaxId

(* What an SQL file may hold at the start.                                 *)
LEMMA FileChosen ==
    ASSUME NEW map \in [Name -> {[uri |-> u, meta |-> {}] : u \in Uri} \cup {None}],
           NEW b \in Nat, Cardinality(Name) <= b
    PROVE  /\ Tables(None, None, None) \in GoodDb(b)
           /\ Tables(Numbered(map), None, None) \in GoodDb(b)
           /\ Tables(Numbered(map), {}, None) \in GoodDb(b)
           /\ map \in [Name -> Entry \cup {None}]
<1>1. \A n \in Name : map[n] # None => map[n].uri \in Uri /\ map[n] \in Entry
  BY DEF Entry
<1>2. PICK N : N = Numbered(map)
  OBVIOUS
<1>3. N \in SUBSET Row /\ GoodRows(N, b)
  <2>1. Cardinality(Name) \in Nat
    BY StorageAssumption, FS_CardinalityType
  <2>2. GoodRows(N, Cardinality(Name)) /\ N \in SUBSET Row
    BY <1>1, <1>2, NumberedRows
  <2>3. QED
    BY <2>1, <2>2, RowsBounded
<1>4. PICK z : z = {}
  OBVIOUS
<1>5. z \in SUBSET Tagging /\ GoodTags(z, N) /\ N # None
  BY <1>3, <1>4, RowsAreNot DEF GoodTags
<1>6. /\ N \in (SUBSET Row) \cup {None} /\ z \in (SUBSET Tagging) \cup {None}
      /\ None \in (SUBSET Row) \cup {None} /\ None \in (SUBSET Tagging) \cup {None}
  BY <1>3, <1>5, MayBeNone
<1>7. Tables(None, None, None) \in GoodDb(b)
  BY <1>6, DbIs
<1>8. Tables(N, None, None) \in GoodDb(b)
  BY <1>3, <1>5, <1>6, DbIs
<1>9. Tables(N, z, None) \in GoodDb(b)
  BY <1>3, <1>5, <1>6, DbIs
<1>10. map \in [Name -> Entry \cup {None}]
  BY <1>1
<1>11. QED
  BY <1>2, <1>4, <1>7, <1>8, <1>9, <1>10

LEMMA ChooseKeeps == StorageIInv /\ Choose => StorageIInv'
<1> SUFFICES ASSUME StorageIInv, Choose PROVE StorageIInv'
  OBVIOUS
<1>1. calls' = calls /\ todo' = todo /\ method' = method /\ ~Opening' /\ ~IsUp' /\ ~Opening /\ ~IsUp
  BY DEF Choose, Opening, IsUp
<1>2. calls \in 0 .. MaxCalls /\ file \in GoodDb(Bound) /\ method = None /\ todo = <<>>
  BY <1>1 DEF StorageIInv, TypesOK, PhaseOK, PlanOK
<1>3. Bound' = Bound /\ Bound \in Nat /\ Cardinality(Name) <= Bound
  <2>1. Cardinality(Name) \in Nat
    BY StorageAssumption, FS_CardinalityType
  <2>2. QED
    BY <1>1, <1>2, <2>1, BoundIs DEF Bound
<1>4. PICK map \in [Name -> {[uri |-> u, meta |-> {}] : u \in Uri} \cup {None}] : map = saved'
  BY DEF Choose
<1>5. /\ Tables(None, None, None) \in GoodDb(Bound)
      /\ Tables(Numbered(map), None, None) \in GoodDb(Bound)
      /\ Tables(Numbered(map), {}, None) \in GoodDb(Bound)
      /\ map \in [Name -> Entry \cup {None}]
  BY <1>3, FileChosen
<1>6. dict' \in [Name -> Entry \cup {None}]
  <2>1. dict' = map \/ dict' = Empty
    BY <1>4 DEF Choose
  <2>2. Empty \in [Name -> Entry \cup {None}]
    BY DEF Empty
  <2>3. QED
    BY <1>5, <2>1, <2>2
<1>7. file' \in GoodDb(Bound)
  <2>1. \/ file' = file \/ file' = Tables(None, None, None)
        \/ file' = Tables(Numbered(map), None, None) \/ file' = Tables(Numbered(map), {}, None)
    BY <1>4, StorageAssumption DEF Choose
  <2>2. QED
    BY <1>2, <1>5, <2>1
<1>8. QED
  BY <1>1, <1>2, <1>3, <1>6, <1>7 DEF StorageIInv, TypesOK, PhaseOK, PlanOK

LEMMA OpenKeeps == StorageIInv /\ Open => StorageIInv'
<1> SUFFICES ASSUME StorageIInv, Open PROVE StorageIInv'
  OBVIOUS
<1>1. /\ calls' = calls /\ file' = file /\ dict' = dict /\ method' = method /\ (IsSql' <=> IsSql)
      /\ ~Opening /\ ~IsUp
  BY DEF Open, Opening, IsUp, IsSql
<1>2. TypesOK /\ method = None /\ todo = <<>> /\ file \in GoodDb(Bound)
  BY <1>1 DEF StorageIInv, TypesOK, PhaseOK, PlanOK
<1>3. TypesOK' /\ Bound' = Bound
  BY <1>1, <1>2 DEF TypesOK, Bound
<1>4. \/ todo' = todo /\ IsUp' /\ ~Opening' /\ (IsSql => file.names # None /\ file.meta # None)
      \/ todo' = todo /\ ~IsUp' /\ ~Opening'
      \/ todo' = CreateSchema(file) /\ IsSql /\ file.names = None /\ ~IsUp' /\ Opening'
      \/ todo' = Upgrade(file) /\ IsSql /\ file.names # None /\ file.meta = None
         /\ file.old = None /\ ~IsUp' /\ Opening'
  BY DEF Open, IsSql, IsUp, Opening
<1>5. CASE todo' = todo /\ ~Opening' /\ (IsUp' /\ IsSql => file.names # None /\ file.meta # None)
  BY <1>1, <1>2, <1>3, <1>5 DEF StorageIInv, PhaseOK, PlanOK
<1>6. CASE IsSql /\ ~IsUp' /\ Opening' /\ GoodPlan(todo', Bound) /\ OpenPlan(todo', file)
  <2>1. todo' # <<>>
    BY <1>6 DEF GoodPlan
  <2>2. PhaseOK'
    BY <1>1, <1>2, <1>6, <2>1 DEF PhaseOK
  <2>3. PlanOK'
    BY <1>1, <1>2, <1>3, <1>6 DEF PlanOK
  <2>4. QED
    BY <1>3, <2>2, <2>3 DEF StorageIInv
<1>7. QED
  <2>1. file.names = None => GoodPlan(CreateSchema(file), Bound) /\ OpenPlan(CreateSchema(file), file)
    BY <1>2, SchemaPlanned
  <2>2. file.names # None /\ file.meta = None /\ file.old = None
        => GoodPlan(Upgrade(file), Bound) /\ OpenPlan(Upgrade(file), file)
    BY <1>2, UpgradePlanned
  <2>3. QED
    BY <1>4, <1>5, <1>6, <2>1, <2>2

LEMMA CallKeeps ==
    ASSUME StorageIInv, NEW S \in SUBSET Name, NEW e \in Entry \cup {None}, NEW statements,
           Call(S, e, statements), IsSql => Does(statements, file, S, e, Bound + 1)
    PROVE  StorageIInv'
<1>1. /\ IsUp /\ IsUp' /\ method = None /\ (IsSql' <=> IsSql) /\ ~Opening'
      /\ file' = file /\ dict' = dict
  BY DEF Call, IsUp, IsSql, Opening
<1>2. calls \in 0 .. MaxCalls /\ calls' \in 0 .. MaxCalls /\ calls' = calls + 1
  BY StorageAssumption DEF Call, StorageIInv, TypesOK
<1>3. Bound \in Nat /\ Bound' = Bound + 1
  <2>1. Cardinality(Name) \in Nat
    BY StorageAssumption, FS_CardinalityType
  <2>2. QED
    BY <1>2, <2>1 DEF Bound
<1>4. method' \in Method /\ method'.names = S /\ method'.entry = e /\ method' # None
  BY StorageAssumption DEF Call, Method
<1>5. TypesOK'
  <2>1. file \in GoodDb(Bound + 1)
    BY <1>3, GoodGrows DEF StorageIInv, TypesOK
  <2>2. QED
    BY <1>1, <1>2, <1>3, <1>4, <2>1 DEF StorageIInv, TypesOK
<1>6. CASE ~IsSql
  <2>1. todo' = <<>>
    BY <1>6 DEF Call, IsSql
  <2>2. QED
    BY <1>1, <1>5, <1>6, <2>1 DEF StorageIInv, PhaseOK, PlanOK
<1>7. CASE IsSql
  <2>1. todo' = Committed(statements)
    BY <1>7 DEF Call, IsSql
  <2>2. GoodPlan(todo', Bound + 1) /\ MethodPlan(todo', file, S, e)
    BY <1>7, <2>1, MethodPlanned
  <2>3. todo' # <<>>
    BY <2>2 DEF GoodPlan
  <2>4. PhaseOK'
    BY <1>1, <1>7, <2>3 DEF StorageIInv, PhaseOK
  <2>5. PlanOK'
    BY <1>1, <1>3, <1>4, <1>7, <2>2 DEF PlanOK
  <2>6. QED
    BY <1>5, <2>4, <2>5 DEF StorageIInv
<1>8. QED
  BY <1>6, <1>7

(* What the calls of each method do.                                       *)
CallsOf(S, e, statements) ==
    S \in SUBSET Name /\ e \in Entry \cup {None} /\ Call(S, e, statements)
    /\ (IsSql => Does(statements, file, S, e, Bound + 1))

LEMMA MethodsCalled ==
    ASSUME StorageIInv,
           \/ ClearAll
           \/ \E n \in Name : Delete(n) \/ \E e \in Entry : Put(n, e)
           \/ \E S \in SUBSET Name : RemoveItems(S)
    PROVE  \E S, e, statements : CallsOf(S, e, statements)
<1>1. Bound \in Nat /\ (calls < MaxCalls => Bound + 1 <= MaxId) /\ file \in GoodDb(Bound)
  BY BoundIs DEF StorageIInv, TypesOK
<1>2. IsUp /\ IsSql => file.names # None /\ file.meta # None
  BY DEF StorageIInv, PhaseOK
<1>3. ASSUME NEW S \in SUBSET Name, Call(S, None, DeleteRows(file, S))
      PROVE  CallsOf(S, None, DeleteRows(file, S))
  <2>1. IsSql => file.names # None /\ file.meta # None
    BY <1>2, <1>3 DEF Call, IsUp
  <2>2. IsSql => Does(DeleteRows(file, S), file, S, None, Bound + 1)
    BY <1>1, <2>1, RowsDeleted
  <2>3. QED
    BY <1>3, <2>2 DEF CallsOf
<1>4. ASSUME NEW n \in Name, NEW e \in Entry, Put(n, e)
      PROVE  CallsOf({n}, e, SetItem(file, n, e))
  <2>1. (IsSql => file.names # None /\ file.meta # None) /\ calls < MaxCalls
    BY <1>2, <1>4 DEF Put, Call, IsUp
  <2>2. IsSql => Does(SetItem(file, n, e), file, {n}, e, Bound + 1)
    BY <1>1, <2>1, ItemSet
  <2>3. QED
    BY <1>4, <2>2 DEF CallsOf, Put
<1>5. CASE ClearAll
  <2>1. Call(Name, None, DeleteRows(file, Name))
    BY <1>5 DEF ClearAll
  <2>2. QED
    BY <1>3, <2>1
<1>6. CASE \E n \in Name : Delete(n)
  <2>1. PICK n \in Name : Call({n}, None, DeleteRows(file, {n}))
    BY <1>6 DEF Delete
  <2>2. CallsOf({n}, None, DeleteRows(file, {n}))
    BY <1>3, <2>1
  <2>3. QED
    BY <2>2
<1>7. CASE \E n \in Name, e \in Entry : Put(n, e)
  BY <1>4, <1>7
<1>8. CASE \E S \in SUBSET Name : RemoveItems(S)
  <2>1. PICK S \in SUBSET Name : Call(S, None, DeleteRows(file, S))
    BY <1>8 DEF RemoveItems
  <2>2. QED
    BY <1>3, <2>1
<1>9. QED
  BY <1>5, <1>6, <1>7, <1>8

LEMMA UpdateKeeps == StorageIInv /\ Update => StorageIInv'
<1> SUFFICES ASSUME StorageIInv, Update PROVE StorageIInv'
  OBVIOUS
<1>1. /\ method # None /\ ~IsSql /\ ~IsSql' /\ method' = None /\ calls' = calls /\ file' = file
      /\ todo' = todo /\ (Opening' <=> Opening)
  BY DEF Update, IsSql, Opening
<1>2. TypesOK /\ method \in Method /\ todo = <<>> /\ ~Opening
  BY <1>1 DEF StorageIInv, TypesOK, PhaseOK, PlanOK
<1>3. dict' \in [Name -> Entry \cup {None}]
  <2>1. PICK x : x = IF provider = "dbm" /\ method.entry # None
                     THEN [method.entry EXCEPT !.meta = {}] ELSE method.entry
    OBVIOUS
  <2>2. method.entry \in Entry \cup {None}
    BY <1>2 DEF Method
  <2>3. x \in Entry \cup {None}
    BY <2>1, <2>2 DEF Entry
  <2>4. dict' = [n \in Name |-> IF n \in method.names THEN x ELSE dict[n]]
    BY <2>1 DEF Update
  <2>5. dict \in [Name -> Entry \cup {None}]
    BY <1>2 DEF TypesOK
  <2>6. QED
    BY <2>3, <2>4, <2>5
<1>4. Bound' = Bound
  BY <1>1 DEF Bound
<1>5. QED
  BY <1>1, <1>2, <1>3, <1>4 DEF StorageIInv, TypesOK, PhaseOK, PlanOK

LEMMA CrashKeeps == StorageIInv /\ Crash => StorageIInv'
<1> SUFFICES ASSUME StorageIInv, Crash PROVE StorageIInv'
  OBVIOUS
<1>1. /\ ~IsUp' /\ ~Opening' /\ method' = None /\ todo' = <<>> /\ file' = file /\ calls' = calls
  BY DEF Crash, IsUp, Opening
<1>2. dict' \in [Name -> Entry \cup {None}]
  BY DEF Crash, StorageIInv, TypesOK, Empty
<1>3. Bound' = Bound
  BY <1>1 DEF Bound
<1>4. QED
  BY <1>1, <1>2, <1>3 DEF StorageIInv, TypesOK, PhaseOK, PlanOK

LEMMA HeadIs ==
    ASSUME NEW b, NEW t, GoodPlan(t, b)
    PROVE  Head(t) = t[1] /\ 1 \in DOMAIN t /\ t[1].db \in GoodDb(b) /\ t[1].durable \in BOOLEAN
<1>1. t \in Seq(Statement(b)) /\ Len(t) \in Nat /\ Len(t) > 0
  BY DEF GoodPlan
<1>2. t # <<>> /\ 1 \in DOMAIN t /\ t[1] \in Statement(b)
  BY <1>1
<1>3. QED
  BY <1>1, <1>2 DEF Statement

(* A statement before the last one.                                        *)
LEMMA ExecuteGoesOn ==
    ASSUME StorageIInv, Execute, todo' # <<>>
    PROVE  /\ IsSql /\ GoodPlan(todo', Bound) /\ Outcome(todo') = Outcome(todo)
           /\ method' = method /\ file' \in GoodDb(Bound)
           /\ method # None => file' = file /\ MethodPlan(todo', file, method.names, method.entry)
           /\ method = None => Opening /\ OpenPlan(todo', file')
                /\ Shown(file', Outcome(todo).old) = Shown(file, Outcome(todo).old)
<1>1. PICK t : t = todo
  OBVIOUS
<1>2. PICK u : u = todo'
  OBVIOUS
<1>3. /\ IsSql /\ GoodPlan(t, Bound) /\ file \in GoodDb(Bound)
      /\ method # None => MethodPlan(t, file, method.names, method.entry)
      /\ method = None => Opening /\ OpenPlan(t, file)
  BY <1>1 DEF StorageIInv, PlanOK, TypesOK, Execute
<1>4. /\ u = Tail(t) /\ Tail(t) # <<>> /\ method' = method
      /\ file' = IF Head(t).durable THEN Head(t).db ELSE file
  BY <1>1, <1>2 DEF Execute
<1>5. /\ GoodPlan(u, Bound) /\ Outcome(u) = Outcome(t) /\ Len(t) > 1
      /\ Len(u) = Len(t) - 1 /\ DOMAIN u = 1 .. Len(t) - 1
      /\ \A i \in DOMAIN u : i + 1 \in DOMAIN t /\ u[i] = t[i + 1]
  BY <1>3, <1>4, PlanGoesOn
<1>6. /\ Head(t) = t[1] /\ 1 \in DOMAIN t /\ t[1].db \in GoodDb(Bound) /\ t[1].durable \in BOOLEAN
  BY <1>3, HeadIs
<1>7. Len(t) \in Nat
  BY <1>3 DEF GoodPlan
<1>8. file' \in GoodDb(Bound)
  BY <1>3, <1>4, <1>6
<1>9. ASSUME method # None
      PROVE  file' = file /\ MethodPlan(u, file, method.names, method.entry)
  <2>1. MethodPlan(t, file, method.names, method.entry)
    BY <1>3, <1>9
  <2>2. ~t[1].durable
    BY <1>5, <1>6, <2>1 DEF MethodPlan
  <2>3. file' = file
    BY <1>4, <1>6, <2>2
  <2>4. \A i \in DOMAIN u : u[i].durable => i = Len(u)
    BY <1>5, <1>7, <2>1 DEF MethodPlan
  <2>5. QED
    BY <1>5, <2>1, <2>3, <2>4 DEF MethodPlan
<1>10. ASSUME method = None
       PROVE  Opening /\ OpenPlan(u, file') /\ Shown(file', Outcome(t).old) = Shown(file, Outcome(t).old)
  <2>1. Opening /\ OpenPlan(t, file)
    BY <1>3, <1>10
  <2>2. PICK old : old = Outcome(t).old
    OBVIOUS
  <2>3. Hidden(file', old) /\ Shown(file', old) = Shown(file, old)
    <3>1. CASE t[1].durable
      BY <1>4, <1>6, <2>1, <2>2, <3>1 DEF OpenPlan
    <3>2. CASE ~t[1].durable
      BY <1>4, <1>6, <2>1, <2>2, <3>2 DEF OpenPlan
    <3>3. QED
      BY <3>1, <3>2
  <2>4. \A i \in DOMAIN u : u[i].durable =>
           Hidden(u[i].db, old) /\ Shown(u[i].db, old) = Shown(file, old)
    BY <1>5, <2>1, <2>2 DEF OpenPlan
  <2>5. Outcome(u).old = old
    BY <1>5, <2>2
  <2>6. OpenPlan(u, file')
    BY <2>3, <2>4, <2>5 DEF OpenPlan
  <2>7. QED
    BY <2>1, <2>2, <2>3, <2>6
<1>11. QED
  BY <1>1, <1>2, <1>3, <1>4, <1>5, <1>8, <1>9, <1>10

(* The last statement.                                                     *)
LEMMA ExecuteEnds ==
    ASSUME StorageIInv, Execute, todo' = <<>>
    PROVE  /\ IsSql /\ file' = Outcome(todo) /\ file' \in GoodDb(Bound)
           /\ file'.names # None /\ file'.meta # None /\ method' = None
           /\ method # None => file'.old = file.old
                /\ View(file') = Changed(View(file), method.names, method.entry)
           /\ method = None => View(file') = Shown(file, Outcome(todo).old)
<1>1. PICK t : t = todo
  OBVIOUS
<1>2. /\ IsSql /\ GoodPlan(t, Bound)
      /\ method # None => MethodPlan(t, file, method.names, method.entry)
      /\ method = None => OpenPlan(t, file)
  BY <1>1 DEF StorageIInv, PlanOK, Execute
<1>3. /\ Tail(t) = <<>> /\ method' = None
      /\ file' = IF Head(t).durable THEN Head(t).db ELSE file
  BY <1>1 DEF Execute
<1>4. Head(t) = t[Len(t)] /\ Len(t) = 1
  BY <1>2, <1>3, PlanEnds
<1>5. t[Len(t)].durable /\ Outcome(t).names # None /\ Outcome(t).meta # None
  BY <1>2 DEF GoodPlan
<1>6. file' = Outcome(t)
  BY <1>3, <1>4, <1>5 DEF Outcome
<1>7. 1 \in DOMAIN t /\ t[1].db \in GoodDb(Bound) /\ t[1].db = Outcome(t) /\ t[1].durable
  BY <1>2, <1>4, <1>5, HeadIs DEF Outcome
<1>8. method # None => file'.old = file.old
        /\ View(file') = Changed(View(file), method.names, method.entry)
  BY <1>2, <1>6 DEF MethodPlan
<1>9. method = None => View(file') = Shown(file, Outcome(t).old)
  <2>1. ASSUME method = None PROVE View(file') = Shown(file, Outcome(t).old)
    <3>1. Shown(t[1].db, Outcome(t).old) = Shown(file, Outcome(t).old)
      BY <1>2, <1>7, <2>1 DEF OpenPlan
    <3>2. Shown(t[1].db, Outcome(t).old) = View(t[1].db)
      BY <1>7 DEF Shown
    <3>3. QED
      BY <1>6, <1>7, <3>1, <3>2
  <2>2. QED
    BY <2>1
<1>10. QED
  BY <1>1, <1>2, <1>3, <1>5, <1>6, <1>7, <1>8, <1>9

LEMMA ExecuteKeeps == StorageIInv /\ Execute => StorageIInv'
<1> SUFFICES ASSUME StorageIInv, Execute PROVE StorageIInv'
  OBVIOUS
<1>1. /\ calls' = calls /\ dict' = dict /\ (IsSql' <=> IsSql) /\ todo # <<>>
      /\ todo' = <<>> => IsUp' /\ ~Opening'
      /\ todo' # <<>> => method' = method /\ (IsUp' <=> IsUp) /\ (Opening' <=> Opening)
  BY DEF Execute, IsSql, IsUp, Opening
<1>2. Bound' = Bound
  BY <1>1 DEF Bound
<1>3. CASE todo' = <<>>
  <2>1. /\ file' \in GoodDb(Bound) /\ file'.names # None /\ file'.meta # None /\ method' = None
    BY <1>3, ExecuteEnds
  <2>2. QED
    BY <1>1, <1>2, <1>3, <2>1 DEF StorageIInv, TypesOK, PhaseOK, PlanOK
<1>4. CASE todo' # <<>>
  <2>1. /\ IsSql /\ GoodPlan(todo', Bound)
        /\ method' = method /\ file' \in GoodDb(Bound)
        /\ method # None => file' = file /\ MethodPlan(todo', file, method.names, method.entry)
        /\ method = None => Opening /\ OpenPlan(todo', file')
    BY <1>4, ExecuteGoesOn
  <2>2. TypesOK'
    BY <1>1, <1>2, <2>1 DEF StorageIInv, TypesOK
  <2>3. PlanOK'
    BY <1>1, <1>2, <1>4, <2>1 DEF PlanOK
  <2>4. PhaseOK'
    <3>1. method = None => ~IsUp
      BY <2>1 DEF IsUp, Opening
    <3>2. QED
      BY <1>1, <1>4, <2>1, <3>1 DEF StorageIInv, PhaseOK
  <2>5. QED
    BY <2>2, <2>3, <2>4 DEF StorageIInv
<1>5. QED
  BY <1>3, <1>4

(* Whatever is interrupted, the file's tables fit together, and what is    *)
(* still to be done belongs to the method or to the start.                 *)
THEOREM StorageStays == StorageSpec => []StorageIInv
<1>1. StorageIInv /\ [StorageNext]_storageVars => StorageIInv'
  <2> SUFFICES ASSUME StorageIInv, [StorageNext]_storageVars PROVE StorageIInv'
    OBVIOUS
  <2>1. CASE Choose
    BY <2>1, ChooseKeeps
  <2>2. CASE Open
    BY <2>2, OpenKeeps
  <2>3. CASE Execute
    BY <2>3, ExecuteKeeps
  <2>4. CASE Update
    BY <2>4, UpdateKeeps
  <2>5. CASE Crash
    BY <2>5, CrashKeeps
  <2>6. CASE \/ ClearAll
             \/ \E n \in Name : Delete(n) \/ \E e \in Entry : Put(n, e)
             \/ \E S \in SUBSET Name : RemoveItems(S)
    <3>1. PICK S, e, statements : CallsOf(S, e, statements)
      BY <2>6, MethodsCalled
    <3>2. QED
      BY <3>1, CallKeeps DEF CallsOf
  <2>7. CASE UNCHANGED storageVars
    BY <2>7 DEF storageVars, StorageIInv, TypesOK, PhaseOK, PlanOK, Bound, IsSql, IsUp, Opening
  <2>8. QED
    BY <2>1, <2>2, <2>3, <2>4, <2>5, <2>6, <2>7 DEF StorageNext
<1>2. QED
  BY <1>1, AfterInit, PTL DEF StorageSpec

-----------------------------------------------------------------------------
(* What is read. *)

LEMMA NamesCounted ==
    ASSUME NEW b, NEW S, GoodRows(S, b)
    PROVE  Cardinality(S) = Cardinality({r.name : r \in S})
<1>1. PICK T \in SUBSET Name : T = {r.name : r \in S}
  BY DEF GoodRows, Row
<1>2. PICK f : f = [r \in S |-> r.name]
  OBVIOUS
<1>3. f \in [S -> T] /\ (\A q, r \in S : f[q] = f[r] => q = r) /\ \A n \in T : \E r \in S : f[r] = n
  BY <1>1, <1>2 DEF GoodRows
<1>4. f \in Bijection(S, T)
  BY <1>3, Fun_IsBij
<1>5. ExistsBijection(S, T)
  BY <1>4 DEF ExistsBijection
<1>6. ExistsBijection(T, S)
  BY <1>5, Fun_ExistsBijSymmetric
<1>7. IsFiniteSet(T)
  BY StorageAssumption, FS_Subset
<1>8. QED
  BY <1>1, <1>6, <1>7, FS_Bijection

(* The rows of the join that have one of the tags are as many as the tags, *)
(* if and only if the name has all of them.                                *)
LEMMA TagsCounted ==
    ASSUME NEW M \in SUBSET Tagging, NEW id, NEW T \in SUBSET Tag
    PROVE  Cardinality({t \in M : t[1] = id /\ t[2] \in T}) = Cardinality(T)
           <=> \A t \in T : <<id, t>> \in M
<1>1. PICK H : H = {t \in M : t[1] = id /\ t[2] \in T}
  OBVIOUS
<1>2. PICK U \in SUBSET T : U = {t \in T : <<id, t>> \in M}
  OBVIOUS
<1>3. PICK f : f = [h \in H |-> h[2]]
  OBVIOUS
<1>4. \A h \in H : h = <<id, h[2]>> /\ h[2] \in U
  <2>1. ASSUME NEW h \in H PROVE h = <<id, h[2]>> /\ h[2] \in U
    <3>1. h \in (1 .. MaxId) \X Tag /\ h[1] = id /\ h[2] \in T /\ h \in M
      BY <1>1 DEF Tagging
    <3>2. h = <<h[1], h[2]>>
      BY <3>1
    <3>3. QED
      BY <1>2, <3>1, <3>2
  <2>2. QED
    BY <2>1
<1>5. \A n \in U : <<id, n>> \in H /\ f[<<id, n>>] = n
  <2>1. ASSUME NEW n \in U PROVE <<id, n>> \in H /\ f[<<id, n>>] = n
    <3>1. PICK h : h = <<id, n>>
      OBVIOUS
    <3>2. h[1] = id /\ h[2] = n
      BY <3>1
    <3>3. h \in M /\ n \in T
      BY <1>2, <3>1
    <3>4. h \in H
      BY <1>1, <3>2, <3>3
    <3>5. QED
      BY <1>3, <3>1, <3>2, <3>4
  <2>2. QED
    BY <2>1
<1>6. f \in [H -> U]
  BY <1>3, <1>4
<1>7. \A g, h \in H : f[g] = f[h] => g = h
  <2>1. ASSUME NEW g \in H, NEW h \in H, f[g] = f[h] PROVE g = h
    <3>1. g[2] = h[2]
      BY <1>3, <2>1
    <3>2. QED
      BY <1>4, <3>1
  <2>2. QED
    BY <2>1
<1>8. \A n \in U : \E h \in H : f[h] = n
  BY <1>5
<1>9. f \in Bijection(H, U)
  BY <1>6, <1>7, <1>8, Fun_IsBij
<1>10. ExistsBijection(U, H)
  BY <1>9, Fun_ExistsBijSymmetric DEF ExistsBijection
<1>11. IsFiniteSet(T) /\ IsFiniteSet(U)
  BY StorageAssumption, FS_Subset
<1>12. Cardinality(H) = Cardinality(U)
  BY <1>10, <1>11, FS_Bijection
<1>13. Cardinality(U) = Cardinality(T) <=> U = T
  BY <1>11, FS_Subset
<1>14. U = T <=> \A t \in T : <<id, t>> \in M
  BY <1>2
<1>15. QED
  BY <1>1, <1>12, <1>13, <1>14

LEMMA StorageTyped == StorageIInv => StorageTypeOK
<1> SUFFICES ASSUME StorageIInv PROVE StorageTypeOK
  OBVIOUS
<1>1. PICK db : db = file
  OBVIOUS
<1>2. db \in GoodDb(Bound) /\ dict \in [Name -> Entry \cup {None}]
  BY <1>1 DEF StorageIInv, TypesOK
<1>3. /\ db.names # None => GoodRows(db.names, Bound)
      /\ db.meta # None => db.names # None /\ GoodTags(db.meta, db.names)
  BY <1>2, DbFields
<1>4. \A q, r \in Rows(db) : q.id = r.id \/ q.name = r.name => q = r
  BY <1>3 DEF Rows, GoodRows
<1>5. ASSUME db.meta # None, NEW t \in db.meta
      PROVE  t[2] \in Tag /\ \E r \in Rows(db) : r.id = t[1]
  <2>1. t \in (1 .. MaxId) \X Tag
    BY <1>3, <1>5 DEF GoodTags, Tagging
  <2>2. \E r \in db.names : r.id = t[1]
    BY <1>3, <1>5 DEF GoodTags
  <2>3. Rows(db) = db.names
    BY <1>3, <1>5 DEF Rows
  <2>4. QED
    BY <2>1, <2>2, <2>3
<1>6. QED
  BY <1>1, <1>2, <1>4, <1>5 DEF StorageTypeOK

LEMMA EntriesAtRest ==
    ASSUME StorageIInv, AtRest
    PROVE  /\ IsSql => Entries = View(file) /\ file.names # None /\ file.meta # None
           /\ ~IsSql => Entries = dict
<1>1. IsUp /\ ~Opening /\ method = None
  BY DEF AtRest, IsUp, Opening
<1>2. todo = <<>>
  BY <1>1 DEF StorageIInv, PlanOK
<1>3. IsSql => file.names # None /\ file.meta # None
  BY <1>1 DEF StorageIInv, PhaseOK
<1>4. QED
  BY <1>2, <1>3 DEF Entries, Upgrades, IsSql

(* The rows as a map. *)
LEMMA RowsMapped ==
    ASSUME NEW b, NEW db \in GoodDb(b), db.names # None, db.meta # None
    PROVE  /\ GoodRows(db.names, b) /\ db.meta \in SUBSET Tagging
           /\ {r.name : r \in db.names} = {n \in Name : View(db)[n] # None}
           /\ \A r \in db.names : r.name \in Name /\ View(db)[r.name] = [uri |-> r.uri, meta |-> TagsOf(db, r.id)]
           /\ \A r \in db.names : View(db)[r.name].meta = {t \in Tag : <<r.id, t>> \in db.meta}
<1>1. Rows(db) = db.names /\ GoodRows(db.names, b) /\ db.meta \in SUBSET Tagging
  BY DbFields DEF Rows, GoodTags
<1>2. /\ View(db) \in [Name -> Entry \cup {None}]
      /\ \A r \in db.names : View(db)[r.name] = [uri |-> r.uri, meta |-> TagsOf(db, r.id)]
      /\ \A n \in Name : (\A r \in db.names : r.name # n) => View(db)[n] = None
  BY <1>1, ViewAt
<1>3. \A r \in db.names : r.name \in Name /\ r.uri \in Uri
  BY <1>1 DEF GoodRows, Row
<1>4. ASSUME NEW r \in db.names
      PROVE  View(db)[r.name] # None /\ View(db)[r.name].meta = {t \in Tag : <<r.id, t>> \in db.meta}
  <2>1. TagsOf(db, r.id) = {t \in Tag : <<r.id, t>> \in db.meta}
    BY DEF TagsOf
  <2>2. PICK tags \in SUBSET Tag : tags = TagsOf(db, r.id)
    BY <2>1
  <2>3. PICK e : e = [uri |-> r.uri, meta |-> tags]
    OBVIOUS
  <2>4. e \in Entry /\ e.meta = tags
    BY <1>3, <2>3 DEF Entry
  <2>5. View(db)[r.name] = e
    BY <1>2, <2>2, <2>3
  <2>6. View(db)[r.name] # None
    BY <2>4, <2>5, NoneIsNoEntry
  <2>7. QED
    BY <2>1, <2>2, <2>4, <2>5, <2>6
<1>5. {r.name : r \in db.names} = {n \in Name : View(db)[n] # None}
  BY <1>2, <1>3, <1>4
<1>6. QED
  BY <1>1, <1>2, <1>3, <1>4, <1>5

(* The join and its count give the names that have all the tags. *)
LEMMA SearchesAgree ==
    ASSUME NEW b, NEW db \in GoodDb(b), db = file, db.names # None, db.meta # None,
           NEW T \in SUBSET Tag
    PROVE  /\ SqlSearchAll(T, Cardinality(T)) = {n \in SqlKeys : T \subseteq View(file)[n].meta}
           /\ SqlSearchAny(T) = {n \in SqlKeys : T \cap View(file)[n].meta # {}}
<1>1. PICK N : N = db.names
  OBVIOUS
<1>2. PICK M \in SUBSET Tagging : M = db.meta
  BY RowsMapped
<1>3. PICK f : f = View(file)
  OBVIOUS
<1>4. /\ \A r \in N : f[r.name].meta = {t \in Tag : <<r.id, t>> \in M}
      /\ file.names = N /\ file.meta = M
  BY <1>1, <1>2, <1>3, RowsMapped
<1>5. ASSUME NEW r \in N
      PROVE  /\ Cardinality({t \in M : t[1] = r.id /\ t[2] \in T}) = Cardinality(T)
                <=> T \subseteq f[r.name].meta
             /\ (\E t \in M : t[1] = r.id /\ t[2] \in T) <=> T \cap f[r.name].meta # {}
  <2>1. PICK id : id = r.id
    OBVIOUS
  <2>2. PICK meta : meta = f[r.name].meta
    OBVIOUS
  <2>3. meta = {t \in Tag : <<id, t>> \in M}
    BY <1>4, <2>1, <2>2
  <2>4. Cardinality({t \in M : t[1] = id /\ t[2] \in T}) = Cardinality(T) <=> T \subseteq meta
    <3>1. Cardinality({t \in M : t[1] = id /\ t[2] \in T}) = Cardinality(T)
          <=> \A t \in T : <<id, t>> \in M
      BY TagsCounted
    <3>2. T \subseteq meta <=> \A t \in T : <<id, t>> \in M
      BY <2>3
    <3>3. QED
      BY <3>1, <3>2
  <2>5. (\E t \in M : t[1] = id /\ t[2] \in T) <=> T \cap meta # {}
    <3>1. ASSUME NEW t \in M, t[1] = id, t[2] \in T PROVE t[2] \in meta
      <4>1. t = <<t[1], t[2]>>
        BY DEF Tagging
      <4>2. <<id, t[2]>> \in M /\ t[2] \in Tag
        BY <3>1, <4>1
      <4>3. QED
        BY <2>3, <4>2
    <3>2. ASSUME NEW n \in T \cap meta PROVE \E t \in M : t[1] = id /\ t[2] \in T
      <4>1. PICK t : t = <<id, n>>
        OBVIOUS
      <4>2. t[1] = id /\ t[2] = n /\ t \in M
        BY <2>3, <4>1
      <4>3. QED
        BY <4>2
    <3>3. QED
      BY <3>1, <3>2
  <2>6. QED
    BY <2>1, <2>2, <2>4, <2>5
<1>6. SqlKeys = {r.name : r \in N}
  BY <1>4 DEF SqlKeys
<1>7. SqlSearchAll(T, Cardinality(T)) = {r.name : r \in {x \in N : T \subseteq f[x.name].meta}}
  BY <1>4, <1>5 DEF SqlSearchAll
<1>8. SqlSearchAny(T) = {r.name : r \in {x \in N : T \cap f[x.name].meta # {}}}
  BY <1>4, <1>5 DEF SqlSearchAny
<1>9. SqlSearchAll(T, Cardinality(T)) = {n \in SqlKeys : T \subseteq f[n].meta}
  BY <1>6, <1>7
<1>10. SqlSearchAny(T) = {n \in SqlKeys : T \cap f[n].meta # {}}
  BY <1>6, <1>8
<1>11. QED
  BY <1>3, <1>9, <1>10

LEMMA AnyIsEach ==
    ASSUME NEW K, NEW f, NEW T
    PROVE  {n \in K : T \cap f[n].meta # {}} = UNION {{n \in K : {t} \subseteq f[n].meta} : t \in T}
  OBVIOUS

(* Nothing under way: every way to read an SQL file gives what View has.   *)
LEMMA SqlAgrees ==
    ASSUME StorageIInv, AtRest, IsSql
    PROVE  ReadsAgree
<1>1. PICK f : f = View(file)
  OBVIOUS
<1>2. PICK db \in GoodDb(Bound) : db = file
  BY DEF StorageIInv, TypesOK
<1>3. Entries = f /\ db.names # None /\ db.meta # None
  BY <1>1, <1>2, EntriesAtRest
<1>4. PICK N : N = db.names
  OBVIOUS
<1>5. PICK K : K = SqlKeys
  OBVIOUS
<1>6. K = {r.name : r \in N} /\ Keys = K /\ file.names = N
  BY <1>2, <1>4, <1>5 DEF SqlKeys, Keys, IsSql
<1>7. /\ GoodRows(N, Bound) /\ {r.name : r \in N} = {n \in Name : f[n] # None}
      /\ \A r \in N : r.name \in Name /\ f[r.name] = [uri |-> r.uri, meta |-> TagsOf(db, r.id)]
  BY <1>1, <1>2, <1>3, <1>4, RowsMapped
<1>8. Count = Cardinality(Keys)
  <2>1. Count = Cardinality(N)
    BY <1>6 DEF Count, SqlCount, IsSql
  <2>2. Cardinality(N) = Cardinality({r.name : r \in N})
    BY <1>7, NamesCounted
  <2>3. QED
    BY <1>6, <2>1, <2>2
<1>9. Keys = {n \in Name : Entries[n] # None}
  BY <1>3, <1>6, <1>7
<1>10. SqlEverything = [n \in Keys |-> Entries[n]]
  <2>1. ASSUME NEW n \in K PROVE SqlItem(n) = f[n]
    <3>1. PICK r \in N : r.name = n
      BY <1>6, <2>1
    <3>2. (CHOOSE q \in N : q.name = n) = r
      BY <1>7, <3>1 DEF GoodRows
    <3>3. SqlItem(n) = [uri |-> r.uri, meta |-> TagsOf(file, r.id)]
      BY <1>6, <3>2 DEF SqlItem
    <3>4. QED
      BY <1>2, <1>7, <3>1, <3>3
  <2>2. SqlEverything = [n \in K |-> SqlItem(n)]
    BY <1>5 DEF SqlEverything
  <2>3. QED
    BY <1>3, <1>6, <2>1, <2>2
<1>11. ASSUME NEW p \in DOMAIN Begins
       PROVE  /\ Keys \cap Begins[p] \subseteq ListPrefix(p)
              /\ Keys \cap Alike[p] \subseteq Begins[p] => ListPrefix(p) = Keys \cap Begins[p]
  <2>1. Begins[p] \subseteq Alike[p]
    BY StorageAssumption
  <2>2. ListPrefix(p) = {r.name : r \in {x \in N : x.name \in Alike[p]}}
    BY <1>6 DEF ListPrefix, SqlPrefixList, IsSql
  <2>3. ListPrefix(p) = Keys \cap Alike[p]
    BY <1>6, <2>2
  <2>4. QED
    BY <2>1, <2>3
<1>12. ASSUME NEW r \in DOMAIN Matched
       PROVE  /\ Keys \cap MatchedAll[r] \subseteq ListMatching(r)
              /\ ListMatching(r) = Keys \cap Matched[r]
  <2>1. MatchedAll[r] \subseteq Matched[r]
    BY StorageAssumption
  <2>2. ListMatching(r) = {n \in Keys : n \in Matched[r]}
    BY DEF ListMatching, IsSql
  <2>3. QED
    BY <2>1, <2>2
<1>13. ASSUME NEW T \in SUBSET Tag
       PROVE  /\ ListAll(T) = {n \in Keys : T \subseteq Entries[n].meta}
              /\ ListAny(T) = {n \in Keys : T \cap Entries[n].meta # {}}
  <2>1. /\ SqlSearchAll(T, Cardinality(T)) = {n \in SqlKeys : T \subseteq View(file)[n].meta}
        /\ SqlSearchAny(T) = {n \in SqlKeys : T \cap View(file)[n].meta # {}}
    BY <1>2, <1>3, SearchesAgree
  <2>2. ListAll(T) = SqlSearchAll(T, Cardinality(T)) /\ ListAny(T) = SqlSearchAny(T)
    BY DEF ListAll, ListAllGiven, ListAny, IsSql
  <2>3. QED
    BY <1>1, <1>3, <1>5, <1>6, <2>1, <2>2
<1>14. ASSUME NEW T \in SUBSET Tag
       PROVE  ListAny(T) = UNION {ListAll({t}) : t \in T}
  <2>1. \A t \in T : ListAll({t}) = {n \in K : {t} \subseteq f[n].meta}
    <3>1. ASSUME NEW t \in T PROVE ListAll({t}) = {n \in K : {t} \subseteq f[n].meta}
      <4>1. PICK U \in SUBSET Tag : U = {t}
        OBVIOUS
      <4>2. ListAll(U) = {n \in Keys : U \subseteq Entries[n].meta}
        BY <1>13
      <4>3. QED
        BY <1>3, <1>6, <4>1, <4>2
    <3>2. QED
      BY <3>1
  <2>2. ListAny(T) = {n \in K : T \cap f[n].meta # {}}
    BY <1>3, <1>6, <1>13
  <2>3. {n \in K : T \cap f[n].meta # {}} = UNION {{n \in K : {t} \subseteq f[n].meta} : t \in T}
    BY AnyIsEach
  <2>4. {ListAll({t}) : t \in T} = {{n \in K : {t} \subseteq f[n].meta} : t \in T}
    BY <2>1
  <2>5. QED
    BY <2>2, <2>3, <2>4
<1>15. QED
  BY <1>8, <1>9, <1>10, <1>11, <1>12, <1>13, <1>14 DEF ReadsAgree, IsSql

LEMMA DictAgrees ==
    ASSUME StorageIInv, AtRest, ~IsSql
    PROVE  ReadsAgree
<1>1. Entries = dict
  BY EntriesAtRest
<1>2. PICK K : K = DictKeys
  OBVIOUS
<1>3. Keys = K /\ K = {n \in Name : dict[n] # None}
  BY <1>2 DEF Keys, DictKeys, IsSql
<1>4. Count = Cardinality(Keys)
  BY <1>2, <1>3 DEF Count, IsSql
<1>5. Keys = {n \in Name : Entries[n] # None}
  BY <1>1, <1>3
<1>6. DictEverything = [n \in Keys |-> Entries[n]]
  BY <1>1, <1>2, <1>3 DEF DictEverything
<1>7. ASSUME NEW p \in DOMAIN Begins PROVE ListPrefix(p) = Keys \cap Begins[p]
  BY <1>2, <1>3 DEF ListPrefix, DictPrefixList, IsSql
<1>8. ASSUME NEW r \in DOMAIN Matched
      PROVE  /\ Keys \cap MatchedAll[r] \subseteq ListMatching(r)
             /\ (provider = "dbm" => Keys \cap Matched[r] \subseteq MatchedAll[r])
                    => ListMatching(r) = Keys \cap Matched[r]
  <2>1. MatchedAll[r] \subseteq Matched[r]
    BY StorageAssumption
  <2>2. /\ provider # "dbm" => ListMatching(r) = {n \in Keys : n \in Matched[r]}
        /\ provider = "dbm" => ListMatching(r) = {n \in K : n \in MatchedAll[r]}
    BY <1>2 DEF ListMatching, DbmRegexList
  <2>3. QED
    BY <1>3, <2>1, <2>2
<1>9. \A T : /\ ListAll(T) = {n \in K : T \subseteq dict[n].meta}
             /\ ListAny(T) = {n \in K : T \cap dict[n].meta # {}}
  BY <1>2 DEF ListAll, ListAllGiven, ListAny, IsSql
<1>10. ASSUME NEW T
       PROVE  /\ ListAll(T) = {n \in Keys : T \subseteq Entries[n].meta}
              /\ ListAny(T) = UNION {ListAll({t}) : t \in T}
  <2>1. {n \in K : T \cap dict[n].meta # {}} = UNION {{n \in K : {t} \subseteq dict[n].meta} : t \in T}
    BY AnyIsEach
  <2>2. {ListAll({t}) : t \in T} = {{n \in K : {t} \subseteq dict[n].meta} : t \in T}
    BY <1>9
  <2>3. QED
    BY <1>1, <1>3, <1>9, <2>1, <2>2
<1>11. QED
  BY <1>4, <1>5, <1>6, <1>7, <1>8, <1>10 DEF ReadsAgree, IsSql

(* The tables of an SQL file fit together at any moment, whatever is       *)
(* interrupted by a crash, and every way to read a storage gives the same  *)
(* map once no method is under way (naming_storage, naming lines 206-224), *)
(* with the exceptions that ReadsAgree names.                              *)
THEOREM StorageIsKept == StorageSpec => []StorageInv
<1>1. StorageIInv => StorageInv
  <2>1. StorageIInv => ReadsAgree
    <3>1. CASE AtRest /\ IsSql
      BY <3>1, SqlAgrees
    <3>2. CASE AtRest /\ ~IsSql
      BY <3>2, DictAgrees
    <3>3. CASE ~AtRest
      BY <3>3 DEF ReadsAgree
    <3>4. QED
      BY <3>1, <3>2, <3>3
  <2>2. QED
    BY <2>1, StorageTyped DEF StorageInv
<1>2. QED
  BY <1>1, StorageStays, PTL

-----------------------------------------------------------------------------
(* Each storage implements NameTable. *)

LEMMA EntriesNow ==
    /\ ~IsSql => Entries = dict
    /\ IsSql /\ todo = <<>> => Entries = View(file)
    /\ IsSql /\ todo # <<>> => Entries = Shown(file, Outcome(todo).old)
  BY DEF Entries, Upgrades, Shown, Outcome, IsSql

LEMMA EntriesNext ==
    /\ ~IsSql' => Entries' = dict'
    /\ IsSql' /\ todo' = <<>> => Entries' = View(file')
    /\ IsSql' /\ todo' # <<>> => Entries' = Shown(file', Outcome(todo').old)
  BY DEF Entries, Upgrades, Shown, Outcome, IsSql, View, Rows, TagsOf, Tables

LEMMA SameKind ==
    ASSUME provider' = provider
    PROVE  /\ UNCHANGED <<provider # "dbm", provider # "memory">> /\ (IsSql' <=> IsSql)
  BY DEF IsSql

LEMMA TableUpgrade ==
    ASSUME provider' = provider, method' = method, Entries' = Entries
    PROVE  Table!Next
  BY SameKind DEF Table!Next, Table!Upgrade

LEMMA TableBegin ==
    ASSUME provider' = provider, method = None, method' \in Method, Entries' = Entries, file' = file
    PROVE  Table!Next
  BY SameKind DEF Table!Next, Table!Begin, Table!Calls, Method

LEMMA TableFinish ==
    ASSUME provider' = provider, method # None, method' = None, file'.old = file.old,
           Entries' = [n \in Name |-> IF n \in method.names THEN Table!Kept(method.entry)
                                      ELSE Entries[n]]
    PROVE  Table!Next
  BY SameKind DEF Table!Next, Table!Finish

LEMMA TableCrash ==
    ASSUME provider' = provider, method' = None,
           \/ Entries' = Entries
           \/ Entries' = Empty /\ (provider = "memory" \/ file.old # None)
    PROVE  Table!Next
  BY SameKind DEF Table!Next, Table!Crash, Table!Empty, Empty

LEMMA OpenStores == StorageIInv /\ Open => Table!Next
<1> SUFFICES ASSUME StorageIInv, Open PROVE Table!Next
  OBVIOUS
<1>1. /\ provider' = provider /\ file' = file /\ dict' = dict /\ method' = method
      /\ ~Opening /\ ~IsUp
  BY DEF Open, Opening, IsUp
<1>2. method = None /\ todo = <<>> /\ file \in GoodDb(Bound)
  BY <1>1 DEF StorageIInv, TypesOK, PhaseOK, PlanOK
<1>3. \/ todo' = todo
      \/ todo' = CreateSchema(file) /\ IsSql /\ file.names = None
      \/ todo' = Upgrade(file) /\ IsSql /\ file.names # None /\ file.meta = None /\ file.old = None
  BY DEF Open, IsSql
<1>4. todo' = todo \/ (IsSql /\ todo' # <<>> /\ Outcome(todo').old = file.old)
  <2>1. file.names = None => GoodPlan(CreateSchema(file), Bound) /\ Outcome(CreateSchema(file)).old = file.old
    BY <1>2, SchemaPlanned
  <2>2. file.names # None /\ file.meta = None /\ file.old = None
        => GoodPlan(Upgrade(file), Bound) /\ Outcome(Upgrade(file)).old = file.old
    BY <1>2, UpgradePlanned
  <2>3. \A t : GoodPlan(t, Bound) => t # <<>>
    BY DEF GoodPlan
  <2>4. QED
    BY <1>3, <2>1, <2>2, <2>3
<1>5. Entries' = Entries
  <2>1. IsSql' <=> IsSql
    BY <1>1, SameKind
  <2>2. Shown(file, file.old) = View(file)
    BY DEF Shown
  <2>3. QED
    BY <1>1, <1>2, <1>4, <2>1, <2>2, EntriesNow, EntriesNext
<1>6. QED
  BY <1>1, <1>5, TableUpgrade

LEMMA CallStores ==
    ASSUME StorageIInv, NEW S, NEW e, NEW statements, CallsOf(S, e, statements)
    PROVE  Table!Next
<1>1. /\ IsUp /\ method = None /\ provider' = provider /\ file' = file /\ dict' = dict
      /\ method' = [names |-> S, entry |-> e] /\ (IsSql => todo' = Committed(statements))
      /\ S \in SUBSET Name /\ e \in Entry \cup {None}
      /\ IsSql => Does(statements, file, S, e, Bound + 1)
  BY DEF CallsOf, Call, IsUp, IsSql
<1>2. todo = <<>>
  BY <1>1 DEF StorageIInv, PlanOK, IsUp, Opening
<1>3. IsSql => todo' # <<>> /\ Outcome(todo').old = file.old
  <2>1. IsSql => GoodPlan(Committed(statements), Bound + 1) /\ MethodPlan(Committed(statements), file, S, e)
    BY <1>1, MethodPlanned
  <2>2. \A t : GoodPlan(t, Bound + 1) => t # <<>>
    BY DEF GoodPlan
  <2>3. QED
    BY <1>1, <2>1, <2>2 DEF MethodPlan
<1>4. Entries' = Entries
  <2>1. IsSql' <=> IsSql
    BY <1>1, SameKind
  <2>2. Shown(file, file.old) = View(file)
    BY DEF Shown
  <2>3. QED
    BY <1>1, <1>2, <1>3, <2>1, <2>2, EntriesNow, EntriesNext
<1>5. method' \in Method
  BY <1>1 DEF Method
<1>6. QED
  BY <1>1, <1>4, <1>5, TableBegin

LEMMA ExecuteStores == StorageIInv /\ Execute => Table!Next
<1> SUFFICES ASSUME StorageIInv, Execute PROVE Table!Next
  OBVIOUS
<1>1. provider' = provider /\ todo # <<>>
  BY DEF Execute
<1>2. IsSql /\ IsSql'
  BY <1>1, SameKind DEF StorageIInv, PlanOK
<1>3. Entries = Shown(file, Outcome(todo).old)
  BY <1>1, <1>2, EntriesNow
<1>4. method # None => Entries = View(file)
  BY <1>1, <1>3 DEF StorageIInv, PlanOK, MethodPlan, Shown
<1>5. CASE todo' # <<>>
  <2>1. /\ Outcome(todo') = Outcome(todo) /\ method' = method
        /\ method # None => file' = file
        /\ method = None => Shown(file', Outcome(todo).old) = Shown(file, Outcome(todo).old)
    BY <1>5, ExecuteGoesOn
  <2>2. Entries' = Shown(file', Outcome(todo').old)
    BY <1>2, <1>5, EntriesNext
  <2>3. Entries' = Entries
    BY <1>3, <2>1, <2>2
  <2>4. QED
    BY <1>1, <2>1, <2>3, TableUpgrade
<1>6. CASE todo' = <<>>
  <2>1. /\ method' = None
        /\ method # None => file'.old = file.old
             /\ View(file') = Changed(View(file), method.names, method.entry)
        /\ method = None => View(file') = Shown(file, Outcome(todo).old)
    BY <1>6, ExecuteEnds
  <2>2. Entries' = View(file')
    BY <1>2, <1>6, EntriesNext
  <2>3. CASE method = None
    BY <1>1, <1>3, <2>1, <2>2, <2>3, TableUpgrade
  <2>4. CASE method # None
    <3>1. Entries' = Changed(Entries, method.names, method.entry)
      BY <1>4, <2>1, <2>2, <2>4
    <3>2. Table!Kept(method.entry) = method.entry
      BY <1>2 DEF Table!Kept, IsSql
    <3>3. Entries' = [n \in Name |-> IF n \in method.names THEN Table!Kept(method.entry)
                                     ELSE Entries[n]]
      BY <3>1, <3>2 DEF Changed
    <3>4. QED
      BY <1>1, <2>1, <2>4, <3>3, TableFinish
  <2>5. QED
    BY <2>3, <2>4
<1>7. QED
  BY <1>5, <1>6

LEMMA UpdateStores == StorageIInv /\ Update => Table!Next
<1> SUFFICES ASSUME StorageIInv, Update PROVE Table!Next
  OBVIOUS
<1>1. provider' = provider /\ method # None /\ method' = None /\ file' = file /\ ~IsSql
  BY DEF Update, IsSql
<1>2. Entries = dict /\ Entries' = dict'
  BY <1>1, SameKind, EntriesNow, EntriesNext
<1>3. PICK x : x = IF provider = "dbm" /\ method.entry # None
                   THEN [method.entry EXCEPT !.meta = {}] ELSE method.entry
  OBVIOUS
<1>4. x = Table!Kept(method.entry)
  BY <1>3 DEF Table!Kept
<1>5. dict' = [n \in Name |-> IF n \in method.names THEN x ELSE dict[n]]
  BY <1>3 DEF Update
<1>6. QED
  BY <1>1, <1>2, <1>4, <1>5, TableFinish

LEMMA CrashStores == StorageIInv /\ Crash => Table!Next
<1> SUFFICES ASSUME StorageIInv, Crash PROVE Table!Next
  OBVIOUS
<1>1. /\ provider' = provider /\ method' = None /\ file' = file /\ todo' = <<>>
      /\ dict' = (IF provider = "memory" THEN Empty ELSE dict) /\ (IsSql' <=> IsSql)
  BY SameKind DEF Crash
<1>2. CASE ~IsSql
  <2>1. Entries = dict /\ Entries' = dict'
    BY <1>1, <1>2, EntriesNow, EntriesNext
  <2>2. QED
    BY <1>1, <2>1, TableCrash
<1>3. CASE IsSql
  <2>1. Entries' = View(file)
    BY <1>1, <1>3, EntriesNext
  <2>2. CASE todo = <<>>
    BY <1>1, <1>3, <2>1, <2>2, EntriesNow, TableCrash
  <2>3. CASE todo # <<>>
    <3>1. Entries = Shown(file, Outcome(todo).old)
      BY <1>3, <2>3, EntriesNow
    <3>2. CASE file.old = Outcome(todo).old
      <4>1. Entries = View(file)
        BY <3>1, <3>2 DEF Shown
      <4>2. QED
        BY <1>1, <2>1, <4>1, TableCrash
    <3>3. CASE file.old # Outcome(todo).old
      <4>1. method = None
        BY <2>3, <3>3 DEF StorageIInv, PlanOK, MethodPlan
      <4>2. Hidden(file, Outcome(todo).old)
        BY <2>3, <4>1 DEF StorageIInv, PlanOK, OpenPlan
      <4>3. file.old # None /\ View(file) = Empty
        BY <3>3, <4>2 DEF Hidden
      <4>4. QED
        BY <1>1, <2>1, <4>3, TableCrash
    <3>4. QED
      BY <3>2, <3>3
  <2>4. QED
    BY <2>2, <2>3
<1>4. QED
  BY <1>2, <1>3

(* A method of a storage changes the map in one step, at its commit, or    *)
(* not at all if the process crashes, however many statements it has; only *)
(* the storage in memory forgets, and an upgrade that is interrupted.      *)
THEOREM StorageStoresTable == StorageSpec => StoresTable
<1>1. StorageIInv /\ [StorageNext]_storageVars
      => UNCHANGED storageVars \/ status = "new" \/ Table!Next
  <2> SUFFICES ASSUME StorageIInv, [StorageNext]_storageVars
               PROVE  UNCHANGED storageVars \/ status = "new" \/ Table!Next
    OBVIOUS
  <2>1. CASE Choose
    BY <2>1 DEF Choose
  <2>2. CASE Open
    BY <2>2, OpenStores
  <2>3. CASE Execute
    BY <2>3, ExecuteStores
  <2>4. CASE Update
    BY <2>4, UpdateStores
  <2>5. CASE Crash
    BY <2>5, CrashStores
  <2>6. CASE \/ ClearAll
             \/ \E n \in Name : Delete(n) \/ \E e \in Entry : Put(n, e)
             \/ \E S \in SUBSET Name : RemoveItems(S)
    <3>1. PICK S, e, statements : CallsOf(S, e, statements)
      BY <2>6, MethodsCalled
    <3>2. QED
      BY <3>1, CallStores
  <2>7. CASE UNCHANGED storageVars
    BY <2>7
  <2>8. QED
    BY <2>1, <2>2, <2>3, <2>4, <2>5, <2>6, <2>7 DEF StorageNext
<1>2. StorageIInv /\ [StorageNext]_storageVars
      => [UNCHANGED storageVars \/ status = "new" \/ Table!Next]_(Table!vars)
  BY <1>1
<1>3. QED
  BY <1>2, StorageStays, PTL DEF StorageSpec, StoresTable

-----------------------------------------------------------------------------
(* Lookups of the name server: NameLookup. *)

ClientLookup ==
    [from : Place, port : {None, "own", "bc"}, nsHost : {Localhost, Interface["this"]},
     ipv6 : BOOLEAN, phase : {"host", "localhost", "debian", "broadcast", "answer", "nshost"},
     tries : 0 .. 3]

(* The servers are numbered, and the one that runs is among those that     *)
(* were alive.                                                             *)
ServerTyped ==
    /\ numbers \in [servers : Nat, lookups : Nat]
    /\ up \in BOOLEAN /\ steady \in BOOLEAN /\ (up => server # None)
    /\ server # None =>
        server \in NsAddress /\ server.number <= numbers.servers /\ server.number \in alive
    /\ bcserver # None => server # None /\ bcserver = server /\ server.host # Localhost

LookupTyped == lookup # None => lookup \in ClientLookup

(* Such a URI is of a server that was alive, and leads to it while it is   *)
(* there.                                                                  *)
GoodUri(uri, from) ==
    /\ uri \in NsAddress /\ uri.number \in alive /\ uri.number <= numbers.servers
    /\ server # None /\ server.number = uri.number /\ uri.host # AnyAddress =>
        uri.port = server.port /\ Leads(server, from, uri.host)

AnswersGood == lookup # None => \A uri \in answers : GoodUri(uri, lookup.from)

FoundGood == found # None /\ found.uri # None => GoodUri(found.uri, found.from)

(* Where the lookup ends if all else fails. *)
LastPort == IF lookup.phase = "host" /\ lookup.port # None THEN lookup.port ELSE "ns"

HostSteady == steady => up
HostReached == lookup # None /\ steady => Reaches(lookup.from, lookup.nsHost, LastPort)

LookupIInv ==
    /\ ServerTyped /\ LookupTyped /\ AnswersGood /\ FoundGood
    /\ HostSteady /\ HostReached /\ NotMissed

(* Nothing is looked for at first. *)
LEMMA LookupStarts ==
    ASSUME LookupInit
    PROVE  LookupIInv
BY DEF LookupInit, LookupIInv, ServerTyped, LookupTyped, AnswersGood, FoundGood, HostSteady,
       HostReached, NotMissed

(* Of the same server, a URI stays good while the server is the same or    *)
(* has gone, and more are alive.                                           *)
LEMMA UriStaysGood ==
    ASSUME NEW uri, NEW from, GoodUri(uri, from), ServerTyped,
           alive \subseteq alive', numbers'.servers \in Nat,
           numbers.servers <= numbers'.servers,
           server' = server \/ server' = None \/ server'.number = numbers.servers + 1
    PROVE  GoodUri(uri, from)'
<1>1. uri.number \in Nat /\ numbers.servers \in Nat
  BY DEF GoodUri, NsAddress, ServerTyped
<1>2. uri.number <= numbers'.servers /\ uri.number # numbers.servers + 1
  BY <1>1 DEF GoodUri
<1>3. CASE server' = server \/ server' = None
  BY <1>2, <1>3 DEF GoodUri, Leads
<1>4. CASE server'.number = numbers.servers + 1
  BY <1>2, <1>4 DEF GoodUri
<1> QED
  BY <1>3, <1>4

(* The name server starts, stops, or is killed. *)
LEMMA ServerKeeps ==
    ASSUME LookupIInv,
           \/ \E h \in Hosts, p \in {"ns", "own"}, b \in BOOLEAN : StartNS(h, p, b)
           \/ CloseDaemon \/ CloseBroadcast \/ Killed
    PROVE  LookupIInv'
<1> USE DEF LookupIInv
<1>1. /\ UNCHANGED clientVars /\ steady' \in BOOLEAN
      /\ alive \subseteq alive' /\ numbers'.servers \in Nat
      /\ numbers.servers <= numbers'.servers
      /\ server' = server \/ server' = None \/ server'.number = numbers.servers + 1
  <2>1. CASE \E h \in Hosts, p \in {"ns", "own"}, b \in BOOLEAN : StartNS(h, p, b)
    <3>1. PICK h \in Hosts, p \in {"ns", "own"}, b \in BOOLEAN : StartNS(h, p, b)
      BY <2>1
    <3>2. PICK k \in Nat : k = numbers.servers + 1
      BY DEF ServerTyped
    <3>3. /\ server' = [number |-> k, host |-> h, port |-> p]
          /\ numbers' = [numbers EXCEPT !.servers = k] /\ alive' = alive \cup {k}
          /\ UNCHANGED <<clientVars, steady>>
      BY <3>1, <3>2 DEF StartNS
    <3>4. server'.number = k /\ numbers'.servers = k /\ numbers.servers \in Nat
      BY <3>3 DEF ServerTyped
    <3> QED
      BY <3>2, <3>3, <3>4 DEF ServerTyped
  <2>2. CASE CloseDaemon \/ CloseBroadcast \/ Killed
    <3>1. UNCHANGED <<clientVars, alive, numbers>> /\ steady' \in BOOLEAN
      BY <2>2 DEF CloseDaemon, CloseBroadcast, Killed, ServerTyped
    <3>2. server' = server \/ server' = None
      BY <2>2 DEF CloseDaemon, CloseBroadcast, Killed
    <3> QED
      BY <3>1, <3>2 DEF ServerTyped
  <2> QED
    BY <2>1, <2>2
<1>2. LookupTyped' /\ AnswersGood' /\ FoundGood'
  <2>1. LookupTyped'
    BY <1>1 DEF LookupTyped, clientVars
  <2>2. AnswersGood'
    BY <1>1, UriStaysGood DEF AnswersGood, clientVars
  <2>3. FoundGood'
    BY <1>1, UriStaysGood DEF FoundGood, clientVars
  <2> QED
    BY <2>1, <2>2, <2>3
<1>3. CASE \E h \in Hosts, p \in {"ns", "own"}, b \in BOOLEAN : StartNS(h, p, b)
  <2>1. PICK h \in Hosts, p \in {"ns", "own"}, b \in BOOLEAN : StartNS(h, p, b)
    BY <1>3
  <2>2. PICK k \in Nat : k = numbers.servers + 1
    BY DEF ServerTyped
  <2>3. PICK s \in NsAddress : s = [number |-> k, host |-> h, port |-> p]
    BY <2>1 DEF NsAddress, Hosts, Place
  <2>4. /\ server' = s /\ server = None /\ up' = TRUE /\ UNCHANGED steady
        /\ numbers' = [numbers EXCEPT !.servers = k]
        /\ alive' = alive \cup {k}
        /\ bcserver' = IF b /\ h # Localhost THEN s ELSE None
    BY <2>1, <2>2, <2>3 DEF StartNS, Address
  <2>5. s # None /\ s.number = k /\ s.host = h
    BY <2>3, LookupAssumption
  <2>6. numbers' \in [servers : Nat, lookups : Nat] /\ numbers'.servers = k
    BY <2>4 DEF ServerTyped
  <2>7. ServerTyped'
    BY <2>4, <2>5, <2>6 DEF ServerTyped
  <2>8. steady = FALSE
    BY <2>4 DEF ServerTyped, HostSteady
  <2> QED
    BY <1>1, <1>2, <2>4, <2>7, <2>8 DEF HostSteady, HostReached, NotMissed, clientVars
<1>4. CASE CloseDaemon
  <2>1. ServerTyped' /\ steady' = FALSE
    BY <1>4 DEF CloseDaemon, ServerTyped
  <2> QED
    BY <1>2, <2>1 DEF HostSteady, HostReached, NotMissed
<1>5. CASE CloseBroadcast
  <2>1. ServerTyped' /\ steady' = FALSE
    BY <1>5 DEF CloseBroadcast, ServerTyped, HostSteady
  <2> QED
    BY <1>2, <2>1 DEF HostSteady, HostReached, NotMissed
<1>6. CASE Killed
  <2>1. ServerTyped' /\ steady' = FALSE
    BY <1>6 DEF Killed, ServerTyped
  <2> QED
    BY <1>2, <2>1 DEF HostSteady, HostReached, NotMissed
<1> QED
  BY <1>3, <1>4, <1>5, <1>6

(* The broadcast server tells its URI; what arrives later is still of a    *)
(* server that ran or answered.                                            *)
LEMMA RequestKeeps ==
    ASSUME LookupIInv, NEW b, NEW known \in BOOLEAN, ProcessRequest(b, known)
    PROVE  LookupIInv'
<1> USE DEF LookupIInv
<1>1. /\ bcserver # None /\ lookup # None
      /\ answers' = answers \cup {Told(known)}
      /\ UNCHANGED <<serverVars, lookup, found, alive, steady>>
  BY DEF ProcessRequest
<1>2. /\ server # None /\ bcserver = server /\ server.host # Localhost /\ server \in NsAddress
      /\ server.number <= numbers.servers /\ server.number \in alive
  BY <1>1 DEF ServerTyped
<1>3. lookup.from \in Place
  BY <1>1 DEF LookupTyped, ClientLookup
<1>4. GoodUri(Told(known), lookup.from)
  <2>1. CASE bcserver.host = AnyAddress /\ known
    <3>1. PICK uri : uri = [server EXCEPT !.host = Interface[lookup.from]]
      OBVIOUS
    <3>2. /\ uri \in NsAddress /\ uri.number = server.number /\ uri.port = server.port
          /\ uri.host = Interface[lookup.from]
      BY <1>2, <1>3, <3>1 DEF NsAddress
    <3>3. Told(known) = uri
      BY <1>2, <2>1, <3>1 DEF Told
    <3>4. Leads(server, lookup.from, uri.host)
      BY <1>2, <2>1, <3>2 DEF Leads
    <3> QED
      BY <1>2, <3>2, <3>3, <3>4 DEF GoodUri
  <2>2. CASE ~(bcserver.host = AnyAddress /\ known)
    <3>1. Told(known) = server
      BY <1>2, <2>2 DEF Told
    <3>2. Leads(server, lookup.from, server.host)
      BY <1>2 DEF Leads
    <3> QED
      BY <1>2, <3>1, <3>2 DEF GoodUri
  <2> QED
    BY <2>1, <2>2
<1>5. \A uri \in answers' : GoodUri(uri, lookup.from)
  BY <1>1, <1>4 DEF AnswersGood
<1> QED
  BY <1>1, <1>5 DEF serverVars, ServerTyped, LookupTyped, AnswersGood, FoundGood, GoodUri,
     HostSteady, HostReached, NotMissed, Reaches, LastPort, Leads

(* A lookup begins, and no server but the present one counts as alive. *)
LEMMA LocateKeeps ==
    ASSUME LookupIInv, NEW from \in Place, NEW host \in {None, Interface["this"]},
           NEW port \in {None, "own", "bc"}, NEW nsHost \in {Localhost, Interface["this"]},
           NEW ipv6 \in BOOLEAN, Locate(from, host, port, nsHost, ipv6)
    PROVE  LookupIInv'
<1> USE DEF LookupIInv
<1>1. PICK ph \in {"host", "localhost", "broadcast", "nshost"} :
        /\ lookup'.phase = ph /\ (ph = "host" <=> host # None)
        /\ lookup' = [from |-> from, port |-> port, nsHost |-> IF host = None THEN nsHost ELSE host,
                      ipv6 |-> ipv6, tries |-> 0, phase |-> ph]
  <2>1. CASE host # None
    BY <2>1 DEF Locate
  <2>2. CASE host = None /\ nsHost = Localhost
    BY <2>2 DEF Locate
  <2>3. CASE host = None /\ nsHost # Localhost
    BY <2>3 DEF Locate
  <2> QED
    BY <2>1, <2>2, <2>3
<1>2. /\ lookup' \in ClientLookup /\ lookup'.from = from /\ lookup'.port = port
  BY <1>1 DEF ClientLookup
<1>3. /\ answers' = {} /\ found' = None
      /\ alive' = IF server = None THEN {} ELSE {server.number}
      /\ steady' = Reaches(from, lookup'.nsHost, IF host # None /\ port # None THEN port ELSE "ns")
      /\ numbers' = [numbers EXCEPT !.lookups = @ + 1]
      /\ UNCHANGED <<server, up, bcserver>>
  BY DEF Locate
<1>4. numbers' \in [servers : Nat, lookups : Nat] /\ numbers'.servers = numbers.servers
  BY <1>3 DEF ServerTyped
<1>5. steady' \in BOOLEAN /\ (steady' => up)
  BY <1>3 DEF Reaches, ServerTyped
<1>6. ServerTyped'
  BY <1>3, <1>4, <1>5 DEF ServerTyped
<1>7. HostReached' /\ HostSteady'
  <2>1. LastPort' = IF host # None /\ port # None THEN port ELSE "ns"
    BY <1>1, <1>2 DEF LastPort
  <2> QED
    BY <1>2, <1>3, <1>5, <2>1 DEF HostReached, HostSteady, Reaches, Leads
<1> QED
  BY <1>2, <1>3, <1>6, <1>7 DEF LookupTyped, AnswersGood, FoundGood, NotMissed

(* A lookup ends with what it has found. *)
LEMMA GivenKeeps ==
    ASSUME LookupIInv, lookup # None, NEW uri, NEW error \in BOOLEAN, Given(uri, error),
           UNCHANGED <<serverVars, alive, steady>>,
           uri # None => GoodUri(uri, lookup.from),
           steady => uri # None \/ error
    PROVE  LookupIInv'
<1> USE DEF Given
<1>0. PICK from : from = lookup.from
  OBVIOUS
<1>1. found'.uri = uri /\ found'.from = from /\ found'.error = error
  BY <1>0
<1>2. uri # None => GoodUri(uri, from)'
  BY <1>0 DEF serverVars, GoodUri, Leads
<1>3. FoundGood'
  BY <1>1, <1>2 DEF FoundGood, GoodUri, Leads
<1>4. NotMissed'
  BY <1>1 DEF NotMissed
<1> QED
  BY <1>3, <1>4 DEF LookupIInv, serverVars, ServerTyped, LookupTyped, AnswersGood,
     HostSteady, HostReached

(* It goes on. *)
LEMMA LookingKeeps ==
    ASSUME LookupIInv, lookup # None, lookup' \in ClientLookup,
           lookup'.from = lookup.from, lookup'.nsHost = lookup.nsHost,
           lookup'.phase = "host" <=> lookup.phase = "host", lookup'.port = lookup.port,
           UNCHANGED <<serverVars, answers, found, alive, steady>>
    PROVE  LookupIInv'
<1>1. LastPort' = LastPort
  BY DEF LastPort
<1>2. HostReached' /\ HostSteady'
  BY <1>1 DEF LookupIInv, HostReached, HostSteady, Reaches, Leads, serverVars
<1>3. AnswersGood' /\ FoundGood' /\ NotMissed'
  BY DEF LookupIInv, AnswersGood, FoundGood, NotMissed, GoodUri, Leads, serverVars
<1> QED
  BY <1>2, <1>3 DEF LookupIInv, serverVars, ServerTyped, LookupTyped

(* The name server that a lookup has reached or not at an address. *)
LEMMA BindKeeps ==
    ASSUME LookupIInv, lookup # None, NEW host, NEW port, NEW next,
           host \in {Localhost, Debian, Interface["this"]}, port \in {"ns", "own", "bc"},
           next \in {"debian", "broadcast", "nshost", "fail"},
           lookup.phase = "host" => next = "fail",
           next = "fail" => host = lookup.nsHost /\ port = LastPort,
           Bind(host, port, next)
    PROVE  LookupIInv'
<1>1. UNCHANGED <<serverVars, alive, steady>>
  BY DEF Bind
<1>2. CASE Reaches(lookup.from, host, port)
  <2>1. PICK uri : uri = Address(host, port, server.number)
    OBVIOUS
  <2>2. server # None /\ server \in NsAddress /\ server.number <= numbers.servers
        /\ server.number \in alive
    BY <1>2 DEF Reaches, LookupIInv, ServerTyped
  <2>3. /\ uri \in NsAddress /\ uri.number = server.number /\ uri.host = host /\ uri.port = port
    <3>1. server.number \in Nat
      BY <2>2 DEF NsAddress
    <3> QED
      BY <2>1, <3>1 DEF NsAddress, Address, Place
  <2>4. GoodUri(uri, lookup.from) /\ uri # None
    BY <1>2, <2>2, <2>3, LookupAssumption DEF GoodUri, Reaches
  <2>5. Given(uri, FALSE)
    BY <1>2, <2>1 DEF Bind
  <2> QED
    BY <1>1, <2>4, <2>5, GivenKeeps
<1>3. CASE ~Reaches(lookup.from, host, port) /\ next = "fail"
  <2>1. ~steady
    BY <1>3 DEF LookupIInv, HostReached
  <2>2. Given(None, FALSE)
    BY <1>3 DEF Bind
  <2> QED
    BY <1>1, <2>1, <2>2, GivenKeeps
<1>4. CASE ~Reaches(lookup.from, host, port) /\ next # "fail"
  <2>1. lookup' = [lookup EXCEPT !.phase = next] /\ UNCHANGED <<answers, found>>
    BY <1>4 DEF Bind
  <2>2. lookup \in ClientLookup /\ lookup.phase # "host" /\ next # "host"
    BY <1>4 DEF LookupIInv, LookupTyped
  <2>3. lookup' \in ClientLookup /\ lookup'.phase = next
    BY <1>4, <2>1, <2>2 DEF ClientLookup
  <2>4. lookup'.from = lookup.from /\ lookup'.nsHost = lookup.nsHost /\ lookup'.port = lookup.port
    BY <2>1, <2>2 DEF ClientLookup
  <2> QED
    BY <1>1, <2>1, <2>2, <2>3, <2>4, LookingKeeps
<1> QED
  BY <1>2, <1>3, <1>4

(* A lookup goes on, fails, or ends. *)
LEMMA ClientKeeps ==
    ASSUME LookupIInv, lookup # None, Looking \/ \E uri \in answers : Answered(uri)
    PROVE  LookupIInv'
<1>1. /\ lookup \in ClientLookup /\ OrNs(lookup.port) \in {"ns", "own", "bc"}
      /\ lookup.nsHost \in {Localhost, Debian, Interface["this"]}
      /\ AfterLocal \in {"broadcast", "nshost"}
  BY DEF LookupIInv, LookupTyped, ClientLookup, OrNs, AfterLocal
<1>2. CASE TryLocalhost
  BY <1>1, <1>2, BindKeeps DEF TryLocalhost
<1>3. CASE TryDebian
  BY <1>1, <1>3, BindKeeps DEF TryDebian
<1>4. CASE Broadcast
  <2>1. PICK x : x = [lookup EXCEPT !.phase = "answer", !.tries = lookup.tries + 1]
    OBVIOUS
  <2>2. lookup' = x /\ lookup.phase = "broadcast" /\ lookup.tries + 1 \in 0 .. 3
        /\ UNCHANGED <<serverVars, answers, found, alive, steady>>
    BY <1>1, <1>4, <2>1 DEF Broadcast, ClientLookup
  <2>3. x \in ClientLookup /\ x.phase = "answer" /\ x.from = lookup.from /\ x.nsHost = lookup.nsHost
        /\ x.port = lookup.port
    BY <1>1, <2>1, <2>2 DEF ClientLookup
  <2> QED
    BY <2>2, <2>3, LookingKeeps
<1>5. CASE NoAnswer
  <2>1. PICK ph \in {"broadcast", "nshost"} : lookup' = [lookup EXCEPT !.phase = ph]
    BY <1>5 DEF NoAnswer
  <2>2. lookup.phase = "answer" /\ UNCHANGED <<serverVars, answers, found, alive, steady>>
    BY <1>5 DEF NoAnswer
  <2>3. /\ lookup' \in ClientLookup /\ lookup'.phase = ph /\ lookup'.from = lookup.from
        /\ lookup'.nsHost = lookup.nsHost /\ lookup'.port = lookup.port
    BY <1>1, <2>1 DEF ClientLookup
  <2> QED
    BY <2>2, <2>3, LookingKeeps
<1>6. CASE TryNsHost
  <2>1. lookup.phase = "nshost" /\ LastPort = "ns"
    BY <1>6 DEF TryNsHost, LastPort
  <2> QED
    BY <1>1, <1>6, <2>1, BindKeeps DEF TryNsHost, NsHost
<1>7. CASE TryHost
  <2>1. lookup.phase = "host" /\ LastPort = OrNs(lookup.port)
    BY <1>7 DEF TryHost, LastPort, OrNs
  <2> QED
    BY <1>1, <1>7, <2>1, BindKeeps DEF TryHost, NsHost
<1>8. CASE \E uri \in answers : Answered(uri)
  <2>1. PICK uri \in answers : Answered(uri)
    BY <1>8
  <2>2. GoodUri(uri, lookup.from)
    BY DEF LookupIInv, AnswersGood
  <2>3. uri # None
    BY <2>2, LookupAssumption DEF GoodUri
  <2> QED
    BY <2>1, <2>2, <2>3, GivenKeeps DEF Answered
<1>9. CASE SocketFails
  BY <1>9, GivenKeeps DEF SocketFails
<1> QED
  BY <1>2, <1>3, <1>4, <1>5, <1>6, <1>7, <1>8, <1>9 DEF Looking

(* Each address that an answer tells is of a server that was alive during  *)
(* the lookup, and a name server that is there all the time stays within   *)
(* reach.                                                                  *)
THEOREM LookupIsSafe == LookupSpec => []LookupIInv
<1>1. LookupInit => LookupIInv
  BY LookupStarts
<1>2. LookupIInv /\ [LookupNext]_lookupVars => LookupIInv'
  <2>1. SUFFICES ASSUME LookupIInv, [LookupNext]_lookupVars
                 PROVE  LookupIInv'
    OBVIOUS
  <2>2. CASE LookupNext
    BY <2>1, <2>2, ServerKeeps, RequestKeeps, LocateKeeps, ClientKeeps DEF LookupNext
  <2>3. CASE UNCHANGED lookupVars
    BY <2>1, <2>3 DEF lookupVars, LookupIInv, ServerTyped, LookupTyped, AnswersGood, FoundGood,
       GoodUri, Leads, HostSteady, HostReached, Reaches, LastPort, NotMissed
  <2> QED
    BY <2>1, <2>2, <2>3
<1> QED
  BY <1>1, <1>2, PTL DEF LookupSpec

(* LookupInv for any networks and any number of servers and lookups: an    *)
(* address that is found leads to a server that was alive during the       *)
(* lookup, and a lookup does not say that there is none while there is one *)
(* at the host it ends with; if its socket fails it says just that (core   *)
(* lines 1929-2016, naming lines 371-459).                                 *)
THEOREM LookupsFind == LookupSpec => []LookupInv
<1>1. LookupIInv => LookupInv
  BY DEF LookupIInv, LookupInv, FoundLeads, FoundGood, GoodUri
<1> QED
  BY <1>1, LookupIsSafe, PTL

-----------------------------------------------------------------------------
(* Looking up a proxy's object: Resolving. *)

NameEntry == [uri : Endpoint, meta : SUBSET Property]
Command ==
    [cmd : {"register", "setmeta", "remove", "removematching"}, name : LogicalName,
     uri : Endpoint \cup {None}, meta : SUBSET Property, at : {"locate", "sure?", "call"}]
Connecting ==
    [how : {"call", "bind", "reconnect"}, at : {"resolve", "look up", "connect"},
     uri : Endpoint \cup {None}, tries : Nat]

ResolvingTyped ==
    /\ table \in [LogicalName -> NameEntry \cup {None}]
    /\ given # None => given \in [Resolver -> Ask]
    /\ command \in [Operator -> Command \cup {None}]
    /\ \A o \in Operator : command[o] # None /\ command[o].cmd = "register" =>
       command[o].uri \in Endpoint
    /\ connecting \in [Resolver -> Connecting \cup {None}]
    /\ connectedTo \in [Resolver -> Endpoint \cup {None}]
    /\ exact \in [Resolver -> Endpoint \cup {None}]
    /\ bound \in [Resolver -> BOOLEAN]
    /\ meant \in [Resolver -> SUBSET Endpoint]

(* What a proxy looks for is what it should stand for, all of which it has *)
(* been meant to reach since it began to connect.                          *)
LooksForMeant ==
    \A p \in Resolver :
        /\ bound[p] <=> exact[p] # None
        /\ connecting[p] # None =>
            /\ given # None /\ connectedTo[p] = None
            /\ StandsFor(p, table) \subseteq meant[p]
            /\ connecting[p].at = "connect" => connecting[p].uri \in meant[p]

ResolvingIInv == ResolvingTyped /\ LooksForMeant /\ ConnectsAsMeant

(* What a lookup can find are locations, *)
LEMMA CandidatesServe ==
    ASSUME NEW g \in Ask, NEW tb \in [LogicalName -> NameEntry \cup {None}]
    PROVE  Candidates(g, tb) \subseteq Endpoint
<1>1. CASE g \in [byName : LogicalName]
  <2>1. ~Has(g, "at") /\ Has(g, "byName") /\ g.byName \in LogicalName
    BY <1>1 DEF Has
  <2>2. tb[g.byName] # None => tb[g.byName] \in NameEntry
    BY <2>1
  <2>3. QED
    BY <2>1, <2>2 DEF Candidates, NameEntry
<1>2. CASE g \in [byMeta : SUBSET Property \ {{}}]
  <2>1. ~Has(g, "at") /\ ~Has(g, "byName")
    BY <1>2 DEF Has
  <2>2. \A n \in LogicalName : tb[n] # None => tb[n].uri \in Endpoint
    BY DEF NameEntry
  <2>3. QED
    BY <2>1, <2>2 DEF Candidates
<1>3. CASE g \in [at : Endpoint]
  <2>1. Has(g, "at") /\ g.at \in Endpoint
    BY <1>3 DEF Has
  <2>2. QED
    BY <2>1 DEF Candidates
<1>4. QED
  BY <1>1, <1>2, <1>3 DEF Ask

(* and so is all that a URI stands for. *)
LEMMA StandsForServed ==
    ASSUME ResolvingIInv, NEW p \in Resolver, given # None,
           NEW tb \in [LogicalName -> NameEntry \cup {None}]
    PROVE  StandsFor(p, tb) \subseteq Endpoint
<1>1. given[p] \in Ask /\ (bound[p] => exact[p] \in Endpoint)
  BY DEF ResolvingIInv, ResolvingTyped, LooksForMeant
<1>2. Candidates(given[p], tb) \subseteq Endpoint
  BY <1>1, CandidatesServe
<1>3. QED
  BY <1>1, <1>2 DEF StandsFor

(* What a proxy looks up now is what its URI stands for. *)
LEMMA LooksForThat ==
    ASSUME ResolvingIInv, NEW p \in Resolver
    PROVE  /\ Candidates(UriNow(p), table) = StandsFor(p, table)
           /\ Has(UriNow(p), "at") => UriNow(p).at \in StandsFor(p, table)
<1>1. bound[p] <=> exact[p] # None
  BY DEF ResolvingIInv, LooksForMeant
<1>2. CASE bound[p]
  <2>1. UriNow(p) = [at |-> exact[p]] /\ StandsFor(p, table) = {exact[p]}
    BY <1>1, <1>2 DEF UriNow, StandsFor
  <2>2. Has([at |-> exact[p]], "at")
    BY DEF Has
  <2>3. QED
    BY <2>1, <2>2 DEF Candidates
<1>3. CASE ~bound[p]
  <2>1. UriNow(p) = given[p] /\ StandsFor(p, table) = Candidates(given[p], table)
    BY <1>1, <1>3 DEF UriNow, StandsFor
  <2>2. QED
    BY <2>1 DEF Candidates
<1>4. QED
  BY <1>2, <1>3

(* A command leaves a table of entries. *)
LEMMA TableAfterTyped ==
    ASSUME NEW c \in Command, c.cmd = "register" => c.uri \in Endpoint,
           NEW tb \in [LogicalName -> NameEntry \cup {None}]
    PROVE  TableAfter(c, tb) \in [LogicalName -> NameEntry \cup {None}]
<1> DEFINE old == tb[c.name]
<1>1. c.name \in LogicalName /\ c.meta \in SUBSET Property
  BY DEF Command
<1>2. CASE c.cmd = "register"
  <2>1. [uri |-> c.uri, meta |-> {}] \in NameEntry
    BY <1>2 DEF NameEntry
  <2>2. QED
    BY <1>1, <1>2, <2>1 DEF TableAfter
<1>3. CASE c.cmd = "setmeta"
  <2>1. CASE old # None
    <3>1. [old EXCEPT !.meta = c.meta] \in NameEntry
      BY <1>1, <2>1 DEF NameEntry
    <3>2. TableAfter(c, tb) = [tb EXCEPT ![c.name] = [old EXCEPT !.meta = c.meta]]
      BY <1>3, <2>1 DEF TableAfter
    <3>3. QED
      BY <3>1, <3>2
  <2>2. CASE old = None
    BY <1>3, <2>2 DEF TableAfter
  <2>3. QED
    BY <2>1, <2>2
<1>4. CASE c.cmd = "remove"
  BY <1>4 DEF TableAfter
<1>5. CASE c.cmd = "removematching"
  BY <1>5 DEF TableAfter
<1>6. QED
  BY <1>2, <1>3, <1>4, <1>5 DEF Command

(* Proxies are made with their URIs. *)
LEMMA ProxiesMade == ResolvingIInv /\ MakeProxies => ResolvingIInv'
<1> SUFFICES ASSUME ResolvingIInv, MakeProxies PROVE ResolvingIInv'
  OBVIOUS
<1>1. \A p \in Resolver : connecting[p] = None
  BY DEF MakeProxies, ResolvingIInv, LooksForMeant
<1>2. ResolvingTyped'
  BY DEF MakeProxies, ResolvingIInv, ResolvingTyped, NameEntry
<1>3. LooksForMeant' /\ ConnectsAsMeant'
  BY <1>1 DEF MakeProxies, ResolvingIInv, LooksForMeant, ConnectsAsMeant
<1>4. QED
  BY <1>2, <1>3 DEF ResolvingIInv

(* The steps of commands before they change the table. *)
LEMMA CommandsKeep ==
    ASSUME ResolvingIInv, UNCHANGED <<table, available, resolverVars, meant>>,
           command' \in [Operator -> Command \cup {None}],
           \A o \in Operator : command'[o] # None /\ command'[o].cmd = "register" =>
                command'[o].uri \in Endpoint
    PROVE  ResolvingIInv'
<1>1. ResolvingTyped'
  BY DEF ResolvingIInv, ResolvingTyped, resolverVars
<1>2. LooksForMeant' /\ ConnectsAsMeant'
  BY DEF ResolvingIInv, LooksForMeant, ConnectsAsMeant, StandsFor, resolverVars
<1>3. QED
  BY <1>1, <1>2 DEF ResolvingIInv

(* An operator begins a command, *)
LEMMA CommandsBegin ==
    ASSUME ResolvingIInv, NEW o \in Operator, NEW cmd, NEW n \in LogicalName, NEW u,
           NEW m \in SUBSET Property,
           \/ cmd = "register" /\ u \in Endpoint
           \/ cmd \in {"setmeta", "remove", "removematching"} /\ u = None,
           BeginCommand(o, cmd, n, u, m)
    PROVE  ResolvingIInv'
<1> DEFINE c == [cmd |-> cmd, name |-> n, uri |-> u, meta |-> m, at |-> "locate"]
<1>1. c \in Command /\ (c.cmd = "register" => c.uri \in Endpoint)
  BY DEF Command
<1>2. command' = [command EXCEPT ![o] = c] /\ UNCHANGED <<table, available, resolverVars, meant>>
  BY DEF BeginCommand, tableVars
<1> HIDE DEF c
<1>3. command' \in [Operator -> Command \cup {None}]
  BY <1>1, <1>2 DEF ResolvingIInv, ResolvingTyped
<1>4. \A q \in Operator : command'[q] = command[q] \/ command'[q] = c
  BY <1>2 DEF ResolvingIInv, ResolvingTyped
<1>5. QED
  BY <1>1, <1>2, <1>3, <1>4, CommandsKeep DEF ResolvingIInv, ResolvingTyped

(* locates the name server and is asked whether that is meant, *)
LEMMA CommandsGoOn ==
    ASSUME ResolvingIInv, NEW o \in Operator, LocateForCommand(o) \/
           \E yes \in BOOLEAN : Sure(o, yes)
    PROVE  ResolvingIInv'
<1>1. /\ command[o] # None /\ UNCHANGED <<table, available, resolverVars, meant>>
      /\ \/ EndCommand(o)
         \/ \E a \in {"sure?", "call"} : command' = [command EXCEPT ![o].at = a]
  BY DEF LocateForCommand, Sure, tableVars
<1>2. \E v \in Command \cup {None} :
        /\ command' = [command EXCEPT ![o] = v]
        /\ v # None => v.cmd = command[o].cmd /\ v.uri = command[o].uri
  <2>1. CASE EndCommand(o)
    BY <2>1 DEF EndCommand
  <2>2. ASSUME NEW a \in {"sure?", "call"}, command' = [command EXCEPT ![o].at = a]
        PROVE  \E v \in Command \cup {None} :
                 /\ command' = [command EXCEPT ![o] = v]
                 /\ v # None => v.cmd = command[o].cmd /\ v.uri = command[o].uri
    <3> DEFINE v == [command[o] EXCEPT !.at = a]
    <3>1. command[o] \in Command
      BY <1>1 DEF ResolvingIInv, ResolvingTyped
    <3>2. v \in Command /\ v.cmd = command[o].cmd /\ v.uri = command[o].uri
      BY <3>1 DEF Command
    <3>3. command' = [command EXCEPT ![o] = v]
      BY <2>2
    <3>4. QED
      BY <3>2, <3>3
  <2>3. QED
    BY <1>1, <2>1, <2>2
<1>3. /\ command' \in [Operator -> Command \cup {None}]
      /\ \A q \in Operator : command'[q] # None =>
            command[q] # None /\ command'[q].cmd = command[q].cmd /\
            command'[q].uri = command[q].uri
  BY <1>1, <1>2 DEF ResolvingIInv, ResolvingTyped
<1>4. QED
  BY <1>1, <1>3, CommandsKeep DEF ResolvingIInv, ResolvingTyped

(* and the name server's table changes. *)
LEMMA CommandsChange ==
    ASSUME ResolvingIInv, NEW o \in Operator, CallNameServer(o)
    PROVE  ResolvingIInv'
<1>1. /\ command[o] \in Command /\ UNCHANGED resolverVars
      /\ command[o].cmd = "register" => command[o].uri \in Endpoint
      /\ command' = [command EXCEPT ![o] = None]
  BY DEF CallNameServer, EndCommand, ResolvingIInv, ResolvingTyped
<1>2. CASE UNCHANGED <<table, meant>>
  <2>1. ResolvingTyped'
    BY <1>1, <1>2 DEF ResolvingIInv, ResolvingTyped, resolverVars
  <2>2. LooksForMeant' /\ ConnectsAsMeant'
    BY <1>1, <1>2 DEF ResolvingIInv, LooksForMeant, ConnectsAsMeant, StandsFor, resolverVars
  <2>3. QED
    BY <2>1, <2>2 DEF ResolvingIInv
<1>3. CASE TableBecomes(TableAfter(command[o], table))
  <2>1. table' \in [LogicalName -> NameEntry \cup {None}]
    BY <1>1, <1>3, TableAfterTyped DEF TableBecomes, ResolvingIInv, ResolvingTyped
  <2>2. meant' = [p \in Resolver |->
           IF connecting[p] = None THEN meant[p] ELSE meant[p] \cup StandsFor(p, table')]
    BY <1>3 DEF TableBecomes
  <2>3. \A p \in Resolver : connecting[p] # None => StandsFor(p, table') \subseteq Endpoint
    BY <2>1, StandsForServed DEF ResolvingIInv, LooksForMeant
  <2>4. meant' \in [Resolver -> SUBSET Endpoint]
    BY <2>2, <2>3 DEF ResolvingIInv, ResolvingTyped
  <2>5. ResolvingTyped'
    BY <1>1, <2>1, <2>4 DEF ResolvingIInv, ResolvingTyped, resolverVars
  <2>6. \A p \in Resolver : StandsFor(p, table)' = StandsFor(p, table')
    BY <1>1 DEF StandsFor, resolverVars
  <2>7. LooksForMeant'
    BY <1>1, <2>2, <2>6 DEF ResolvingIInv, LooksForMeant, resolverVars
  <2>8. ConnectsAsMeant'
    BY <1>1, <2>2 DEF ResolvingIInv, ConnectsAsMeant, resolverVars
  <2>9. QED
    BY <2>5, <2>7, <2>8 DEF ResolvingIInv
<1>4. QED
  BY <1>2, <1>3 DEF CallNameServer

(* A proxy begins to connect. *)
LEMMA ConnectingBegins ==
    ASSUME ResolvingIInv, NEW p \in Resolver, NEW how \in {"call", "bind", "reconnect"},
           BeginConnecting(p, how)
    PROVE  ResolvingIInv'
<1> DEFINE c == [how |-> how, at |-> "resolve", uri |-> None,
                 tries |-> IF how = "reconnect" THEN MaxTries ELSE 1]
<1>1. /\ given # None /\ UNCHANGED <<table, command, given, exact, bound>>
      /\ connectedTo' = [connectedTo EXCEPT ![p] = None]
      /\ connecting' = [connecting EXCEPT ![p] = c]
      /\ meant' = [meant EXCEPT ![p] = StandsFor(p, table)]
  BY DEF BeginConnecting, tableVars
<1>2. c \in Connecting /\ c.at = "resolve"
  BY ResolvingAssumption DEF Connecting
<1> HIDE DEF c
<1>3. StandsFor(p, table) \subseteq Endpoint
  BY <1>1, StandsForServed DEF ResolvingIInv, ResolvingTyped
<1>4. ResolvingTyped'
  BY <1>1, <1>2, <1>3 DEF ResolvingIInv, ResolvingTyped
<1>5. \A q \in Resolver : StandsFor(q, table)' = StandsFor(q, table)
  BY <1>1 DEF StandsFor
<1>6. LooksForMeant'
  BY <1>1, <1>2, <1>5 DEF ResolvingIInv, ResolvingTyped, LooksForMeant
<1>7. ConnectsAsMeant'
  BY <1>1 DEF ResolvingIInv, ResolvingTyped, ConnectsAsMeant
<1>8. QED
  BY <1>4, <1>6, <1>7 DEF ResolvingIInv

(* A step in which p looks for its object: it goes on, perhaps with a      *)
(* location that it is meant to reach, or gives up.                        *)
Looks(p, v) ==
    /\ v \in Connecting \cup {None} /\ connecting[p] # None
    /\ connecting' = [connecting EXCEPT ![p] = v]
    /\ v # None /\ v.at = "connect" => v.uri \in meant[p]

(* A proxy goes on with what it has found, *)
LEMMA LooksOn ==
    ASSUME ResolvingIInv, NEW p \in Resolver, connecting[p] # None, NEW a \in {"look up",
           "connect"},
           NEW u \in meant[p] \cup {None}, a = "connect" => u \in meant[p], GoesOnAt(p, a, u)
    PROVE  \E v : Looks(p, v)
<1> DEFINE v == [connecting[p] EXCEPT !.at = a, !.uri = u]
<1>1. connecting[p] \in Connecting /\ meant[p] \subseteq Endpoint
  BY DEF ResolvingIInv, ResolvingTyped
<1>2. v \in Connecting /\ v.at = a /\ v.uri = u
  BY <1>1 DEF Connecting
<1>3. connecting' = [connecting EXCEPT ![p] = v]
  BY DEF GoesOnAt
<1> HIDE DEF v
<1>4. QED
  BY <1>2, <1>3 DEF Looks

(* or tries again, or gives up: *)
LEMMA LooksAgain ==
    ASSUME ResolvingIInv, NEW p \in Resolver, connecting[p] # None, FailsOnce(p) \/ GivesUp(p)
    PROVE  \E v : Looks(p, v)
<1>1. connecting[p] \in Connecting
  BY DEF ResolvingIInv, ResolvingTyped
<1>2. CASE connecting' = [connecting EXCEPT ![p] = None]
  BY <1>2 DEF Looks
<1>3. CASE ~(connecting[p].tries <= 1) /\ FailsOnce(p)
  <2> DEFINE v == [connecting[p] EXCEPT !.at = "resolve", !.uri = None,
    !.tries = connecting[p].tries - 1]
  <2>1. connecting[p].tries - 1 \in Nat
    <3>1. connecting[p].tries \in Nat
      BY <1>1 DEF Connecting
    <3>2. QED
      BY <1>3, <3>1
  <2>2. v \in Connecting /\ v.at = "resolve"
    BY <1>1, <2>1 DEF Connecting
  <2>3. connecting' = [connecting EXCEPT ![p] = v]
    <3>1. connecting' = [connecting EXCEPT ![p] =
            IF connecting[p].tries <= 1 THEN None ELSE v]
      BY <1>3 DEF FailsOnce
    <3>2. QED
      BY <1>3, <3>1
  <2> HIDE DEF v
  <2>4. QED
    BY <2>2, <2>3 DEF Looks
<1>4. CASE GivesUp(p) \/ (FailsOnce(p) /\ connecting[p].tries <= 1)
  BY <1>2, <1>4 DEF FailsOnce, GivesUp
<1>5. QED
  BY <1>3, <1>4

(* the invariant holds, as its URI and the table stay. *)
LEMMA LooksKeep ==
    ASSUME ResolvingIInv, NEW p \in Resolver, NEW v, Looks(p, v),
           UNCHANGED <<table, command, given, exact, bound, connectedTo, meant>>
    PROVE  ResolvingIInv'
<1>1. ResolvingTyped'
  BY DEF Looks, ResolvingIInv, ResolvingTyped
<1>2. \A q \in Resolver : StandsFor(q, table)' = StandsFor(q, table)
  BY DEF StandsFor
<1>3. LooksForMeant'
  BY <1>2 DEF Looks, ResolvingIInv, ResolvingTyped, LooksForMeant
<1>4. ConnectsAsMeant'
  BY DEF ResolvingIInv, ConnectsAsMeant
<1>5. QED
  BY <1>1, <1>3, <1>4 DEF ResolvingIInv

(* A proxy resolves its URI. *)
LEMMA ResolvesOn ==
    ASSUME ResolvingIInv, NEW p \in Resolver, connecting[p] # None,
           UNCHANGED <<tableVars, available, command, given, meant, spent>>,
           BeginResolve(p) \/ LookUpName(p)
    PROVE  ResolvingIInv'
<1>1. /\ StandsFor(p, table) \subseteq meant[p]
      /\ Candidates(UriNow(p), table) = StandsFor(p, table)
      /\ Has(UriNow(p), "at") => UriNow(p).at \in StandsFor(p, table)
  BY LooksForThat DEF ResolvingIInv, LooksForMeant
<1>2. \E v : Looks(p, v)
  <2>1. CASE \E u \in meant[p] : GoesOnAt(p, "connect", u)
    BY <2>1, LooksOn
  <2>2. CASE GoesOnAt(p, "look up", None)
    BY <2>2, LooksOn
  <2>3. CASE FailsOnce(p) \/ GivesUp(p)
    BY <2>3, LooksAgain
  <2>4. QED
    BY <1>1, <2>1, <2>2, <2>3 DEF BeginResolve, LookUpName
<1>3. UNCHANGED <<table, command, given, exact, bound, connectedTo, meant>>
  BY DEF BeginResolve, LookUpName, tableVars
<1>4. QED
  BY <1>2, <1>3, LooksKeep

(* A proxy connects to what it has found. *)
LEMMA ConnectsTo ==
    ASSUME ResolvingIInv, NEW p \in Resolver, connecting[p] # None,
           UNCHANGED <<tableVars, available, command, given, meant, spent>>, ConnectTo(p)
    PROVE  ResolvingIInv'
<1>1. CASE FailsOnce(p) /\ UNCHANGED <<connectedTo, exact, bound>>
  <2>1. \E v : Looks(p, v)
    BY <1>1, LooksAgain
  <2>2. QED
    BY <1>1, <2>1, LooksKeep DEF tableVars
<1>2. CASE /\ connecting[p].at = "connect" /\ GivesUp(p)
           /\ connectedTo' = [connectedTo EXCEPT ![p] = connecting[p].uri]
           /\ exact' = [exact EXCEPT
                 ![p] = IF connecting[p].how = "bind" THEN connecting[p].uri ELSE exact[p]]
           /\ bound' = [bound EXCEPT ![p] = bound[p] \/ connecting[p].how = "bind"]
  <2>1. PICK u \in Endpoint : u = connecting[p].uri /\ u \in meant[p] /\ u # None
    BY <1>2, ResolvingAssumption DEF ResolvingIInv, ResolvingTyped, LooksForMeant
  <2>2. connecting' = [connecting EXCEPT ![p] = None]
    BY <1>2 DEF GivesUp
  <2>3. /\ bound'[p] <=> exact'[p] # None
        /\ \A q \in Resolver : q # p => bound'[q] = bound[q] /\ exact'[q] = exact[q]
        /\ bound' \in [Resolver -> BOOLEAN] /\ exact' \in [Resolver -> Endpoint \cup {None}]
    BY <1>2, <2>1 DEF ResolvingIInv, ResolvingTyped, LooksForMeant
  <2>4. ResolvingTyped'
    BY <1>2, <2>1, <2>2, <2>3 DEF ResolvingIInv, ResolvingTyped, tableVars
  <2>5. \A q \in Resolver : q # p => StandsFor(q, table)' = StandsFor(q, table)
    BY <2>3 DEF StandsFor, tableVars
  <2>6. LooksForMeant'
    <3>1. \A q \in Resolver : q # p => connecting'[q] = connecting[q] /\
          connectedTo'[q] = connectedTo[q]
      BY <1>2, <2>2 DEF ResolvingIInv, ResolvingTyped
    <3>2. connecting'[p] = None
      BY <2>2 DEF ResolvingIInv, ResolvingTyped
    <3>3. QED
      BY <2>3, <2>5, <3>1, <3>2 DEF ResolvingIInv, LooksForMeant
  <2>7. ConnectsAsMeant'
    BY <1>2, <2>1 DEF ResolvingIInv, ResolvingTyped, ConnectsAsMeant
  <2>8. QED
    BY <2>4, <2>6, <2>7 DEF ResolvingIInv
<1>3. QED
  BY <1>1, <1>2 DEF ConnectTo, Connects

(* Every step of resolving keeps the invariant. *)
LEMMA ResolvingNextKeeps == ResolvingIInv /\ [ResolvingNext]_resolvingVars => ResolvingIInv'
<1> SUFFICES ASSUME ResolvingIInv, [ResolvingNext]_resolvingVars PROVE ResolvingIInv'
  OBVIOUS
<1>1. CASE UNCHANGED resolvingVars
  BY <1>1, CommandsKeep DEF resolvingVars, tableVars, ResolvingIInv, ResolvingTyped
<1>2. CASE MakeProxies
  BY <1>2, ProxiesMade
<1>3. CASE NameServerGoes \/ \E l \in Endpoint : DaemonGoes(l)
  <2>1. ResolvingTyped'
    BY <1>3 DEF NameServerGoes, DaemonGoes, Outage, ResolvingIInv, ResolvingTyped, resolverVars
  <2>2. LooksForMeant' /\ ConnectsAsMeant'
    BY <1>3 DEF NameServerGoes, DaemonGoes, Outage, ResolvingIInv, LooksForMeant, ConnectsAsMeant,
      StandsFor, resolverVars
  <2>3. QED
    BY <2>1, <2>2 DEF ResolvingIInv
<1>4. ASSUME NEW o \in Operator,
             \/ \E n \in LogicalName, u \in Endpoint : BeginCommand(o, "register", n, u, {})
             \/ \E n \in LogicalName, m \in SUBSET Property : BeginCommand(o, "setmeta", n, None, m)
             \/ \E n \in LogicalName, cmd \in {"remove", "removematching"} :
                  BeginCommand(o, cmd, n, None, {})
             \/ LocateForCommand(o) \/ CallNameServer(o)
             \/ \E yes \in BOOLEAN : Sure(o, yes)
      PROVE  ResolvingIInv'
  BY <1>4, CommandsBegin, CommandsGoOn, CommandsChange
<1>5. ASSUME NEW p \in Resolver, NEW how \in {"call", "bind", "reconnect"}, BeginConnecting(p, how)
      PROVE  ResolvingIInv'
  BY <1>5, ConnectingBegins
<1>6. ASSUME NEW p \in Resolver, CallFindsLost(p) PROVE ResolvingIInv'
  <2>1. ResolvingTyped'
    BY <1>6 DEF CallFindsLost, ResolvingIInv, ResolvingTyped, tableVars
  <2>2. LooksForMeant' /\ ConnectsAsMeant'
    BY <1>6 DEF CallFindsLost, ResolvingIInv, ResolvingTyped, LooksForMeant, ConnectsAsMeant,
      StandsFor, tableVars
  <2>3. QED
    BY <2>1, <2>2 DEF ResolvingIInv
<1>7. ASSUME NEW p \in Resolver, connecting[p] # None,
             UNCHANGED <<tableVars, available, command, given, meant, spent>>,
             BeginResolve(p) \/ LookUpName(p) \/ ConnectTo(p)
      PROVE  ResolvingIInv'
  BY <1>7, ResolvesOn, ConnectsTo
<1>8. QED
  BY <1>1, <1>2, <1>3, <1>4, <1>5, <1>6, <1>7 DEF ResolvingNext

(* ConnectsAsMeant for any names, tags, operators and proxies: whatever a  *)
(* proxy looks up is among what its URI has stood for since it began to    *)
(* connect, because only _pyroBind replaces the URI (core lines 402-408,   *)
(* 568-569, 1897-1925).                                                    *)
THEOREM ProxiesConnectAsMeant == ResolvingSpec => []ConnectsAsMeant
<1>1. ResolvingInit => ResolvingIInv
  <2> SUFFICES ASSUME ResolvingInit PROVE ResolvingIInv
    OBVIOUS
  <2>1. ResolvingTyped
    BY DEF ResolvingInit, ResolvingTyped
  <2>2. LooksForMeant /\ ConnectsAsMeant
    BY DEF ResolvingInit, LooksForMeant, ConnectsAsMeant
  <2>3. QED
    BY <2>1, <2>2 DEF ResolvingIInv
<1>2. ResolvingIInv => ConnectsAsMeant
  BY DEF ResolvingIInv
<1>3. QED
  BY <1>1, <1>2, ResolvingNextKeeps, PTL DEF ResolvingSpec

-----------------------------------------------------------------------------
(* URIs and proxies passed: Addresses. *)

(* Where the URIs of the daemon and those that are read are. *)
UriProtocol == IdProtocol \cup {"PYROMETA"}
AtHost == {Behind[id] : id \in DOMAIN CutId}
AnyHost == PlainHost \cup Ipv6Host \cup {"", "nat"} \cup AtHost
AnyLocation ==
    {None} \cup {Unix(n) : n \in SocketName}
        \cup {Inet(b, h, q) : b \in BOOLEAN, h \in AnyHost, q \in Port \cup NatPort \cup {None}}

(* An id is in the text as it is; the tags are in it in some order. *)
SameObject(p, o, again) == IF p = "PYROMETA" THEN ToSet(again) = ToSet(o) ELSE again = o

(* The object that a URI of such a text has. *)
ObjectOf(p, o) == IF p = "PYROMETA" THEN ToSet(o) ELSE o

(* All URIs but those of an empty host, and the names of sockets. *)
HasHost(u) == u.host # ""
Named(n) == n # ""

(* What a URI has, of its text and of its location. *)
LEMMA UriParts ==
    ASSUME NEW p, NEW o, NEW l, NEW s, NEW h, NEW q, NEW u, u = UriAt(Text(p, o, l), s, h, q)
    PROVE  /\ u.protocol = p /\ u.sockname = s /\ u.host = h /\ u.port = q
           /\ u.object = ObjectOf(p, o)
BY DEF UriAt, Text, ObjectOf

(* Texts of the same object give the same URI. *)
LEMMA SameUri ==
    ASSUME NEW p, NEW o, NEW again, NEW l, NEW m, NEW s, NEW h, NEW q, SameObject(p, o, again)
    PROVE  UriAt(Text(p, again, m), s, h, q) = UriAt(Text(p, o, l), s, h, q)
BY DEF UriAt, Text, SameObject

(* A text without a location, *)
LEMMA ParsesNone ==
    ASSUME NEW p, NEW o, NEW d
    PROVE  ParseLocation(Text(p, o, None), d) = UriAt(Text(p, o, None), None, None, None)
<1> PICK t : t = Text(p, o, None)
  OBVIOUS
<1>1. t.location = None
  BY DEF Text
<1> QED
  BY <1>1 DEF ParseLocation

(* one of a socket, which needs a name, *)
LEMMA ParsesUnix ==
    ASSUME NEW p, NEW o, NEW d, NEW n, NEW l, l = Unix(n), l # None
    PROVE  ParseLocation(Text(p, o, l), d) =
             IF Named(n) THEN UriAt(Text(p, o, l), n, None, None) ELSE Invalid
<1> PICK t : t = Text(p, o, l)
  OBVIOUS
<1>1. t.location = l
  BY DEF Text
<1>2. l.unix = TRUE /\ l.name = n
  BY DEF Unix
<1> QED
  BY <1>1, <1>2 DEF ParseLocation, Named

(* and one of a host: with brackets if it is one of IPv6, and with a port. *)
LEMMA ParsesInet ==
    ASSUME NEW p, NEW o, NEW d, NEW b, NEW h, NEW q, NEW l, l = Inet(b, h, q), l # None,
           NEW r, r = IF q = None THEN d ELSE q
    PROVE  ParseLocation(Text(p, o, l), d) =
             IF b = (h \in Ipv6Host) /\ r # None THEN UriAt(Text(p, o, l), None, h, r) ELSE Invalid
<1> PICK t : t = Text(p, o, l)
  OBVIOUS
<1>1. t.location = l
  BY DEF Text
<1>2. l.unix = FALSE /\ l.bracketed = b /\ l.host = h /\ l.port = q
  BY DEF Inet
<1> QED
  BY <1>1, <1>2 DEF ParseLocation

(* A host that comes from behind a "@" is one like those of names. *)
LEMMA AtHostApart == \A h \in AtHost : h \notin Ipv6Host \cup {None, ""}
BY AddressAssumption DEF AtHost

(* A URI's location, written again, is read as the same. *)
LEMMA LocationKept ==
    ASSUME NEW p, NEW o, NEW again, NEW l \in AnyLocation, NEW d, NEW u,
           d = NsPort \/ (d = None /\ l # None),
           u = ParseLocation(Text(p, o, l), d), u # Invalid, HasHost(u),
           SameObject(p, o, again)
    PROVE  /\ u.protocol = p /\ u.object = ObjectOf(p, o)
           /\ ParseLocation(Text(p, again, location(u)), d) = u
           /\ d = None => location(u) = l
           /\ l # None => location(u) # None
<1>0. /\ u = ParseLocation(Text(p, o, l), d) /\ u # Invalid
      /\ SameObject(p, o, again)
  OBVIOUS
<1>3. CASE l = None
  <2>1. u = UriAt(Text(p, o, None), None, None, None)
    BY ONLY <1>0, <1>3, ParsesNone
  <2>2. u.protocol = p /\ u.object = ObjectOf(p, o) /\ u.host = None /\ u.sockname = None
    BY ONLY <2>1, UriParts
  <2>3. location(u) = None
    BY ONLY <2>2 DEF location
  <2>4. ParseLocation(Text(p, again, None), d) = u
    BY ONLY <1>0, <2>1, ParsesNone, SameUri
  <2> QED
    BY ONLY <1>3, <2>2, <2>3, <2>4, d = NsPort \/ (d = None /\ l # None)
<1>4. ASSUME NEW n \in SocketName, l = Unix(n), l # None
      PROVE  /\ u.protocol = p /\ u.object = ObjectOf(p, o)
             /\ ParseLocation(Text(p, again, location(u)), d) = u /\ location(u) = l
  <2>1. Named(n) /\ u = UriAt(Text(p, o, l), n, None, None)
    BY ONLY <1>0, <1>4, ParsesUnix
  <2>2. u.protocol = p /\ u.object = ObjectOf(p, o) /\ u.host = None /\ u.sockname = n
    BY ONLY <2>1, UriParts
  <2>3. n # None
    BY ONLY n \in SocketName, AddressAssumption DEF SocketName
  <2>4. location(u) = l
    BY ONLY <1>4, <2>2, <2>3 DEF location
  <2>5. ParseLocation(Text(p, again, l), d) = UriAt(Text(p, again, l), n, None, None)
    BY ONLY <1>4, <2>1, ParsesUnix
  <2>6. ParseLocation(Text(p, again, l), d) = u
    BY ONLY <1>0, <2>1, <2>5, SameUri
  <2> QED
    BY ONLY <2>2, <2>4, <2>6
<1>5. ASSUME NEW b \in BOOLEAN, NEW h \in AnyHost, NEW q \in Port \cup NatPort \cup {None},
             l = Inet(b, h, q), l # None
      PROVE  /\ u.protocol = p /\ u.object = ObjectOf(p, o)
             /\ ParseLocation(Text(p, again, location(u)), d) = u
             /\ d = None => location(u) = l
             /\ location(u) # None
  <2>1. PICK r : r = IF q = None THEN d ELSE q
    OBVIOUS
  <2>2. b = (h \in Ipv6Host) /\ r # None /\ u = UriAt(Text(p, o, l), None, h, r)
    BY ONLY <1>0, <1>5, <2>1, ParsesInet
  <2>3. u.protocol = p /\ u.object = ObjectOf(p, o) /\ u.host = h /\ u.port = r
    BY ONLY <2>2, UriParts
  <2>4. h \notin {None, ""}
    BY ONLY <2>3, h \in AnyHost, HasHost(u), AddressAssumption, AtHostApart DEF AnyHost, HasHost
  <2>5. location(u) = Inet(b, h, r)
    BY ONLY <2>2, <2>3, <2>4 DEF location
  <2>6. (d = None => r = q) /\ (r = q \/ r = NsPort)
    BY ONLY <2>1, <2>2, d = NsPort \/ (d = None /\ l # None)
  <2>7. PICK m : m = Inet(b, h, r)
    OBVIOUS
  <2>8. m # None
    <3>1. h \in PlainHost \cup Ipv6Host \cup {"nat"} \cup AtHost
      BY ONLY <2>4, h \in AnyHost, Zenon DEF AnyHost
    <3>2. None # Inet(b, h, NsPort)
      BY ONLY b \in BOOLEAN, <3>1, AddressAssumption, Zenon DEF AtHost
    <3> QED
      BY ONLY <3>2, <1>5, <2>6, <2>7, Zenon
  <2>9. ParseLocation(Text(p, again, m), d) = UriAt(Text(p, again, m), None, h, r)
    <3>1. r = IF r = None THEN d ELSE r
      BY ONLY <2>2
    <3> QED
      BY ONLY <2>2, <2>7, <2>8, <3>1, ParsesInet
  <2>10. UriAt(Text(p, again, m), None, h, r) = u
    BY ONLY <1>0, <2>2, SameUri
  <2> QED
    BY ONLY <1>5, <2>3, <2>5, <2>6, <2>7, <2>8, <2>9, <2>10
<1>6. l = None \/ (\E n \in SocketName : l = Unix(n))
        \/ \E b \in BOOLEAN, h \in AnyHost, q \in Port \cup NatPort \cup {None} : l = Inet(b, h, q)
  BY ONLY l \in AnyLocation DEF AnyLocation
<1> QED
  BY ONLY <1>3, <1>4, <1>5, <1>6

(* Whatever the order in which tags are written, they are the same set. *)
LEMMA TagsInOrder ==
    ASSUME NEW S, IsFiniteSet(S)
    PROVE  ToSet(SetToSeq(S)) = S
<1> DEFINE n == Cardinality(S)
<1> DEFINE f == SetToSeq(S)
<1>1. n \in Nat /\ ExistsBijection(1 .. n, S)
  BY FS_CardinalityType
<1>2. \E g \in [1 .. n -> S] : IsInjective(g)
  BY <1>1 DEF ExistsBijection, Bijection, Injection
<1>3. f \in [1 .. n -> S] /\ IsInjective(f)
  BY <1>2 DEF SetToSeq
<1> HIDE DEF f
<1>4. f \in Injection(1 .. n, S)
  BY <1>3 DEF Injection
<1>5. Cardinality(1 .. n) = n
  BY <1>1, FS_Interval
<1>6. f \in Surjection(1 .. n, S)
  BY <1>4, <1>5, FS_Injection
<1>7. DOMAIN f = 1 .. n /\ (\A x \in S : \E i \in 1 .. n : f[i] = x) /\ \A i \in 1 .. n : f[i] \in S
  BY <1>3, <1>6 DEF Surjection
<1>8. ToSet(f) = S
  BY <1>7 DEF ToSet
<1> QED
  BY <1>8 DEF f

(* A text that is valid is so whatever its location is, if one need not be *)
(* there.                                                                  *)
LEMMA ParsesTo ==
    ASSUME NEW p \in UriProtocol, NEW o, NEW l, NEW u,
           u = ParseParts(Text(p, o, l)), u # Invalid
    PROVE  \E d : /\ d = NsPort \/ (d = None /\ l # None)
                  /\ p = "PYRO" => d = None
                  /\ u = ParseLocation(Text(p, o, l), d)
                  /\ \A again, m : SameObject(p, o, again) /\ (l # None => m # None) =>
                        ParseParts(Text(p, again, m)) = ParseLocation(Text(p, again, m), d)
<1>1. \A a, m : Text(p, a, m).protocol = p /\ Text(p, a, m).object = a /\ Text(p, a, m).location = m
  BY DEF Text
<1>2. p = "PYROMETA" \/ o \notin BadId
  BY <1>1 DEF ParseParts, Invalid
<1>3. CASE p \in {"PYRONAME", "PYROMETA"}
  <2>1. u = ParseLocation(Text(p, o, l), NsPort)
    BY <1>1, <1>2, <1>3 DEF ParseParts
  <2>2. \A again, m : SameObject(p, o, again) =>
            ParseParts(Text(p, again, m)) = ParseLocation(Text(p, again, m), NsPort)
    BY <1>1, <1>2, <1>3 DEF ParseParts, SameObject
  <2>3. p # "PYRO"
    BY <1>3
  <2> QED
    BY <2>1, <2>2, <2>3
<1>4. CASE p = "PYRO"
  <2>1. l # None /\ u = ParseLocation(Text(p, o, l), None)
    BY <1>1, <1>2, <1>4 DEF ParseParts, Invalid
  <2>2. \A again, m : SameObject(p, o, again) /\ m # None =>
            ParseParts(Text(p, again, m)) = ParseLocation(Text(p, again, m), None)
    BY <1>1, <1>2, <1>4 DEF ParseParts, SameObject
  <2> QED
    BY <2>1, <2>2
<1>5. CASE p = "PYROWHAT"
  BY <1>1, <1>2, <1>5 DEF ParseParts, Invalid
<1> QED
  BY <1>3, <1>4, <1>5 DEF UriProtocol, IdProtocol

(* Every URI with a host, or of a socket, is the same again when its text  *)
(* is read, and nothing is cut off from it.                                *)
LEMMA TextKept ==
    ASSUME NEW p \in UriProtocol, NEW o, NEW l \in AnyLocation,
           p = "PYROMETA" => IsFiniteSet(ToSet(o)),
           NEW u, u = ParseParts(Text(p, o, l)), u # Invalid, HasHost(u)
    PROVE  /\ ParseParts(asString(u)) = u /\ u.object = ObjectOf(p, o)
           /\ p = "PYRO" => location(u) = l
           /\ asString(u).protocol = p /\ (p # "PYROMETA" => asString(u).object = o)
<1>1. PICK d : /\ d = NsPort \/ (d = None /\ l # None)
               /\ p = "PYRO" => d = None
               /\ u = ParseLocation(Text(p, o, l), d)
               /\ \A again, m : SameObject(p, o, again) /\ (l # None => m # None) =>
                     ParseParts(Text(p, again, m)) = ParseLocation(Text(p, again, m), d)
  BY ParsesTo
<1>2. SameObject(p, o, o)
  BY DEF SameObject
<1>3. /\ u.protocol = p /\ u.object = ObjectOf(p, o)
      /\ (l # None => location(u) # None) /\ (d = None => location(u) = l)
  BY ONLY <1>1, <1>2, l \in AnyLocation, u # Invalid, HasHost(u), LocationKept
<1>4. PICK again : again = IF p = "PYROMETA" THEN SetToSeq(u.object) ELSE u.object
  OBVIOUS
<1>5. SameObject(p, o, again)
  BY <1>3, <1>4, TagsInOrder DEF SameObject, ObjectOf
<1>6. asString(u) = Text(p, again, location(u))
  BY <1>3, <1>4 DEF asString
<1>7. ParseLocation(Text(p, again, location(u)), d) = u
  BY ONLY <1>1, <1>5, l \in AnyLocation, u # Invalid, HasHost(u), LocationKept
<1>8. asString(u).protocol = p /\ asString(u).object = again
  BY <1>6 DEF Text
<1>9. p # "PYROMETA" => again = o
  BY <1>5 DEF SameObject
<1> QED
  BY ONLY <1>1, <1>3, <1>5, <1>6, <1>7, <1>8, <1>9

(* Nothing is cut off from a text of tags, or of an id with no "@" inside. *)
LEMMA NotCut ==
    ASSUME NEW t, t.protocol = "PYROMETA" \/ t.object \notin DOMAIN CutId
    PROVE  Parse(t) = ParseParts(t)
BY DEF Parse, Split

(* So such a URI comes back. *)
LEMMA WholeKept ==
    ASSUME NEW p \in UriProtocol, NEW o, NEW l \in AnyLocation,
           p = "PYROMETA" => IsFiniteSet(ToSet(o)),
           p = "PYROMETA" \/ o \notin DOMAIN CutId,
           NEW u, u = ParseParts(Text(p, o, l)), u # Invalid, HasHost(u)
    PROVE  Parse(asString(u)) = u /\ u.object = ObjectOf(p, o) /\ (p = "PYRO" => location(u) = l)
<1>1. /\ ParseParts(asString(u)) = u /\ u.object = ObjectOf(p, o) /\ (p = "PYRO" => location(u) = l)
      /\ asString(u).protocol = p /\ (p # "PYROMETA" => asString(u).object = o)
  BY TextKept
<1> QED
  BY <1>1, NotCut

(* Where a daemon can listen, or be reached by NAT, or what is behind the  *)
(* "@" of an id leads to.                                                  *)
DaemonHost == PlainHost \cup Ipv6Host \cup {"nat"} \cup AtHost
DaemonLocation ==
    {Unix(n) : n \in SocketName}
        \cup {Inet(b, h, q) : b \in BOOLEAN, h \in DaemonHost,
                              q \in Port \cup NatPort \cup {None}}

(* The daemon's addresses are such locations. *)
LEMMA InetIsDaemons ==
    \A b \in BOOLEAN, h \in DaemonHost, q \in Port \cup NatPort \cup {None} :
        Inet(b, h, q) \in DaemonLocation
BY DEF DaemonLocation

(* The URI of an object of the daemon has its id, unless it is cut at a    *)
(* "@", and where the daemon is.                                           *)
LEMMA DaemonUri ==
    ASSUME NEW id, id \notin DOMAIN CutId, NEW l \in DaemonLocation \cup {None}, NEW u,
           u = ParseParts(Text("PYRO", id, l)), u # Invalid
    PROVE  u.object = id /\ location(u) = l /\ SetState(GetState(u)) = u
<1>1. l \in AnyLocation
  <2>1. DaemonHost \subseteq AnyHost
    BY DEF AnyHost, DaemonHost
  <2> QED
    BY <2>1 DEF DaemonLocation, AnyLocation
<1>2. HasHost(u)
  <2>1. PICK p : p = "PYRO"
    OBVIOUS
  <2>2. p \in UriProtocol
    BY <2>1 DEF UriProtocol, IdProtocol
  <2>3. PICK d : u = ParseLocation(Text(p, id, l), d) /\ d = None /\ l # None
    <3>1. u = ParseParts(Text(p, id, l)) /\ u # Invalid
      BY ONLY <2>1, u = ParseParts(Text("PYRO", id, l)), u # Invalid
    <3>2. PICK d : (d = NsPort \/ (d = None /\ l # None)) /\ u = ParseLocation(Text(p, id, l), d)
                     /\ (p = "PYRO" => d = None)
      BY ONLY <2>2, <3>1, ParsesTo
    <3>3. d = None /\ NsPort # None
      BY <2>1, <3>2, AddressAssumption
    <3> QED
      BY ONLY <3>2, <3>3
  <2>4. ASSUME NEW n \in SocketName, l = Unix(n)
        PROVE  HasHost(u)
    <3>1. u = UriAt(Text(p, id, l), n, None, None)
      BY ONLY <2>3, <2>4, ParsesUnix, u # Invalid
    <3>2. u.host = None
      BY ONLY <3>1, UriParts
    <3> QED
      BY ONLY <3>2, AddressAssumption DEF HasHost
  <2>5. ASSUME NEW b \in BOOLEAN, NEW h \in DaemonHost,
               NEW q \in Port \cup NatPort \cup {None}, l = Inet(b, h, q)
        PROVE  HasHost(u)
    <3>1. PICK r : r = IF q = None THEN d ELSE q
      OBVIOUS
    <3>2. u = UriAt(Text(p, id, l), None, h, r)
      BY ONLY <2>3, <2>5, <3>1, ParsesInet, u # Invalid
    <3>3. u.host = h
      BY ONLY <3>2, UriParts
    <3> QED
      BY ONLY <3>3, h \in DaemonHost, AddressAssumption, AtHostApart DEF HasHost, DaemonHost
  <2> QED
    BY <2>3, <2>4, <2>5 DEF DaemonLocation
<1>3. ObjectOf("PYRO", id) = id
  BY DEF ObjectOf
<1>4. Parse(asString(u)) = u /\ u.object = ObjectOf("PYRO", id) /\ location(u) = l
  BY <1>1, <1>2, WholeKept DEF UriProtocol, IdProtocol
<1> QED
  BY <1>3, <1>4 DEF SetState, GetState

(* Of an id with a "@" inside, what is before it is the object, and what   *)
(* is behind it is in the location.                                        *)
LEMMA Cut ==
    ASSUME NEW p, p # "PYROMETA", NEW id \in DOMAIN CutId, NEW l \in AnyLocation
    PROVE  \E m \in DaemonLocation :
             Parse(Text(p, id, l)) = ParseParts(Text(p, CutId[id], m)) /\ CutId[id] \notin DOMAIN CutId
<1>1. PICK m : m = JoinedTo(Behind[id], l)
  OBVIOUS
<1>2. Parse(Text(p, id, l)) = ParseParts(Text(p, CutId[id], m))
  <2>1. PICK t : t = Text(p, id, l)
    OBVIOUS
  <2>2. t.protocol = p /\ t.object = id /\ t.location = l
    BY <2>1 DEF Text
  <2> QED
    BY <1>1, <2>1, <2>2 DEF Parse, Split
<1>3. Behind[id] \in DaemonHost /\ FALSE \in BOOLEAN
  BY DEF DaemonHost, AtHost
<1>4. Unreadable \in DaemonLocation
  BY DEF Unreadable, DaemonLocation, SocketName
<1>5. \A q \in Port \cup NatPort \cup {None} : Inet(FALSE, Behind[id], q) \in DaemonLocation
  BY <1>3, InetIsDaemons
<1>6. ASSUME l = None \/ l.unix
      PROVE  m \in DaemonLocation
  <2>1. m = Inet(FALSE, Behind[id], None) \/ m = Unreadable
    BY ONLY <1>1, <1>6, Zenon DEF JoinedTo
  <2> QED
    BY <1>4, <1>5, <2>1
<1>7. ASSUME l # None, ~l.unix
      PROVE  m \in DaemonLocation
  <2>1. \A n : Unix(n).unix = TRUE
    BY DEF Unix
  <2>2. PICK b \in BOOLEAN, h \in AnyHost, q \in Port \cup NatPort \cup {None} : l = Inet(b, h, q)
    BY <1>7, <2>1 DEF AnyLocation
  <2>3. l.port = q
    BY <2>2 DEF Inet
  <2>4. m = Inet(FALSE, Behind[id], l.port) \/ m = Unreadable
    BY ONLY <1>1, <1>7, Zenon DEF JoinedTo
  <2> QED
    BY <1>4, <1>5, <2>3, <2>4
<1>8. CutId[id] \notin DOMAIN CutId
  BY AddressAssumption
<1> QED
  BY <1>2, <1>6, <1>7, <1>8

(* Whatever the id, a URI that the daemon made comes back as it was, and   *)
(* it is the object's if nothing is cut off.                               *)
LEMMA UriComesBack ==
    ASSUME NEW id, NEW l \in DaemonLocation \cup {None}, NEW u,
           u = Parse(Text("PYRO", id, l)), u # Invalid
    PROVE  /\ SetState(GetState(u)) = u
           /\ id \notin DOMAIN CutId => u.object = id /\ location(u) = l
<1>1. CASE id \notin DOMAIN CutId
  <2>1. Text("PYRO", id, l).object = id
    BY DEF Text
  <2>2. u = ParseParts(Text("PYRO", id, l))
    BY <1>1, <2>1, NotCut
  <2> QED
    BY <1>1, <2>2, DaemonUri
<1>2. CASE id \in DOMAIN CutId
  <2>1. l \in AnyLocation
    <3>1. DaemonHost \subseteq AnyHost
      BY DEF AnyHost, DaemonHost
    <3> QED
      BY <3>1 DEF DaemonLocation, AnyLocation
  <2>2. PICK m \in DaemonLocation :
          u = ParseParts(Text("PYRO", CutId[id], m)) /\ CutId[id] \notin DOMAIN CutId
    BY <1>2, <2>1, Cut
  <2> QED
    BY <1>2, <2>2, DaemonUri
<1> QED
  BY <1>1, <1>2

AddressTyped ==
    /\ listening # None =>
        listening.inner \in DaemonLocation /\ listening.nat \in DaemonLocation \cup {None}
    /\ published \in [ObjectId -> PyroObject \cup {None}]
    /\ idOf \in [PyroObject -> ObjectId \cup {None}]
    /\ attached \subseteq PyroObject
    /\ passed # None => passed.object \in PyroObject /\ listening # None
    /\ autoproxy \in BOOLEAN /\ idGiven \in BOOLEAN

(* The objects and their ids are paired, unless some were given away. *)
Paired ==
    ~idGiven =>
        /\ \A o \in attached : idOf[o] # None
        /\ \A o \in PyroObject, id \in ObjectId : published[id] = o <=> idOf[o] = id

(* What is registered knows its daemon, unless marshal has taken it away. *)
Attached ==
    /\ listening = None => \A id \in ObjectId : published[id] = None
    /\ autoproxy /\ ~idGiven =>
        \A id \in ObjectId : published[id] # None => published[id] \in attached \cup marshalled

AddressIInv == AddressTyped /\ Paired /\ Attached /\ UriKept /\ LeadsBack

(* None is no object and no id. *)
LEMMA NoneApart == None \notin PyroObject /\ None \notin ObjectId
BY AddressAssumption

(* No object has an id at first, and nothing has been passed. *)
LEMMA AddressesStart ==
    ASSUME AddressInit
    PROVE  AddressIInv
<1>1. AddressTyped
  BY DEF AddressInit, AddressTyped
<1> QED
  BY <1>1, NoneApart DEF AddressInit, AddressIInv, Paired, Attached, UriKept, LeadsBack

(* A URI is read. *)
LEMMA ReadKeeps ==
    ASSUME AddressIInv, listening = None, NEW t \in IdTexts \cup TagTexts, ReadUri(t)
    PROVE  AddressIInv'
<1>1. \E p \in UriProtocol, l \in AnyLocation : \E o :
        t = Text(p, o, l) /\ (p = "PYROMETA" => IsFiniteSet(ToSet(o)))
  <2>1. Location \subseteq AnyLocation
    <3>1. UriHost \subseteq AnyHost
      BY DEF UriHost, AnyHost
    <3> QED
      BY <3>1 DEF Location, AnyLocation
  <2>2. CASE \E p \in IdProtocol, o \in ObjectId, l \in Location : t = Text(p, o, l)
    <3>1. PICK p \in IdProtocol, o \in ObjectId, l \in Location : t = Text(p, o, l)
      BY <2>2
    <3>2. p # "PYROMETA" /\ p \in UriProtocol /\ l \in AnyLocation
      BY <2>1 DEF UriProtocol, IdProtocol
    <3> QED
      BY ONLY <3>1, <3>2
  <2>3. CASE \E m \in SetToAllKPermutations(MetaTag), l \in Location : t = Text("PYROMETA", m, l)
    <3>1. PICK m \in SetToAllKPermutations(MetaTag), l \in Location : t = Text("PYROMETA", m, l)
      BY <2>3
    <3>2. PICK S \in SUBSET MetaTag : m \in [1 .. Cardinality(S) -> S]
      BY DEF SetToAllKPermutations, SetToSeqs
    <3>3. ToSet(m) \subseteq MetaTag
      BY <3>2 DEF ToSet
    <3>4. IsFiniteSet(ToSet(m))
      BY <3>3, FS_Subset, AddressAssumption
    <3>5. l \in AnyLocation /\ "PYROMETA" \in UriProtocol
      BY <2>1 DEF UriProtocol
    <3> QED
      BY ONLY <3>1, <3>4, <3>5
  <2> QED
    BY <2>2, <2>3 DEF IdTexts, TagTexts
<1>2. PICK u : u = Parse(t)
  OBVIOUS
<1>3. u # Invalid /\ read'.uri = u /\ read'.again = Parse(asString(u))
  BY <1>2 DEF ReadUri
<1>4. HasHost(u) => Parse(asString(u)) = u
  <2>1. PICK p, l, o :
          /\ p \in UriProtocol /\ l \in AnyLocation
          /\ t = Text(p, o, l) /\ (p = "PYROMETA" => IsFiniteSet(ToSet(o)))
    BY <1>1
  <2>2. CASE p = "PYROMETA" \/ o \notin DOMAIN CutId
    <3>1. t.protocol = p /\ t.object = o
      BY <2>1 DEF Text
    <3>2. u = ParseParts(Text(p, o, l))
      BY <1>2, <2>1, <2>2, <3>1, NotCut
    <3> QED
      BY ONLY <1>3, <2>1, <2>2, <3>2, WholeKept
  <2>3. CASE p # "PYROMETA" /\ o \in DOMAIN CutId
    <3>1. PICK m \in DaemonLocation :
            u = ParseParts(Text(p, CutId[o], m)) /\ CutId[o] \notin DOMAIN CutId
      BY <1>2, <2>1, <2>3, Cut
    <3>2. m \in AnyLocation
      <4>1. DaemonHost \subseteq AnyHost
        BY DEF AnyHost, DaemonHost
      <4> QED
        BY <4>1 DEF DaemonLocation, AnyLocation
    <3>3. p \in UriProtocol
      BY <2>1
    <3> QED
      BY ONLY <1>3, <2>3, <3>1, <3>2, <3>3, WholeKept
  <2> QED
    BY <2>2, <2>3
<1>5. UriKept'
  BY ONLY <1>3, <1>4 DEF UriKept, HasHost
<1>6. UNCHANGED <<listening, autoproxy, objectVars, proxy, passed>>
  BY DEF ReadUri
<1> QED
  BY <1>5, <1>6 DEF AddressIInv, AddressTyped, objectVars, Paired, Attached, LeadsBack

(* The daemon listens, and has a NAT address or none. *)
LEMMA ListenKeeps ==
    ASSUME AddressIInv, NEW inner, NEW host \in {None, "nat"}, NEW natport, NEW auto \in BOOLEAN,
           \/ \E h \in PlainHost \cup Ipv6Host, p \in Port :
                inner = Inet(h \in Ipv6Host, h, p) /\ natport \in NatPort
           \/ host = None /\ \E name \in SocketName : inner = Unix(name),
           Listen(inner, host, natport, auto)
    PROVE  AddressIInv'
<1>1. /\ listening = None /\ autoproxy' = auto /\ listening'.inner = inner
      /\ listening'.nat = IF host = None THEN None
                          ELSE Inet(FALSE, host, IF natport = 0 THEN inner.port ELSE natport)
      /\ UNCHANGED <<objectVars, proxy, passed, read>>
  BY DEF Listen
<1>2. inner \in DaemonLocation
  <2>1. CASE \E n \in SocketName : inner = Unix(n)
    BY ONLY <2>1 DEF DaemonLocation
  <2>2. CASE \E h \in PlainHost \cup Ipv6Host, p \in Port : inner = Inet(h \in Ipv6Host, h, p)
    <3>1. PICK h \in PlainHost \cup Ipv6Host, p \in Port : inner = Inet(h \in Ipv6Host, h, p)
      BY <2>2
    <3>2. h \in DaemonHost /\ (h \in Ipv6Host) \in BOOLEAN /\ p \in Port \cup NatPort
      BY DEF DaemonHost
    <3> QED
      BY ONLY <3>1, <3>2, InetIsDaemons, Zenon
  <2> QED
    BY <2>1, <2>2
<1>3. CASE host = None
  <2>1. AddressTyped'
    BY <1>1, <1>2, <1>3 DEF AddressIInv, AddressTyped, objectVars
  <2> QED
    BY <1>1, <2>1 DEF AddressIInv, Paired, Attached, UriKept, LeadsBack, AddressTyped, objectVars
<1>4. CASE host # None
  <2>1. PICK h \in PlainHost \cup Ipv6Host, p \in Port :
          inner = Inet(h \in Ipv6Host, h, p) /\ natport \in NatPort
    BY <1>4
  <2>2. inner.port = p
    BY <2>1 DEF Inet
  <2>3. PICK q \in Port \cup NatPort : q = IF natport = 0 THEN inner.port ELSE natport
    BY <2>1, <2>2
  <2>4. listening'.nat = Inet(FALSE, host, q) /\ host \in DaemonHost
    BY <1>1, <1>4, <2>3 DEF DaemonHost
  <2>5. listening'.nat \in DaemonLocation
    <3>1. FALSE \in BOOLEAN
      OBVIOUS
    <3> QED
      BY ONLY <2>4, q \in Port \cup NatPort, <3>1, InetIsDaemons, Zenon
  <2>6. AddressTyped'
    BY <1>1, <1>2, <2>5 DEF AddressIInv, AddressTyped, objectVars
  <2> QED
    BY <1>1, <2>6 DEF AddressIInv, Paired, Attached, UriKept, LeadsBack, AddressTyped, objectVars
<1> QED
  BY <1>3, <1>4

(* An object is registered, by force or with an id that is free. *)
LEMMA RegisterKeeps ==
    ASSUME AddressIInv, NEW o \in PyroObject, NEW id \in ObjectId, NEW force \in BOOLEAN,
           RegisterObject(o, id, force)
    PROVE  AddressIInv'
<1>1. /\ listening # None /\ passed' = None /\ UNCHANGED <<listening, autoproxy, read>>
      /\ force \/ (idOf[o] = None /\ published[id] = None)
      /\ idOf' = [idOf EXCEPT ![o] = id] /\ attached' = attached \cup {o}
      /\ published' = [published EXCEPT ![id] = o]
      /\ idGiven' = (idGiven \/ force) /\ marshalled' = marshalled \ {o}
  BY DEF RegisterObject, Steps, listenVars
<1>2. AddressTyped'
  BY <1>1 DEF AddressIInv, AddressTyped
<1>3. UriKept' /\ LeadsBack'
  BY <1>1 DEF AddressIInv, UriKept, LeadsBack
<1>4. ASSUME ~idGiven'
      PROVE  Paired' /\ Attached'
  <2>1. ~idGiven /\ ~force /\ idOf[o] = None /\ published[id] = None
    BY <1>1, <1>4 DEF AddressIInv, AddressTyped
  <2>2. \A p \in PyroObject : idOf'[p] = IF p = o THEN id ELSE idOf[p]
    BY <1>1 DEF AddressIInv, AddressTyped
  <2>3. \A i \in ObjectId : published'[i] = IF i = id THEN o ELSE published[i]
    BY <1>1 DEF AddressIInv, AddressTyped
  <2>4. ASSUME NEW p \in PyroObject, NEW i \in ObjectId
        PROVE  published'[i] = p <=> idOf'[p] = i
    BY <2>1, <2>2, <2>3, NoneApart DEF AddressIInv, Paired
  <2>5. \A p \in attached' : idOf'[p] # None
    <3>1. attached \subseteq PyroObject
      BY DEF AddressIInv, AddressTyped
    <3> QED
      BY <1>1, <2>1, <2>2, <3>1, NoneApart DEF AddressIInv, Paired
  <2>6. \A i \in ObjectId : autoproxy /\ published'[i] # None =>
        published'[i] \in attached' \cup marshalled'
    BY <1>1, <2>1, <2>3 DEF AddressIInv, Attached
  <2> QED
    BY <1>1, <2>4, <2>5, <2>6 DEF Paired, Attached
<1> QED
  BY <1>1, <1>2, <1>3, <1>4 DEF AddressIInv, Paired, Attached

(* An object is unregistered and forgets its id and its daemon. *)
LEMMA UnregisterKeeps ==
    ASSUME AddressIInv, NEW o \in PyroObject, Unregister(o)
    PROVE  AddressIInv'
<1>1. PICK id \in ObjectId : id = idOf[o]
  BY DEF AddressIInv, AddressTyped, Unregister, Withdraw
<1>2. /\ listening # None /\ passed' = None /\ UNCHANGED <<listening, autoproxy, read, idGiven>>
      /\ published[id] # None
      /\ idOf' = [idOf EXCEPT ![o] = None] /\ attached' = attached \ {o}
      /\ published' = [published EXCEPT ![id] = None]
      /\ marshalled' = marshalled \ {o}
  BY <1>1 DEF Unregister, Withdraw, Steps, listenVars
<1>3. AddressTyped'
  BY <1>2 DEF AddressIInv, AddressTyped
<1>4. UriKept' /\ LeadsBack'
  BY <1>2 DEF AddressIInv, UriKept, LeadsBack
<1>5. ASSUME ~idGiven'
      PROVE  Paired' /\ Attached'
  <2>1. ~idGiven /\ published[id] = o
    BY <1>1, <1>2, <1>5 DEF AddressIInv, AddressTyped, Paired
  <2>2. \A p \in PyroObject : idOf'[p] = IF p = o THEN None ELSE idOf[p]
    BY <1>2 DEF AddressIInv, AddressTyped
  <2>3. \A i \in ObjectId : published'[i] = IF i = id THEN None ELSE published[i]
    BY <1>2 DEF AddressIInv, AddressTyped
  <2>4. ASSUME NEW p \in PyroObject, NEW i \in ObjectId
        PROVE  published'[i] = p <=> idOf'[p] = i
    BY <1>1, <2>1, <2>2, <2>3, NoneApart DEF AddressIInv, Paired
  <2>5. \A p \in attached' : idOf'[p] # None
    <3>1. attached \subseteq PyroObject
      BY DEF AddressIInv, AddressTyped
    <3> QED
      BY <1>2, <2>1, <2>2, <3>1 DEF AddressIInv, Paired
  <2>6. ASSUME NEW i \in ObjectId, autoproxy, published'[i] # None
        PROVE  published'[i] \in attached' \cup marshalled'
    <3>1. i # id /\ published'[i] = published[i] /\ published[i] # o
      BY <1>1, <2>1, <2>3, <2>6 DEF AddressIInv, Paired
    <3> QED
      BY <1>2, <2>1, <2>6, <3>1 DEF AddressIInv, Attached
  <2> QED
    BY <1>2, <2>4, <2>5, <2>6 DEF Paired, Attached
<1> QED
  BY <1>2, <1>3, <1>4, <1>5 DEF AddressIInv, Paired, Attached

(* An object is unregistered by its id, or a proxy is made, or sent:       *)
(* nothing is passed by these.                                             *)
LEMMA OthersKeep ==
    ASSUME AddressIInv,
           (\E id \in ObjectId : UnregisterById(id)) \/ SendProxy
             \/ \E o \in PyroObject, nat \in BOOLEAN : MakeProxy(o, nat)
    PROVE  AddressIInv'
<1>1. CASE \E id \in ObjectId : UnregisterById(id)
  <2>1. PICK id \in ObjectId : UnregisterById(id)
    BY <1>1
  <2>2. /\ passed' = None /\ UNCHANGED <<listening, autoproxy, read, idOf, attached, marshalled>>
        /\ published' = [published EXCEPT ![id] = None] /\ idGiven' = TRUE /\ listening # None
    BY <2>1 DEF UnregisterById, Steps, listenVars
  <2> QED
    BY <2>2 DEF AddressIInv, AddressTyped, Paired, Attached, UriKept, LeadsBack
<1>2. CASE SendProxy \/ \E o \in PyroObject, nat \in BOOLEAN : MakeProxy(o, nat)
  <2>1. passed' = None /\ UNCHANGED <<listenVars, objectVars>>
    BY <1>2 DEF SendProxy, MakeProxy, Steps
  <2> QED
    BY <2>1 DEF AddressIInv, AddressTyped, Paired, Attached, UriKept, LeadsBack,
       listenVars, objectVars
<1> QED
  BY <1>1, <1>2

(* An object is passed, as a proxy or as itself. *)
LEMMA SendKeeps ==
    ASSUME AddressIInv, NEW o \in PyroObject, NEW packer \in Packer, SendObject(o, packer)
    PROVE  AddressIInv'
<1>1. /\ listening # None /\ passed'.object = o /\ passed'.proxy = proxy'
      /\ marshalled' = IF packer = "marshal" THEN marshalled \cup {o} ELSE marshalled
      /\ UNCHANGED <<listening, autoproxy, read, published, idOf, registrations, idGiven>>
  BY DEF SendObject, listenVars
<1>2. attached' \subseteq attached
  BY DEF SendObject, SendAsProxy, SendAsItself
<1>3. /\ AddressTyped' /\ UriKept' /\ Paired'
  BY <1>1, <1>2 DEF AddressIInv, AddressTyped, UriKept, Paired
<1>4. CASE SendAsProxy(o, packer)
  <2>1. PICK u : u = UriFor(idOf[o], TRUE)
    OBVIOUS
  <2>2. /\ o \in attached /\ attached' = attached
        /\ published[idOf[o]] # None /\ u # Invalid /\ proxy' = SetState(GetState(u))
    BY <1>4, <2>1 DEF SendAsProxy
  <2>3. PICK l \in DaemonLocation \cup {None} : l = IF listening.nat # None THEN listening.nat ELSE listening.inner
    BY <1>1 DEF AddressIInv, AddressTyped
  <2>4. u = Parse(Text("PYRO", idOf[o], l))
    BY <2>1, <2>3 DEF UriFor
  <2>5. proxy' = u /\ (idOf[o] \notin DOMAIN CutId => u.object = idOf[o] /\ location(u) = l)
    BY ONLY <2>2, <2>3, <2>4, UriComesBack
  <2>6. ASSUME ~idGiven
        PROVE  idOf[o] \in ObjectId /\ published[idOf[o]] = o
    BY <2>2, <2>6 DEF AddressIInv, AddressTyped, Paired
  <2>7. LeadsBack'
    <3>1. \/ idGiven'
          \/ /\ proxy' # None /\ idOf[o] \in ObjectId /\ published'[idOf[o]] = o
             /\ idOf'[o] \notin DOMAIN CutId =>
                  /\ published'[proxy'.object] = o
                  /\ location(proxy') = IF listening'.nat = None THEN listening'.inner ELSE listening'.nat
      BY <1>1, <2>2, <2>3, <2>5, <2>6 DEF Invalid
    <3> QED
      BY <1>1, <3>1 DEF LeadsBack, LeadsTo
  <2>8. Attached'
    BY <1>1, <2>2 DEF AddressIInv, Attached
  <2> QED
    BY <1>3, <2>7, <2>8 DEF AddressIInv
<1>5. CASE SendAsItself(o, packer)
  <2>1. /\ ~(autoproxy /\ packer # "marshal" /\ o \in attached)
        /\ attached' = attached \/ attached' = attached \ {o}
        /\ proxy' = None
    BY <1>5 DEF SendAsItself, Replaced
  <2>2. autoproxy /\ o \in attached => o \in marshalled'
    BY <1>1, <2>1
  <2>3. ASSUME autoproxy, ~idGiven, NEW id \in ObjectId, published[id] # None
        PROVE  published[id] \in attached' \cup marshalled'
    <3>1. published[id] \in attached \cup marshalled
      BY <2>3 DEF AddressIInv, Attached
    <3> QED
      BY <1>1, <2>1, <2>2, <2>3, <3>1
  <2>4. ASSUME autoproxy, ~idGiven, NEW id \in ObjectId, published[id] = o
        PROVE  o \in marshalled'
    <3>1. o \in attached \cup marshalled
      BY <2>4, NoneApart DEF AddressIInv, Attached
    <3> QED
      BY <1>1, <2>2, <2>4, <3>1
  <2>5. LeadsBack'
    BY <1>1, <2>1, <2>4 DEF LeadsBack
  <2>6. Attached'
    BY <1>1, <2>3 DEF Attached
  <2> QED
    BY <1>3, <2>5, <2>6 DEF AddressIInv
<1> QED
  BY <1>4, <1>5 DEF SendObject

(* Unless ids were given away, objects and ids are paired, and what is     *)
(* registered has its daemon unless marshal took it away.                  *)
THEOREM AddressesAreSafe == AddressSpec => []AddressIInv
<1>1. AddressInit => AddressIInv
  BY AddressesStart
<1>2. AddressIInv /\ [AddressNext]_addressVars => AddressIInv'
  <2>1. SUFFICES ASSUME AddressIInv, [AddressNext]_addressVars
                 PROVE  AddressIInv'
    OBVIOUS
  <2>2. CASE listening = None /\ \E t \in IdTexts \cup TagTexts : ReadUri(t)
    BY <2>1, <2>2, ReadKeeps
  <2>3. ASSUME NEW h \in PlainHost \cup Ipv6Host, NEW n \in {None, "nat"},
               NEW p \in Port, NEW q \in NatPort,
               NEW auto \in {TRUE, n # None}, Listen(Inet(h \in Ipv6Host, h, p), n, q, auto)
        PROVE  AddressIInv'
    <3>1. auto \in BOOLEAN
      OBVIOUS
    <3> QED
      BY ONLY <2>1, <2>3, <3>1, n \in {None, "nat"}, h \in PlainHost \cup Ipv6Host,
         p \in Port, q \in NatPort,
              ListenKeeps
  <2>4. ASSUME NEW name \in {"sock"}, Listen(Unix(name), None, 0, TRUE)
        PROVE  AddressIInv'
    <3>1. name \in SocketName /\ TRUE \in BOOLEAN /\ None \in {None, "nat"}
      BY DEF SocketName
    <3> QED
      BY ONLY <2>1, <2>4, <3>1, ListenKeeps
  <2>5. CASE \E o \in PyroObject :
               \/ Unregister(o) \/ \E packer \in Packer : SendObject(o, packer)
               \/ \E id \in ObjectId, force \in BOOLEAN : RegisterObject(o, id, force)
               \/ \E nat \in BOOLEAN : MakeProxy(o, nat)
    BY <2>1, <2>5, UnregisterKeeps, SendKeeps, RegisterKeeps, OthersKeep
  <2>6. CASE SendProxy \/ \E id \in ObjectId : UnregisterById(id)
    BY <2>1, <2>6, OthersKeep
  <2>7. CASE UNCHANGED addressVars
    BY <2>1, <2>7 DEF AddressIInv, AddressTyped, Paired, Attached, UriKept, LeadsBack, LeadsTo,
       listenVars, objectVars, addressVars
  <2> QED
    BY <2>1, <2>2, <2>3, <2>4, <2>5, <2>6, <2>7 DEF AddressNext
<1> QED
  BY <1>1, <1>2, PTL DEF AddressSpec

(* AddressInv for any objects, ids, tags, hosts and ports and any          *)
(* registrations: a URI survives its text, and what is passed as a proxy   *)
(* leads back to the object, unless its id has a "@" inside, which is cut  *)
(* there (core lines 50-137, 1590-1700, 947-954 and 311-352, util lines    *)
(* 285-286 and 593-621).                                                   *)
THEOREM UrisLeadBack == AddressSpec => []AddressInv
<1>1. AddressIInv => AddressInv
  BY DEF AddressIInv, AddressInv
<1> QED
  BY <1>1, AddressesAreSafe, PTL

-----------------------------------------------------------------------------
(* Sockets: Sockets. *)

SocketsTyped ==
    /\ sockets \in Nat
    /\ prefer # None => prefer \in [Process -> {0, 4, 6}]
    /\ prefer = None => /\ servers = {}
                        /\ \A p \in Process : attempt[p] = None /\ result[p] = None
    /\ attempt = [p \in Process |-> attempt[p]] /\ result = [p \in Process |-> result[p]]

(* Each server has an address and a number of its own. *)
ServersApart ==
    /\ \A s \in servers :
        /\ s.no \in Nat /\ s.no <= sockets
        /\ s.by \in Process /\ s.family = BindFamily(s.by, s.host)
    /\ \A s, t \in servers :
        SameAddress(s, t.host, t.family, t.port) \/ s.no = t.no => s = t

AttemptsMeant ==
    \A p \in Process :
        attempt[p] # None =>
            /\ attempt[p].family = ConnectFamily(p, attempt[p].to.host)
            /\ attempt[p].to.no \in Nat /\ attempt[p].to.no <= sockets

ResultsPast ==
    \A p \in Process :
        result[p] # None => result[p].to.no \in Nat /\ result[p].to.no <= sockets

SocketsIInv ==
    SocketsTyped /\ ServersApart /\ AttemptsMeant /\ ResultsPast /\ MeetsServer

(* An assignment to one process's entry leaves the others alone. *)
LEMMA EntriesSet ==
    ASSUME NEW f, f = [q \in Process |-> f[q]], NEW g, NEW p \in Process, NEW v,
           g = [f EXCEPT ![p] = v]
    PROVE  /\ g = [q \in Process |-> g[q]] /\ g[p] = v
           /\ \A q \in Process : q # p => g[q] = f[q]
  OBVIOUS

(* A process that prefers what the server's does takes the same family. *)
LEMMA SameFamily ==
    ASSUME SocketsTyped, NEW p \in Process, NEW q \in Process, NEW h,
           prefer # None, prefer[p] = prefer[q], ~(prefer[p] = 6 /\ h = "any")
    PROVE  ConnectFamily(p, h) = BindFamily(q, h)
<1>1. CASE h # "any"
  BY <1>1 DEF ConnectFamily, BindFamily
<1>2. CASE h = "any"
  <2>1. Versions["any"] = {4}
    BY DEF Versions
  <2>2. prefer[p] \in {0, 4} /\ None # 4
    BY <1>2, SocketsAssumption DEF SocketsTyped
  <2>3. GetAddr("any", 0) = 4
    <3>1. {4} # {4, 6}
      BY ONLY TRUE
    <3>2. (CHOOSE v \in {4} : TRUE) = 4
      OBVIOUS
    <3>3. QED
      BY <2>1, <3>1, <3>2 DEF GetAddr
  <2>4. GetAddr("any", 4) = 4
    BY <2>1 DEF GetAddr
  <2>5. GetIpAddress("any", prefer[p]) = 4
    BY <2>2, <2>3, <2>4 DEF GetIpAddress
  <2>6. QED
    BY <1>2, <2>5 DEF ConnectFamily, BindFamily
<1>3. QED
  BY <1>1, <1>2

(* Steps that leave the servers, and what connects to them. *)
LEMMA ServersStay ==
    ASSUME SocketsIInv, UNCHANGED <<prefer, osFirst, attempt, result>>,
           servers' \subseteq servers, sockets' \in {sockets, sockets + 1}
    PROVE  SocketsIInv'
<1>1. SocketsTyped'
  BY DEF SocketsIInv, SocketsTyped
<1>2. \A p, h : BindFamily(p, h)' = BindFamily(p, h) /\ ConnectFamily(p, h)' = ConnectFamily(p, h)
  BY DEF BindFamily, ConnectFamily, GetIpAddress, GetAddr
<1>3. sockets \in Nat
  BY DEF SocketsIInv, SocketsTyped
<1>4. ServersApart'
  BY <1>2, <1>3 DEF SocketsIInv, ServersApart, SameAddress
<1>5. AttemptsMeant' /\ ResultsPast'
  BY <1>2, <1>3 DEF SocketsIInv, AttemptsMeant, ResultsPast
<1>6. MeetsServer'
  BY DEF SocketsIInv, MeetsServer
<1>7. QED
  BY <1>1, <1>4, <1>5, <1>6 DEF SocketsIInv

(* The preferred version of IP is set. *)
LEMMA Configures ==
    ASSUME SocketsIInv, ConfigureSockets
    PROVE  SocketsIInv'
<1>1. /\ servers = {} /\ servers' = {} /\ prefer' \in [Process -> {0, 4, 6}]
      /\ \A p \in Process : attempt[p] = None /\ result[p] = None
      /\ UNCHANGED <<attempt, result, sockets>>
  BY DEF ConfigureSockets, SocketsIInv, SocketsTyped
<1>2. SocketsTyped'
  BY <1>1 DEF SocketsIInv, SocketsTyped
<1>3. ServersApart' /\ AttemptsMeant' /\ ResultsPast' /\ MeetsServer'
  BY <1>1 DEF ServersApart, AttemptsMeant, ResultsPast, MeetsServer
<1>4. QED
  BY <1>2, <1>3 DEF SocketsIInv

(* A server binds its socket and listens. *)
LEMMA Listens ==
    ASSUME SocketsIInv, NEW p \in Process, NEW h \in HostName, NEW asked, ListenAt(p, h, asked)
    PROVE  SocketsIInv'
<1> DEFINE family == BindFamily(p, h)
           port == PortGiven(asked, sockets + 1)
<1>1. /\ prefer # None /\ sockets' = sockets + 1
      /\ UNCHANGED <<prefer, osFirst, waiting, attempt, result>>
  BY DEF ListenAt
<1>2. CASE servers' = servers
  BY <1>1, <1>2, ServersStay
<1>3. CASE servers' # servers
  <2>1. PICK new : new = [by |-> p, host |-> h, family |-> family, port |-> port,
                          no |-> sockets + 1]
    OBVIOUS
  <2>2. /\ servers' = servers \cup {new}
        /\ \A s \in servers : ~SameAddress(s, h, family, port)
    BY <1>3, <2>1 DEF ListenAt
  <2>3. sockets \in Nat
    BY DEF SocketsIInv, SocketsTyped
  <2>4. /\ new.by = p /\ new.host = h /\ new.family = BindFamily(p, h) /\ new.port = port
        /\ new.no = sockets + 1
    BY <2>1
  <2>5. \A q, g : BindFamily(q, g)' = BindFamily(q, g) /\ ConnectFamily(q, g)' = ConnectFamily(q, g)
    BY <1>1 DEF BindFamily, ConnectFamily, GetIpAddress, GetAddr
  <2>6. SocketsTyped'
    BY <1>1, <2>2, <2>3 DEF SocketsIInv, SocketsTyped
  <2>7. ServersApart'
    <3>1. \A s \in servers' :
            /\ s.no \in Nat /\ s.no <= sockets'
            /\ s.by \in Process /\ s.family = BindFamily(s.by, s.host)
      BY <1>1, <2>2, <2>3, <2>4 DEF SocketsIInv, ServersApart
    <3>2. ASSUME NEW s \in servers
          PROVE  /\ ~SameAddress(s, new.host, new.family, new.port)
                 /\ ~SameAddress(new, s.host, s.family, s.port) /\ s.no # new.no
      <4>1. ~SameAddress(s, new.host, new.family, new.port)
        BY <2>2, <2>4
      <4>2. ~SameAddress(new, s.host, s.family, s.port)
        BY <4>1 DEF SameAddress
      <4>3. s.no # new.no
        BY <2>3, <2>4 DEF SocketsIInv, ServersApart
      <4>4. QED
        BY <4>1, <4>2, <4>3
    <3>3. \A s, t \in servers' :
            SameAddress(s, t.host, t.family, t.port) \/ s.no = t.no => s = t
      BY <2>2, <3>2 DEF SocketsIInv, ServersApart
    <3>4. QED
      BY <2>5, <3>1, <3>3 DEF ServersApart, SameAddress
  <2>8. AttemptsMeant' /\ ResultsPast'
    BY <1>1, <2>3, <2>5 DEF SocketsIInv, AttemptsMeant, ResultsPast
  <2>9. MeetsServer'
    <3>1. \A q \in Process : result[q] # None => result[q].to # new
      BY <2>3, <2>4 DEF SocketsIInv, ResultsPast
    <3>2. QED
      BY <1>1, <2>2, <3>1 DEF SocketsIInv, MeetsServer
  <2>10. QED
    BY <2>6, <2>7, <2>8, <2>9 DEF SocketsIInv
<1>4. QED
  BY <1>2, <1>3

(* A proxy begins to connect to a server. *)
LEMMA ConnectBegins ==
    ASSUME SocketsIInv, NEW p \in Process, NEW s \in servers, BeginConnect(p, s)
    PROVE  SocketsIInv'
<1>1. PICK a : a = [to |-> s, family |-> ConnectFamily(p, s.host), no |-> sockets']
  OBVIOUS
<1>2. /\ sockets' = sockets + 1 /\ result' = [result EXCEPT ![p] = None]
      /\ attempt' = [attempt EXCEPT ![p] = a] /\ UNCHANGED <<prefer, osFirst, servers, waiting>>
  BY <1>1 DEF BeginConnect
<1>3. sockets \in Nat /\ prefer # None
  BY DEF SocketsIInv, SocketsTyped
<1>4. /\ attempt' = [q \in Process |-> attempt'[q]] /\ attempt'[p] = a
      /\ \A q \in Process : q # p => attempt'[q] = attempt[q]
      /\ result' = [q \in Process |-> result'[q]] /\ result'[p] = None
      /\ \A q \in Process : q # p => result'[q] = result[q]
  <2>1. attempt = [q \in Process |-> attempt[q]] /\ result = [q \in Process |-> result[q]]
    BY DEF SocketsIInv, SocketsTyped
  <2>2. /\ attempt' = [q \in Process |-> attempt'[q]] /\ attempt'[p] = a
        /\ \A q \in Process : q # p => attempt'[q] = attempt[q]
    BY <1>2, <2>1, EntriesSet
  <2>3. /\ result' = [q \in Process |-> result'[q]] /\ result'[p] = None
        /\ \A q \in Process : q # p => result'[q] = result[q]
    BY <1>2, <2>1, EntriesSet
  <2>4. QED
    BY <2>2, <2>3
<1>5. a.to = s /\ a.family = ConnectFamily(p, s.host) /\ s.no \in Nat /\ s.no <= sockets
  BY <1>1 DEF SocketsIInv, ServersApart
<1>6. \A q, h : BindFamily(q, h)' = BindFamily(q, h) /\ ConnectFamily(q, h)' = ConnectFamily(q, h)
  BY <1>2 DEF BindFamily, ConnectFamily, GetIpAddress, GetAddr
<1>7. SocketsTyped'
  BY <1>2, <1>3, <1>4 DEF SocketsIInv, SocketsTyped
<1>8. ServersApart'
  BY <1>2, <1>3, <1>6 DEF SocketsIInv, ServersApart, SameAddress
<1>9. AttemptsMeant'
  BY <1>2, <1>3, <1>4, <1>5, <1>6 DEF SocketsIInv, AttemptsMeant
<1>10. ResultsPast' /\ MeetsServer'
  BY <1>2, <1>3, <1>4 DEF SocketsIInv, ResultsPast, MeetsServer
<1>11. QED
  BY <1>7, <1>8, <1>9, <1>10 DEF SocketsIInv

(* It has connected or was refused. *)
LEMMA ConnectEnds ==
    ASSUME SocketsIInv, NEW p \in Process, attempt[p] # None, NEW how, NEW no, Ends(p, how, no),
           UNCHANGED <<prefer, osFirst, servers, sockets>>,
           how = "refused" => Found(p) = {},
           how = "connected" => \E s \in Found(p) : no = s.no
    PROVE  SocketsIInv'
<1>1. PICK r : r = [to |-> attempt[p].to, how |-> how, server |-> no]
  OBVIOUS
<1>2. r.to = attempt[p].to /\ r.how = how /\ r.server = no
  BY <1>1
<1>3. /\ attempt' = [q \in Process |-> attempt'[q]] /\ attempt'[p] = None
      /\ \A q \in Process : q # p => attempt'[q] = attempt[q]
      /\ result' = [q \in Process |-> result'[q]] /\ result'[p] = r
      /\ \A q \in Process : q # p => result'[q] = result[q]
  <2>1. attempt = [q \in Process |-> attempt[q]] /\ result = [q \in Process |-> result[q]]
    BY DEF SocketsIInv, SocketsTyped
  <2>2. attempt' = [attempt EXCEPT ![p] = None] /\ result' = [result EXCEPT ![p] = r]
    BY <1>1 DEF Ends
  <2>3. /\ attempt' = [q \in Process |-> attempt'[q]] /\ attempt'[p] = None
        /\ \A q \in Process : q # p => attempt'[q] = attempt[q]
    BY <2>1, <2>2, EntriesSet
  <2>4. /\ result' = [q \in Process |-> result'[q]] /\ result'[p] = r
        /\ \A q \in Process : q # p => result'[q] = result[q]
    BY <2>1, <2>2, EntriesSet
  <2>5. QED
    BY <2>3, <2>4
<1>4. \A q, h : BindFamily(q, h)' = BindFamily(q, h) /\ ConnectFamily(q, h)' = ConnectFamily(q, h)
  BY DEF BindFamily, ConnectFamily, GetIpAddress, GetAddr
<1>5. prefer # None
  BY DEF SocketsIInv, SocketsTyped
<1>6. SocketsTyped'
  BY <1>3, <1>5 DEF SocketsIInv, SocketsTyped
<1>7. ServersApart' /\ AttemptsMeant' /\ ResultsPast'
  BY <1>2, <1>3, <1>4 DEF SocketsIInv, ServersApart, SameAddress, AttemptsMeant, ResultsPast
<1>8. ASSUME r.to \in servers, prefer[p] = prefer[r.to.by], ~(prefer[p] = 6 /\ r.to.host = "any")
      PROVE  how # "refused" /\ (how = "connected" => no = r.to.no)
  <2>1. PICK to \in servers : to = attempt[p].to
    BY <1>2, <1>8
  <2>2. to.by \in Process /\ to.family = BindFamily(to.by, to.host)
    BY DEF SocketsIInv, ServersApart
  <2>3. attempt[p].family = to.family
    <3>1. ConnectFamily(p, to.host) = BindFamily(to.by, to.host)
      BY <1>2, <1>5, <1>8, <2>1, <2>2, SameFamily DEF SocketsIInv
    <3>2. QED
      BY <2>1, <2>2, <3>1 DEF SocketsIInv, AttemptsMeant
  <2>4. to \in Found(p)
    BY <2>1, <2>3 DEF Found, SameAddress
  <2>5. \A s \in Found(p) : s = to
    BY <2>1, <2>3 DEF Found, SocketsIInv, ServersApart
  <2>6. QED
    BY <1>2, <2>1, <2>4, <2>5
<1>9. MeetsServer'
  BY <1>2, <1>3, <1>8 DEF SocketsIInv, MeetsServer
<1>10. QED
  BY <1>6, <1>7, <1>9 DEF SocketsIInv

(* Every step of the sockets keeps the invariant. *)
LEMMA SocketsNextKeeps == SocketsIInv /\ [SocketsNext]_socketsVars => SocketsIInv'
<1> SUFFICES ASSUME SocketsIInv, [SocketsNext]_socketsVars PROVE SocketsIInv'
  OBVIOUS
<1>1. CASE UNCHANGED socketsVars
  BY <1>1, ServersStay DEF socketsVars
<1>2. CASE ConfigureSockets
  BY <1>2, Configures
<1>3. ASSUME NEW p \in Process, NEW h \in HostName, NEW asked \in {0, FixedPort},
             ListenAt(p, h, asked)
      PROVE  SocketsIInv'
  BY <1>3, Listens
<1>4. ASSUME NEW p \in Process, NEW s \in servers, BeginConnect(p, s) PROVE SocketsIInv'
  BY <1>4, ConnectBegins
<1>5. ASSUME NEW p \in Process, ConnectFails(p) \/ Connected(p) \/ QueueFull(p)
      PROVE  SocketsIInv'
  <2>1. attempt[p] # None /\ UNCHANGED <<prefer, osFirst, servers, sockets>>
    BY <1>5 DEF ConnectFails, Connected, QueueFull
  <2>2. CASE ConnectFails(p)
    BY <2>1, <2>2, ConnectEnds DEF ConnectFails
  <2>3. CASE Connected(p)
    <3>1. PICK s \in Found(p) : Ends(p, "connected", s.no)
      BY <2>3 DEF Connected
    <3>2. QED
      BY <2>1, <3>1, ConnectEnds
  <2>4. CASE QueueFull(p)
    <3>1. PICK how \in {"not connected", "timeout"} : Ends(p, how, 0)
      BY <2>4 DEF QueueFull
    <3>2. how # "refused" /\ how # "connected"
      OBVIOUS
    <3>3. QED
      BY <2>1, <3>1, <3>2, ConnectEnds
  <2>5. QED
    BY <1>5, <2>2, <2>3, <2>4
<1>6. ASSUME NEW s \in servers, CloseServer(s) \/ WakeUp(s) PROVE SocketsIInv'
  BY <1>6, ServersStay DEF CloseServer, WakeUp
<1>7. ASSUME NEW w \in waiting, Accept(w) PROVE SocketsIInv'
  BY <1>7, ServersStay DEF Accept
<1>8. QED
  BY <1>1, <1>2, <1>3, <1>4, <1>5, <1>6, <1>7 DEF SocketsNext

(* MeetsServer for any processes and names, and any number of sockets:     *)
(* while a connection is made the servers only become more or fewer, and   *)
(* no number of a socket is used twice (socketutil lines 61-106, 242-277). *)
THEOREM ProxiesMeetServers == SocketsSpec => []MeetsServer
<1>1. SocketsInit => SocketsIInv
  BY DEF SocketsInit, SocketsIInv, SocketsTyped, ServersApart, AttemptsMeant, ResultsPast,
         MeetsServer
<1>2. SocketsIInv => MeetsServer
  BY DEF SocketsIInv
<1>3. QED
  BY <1>1, <1>2, SocketsNextKeeps, PTL DEF SocketsSpec
=============================================================================
