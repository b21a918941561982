------------------------- MODULE ServerDataProofs -------------------------
(***************************************************************************)
(* ServerData keeps its promises for any namespaces, any numbers of rows,  *)
(* threads, failures, crashes and worker commands.  A command has checked  *)
(* the database before its first statement; the invariant is that what it  *)
(* has found still holds when the last of them is executed (Planned).      *)
(***************************************************************************)
EXTENDS ServerData, SequenceTheorems, FiniteSetTheorems, TLAPS

\* AUTO_INCREMENT is ahead of all IDs.
Fresh(d) == \A t \in RowTables : \A x \in DOMAIN d[t] : x < d.next[t]

\* Foreign keys
Referring(d) ==
  /\ \A l \in DOMAIN d.lists : d.lists[l].website \in DOMAIN d.websites
  /\ \A r \in DOMAIN d.rows :
       /\ d.rows[r].list \in DOMAIN d.lists
       /\ d.lists[d.rows[r].list].website = d.rows[r].website

\* Workers only add lists, to websites that exist.
WorkerStatement == {s \in Statement : s.op \in {"insertList", "createTables"} /\ s.undo = 0}

TypeInv ==
  TypeOK /\ Fresh(db) /\ Referring(db) /\ todo["worker"] \in Seq(WorkerStatement)

\* A statement neither deletes what is in use, nor does its failure, which only deletes
\* the website the statement adds a list to.
Safe(s) ==
  /\ s.op = "deleteWebsite" => ~IsWebsiteInUse(s.id)
  /\ s.op = "deleteList" => ~IsUrlListInUse(s.id)
  /\ Undo(s) # 0 => ~IsWebsiteInUse(Undo(s))
  /\ s.op = "insertList" /\ s.undo # 0 => s.website = s.undo

Naming(s) == s.op \in {"insertWebsite", "renameWebsite"}

Planned == {s \in Statement : Safe(s) /\ (Naming(s) => ~IsWebsiteNamespace(s.name))}
Nameless == {s \in Planned : ~Naming(s)}

\* What is left of a command: it names one website at most.
Plan(s) ==
  s \in Seq(Planned) /\ \A j, k \in DOMAIN s : Naming(s[j]) /\ Naming(s[k]) => j = k

UseInv == UsedDataExists /\ WebsiteNamespacesAreUnique /\ Plan(todo["main"])

\* Threads with the same ID have it recorded.
SameIds ==
  \A i, j \in DOMAIN threads : threads[i].id = threads[j].id => i = j \/ threads[i].id \in reused

RowInv == RowsHaveThreads /\ SameIds

-----------------------------------------------------------------------------
(* Tables.                                                                  *)

LEMMA TableFacts ==
  ASSUME NEW S, NEW f \in Table(S)
  PROVE  DOMAIN f \subseteq Id /\ f \in [DOMAIN f -> S]
BY DEF Table

LEMMA TableIntro ==
  ASSUME NEW S, NEW D \in SUBSET Id, NEW f \in [D -> S]
  PROVE  f \in Table(S) /\ DOMAIN f = D
BY DEF Table

LEMMA DropTyped ==
  ASSUME NEW S, NEW f \in Table(S), NEW X
  PROVE  Drop(f, X) \in Table(S)
<1>1. Drop(f, X) \in [DOMAIN f \ X -> S] /\ (DOMAIN f \ X) \in SUBSET Id
  BY TableFacts DEF Drop
<1> QED
  BY <1>1, TableIntro

LEMMA PutTyped ==
  ASSUME NEW S, NEW f \in Table(S), NEW x \in Id, NEW v \in S
  PROVE  Put(f, x, v) \in Table(S)
<1>1. Put(f, x, v) \in [DOMAIN f \cup {x} -> S] /\ (DOMAIN f \cup {x}) \in SUBSET Id
  BY TableFacts DEF Put
<1> QED
  BY <1>1, TableIntro

LEMMA DatabaseFacts ==
  ASSUME NEW d \in Database
  PROVE  /\ d.websites \in Table(WebsiteNames)
         /\ d.lists \in Table([website : Id, name : ListNames])
         /\ d.configs \in Table(Id) /\ d.rows \in Table(Row)
         /\ d.tables \in SUBSET TableNames /\ d.next \in [RowTables -> Id]
BY DEF Database

LEMMA ReferringFacts ==
  ASSUME NEW d \in Database, Referring(d)
  PROVE  /\ \A l \in DOMAIN d.lists : l \in Id /\ d.lists[l].website \in DOMAIN d.websites
         /\ \A l \in DOMAIN d.lists : d.lists[l].name \in ListNames
         /\ \A w \in DOMAIN d.websites : w \in Id /\ d.websites[w] \in WebsiteNames
         /\ \A c \in DOMAIN d.configs : c \in Id /\ d.configs[c] \in Id
         /\ \A r \in DOMAIN d.rows : r \in Id /\ d.rows[r] \in Row
<1>1. DOMAIN d.lists \subseteq Id /\ d.lists \in [DOMAIN d.lists -> [website : Id, name : ListNames]]
  BY DatabaseFacts, TableFacts
<1>2. DOMAIN d.websites \subseteq Id /\ d.websites \in [DOMAIN d.websites -> WebsiteNames]
  BY DatabaseFacts, TableFacts
<1>3. DOMAIN d.configs \subseteq Id /\ d.configs \in [DOMAIN d.configs -> Id]
  BY DatabaseFacts, TableFacts
<1>4. DOMAIN d.rows \subseteq Id /\ d.rows \in [DOMAIN d.rows -> Row]
  BY DatabaseFacts, TableFacts
<1> QED
  BY <1>1, <1>2, <1>3, <1>4 DEF Referring

\* The four tables have different names.
LEMMA NextFacts ==
  ASSUME NEW d \in Database, NEW t \in RowTables
  PROVE  d.next[t] \in Id /\ [d.next EXCEPT ![t] = @ + 1] \in [RowTables -> Id]
         /\ [d.next EXCEPT ![t] = 1] \in [RowTables -> Id]
BY DatabaseFacts DEF Id

LEMMA InsertWebsiteFacts ==
  ASSUME NEW d \in Database, Fresh(d), Referring(d), NEW v \in WebsiteNames,
         NEW e, e = Insert(d, "websites", v)
  PROVE  /\ e \in Database /\ Fresh(e) /\ Referring(e)
         /\ e.lists = d.lists /\ e.configs = d.configs /\ e.rows = d.rows /\ e.tables = d.tables
         /\ DOMAIN e.websites = DOMAIN d.websites \cup {d.next["websites"]}
         /\ d.next["websites"] \notin DOMAIN d.websites
         /\ e.websites[d.next["websites"]] = v
         /\ \A w \in DOMAIN d.websites : e.websites[w] = d.websites[w]
<1> DEFINE x == d.next["websites"]
<1>1. x \in Id /\ "websites" \in RowTables /\ d.next \in [RowTables -> Id]
      /\ [d.next EXCEPT !["websites"] = @ + 1] \in [RowTables -> Id]
  BY NextFacts, DatabaseFacts DEF RowTables
<1>2. e = [d EXCEPT !.websites = Put(d.websites, x, v), !.next = [d.next EXCEPT !["websites"] = @ + 1]]
  BY DEF Insert, Database
<1>3. Put(d.websites, x, v) \in Table(WebsiteNames)
      /\ DOMAIN Put(d.websites, x, v) = DOMAIN d.websites \cup {x} /\ Put(d.websites, x, v)[x] = v
      /\ \A y \in DOMAIN d.websites \ {x} : Put(d.websites, x, v)[y] = d.websites[y]
  <2>1. d.websites \in Table(WebsiteNames)
    BY DatabaseFacts
  <2> HIDE DEF x
  <2>2. Put(d.websites, x, v) \in Table(WebsiteNames)
    BY <1>1, <2>1, PutTyped
  <2> QED
    BY <2>2 DEF Put
<1>4. e \in Database
  BY <1>1, <1>2, <1>3 DEF Database
<1>5. /\ e.lists = d.lists /\ e.configs = d.configs /\ e.rows = d.rows /\ e.tables = d.tables
      /\ e.websites = Put(d.websites, x, v) /\ e.next = [d.next EXCEPT !["websites"] = @ + 1]
  BY <1>2 DEF Database
<1>6. x \notin DOMAIN d.websites
  BY <1>1 DEF Fresh, Id
<1>7. Fresh(e)
  <2> SUFFICES ASSUME NEW t \in RowTables, NEW y \in DOMAIN e[t] PROVE y < e.next[t]
    BY DEF Fresh
  <2>1. CASE t = "websites"
    <3>1. y \in DOMAIN d.websites \cup {x} /\ e.next[t] = x + 1 /\ x \in Nat
      BY <2>1, <1>1, <1>3, <1>5 DEF Id
    <3>2. y \in DOMAIN d.websites => y < x /\ y \in Nat
      BY <1>1, ReferringFacts DEF Fresh, Id
    <3> QED
      BY <3>1, <3>2
  <2>2. CASE t # "websites"
    <3>1. d[t] = e[t] /\ e.next[t] = d.next[t]
      BY <2>2, <1>1, <1>5 DEF RowTables
    <3> QED
      BY <3>1 DEF Fresh
  <2> QED
    BY <2>1, <2>2
<1>8. Referring(e)
  BY <1>3, <1>5 DEF Referring
<1> QED
  BY <1>3, <1>4, <1>5, <1>6, <1>7, <1>8

LEMMA InsertListFacts ==
  ASSUME NEW d \in Database, Fresh(d), Referring(d),
         NEW v \in [website : Id, name : ListNames], v.website \in DOMAIN d.websites,
         NEW e, e = Insert(d, "lists", v)
  PROVE  /\ e \in Database /\ Fresh(e) /\ Referring(e)
         /\ e.websites = d.websites /\ e.configs = d.configs /\ e.rows = d.rows
         /\ e.tables = d.tables
         /\ DOMAIN e.lists = DOMAIN d.lists \cup {d.next["lists"]}
         /\ d.next["lists"] \notin DOMAIN d.lists
         /\ e.lists[d.next["lists"]] = v
         /\ \A l \in DOMAIN d.lists : e.lists[l] = d.lists[l]
<1> DEFINE x == d.next["lists"]
<1>1. x \in Id /\ "lists" \in RowTables /\ d.next \in [RowTables -> Id]
      /\ [d.next EXCEPT !["lists"] = @ + 1] \in [RowTables -> Id]
  BY NextFacts, DatabaseFacts DEF RowTables
<1>2. e = [d EXCEPT !.lists = Put(d.lists, x, v), !.next = [d.next EXCEPT !["lists"] = @ + 1]]
  BY DEF Insert, Database
<1>3. Put(d.lists, x, v) \in Table([website : Id, name : ListNames])
      /\ DOMAIN Put(d.lists, x, v) = DOMAIN d.lists \cup {x} /\ Put(d.lists, x, v)[x] = v
      /\ \A y \in DOMAIN d.lists \ {x} : Put(d.lists, x, v)[y] = d.lists[y]
  <2>1. d.lists \in Table([website : Id, name : ListNames])
    BY DatabaseFacts
  <2> HIDE DEF x
  <2>2. Put(d.lists, x, v) \in Table([website : Id, name : ListNames])
    BY <1>1, <2>1, PutTyped
  <2> QED
    BY <2>2 DEF Put
<1>4. e \in Database
  BY <1>1, <1>2, <1>3 DEF Database
<1>5. /\ e.websites = d.websites /\ e.configs = d.configs /\ e.rows = d.rows
      /\ e.tables = d.tables
      /\ e.lists = Put(d.lists, x, v) /\ e.next = [d.next EXCEPT !["lists"] = @ + 1]
  BY <1>2 DEF Database
<1>6. x \notin DOMAIN d.lists
  BY <1>1 DEF Fresh, Id
<1>7. Fresh(e)
  <2> SUFFICES ASSUME NEW t \in RowTables, NEW y \in DOMAIN e[t] PROVE y < e.next[t]
    BY DEF Fresh
  <2>1. CASE t = "lists"
    <3>1. y \in DOMAIN d.lists \cup {x} /\ e.next[t] = x + 1 /\ x \in Nat
      BY <2>1, <1>1, <1>3, <1>5 DEF Id
    <3>2. y \in DOMAIN d.lists => y < x /\ y \in Nat
      BY <1>1, ReferringFacts DEF Fresh, Id
    <3> QED
      BY <3>1, <3>2
  <2>2. CASE t # "lists"
    <3>1. d[t] = e[t] /\ e.next[t] = d.next[t]
      BY <2>2, <1>1, <1>5 DEF RowTables
    <3> QED
      BY <3>1 DEF Fresh
  <2> QED
    BY <2>1, <2>2
<1>8. Referring(e)
  BY <1>3, <1>5, <1>6 DEF Referring
<1> QED
  BY <1>3, <1>4, <1>5, <1>6, <1>7, <1>8

LEMMA InsertConfigFacts ==
  ASSUME NEW d \in Database, Fresh(d), Referring(d), NEW v \in Id,
         NEW e, e = Insert(d, "configs", v)
  PROVE  /\ e \in Database /\ Fresh(e) /\ Referring(e)
         /\ e.websites = d.websites /\ e.lists = d.lists /\ e.rows = d.rows /\ e.tables = d.tables
<1> DEFINE x == d.next["configs"]
<1>1. x \in Id /\ "configs" \in RowTables /\ d.next \in [RowTables -> Id]
      /\ [d.next EXCEPT !["configs"] = @ + 1] \in [RowTables -> Id]
  BY NextFacts, DatabaseFacts DEF RowTables
<1>2. e = [d EXCEPT !.configs = Put(d.configs, x, v), !.next = [d.next EXCEPT !["configs"] = @ + 1]]
  BY DEF Insert, Database
<1>3. Put(d.configs, x, v) \in Table(Id)
      /\ DOMAIN Put(d.configs, x, v) = DOMAIN d.configs \cup {x}
  <2>1. d.configs \in Table(Id)
    BY DatabaseFacts
  <2> HIDE DEF x
  <2>2. Put(d.configs, x, v) \in Table(Id)
    BY <1>1, <2>1, PutTyped
  <2> QED
    BY <2>2 DEF Put
<1>4. e \in Database
  BY <1>1, <1>2, <1>3 DEF Database
<1>5. /\ e.websites = d.websites /\ e.lists = d.lists /\ e.rows = d.rows
      /\ e.tables = d.tables
      /\ e.configs = Put(d.configs, x, v) /\ e.next = [d.next EXCEPT !["configs"] = @ + 1]
  BY <1>2 DEF Database
<1>7. Fresh(e)
  <2> SUFFICES ASSUME NEW t \in RowTables, NEW y \in DOMAIN e[t] PROVE y < e.next[t]
    BY DEF Fresh
  <2>1. CASE t = "configs"
    <3>1. y \in DOMAIN d.configs \cup {x} /\ e.next[t] = x + 1 /\ x \in Nat
      BY <2>1, <1>1, <1>3, <1>5 DEF Id
    <3>2. y \in DOMAIN d.configs => y < x /\ y \in Nat
      BY <1>1, ReferringFacts DEF Fresh, Id
    <3> QED
      BY <3>1, <3>2
  <2>2. CASE t # "configs"
    <3>1. d[t] = e[t] /\ e.next[t] = d.next[t]
      BY <2>2, <1>1, <1>5 DEF RowTables
    <3> QED
      BY <3>1 DEF Fresh
  <2> QED
    BY <2>1, <2>2
<1>8. Referring(e)
  BY <1>5 DEF Referring
<1> QED
  BY <1>4, <1>5, <1>7, <1>8

LEMMA InsertRowFacts ==
  ASSUME NEW d \in Database, Fresh(d), Referring(d), NEW v \in Row,
         v.list \in DOMAIN d.lists, d.lists[v.list].website = v.website,
         NEW e, e = Insert(d, "rows", v)
  PROVE  /\ e \in Database /\ Fresh(e) /\ Referring(e)
         /\ e.websites = d.websites /\ e.lists = d.lists /\ e.configs = d.configs
         /\ e.tables = d.tables
         /\ d.next["rows"] \in Id /\ d.next["rows"] \notin DOMAIN d.rows
         /\ DOMAIN e.rows = DOMAIN d.rows \cup {d.next["rows"]} /\ e.rows[d.next["rows"]] = v
         /\ \A r \in DOMAIN d.rows : e.rows[r] = d.rows[r]
<1> DEFINE x == d.next["rows"]
<1>1. x \in Id /\ "rows" \in RowTables /\ d.next \in [RowTables -> Id]
      /\ [d.next EXCEPT !["rows"] = @ + 1] \in [RowTables -> Id]
  BY NextFacts, DatabaseFacts DEF RowTables
<1>2. e = [d EXCEPT !.rows = Put(d.rows, x, v), !.next = [d.next EXCEPT !["rows"] = @ + 1]]
  BY DEF Insert, Database
<1>3. Put(d.rows, x, v) \in Table(Row)
      /\ DOMAIN Put(d.rows, x, v) = DOMAIN d.rows \cup {x} /\ Put(d.rows, x, v)[x] = v
      /\ \A y \in DOMAIN d.rows \ {x} : Put(d.rows, x, v)[y] = d.rows[y]
  <2>1. d.rows \in Table(Row)
    BY DatabaseFacts
  <2> HIDE DEF x
  <2>2. Put(d.rows, x, v) \in Table(Row)
    BY <1>1, <2>1, PutTyped
  <2> QED
    BY <2>2 DEF Put
<1>4. e \in Database
  BY <1>1, <1>2, <1>3 DEF Database
<1>5. /\ e.websites = d.websites /\ e.configs = d.configs /\ e.lists = d.lists
      /\ e.tables = d.tables
      /\ e.rows = Put(d.rows, x, v) /\ e.next = [d.next EXCEPT !["rows"] = @ + 1]
  BY <1>2 DEF Database
<1>6. x \notin DOMAIN d.rows
  BY <1>1 DEF Fresh, Id
<1>7. Fresh(e)
  <2> SUFFICES ASSUME NEW t \in RowTables, NEW y \in DOMAIN e[t] PROVE y < e.next[t]
    BY DEF Fresh
  <2>1. CASE t = "rows"
    <3>1. y \in DOMAIN d.rows \cup {x} /\ e.next[t] = x + 1 /\ x \in Nat
      BY <2>1, <1>1, <1>3, <1>5 DEF Id
    <3>2. y \in DOMAIN d.rows => y < x /\ y \in Nat
      BY <1>1, ReferringFacts DEF Fresh, Id
    <3> QED
      BY <3>1, <3>2
  <2>2. CASE t # "rows"
    <3>1. d[t] = e[t] /\ e.next[t] = d.next[t]
      BY <2>2, <1>1, <1>5 DEF RowTables
    <3> QED
      BY <3>1 DEF Fresh
  <2> QED
    BY <2>1, <2>2
<1>8. Referring(e)
  BY <1>3, <1>5, <1>6 DEF Referring
<1> QED
  BY <1>1, <1>3, <1>4, <1>5, <1>6, <1>7, <1>8

\* f has rows of g only.
Sub(f, g) == DOMAIN f \subseteq DOMAIN g /\ \A x \in DOMAIN f : f[x] = g[x]

Without(d, t, id) == [d EXCEPT ![t] = Drop(@, {id})]

LEMMA RowDeletionFacts ==
  ASSUME NEW d \in Database, NEW t \in RowTables, NEW id,
         NEW e, e = Without(d, t, id)
  PROVE  /\ e \in Database /\ e.tables = d.tables /\ e.next = d.next
         /\ Sub(e.websites, d.websites) /\ Sub(e.lists, d.lists)
         /\ Sub(e.configs, d.configs) /\ Sub(e.rows, d.rows)
         /\ \A w \in DOMAIN d.websites : w \in DOMAIN e.websites \/ (t = "websites" /\ w = id)
         /\ \A l \in DOMAIN d.lists : l \in DOMAIN e.lists \/ (t = "lists" /\ l = id)
         /\ t = "rows" => id \notin DOMAIN e.rows
         /\ t = "lists" => id \notin DOMAIN e.lists
         /\ t = "websites" => id \notin DOMAIN e.websites
<1>1. CASE t = "websites"
  <2>1. d.websites \in Table(WebsiteNames)
    BY DatabaseFacts
  <2>2. Drop(d.websites, {id}) \in Table(WebsiteNames)
    BY <2>1, DropTyped
  <2>3. e = [d EXCEPT !.websites = Drop(d.websites, {id})]
    BY <1>1 DEF Database, Without
  <2>4. e \in Database
    BY <2>2, <2>3 DEF Database
  <2>5. /\ e.websites = Drop(d.websites, {id}) /\ e.lists = d.lists /\ e.configs = d.configs /\ e.rows = d.rows
        /\ e.tables = d.tables /\ e.next = d.next
    BY <2>3 DEF Database
  <2> QED
    BY <2>4, <2>5, <1>1 DEF Sub, Drop
<1>2. CASE t = "lists"
  <2>1. d.lists \in Table([website : Id, name : ListNames])
    BY DatabaseFacts
  <2>2. Drop(d.lists, {id}) \in Table([website : Id, name : ListNames])
    BY <2>1, DropTyped
  <2>3. e = [d EXCEPT !.lists = Drop(d.lists, {id})]
    BY <1>2 DEF Database, Without
  <2>4. e \in Database
    BY <2>2, <2>3 DEF Database
  <2>5. /\ e.lists = Drop(d.lists, {id}) /\ e.websites = d.websites /\ e.configs = d.configs /\ e.rows = d.rows
        /\ e.tables = d.tables /\ e.next = d.next
    BY <2>3 DEF Database
  <2> QED
    BY <2>4, <2>5, <1>2 DEF Sub, Drop
<1>3. CASE t = "configs"
  <2>1. d.configs \in Table(Id)
    BY DatabaseFacts
  <2>2. Drop(d.configs, {id}) \in Table(Id)
    BY <2>1, DropTyped
  <2>3. e = [d EXCEPT !.configs = Drop(d.configs, {id})]
    BY <1>3 DEF Database, Without
  <2>4. e \in Database
    BY <2>2, <2>3 DEF Database
  <2>5. /\ e.configs = Drop(d.configs, {id}) /\ e.websites = d.websites /\ e.lists = d.lists /\ e.rows = d.rows
        /\ e.tables = d.tables /\ e.next = d.next
    BY <2>3 DEF Database
  <2> QED
    BY <2>4, <2>5, <1>3 DEF Sub, Drop
<1>4. CASE t = "rows"
  <2>1. d.rows \in Table(Row)
    BY DatabaseFacts
  <2>2. Drop(d.rows, {id}) \in Table(Row)
    BY <2>1, DropTyped
  <2>3. e = [d EXCEPT !.rows = Drop(d.rows, {id})]
    BY <1>4 DEF Database, Without
  <2>4. e \in Database
    BY <2>2, <2>3 DEF Database
  <2>5. /\ e.rows = Drop(d.rows, {id}) /\ e.websites = d.websites /\ e.lists = d.lists /\ e.configs = d.configs
        /\ e.tables = d.tables /\ e.next = d.next
    BY <2>3 DEF Database
  <2> QED
    BY <2>4, <2>5, <1>4 DEF Sub, Drop
<1> QED
  BY <1>1, <1>2, <1>3, <1>4 DEF RowTables

LEMMA CascadeFacts ==
  ASSUME NEW d \in Database, NEW f, f = Cascade(d)
  PROVE  /\ f \in Database /\ f.tables = d.tables /\ f.next = d.next
         /\ f.websites = d.websites
         /\ Sub(f.lists, d.lists) /\ Sub(f.configs, d.configs) /\ Sub(f.rows, d.rows)
         /\ \A l \in DOMAIN d.lists :
              l \in DOMAIN f.lists <=> d.lists[l].website \in DOMAIN d.websites
         /\ \A r \in DOMAIN f.rows : d.rows[r].list \in DOMAIN f.lists
<1> DEFINE lists == {l \in DOMAIN d.lists : d.lists[l].website \notin DOMAIN d.websites}
           configs == {c \in DOMAIN d.configs : d.configs[c] \notin DOMAIN d.websites}
           e == [d EXCEPT !.lists = Drop(d.lists, lists), !.configs = Drop(d.configs, configs)]
           rows == {r \in DOMAIN e.rows : \/ e.rows[r].website \notin DOMAIN e.websites
                                          \/ e.rows[r].list \notin DOMAIN e.lists
                                          \/ e.rows[r].config \notin DOMAIN e.configs}
<1>1. f = [e EXCEPT !.rows = Drop(@, rows)]
  BY DEF Cascade, Database
<1>2. Drop(d.lists, lists) \in Table([website : Id, name : ListNames])
  <2>1. d.lists \in Table([website : Id, name : ListNames])
    BY DatabaseFacts
  <2> QED
    BY <2>1, DropTyped
<1>3. Drop(d.configs, configs) \in Table(Id)
  <2>1. d.configs \in Table(Id)
    BY DatabaseFacts
  <2> QED
    BY <2>1, DropTyped
<1>4. e \in Database
  BY <1>2, <1>3 DEF Database
<1>5. /\ e.websites = d.websites /\ e.lists = Drop(d.lists, lists)
      /\ e.configs = Drop(d.configs, configs) /\ e.rows = d.rows
      /\ e.tables = d.tables /\ e.next = d.next
  BY DEF Database
<1>6. Drop(d.rows, rows) \in Table(Row)
  <2>1. d.rows \in Table(Row)
    BY DatabaseFacts
  <2> QED
    BY <2>1, DropTyped
<1>7. DOMAIN Drop(d.lists, lists) = DOMAIN d.lists \ lists
      /\ \A l \in DOMAIN d.lists \ lists : Drop(d.lists, lists)[l] = d.lists[l]
  BY DEF Drop
<1>8. DOMAIN Drop(d.rows, rows) = DOMAIN d.rows \ rows
      /\ \A r \in DOMAIN d.rows \ rows : Drop(d.rows, rows)[r] = d.rows[r]
  BY DEF Drop
<1>9. Sub(Drop(d.configs, configs), d.configs)
  BY DEF Drop, Sub
<1>10. \A r \in DOMAIN d.rows \ rows : d.rows[r].list \in DOMAIN e.lists
  BY <1>5
<1> HIDE DEF e, rows
<1>11. f \in Database
  BY <1>1, <1>4, <1>5, <1>6 DEF Database
<1>12. /\ f.websites = e.websites /\ f.lists = e.lists /\ f.configs = e.configs
       /\ f.rows = Drop(d.rows, rows) /\ f.tables = e.tables /\ f.next = e.next
  BY <1>1, <1>4, <1>5 DEF Database
<1> HIDE DEF lists, configs
<1>13. Sub(f.lists, d.lists) /\ Sub(f.configs, d.configs) /\ Sub(f.rows, d.rows)
  <2>1. Sub(f.lists, d.lists)
    BY <1>5, <1>7, <1>12 DEF Sub
  <2>2. Sub(f.configs, d.configs)
    BY <1>5, <1>9, <1>12
  <2>3. Sub(f.rows, d.rows)
    BY <1>8, <1>12 DEF Sub
  <2> QED
    BY <2>1, <2>2, <2>3
<1>14. \A l \in DOMAIN d.lists :
         l \in DOMAIN f.lists <=> d.lists[l].website \in DOMAIN d.websites
  BY <1>5, <1>7, <1>12 DEF lists
<1>15. \A r \in DOMAIN f.rows : d.rows[r].list \in DOMAIN f.lists
  BY <1>8, <1>10, <1>12
<1>16. f.tables = d.tables /\ f.next = d.next /\ f.websites = d.websites
  BY <1>5, <1>12
<1> QED
  BY <1>11, <1>13, <1>14, <1>15, <1>16

LEMMA DeleteFacts ==
  ASSUME NEW d \in Database, Fresh(d), Referring(d), NEW t \in RowTables, NEW id,
         NEW e, e = Delete(d, t, id)
  PROVE  /\ e \in Database /\ Fresh(e) /\ Referring(e) /\ e.tables = d.tables
         /\ Sub(e.websites, d.websites) /\ Sub(e.lists, d.lists)
         /\ Sub(e.configs, d.configs) /\ Sub(e.rows, d.rows)
         /\ \A w \in DOMAIN d.websites : w \in DOMAIN e.websites \/ (t = "websites" /\ w = id)
         /\ \A l \in DOMAIN d.lists :
              \/ l \in DOMAIN e.lists
              \/ t = "lists" /\ l = id
              \/ d.lists[l].website \notin DOMAIN e.websites
         /\ t = "rows" => id \notin DOMAIN e.rows
         /\ t = "lists" => id \notin DOMAIN e.lists
         /\ t = "websites" => id \notin DOMAIN e.websites
         /\ t # "websites" => e.next["websites"] = d.next["websites"]
<1> DEFINE c == Without(d, t, id)
           f == Cascade(c)
<1>1. /\ c \in Database /\ c.tables = d.tables /\ c.next = d.next
      /\ Sub(c.websites, d.websites) /\ Sub(c.lists, d.lists)
      /\ Sub(c.configs, d.configs) /\ Sub(c.rows, d.rows)
      /\ \A w \in DOMAIN d.websites : w \in DOMAIN c.websites \/ (t = "websites" /\ w = id)
      /\ \A l \in DOMAIN d.lists : l \in DOMAIN c.lists \/ (t = "lists" /\ l = id)
      /\ t = "rows" => id \notin DOMAIN c.rows
      /\ t = "lists" => id \notin DOMAIN c.lists
      /\ t = "websites" => id \notin DOMAIN c.websites
  BY RowDeletionFacts
<1>2. /\ f \in Database /\ f.tables = c.tables /\ f.next = c.next
      /\ f.websites = c.websites
      /\ Sub(f.lists, c.lists) /\ Sub(f.configs, c.configs) /\ Sub(f.rows, c.rows)
      /\ \A l \in DOMAIN c.lists : l \in DOMAIN f.lists <=> c.lists[l].website \in DOMAIN c.websites
      /\ \A r \in DOMAIN f.rows : c.rows[r].list \in DOMAIN f.lists
  <2>1. f = Cascade(c)
    OBVIOUS
  <2> HIDE DEF c, f
  <2> QED
    BY <2>1, <1>1, CascadeFacts
<1>3. e = ResetIfEmpty(f, t)
  BY DEF Delete, Without
<1> HIDE DEF c, f
<1>4. /\ Sub(f.websites, d.websites) /\ Sub(f.lists, d.lists)
      /\ Sub(f.configs, d.configs) /\ Sub(f.rows, d.rows)
  BY <1>1, <1>2 DEF Sub
<1>5. \A l \in DOMAIN d.lists : \/ l \in DOMAIN f.lists
                                \/ t = "lists" /\ l = id
                                \/ d.lists[l].website \notin DOMAIN f.websites
  BY <1>1, <1>2 DEF Sub
<1>6. Referring(f)
  <2>1. \A l \in DOMAIN f.lists : f.lists[l].website \in DOMAIN f.websites
    BY <1>1, <1>2 DEF Sub
  <2>2. ASSUME NEW r \in DOMAIN f.rows
        PROVE  f.rows[r].list \in DOMAIN f.lists /\ f.lists[f.rows[r].list].website = f.rows[r].website
    <3>1. r \in DOMAIN c.rows /\ f.rows[r] = c.rows[r] /\ c.rows[r].list \in DOMAIN f.lists
      BY <1>2, <2>2 DEF Sub
    <3>2. r \in DOMAIN d.rows /\ f.rows[r] = d.rows[r]
      BY <1>4, <2>2 DEF Sub
    <3>3. f.lists[f.rows[r].list] = d.lists[d.rows[r].list]
      BY <1>4, <3>1, <3>2 DEF Sub
    <3> QED
      BY <3>1, <3>2, <3>3 DEF Referring
  <2> QED
    BY <2>1, <2>2 DEF Referring
<1>7. Fresh(f)
  <2>1. \A u \in RowTables : DOMAIN f[u] \subseteq DOMAIN d[u] /\ f.next[u] = d.next[u]
    BY <1>1, <1>2, <1>4 DEF RowTables, Sub
  <2> QED
    BY <2>1 DEF Fresh
<1>8. CASE DOMAIN f[t] # {}
  <2>1. e = f
    BY <1>3, <1>8 DEF ResetIfEmpty
  <2> QED
    BY <2>1, <1>1, <1>2, <1>4, <1>5, <1>6, <1>7 DEF Sub
<1>9. CASE DOMAIN f[t] = {}
  <2>1. e = [f EXCEPT !.next = [f.next EXCEPT ![t] = 1]]
    BY <1>2, <1>3, <1>9 DEF ResetIfEmpty, Database
  <2>2. [f.next EXCEPT ![t] = 1] \in [RowTables -> Id]
    BY <1>2, NextFacts
  <2>3. e \in Database
    BY <1>2, <2>1, <2>2 DEF Database
  <2>4. /\ e.websites = f.websites /\ e.lists = f.lists /\ e.configs = f.configs
        /\ e.rows = f.rows /\ e.tables = f.tables /\ e.next = [f.next EXCEPT ![t] = 1]
    BY <1>2, <2>1 DEF Database
  <2>5. Fresh(e)
    <3>1. f.next \in [RowTables -> Id]
      BY <1>2, DatabaseFacts
    <3>2. \A u \in RowTables : e[u] = f[u] /\ (u # t => e.next[u] = f.next[u])
      BY <2>4, <3>1 DEF RowTables
    <3> QED
      BY <1>7, <1>9, <3>2 DEF Fresh
  <2>6. Referring(e)
    BY <1>6, <2>4 DEF Referring
  <2>7. t # "websites" => e.next["websites"] = d.next["websites"]
    <3>1. f.next \in [RowTables -> Id]
      BY <1>2, DatabaseFacts
    <3> QED
      BY <2>4, <3>1, <1>1, <1>2 DEF RowTables
  <2> QED
    BY <2>3, <2>4, <2>5, <2>6, <2>7, <1>1, <1>2, <1>4, <1>5 DEF Sub
<1> QED
  BY <1>8, <1>9

-----------------------------------------------------------------------------
(* Statements.                                                              *)

LEMMA StatementFacts ==
  ASSUME NEW s \in Statement
  PROVE  /\ s.op \in {"insertWebsite", "insertList", "createTables", "insertConfig",
                      "deleteWebsite", "deleteList", "dropTables", "renameTables",
                      "renameWebsite", "renameList"}
         /\ s.op = "insertWebsite" => s.name \in WebsiteNames
         /\ s.op = "insertList" => s.website \in Id /\ s.name \in ListNames /\ s.undo \in Nat
         /\ s.op = "createTables" => s.name \in TableNames /\ s.undo \in Nat
         /\ s.op = "insertConfig" => s.website \in Id
         /\ s.op = "dropTables" => s.name \in TableNames
         /\ s.op = "renameTables" => s.from \in TableNames /\ s.to \in TableNames
         /\ s.op = "renameWebsite" => s.id \in Id /\ s.name \in WebsiteNames
         /\ s.op = "renameList" => s.id \in Id /\ s.name \in ListNames
BY DEF Statement, InsertWebsite, InsertList, CreateTables, InsertConfig, DeleteWebsiteRow,
     DeleteListRow, DropTables, RenameTables, RenameWebsite, RenameList

LEMMA WorkerFacts ==
  ASSUME NEW s \in WorkerStatement
  PROVE  s \in Statement /\ Undo(s) = 0 /\ ~Naming(s) /\ Safe(s)
BY DEF WorkerStatement, Undo, Naming, Safe

\* What a statement does to a database d.
Executed(d, s, e) ==
  /\ e \in Database /\ Fresh(e) /\ Referring(e)
  /\ Sub(e.rows, d.rows)
  /\ \A w \in DOMAIN d.websites : w \in DOMAIN e.websites \/ (s.op = "deleteWebsite" /\ w = s.id)
  /\ \A l \in DOMAIN d.lists :
       \/ l \in DOMAIN e.lists /\ e.lists[l].website = d.lists[l].website
       \/ s.op = "deleteList" /\ l = s.id
       \/ d.lists[l].website \notin DOMAIN e.websites
  /\ \E x : \A w \in DOMAIN e.websites :
       \/ w \in DOMAIN d.websites /\ e.websites[w] = d.websites[w]
       \/ Naming(s) /\ w = x /\ e.websites[w] = s.name

LEMMA TablesExecuted ==
  ASSUME NEW d \in Database, Fresh(d), Referring(d), NEW s, NEW T \in SUBSET TableNames,
         NEW e, e = [d EXCEPT !.tables = T]
  PROVE  Executed(d, s, e)
<1>1. e \in Database
  BY DEF Database
<1>2. /\ e.websites = d.websites /\ e.lists = d.lists /\ e.configs = d.configs
      /\ e.rows = d.rows /\ e.next = d.next
  BY DEF Database
<1>3. \A t \in RowTables : e[t] = d[t]
  BY <1>2 DEF RowTables
<1>4. Fresh(e) /\ Referring(e)
  BY <1>2, <1>3 DEF Fresh, Referring
<1> QED
  BY <1>1, <1>2, <1>4 DEF Executed, Sub

LEMMA RenameWebsiteExecuted ==
  ASSUME NEW d \in Database, Fresh(d), Referring(d),
         NEW s \in Statement, s.op = "renameWebsite",
         NEW e, e = [d EXCEPT !.websites[s.id] = s.name]
  PROVE  Executed(d, s, e)
<1> DEFINE f == [d.websites EXCEPT ![s.id] = s.name]
<1>1. e = [d EXCEPT !.websites = f]
  BY DEF Database
<1>2. d.websites \in Table(WebsiteNames) /\ s.name \in WebsiteNames
  BY DatabaseFacts, StatementFacts
<1>3. DOMAIN d.websites \in SUBSET Id /\ d.websites \in [DOMAIN d.websites -> WebsiteNames]
  BY <1>2, TableFacts
<1>4. f \in [DOMAIN d.websites -> WebsiteNames] /\ DOMAIN f = DOMAIN d.websites
      /\ \A w \in DOMAIN d.websites : f[w] = d.websites[w] \/ (w = s.id /\ f[w] = s.name)
  BY <1>2, <1>3
<1> HIDE DEF f
<1>5. f \in Table(WebsiteNames)
  BY <1>3, <1>4, TableIntro
<1>6. e \in Database
  BY <1>1, <1>5 DEF Database
<1>7. /\ e.websites = f /\ e.lists = d.lists /\ e.configs = d.configs
      /\ e.rows = d.rows /\ e.next = d.next
  BY <1>1 DEF Database
<1>8. \A t \in RowTables : DOMAIN e[t] = DOMAIN d[t]
  BY <1>4, <1>7 DEF RowTables
<1>9. Fresh(e) /\ Referring(e)
  BY <1>4, <1>7, <1>8 DEF Fresh, Referring
<1>10. Naming(s)
  BY DEF Naming
<1> QED
  BY <1>4, <1>6, <1>7, <1>9, <1>10 DEF Executed, Sub

LEMMA RenameListExecuted ==
  ASSUME NEW d \in Database, Fresh(d), Referring(d),
         NEW s \in Statement, s.op = "renameList",
         NEW e, e = [d EXCEPT !.lists[s.id].name = s.name]
  PROVE  Executed(d, s, e)
<1> DEFINE f == [d.lists EXCEPT ![s.id].name = s.name]
<1>1. e = [d EXCEPT !.lists = f]
  BY DEF Database
<1>2. d.lists \in Table([website : Id, name : ListNames]) /\ s.name \in ListNames
  BY DatabaseFacts, StatementFacts
<1>3. /\ DOMAIN d.lists \in SUBSET Id
      /\ d.lists \in [DOMAIN d.lists -> [website : Id, name : ListNames]]
  BY <1>2, TableFacts
<1>4. /\ f \in [DOMAIN d.lists -> [website : Id, name : ListNames]] /\ DOMAIN f = DOMAIN d.lists
      /\ \A l \in DOMAIN d.lists : f[l].website = d.lists[l].website
  BY <1>2, <1>3
<1> HIDE DEF f
<1>5. f \in Table([website : Id, name : ListNames])
  BY <1>3, <1>4, TableIntro
<1>6. e \in Database
  BY <1>1, <1>5 DEF Database
<1>7. /\ e.websites = d.websites /\ e.lists = f /\ e.configs = d.configs
      /\ e.rows = d.rows /\ e.next = d.next
  BY <1>1 DEF Database
<1>8. \A t \in RowTables : DOMAIN e[t] = DOMAIN d[t]
  BY <1>4, <1>7 DEF RowTables
<1>9. Fresh(e) /\ Referring(e)
  BY <1>4, <1>7, <1>8 DEF Fresh, Referring
<1> QED
  BY <1>4, <1>6, <1>7, <1>9 DEF Executed, Sub

LEMMA DeleteExecuted ==
  ASSUME NEW d \in Database, Fresh(d), Referring(d), NEW s, NEW t \in RowTables,
         t = "websites" => s.op = "deleteWebsite", t = "lists" => s.op = "deleteList",
         NEW e, e = Delete(d, t, s.id)
  PROVE  Executed(d, s, e)
<1>1. /\ e \in Database /\ Fresh(e) /\ Referring(e)
      /\ Sub(e.websites, d.websites) /\ Sub(e.lists, d.lists) /\ Sub(e.rows, d.rows)
      /\ \A w \in DOMAIN d.websites : w \in DOMAIN e.websites \/ (t = "websites" /\ w = s.id)
      /\ \A l \in DOMAIN d.lists :
           \/ l \in DOMAIN e.lists
           \/ t = "lists" /\ l = s.id
           \/ d.lists[l].website \notin DOMAIN e.websites
  BY DeleteFacts
<1> QED
  BY <1>1 DEF Executed, Sub

\* A statement is executed, or fails without an effect.
LEMMA ExecuteFacts ==
  ASSUME TypeInv, NEW c \in Connections, Execute(c)
  PROVE  /\ todo[c] # <<>> /\ UNCHANGED <<threads, faults, works, raced, reused>>
         /\ \/ Fail(c)
            \/ Proceed(c) /\ undone' = undone /\ Executed(db, Next1(c), db')
<1> DEFINE s == Next1(c)
<1> USE DEF TypeInv, TypeOK
<1>1. todo[c] # <<>> /\ UNCHANGED <<threads, faults, works, raced, reused>>
      /\ (Fail(c) \/ (Proceed(c) /\ undone' = undone))
  BY DEF Execute, ExecInsertWebsite, ExecInsertList, ExecCreateTables, ExecInsertConfig,
     ExecDeleteWebsite, ExecDeleteList, ExecDropTables, ExecRenameTables, ExecRenameWebsite,
     ExecRenameList, Done, Fail, IsNext
<1>2. s \in Statement
  <2>1. todo[c] \in Seq(Statement)
    OBVIOUS
  <2> QED
    BY <1>1, <2>1, HeadTailProperties DEF Next1
<1> HIDE DEF s, TypeInv, TypeOK
<1>3. db \in Database /\ Fresh(db) /\ Referring(db)
  BY DEF TypeInv, TypeOK
<1>4. CASE Fail(c)
  BY <1>1, <1>4
<1>5. CASE ~Fail(c)
  <2>1. CASE ExecInsertWebsite(c)
    <3>1. s.name \in WebsiteNames /\ db' = Insert(db, "websites", s.name) /\ Naming(s)
      BY <1>2, <2>1, StatementFacts DEF ExecInsertWebsite, IsNext, s, Naming
    <3>2. /\ db' \in Database /\ Fresh(db') /\ Referring(db')
          /\ db'.lists = db.lists /\ db'.rows = db.rows
          /\ DOMAIN db'.websites = DOMAIN db.websites \cup {db.next["websites"]}
          /\ db'.websites[db.next["websites"]] = s.name
          /\ \A w \in DOMAIN db.websites : db'.websites[w] = db.websites[w]
      BY <1>3, <3>1, InsertWebsiteFacts
    <3>3. Executed(db, s, db')
      BY <3>1, <3>2 DEF Executed, Sub
    <3> QED
      BY <1>1, <1>5, <3>3 DEF s
  <2>2. CASE ExecInsertList(c)
    <3> DEFINE v == [website |-> s.website, name |-> s.name]
    <3>1. /\ s.website \in DOMAIN db.websites /\ db' = Insert(db, "lists", v)
          /\ v \in [website : Id, name : ListNames] /\ v.website = s.website
      BY <1>2, <1>5, <2>2, StatementFacts DEF ExecInsertList, IsNext, s
    <3> HIDE DEF v
    <3>2. /\ db' \in Database /\ Fresh(db') /\ Referring(db')
          /\ db'.websites = db.websites /\ db'.rows = db.rows
          /\ \A l \in DOMAIN db.lists : l \in DOMAIN db'.lists /\ db'.lists[l] = db.lists[l]
      BY <1>3, <3>1, InsertListFacts
    <3>3. Executed(db, s, db')
      BY <3>2 DEF Executed, Sub
    <3> QED
      BY <1>1, <1>5, <3>3 DEF s
  <2>3. CASE ExecCreateTables(c)
    <3> DEFINE T == db.tables \cup {s.name}
    <3>1. T \in SUBSET TableNames
      BY <1>2, <1>3, <2>3, StatementFacts, DatabaseFacts DEF ExecCreateTables, IsNext, s
    <3>2. db' = [db EXCEPT !.tables = T]
      BY <1>3, <2>3 DEF ExecCreateTables, s, Database
    <3> HIDE DEF T
    <3>3. Executed(db, s, db')
      BY <1>3, <3>1, <3>2, TablesExecuted
    <3> QED
      BY <1>1, <1>5, <3>3 DEF s
  <2>4. CASE ExecInsertConfig(c)
    <3>1. s.website \in Id /\ db' = Insert(db, "configs", s.website)
      BY <1>2, <2>4, StatementFacts DEF ExecInsertConfig, IsNext, s
    <3>2. /\ db' \in Database /\ Fresh(db') /\ Referring(db')
          /\ db'.websites = db.websites /\ db'.lists = db.lists /\ db'.rows = db.rows
      BY <1>3, <3>1, InsertConfigFacts
    <3>3. Executed(db, s, db')
      BY <3>2 DEF Executed, Sub
    <3> QED
      BY <1>1, <1>5, <3>3 DEF s
  <2>5. CASE ExecDeleteWebsite(c)
    <3>1. s.op = "deleteWebsite" /\ db' = Delete(db, "websites", s.id) /\ "websites" \in RowTables
      BY <2>5 DEF ExecDeleteWebsite, IsNext, s, RowTables
    <3>2. Executed(db, s, db')
      BY <1>3, <3>1, DeleteExecuted
    <3> QED
      BY <1>1, <1>5, <3>2 DEF s
  <2>6. CASE ExecDeleteList(c)
    <3>1. s.op = "deleteList" /\ db' = Delete(db, "lists", s.id) /\ "lists" \in RowTables
      BY <2>6 DEF ExecDeleteList, IsNext, s, RowTables
    <3>2. Executed(db, s, db')
      BY <1>3, <3>1, DeleteExecuted
    <3> QED
      BY <1>1, <1>5, <3>2 DEF s
  <2>7. CASE ExecDropTables(c)
    <3> DEFINE T == db.tables \ {s.name}
    <3>1. T \in SUBSET TableNames
      BY <1>3, DatabaseFacts
    <3>2. db' = [db EXCEPT !.tables = T]
      BY <1>3, <2>7 DEF ExecDropTables, s, Database
    <3> HIDE DEF T
    <3>3. Executed(db, s, db')
      BY <1>3, <3>1, <3>2, TablesExecuted
    <3> QED
      BY <1>1, <1>5, <3>3 DEF s
  <2>8. CASE ExecRenameTables(c)
    <3> DEFINE T == (db.tables \ {s.from}) \cup {s.to}
    <3>1. T \in SUBSET TableNames
      BY <1>2, <1>3, <2>8, StatementFacts, DatabaseFacts DEF ExecRenameTables, IsNext, s
    <3>2. db' = [db EXCEPT !.tables = T]
      BY <1>3, <1>5, <2>8 DEF ExecRenameTables, s, Database
    <3> HIDE DEF T
    <3>3. Executed(db, s, db')
      BY <1>3, <3>1, <3>2, TablesExecuted
    <3> QED
      BY <1>1, <1>5, <3>3 DEF s
  <2>9. CASE ExecRenameWebsite(c)
    <3>1. s.op = "renameWebsite" /\ db' = [db EXCEPT !.websites[s.id] = s.name]
      BY <2>9 DEF ExecRenameWebsite, IsNext, s
    <3>2. Executed(db, s, db')
      BY <1>2, <1>3, <3>1, RenameWebsiteExecuted
    <3> QED
      BY <1>1, <1>5, <3>2 DEF s
  <2>10. CASE ExecRenameList(c)
    <3>1. s.op = "renameList" /\ db' = [db EXCEPT !.lists[s.id].name = s.name]
      BY <2>10 DEF ExecRenameList, IsNext, s
    <3>2. Executed(db, s, db')
      BY <1>2, <1>3, <3>1, RenameListExecuted
    <3> QED
      BY <1>1, <1>5, <3>2 DEF s
  <2> QED
    BY <2>1, <2>2, <2>3, <2>4, <2>5, <2>6, <2>7, <2>8, <2>9, <2>10 DEF Execute
<1> QED
  BY <1>4, <1>5

-----------------------------------------------------------------------------
(* Sequences of statements, and what is left of a command.                  *)

LEMMA FunctionIsSeq ==
  ASSUME NEW S, NEW n \in Nat, NEW f \in [1 .. n -> S]
  PROVE  f \in Seq(S) /\ Len(f) = n
BY SeqDef

LEMMA DomainFinite ==
  ASSUME NEW d \in Database, Fresh(d), NEW t \in RowTables, NEW S \in SUBSET DOMAIN d[t]
  PROVE  IsFiniteSet(S) /\ S \subseteq Nat
<1>1. DOMAIN d[t] \subseteq Id
  BY DatabaseFacts, TableFacts DEF RowTables
<1>2. d.next[t] \in Nat /\ \A x \in S : x <= d.next[t]
  BY <1>1, NextFacts DEF Fresh, Id
<1>3. S \in SUBSET Nat
  BY <1>1 DEF Id
<1> QED
  BY <1>2, <1>3, FS_BoundedSetOfNaturals

LEMMA AscendingFacts ==
  ASSUME NEW S, IsFiniteSet(S), NEW s \in Ascending(S)
  PROVE  /\ s \in Seq(S) /\ DOMAIN s = 1 .. Len(s)
         /\ \A i \in DOMAIN s : s[i] \in S
         /\ \A x \in S : \E i \in DOMAIN s : s[i] = x
         /\ \A i, j \in DOMAIN s : s[i] = s[j] => i = j
<1> DEFINE n == Cardinality(S)
<1>1. n \in Nat
  BY FS_CardinalityType
<1>2. s \in Bijection(1 .. n, S)
  BY DEF Ascending
<1> HIDE DEF n
<1>3. s \in [1 .. n -> S] /\ (\A x \in S : \E i \in 1 .. n : s[i] = x)
      /\ \A i, j \in 1 .. n : s[i] = s[j] => i = j
  BY <1>2 DEF Bijection, Injection, Surjection, IsInjective
<1>4. s \in Seq(S) /\ Len(s) = n
  BY <1>1, <1>3, FunctionIsSeq
<1> QED
  BY <1>3, <1>4

LEMMA InTurnFacts ==
  ASSUME NEW S, NEW s \in Seq(S), NEW t \in Seq(S), Len(s) = Len(t)
  PROVE  InTurn(s, t) \in Seq(S)
<1> DEFINE n == Len(s)
           f == InTurn(s, t)
<1>1. n \in Nat /\ (\A k \in 1 .. n : s[k] \in S) /\ \A k \in 1 .. n : t[k] \in S
  BY LenProperties, ElementOfSeq
<1>2. f = [k \in 1 .. 2 * n |-> IF k % 2 = 1 THEN s[(k + 1) \div 2] ELSE t[k \div 2]]
  BY DEF InTurn
<1> HIDE DEF f, n
<1>3. ASSUME NEW k \in 1 .. 2 * n
      PROVE  (IF k % 2 = 1 THEN s[(k + 1) \div 2] ELSE t[k \div 2]) \in S
  <2>1. k % 2 = 1 => (k + 1) \div 2 \in 1 .. n
    BY <1>1
  <2>2. k % 2 # 1 => k \div 2 \in 1 .. n
    BY <1>1
  <2> QED
    BY <1>1, <2>1, <2>2
<1>4. f \in [1 .. 2 * n -> S]
  BY <1>2, <1>3
<1>5. 2 * n \in Nat
  BY <1>1
<1>6. f \in Seq(S)
  BY <1>4, <1>5, FunctionIsSeq
<1> QED
  BY <1>6 DEF f

LEMMA EmptyPlan == Plan(<<>>)
BY EmptySeq DEF Plan

LEMMA NamelessPlanned ==
  ASSUME NEW s \in Seq(Nameless)
  PROVE  s \in Seq(Planned) /\ s \in Seq(Statement) /\ \A i \in DOMAIN s : ~Naming(s[i])
<1>1. Nameless \subseteq Planned /\ Planned \subseteq Statement
  BY DEF Nameless, Planned
<1>2. s \in Seq(Planned)
  BY <1>1, SeqMonotonic
<1>3. s \in Seq(Statement)
  BY <1>1, <1>2, SeqMonotonic
<1>4. DOMAIN s = 1 .. Len(s)
  BY LenProperties
<1>5. \A i \in DOMAIN s : s[i] \in Nameless
  BY <1>4, ElementOfSeq
<1> QED
  BY <1>2, <1>3, <1>5 DEF Nameless

LEMMA PlanTyped ==
  ASSUME NEW s, Plan(s)
  PROVE  s \in Seq(Statement)
<1>1. Planned \subseteq Statement /\ s \in Seq(Planned)
  BY DEF Plan, Planned
<1> QED
  BY <1>1, SeqMonotonic

LEMMA NamelessPlan ==
  ASSUME NEW s \in Seq(Nameless)
  PROVE  Plan(s)
BY NamelessPlanned DEF Plan

LEMMA OnePlan ==
  ASSUME NEW x \in Planned
  PROVE  Plan(<<x>>)
<1>1. <<x>> \in [1 .. 1 -> Planned] /\ DOMAIN <<x>> = 1 .. 1
  OBVIOUS
<1>2. <<x>> \in Seq(Planned)
  BY <1>1, FunctionIsSeq
<1>3. \A j, k \in DOMAIN <<x>> : j = k
  BY <1>1
<1> QED
  BY <1>2, <1>3 DEF Plan

\* A command may name a website in one half of it.
LEMMA PlanConcat ==
  ASSUME NEW s, NEW t,
         (Plan(s) /\ t \in Seq(Nameless)) \/ (s \in Seq(Nameless) /\ Plan(t))
  PROVE  Plan(s \o t)
<1>1. s \in Seq(Planned) /\ t \in Seq(Planned)
  BY NamelessPlanned DEF Plan
<1> DEFINE u == s \o t
           m == Len(s)
           n == Len(t)
<1>2. m \in Nat /\ n \in Nat /\ DOMAIN s = 1 .. m /\ DOMAIN t = 1 .. n
  BY <1>1, LenProperties
<1>3. u \in Seq(Planned) /\ Len(u) = m + n
      /\ \A i \in 1 .. m + n : u[i] = IF i <= m THEN s[i] ELSE t[i - m]
  BY <1>1, ConcatProperties
<1>4. DOMAIN u = 1 .. m + n
  BY <1>3, LenProperties
<1> HIDE DEF u, m, n
<1>5. ASSUME NEW j \in DOMAIN u, NEW k \in DOMAIN u, Naming(u[j]), Naming(u[k])
      PROVE  j = k
  <2>1. j \in Int /\ k \in Int
    BY <1>2, <1>4
  <2>2. /\ (j \in 1 .. m /\ u[j] = s[j]) \/ (j > m /\ j - m \in 1 .. n /\ u[j] = t[j - m])
        /\ (k \in 1 .. m /\ u[k] = s[k]) \/ (k > m /\ k - m \in 1 .. n /\ u[k] = t[k - m])
    BY <1>2, <1>3, <1>4
  <2>3. CASE Plan(s) /\ t \in Seq(Nameless)
    <3>1. \A i \in 1 .. n : ~Naming(t[i])
      BY <1>2, <2>3, NamelessPlanned
    <3>2. j \in 1 .. m /\ k \in 1 .. m /\ Naming(s[j]) /\ Naming(s[k])
      BY <1>5, <2>2, <3>1
    <3> QED
      BY <1>2, <2>3, <3>2 DEF Plan
  <2>4. CASE s \in Seq(Nameless) /\ Plan(t)
    <3>1. \A i \in 1 .. m : ~Naming(s[i])
      BY <1>2, <2>4, NamelessPlanned
    <3>2. j - m \in 1 .. n /\ k - m \in 1 .. n /\ Naming(t[j - m]) /\ Naming(t[k - m])
      BY <1>5, <2>2, <3>1
    <3>3. j - m = k - m
      BY <1>2, <2>4, <3>2 DEF Plan
    <3> QED
      BY <1>2, <2>1, <3>3
  <2> QED
    BY <2>3, <2>4
<1>6. Plan(u)
  BY <1>3, <1>5 DEF Plan
<1> QED
  BY <1>6 DEF u

\* The rest of a command.
LEMMA PlanTail ==
  ASSUME NEW s, Plan(s), s # <<>>
  PROVE  /\ Head(s) \in Planned /\ Plan(Tail(s))
         /\ Naming(Head(s)) => \A i \in DOMAIN Tail(s) : ~Naming(Tail(s)[i])
<1>1. s \in Seq(Planned)
  BY DEF Plan
<1> DEFINE t == Tail(s)
           n == Len(s)
<1>2. n \in Nat /\ DOMAIN s = 1 .. n /\ n # 0
  <2>1. n \in Nat \ {0}
    BY <1>1, EmptySeq
  <2> QED
    BY <1>1, <2>1, LenProperties
<1>3. Head(s) \in Planned /\ Head(s) = s[1] /\ t \in Seq(Planned) /\ Len(t) = n - 1
      /\ \A i \in 1 .. n - 1 : t[i] = s[i + 1]
  BY <1>1, HeadTailProperties
<1>4. DOMAIN t = 1 .. n - 1
  BY <1>3, LenProperties
<1> HIDE DEF t, n
<1>5. ASSUME NEW j \in DOMAIN t, NEW k \in DOMAIN t, Naming(t[j]), Naming(t[k])
      PROVE  j = k
  <2>1. j \in Int /\ k \in Int /\ j + 1 \in DOMAIN s /\ k + 1 \in DOMAIN s
    BY <1>2, <1>4
  <2>2. Naming(s[j + 1]) /\ Naming(s[k + 1])
    BY <1>3, <1>4, <1>5
  <2>3. j + 1 = k + 1
    BY <2>1, <2>2 DEF Plan
  <2> QED
    BY <2>1, <2>3
<1>6. ASSUME NEW j \in DOMAIN t, Naming(s[1]), Naming(t[j])
      PROVE  FALSE
  <2>1. j \in 1 .. n - 1 /\ j + 1 \in DOMAIN s /\ 1 \in DOMAIN s
    BY <1>2, <1>4
  <2>2. Naming(s[j + 1])
    BY <1>3, <1>6, <2>1
  <2>3. j + 1 = 1
    BY <1>6, <2>1, <2>2 DEF Plan
  <2> QED
    BY <1>2, <2>1, <2>3
<1>7. Plan(t)
  BY <1>3, <1>5 DEF Plan
<1> QED
  BY <1>3, <1>6, <1>7 DEF t

\* A plan remains one as long as neither the threads in use nor the names become more.
LEMMA PlanKept ==
  ASSUME NEW s, Plan(s),
         \A w : IsWebsiteInUse(w)' => IsWebsiteInUse(w),
         \A l : IsUrlListInUse(l)' => IsUrlListInUse(l),
         \/ \A n : IsWebsiteNamespace(n)' => IsWebsiteNamespace(n)
         \/ \A i \in DOMAIN s : ~Naming(s[i])
  PROVE  Plan(s)'
<1>1. s \in Seq(Planned) /\ DOMAIN s = 1 .. Len(s) /\ Len(s) \in Nat
  BY LenProperties DEF Plan
<1>2. ASSUME NEW i \in 1 .. Len(s)
      PROVE  s[i] \in Planned'
  <2>1. s[i] \in Planned
    BY <1>1, ElementOfSeq
  <2>2. Safe(s[i])'
    BY <2>1 DEF Planned, Safe
  <2>3. Naming(s[i]) => ~IsWebsiteNamespace(s[i].name)'
    BY <1>1, <2>1 DEF Planned
  <2> QED
    BY <2>1, <2>2, <2>3 DEF Planned
<1>3. s \in [1 .. Len(s) -> Planned']
  BY <1>1, <1>2, LenProperties
<1>4. s \in Seq(Planned')
  BY <1>1, <1>3, FunctionIsSeq
<1> QED
  BY <1>4 DEF Plan

-----------------------------------------------------------------------------
(* The commands plan what the invariant allows.                             *)

LEMMA DropTablesPlanned ==
  ASSUME NEW n \in TableNames
  PROVE  DropTables(n) \in Nameless
<1>1. DropTables(n) \in Statement
  BY DEF Statement
<1> QED
  BY <1>1 DEF Nameless, Planned, Safe, Naming, Undo, DropTables

LEMMA RenameTablesPlanned ==
  ASSUME NEW n \in TableNames, NEW m \in TableNames
  PROVE  RenameTables(n, m) \in Nameless
<1>1. RenameTables(n, m) \in Statement
  BY DEF Statement
<1> QED
  BY <1>1 DEF Nameless, Planned, Safe, Naming, Undo, RenameTables

LEMMA InsertListPlanned ==
  ASSUME NEW w \in Id, NEW n \in ListNames, NEW u \in Nat,
         u = 0 \/ (u = w /\ ~IsWebsiteInUse(u))
  PROVE  InsertList(w, n, u) \in Nameless
<1>1. InsertList(w, n, u) \in Statement
  BY DEF Statement
<1> QED
  BY <1>1 DEF Nameless, Planned, Safe, Naming, Undo, InsertList

LEMMA CreateTablesPlanned ==
  ASSUME NEW n \in TableNames, NEW u \in Nat, u = 0 \/ ~IsWebsiteInUse(u)
  PROVE  CreateTables(n, u) \in Nameless
<1>1. CreateTables(n, u) \in Statement
  BY DEF Statement
<1> QED
  BY <1>1 DEF Nameless, Planned, Safe, Naming, Undo, CreateTables

LEMMA InsertConfigPlanned ==
  ASSUME NEW w \in Id
  PROVE  InsertConfig(w) \in Nameless
<1>1. InsertConfig(w) \in Statement
  BY DEF Statement
<1> QED
  BY <1>1 DEF Nameless, Planned, Safe, Naming, Undo, InsertConfig

LEMMA DeleteWebsiteRowPlanned ==
  ASSUME NEW w \in Id, ~IsWebsiteInUse(w)
  PROVE  DeleteWebsiteRow(w) \in Nameless
<1>1. DeleteWebsiteRow(w) \in Statement
  BY DEF Statement
<1> QED
  BY <1>1 DEF Nameless, Planned, Safe, Naming, Undo, DeleteWebsiteRow

LEMMA DeleteListRowPlanned ==
  ASSUME NEW l \in Id, ~IsUrlListInUse(l)
  PROVE  DeleteListRow(l) \in Nameless
<1>1. DeleteListRow(l) \in Statement
  BY DEF Statement
<1> QED
  BY <1>1 DEF Nameless, Planned, Safe, Naming, Undo, DeleteListRow

LEMMA RenameListPlanned ==
  ASSUME NEW l \in Id, NEW n \in ListNames
  PROVE  RenameList(l, n) \in Nameless
<1>1. RenameList(l, n) \in Statement
  BY DEF Statement
<1> QED
  BY <1>1 DEF Nameless, Planned, Safe, Naming, Undo, RenameList

LEMMA InsertWebsitePlanned ==
  ASSUME NEW n \in WebsiteNames, ~IsWebsiteNamespace(n)
  PROVE  InsertWebsite(n) \in Planned
<1>1. InsertWebsite(n) \in Statement
  BY DEF Statement
<1> QED
  BY <1>1 DEF Planned, Safe, Naming, Undo, InsertWebsite

LEMMA RenameWebsitePlanned ==
  ASSUME NEW w \in Id, NEW n \in WebsiteNames, ~IsWebsiteNamespace(n)
  PROVE  RenameWebsite(w, n) \in Planned
<1>1. RenameWebsite(w, n) \in Statement
  BY DEF Statement
<1> QED
  BY <1>1 DEF Planned, Safe, Naming, Undo, RenameWebsite

LEMMA TableNameIntro ==
  ASSUME NEW w \in WebsiteNames, NEW l \in ListNames
  PROVE  w \o l \in TableNames
BY DEF TableNames

LEMMA TableNameTyped ==
  ASSUME TypeInv, NEW l \in DOMAIN db.lists
  PROVE  TableName(db, l) \in TableNames
<1>1. db \in Database /\ Referring(db)
  BY DEF TypeInv, TypeOK
<1>2. db.websites[db.lists[l].website] \in WebsiteNames /\ db.lists[l].name \in ListNames
  BY <1>1, ReferringFacts
<1> QED
  BY <1>2, TableNameIntro DEF TableName

LEMMA ListsOfFacts ==
  ASSUME TypeInv, NEW w, NEW S \in SUBSET ListsOf(w), NEW lists \in Ascending(S)
  PROVE  /\ Len(lists) \in Nat /\ DOMAIN lists = 1 .. Len(lists)
         /\ \A i \in 1 .. Len(lists) : lists[i] \in ListsOf(w) /\ lists[i] \in DOMAIN db.lists
<1>1. db \in Database /\ Fresh(db) /\ "lists" \in RowTables
  BY DEF TypeInv, TypeOK, RowTables
<1>2. S \in SUBSET DOMAIN db.lists
  BY DEF ListsOf
<1>3. IsFiniteSet(S)
  BY <1>1, <1>2, DomainFinite
<1>4. lists \in Seq(S) /\ DOMAIN lists = 1 .. Len(lists) /\ \A i \in DOMAIN lists : lists[i] \in S
  BY <1>3, AscendingFacts
<1>5. Len(lists) \in Nat
  BY <1>4, LenProperties
<1> QED
  BY <1>2, <1>4, <1>5

\* The URL lists of a website that is not in use are not in use, either.
LEMMA DeleteWebsitePlan ==
  ASSUME TypeInv, UsedDataExists, NEW w \in Id, ~IsWebsiteInUse(w),
         NEW lists \in Ascending(ListsOf(w))
  PROVE  DeleteWebsite(w, lists) \in Seq(Nameless)
<1> DEFINE n == Len(lists)
           rows == [i \in DOMAIN lists |-> DeleteListRow(lists[i])]
           tables == [i \in DOMAIN lists |-> DropTables(TableName(db, lists[i]))]
<1>1. n \in Nat /\ DOMAIN lists = 1 .. n
      /\ \A i \in 1 .. n : lists[i] \in ListsOf(w) /\ lists[i] \in DOMAIN db.lists
  BY ListsOfFacts
<1>2. ASSUME NEW i \in 1 .. n
      PROVE  /\ DeleteListRow(lists[i]) \in Nameless
             /\ DropTables(TableName(db, lists[i])) \in Nameless
  <2>1. lists[i] \in ListsOf(w) /\ lists[i] \in DOMAIN db.lists
    BY <1>1
  <2>2. ~IsUrlListInUse(lists[i])
    BY <2>1 DEF IsUrlListInUse, IsWebsiteInUse, UsedDataExists, ListsOf
  <2>3. lists[i] \in Id
    BY <2>1, ReferringFacts DEF TypeInv, TypeOK
  <2>4. DeleteListRow(lists[i]) \in Nameless
    BY <2>2, <2>3, DeleteListRowPlanned
  <2>5. DropTables(TableName(db, lists[i])) \in Nameless
    BY <2>1, TableNameTyped, DropTablesPlanned
  <2> QED
    BY <2>4, <2>5
<1>3. rows \in [1 .. n -> Nameless] /\ tables \in [1 .. n -> Nameless]
  BY <1>1, <1>2
<1>4. DeleteWebsite(w, lists) = InTurn(rows, tables) \o <<DeleteWebsiteRow(w)>>
  BY DEF DeleteWebsite
<1> HIDE DEF n, rows, tables
<1>5. rows \in Seq(Nameless) /\ tables \in Seq(Nameless) /\ Len(rows) = Len(tables)
  BY <1>1, <1>3, FunctionIsSeq
<1>6. InTurn(rows, tables) \in Seq(Nameless)
  BY <1>5, InTurnFacts
<1>7. DeleteWebsiteRow(w) \in Nameless
  BY DeleteWebsiteRowPlanned
<1>8. <<DeleteWebsiteRow(w)>> \in Seq(Nameless)
  BY <1>7
<1> QED
  BY <1>4, <1>6, <1>8, ConcatProperties

LEMMA RenameAllPlan ==
  ASSUME TypeInv, NEW w \in Id, NEW name \in WebsiteNames, ~IsWebsiteNamespace(name),
         NEW lists \in Ascending(ListsOf(w))
  PROVE  Plan(RenameAll(w, lists, name))
<1> DEFINE n == Len(lists)
           tables == [i \in DOMAIN lists |->
             RenameTables(TableName(db, lists[i]), name \o db.lists[lists[i]].name)]
<1>1. n \in Nat /\ DOMAIN lists = 1 .. n
      /\ \A i \in 1 .. n : lists[i] \in ListsOf(w) /\ lists[i] \in DOMAIN db.lists
  BY ListsOfFacts
<1>2. ASSUME NEW i \in 1 .. n
      PROVE  RenameTables(TableName(db, lists[i]), name \o db.lists[lists[i]].name) \in Nameless
  <2>1. lists[i] \in DOMAIN db.lists
    BY <1>1
  <2>2. TableName(db, lists[i]) \in TableNames
    BY <2>1, TableNameTyped
  <2>3. name \o db.lists[lists[i]].name \in TableNames
    <3>1. db.lists[lists[i]].name \in ListNames
      BY <2>1, ReferringFacts DEF TypeInv, TypeOK
    <3> QED
      BY <3>1, TableNameIntro
  <2> QED
    BY <2>2, <2>3, RenameTablesPlanned
<1>3. tables \in [1 .. n -> Nameless]
  BY <1>1, <1>2
<1>4. RenameAll(w, lists, name) = tables \o <<RenameWebsite(w, name)>>
  BY DEF RenameAll
<1> HIDE DEF n, tables
<1>5. tables \in Seq(Nameless)
  BY <1>1, <1>3, FunctionIsSeq
<1>6. Plan(<<RenameWebsite(w, name)>>)
  BY RenameWebsitePlanned, OnePlan
<1> QED
  BY <1>4, <1>5, <1>6, PlanConcat

LEMMA AddUrlListPlan ==
  ASSUME NEW w \in Id, NEW name \in ListNames, NEW table \in TableNames, NEW u \in Nat,
         u = 0 \/ (u = w /\ ~IsWebsiteInUse(u))
  PROVE  AddUrlList(w, name, table, u) \in Seq(Nameless)
<1>1. InsertList(w, name, u) \in Nameless /\ CreateTables(table, u) \in Nameless
  BY InsertListPlanned, CreateTablesPlanned
<1> QED
  BY <1>1 DEF AddUrlList

\* The next website is not in use.
LEMMA NextWebsite ==
  ASSUME TypeInv, UsedDataExists
  PROVE  db.next["websites"] \in Id /\ ~IsWebsiteInUse(db.next["websites"])
<1>1. db \in Database /\ Fresh(db) /\ "websites" \in RowTables
  BY DEF TypeInv, TypeOK, RowTables
<1>2. db.next["websites"] \in Nat
  BY <1>1, NextFacts DEF Id
<1>3. db.next["websites"] \notin DOMAIN db.websites
  BY <1>1, <1>2 DEF Fresh
<1> QED
  BY <1>1, <1>3, NextFacts DEF UsedDataExists, IsWebsiteInUse

LEMMA AddWebsitePlan ==
  ASSUME TypeInv, UsedDataExists, NEW name \in WebsiteNames, ~IsWebsiteNamespace(name)
  PROVE  Plan(AddWebsiteAs(db.next["websites"], name))
<1> DEFINE w == db.next["websites"]
           first == <<InsertWebsite(name)>>
           rest == AddUrlList(w, DefaultName, name \o DefaultName, w)
<1>1. w \in Id /\ ~IsWebsiteInUse(w)
  BY NextWebsite
<1>2. Plan(first)
  BY InsertWebsitePlanned, OnePlan
<1>3. name \o DefaultName \in TableNames
  BY DefaultNameAssumption, TableNameIntro
<1>4. w \in Nat
  BY <1>1 DEF Id
<1>5. AddWebsiteAs(w, name) = first \o rest
  BY DEF AddWebsiteAs
<1> HIDE DEF w, first
<1>6. rest \in Seq(Nameless)
  BY <1>1, <1>3, <1>4, AddUrlListPlan, DefaultNameAssumption
<1> HIDE DEF rest
<1>7. Plan(first \o rest)
  BY <1>2, <1>6, PlanConcat
<1>8. Plan(AddWebsiteAs(w, name))
  BY <1>5, <1>7
<1> QED
  BY <1>8 DEF w

LEMMA ConfigsOfFacts ==
  ASSUME TypeInv, NEW S \in SUBSET DOMAIN db.configs, NEW configs \in Ascending(S)
  PROVE  Len(configs) \in Nat /\ DOMAIN configs = 1 .. Len(configs)
<1>1. db \in Database /\ Fresh(db) /\ "configs" \in RowTables
  BY DEF TypeInv, TypeOK, RowTables
<1>2. IsFiniteSet(S)
  BY <1>1, DomainFinite
<1>3. configs \in Seq(S) /\ DOMAIN configs = 1 .. Len(configs)
  BY <1>2, AscendingFacts
<1> QED
  BY <1>3, LenProperties

\* The statements of duplicateWebsite().
Duplicated(new, name, lists, configs) ==
  AddWebsiteAs(new, name)
  \o InTurn([i \in DOMAIN lists |-> InsertList(new, db.lists[lists[i]].name, 0)],
            [i \in DOMAIN lists |-> CreateTables(name \o db.lists[lists[i]].name, 0)])
  \o [i \in DOMAIN configs |-> InsertConfig(new)]

LEMMA DuplicateWebsitePlan ==
  ASSUME TypeInv, UsedDataExists, NEW name \in WebsiteNames, ~IsWebsiteNamespace(name),
         NEW w, NEW L \in SUBSET ListsOf(w), NEW lists \in Ascending(L),
         NEW C \in SUBSET DOMAIN db.configs, NEW configs \in Ascending(C),
         NEW new, new = db.next["websites"]
  PROVE  Plan(Duplicated(new, name, lists, configs))
<1> DEFINE n == Len(lists)
           m == Len(configs)
           rows == [i \in DOMAIN lists |-> InsertList(new, db.lists[lists[i]].name, 0)]
           tables == [i \in DOMAIN lists |-> CreateTables(name \o db.lists[lists[i]].name, 0)]
           copies == [i \in DOMAIN configs |-> InsertConfig(new)]
           website == AddWebsiteAs(new, name)
           inTurn == InTurn(rows, tables)
<1>1. n \in Nat /\ DOMAIN lists = 1 .. n /\ \A i \in 1 .. n : lists[i] \in DOMAIN db.lists
  BY ListsOfFacts
<1>2. m \in Nat /\ DOMAIN configs = 1 .. m
  BY ConfigsOfFacts
<1>3. new \in Id
  BY NextWebsite
<1>4. ASSUME NEW i \in 1 .. n
      PROVE  /\ InsertList(new, db.lists[lists[i]].name, 0) \in Nameless
             /\ CreateTables(name \o db.lists[lists[i]].name, 0) \in Nameless
  <2>1. db.lists[lists[i]].name \in ListNames
    BY <1>1, ReferringFacts DEF TypeInv, TypeOK
  <2>2. InsertList(new, db.lists[lists[i]].name, 0) \in Nameless
    BY <1>3, <2>1, InsertListPlanned
  <2>3. name \o db.lists[lists[i]].name \in TableNames
    BY <2>1, TableNameIntro
  <2>4. CreateTables(name \o db.lists[lists[i]].name, 0) \in Nameless
    BY <2>3, CreateTablesPlanned
  <2> QED
    BY <2>2, <2>4
<1>5. rows \in [1 .. n -> Nameless] /\ tables \in [1 .. n -> Nameless]
  BY <1>1, <1>4
<1>6. copies \in [1 .. m -> Nameless]
  BY <1>2, <1>3, InsertConfigPlanned
<1>7. Plan(website)
  BY AddWebsitePlan
<1> HIDE DEF n, m, rows, tables, copies, website
<1>8. rows \in Seq(Nameless) /\ tables \in Seq(Nameless) /\ Len(rows) = Len(tables)
  BY <1>1, <1>5, FunctionIsSeq
<1>9. copies \in Seq(Nameless)
  BY <1>2, <1>6, FunctionIsSeq
<1>10. inTurn \in Seq(Nameless)
  BY <1>8, InTurnFacts
<1> HIDE DEF inTurn
<1>11. Plan(website \o inTurn)
  BY <1>7, <1>10, PlanConcat
<1>12. Plan((website \o inTurn) \o copies)
  BY <1>9, <1>11, PlanConcat
<1> QED
  BY <1>12 DEF Duplicated, website, inTurn, rows, tables, copies

\* Every command plans, but deleteconfig, which consists of one statement.
LEMMA DataCommandPlans ==
  ASSUME TypeInv, UsedDataExists, DataCommand
  PROVE  \/ \E s : Plan(s) /\ Accept(s)
         \/ \E c \in DOMAIN db.configs : DeleteConfig(c)
<1>1. /\ \A w \in DOMAIN db.websites : w \in Id /\ db.websites[w] \in WebsiteNames
      /\ \A l \in DOMAIN db.lists : l \in Id /\ db.lists[l].website \in DOMAIN db.websites
      /\ \A c \in DOMAIN db.configs : db.configs[c] \in Id
  BY ReferringFacts DEF TypeInv, TypeOK
<1>2. ASSUME NEW name \in WebsiteNames, AddWebsite(name)
      PROVE  \E s : Plan(s) /\ Accept(s)
  BY <1>2, AddWebsitePlan DEF AddWebsite
<1>3. ASSUME NEW w \in DOMAIN db.websites, NEW name \in WebsiteNames, UpdateWebsite(w, name)
      PROVE  \E s : Plan(s) /\ Accept(s)
  <2>1. PICK lists \in Ascending(ListsOf(w)) : Accept(RenameAll(w, lists, name))
    BY <1>3 DEF UpdateWebsite
  <2>2. Plan(RenameAll(w, lists, name))
    BY <1>1, <1>3, <2>1, RenameAllPlan DEF UpdateWebsite
  <2> QED
    BY <2>1, <2>2
<1>4. ASSUME NEW w \in DOMAIN db.websites, NEW name \in WebsiteNames, DuplicateWebsite(w, name)
      PROVE  \E s : Plan(s) /\ Accept(s)
  <2> DEFINE L == {l \in ListsOf(w) : db.lists[l].name # DefaultName}
             C == {c \in DOMAIN db.configs : db.configs[c] = w}
             new == db.next["websites"]
  <2>1. /\ ~IsWebsiteNamespace(name) /\ L \in SUBSET ListsOf(w) /\ C \in SUBSET DOMAIN db.configs
        /\ \E lists \in Ascending(L), configs \in Ascending(C) : Accept(Duplicated(new, name, lists, configs))
    BY <1>4 DEF DuplicateWebsite, Duplicated
  <2> HIDE DEF L, C
  <2>2. PICK lists \in Ascending(L), configs \in Ascending(C) : Accept(Duplicated(new, name, lists, configs))
    BY <2>1
  <2>3. Plan(Duplicated(new, name, lists, configs))
    BY <2>1, DuplicateWebsitePlan
  <2> QED
    BY <2>2, <2>3
<1>5. ASSUME NEW w \in DOMAIN db.websites, NEW name \in ListNames, AddUrlListCommand(w, name)
      PROVE  \E s : Plan(s) /\ Accept(s)
  <2>1. db.websites[w] \o name \in TableNames /\ w \in Id /\ 0 \in Nat
    BY <1>1, TableNameIntro
  <2>2. AddUrlList(w, name, db.websites[w] \o name, 0) \in Seq(Nameless)
    BY <2>1, AddUrlListPlan
  <2> QED
    BY <1>5, <2>2, NamelessPlan DEF AddUrlListCommand
<1>6. ASSUME NEW w \in DOMAIN db.websites, DeleteWebsiteCommand(w)
      PROVE  \E s : Plan(s) /\ Accept(s)
  <2>1. PICK lists \in Ascending(ListsOf(w)) : Accept(DeleteWebsite(w, lists))
    BY <1>6 DEF DeleteWebsiteCommand
  <2>2. DeleteWebsite(w, lists) \in Seq(Nameless)
    BY <1>1, <1>6, <2>1, DeleteWebsitePlan DEF DeleteWebsiteCommand
  <2> QED
    BY <2>1, <2>2, NamelessPlan
<1>7. ASSUME NEW w \in Id, Accept(<<InsertConfig(w)>>)
      PROVE  \E s : Plan(s) /\ Accept(s)
  <2>1. <<InsertConfig(w)>> \in Seq(Nameless)
    BY InsertConfigPlanned
  <2> QED
    BY <1>7, <2>1, NamelessPlan
<1>8. ASSUME NEW l \in DOMAIN db.lists, DeleteUrlList(l)
      PROVE  \E s : Plan(s) /\ Accept(s)
  <2>1. DeleteListRow(l) \in Nameless
    BY <1>1, <1>8, DeleteListRowPlanned DEF DeleteUrlList
  <2>2. DropTables(TableName(db, l)) \in Nameless
    BY TableNameTyped, DropTablesPlanned
  <2>3. DeleteList(l) \in Seq(Nameless)
    BY <2>1, <2>2 DEF DeleteList
  <2> QED
    BY <1>8, <2>3, NamelessPlan DEF DeleteUrlList
<1>9. ASSUME NEW l \in DOMAIN db.lists, NEW name \in ListNames, UpdateUrlList(l, name)
      PROVE  \E s : Plan(s) /\ Accept(s)
  <2> DEFINE to == db.websites[db.lists[l].website] \o name
  <2>1. to \in TableNames /\ TableName(db, l) \in TableNames
    BY <1>1, TableNameIntro, TableNameTyped
  <2> HIDE DEF to
  <2>2. RenameTables(TableName(db, l), to) \in Nameless
    BY <2>1, RenameTablesPlanned
  <2>3. RenameList(l, name) \in Nameless
    BY <1>1, RenameListPlanned
  <2>4. RenameOne(l, name) \in Seq(Nameless)
    BY <2>2, <2>3 DEF RenameOne, to
  <2> QED
    BY <1>9, <2>4, NamelessPlan DEF UpdateUrlList
<1>10. (\E w \in DOMAIN db.websites : AddConfig(w)) \/ (\E c \in DOMAIN db.configs : DuplicateConfig(c))
       => \E w \in Id : Accept(<<InsertConfig(w)>>)
  BY <1>1 DEF AddConfig, DuplicateConfig
<1> QED
  BY <1>2, <1>3, <1>4, <1>5, <1>6, <1>7, <1>8, <1>9, <1>10 DEF DataCommand

-----------------------------------------------------------------------------
(* Every step keeps the invariant.                                          *)

Inv == TypeInv /\ UseInv /\ RowInv

LEMMA InitInv == Init => Inv
<1> SUFFICES ASSUME Init PROVE Inv
  OBVIOUS
<1>1. /\ db.websites = Empty /\ db.lists = Empty /\ db.configs = Empty /\ db.rows = Empty
      /\ db.tables = {} /\ db.next = [t \in RowTables |-> 1] /\ threads = <<>>
      /\ todo["main"] = <<>> /\ todo["worker"] = <<>>
  BY DEF Init, Connections
<1>2. DOMAIN Empty = {} /\ \A S : Empty \in Table(S)
  BY DEF Empty, Table
<1>3. db \in Database
  BY <1>2 DEF Init, Database, Id
<1>4. \A t \in RowTables : DOMAIN db[t] = {}
  BY <1>1, <1>2 DEF RowTables
<1>5. Fresh(db) /\ Referring(db)
  BY <1>1, <1>2, <1>4 DEF Fresh, Referring
<1>6. \A S : <<>> \in Seq(S)
  BY EmptySeq
<1>7. DOMAIN <<>> = {}
  OBVIOUS
<1>8. TypeInv
  BY <1>1, <1>3, <1>5, <1>6 DEF Init, TypeInv, TypeOK
<1>9. UseInv
  BY <1>1, <1>2, <1>7, EmptyPlan DEF UseInv, UsedDataExists, WebsiteNamespacesAreUnique, IsInjective
<1>10. RowInv
  BY <1>1, <1>2, <1>7 DEF RowInv, RowsHaveThreads, SameIds
<1> QED
  BY <1>8, <1>9, <1>10 DEF Inv

LEMMA RowsKept ==
  ASSUME RowInv, Sub(db'.rows, db.rows), threads' = threads, reused' = reused
  PROVE  RowInv'
<1>1. SameIds'
  BY DEF RowInv, SameIds
<1>2. ASSUME NEW r \in DOMAIN db'.rows
      PROVE  \E i \in DOMAIN threads' :
               /\ threads'[i].id = r /\ threads'[i].state # "ended"
               /\ \A f \in {"kind", "website", "list", "config"} : threads'[i][f] = db'.rows[r][f]
               /\ threads'[i].state = "running" => threads'[i].paused = db'.rows[r].paused \/ r \in reused'
  BY <1>2 DEF RowInv, RowsHaveThreads, Sub
<1> QED
  BY <1>1, <1>2 DEF RowInv, RowsHaveThreads

\* The rest of what a connection has to do is replaced.
LEMMA TodoReplaced ==
  ASSUME TypeInv, NEW c \in Connections, NEW t \in Seq(Statement),
         c = "worker" => t \in Seq(WorkerStatement),
         todo' = [todo EXCEPT ![c] = t]
  PROVE  /\ todo' \in [Connections -> Seq(Statement)]
         /\ todo'["worker"] \in Seq(WorkerStatement)
         /\ todo'["main"] = IF c = "main" THEN t ELSE todo["main"]
<1>1. todo \in [Connections -> Seq(Statement)] /\ todo["worker"] \in Seq(WorkerStatement)
  BY DEF TypeInv, TypeOK
<1> QED
  BY <1>1 DEF Connections

\* The database and the threads are the same, and the main thread has another plan.
LEMMA NewPlan ==
  ASSUME Inv, UNCHANGED <<db, threads, reused>>,
         todo' \in [Connections -> Seq(Statement)], todo'["worker"] \in Seq(WorkerStatement),
         Plan(todo'["main"]),
         undone' \in Nat, faults' \in Nat, works' \in Nat, raced' \in BOOLEAN
  PROVE  Inv'
<1>1. TypeInv'
  BY DEF Inv, TypeInv, TypeOK, Fresh, Referring
<1>2. RowInv'
  <2>1. Sub(db'.rows, db.rows)
    BY DEF Sub
  <2> QED
    BY <2>1, RowsKept DEF Inv
<1>3. UsedDataExists' /\ WebsiteNamespacesAreUnique'
  BY DEF Inv, UseInv, UsedDataExists, ListsOf, WebsiteNamespacesAreUnique
<1>4. Plan(todo["main"])'
  <2>1. PICK t : t = todo'["main"]
    OBVIOUS
  <2>2. Plan(t)
    BY <2>1
  <2>3. Plan(t)'
    BY <2>2, PlanKept DEF IsWebsiteInUse, IsUrlListInUse, IsWebsiteNamespace
  <2> QED
    BY <2>1, <2>3 DEF Plan
<1> QED
  BY <1>1, <1>2, <1>3, <1>4 DEF Inv, UseInv

\* Only the main thread plans what has to be undone.
LEMMA FailKeeps ==
  ASSUME Inv, NEW c \in Connections, todo[c] # <<>>, Fail(c),
         UNCHANGED <<works, raced, reused>>, faults' \in Nat
  PROVE  Inv'
<1>1. TypeInv /\ UsedDataExists /\ Plan(todo["main"]) /\ todo["worker"] \in Seq(WorkerStatement)
      /\ works' \in Nat /\ raced' \in BOOLEAN /\ undone \in Nat
  BY DEF Inv, UseInv, TypeInv, TypeOK
<1>2. UNCHANGED <<db, threads, reused>>
  BY DEF Fail
<1>3. CASE Undo(Next1(c)) = 0
  <2>1. todo' = [todo EXCEPT ![c] = <<>>] /\ undone' \in Nat
    BY <1>1, <1>3 DEF Fail
  <2>2. <<>> \in Seq(Statement) /\ <<>> \in Seq(WorkerStatement)
    BY EmptySeq
  <2>3. /\ todo' \in [Connections -> Seq(Statement)] /\ todo'["worker"] \in Seq(WorkerStatement)
        /\ todo'["main"] = IF c = "main" THEN <<>> ELSE todo["main"]
    BY <1>1, <2>1, <2>2, TodoReplaced
  <2>4. Plan(todo'["main"])
    BY <1>1, <2>3, EmptyPlan
  <2> QED
    BY <1>1, <1>2, <2>1, <2>3, <2>4, NewPlan
<1>4. CASE Undo(Next1(c)) # 0
  <2> DEFINE w == Undo(Next1(c))
  <2>1. c = "main"
    <3>1. c = "worker" => Next1(c) \in WorkerStatement
      BY <1>1, HeadTailProperties DEF Next1
    <3> QED
      BY <1>4, <3>1, WorkerFacts DEF Connections
  <2>2. Next1(c) \in Planned
    BY <1>1, <2>1, PlanTail DEF Next1
  <2>3. w \in Id /\ ~IsWebsiteInUse(w)
    BY <1>4, <2>2, StatementFacts DEF Planned, Safe, Undo, Id
  <2>4. PICK lists \in Ascending(ListsOf(w)) : todo' = [todo EXCEPT ![c] = DeleteWebsite(w, lists)]
    BY <1>4 DEF Fail
  <2>5. undone' \in Nat
    BY <1>4, <2>3 DEF Fail, Id
  <2> HIDE DEF w
  <2>6. DeleteWebsite(w, lists) \in Seq(Nameless)
    BY <1>1, <2>3, DeleteWebsitePlan
  <2>7. DeleteWebsite(w, lists) \in Seq(Statement) /\ Plan(DeleteWebsite(w, lists))
    BY <2>6, NamelessPlanned, NamelessPlan
  <2>8. /\ todo' \in [Connections -> Seq(Statement)] /\ todo'["worker"] \in Seq(WorkerStatement)
        /\ todo'["main"] = IF c = "main" THEN DeleteWebsite(w, lists) ELSE todo["main"]
    BY <1>1, <2>1, <2>4, <2>7, TodoReplaced
  <2> QED
    BY <1>1, <1>2, <2>1, <2>5, <2>7, <2>8, NewPlan
<1> QED
  BY <1>3, <1>4

LEMMA ExecutedKeeps ==
  ASSUME Inv, NEW c \in Connections, todo[c] # <<>>, Proceed(c), undone' = undone,
         UNCHANGED <<threads, faults, works, raced, reused>>, Executed(db, Next1(c), db')
  PROVE  Inv'
<1> DEFINE s == Next1(c)
<1>1. /\ TypeInv /\ UsedDataExists /\ WebsiteNamespacesAreUnique /\ Plan(todo["main"])
      /\ todo["worker"] \in Seq(WorkerStatement) /\ RowInv
  BY DEF Inv, UseInv, TypeInv
<1>2. todo' = [todo EXCEPT ![c] = Tail(todo[c])]
  BY DEF Proceed
<1>3. /\ s \in Statement /\ Safe(s) /\ Tail(todo[c]) \in Seq(Statement)
      /\ c = "worker" => ~Naming(s) /\ Tail(todo[c]) \in Seq(WorkerStatement)
      /\ c = "main" /\ Naming(s) => ~IsWebsiteNamespace(s.name)
  <2>1. CASE c = "main"
    <3>1. s \in Planned /\ Plan(Tail(todo[c]))
      BY <1>1, <2>1, PlanTail DEF Next1
    <3> QED
      BY <2>1, <3>1, PlanTyped DEF Planned
  <2>2. CASE c = "worker"
    <3>1. s \in WorkerStatement /\ Tail(todo[c]) \in Seq(WorkerStatement)
      BY <1>1, <2>2, HeadTailProperties DEF Next1
    <3>2. WorkerStatement \subseteq Statement
      BY DEF WorkerStatement
    <3>3. Tail(todo[c]) \in Seq(Statement)
      BY <3>1, <3>2, SeqMonotonic
    <3> QED
      BY <2>2, <3>1, <3>3, WorkerFacts
  <2> QED
    BY <2>1, <2>2 DEF Connections
<1>4. c = "main" => Plan(Tail(todo["main"]))
                    /\ (Naming(s) => \A i \in DOMAIN Tail(todo["main"]) : ~Naming(Tail(todo["main"])[i]))
  BY <1>1, PlanTail DEF Next1
<1> HIDE DEF s
<1>5. /\ todo' \in [Connections -> Seq(Statement)] /\ todo'["worker"] \in Seq(WorkerStatement)
      /\ todo'["main"] = IF c = "main" THEN Tail(todo["main"]) ELSE todo["main"]
  BY <1>1, <1>2, <1>3, TodoReplaced
<1>6. /\ db' \in Database /\ Fresh(db') /\ Referring(db') /\ Sub(db'.rows, db.rows)
      /\ \A w \in DOMAIN db.websites :
           w \in DOMAIN db'.websites \/ (s.op = "deleteWebsite" /\ w = s.id)
      /\ \A l \in DOMAIN db.lists :
           \/ l \in DOMAIN db'.lists /\ db'.lists[l].website = db.lists[l].website
           \/ s.op = "deleteList" /\ l = s.id
           \/ db.lists[l].website \notin DOMAIN db'.websites
  BY DEF Executed, s
<1>7. PICK x : \A w \in DOMAIN db'.websites :
                 \/ w \in DOMAIN db.websites /\ db'.websites[w] = db.websites[w]
                 \/ Naming(s) /\ w = x /\ db'.websites[w] = s.name
  BY DEF Executed, s
<1>8. TypeInv'
  BY <1>1, <1>5, <1>6 DEF TypeInv, TypeOK
<1>9. UsedDataExists'
  <2> SUFFICES ASSUME NEW i \in DOMAIN threads
               PROVE  /\ threads[i].website \in DOMAIN db'.websites
                      /\ threads[i].list \in DOMAIN db'.lists
                      /\ db'.lists[threads[i].list].website = threads[i].website
    BY DEF UsedDataExists, ListsOf
  <2>1. /\ threads[i].website \in DOMAIN db.websites
        /\ threads[i].list \in DOMAIN db.lists
        /\ db.lists[threads[i].list].website = threads[i].website
    BY <1>1 DEF UsedDataExists, ListsOf
  <2>2. ~(s.op = "deleteWebsite" /\ threads[i].website = s.id)
        /\ ~(s.op = "deleteList" /\ threads[i].list = s.id)
    BY <1>3 DEF Safe, IsWebsiteInUse, IsUrlListInUse
  <2> QED
    BY <1>6, <2>1, <2>2
<1>10. WebsiteNamespacesAreUnique'
  <2>1. Naming(s) => \A w \in DOMAIN db.websites : db.websites[w] # s.name
    BY <1>3 DEF IsWebsiteNamespace, Connections
  <2>2. \A v, w \in DOMAIN db.websites : db.websites[v] = db.websites[w] => v = w
    BY <1>1 DEF WebsiteNamespacesAreUnique, IsInjective
  <2>3. \A v, w \in DOMAIN db'.websites : db'.websites[v] = db'.websites[w] => v = w
    BY <1>7, <2>1, <2>2
  <2> QED
    BY <2>3 DEF WebsiteNamespacesAreUnique, IsInjective
<1>11. ~Naming(s) => \A n : IsWebsiteNamespace(n)' => IsWebsiteNamespace(n)
  BY <1>7 DEF IsWebsiteNamespace
<1>12. Plan(todo["main"])'
  <2>1. PICK t : t = todo'["main"]
    OBVIOUS
  <2>2. Plan(t) /\ (~Naming(s) \/ \A i \in DOMAIN t : ~Naming(t[i]))
    BY <1>1, <1>3, <1>4, <1>5, <2>1 DEF Connections
  <2>3. Plan(t)'
    BY <1>11, <2>2, PlanKept DEF IsWebsiteInUse, IsUrlListInUse
  <2> QED
    BY <2>1, <2>3 DEF Plan
<1>13. RowInv'
  BY <1>1, <1>6, RowsKept
<1> QED
  BY <1>8, <1>9, <1>10, <1>12, <1>13 DEF Inv, UseInv

-----------------------------------------------------------------------------
(* Steps between two commands, and of the module threads.                   *)

LEMMA ThreadFacts ==
  ASSUME TypeInv
  PROVE  /\ Len(threads) \in Nat /\ DOMAIN threads = 1 .. Len(threads)
         /\ \A i \in DOMAIN threads : threads[i] \in Thread
<1>1. threads \in Seq(Thread)
  BY DEF TypeInv, TypeOK
<1> QED
  BY <1>1, LenProperties, ElementOfSeq

\* What remains to be shown of a step that leaves websites, URL lists and statements alone.
LEMMA QuietStep ==
  ASSUME Inv, db' \in Database, Fresh(db'), Referring(db'), UNCHANGED <<todo, faults, works, raced>>,
         db'.websites = db.websites, db'.lists = db.lists,
         threads' \in Seq(Thread), undone' \in Nat, reused' \subseteq Id,
         \A i \in DOMAIN threads' :
           /\ threads'[i].website \in DOMAIN db.websites
           /\ threads'[i].list \in ListsOf(threads'[i].website)
           /\ \/ Idle
              \/ \E j \in DOMAIN threads : /\ threads[j].website = threads'[i].website
                                           /\ threads[j].list = threads'[i].list
  PROVE  TypeInv' /\ UseInv'
<1>1. TypeInv'
  BY DEF Inv, TypeInv, TypeOK
<1>2. UsedDataExists' /\ WebsiteNamespacesAreUnique'
  BY DEF Inv, UseInv, UsedDataExists, ListsOf, WebsiteNamespacesAreUnique
<1>3. Plan(todo["main"])'
  <2>1. PICK t : t = todo["main"]
    OBVIOUS
  <2>2. Plan(t)
    BY <2>1 DEF Inv, UseInv
  <2>3. CASE Idle
    <3>1. todo'["main"] = <<>>
      BY <2>3 DEF Idle
    <3>2. <<>> \in Seq(Planned') /\ DOMAIN <<>> = {}
      BY EmptySeq
    <3> QED
      BY <3>1, <3>2 DEF Plan
  <2>4. CASE ~Idle
    <3>1. /\ \A w : IsWebsiteInUse(w)' => IsWebsiteInUse(w)
          /\ \A l : IsUrlListInUse(l)' => IsUrlListInUse(l)
          /\ \A n : IsWebsiteNamespace(n)' => IsWebsiteNamespace(n)
      BY <2>4 DEF IsWebsiteInUse, IsUrlListInUse, IsWebsiteNamespace
    <3>2. Plan(t)'
      BY <2>2, <3>1, PlanKept
    <3> QED
      BY <2>1, <3>2 DEF Plan
  <2> QED
    BY <2>3, <2>4
<1> QED
  BY <1>1, <1>2, <1>3 DEF UseInv

LEMMA UsedFacts ==
  ASSUME Inv, NEW i \in DOMAIN threads
  PROVE  threads[i].website \in DOMAIN db.websites /\ threads[i].list \in ListsOf(threads[i].website)
BY DEF Inv, UseInv, UsedDataExists

LEMMA StartKeeps ==
  ASSUME Inv, NEW kind \in Kinds, Start(kind)
  PROVE  Inv'
<1>1. db \in Database /\ Fresh(db) /\ Referring(db) /\ threads \in Seq(Thread)
      /\ reused \subseteq Id /\ RowsHaveThreads /\ SameIds /\ TypeInv
  BY DEF Inv, TypeInv, TypeOK, RowInv
<1>2. PICK w \in DOMAIN db.websites, l \in DOMAIN db.lists, c \in DOMAIN db.configs :
        /\ db.lists[l].website = w /\ db.configs[c] = w
        /\ LET row == [kind |-> kind, website |-> w, list |-> l, config |-> c, paused |-> FALSE]
           IN /\ db' = Insert(db, "rows", row)
              /\ threads' = Append(threads, ThreadOf(db.next["rows"], row))
  BY DEF Start
<1> DEFINE row == [kind |-> kind, website |-> w, list |-> l, config |-> c, paused |-> FALSE]
           new == ThreadOf(db.next["rows"], row)
           id == db.next["rows"]
           n == Len(threads)
<1>3. w \in Id /\ l \in Id /\ c \in Id
  BY <1>1, ReferringFacts
<1>4. row \in Row /\ row.list = l /\ row.website = w /\ row.kind = kind /\ row.config = c
      /\ row.paused = FALSE
  BY <1>3 DEF Row
<1>5. db' = Insert(db, "rows", row) /\ threads' = Append(threads, new) /\ Idle /\ undone' = 0
      /\ UNCHANGED <<todo, faults, works, raced>>
      /\ reused' = reused \cup ({id} \cap {threads[i].id : i \in DOMAIN threads})
  BY <1>2 DEF Start, Command
<1>6. n \in Nat /\ DOMAIN threads = 1 .. n /\ \A i \in DOMAIN threads : threads[i] \in Thread
  BY <1>1, ThreadFacts
<1>7. row.list \in DOMAIN db.lists /\ db.lists[row.list].website = row.website
  BY <1>2
<1> HIDE DEF row
<1>8. /\ db' \in Database /\ Fresh(db') /\ Referring(db')
      /\ db'.websites = db.websites /\ db'.lists = db.lists
      /\ id \in Id /\ id \notin DOMAIN db.rows
      /\ DOMAIN db'.rows = DOMAIN db.rows \cup {id} /\ db'.rows[id] = row
      /\ \A r \in DOMAIN db.rows : db'.rows[r] = db.rows[r]
  BY <1>1, <1>4, <1>5, <1>7, InsertRowFacts
<1>9. new \in Thread /\ new.id = id /\ new.state = "running" /\ new.kind = kind /\ new.website = w
      /\ new.list = l /\ new.config = c /\ new.paused = FALSE
  BY <1>3, <1>4, <1>8 DEF ThreadOf, Thread
<1> HIDE DEF new, id, n
<1>10. threads' \in Seq(Thread) /\ Len(threads') = n + 1 /\ threads'[n + 1] = new
      /\ \A i \in 1 .. n : threads'[i] = threads[i]
  BY <1>1, <1>5, <1>9, AppendProperties DEF n
<1>11. DOMAIN threads' = 1 .. n + 1
  BY <1>10, LenProperties
<1>12. \A i \in DOMAIN threads' :
         \/ i \in DOMAIN threads /\ i # n + 1 /\ threads'[i] = threads[i]
         \/ i = n + 1 /\ threads'[i] = new
  BY <1>6, <1>10, <1>11
<1>13. n + 1 \in DOMAIN threads' /\ \A i \in DOMAIN threads : i \in DOMAIN threads'
  BY <1>6, <1>11
<1>14. TypeInv' /\ UseInv'
  <2>1. \A i \in DOMAIN threads' : /\ threads'[i].website \in DOMAIN db.websites
                                   /\ threads'[i].list \in ListsOf(threads'[i].website)
    <3>1. w \in DOMAIN db.websites /\ l \in ListsOf(w)
      BY <1>2 DEF ListsOf
    <3>2. \A i \in DOMAIN threads : /\ threads[i].website \in DOMAIN db.websites
                                    /\ threads[i].list \in ListsOf(threads[i].website)
      BY UsedFacts
    <3> QED
      BY <3>1, <3>2, <1>9, <1>12
  <2>2. reused' \subseteq Id
    BY <1>1, <1>5, <1>8
  <2>3. undone' \in Nat
    BY <1>5
  <2> QED
    BY <1>5, <1>8, <1>10, <2>1, <2>2, <2>3, QuietStep
<1>15. RowsHaveThreads'
  <2> SUFFICES ASSUME NEW r \in DOMAIN db'.rows
               PROVE  \E i \in DOMAIN threads' :
                        /\ threads'[i].id = r /\ threads'[i].state # "ended"
                        /\ \A f \in {"kind", "website", "list", "config"} :
                             threads'[i][f] = db'.rows[r][f]
                        /\ threads'[i].state = "running" =>
                             threads'[i].paused = db'.rows[r].paused \/ r \in reused'
    BY DEF RowsHaveThreads
  <2>1. CASE r = id
    <3>1. \A f \in {"kind", "website", "list", "config"} : new[f] = row[f]
      BY <1>4, <1>9
    <3> QED
      BY <2>1, <3>1, <1>4, <1>8, <1>9, <1>10, <1>13
  <2>2. CASE r \in DOMAIN db.rows
    <3>1. PICK i \in DOMAIN threads :
            /\ threads[i].id = r /\ threads[i].state # "ended"
            /\ \A f \in {"kind", "website", "list", "config"} : threads[i][f] = db.rows[r][f]
            /\ threads[i].state = "running" => threads[i].paused = db.rows[r].paused \/ r \in reused
      BY <2>2, <1>1 DEF RowsHaveThreads
    <3>2. i \in DOMAIN threads' /\ threads'[i] = threads[i] /\ db'.rows[r] = db.rows[r]
          /\ (r \in reused => r \in reused')
      BY <2>2, <1>5, <1>6, <1>8, <1>10, <1>13
    <3> QED
      BY <3>1, <3>2
  <2> QED
    BY <1>8, <2>1, <2>2
<1>16. SameIds'
  <2> SUFFICES ASSUME NEW i \in DOMAIN threads', NEW j \in DOMAIN threads',
                      threads'[i].id = threads'[j].id, i # j
               PROVE  threads'[i].id \in reused'
    BY DEF SameIds
  <2>1. CASE i \in DOMAIN threads /\ j \in DOMAIN threads /\ threads'[i] = threads[i]
             /\ threads'[j] = threads[j]
    BY <2>1, <1>1, <1>5 DEF SameIds
  <2>2. CASE threads'[i] = new /\ j \in DOMAIN threads /\ threads'[j] = threads[j]
    BY <2>2, <1>5, <1>9
  <2>3. CASE threads'[j] = new /\ i \in DOMAIN threads /\ threads'[i] = threads[i]
    BY <2>3, <1>5, <1>9
  <2> QED
    BY <1>12, <2>1, <2>2, <2>3
<1> QED
  BY <1>14, <1>15, <1>16 DEF Inv, RowInv

LEMMA RowsChangedFacts ==
  ASSUME NEW d \in Database, Fresh(d), Referring(d), NEW R \in [DOMAIN d.rows -> Row],
         \A r \in DOMAIN d.rows : R[r].list = d.rows[r].list /\ R[r].website = d.rows[r].website,
         NEW e, e = [d EXCEPT !.rows = R]
  PROVE  /\ e \in Database /\ Fresh(e) /\ Referring(e)
         /\ e.websites = d.websites /\ e.lists = d.lists /\ e.rows = R
<1>1. DOMAIN d.rows \in SUBSET Id
  BY DatabaseFacts, TableFacts
<1>2. R \in Table(Row) /\ DOMAIN R = DOMAIN d.rows
  BY <1>1, TableIntro
<1>3. e \in Database
  BY <1>2 DEF Database
<1>4. /\ e.websites = d.websites /\ e.lists = d.lists /\ e.configs = d.configs
      /\ e.rows = R /\ e.next = d.next
  BY DEF Database
<1>5. \A t \in RowTables : DOMAIN e[t] = DOMAIN d[t]
  BY <1>2, <1>4 DEF RowTables
<1> QED
  BY <1>2, <1>3, <1>4, <1>5 DEF Fresh, Referring

\* A thread and the row with its ID have the same pause state afterwards; if the row is
\* that of another thread, the ID has been given again.
LEMMA SetPauseKeeps ==
  ASSUME Inv, NEW kind, NEW p \in BOOLEAN, SetPause(kind, p)
  PROVE  Inv'
<1>1. db \in Database /\ Fresh(db) /\ Referring(db) /\ threads \in Seq(Thread)
      /\ reused \subseteq Id /\ RowsHaveThreads /\ SameIds /\ TypeInv
  BY DEF Inv, TypeInv, TypeOK, RowInv
<1>2. PICK id \in 1 .. MaxId["rows"] : \E i \in First(kind, id) :
        threads' = [threads EXCEPT ![i].paused = p] /\ db' = SetPaused(db, id, p)
  BY DEF SetPause
<1>3. PICK i \in First(kind, id) :
        threads' = [threads EXCEPT ![i].paused = p] /\ db' = SetPaused(db, id, p)
  BY <1>2
<1>4. Idle /\ undone' = 0 /\ UNCHANGED <<todo, faults, works, raced, reused>>
  BY DEF SetPause, Command
<1>5. i \in DOMAIN threads /\ threads[i].id = id
  BY DEF First
<1>6. Len(threads) \in Nat /\ DOMAIN threads = 1 .. Len(threads)
      /\ \A j \in DOMAIN threads : threads[j] \in Thread
  BY <1>1, ThreadFacts
<1> DEFINE R == IF id \in DOMAIN db.rows THEN [db.rows EXCEPT ![id].paused = p] ELSE db.rows
           new == [threads[i] EXCEPT !.paused = p]
<1>7. db.rows \in [DOMAIN db.rows -> Row]
  BY <1>1, DatabaseFacts, TableFacts
<1>8. R \in [DOMAIN db.rows -> Row]
      /\ \A r \in DOMAIN db.rows :
           /\ R[r].list = db.rows[r].list /\ R[r].website = db.rows[r].website
           /\ R[r].kind = db.rows[r].kind /\ R[r].config = db.rows[r].config
           /\ R[r].paused = IF r = id THEN p ELSE db.rows[r].paused
  BY <1>7 DEF Row
<1>9. db' = [db EXCEPT !.rows = R]
  BY <1>1, <1>3 DEF SetPaused, Database
<1> HIDE DEF R
<1>10. /\ db' \in Database /\ Fresh(db') /\ Referring(db')
      /\ db'.websites = db.websites /\ db'.lists = db.lists /\ db'.rows = R
  BY <1>1, <1>8, <1>9, RowsChangedFacts
<1>11. new \in Thread /\ new.id = id /\ new.state = threads[i].state /\ new.kind = threads[i].kind
       /\ new.website = threads[i].website /\ new.list = threads[i].list
       /\ new.config = threads[i].config /\ new.paused = p
  BY <1>5, <1>6 DEF Thread
<1>12. threads' = [threads EXCEPT ![i] = new]
  BY <1>3
<1> HIDE DEF new
<1>13. threads' \in Seq(Thread) /\ DOMAIN threads' = DOMAIN threads
       /\ \A j \in DOMAIN threads : threads'[j] = IF j = i THEN new ELSE threads[j]
  BY <1>1, <1>5, <1>6, <1>11, <1>12, ExceptSeq
<1>14. \A j \in DOMAIN threads :
         /\ threads'[j].id = threads[j].id /\ threads'[j].state = threads[j].state
         /\ threads'[j].kind = threads[j].kind /\ threads'[j].website = threads[j].website
         /\ threads'[j].list = threads[j].list /\ threads'[j].config = threads[j].config
         /\ threads'[j].paused = IF j = i THEN p ELSE threads[j].paused
  BY <1>5, <1>11, <1>13
<1>15. TypeInv' /\ UseInv'
  <2>1. \A j \in DOMAIN threads' : /\ threads'[j].website \in DOMAIN db.websites
                                   /\ threads'[j].list \in ListsOf(threads'[j].website)
    BY <1>13, <1>14, UsedFacts
  <2>2. undone' \in Nat /\ reused' \subseteq Id
    BY <1>1, <1>4
  <2> QED
    BY <1>4, <1>10, <1>13, <2>1, <2>2, QuietStep
<1>16. RowsHaveThreads'
  <2> SUFFICES ASSUME NEW r \in DOMAIN db'.rows
               PROVE  \E j \in DOMAIN threads' :
                        /\ threads'[j].id = r /\ threads'[j].state # "ended"
                        /\ \A f \in {"kind", "website", "list", "config"} :
                             threads'[j][f] = db'.rows[r][f]
                        /\ threads'[j].state = "running" =>
                             threads'[j].paused = db'.rows[r].paused \/ r \in reused'
    BY DEF RowsHaveThreads
  <2>1. r \in DOMAIN db.rows
    BY <1>8, <1>10
  <2>2. PICK j \in DOMAIN threads :
          /\ threads[j].id = r /\ threads[j].state # "ended"
          /\ \A f \in {"kind", "website", "list", "config"} : threads[j][f] = db.rows[r][f]
          /\ threads[j].state = "running" => threads[j].paused = db.rows[r].paused \/ r \in reused
    BY <2>1, <1>1 DEF RowsHaveThreads
  <2>3. \A f \in {"kind", "website", "list", "config"} : threads'[j][f] = db'.rows[r][f]
    BY <2>1, <2>2, <1>8, <1>10, <1>14
  <2>4. j = i \/ r # id \/ r \in reused
    BY <2>2, <1>1, <1>5 DEF SameIds
  <2>5. threads'[j].state = "running" => threads'[j].paused = db'.rows[r].paused \/ r \in reused'
    BY <2>1, <2>2, <2>4, <1>4, <1>5, <1>8, <1>10, <1>14
  <2> QED
    BY <2>2, <2>3, <2>5, <1>13, <1>14
<1>17. SameIds'
  BY <1>1, <1>4, <1>13, <1>14 DEF SameIds
<1> QED
  BY <1>15, <1>16, <1>17 DEF Inv, RowInv

\* A thread that is stopped keeps its row until it ends; its pause state is gone.
LEMMA StopKeeps ==
  ASSUME Inv, NEW kind, Stop(kind)
  PROVE  Inv'
<1>1. db \in Database /\ Fresh(db) /\ Referring(db) /\ threads \in Seq(Thread)
      /\ reused \subseteq Id /\ RowsHaveThreads /\ SameIds /\ TypeInv
  BY DEF Inv, TypeInv, TypeOK, RowInv
<1>2. PICK id \in 1 .. MaxId["rows"] : \E i \in First(kind, id) :
        threads' = [threads EXCEPT ![i].state = "stopped", ![i].paused = FALSE] /\ db' = db
  BY DEF Stop
<1>3. PICK i \in First(kind, id) :
        threads' = [threads EXCEPT ![i].state = "stopped", ![i].paused = FALSE] /\ db' = db
  BY <1>2
<1>4. Idle /\ undone' = 0 /\ UNCHANGED <<todo, faults, works, raced, reused>>
  BY DEF Stop, Command
<1>5. i \in DOMAIN threads /\ db' = db
  BY <1>3 DEF First
<1>6. Len(threads) \in Nat /\ DOMAIN threads = 1 .. Len(threads)
      /\ \A j \in DOMAIN threads : threads[j] \in Thread
  BY <1>1, ThreadFacts
<1> DEFINE new == [threads[i] EXCEPT !.state = "stopped", !.paused = FALSE]
<1>7. new \in Thread /\ new.id = threads[i].id /\ new.state = "stopped"
      /\ new.kind = threads[i].kind /\ new.website = threads[i].website
      /\ new.list = threads[i].list /\ new.config = threads[i].config
  BY <1>5, <1>6 DEF Thread
<1>8. threads' = [threads EXCEPT ![i] = new]
  BY <1>3, <1>5, <1>6 DEF Thread
<1> HIDE DEF new
<1>9. threads' \in Seq(Thread) /\ DOMAIN threads' = DOMAIN threads
      /\ \A j \in DOMAIN threads : threads'[j] = IF j = i THEN new ELSE threads[j]
  BY <1>1, <1>5, <1>6, <1>7, <1>8, ExceptSeq
<1>10. \A j \in DOMAIN threads :
        /\ threads'[j].id = threads[j].id
        /\ threads'[j].kind = threads[j].kind /\ threads'[j].website = threads[j].website
        /\ threads'[j].list = threads[j].list /\ threads'[j].config = threads[j].config
        /\ threads'[j].state = "stopped" \/ threads'[j] = threads[j]
  BY <1>5, <1>7, <1>9
<1>11. TypeInv' /\ UseInv'
  <2>1. \A j \in DOMAIN threads' : /\ threads'[j].website \in DOMAIN db.websites
                                   /\ threads'[j].list \in ListsOf(threads'[j].website)
    BY <1>9, <1>10, UsedFacts
  <2>2. undone' \in Nat /\ reused' \subseteq Id
    BY <1>1, <1>4
  <2>3. db' \in Database /\ Fresh(db') /\ Referring(db')
        /\ db'.websites = db.websites /\ db'.lists = db.lists
    BY <1>1, <1>3
  <2> QED
    BY <1>4, <1>9, <2>1, <2>2, <2>3, QuietStep
<1>12. RowsHaveThreads'
  <2> SUFFICES ASSUME NEW r \in DOMAIN db'.rows
               PROVE  \E j \in DOMAIN threads' :
                        /\ threads'[j].id = r /\ threads'[j].state # "ended"
                        /\ \A f \in {"kind", "website", "list", "config"} :
                             threads'[j][f] = db'.rows[r][f]
                        /\ threads'[j].state = "running" =>
                             threads'[j].paused = db'.rows[r].paused \/ r \in reused'
    BY DEF RowsHaveThreads
  <2>1. PICK j \in DOMAIN threads :
          /\ threads[j].id = r /\ threads[j].state # "ended"
          /\ \A f \in {"kind", "website", "list", "config"} : threads[j][f] = db.rows[r][f]
          /\ threads[j].state = "running" => threads[j].paused = db.rows[r].paused \/ r \in reused
    BY <1>1, <1>5 DEF RowsHaveThreads
  <2>2. \A f \in {"kind", "website", "list", "config"} : threads'[j][f] = db'.rows[r][f]
    BY <2>1, <1>5, <1>10
  <2>3. threads'[j].state # "ended" /\ (threads'[j].state = "running" =>
          threads'[j].paused = db'.rows[r].paused \/ r \in reused')
    BY <2>1, <1>4, <1>5, <1>10
  <2> QED
    BY <2>1, <2>2, <2>3, <1>9, <1>10
<1>13. SameIds'
  BY <1>1, <1>4, <1>9, <1>10 DEF SameIds
<1> QED
  BY <1>11, <1>12, <1>13 DEF Inv, RowInv

LEMMA SetAllPausedKeeps ==
  ASSUME Inv, NEW p \in BOOLEAN, SetAllPaused(p)
  PROVE  Inv'
<1>1. db \in Database /\ Fresh(db) /\ Referring(db) /\ threads \in Seq(Thread)
      /\ reused \subseteq Id /\ RowsHaveThreads /\ SameIds /\ TypeInv
  BY DEF Inv, TypeInv, TypeOK, RowInv
<1> DEFINE Changed(r) == \E i \in DOMAIN threads : threads[i].id = r /\ threads[i].paused # p
           R == [r \in DOMAIN db.rows |->
                   IF Changed(r) THEN [db.rows[r] EXCEPT !.paused = p] ELSE db.rows[r]]
<1>2. Idle /\ undone' = 0 /\ UNCHANGED <<todo, faults, works, raced, reused>>
      /\ threads' = [i \in DOMAIN threads |-> [threads[i] EXCEPT !.paused = p]]
  BY DEF SetAllPaused, Command
<1>3. db' = [db EXCEPT !.rows = R]
  BY <1>1 DEF SetAllPaused, Database
<1>4. Len(threads) \in Nat /\ DOMAIN threads = 1 .. Len(threads)
      /\ \A j \in DOMAIN threads : threads[j] \in Thread
  BY <1>1, ThreadFacts
<1>5. db.rows \in [DOMAIN db.rows -> Row]
  BY <1>1, DatabaseFacts, TableFacts
<1>6. R \in [DOMAIN db.rows -> Row]
      /\ \A r \in DOMAIN db.rows :
           /\ R[r].list = db.rows[r].list /\ R[r].website = db.rows[r].website
           /\ R[r].kind = db.rows[r].kind /\ R[r].config = db.rows[r].config
           /\ R[r].paused = IF Changed(r) THEN p ELSE db.rows[r].paused
  BY <1>5 DEF Row
<1> HIDE DEF R
<1>7. /\ db' \in Database /\ Fresh(db') /\ Referring(db')
      /\ db'.websites = db.websites /\ db'.lists = db.lists /\ db'.rows = R
  BY <1>1, <1>3, <1>6, RowsChangedFacts
<1>8. /\ threads' \in [1 .. Len(threads) -> Thread]
      /\ \A j \in DOMAIN threads :
           /\ threads'[j].id = threads[j].id /\ threads'[j].state = threads[j].state
           /\ threads'[j].kind = threads[j].kind /\ threads'[j].website = threads[j].website
           /\ threads'[j].list = threads[j].list /\ threads'[j].config = threads[j].config
           /\ threads'[j].paused = p
  BY <1>2, <1>4 DEF Thread
<1>9. threads' \in Seq(Thread) /\ DOMAIN threads' = DOMAIN threads
  BY <1>4, <1>8, FunctionIsSeq
<1>10. TypeInv' /\ UseInv'
  <2>1. \A j \in DOMAIN threads' : /\ threads'[j].website \in DOMAIN db.websites
                                   /\ threads'[j].list \in ListsOf(threads'[j].website)
    BY <1>8, <1>9, UsedFacts
  <2>2. undone' \in Nat /\ reused' \subseteq Id
    BY <1>1, <1>2
  <2> QED
    BY <1>2, <1>7, <1>9, <2>1, <2>2, QuietStep
<1>11. RowsHaveThreads'
  <2> SUFFICES ASSUME NEW r \in DOMAIN db'.rows
               PROVE  \E j \in DOMAIN threads' :
                        /\ threads'[j].id = r /\ threads'[j].state # "ended"
                        /\ \A f \in {"kind", "website", "list", "config"} :
                             threads'[j][f] = db'.rows[r][f]
                        /\ threads'[j].state = "running" =>
                             threads'[j].paused = db'.rows[r].paused \/ r \in reused'
    BY DEF RowsHaveThreads
  <2>1. r \in DOMAIN db.rows
    BY <1>6, <1>7
  <2>2. PICK j \in DOMAIN threads :
          /\ threads[j].id = r /\ threads[j].state # "ended"
          /\ \A f \in {"kind", "website", "list", "config"} : threads[j][f] = db.rows[r][f]
          /\ threads[j].state = "running" => threads[j].paused = db.rows[r].paused \/ r \in reused
    BY <2>1, <1>1 DEF RowsHaveThreads
  <2>3. \A f \in {"kind", "website", "list", "config"} : threads'[j][f] = db'.rows[r][f]
    BY <2>1, <2>2, <1>6, <1>7, <1>8
  <2>4. threads'[j].state = "running" => threads'[j].paused = db'.rows[r].paused \/ r \in reused'
    BY <2>1, <2>2, <1>2, <1>6, <1>7, <1>8
  <2> QED
    BY <2>2, <2>3, <2>4, <1>8, <1>9
<1>12. SameIds'
  BY <1>1, <1>2, <1>8, <1>9 DEF SameIds
<1> QED
  BY <1>10, <1>11, <1>12 DEF Inv, RowInv

\* A deletion that reaches neither websites nor URL lists leaves both as they are.
\* A deletion that reaches neither websites nor URL lists leaves both as they are.
LEMMA SameWebsitesAndLists ==
  ASSUME NEW d \in Database, Fresh(d), Referring(d), NEW t \in {"configs", "rows"}, NEW id,
         NEW e, e = Delete(d, t, id)
  PROVE  e.websites = d.websites /\ e.lists = d.lists
<1>1. /\ e \in Database
      /\ Sub(e.websites, d.websites) /\ Sub(e.lists, d.lists)
      /\ \A w \in DOMAIN d.websites : w \in DOMAIN e.websites
      /\ \A l \in DOMAIN d.lists : l \in DOMAIN e.lists \/ d.lists[l].website \notin DOMAIN e.websites
  BY DeleteFacts DEF RowTables
<1>2. \A l \in DOMAIN d.lists : l \in DOMAIN e.lists
  BY <1>1 DEF Referring
<1>3. DOMAIN e.websites = DOMAIN d.websites /\ DOMAIN e.lists = DOMAIN d.lists
  BY <1>1, <1>2 DEF Sub
<1>4. /\ e.websites \in Table(WebsiteNames) /\ d.websites \in Table(WebsiteNames)
      /\ e.lists \in Table([website : Id, name : ListNames])
      /\ d.lists \in Table([website : Id, name : ListNames])
  BY <1>1, DatabaseFacts
<1>5. e.websites = d.websites
  <2>1. e.websites \in [DOMAIN d.websites -> WebsiteNames]
        /\ d.websites \in [DOMAIN d.websites -> WebsiteNames]
        /\ \A w \in DOMAIN d.websites : e.websites[w] = d.websites[w]
    BY <1>1, <1>3, <1>4, TableFacts DEF Sub
  <2> QED
    BY <2>1
<1>6. e.lists = d.lists
  <2>1. e.lists \in [DOMAIN d.lists -> [website : Id, name : ListNames]]
        /\ d.lists \in [DOMAIN d.lists -> [website : Id, name : ListNames]]
        /\ \A l \in DOMAIN d.lists : e.lists[l] = d.lists[l]
    BY <1>1, <1>3, <1>4, TableFacts DEF Sub
  <2> QED
    BY <2>1
<1> QED
  BY <1>5, <1>6

\* deleteconfig takes the rows of the threads along that use the configuration.
LEMMA DeleteConfigKeeps ==
  ASSUME Inv, NEW c, DeleteConfig(c)
  PROVE  Inv'
<1>1. db \in Database /\ Fresh(db) /\ Referring(db)
      /\ threads \in Seq(Thread) /\ reused \subseteq Id /\ RowInv
  BY DEF Inv, TypeInv, TypeOK
<1>2. Idle /\ db' = Delete(db, "configs", c) /\ undone' = 0
      /\ UNCHANGED <<threads, todo, faults, works, raced, reused>>
  BY DEF DeleteConfig
<1>3. db' \in Database /\ Fresh(db') /\ Referring(db') /\ Sub(db'.rows, db.rows)
  BY <1>1, <1>2, DeleteFacts DEF RowTables
<1>4. db'.websites = db.websites /\ db'.lists = db.lists
  BY <1>1, <1>2, SameWebsitesAndLists
<1>5. TypeInv' /\ UseInv'
  BY <1>1, <1>2, <1>3, <1>4, UsedFacts, QuietStep
<1>6. RowInv'
  BY <1>1, <1>2, <1>3, RowsKept
<1> QED
  BY <1>5, <1>6 DEF Inv

\* A thread takes its row along; the rows that stay have other IDs, and other threads.
LEMMA EndKeeps ==
  ASSUME Inv, NEW i \in DOMAIN threads, End(i)
  PROVE  Inv'
<1>1. db \in Database /\ Fresh(db) /\ Referring(db) /\ threads \in Seq(Thread)
      /\ reused \subseteq Id /\ RowsHaveThreads /\ SameIds /\ TypeInv /\ undone \in Nat
  BY DEF Inv, TypeInv, TypeOK, RowInv
<1> DEFINE new == [threads[i] EXCEPT !.state = "ended"]
           id == threads[i].id
<1>2. /\ threads' = [threads EXCEPT ![i] = new] /\ db' = Delete(db, "rows", id)
      /\ UNCHANGED <<todo, undone, faults, works, raced, reused>>
  BY DEF End
<1>3. Len(threads) \in Nat /\ DOMAIN threads = 1 .. Len(threads)
      /\ \A j \in DOMAIN threads : threads[j] \in Thread
  BY <1>1, ThreadFacts
<1>4. new \in Thread /\ new.id = id /\ new.website = threads[i].website /\ new.list = threads[i].list
  BY <1>3 DEF Thread
<1> HIDE DEF new, id
<1>5. db' \in Database /\ Fresh(db') /\ Referring(db') /\ Sub(db'.rows, db.rows) /\ id \notin DOMAIN db'.rows
  BY <1>1, <1>2, DeleteFacts DEF RowTables
<1>6. db'.websites = db.websites /\ db'.lists = db.lists
  BY <1>1, <1>2, SameWebsitesAndLists
<1>7. threads' \in Seq(Thread) /\ DOMAIN threads' = DOMAIN threads
      /\ \A j \in DOMAIN threads : threads'[j] = IF j = i THEN new ELSE threads[j]
  BY <1>1, <1>2, <1>3, <1>4, ExceptSeq
<1>8. \A j \in DOMAIN threads :
        /\ threads'[j].id = threads[j].id /\ threads'[j].website = threads[j].website
        /\ threads'[j].list = threads[j].list
        /\ j # i => threads'[j] = threads[j]
  BY <1>4, <1>7 DEF id
<1>9. TypeInv' /\ UseInv'
  <2>1. \A j \in DOMAIN threads' :
          /\ threads'[j].website \in DOMAIN db.websites
          /\ threads'[j].list \in ListsOf(threads'[j].website)
          /\ \E k \in DOMAIN threads : /\ threads[k].website = threads'[j].website
                                       /\ threads[k].list = threads'[j].list
    BY <1>7, <1>8, UsedFacts
  <2>2. undone' \in Nat /\ reused' \subseteq Id
    BY <1>1, <1>2
  <2> QED
    BY <1>2, <1>5, <1>6, <1>7, <2>1, <2>2, QuietStep
<1>10. RowsHaveThreads'
  <2> SUFFICES ASSUME NEW r \in DOMAIN db'.rows
               PROVE  \E j \in DOMAIN threads' :
                        /\ threads'[j].id = r /\ threads'[j].state # "ended"
                        /\ \A f \in {"kind", "website", "list", "config"} :
                             threads'[j][f] = db'.rows[r][f]
                        /\ threads'[j].state = "running" =>
                             threads'[j].paused = db'.rows[r].paused \/ r \in reused'
    BY DEF RowsHaveThreads
  <2>1. r \in DOMAIN db.rows /\ db'.rows[r] = db.rows[r] /\ r # id
    BY <1>5 DEF Sub
  <2>2. PICK j \in DOMAIN threads :
          /\ threads[j].id = r /\ threads[j].state # "ended"
          /\ \A f \in {"kind", "website", "list", "config"} : threads[j][f] = db.rows[r][f]
          /\ threads[j].state = "running" => threads[j].paused = db.rows[r].paused \/ r \in reused
    BY <2>1, <1>1 DEF RowsHaveThreads
  <2>3. j # i
    BY <2>1, <2>2 DEF id
  <2>4. threads'[j] = threads[j] /\ j \in DOMAIN threads' /\ reused' = reused
    BY <2>3, <1>2, <1>7
  <2> QED
    BY <2>1, <2>2, <2>4
<1>11. SameIds'
  <2>1. reused' = reused
    BY <1>2
  <2> QED
    BY <2>1, <1>1, <1>7, <1>8 DEF SameIds
<1> QED
  BY <1>9, <1>10, <1>11 DEF Inv, RowInv

\* Only threads that have ended, and have no row any more, are removed.
LEMMA RemoveFinishedKeeps ==
  ASSUME Inv, RemoveFinished
  PROVE  Inv'
<1>1. db \in Database /\ Fresh(db) /\ Referring(db) /\ threads \in Seq(Thread)
      /\ reused \subseteq Id /\ RowsHaveThreads /\ SameIds /\ TypeInv /\ undone \in Nat
  BY DEF Inv, TypeInv, TypeOK, RowInv
<1> DEFINE S == {i \in DOMAIN threads : threads[i].state # "ended"}
<1>2. PICK left \in Ascending(S) : threads' = [k \in DOMAIN left |-> threads[left[k]]]
  BY DEF RemoveFinished
<1>3. Idle /\ UNCHANGED <<db, todo, undone, faults, works, raced, reused>>
  BY DEF RemoveFinished
<1>4. Len(threads) \in Nat /\ DOMAIN threads = 1 .. Len(threads)
      /\ \A j \in DOMAIN threads : threads[j] \in Thread
  BY <1>1, ThreadFacts
<1>5. IsFiniteSet(S)
  <2>1. IsFiniteSet(1 .. Len(threads)) /\ S \in SUBSET (1 .. Len(threads))
    BY <1>4, FS_Interval
  <2> QED
    BY <2>1, FS_Subset
<1>6. /\ left \in Seq(S) /\ DOMAIN left = 1 .. Len(left)
      /\ \A i \in DOMAIN left : left[i] \in S
      /\ \A x \in S : \E i \in DOMAIN left : left[i] = x
      /\ \A i, j \in DOMAIN left : left[i] = left[j] => i = j
  BY <1>5, AscendingFacts
<1>7. Len(left) \in Nat
  BY <1>6, LenProperties
<1>8. threads' \in [1 .. Len(left) -> Thread] /\ DOMAIN threads' = DOMAIN left
      /\ \A k \in DOMAIN left : threads'[k] = threads[left[k]] /\ left[k] \in DOMAIN threads
  BY <1>2, <1>4, <1>6
<1>9. threads' \in Seq(Thread)
  BY <1>7, <1>8, FunctionIsSeq
<1>10. TypeInv' /\ UseInv'
  <2>1. \A j \in DOMAIN threads' : /\ threads'[j].website \in DOMAIN db.websites
                                   /\ threads'[j].list \in ListsOf(threads'[j].website)
    BY <1>8, UsedFacts
  <2>2. undone' \in Nat /\ reused' \subseteq Id /\ db' = db
    BY <1>1, <1>3
  <2> QED
    BY <1>1, <1>3, <1>9, <2>1, <2>2, QuietStep
<1>11. RowsHaveThreads'
  <2> SUFFICES ASSUME NEW r \in DOMAIN db'.rows
               PROVE  \E j \in DOMAIN threads' :
                        /\ threads'[j].id = r /\ threads'[j].state # "ended"
                        /\ \A f \in {"kind", "website", "list", "config"} :
                             threads'[j][f] = db'.rows[r][f]
                        /\ threads'[j].state = "running" =>
                             threads'[j].paused = db'.rows[r].paused \/ r \in reused'
    BY DEF RowsHaveThreads
  <2>1. db' = db /\ reused' = reused
    BY <1>3
  <2>2. PICK j \in DOMAIN threads :
          /\ threads[j].id = r /\ threads[j].state # "ended"
          /\ \A f \in {"kind", "website", "list", "config"} : threads[j][f] = db.rows[r][f]
          /\ threads[j].state = "running" => threads[j].paused = db.rows[r].paused \/ r \in reused
    BY <2>1, <1>1 DEF RowsHaveThreads
  <2>3. PICK k \in DOMAIN left : left[k] = j
    BY <2>2, <1>6
  <2>4. threads'[k] = threads[j] /\ k \in DOMAIN threads'
    BY <2>3, <1>8
  <2> QED
    BY <2>1, <2>2, <2>4
<1>12. SameIds'
  <2>1. reused' = reused
    BY <1>3
  <2> QED
    BY <2>1, <1>1, <1>6, <1>8 DEF SameIds
<1> QED
  BY <1>10, <1>11, <1>12 DEF Inv, RowInv

\* The threads after a restart are those of the rows, which refer to existing lists.
LEMMA RestartKeeps ==
  ASSUME Inv, Restart
  PROVE  Inv'
<1>1. db \in Database /\ Fresh(db) /\ Referring(db) /\ "rows" \in RowTables /\ UseInv
      /\ TypeInv /\ faults \in Nat /\ works \in Nat /\ raced \in BOOLEAN
  BY DEF Inv, TypeInv, TypeOK, RowTables
<1>2. PICK ids \in Ascending(DOMAIN db.rows) :
        threads' = [i \in DOMAIN ids |-> ThreadOf(ids[i], db.rows[ids[i]])]
  BY DEF Restart
<1>3. /\ todo' = [c \in Connections |-> <<>>] /\ undone' = 0 /\ reused' = {}
      /\ UNCHANGED <<db, works, raced>> /\ faults' \in Nat
  BY <1>1 DEF Restart
<1>4. IsFiniteSet(DOMAIN db.rows)
  BY <1>1, DomainFinite
<1>5. /\ ids \in Seq(DOMAIN db.rows) /\ DOMAIN ids = 1 .. Len(ids)
      /\ \A i \in DOMAIN ids : ids[i] \in DOMAIN db.rows
      /\ \A x \in DOMAIN db.rows : \E i \in DOMAIN ids : ids[i] = x
      /\ \A i, j \in DOMAIN ids : ids[i] = ids[j] => i = j
  BY <1>4, AscendingFacts
<1>6. Len(ids) \in Nat
  BY <1>5, LenProperties
<1>7. /\ threads' \in [1 .. Len(ids) -> Thread] /\ DOMAIN threads' = DOMAIN ids
      /\ \A i \in DOMAIN ids :
           /\ threads'[i].id = ids[i] /\ threads'[i].state = "running"
           /\ threads'[i].kind = db.rows[ids[i]].kind
           /\ threads'[i].website = db.rows[ids[i]].website
           /\ threads'[i].list = db.rows[ids[i]].list
           /\ threads'[i].config = db.rows[ids[i]].config
           /\ threads'[i].paused = db.rows[ids[i]].paused
  <2>1. \A r \in DOMAIN db.rows : r \in Id /\ db.rows[r] \in Row
    BY <1>1, ReferringFacts
  <2>2. \A r \in DOMAIN db.rows : ThreadOf(r, db.rows[r]) \in Thread
    BY <2>1 DEF ThreadOf, Thread, Row
  <2>3. threads' \in [1 .. Len(ids) -> Thread] /\ DOMAIN threads' = DOMAIN ids
        /\ \A i \in DOMAIN ids : threads'[i] = ThreadOf(ids[i], db.rows[ids[i]])
    BY <1>2, <1>5, <2>2
  <2>4. ASSUME NEW r
        PROVE  LET t == ThreadOf(r, db.rows[r]) IN
               /\ t.id = r /\ t.state = "running" /\ t.kind = db.rows[r].kind
               /\ t.website = db.rows[r].website /\ t.list = db.rows[r].list
               /\ t.config = db.rows[r].config /\ t.paused = db.rows[r].paused
    BY DEF ThreadOf
  <2> QED
    BY <2>3, <2>4
<1>8. threads' \in Seq(Thread)
  BY <1>6, <1>7, FunctionIsSeq
<1>9. TypeInv'
  <2>1. <<>> \in Seq(Statement) /\ <<>> \in Seq(WorkerStatement)
    BY EmptySeq
  <2>2. todo' \in [Connections -> Seq(Statement)] /\ todo'["worker"] \in Seq(WorkerStatement)
    BY <1>3, <2>1 DEF Connections
  <2> QED
    BY <1>1, <1>3, <1>8, <2>2 DEF TypeInv, TypeOK
<1>10. UseInv'
  <2>1. UsedDataExists'
    <3> SUFFICES ASSUME NEW i \in DOMAIN ids
                 PROVE  /\ threads'[i].website \in DOMAIN db.websites
                        /\ threads'[i].list \in DOMAIN db.lists
                        /\ db.lists[threads'[i].list].website = threads'[i].website
      BY <1>3, <1>7 DEF UsedDataExists, ListsOf
    <3>1. /\ db.rows[ids[i]].list \in DOMAIN db.lists
          /\ db.lists[db.rows[ids[i]].list].website = db.rows[ids[i]].website
          /\ db.lists[db.rows[ids[i]].list].website \in DOMAIN db.websites
      BY <1>1, <1>5 DEF Referring
    <3> QED
      BY <3>1, <1>7
  <2>2. WebsiteNamespacesAreUnique'
    BY <1>1, <1>3 DEF UseInv, WebsiteNamespacesAreUnique
  <2>3. Plan(todo["main"])'
    <3>1. todo'["main"] = <<>>
      BY <1>3 DEF Connections
    <3>2. <<>> \in Seq(Planned') /\ DOMAIN <<>> = {}
      BY EmptySeq
    <3> QED
      BY <3>1, <3>2 DEF Plan
  <2> QED
    BY <2>1, <2>2, <2>3 DEF UseInv
<1>11. RowsHaveThreads'
  <2> SUFFICES ASSUME NEW r \in DOMAIN db'.rows
               PROVE  \E j \in DOMAIN threads' :
                        /\ threads'[j].id = r /\ threads'[j].state # "ended"
                        /\ \A f \in {"kind", "website", "list", "config"} :
                             threads'[j][f] = db'.rows[r][f]
                        /\ threads'[j].state = "running" =>
                             threads'[j].paused = db'.rows[r].paused \/ r \in reused'
    BY DEF RowsHaveThreads
  <2>1. db' = db
    BY <1>3
  <2>2. PICK j \in DOMAIN ids : ids[j] = r
    BY <2>1, <1>5
  <2>3. \A f \in {"kind", "website", "list", "config"} : threads'[j][f] = db'.rows[r][f]
    BY <2>1, <2>2, <1>7
  <2> QED
    BY <2>1, <2>2, <2>3, <1>7
<1>12. SameIds'
  BY <1>5, <1>7 DEF SameIds
<1> QED
  BY <1>9, <1>10, <1>11, <1>12 DEF Inv, RowInv

LEMMA ImportNewKeeps ==
  ASSUME Inv, ImportNew
  PROVE  Inv'
<1>1. /\ TypeInv /\ db \in Database /\ Referring(db) /\ todo \in [Connections -> Seq(Statement)]
      /\ faults \in Nat /\ works \in Nat /\ raced \in BOOLEAN /\ Plan(todo["main"])
  BY DEF Inv, UseInv, TypeInv, TypeOK
<1>2. PICK w \in DOMAIN db.websites, name \in ListNames :
        todo' = [todo EXCEPT !["worker"] = AddUrlList(w, name, db.websites[w] \o name, 0)]
  BY DEF ImportNew
<1>3. works' \in Nat /\ undone' = 0 /\ UNCHANGED <<db, threads, faults, raced, reused>>
  BY <1>1 DEF ImportNew
<1> DEFINE t == AddUrlList(w, name, db.websites[w] \o name, 0)
<1>4. w \in Id /\ db.websites[w] \in WebsiteNames
  BY <1>1, ReferringFacts
<1>5. db.websites[w] \o name \in TableNames
  BY <1>4, TableNameIntro
<1>6. InsertList(w, name, 0) \in Nameless /\ CreateTables(db.websites[w] \o name, 0) \in Nameless
  BY <1>4, <1>5, InsertListPlanned, CreateTablesPlanned
<1>7. InsertList(w, name, 0) \in WorkerStatement
  BY <1>6 DEF Nameless, Planned, WorkerStatement, InsertList
<1>8. CreateTables(db.websites[w] \o name, 0) \in WorkerStatement
  BY <1>6 DEF Nameless, Planned, WorkerStatement, CreateTables
<1>9. t \in Seq(WorkerStatement)
  BY <1>7, <1>8 DEF AddUrlList
<1>10. WorkerStatement \subseteq Statement
  BY DEF WorkerStatement
<1> HIDE DEF t
<1>11. t \in Seq(Statement)
  BY <1>9, <1>10, SeqMonotonic
<1>12. /\ todo' \in [Connections -> Seq(Statement)] /\ todo'["worker"] \in Seq(WorkerStatement)
       /\ todo'["main"] = todo["main"]
  BY <1>1, <1>2, <1>9, <1>11, TodoReplaced DEF t, Connections
<1> QED
  BY <1>1, <1>3, <1>12, NewPlan

LEMMA AcceptKeeps ==
  ASSUME Inv, NEW s, Plan(s), Accept(s)
  PROVE  Inv'
<1>1. TypeInv /\ faults \in Nat /\ works \in Nat /\ raced \in BOOLEAN
  BY DEF Inv, TypeInv, TypeOK
<1>2. /\ todo' = [todo EXCEPT !["main"] = s] /\ undone' = 0 /\ raced' \in BOOLEAN
      /\ UNCHANGED <<db, threads, faults, works, reused>>
  BY <1>1 DEF Accept
<1>3. s \in Seq(Statement)
  BY PlanTyped
<1>4. /\ todo' \in [Connections -> Seq(Statement)] /\ todo'["worker"] \in Seq(WorkerStatement)
      /\ todo'["main"] = s
  BY <1>1, <1>2, <1>3, TodoReplaced DEF Connections
<1>5. Plan(todo'["main"])
  BY <1>4
<1> QED
  BY <1>1, <1>2, <1>4, <1>5, NewPlan

LEMMA NextInv == Inv /\ [Next]_vars => Inv'
<1> SUFFICES ASSUME Inv, [Next]_vars PROVE Inv'
  OBVIOUS
<1>1. TypeInv /\ UsedDataExists /\ faults \in Nat
  BY DEF Inv, UseInv, TypeInv, TypeOK
<1>2. ASSUME NEW c \in Connections, Execute(c)
      PROVE  Inv'
  <2>1. /\ todo[c] # <<>> /\ UNCHANGED <<threads, faults, works, raced, reused>>
        /\ \/ Fail(c)
           \/ Proceed(c) /\ undone' = undone /\ Executed(db, Next1(c), db')
    BY <1>1, <1>2, ExecuteFacts
  <2> QED
    BY <1>1, <2>1, FailKeeps, ExecutedKeeps
<1>3. ASSUME NEW c \in Connections, Fault(c)
      PROVE  Inv'
  <2>1. /\ todo[c] # <<>> /\ Fail(c) /\ faults' \in Nat /\ UNCHANGED <<works, raced, reused>>
    BY <1>1, <1>3 DEF Fault
  <2> QED
    BY <2>1, FailKeeps
<1>4. CASE DataCommand
  BY <1>1, <1>4, DataCommandPlans, AcceptKeeps, DeleteConfigKeeps
<1>5. CASE ThreadCommand
  <2>1. \/ \E kind \in Kinds : Start(kind)
        \/ \E kind \in Kinds, p \in BOOLEAN : SetPause(kind, p)
        \/ \E kind \in Kinds : Stop(kind)
        \/ \E p \in BOOLEAN : SetAllPaused(p)
    BY <1>5 DEF ThreadCommand, Kinds, StartCrawler, StartParser, StartExtractor, StartAnalyzer,
       PauseCrawler, PauseParser, PauseExtractor, PauseAnalyzer, UnpauseCrawler, UnpauseParser,
       UnpauseExtractor, UnpauseAnalyzer, StopCrawler, StopParser, StopExtractor, StopAnalyzer,
       PauseAll, UnpauseAll
  <2> QED
    BY <2>1, StartKeeps, SetPauseKeeps, StopKeeps, SetAllPausedKeeps
<1>6. ASSUME NEW i \in DOMAIN threads, End(i)
      PROVE  Inv'
  BY <1>6, EndKeeps
<1>7. CASE RemoveFinished
  BY <1>7, RemoveFinishedKeeps
<1>8. CASE ImportNew
  BY <1>8, ImportNewKeeps
<1>9. CASE Restart
  BY <1>9, RestartKeeps
<1>10. CASE UNCHANGED vars
  <2>1. UNCHANGED <<db, threads, todo, undone, faults, works, raced, reused>>
    BY <1>10 DEF vars
  <2>2. /\ todo \in [Connections -> Seq(Statement)] /\ todo["worker"] \in Seq(WorkerStatement)
        /\ Plan(todo["main"]) /\ undone \in Nat /\ faults \in Nat /\ works \in Nat
        /\ raced \in BOOLEAN
    BY DEF Inv, UseInv, TypeInv, TypeOK
  <2>3. Plan(todo'["main"])
    BY <2>1, <2>2
  <2> QED
    BY <2>1, <2>2, <2>3, NewPlan
<1> QED
  BY <1>2, <1>3, <1>4, <1>5, <1>6, <1>7, <1>8, <1>9, <1>10 DEF Next

THEOREM Invariance == Spec => []Inv
<1> QED
  BY InitInv, NextInv, PTL DEF Spec

-----------------------------------------------------------------------------
(* Tables and lists.  As long as no statement fails and no command comes in *)
(* between those of a worker, one connection at most has statements left,   *)
(* and the tables are those of the lists but for what these will still do.  *)

\* "crawlserv_" + namespace + "_" + namespace, see TableName
Joined(w, l) == w \o l

\* No two pairs of namespaces make the same name of tables.
NamesAreUnambiguous ==
  \A v, w \in WebsiteNames, k, l \in ListNames :
    Joined(v, k) = Joined(w, l) => v = w /\ k = l

Same(x, y) == x.website = y.website /\ x.name = y.name

UniqueLists(d) == \A k, l \in DOMAIN d.lists : Same(d.lists[k], d.lists[l]) => k = l

Names(d) == {TableName(d, l) : l \in DOMAIN d.lists}

Sound(d) ==
  d \in Database /\ Fresh(d) /\ Referring(d) /\ IsInjective(d.websites) /\ UniqueLists(d)

\* The positions of the statements of a kind.
Of(s, op) == {i \in DOMAIN s : s[i].op = op}

\* w is a website, or the one that s will add.
Owns(d, s, w, n) ==
  \/ w \in DOMAIN d.websites /\ d.websites[w] = n
  \/ 1 \in Of(s, "insertWebsite") /\ s[1].name = n /\ d.next["websites"] = w

\* What is left of adding: tables follow each list, which is a new one.
Adding(d, s) ==
  /\ \A i \in DOMAIN s : s[i].op \in {"insertWebsite", "insertList", "createTables", "insertConfig"}
  /\ \A i \in Of(s, "insertWebsite") : i = 1
  /\ \A i \in Of(s, "createTables") : i = 1 \/ i - 1 \in Of(s, "insertList")
  /\ \A i \in Of(s, "insertList") :
       /\ i + 1 \in Of(s, "createTables")
       /\ \E n \in WebsiteNames : Owns(d, s, s[i].website, n) /\ s[i + 1].name = Joined(n, s[i].name)
       /\ \A l \in DOMAIN d.lists : ~Same(d.lists[l], s[i])
       /\ \A j \in Of(s, "insertList") : Same(s[j], s[i]) => j = i
  /\ d.tables \cup {s[i].name : i \in Of(s, "createTables") \cap {1}} = Names(d)

\* What is left of deleting: tables follow each list, a website goes after its lists.
Deleting(d, s) ==
  /\ \A i \in DOMAIN s : s[i].op \in {"deleteWebsite", "deleteList", "dropTables"}
  /\ \A i \in Of(s, "dropTables") : i = 1 \/ i - 1 \in Of(s, "deleteList")
  /\ \A i \in Of(s, "deleteList") :
       /\ s[i].id \in DOMAIN d.lists
       /\ i + 1 \in Of(s, "dropTables") /\ s[i + 1].name = TableName(d, s[i].id)
       /\ \A j \in Of(s, "deleteList") : s[j].id = s[i].id => j = i
  /\ \A i \in Of(s, "deleteWebsite") :
       /\ i = Len(s)
       /\ \A l \in DOMAIN d.lists :
            d.lists[l].website = s[i].id => \E j \in Of(s, "deleteList") : s[j].id = l
  /\ d.tables = Names(d) \cup {s[i].name : i \in Of(s, "dropTables") \cap {1}}
  /\ \A i \in Of(s, "dropTables") \cap {1} : s[i].name \notin Names(d)

\* The tables that will still be renamed.
Old(s) == {s[i].from : i \in Of(s, "renameTables")}

\* The tables of a list while those of website w get the namespace n, but not yet the old ones.
NameOnTheWay(d, old, w, n, l) ==
  IF d.lists[l].website = w /\ TableName(d, l) \notin old THEN Joined(n, d.lists[l].name)
  ELSE TableName(d, l)

TablesOnTheWay(d, old, w, n) == {NameOnTheWay(d, old, w, n, l) : l \in DOMAIN d.lists}

\* What is left of renaming a website: first the tables of its lists.
RenamingWebsite(d, s) ==
  \E w \in DOMAIN d.websites, n \in WebsiteNames :
    /\ \A v \in DOMAIN d.websites : d.websites[v] # n
    /\ s # <<>> /\ s[Len(s)] = RenameWebsite(w, n)
    /\ \A i \in 1 .. Len(s) - 1 :
         /\ s[i].op = "renameTables"
         /\ \E l \in DOMAIN d.lists :
              /\ d.lists[l].website = w
              /\ s[i].from = TableName(d, l) /\ s[i].to = Joined(n, d.lists[l].name)
    /\ \A i, j \in 1 .. Len(s) - 1 : s[i].from = s[j].from => i = j
    /\ d.tables = TablesOnTheWay(d, Old(s), w, n)

\* What is left of renaming a list: its tables first.
RenamingList(d, s) ==
  \E k \in DOMAIN d.lists, n \in ListNames :
    LET w == d.lists[k].website
        new == Joined(d.websites[w], n)
    IN /\ \A l \in DOMAIN d.lists : d.lists[l].website = w => d.lists[l].name # n
       /\ \/ s = <<RenameTables(TableName(d, k), new), RenameList(k, n)>> /\ d.tables = Names(d)
          \/ /\ s = <<RenameList(k, n)>>
             /\ d.tables = {TableName(d, l) : l \in DOMAIN d.lists \ {k}} \cup {new}

Balanced(d, s) ==
  Adding(d, s) \/ Deleting(d, s) \/ RenamingWebsite(d, s) \/ RenamingList(d, s)

TablesInv ==
  faults = 0 /\ ~raced =>
    /\ UniqueLists(db)
    /\ \E c \in Connections : Balanced(db, todo[c]) /\ \A b \in Connections \ {c} : todo[b] = <<>>

-----------------------------------------------------------------------------
(* A website whose addition has failed is deleted, or it was never there.    *)

Deletion(s) == s.op \in {"deleteWebsite", "deleteList", "dropTables"}

UndoInv ==
  undone # 0 /\ faults <= 1 =>
    /\ \A i \in DOMAIN todo["main"] : Deletion(todo["main"][i])
    /\ undone \in DOMAIN db.websites =>
         /\ faults = 1 /\ todo["main"] # <<>>
         /\ todo["main"][Len(todo["main"])] = DeleteWebsiteRow(undone)

LEMMA SoundFacts ==
  ASSUME NEW d, Sound(d)
  PROVE  /\ d \in Database /\ Fresh(d) /\ Referring(d)
         /\ \A l \in DOMAIN d.lists :
              /\ l \in Id /\ d.lists[l].website \in DOMAIN d.websites
              /\ d.lists[l].name \in ListNames
              /\ TableName(d, l) = Joined(d.websites[d.lists[l].website], d.lists[l].name)
         /\ \A w \in DOMAIN d.websites : w \in Id /\ d.websites[w] \in WebsiteNames
         /\ \A v, w \in DOMAIN d.websites : d.websites[v] = d.websites[w] => v = w
         /\ UniqueLists(d)
<1>1. d \in Database /\ Fresh(d) /\ Referring(d) /\ UniqueLists(d) /\ IsInjective(d.websites)
  BY DEF Sound
<1>2. \A v, w \in DOMAIN d.websites : d.websites[v] = d.websites[w] => v = w
  BY <1>1 DEF IsInjective
<1>3. \A l : TableName(d, l) = Joined(d.websites[d.lists[l].website], d.lists[l].name)
  BY DEF TableName, Joined
<1> QED
  BY <1>1, <1>2, <1>3, ReferringFacts

LEMMA TableNamesDiffer ==
  ASSUME NamesAreUnambiguous, NEW d, Sound(d), NEW k \in DOMAIN d.lists, NEW l \in DOMAIN d.lists,
         TableName(d, k) = TableName(d, l)
  PROVE  k = l
<1> DEFINE v == d.lists[k].website
           w == d.lists[l].website
<1>1. /\ v \in DOMAIN d.websites /\ w \in DOMAIN d.websites
      /\ d.websites[v] \in WebsiteNames /\ d.websites[w] \in WebsiteNames
      /\ d.lists[k].name \in ListNames /\ d.lists[l].name \in ListNames
      /\ Joined(d.websites[v], d.lists[k].name) = Joined(d.websites[w], d.lists[l].name)
  BY SoundFacts
<1>2. d.websites[v] = d.websites[w] /\ d.lists[k].name = d.lists[l].name
  BY <1>1 DEF NamesAreUnambiguous
<1>3. v = w
  BY <1>1, <1>2, SoundFacts
<1> QED
  BY <1>2, <1>3, SoundFacts DEF UniqueLists, Same

\* What is left after the first statement.
LEMMA RestFacts ==
  ASSUME NEW s \in Seq(Statement), s # <<>>, NEW t, t = Tail(s)
  PROVE  /\ Len(s) \in Nat /\ Len(s) # 0 /\ DOMAIN s = 1 .. Len(s)
         /\ t \in Seq(Statement) /\ Len(t) = Len(s) - 1 /\ DOMAIN t = 1 .. Len(s) - 1
         /\ Head(s) = s[1] /\ s[1] \in Statement
         /\ \A i \in DOMAIN t : i \in Nat /\ i + 1 \in DOMAIN s /\ i + 1 # 1 /\ t[i] = s[i + 1]
         /\ \A op : \A i \in DOMAIN t : i \in Of(t, op) <=> i + 1 \in Of(s, op)
         /\ \A op : \A i \in Of(s, op) : i \in Nat /\ (i = 1 \/ i - 1 \in Of(t, op))
<1> DEFINE n == Len(s)
<1>1. n \in Nat /\ n # 0 /\ DOMAIN s = 1 .. n
  <2>1. n \in Nat \ {0}
    BY EmptySeq
  <2> QED
    BY <2>1, LenProperties
<1>2. Head(s) = s[1] /\ Head(s) \in Statement /\ t \in Seq(Statement) /\ Len(t) = n - 1
      /\ \A i \in 1 .. n - 1 : t[i] = s[i + 1]
  BY HeadTailProperties
<1>3. DOMAIN t = 1 .. n - 1
  BY <1>2, LenProperties
<1> HIDE DEF n
<1>4. \A i \in DOMAIN t : i \in Nat /\ i + 1 \in DOMAIN s /\ i + 1 # 1 /\ t[i] = s[i + 1]
  BY <1>1, <1>2, <1>3
<1>5. \A op : \A i \in DOMAIN t : i \in Of(t, op) <=> i + 1 \in Of(s, op)
  BY <1>4 DEF Of
<1>6. ASSUME NEW op, NEW i \in Of(s, op), i # 1
      PROVE  i - 1 \in Of(t, op)
  <2>1. i \in 2 .. n /\ s[i].op = op /\ i - 1 \in 1 .. n - 1 /\ (i - 1) + 1 = i
    BY <1>1, <1>6 DEF Of
  <2> QED
    BY <1>2, <1>3, <2>1 DEF Of
<1>7. \A op : \A i \in Of(s, op) : i \in Nat
  BY <1>1 DEF Of
<1> QED
  BY <1>1, <1>2, <1>3, <1>4, <1>5, <1>6, <1>7 DEF n

\* There is nothing left: the tables are those of the lists.
LEMMA BalancedEmpty ==
  ASSUME NEW d
  PROVE  Balanced(d, <<>>) <=> d.tables = Names(d)
<1>1. DOMAIN <<>> = {} /\ \A op : Of(<<>>, op) = {}
  BY DEF Of
<1>2. Adding(d, <<>>) <=> d.tables = Names(d)
  BY <1>1 DEF Adding
<1>3. Deleting(d, <<>>) => d.tables = Names(d)
  BY <1>1 DEF Deleting
<1>4. ~RenamingWebsite(d, <<>>)
  BY DEF RenamingWebsite
<1>5. ~RenamingList(d, <<>>)
  BY DEF RenamingList
<1> QED
  BY <1>2, <1>3, <1>4, <1>5 DEF Balanced

-----------------------------------------------------------------------------
(* Adding.                                                                  *)

LEMMA AddingRest ==
  ASSUME NEW d, NEW s \in Seq(Statement), s # <<>>, Adding(d, s), NEW e,
         \A w \in DOMAIN d.websites : w \in DOMAIN e.websites /\ e.websites[w] = d.websites[w],
         s[1].op = "insertWebsite" => /\ d.next["websites"] \in DOMAIN e.websites
                                      /\ e.websites[d.next["websites"]] = s[1].name,
         \A l \in DOMAIN e.lists :
           \/ l \in DOMAIN d.lists /\ e.lists[l] = d.lists[l]
           \/ s[1].op = "insertList" /\ Same(e.lists[l], s[1]),
         s[1].op # "insertList" => e.tables = Names(e),
         s[1].op = "insertList" => e.tables \cup {s[2].name} = Names(e)
  PROVE  Adding(e, Tail(s))
<1> DEFINE t == Tail(s)
<1>1. /\ Len(s) \in Nat /\ Len(s) # 0 /\ DOMAIN s = 1 .. Len(s)
      /\ \A i \in DOMAIN t : i \in Nat /\ i + 1 \in DOMAIN s /\ i + 1 # 1 /\ t[i] = s[i + 1]
      /\ \A op : \A i \in DOMAIN t : i \in Of(t, op) <=> i + 1 \in Of(s, op)
      /\ \A op : \A i \in Of(s, op) : i \in Nat /\ (i = 1 \/ i - 1 \in Of(t, op))
      /\ \A op : \A i \in Of(t, op) : i \in DOMAIN t
  BY RestFacts DEF Of
<1>2. 1 \in DOMAIN s
  BY <1>1
<1> HIDE DEF t
<1>3. \A i \in DOMAIN t : t[i].op \in {"insertWebsite", "insertList", "createTables", "insertConfig"}
  BY <1>1 DEF Adding
<1>4. Of(t, "insertWebsite") = {}
  BY <1>1 DEF Adding
<1>5. ASSUME NEW i \in Of(t, "createTables"), i # 1
      PROVE  i - 1 \in Of(t, "insertList")
  <2>1. i \in Nat /\ i + 1 \in Of(s, "createTables")
    BY <1>1
  <2>2. (i + 1) - 1 \in Of(s, "insertList") /\ (i + 1) - 1 = i
    BY <2>1, <1>1, <1>5 DEF Adding
  <2> QED
    BY <1>1, <1>5, <2>2
<1>6. ASSUME NEW i \in Of(t, "insertList")
      PROVE  /\ i + 1 \in Of(t, "createTables")
             /\ \E n \in WebsiteNames : Owns(e, t, t[i].website, n) /\ t[i + 1].name = Joined(n, t[i].name)
             /\ \A l \in DOMAIN e.lists : ~Same(e.lists[l], t[i])
             /\ \A j \in Of(t, "insertList") : Same(t[j], t[i]) => j = i
  <2>1. /\ i \in Nat /\ i + 1 \in Of(s, "insertList") /\ t[i] = s[i + 1] /\ i + 1 # 1
        /\ (i + 1) + 1 \in Of(s, "createTables")
    BY <1>1, <1>6 DEF Adding
  <2>2. i + 1 \in Of(t, "createTables") /\ t[i + 1] = s[(i + 1) + 1]
    <3>1. ((i + 1) + 1) - 1 = i + 1 /\ (i + 1) + 1 # 1
      BY <2>1
    <3>2. i + 1 \in Of(t, "createTables")
      BY <2>1, <3>1, <1>1
    <3> QED
      BY <3>2, <1>1
  <2>3. PICK n \in WebsiteNames : /\ Owns(d, s, s[i + 1].website, n)
                                  /\ s[(i + 1) + 1].name = Joined(n, s[i + 1].name)
    BY <2>1 DEF Adding
  <2>4. Owns(e, t, t[i].website, n)
    BY <2>1, <2>3 DEF Owns, Of
  <2>5. \A l \in DOMAIN e.lists : ~Same(e.lists[l], t[i])
    <3> SUFFICES ASSUME NEW l \in DOMAIN e.lists, Same(e.lists[l], t[i]) PROVE FALSE
      OBVIOUS
    <3>1. CASE l \in DOMAIN d.lists /\ e.lists[l] = d.lists[l]
      BY <2>1, <3>1 DEF Adding
    <3>2. CASE s[1].op = "insertList" /\ Same(e.lists[l], s[1])
      <4>1. 1 \in Of(s, "insertList") /\ Same(s[1], s[i + 1])
        BY <1>2, <2>1, <3>2 DEF Of, Same
      <4> QED
        BY <2>1, <4>1 DEF Adding
    <3> QED
      BY <3>1, <3>2
  <2>6. ASSUME NEW j \in Of(t, "insertList"), Same(t[j], t[i])
        PROVE  j = i
    <3>1. j \in Nat /\ j + 1 \in Of(s, "insertList") /\ t[j] = s[j + 1]
      BY <1>1
    <3>2. j + 1 = i + 1
      BY <2>1, <2>6, <3>1 DEF Adding
    <3> QED
      BY <2>1, <3>1, <3>2
  <2> QED
    BY <2>1, <2>2, <2>3, <2>4, <2>5, <2>6
<1>7. e.tables \cup {t[i].name : i \in Of(t, "createTables") \cap {1}} = Names(e)
  <2>1. CASE s[1].op = "insertList"
    <3>1. 1 \in Of(s, "insertList")
      BY <1>2, <2>1 DEF Of
    <3>2. 1 + 1 \in Of(s, "createTables") /\ 1 + 1 # 1 /\ (1 + 1) - 1 = 1
      BY <3>1 DEF Adding
    <3>3. 1 \in Of(t, "createTables") /\ t[1] = s[2]
      BY <1>1, <3>2
    <3>4. {t[i].name : i \in Of(t, "createTables") \cap {1}} = {s[2].name}
      BY <3>3
    <3> QED
      BY <2>1, <3>4
  <2>2. CASE s[1].op # "insertList"
    <3>1. 1 \notin Of(t, "createTables")
      <4> SUFFICES ASSUME 1 \in Of(t, "createTables") PROVE FALSE
        OBVIOUS
      <4>1. 1 + 1 \in Of(s, "createTables") /\ (1 + 1) - 1 = 1 /\ 1 + 1 # 1
        BY <1>1
      <4>2. 1 \in Of(s, "insertList")
        BY <4>1 DEF Adding
      <4> QED
        BY <2>2, <4>2 DEF Of
    <3>2. Of(t, "createTables") \cap {1} = {}
      BY <3>1
    <3> QED
      BY <2>2, <3>2
  <2> QED
    BY <2>1, <2>2
<1>8. Adding(e, t)
  BY <1>3, <1>4, <1>5, <1>6, <1>7 DEF Adding
<1> QED
  BY <1>8 DEF t

\* What the statements do to the database.
LEMMA StatementEffect ==
  ASSUME NEW c \in Connections, Execute(c), NEW s, s = Next1(c)
  PROVE  /\ todo[c] # <<>>
         /\ s.op = "insertWebsite" => db' = Insert(db, "websites", s.name) /\ Proceed(c)
         /\ s.op = "insertList" /\ s.website \in DOMAIN db.websites =>
              /\ db' = Insert(db, "lists", [website |-> s.website, name |-> s.name])
              /\ Proceed(c)
         /\ s.op = "createTables" => db' = [db EXCEPT !.tables = @ \cup {s.name}] /\ Proceed(c)
         /\ s.op = "insertConfig" => db' = Insert(db, "configs", s.website) /\ Proceed(c)
         /\ s.op = "deleteWebsite" => db' = Delete(db, "websites", s.id) /\ Proceed(c)
         /\ s.op = "deleteList" => db' = Delete(db, "lists", s.id) /\ Proceed(c)
         /\ s.op = "dropTables" => db' = [db EXCEPT !.tables = @ \ {s.name}] /\ Proceed(c)
         /\ s.op = "renameTables" /\ s.from \in db.tables /\ s.to \notin db.tables =>
              db' = [db EXCEPT !.tables = (@ \ {s.from}) \cup {s.to}] /\ Proceed(c)
         /\ s.op = "renameWebsite" => db' = [db EXCEPT !.websites[s.id] = s.name] /\ Proceed(c)
         /\ s.op = "renameList" => db' = [db EXCEPT !.lists[s.id].name = s.name] /\ Proceed(c)
<1> USE DEF IsNext, Done
<1>1. CASE ExecInsertWebsite(c)
  BY <1>1 DEF ExecInsertWebsite
<1>2. CASE ExecInsertList(c)
  BY <1>2 DEF ExecInsertList
<1>3. CASE ExecCreateTables(c)
  BY <1>3 DEF ExecCreateTables
<1>4. CASE ExecInsertConfig(c)
  BY <1>4 DEF ExecInsertConfig
<1>5. CASE ExecDeleteWebsite(c)
  BY <1>5 DEF ExecDeleteWebsite
<1>6. CASE ExecDeleteList(c)
  BY <1>6 DEF ExecDeleteList
<1>7. CASE ExecDropTables(c)
  BY <1>7 DEF ExecDropTables
<1>8. CASE ExecRenameTables(c)
  BY <1>8 DEF ExecRenameTables
<1>9. CASE ExecRenameWebsite(c)
  BY <1>9 DEF ExecRenameWebsite
<1>10. CASE ExecRenameList(c)
  BY <1>10 DEF ExecRenameList
<1> QED
  BY <1>1, <1>2, <1>3, <1>4, <1>5, <1>6, <1>7, <1>8, <1>9, <1>10 DEF Execute

\* The names are the same if the lists and the websites they belong to are.
LEMMA SameNames ==
  ASSUME NEW d, NEW e, DOMAIN e.lists = DOMAIN d.lists,
         \A l \in DOMAIN d.lists :
           /\ e.lists[l] = d.lists[l]
           /\ e.websites[d.lists[l].website] = d.websites[d.lists[l].website]
  PROVE  /\ Names(e) = Names(d)
         /\ UniqueLists(d) => UniqueLists(e)
         /\ \A l \in DOMAIN d.lists : TableName(e, l) = TableName(d, l)
<1>1. \A l \in DOMAIN d.lists : TableName(e, l) = TableName(d, l)
  BY DEF TableName
<1>2. Names(e) = Names(d)
  BY <1>1 DEF Names
<1>3. UniqueLists(d) => UniqueLists(e)
  BY DEF UniqueLists, Same
<1> QED
  BY <1>1, <1>2, <1>3

LEMMA AddingStep ==
  ASSUME Sound(db), NEW c \in Connections, todo[c] \in Seq(Statement),
         Adding(db, todo[c]), Execute(c)
  PROVE  Proceed(c) /\ UniqueLists(db') /\ Adding(db', Tail(todo[c]))
<1> DEFINE s == todo[c]
           x == s[1]
<1>1. s # <<>>
  BY StatementEffect
<1>2. /\ Len(s) \in Nat /\ Len(s) # 0 /\ DOMAIN s = 1 .. Len(s)
      /\ Next1(c) = x /\ x \in Statement
  BY <1>1, RestFacts DEF Next1
<1>3. 1 \in DOMAIN s /\ \A op : x.op = op => 1 \in Of(s, op)
  BY <1>2 DEF Of
<1>4. /\ db \in Database /\ Fresh(db) /\ Referring(db) /\ UniqueLists(db)
      /\ \A l \in DOMAIN db.lists : db.lists[l].website \in DOMAIN db.websites
  BY SoundFacts
<1>5. x.op # "createTables" => db.tables = Names(db)
  <2>1. x.op # "createTables" => Of(s, "createTables") \cap {1} = {}
    BY DEF Of
  <2> QED
    BY <2>1 DEF Adding
<1>6. CASE x.op = "insertWebsite"
  <2>1. x.name \in WebsiteNames /\ db' = Insert(db, "websites", x.name) /\ Proceed(c)
    BY <1>2, <1>6, StatementFacts, StatementEffect
  <2>2. /\ db'.lists = db.lists /\ db'.tables = db.tables
        /\ DOMAIN db'.websites = DOMAIN db.websites \cup {db.next["websites"]}
        /\ db'.websites[db.next["websites"]] = x.name
        /\ \A w \in DOMAIN db.websites : db'.websites[w] = db.websites[w]
    BY <1>4, <2>1, InsertWebsiteFacts
  <2>3. Names(db') = Names(db) /\ UniqueLists(db')
    BY <1>4, <2>2, SameNames
  <2>4. Adding(db', Tail(s))
    BY <1>1, <1>5, <1>6, <2>2, <2>3, AddingRest
  <2> QED
    BY <2>1, <2>3, <2>4
<1>7. CASE x.op = "insertList"
  <2>1. 1 + 1 \in Of(s, "createTables") /\ \A l \in DOMAIN db.lists : ~Same(db.lists[l], x)
    BY <1>3, <1>7 DEF Adding
  <2>2. PICK n \in WebsiteNames : Owns(db, s, x.website, n) /\ s[1 + 1].name = Joined(n, x.name)
    BY <1>3, <1>7 DEF Adding
  <2>3. x.website \in DOMAIN db.websites /\ db.websites[x.website] = n
    BY <1>7, <2>2 DEF Owns, Of
  <2> DEFINE v == [website |-> x.website, name |-> x.name]
             new == db.next["lists"]
  <2>4. v \in [website : Id, name : ListNames] /\ v.website = x.website /\ v.name = x.name
    BY <1>2, <1>7, StatementFacts
  <2>5. db' = Insert(db, "lists", v) /\ Proceed(c)
    BY <1>2, <1>7, <2>3, StatementEffect
  <2> HIDE DEF v
  <2>6. /\ db'.websites = db.websites /\ db'.tables = db.tables
        /\ DOMAIN db'.lists = DOMAIN db.lists \cup {new} /\ new \notin DOMAIN db.lists
        /\ db'.lists[new] = v
        /\ \A l \in DOMAIN db.lists : db'.lists[l] = db.lists[l]
    BY <1>4, <2>3, <2>4, <2>5, InsertListFacts
  <2> HIDE DEF new
  <2>7. TableName(db', new) = Joined(n, x.name)
    BY <2>3, <2>4, <2>6 DEF TableName, Joined
  <2>8. \A l \in DOMAIN db.lists : TableName(db', l) = TableName(db, l)
    BY <2>6 DEF TableName
  <2>9. Names(db') = Names(db) \cup {s[2].name}
    BY <2>2, <2>6, <2>7, <2>8 DEF Names
  <2>10. UniqueLists(db')
    BY <1>4, <2>1, <2>4, <2>6 DEF UniqueLists, Same
  <2>11. \A l \in DOMAIN db'.lists :
           \/ l \in DOMAIN db.lists /\ db'.lists[l] = db.lists[l]
           \/ x.op = "insertList" /\ Same(db'.lists[l], x)
    BY <1>7, <2>4, <2>6 DEF Same
  <2>12. Adding(db', Tail(s))
    BY <1>1, <1>5, <1>7, <2>6, <2>9, <2>11, AddingRest
  <2> QED
    BY <2>5, <2>10, <2>12
<1>8. CASE x.op = "createTables"
  <2>1. db' = [db EXCEPT !.tables = @ \cup {x.name}] /\ Proceed(c)
    BY <1>2, <1>8, StatementEffect
  <2>2. db'.websites = db.websites /\ db'.lists = db.lists /\ db'.tables = db.tables \cup {x.name}
    BY <1>4, <2>1 DEF Database
  <2>3. {s[i].name : i \in Of(s, "createTables") \cap {1}} = {x.name}
    BY <1>3, <1>8
  <2>4. db'.tables = Names(db)
    BY <2>2, <2>3 DEF Adding
  <2>5. Names(db') = Names(db) /\ UniqueLists(db')
    BY <1>4, <2>2, SameNames
  <2>6. Adding(db', Tail(s))
    BY <1>1, <1>8, <2>2, <2>4, <2>5, AddingRest
  <2> QED
    BY <2>1, <2>5, <2>6
<1>9. CASE x.op = "insertConfig"
  <2>1. x.website \in Id /\ db' = Insert(db, "configs", x.website) /\ Proceed(c)
    <3>1. x.website \in Id
      BY <1>2, <1>9, StatementFacts
    <3> QED
      BY <1>2, <1>9, <3>1, StatementEffect
  <2>2. db'.websites = db.websites /\ db'.lists = db.lists /\ db'.tables = db.tables
    BY <1>4, <2>1, InsertConfigFacts
  <2>3. Names(db') = Names(db) /\ UniqueLists(db')
    BY <1>4, <2>2, SameNames
  <2>4. Adding(db', Tail(s))
    BY <1>1, <1>5, <1>9, <2>2, <2>3, AddingRest
  <2> QED
    BY <2>1, <2>3, <2>4
<1> QED
  BY <1>3, <1>6, <1>7, <1>8, <1>9 DEF Adding

-----------------------------------------------------------------------------
(* Deleting.                                                                *)

LEMMA DeletingRest ==
  ASSUME NEW d, NEW s \in Seq(Statement), s # <<>>, Deleting(d, s), NEW e,
         s[1].op # "deleteWebsite",
         \A l \in DOMAIN e.lists :
           l \in DOMAIN d.lists /\ e.lists[l] = d.lists[l] /\ TableName(e, l) = TableName(d, l),
         \A l \in DOMAIN d.lists : l \in DOMAIN e.lists \/ (s[1].op = "deleteList" /\ s[1].id = l),
         s[1].op # "deleteList" => e.tables = Names(e),
         s[1].op = "deleteList" => e.tables = Names(e) \cup {s[2].name} /\ s[2].name \notin Names(e)
  PROVE  Deleting(e, Tail(s))
<1> DEFINE t == Tail(s)
<1>1. /\ Len(s) \in Nat /\ Len(s) # 0 /\ DOMAIN s = 1 .. Len(s) /\ Len(t) = Len(s) - 1
      /\ \A i \in DOMAIN t : i \in Nat /\ i + 1 \in DOMAIN s /\ i + 1 # 1 /\ t[i] = s[i + 1]
      /\ \A op : \A i \in DOMAIN t : i \in Of(t, op) <=> i + 1 \in Of(s, op)
      /\ \A op : \A i \in Of(s, op) : i \in Nat /\ (i = 1 \/ i - 1 \in Of(t, op))
      /\ \A op : \A i \in Of(t, op) : i \in DOMAIN t
  BY RestFacts DEF Of
<1>2. 1 \in DOMAIN s
  BY <1>1
<1> HIDE DEF t
<1>3. \A i \in DOMAIN t : t[i].op \in {"deleteWebsite", "deleteList", "dropTables"}
  BY <1>1 DEF Deleting
<1>4. ASSUME NEW i \in Of(t, "dropTables"), i # 1
      PROVE  i - 1 \in Of(t, "deleteList")
  <2>1. i \in Nat /\ i + 1 \in Of(s, "dropTables") /\ i + 1 # 1 /\ (i + 1) - 1 = i
    BY <1>1
  <2>2. (i + 1) - 1 \in Of(s, "deleteList")
    BY <2>1 DEF Deleting
  <2> QED
    BY <1>1, <1>4, <2>2
<1>5. ASSUME NEW i \in Of(t, "deleteList")
      PROVE  /\ t[i].id \in DOMAIN e.lists
             /\ i + 1 \in Of(t, "dropTables") /\ t[i + 1].name = TableName(e, t[i].id)
             /\ \A j \in Of(t, "deleteList") : t[j].id = t[i].id => j = i
  <2>1. /\ i \in Nat /\ i + 1 \in Of(s, "deleteList") /\ t[i] = s[i + 1] /\ i + 1 # 1
        /\ (i + 1) + 1 \in Of(s, "dropTables") /\ t[i].id \in DOMAIN d.lists
        /\ s[(i + 1) + 1].name = TableName(d, t[i].id)
    BY <1>1, <1>5 DEF Deleting
  <2>2. i + 1 \in Of(t, "dropTables") /\ t[i + 1] = s[(i + 1) + 1]
    <3>1. ((i + 1) + 1) - 1 = i + 1 /\ (i + 1) + 1 # 1
      BY <2>1
    <3>2. i + 1 \in Of(t, "dropTables")
      BY <2>1, <3>1, <1>1
    <3> QED
      BY <3>2, <1>1
  <2>3. t[i].id \in DOMAIN e.lists
    <3>1. s[1].op = "deleteList" => 1 \in Of(s, "deleteList")
      BY <1>2 DEF Of
    <3>2. ~(s[1].op = "deleteList" /\ s[1].id = t[i].id)
      BY <2>1, <3>1 DEF Deleting
    <3> QED
      BY <2>1, <3>2
  <2>4. ASSUME NEW j \in Of(t, "deleteList"), t[j].id = t[i].id
        PROVE  j = i
    <3>1. j \in Nat /\ j + 1 \in Of(s, "deleteList") /\ t[j] = s[j + 1]
      BY <1>1
    <3>2. j + 1 = i + 1
      BY <2>1, <2>4, <3>1 DEF Deleting
    <3> QED
      BY <2>1, <3>1, <3>2
  <2> QED
    BY <2>1, <2>2, <2>3, <2>4
<1>6. ASSUME NEW i \in Of(t, "deleteWebsite")
      PROVE  /\ i = Len(t)
             /\ \A l \in DOMAIN e.lists :
                  e.lists[l].website = t[i].id => \E j \in Of(t, "deleteList") : t[j].id = l
  <2>1. /\ i \in Nat /\ i + 1 \in Of(s, "deleteWebsite") /\ t[i] = s[i + 1]
        /\ i + 1 = Len(s)
    BY <1>1, <1>6 DEF Deleting
  <2>2. ASSUME NEW l \in DOMAIN e.lists, e.lists[l].website = t[i].id
        PROVE  \E j \in Of(t, "deleteList") : t[j].id = l
    <3>1. l \in DOMAIN d.lists /\ d.lists[l].website = s[i + 1].id
      BY <2>1, <2>2
    <3>2. PICK j \in Of(s, "deleteList") : s[j].id = l
      BY <2>1, <3>1 DEF Deleting
    <3>3. j # 1
      <4> SUFFICES ASSUME j = 1 PROVE FALSE
        OBVIOUS
      <4>1. s[1].op = "deleteList" /\ s[1].id = l /\ 1 \in Of(s, "deleteList")
        BY <3>2 DEF Of
      <4>2. 1 + 1 \in Of(s, "dropTables") /\ s[2].name = TableName(d, l)
        BY <4>1 DEF Deleting
      <4>3. TableName(d, l) \in Names(e)
        BY <2>2 DEF Names
      <4> QED
        BY <4>1, <4>2, <4>3
    <3>4. j - 1 \in Of(t, "deleteList") /\ t[j - 1] = s[j]
      <4>1. j \in Nat /\ j - 1 \in Of(t, "deleteList") /\ j - 1 \in DOMAIN t
        BY <1>1, <3>3
      <4>2. (j - 1) + 1 = j
        BY <4>1
      <4> QED
        BY <1>1, <4>1, <4>2
    <3> QED
      BY <3>2, <3>4
  <2>3. i = Len(t)
    <3>1. Len(s) \in Nat /\ Len(t) = Len(s) - 1
      BY <1>1
    <3> QED
      BY <2>1, <3>1
  <2> QED
    BY <2>2, <2>3
<1>7. /\ e.tables = Names(e) \cup {t[i].name : i \in Of(t, "dropTables") \cap {1}}
      /\ \A i \in Of(t, "dropTables") \cap {1} : t[i].name \notin Names(e)
  <2>1. CASE s[1].op = "deleteList"
    <3>1. 1 \in Of(s, "deleteList")
      BY <1>2, <2>1 DEF Of
    <3>2. 1 + 1 \in Of(s, "dropTables") /\ 1 + 1 # 1 /\ (1 + 1) - 1 = 1
      BY <3>1 DEF Deleting
    <3>3. 1 \in Of(t, "dropTables") /\ t[1] = s[2]
      BY <1>1, <3>2
    <3>4. {t[i].name : i \in Of(t, "dropTables") \cap {1}} = {s[2].name}
      BY <3>3
    <3> QED
      BY <2>1, <3>3, <3>4
  <2>2. CASE s[1].op # "deleteList"
    <3>1. 1 \notin Of(t, "dropTables")
      <4> SUFFICES ASSUME 1 \in Of(t, "dropTables") PROVE FALSE
        OBVIOUS
      <4>1. 1 + 1 \in Of(s, "dropTables") /\ (1 + 1) - 1 = 1 /\ 1 + 1 # 1
        BY <1>1
      <4>2. 1 \in Of(s, "deleteList")
        BY <4>1 DEF Deleting
      <4> QED
        BY <2>2, <4>2 DEF Of
    <3>2. Of(t, "dropTables") \cap {1} = {}
      BY <3>1
    <3> QED
      BY <2>2, <3>2
  <2> QED
    BY <2>1, <2>2
<1>8. Deleting(e, t)
  BY <1>3, <1>4, <1>5, <1>6, <1>7 DEF Deleting
<1> QED
  BY <1>8 DEF t

LEMMA DeletingStep ==
  ASSUME NamesAreUnambiguous, Sound(db), NEW c \in Connections, todo[c] \in Seq(Statement),
         Deleting(db, todo[c]), Execute(c)
  PROVE  Proceed(c) /\ UniqueLists(db') /\ Deleting(db', Tail(todo[c]))
<1> DEFINE s == todo[c]
           x == s[1]
<1>1. s # <<>>
  BY StatementEffect
<1>2. /\ Len(s) \in Nat /\ Len(s) # 0 /\ DOMAIN s = 1 .. Len(s)
      /\ Next1(c) = x /\ x \in Statement
  BY <1>1, RestFacts DEF Next1
<1>3. 1 \in DOMAIN s /\ \A op : x.op = op => 1 \in Of(s, op)
  BY <1>2 DEF Of
<1>4. /\ db \in Database /\ Fresh(db) /\ Referring(db) /\ UniqueLists(db)
      /\ \A l \in DOMAIN db.lists : db.lists[l].website \in DOMAIN db.websites
  BY SoundFacts
<1>5. x.op # "dropTables" => db.tables = Names(db)
  <2>1. x.op # "dropTables" => Of(s, "dropTables") \cap {1} = {}
    BY DEF Of
  <2> QED
    BY <2>1 DEF Deleting
<1>6. CASE x.op = "deleteWebsite"
  <2>1. db' = Delete(db, "websites", x.id) /\ Proceed(c) /\ "websites" \in RowTables
    BY <1>2, <1>6, StatementEffect DEF RowTables
  <2>2. Len(s) = 1 /\ Of(s, "deleteList") = {}
    <3>1. Len(s) = 1
      BY <1>3, <1>6 DEF Deleting
    <3> QED
      BY <1>2, <1>6, <3>1 DEF Of
  <2>3. \A l \in DOMAIN db.lists : db.lists[l].website # x.id
    BY <1>3, <1>6, <2>2 DEF Deleting
  <2>4. /\ db'.tables = db.tables /\ Sub(db'.websites, db.websites) /\ Sub(db'.lists, db.lists)
        /\ \A w \in DOMAIN db.websites : w \in DOMAIN db'.websites \/ w = x.id
        /\ \A l \in DOMAIN db.lists : l \in DOMAIN db'.lists \/ db.lists[l].website \notin DOMAIN db'.websites
    BY <1>4, <2>1, DeleteFacts
  <2>5. DOMAIN db'.lists = DOMAIN db.lists
        /\ \A l \in DOMAIN db.lists :
             /\ db'.lists[l] = db.lists[l]
             /\ db'.websites[db.lists[l].website] = db.websites[db.lists[l].website]
    BY <1>4, <2>3, <2>4 DEF Sub
  <2>6. Names(db') = Names(db) /\ UniqueLists(db')
    BY <1>4, <2>5, SameNames
  <2>7. DOMAIN Tail(s) = {}
    <3>1. DOMAIN Tail(s) = 1 .. Len(s) - 1
      BY <1>1, RestFacts
    <3> QED
      BY <2>2, <3>1
  <2>8. \A op : Of(Tail(s), op) = {}
    BY <2>7 DEF Of
  <2>9. Deleting(db', Tail(s))
    BY <1>5, <1>6, <2>4, <2>6, <2>7, <2>8 DEF Deleting
  <2> QED
    BY <2>1, <2>6, <2>9
<1>7. CASE x.op = "deleteList"
  <2>1. db' = Delete(db, "lists", x.id) /\ Proceed(c) /\ "lists" \in RowTables
    BY <1>2, <1>7, StatementEffect DEF RowTables
  <2>2. x.id \in DOMAIN db.lists /\ s[1 + 1].name = TableName(db, x.id)
    BY <1>3, <1>7 DEF Deleting
  <2>3. /\ db'.tables = db.tables /\ Sub(db'.websites, db.websites) /\ Sub(db'.lists, db.lists)
        /\ \A w \in DOMAIN db.websites : w \in DOMAIN db'.websites
        /\ \A l \in DOMAIN db.lists :
             l \in DOMAIN db'.lists \/ l = x.id \/ db.lists[l].website \notin DOMAIN db'.websites
        /\ x.id \notin DOMAIN db'.lists
    BY <1>4, <2>1, DeleteFacts
  <2>4. /\ \A l \in DOMAIN db'.lists :
             l \in DOMAIN db.lists /\ l # x.id /\ db'.lists[l] = db.lists[l]
        /\ \A l \in DOMAIN db.lists : l \in DOMAIN db'.lists \/ l = x.id
    BY <1>4, <2>3 DEF Sub
  <2>5. \A l \in DOMAIN db'.lists : TableName(db', l) = TableName(db, l)
    BY <1>4, <2>3, <2>4 DEF TableName, Sub
  <2>6. UniqueLists(db')
    BY <1>4, <2>4 DEF UniqueLists
  <2>7. s[2].name \notin Names(db')
    <3> SUFFICES ASSUME NEW l \in DOMAIN db'.lists, TableName(db', l) = s[2].name PROVE FALSE
      BY DEF Names
    <3>1. l \in DOMAIN db.lists /\ l # x.id /\ TableName(db, l) = TableName(db, x.id)
      BY <2>2, <2>4, <2>5
    <3> QED
      BY <2>2, <3>1, TableNamesDiffer
  <2>8. db'.tables = Names(db') \cup {s[2].name}
    <3>1. Names(db) = Names(db') \cup {TableName(db, x.id)}
      BY <2>2, <2>4, <2>5 DEF Names
    <3> QED
      BY <1>5, <1>7, <2>2, <2>3, <3>1
  <2>9. Deleting(db', Tail(s))
    BY <1>1, <1>7, <2>4, <2>5, <2>7, <2>8, DeletingRest
  <2> QED
    BY <2>1, <2>6, <2>9
<1>8. CASE x.op = "dropTables"
  <2>1. db' = [db EXCEPT !.tables = @ \ {x.name}] /\ Proceed(c)
    BY <1>2, <1>8, StatementEffect
  <2>2. db'.websites = db.websites /\ db'.lists = db.lists /\ db'.tables = db.tables \ {x.name}
    BY <1>4, <2>1 DEF Database
  <2>3. Names(db') = Names(db) /\ UniqueLists(db')
        /\ \A l \in DOMAIN db.lists : TableName(db', l) = TableName(db, l)
    BY <1>4, <2>2, SameNames
  <2>4. Of(s, "dropTables") \cap {1} = {1}
    BY <1>3, <1>8
  <2>5. db.tables = Names(db) \cup {x.name} /\ x.name \notin Names(db)
    BY <2>4 DEF Deleting
  <2>6. db'.tables = Names(db')
    BY <2>2, <2>3, <2>5
  <2>7. Deleting(db', Tail(s))
    BY <1>1, <1>8, <2>2, <2>3, <2>6, DeletingRest
  <2> QED
    BY <2>1, <2>3, <2>7
<1> QED
  BY <1>3, <1>6, <1>7, <1>8 DEF Deleting

-----------------------------------------------------------------------------
(* Renaming.                                                                *)

\* A new namespace makes new names.
LEMMA NewNames ==
  ASSUME NamesAreUnambiguous, NEW d, Sound(d), NEW w \in DOMAIN d.websites, NEW l \in DOMAIN d.lists,
         NEW v \in WebsiteNames, NEW n \in ListNames, TableName(d, l) = Joined(v, n)
  PROVE  d.websites[d.lists[l].website] = v /\ d.lists[l].name = n
<1>1. /\ d.websites[d.lists[l].website] \in WebsiteNames /\ d.lists[l].name \in ListNames
      /\ Joined(d.websites[d.lists[l].website], d.lists[l].name) = Joined(v, n)
  BY SoundFacts
<1> QED
  BY <1>1 DEF NamesAreUnambiguous

\* The tables of one list get their new name, which nobody has.
LEMMA TablesRenamed ==
  ASSUME NamesAreUnambiguous, NEW d, Sound(d),
         NEW k \in DOMAIN d.lists, NEW w, d.lists[k].website = w, NEW n \in WebsiteNames,
         \A v \in DOMAIN d.websites : d.websites[v] # n,
         NEW old, TableName(d, k) \notin old,
         d.tables = TablesOnTheWay(d, old \cup {TableName(d, k)}, w, n)
  PROVE  /\ TableName(d, k) \in d.tables /\ Joined(n, d.lists[k].name) \notin d.tables
         /\ (d.tables \ {TableName(d, k)}) \cup {Joined(n, d.lists[k].name)} =
              TablesOnTheWay(d, old, w, n)
<1> DEFINE from == TableName(d, k)
           to == Joined(n, d.lists[k].name)
           Before(l) == NameOnTheWay(d, old \cup {from}, w, n, l)
           After(l) == NameOnTheWay(d, old, w, n, l)
<1>1. \A l \in DOMAIN d.lists :
        /\ d.lists[l].name \in ListNames /\ d.lists[l].website \in DOMAIN d.websites
        /\ TableName(d, l) = Joined(d.websites[d.lists[l].website], d.lists[l].name)
        /\ d.websites[d.lists[l].website] \in WebsiteNames
  BY SoundFacts
<1>2. \A l \in DOMAIN d.lists : TableName(d, l) = from => l = k
  BY TableNamesDiffer
<1>3. \A l \in DOMAIN d.lists : TableName(d, l) # to
  <2> SUFFICES ASSUME NEW l \in DOMAIN d.lists, TableName(d, l) = to PROVE FALSE
    OBVIOUS
  <2>1. d.websites[d.lists[l].website] = n
    BY <1>1, NewNames
  <2> QED
    BY <1>1, <2>1
<1>4. Before(k) = from /\ After(k) = to
  BY DEF NameOnTheWay
<1>5. ASSUME NEW l \in DOMAIN d.lists, l # k
      PROVE  Before(l) = After(l) /\ Before(l) # from /\ Before(l) # to
  <2>1. TableName(d, l) # from /\ TableName(d, l) # to
    BY <1>2, <1>3, <1>5
  <2>2. TableName(d, l) \in (old \cup {from}) <=> TableName(d, l) \in old
    BY <2>1
  <2>3. CASE d.lists[l].website = w /\ TableName(d, l) \notin (old \cup {from})
    <3>1. Before(l) = Joined(n, d.lists[l].name) /\ After(l) = Joined(n, d.lists[l].name)
      BY <2>2, <2>3 DEF NameOnTheWay
    <3>2. Joined(n, d.lists[l].name) # from
      <4>1. Joined(n, d.lists[l].name) = from => d.websites[w] = n
        BY <1>1 DEF NamesAreUnambiguous
      <4> QED
        BY <1>1, <4>1
    <3>3. Joined(n, d.lists[l].name) # to
      <4>1. Joined(n, d.lists[l].name) = to => d.lists[l].name = d.lists[k].name
        BY <1>1 DEF NamesAreUnambiguous
      <4>2. d.lists[l].name # d.lists[k].name
        BY <1>5, <2>3, SoundFacts DEF UniqueLists, Same
      <4> QED
        BY <4>1, <4>2
    <3> QED
      BY <3>1, <3>2, <3>3
  <2>4. CASE ~(d.lists[l].website = w /\ TableName(d, l) \notin (old \cup {from}))
    <3>1. Before(l) = TableName(d, l) /\ After(l) = TableName(d, l)
      BY <2>2, <2>4 DEF NameOnTheWay
    <3> QED
      BY <2>1, <3>1
  <2> QED
    BY <2>3, <2>4
<1>6. from # to
  BY <1>3
<1>7. /\ d.tables = {Before(l) : l \in DOMAIN d.lists}
      /\ TablesOnTheWay(d, old, w, n) = {After(l) : l \in DOMAIN d.lists}
  BY DEF TablesOnTheWay
<1> HIDE DEF Before, After, from, to
<1>8. from \in d.tables /\ to \notin d.tables
  BY <1>4, <1>5, <1>6, <1>7
<1>9. (d.tables \ {from}) \cup {to} = TablesOnTheWay(d, old, w, n)
  BY <1>4, <1>5, <1>6, <1>7
<1> QED
  BY <1>8, <1>9 DEF Before, After, from, to

LEMMA RenamingWebsiteStep ==
  ASSUME NamesAreUnambiguous, Sound(db), NEW c \in Connections, todo[c] \in Seq(Statement),
         RenamingWebsite(db, todo[c]), Execute(c)
  PROVE  Proceed(c) /\ UniqueLists(db') /\ Balanced(db', Tail(todo[c]))
<1> DEFINE s == todo[c]
           x == s[1]
           t == Tail(s)
           m == Len(s)
<1>1. s # <<>>
  BY StatementEffect
<1>2. /\ m \in Nat /\ m # 0 /\ DOMAIN s = 1 .. m /\ Next1(c) = x
      /\ t \in Seq(Statement) /\ Len(t) = m - 1 /\ DOMAIN t = 1 .. m - 1
      /\ \A i \in DOMAIN t : t[i] = s[i + 1]
  BY <1>1, RestFacts DEF Next1
<1>3. PICK w \in DOMAIN db.websites, n \in WebsiteNames :
        /\ \A v \in DOMAIN db.websites : db.websites[v] # n
        /\ s[m] = RenameWebsite(w, n)
        /\ \A i \in 1 .. m - 1 :
             /\ s[i].op = "renameTables"
             /\ \E l \in DOMAIN db.lists :
                  /\ db.lists[l].website = w
                  /\ s[i].from = TableName(db, l) /\ s[i].to = Joined(n, db.lists[l].name)
        /\ \A i, j \in 1 .. m - 1 : s[i].from = s[j].from => i = j
        /\ db.tables = TablesOnTheWay(db, Old(s), w, n)
  BY DEF RenamingWebsite
<1>4. /\ db \in Database /\ UniqueLists(db) /\ DOMAIN db.websites \subseteq Id
      /\ \A l \in DOMAIN db.lists : /\ db.lists[l].website \in DOMAIN db.websites
                                    /\ db.lists[l].name \in ListNames
  BY SoundFacts
<1>5. s[m].op = "renameWebsite" /\ s[m].id = w /\ s[m].name = n
  BY <1>3 DEF RenameWebsite
<1>6. Of(s, "renameTables") = 1 .. m - 1
  <2>1. \A i \in 1 .. m : i = m \/ i \in 1 .. m - 1
    BY <1>2
  <2> QED
    BY <1>2, <1>3, <1>5, <2>1 DEF Of
<1> HIDE DEF m
<1>7. CASE m = 1
  <2>1. x = s[m] /\ x.op = "renameWebsite"
    BY <1>5, <1>7
  <2>2. db' = [db EXCEPT !.websites[w] = n] /\ Proceed(c)
    <3>1. x.id = w /\ x.name = n
      BY <1>5, <2>1
    <3>2. db' = [db EXCEPT !.websites[x.id] = x.name] /\ Proceed(c)
      BY <1>2, <2>1, StatementEffect
    <3> QED
      BY <3>1, <3>2
  <2>3. /\ db'.lists = db.lists /\ db'.tables = db.tables
        /\ db'.websites = [db.websites EXCEPT ![w] = n]
    BY <1>4, <2>2 DEF Database
  <2>4. \A v \in DOMAIN db.websites : db'.websites[v] = IF v = w THEN n ELSE db.websites[v]
    BY <2>3
  <2>5. Old(s) = {}
    BY <1>6, <1>7 DEF Old
  <2>6. \A l \in DOMAIN db.lists : TableName(db', l) = NameOnTheWay(db, Old(s), w, n, l)
    BY <1>4, <2>3, <2>4, <2>5 DEF TableName, NameOnTheWay, Joined
  <2>7. db'.tables = Names(db')
    BY <1>3, <2>3, <2>6 DEF Names, TablesOnTheWay
  <2>8. UniqueLists(db')
    BY <1>4, <2>3 DEF UniqueLists
  <2>9. t = <<>>
    <3>1. Len(t) = 0
      BY <1>2, <1>7
    <3> QED
      BY <1>2, <3>1, EmptySeq
  <2>10. Balanced(db', t)
    BY <2>7, <2>9, BalancedEmpty
  <2> QED
    BY <2>2, <2>8, <2>10
<1>8. CASE m # 1
  <2>1. 1 \in 1 .. m - 1 /\ x.op = "renameTables"
    BY <1>2, <1>3, <1>8
  <2>2. PICK k \in DOMAIN db.lists :
          /\ db.lists[k].website = w
          /\ x.from = TableName(db, k) /\ x.to = Joined(n, db.lists[k].name)
    BY <1>3, <2>1
  <2>3. \A i \in 1 .. m - 2 : i \in DOMAIN t /\ i + 1 \in 1 .. m - 1 /\ i + 1 # 1 /\ t[i] = s[i + 1]
    BY <1>2
  <2>4. Of(t, "renameTables") = 1 .. m - 2 /\ t[m - 1] = s[m] /\ t # <<>> /\ m - 1 \in DOMAIN t
    <3>1. m - 1 \in DOMAIN t /\ (m - 1) + 1 = m
      BY <1>2, <1>8
    <3>2. t[m - 1] = s[m]
      BY <1>2, <3>1
    <3>3. \A i \in 1 .. m - 1 : i = m - 1 \/ i \in 1 .. m - 2
      BY <1>2
    <3>4. \A i \in 1 .. m - 2 : t[i].op = "renameTables"
      BY <1>3, <2>3
    <3>5. Of(t, "renameTables") = 1 .. m - 2
      BY <1>2, <1>5, <2>3, <3>2, <3>3, <3>4 DEF Of
    <3>6. t # <<>>
      <4> HIDE DEF t
      <4>1. DOMAIN <<>> = {}
        OBVIOUS
      <4> QED
        BY <3>1, <4>1
    <3> QED
      BY <3>1, <3>2, <3>5, <3>6
  <2>5. Old(s) = Old(t) \cup {x.from} /\ x.from \notin Old(t)
    <3>1. ASSUME NEW i \in 1 .. m - 1, i # 1
          PROVE  i - 1 \in 1 .. m - 2 /\ t[i - 1] = s[i]
      <4>1. i - 1 \in 1 .. m - 2 /\ (i - 1) + 1 = i
        BY <1>2, <3>1
      <4> QED
        BY <2>3, <4>1
    <3>2. \A i \in 1 .. m - 2 : t[i].from # x.from
      BY <1>3, <2>1, <2>3
    <3>3. Old(s) = {s[i].from : i \in 1 .. m - 1} /\ Old(t) = {t[i].from : i \in 1 .. m - 2}
      BY <1>6, <2>4 DEF Old
    <3> HIDE DEF s, t
    <3>4. x.from \notin Old(t)
      BY <3>2, <3>3
    <3>5. Old(s) \subseteq Old(t) \cup {x.from}
      BY <3>1, <3>3
    <3>6. Old(t) \cup {x.from} \subseteq Old(s)
      BY <2>1, <2>3, <3>3
    <3> QED
      BY <3>4, <3>5, <3>6
  <2> HIDE DEF t
  <2>6. /\ x.from \in db.tables /\ x.to \notin db.tables
        /\ (db.tables \ {x.from}) \cup {x.to} = TablesOnTheWay(db, Old(t), w, n)
    <3>1. PICK old : old = Old(t)
      OBVIOUS
    <3>2. /\ TableName(db, k) \notin old
          /\ db.tables = TablesOnTheWay(db, old \cup {TableName(db, k)}, w, n)
      BY <1>3, <2>2, <2>5, <3>1
    <3>3. /\ \A v \in DOMAIN db.websites : db.websites[v] # n
          /\ db.lists[k].website = w
      BY <1>3, <2>2
    <3>4. /\ TableName(db, k) \in db.tables /\ Joined(n, db.lists[k].name) \notin db.tables
          /\ (db.tables \ {TableName(db, k)}) \cup {Joined(n, db.lists[k].name)} =
               TablesOnTheWay(db, old, w, n)
      BY ONLY <3>2, <3>3, TablesRenamed, NamesAreUnambiguous, Sound(db), n \in WebsiteNames, k \in DOMAIN db.lists
    <3> QED
      BY <2>2, <3>1, <3>4
  <2>7. db' = [db EXCEPT !.tables = (@ \ {x.from}) \cup {x.to}] /\ Proceed(c)
    BY <1>2, <2>1, <2>6, StatementEffect
  <2>8. db'.websites = db.websites /\ db'.lists = db.lists /\ db'.tables = (db.tables \ {x.from}) \cup {x.to}
    BY <1>4, <2>7 DEF Database
  <2>9. UniqueLists(db') /\ \A l \in DOMAIN db.lists : TableName(db', l) = TableName(db, l)
    BY <1>4, <2>8, SameNames
  <2>10. db'.tables = TablesOnTheWay(db', Old(t), w, n)
    BY <2>6, <2>8, <2>9 DEF NameOnTheWay, TablesOnTheWay
  <2>11. \A i \in 1 .. m - 2 :
           /\ t[i].op = "renameTables"
           /\ \E l \in DOMAIN db'.lists :
                /\ db'.lists[l].website = w
                /\ t[i].from = TableName(db', l) /\ t[i].to = Joined(n, db'.lists[l].name)
    BY <1>3, <2>3, <2>8, <2>9
  <2>12. ASSUME NEW i \in 1 .. m - 2, NEW j \in 1 .. m - 2, t[i].from = t[j].from
         PROVE  i = j
    <3>1. i + 1 = j + 1
      BY <1>3, <2>3, <2>12
    <3> QED
      BY <3>1
  <2>13. (Len(t) = m - 1) /\ (m - 1) - 1 = m - 2
    BY <1>2 DEF t
  <2>14. RenamingWebsite(db', t)
    <3>1. t[Len(t)] = RenameWebsite(w, n) /\ Len(t) - 1 = m - 2
      BY <1>3, <2>4, <2>13
    <3>2. /\ \A v \in DOMAIN db'.websites : db'.websites[v] # n
          /\ w \in DOMAIN db'.websites /\ t # <<>>
      BY <1>3, <2>4, <2>8
    <3>3. \A i, j \in 1 .. Len(t) - 1 : t[i].from = t[j].from => i = j
      BY <2>12, <3>1
    <3>4. \A i \in 1 .. Len(t) - 1 :
            /\ t[i].op = "renameTables"
            /\ \E l \in DOMAIN db'.lists :
                 /\ db'.lists[l].website = w
                 /\ t[i].from = TableName(db', l) /\ t[i].to = Joined(n, db'.lists[l].name)
      BY <2>11, <3>1
    <3> QED
      BY ONLY <2>10, <3>1, <3>2, <3>3, <3>4, n \in WebsiteNames DEF RenamingWebsite
  <2> QED
    BY <2>7, <2>9, <2>14 DEF Balanced, t
<1> QED
  BY <1>7, <1>8

LEMMA RenamingListStep ==
  ASSUME NamesAreUnambiguous, Sound(db), NEW c \in Connections, todo[c] \in Seq(Statement),
         RenamingList(db, todo[c]), Execute(c)
  PROVE  Proceed(c) /\ UniqueLists(db') /\ Balanced(db', Tail(todo[c]))
<1> DEFINE s == todo[c]
           x == s[1]
<1>1. PICK k \in DOMAIN db.lists, n \in ListNames :
        LET new == Joined(db.websites[db.lists[k].website], n)
        IN /\ \A l \in DOMAIN db.lists :
                db.lists[l].website = db.lists[k].website => db.lists[l].name # n
           /\ \/ s = <<RenameTables(TableName(db, k), new), RenameList(k, n)>> /\ db.tables = Names(db)
              \/ /\ s = <<RenameList(k, n)>>
                 /\ db.tables = {TableName(db, l) : l \in DOMAIN db.lists \ {k}} \cup {new}
  BY DEF RenamingList
<1> DEFINE new == Joined(db.websites[db.lists[k].website], n)
           old == TableName(db, k)
<1>2. /\ db \in Database /\ UniqueLists(db)
      /\ \A l \in DOMAIN db.lists :
           /\ db.lists[l].website \in DOMAIN db.websites
           /\ db.websites[db.lists[l].website] \in WebsiteNames
  BY SoundFacts
<1>3. Next1(c) = x
  BY <1>1 DEF Next1
<1>4. CASE s = <<RenameTables(old, new), RenameList(k, n)>> /\ db.tables = Names(db)
  <2>1. x.op = "renameTables" /\ x.from = old /\ x.to = new /\ Tail(s) = <<RenameList(k, n)>>
    BY <1>4 DEF RenameTables
  <2>2. old \in Names(db)
    BY DEF Names
  <2>3. new \notin Names(db)
    <3> SUFFICES ASSUME NEW l \in DOMAIN db.lists, TableName(db, l) = new PROVE FALSE
      BY DEF Names
    <3>1. db.websites[db.lists[l].website] = db.websites[db.lists[k].website] /\ db.lists[l].name = n
      BY <1>2, NewNames
    <3>2. db.lists[l].website = db.lists[k].website
      BY <1>2, <3>1, SoundFacts
    <3> QED
      BY <1>1, <3>1, <3>2
  <2> HIDE DEF new, old
  <2>4. db' = [db EXCEPT !.tables = (@ \ {old}) \cup {new}] /\ Proceed(c)
    <3>1. x.from \in db.tables /\ x.to \notin db.tables
      BY <1>4, <2>1, <2>2, <2>3
    <3>2. db' = [db EXCEPT !.tables = (@ \ {x.from}) \cup {x.to}] /\ Proceed(c)
      BY <1>3, <2>1, <3>1, StatementEffect
    <3> QED
      BY <2>1, <3>2
  <2>5. db'.websites = db.websites /\ db'.lists = db.lists /\ db'.tables = (db.tables \ {old}) \cup {new}
    BY <1>2, <2>4 DEF Database
  <2>6. UniqueLists(db') /\ \A l \in DOMAIN db.lists : TableName(db', l) = TableName(db, l)
    BY <1>2, <2>5, SameNames
  <2>7. \A l \in DOMAIN db.lists : TableName(db, l) = old => l = k
    BY TableNamesDiffer DEF old
  <2>8. Names(db) \ {old} = {TableName(db, l) : l \in DOMAIN db.lists \ {k}}
    BY <2>7 DEF Names, old
  <2>9. db'.tables = {TableName(db', l) : l \in DOMAIN db'.lists \ {k}} \cup {new}
    BY <1>4, <2>5, <2>6, <2>8
  <2>10. RenamingList(db', Tail(s))
    BY <1>1, <2>1, <2>5, <2>9 DEF RenamingList, new
  <2> QED
    BY <2>4, <2>6, <2>10 DEF Balanced
<1>5. CASE /\ s = <<RenameList(k, n)>>
           /\ db.tables = {TableName(db, l) : l \in DOMAIN db.lists \ {k}} \cup {new}
  <2>1. x.op = "renameList" /\ x.id = k /\ x.name = n /\ Tail(s) = <<>>
    BY <1>5 DEF RenameList
  <2>2. db' = [db EXCEPT !.lists[k].name = n] /\ Proceed(c)
    BY <1>3, <2>1, StatementEffect
  <2>3. /\ db'.websites = db.websites /\ db'.tables = db.tables
        /\ db'.lists = [db.lists EXCEPT ![k] = [@ EXCEPT !.name = n]]
    BY <1>2, <2>2 DEF Database
  <2>4. /\ DOMAIN db'.lists = DOMAIN db.lists
        /\ \A l \in DOMAIN db.lists \ {k} : db'.lists[l] = db.lists[l]
        /\ db'.lists[k].website = db.lists[k].website /\ db'.lists[k].name = n
    <3>1. db.lists[k] \in [website : Id, name : ListNames]
      BY <1>2, DatabaseFacts, TableFacts
    <3> QED
      BY <2>3, <3>1
  <2>5. \A l \in DOMAIN db.lists : TableName(db', l) = IF l = k THEN new ELSE TableName(db, l)
    BY <2>3, <2>4 DEF TableName, Joined
  <2>6. db'.tables = Names(db')
    BY <1>5, <2>3, <2>4, <2>5 DEF Names
  <2>7. UniqueLists(db')
    BY <1>1, <1>2, <2>4 DEF UniqueLists, Same
  <2>8. Balanced(db', Tail(s))
    BY <2>1, <2>6, BalancedEmpty
  <2> QED
    BY <2>2, <2>7, <2>8
<1> QED
  BY <1>1, <1>4, <1>5

-----------------------------------------------------------------------------
(* What the commands plan.                                                  *)

LEMMA BalancedStep ==
  ASSUME NamesAreUnambiguous, Sound(db), NEW c \in Connections, todo[c] \in Seq(Statement),
         Balanced(db, todo[c]), Execute(c)
  PROVE  Proceed(c) /\ UniqueLists(db') /\ Balanced(db', Tail(todo[c]))
BY AddingStep, DeletingStep, RenamingWebsiteStep, RenamingListStep DEF Balanced

\* u has the members of s and t in turn.
TakesTurns(u, s, t, n) ==
  /\ Len(u) = 2 * n
  /\ \A j \in 1 .. n : u[2 * j - 1] = s[j] /\ u[2 * j] = t[j]
  /\ \A i \in 1 .. 2 * n : \E j \in 1 .. n : i = 2 * j - 1 \/ i = 2 * j

LEMMA InTurnShape ==
  ASSUME NEW S, NEW s \in Seq(S), NEW t \in Seq(S), Len(s) = Len(t)
  PROVE  InTurn(s, t) \in Seq(S) /\ TakesTurns(InTurn(s, t), s, t, Len(s))
<1> DEFINE n == Len(s)
           u == InTurn(s, t)
<1>1. n \in Nat
  BY LenProperties
<1>2. u = [k \in 1 .. 2 * n |-> IF k % 2 = 1 THEN s[(k + 1) \div 2] ELSE t[k \div 2]]
  BY DEF InTurn
<1>3. u \in Seq(S)
  BY InTurnFacts
<1> HIDE DEF n, u
<1>4. Len(u) = 2 * n
  <2>1. DOMAIN u = 1 .. 2 * n /\ DOMAIN u = 1 .. Len(u) /\ Len(u) \in Nat
    BY <1>2, <1>3, LenProperties
  <2> QED
    BY <1>1, <2>1
<1>5. ASSUME NEW j \in 1 .. n
      PROVE  u[2 * j - 1] = s[j] /\ u[2 * j] = t[j]
  <2>1. /\ 2 * j - 1 \in 1 .. 2 * n /\ (2 * j - 1) % 2 = 1 /\ ((2 * j - 1) + 1) \div 2 = j
        /\ 2 * j \in 1 .. 2 * n /\ (2 * j) % 2 # 1 /\ (2 * j) \div 2 = j
    BY <1>1
  <2> QED
    BY <1>2, <2>1
<1>6. ASSUME NEW i \in 1 .. 2 * n
      PROVE  \E j \in 1 .. n : i = 2 * j - 1 \/ i = 2 * j
  <2>1. (i + 1) \div 2 \in 1 .. n /\ (i = 2 * ((i + 1) \div 2) - 1 \/ i = 2 * ((i + 1) \div 2))
    BY <1>1
  <2> QED
    BY <2>1
<1>7. TakesTurns(u, s, t, n)
  BY <1>4, <1>5, <1>6 DEF TakesTurns
<1> QED
  BY <1>3, <1>7 DEF n, u

\* One more statement at the end.
LEMMA LastShape ==
  ASSUME NEW S, NEW t \in Seq(S), NEW x, NEW n, n = Len(t), NEW s, s = t \o <<x>>
  PROVE  /\ n \in Nat /\ s \in Seq(S \cup {x}) /\ Len(s) = n + 1 /\ DOMAIN s = 1 .. n + 1
         /\ \A i \in 1 .. n : i \in 1 .. n + 1 /\ s[i] = t[i]
         /\ n + 1 \in 1 .. n + 1 /\ s[n + 1] = x
         /\ \A i \in 1 .. n + 1 : i \in 1 .. n \/ i = n + 1
<1> DEFINE T == S \cup {x}
           last == <<x>>
<1>1. t \in Seq(T)
  <2>1. S \subseteq T
    OBVIOUS
  <2> QED
    BY <2>1, SeqMonotonic
<1>2. last \in Seq(T) /\ Len(last) = 1 /\ last[1] = x
  OBVIOUS
<1>3. n \in Nat
  BY LenProperties
<1> HIDE DEF T, last
<1>4. /\ t \o last \in Seq(T) /\ Len(t \o last) = Len(t) + Len(last)
      /\ \A i \in 1 .. Len(t) + Len(last) :
           (t \o last)[i] = IF i <= Len(t) THEN t[i] ELSE last[i - Len(t)]
  BY ONLY <1>1, <1>2, ConcatProperties
<1>5. s = t \o last
  BY DEF last
<1>6. /\ s \in Seq(T) /\ Len(s) = n + 1
      /\ \A i \in 1 .. n + 1 : s[i] = IF i <= n THEN t[i] ELSE last[i - n]
  BY ONLY <1>2, <1>4, <1>5, n = Len(t)
<1>7. DOMAIN s = 1 .. n + 1
  BY <1>6, LenProperties
<1>8. n + 1 \in 1 .. n + 1 /\ ~(n + 1 <= n) /\ (n + 1) - n = 1
  BY <1>3
<1>9. \A i \in 1 .. n : i \in 1 .. n + 1 /\ i <= n
  BY <1>3
<1>10. \A i \in 1 .. n + 1 : i \in 1 .. n \/ i = n + 1
  BY <1>3
<1> QED
  BY <1>2, <1>3, <1>6, <1>7, <1>8, <1>9, <1>10 DEF T

\* deleteWebsite(): every URL list with its tables, the website at last.
LEMMA DeleteWebsiteBalances ==
  ASSUME Sound(db), db.tables = Names(db), NEW w \in DOMAIN db.websites,
         NEW lists \in Ascending(ListsOf(w))
  PROVE  Deleting(db, DeleteWebsite(w, lists))
<1> DEFINE n == Len(lists)
           rows == [i \in DOMAIN lists |-> DeleteListRow(lists[i])]
           tables == [i \in DOMAIN lists |-> DropTables(TableName(db, lists[i]))]
           u == InTurn(rows, tables)
           s == DeleteWebsite(w, lists)
           S == Statement
<1>1. db \in Database /\ Fresh(db) /\ UniqueLists(db) /\ ListsOf(w) \in SUBSET DOMAIN db.lists
  BY SoundFacts DEF ListsOf
<1>2. /\ n \in Nat /\ DOMAIN lists = 1 .. n
      /\ \A i \in 1 .. n : lists[i] \in DOMAIN db.lists
      /\ \A l \in ListsOf(w) : \E i \in 1 .. n : lists[i] = l
      /\ \A i, j \in 1 .. n : lists[i] = lists[j] => i = j
  <2>1. IsFiniteSet(ListsOf(w))
    BY <1>1, DomainFinite DEF RowTables
  <2>2. /\ lists \in Seq(ListsOf(w)) /\ DOMAIN lists = 1 .. Len(lists)
        /\ \A i \in DOMAIN lists : lists[i] \in ListsOf(w)
        /\ \A x \in ListsOf(w) : \E i \in DOMAIN lists : lists[i] = x
        /\ \A i, j \in DOMAIN lists : lists[i] = lists[j] => i = j
    BY <2>1, AscendingFacts
  <2>3. Len(lists) \in Nat
    BY <2>2, LenProperties
  <2> QED
    BY <1>1, <2>2, <2>3
<1>3. /\ rows \in Seq({rows[i] : i \in 1 .. n} \cup {tables[i] : i \in 1 .. n}) /\ Len(rows) = n
      /\ tables \in Seq({rows[i] : i \in 1 .. n} \cup {tables[i] : i \in 1 .. n}) /\ Len(tables) = n
  <2> DEFINE R == {rows[i] : i \in 1 .. n} \cup {tables[i] : i \in 1 .. n}
  <2>1. rows \in [1 .. n -> R] /\ tables \in [1 .. n -> R]
    BY <1>2
  <2> HIDE DEF R, rows, tables
  <2>2. rows \in Seq(R) /\ Len(rows) = n /\ tables \in Seq(R) /\ Len(tables) = n
    BY <1>2, <2>1, FunctionIsSeq
  <2> QED
    BY <2>2 DEF R
<1>4. \A i \in 1 .. n : rows[i] = DeleteListRow(lists[i]) /\ tables[i] = DropTables(TableName(db, lists[i]))
  BY <1>2
<1>5. s = u \o <<DeleteWebsiteRow(w)>>
  BY DEF DeleteWebsite
<1> DEFINE R == {rows[i] : i \in 1 .. n} \cup {tables[i] : i \in 1 .. n}
<1> HIDE DEF rows, tables, s, n, u
<1>6. /\ u \in Seq(R) /\ Len(u) = 2 * n
      /\ \A j \in 1 .. n : u[2 * j - 1] = rows[j] /\ u[2 * j] = tables[j]
      /\ \A i \in 1 .. 2 * n : \E j \in 1 .. n : i = 2 * j - 1 \/ i = 2 * j
  <2> HIDE DEF R
  <2>1. rows \in Seq(R) /\ tables \in Seq(R) /\ Len(rows) = n /\ Len(tables) = n
    BY <1>3 DEF R
  <2>2. u = InTurn(rows, tables)
    BY DEF u
  <2>3. u \in Seq(R) /\ TakesTurns(u, rows, tables, n)
    BY ONLY <2>1, <2>2, InTurnShape
  <2> QED
    BY <2>3 DEF TakesTurns
<1>7. /\ DOMAIN s = 1 .. 2 * n + 1 /\ Len(s) = 2 * n + 1
      /\ \A i \in 1 .. 2 * n : s[i] = u[i]
      /\ s[2 * n + 1] = DeleteWebsiteRow(w)
  BY ONLY <1>5, <1>6, LastShape
<1>8. \A j \in 1 .. n :
        /\ 2 * j - 1 \in 1 .. 2 * n /\ 2 * j \in 1 .. 2 * n
        /\ s[2 * j - 1] = DeleteListRow(lists[j]) /\ s[2 * j] = DropTables(TableName(db, lists[j]))
  <2> SUFFICES ASSUME NEW j \in 1 .. n
               PROVE  /\ 2 * j - 1 \in 1 .. 2 * n /\ 2 * j \in 1 .. 2 * n
                      /\ s[2 * j - 1] = DeleteListRow(lists[j])
                      /\ s[2 * j] = DropTables(TableName(db, lists[j]))
    OBVIOUS
  <2>1. 2 * j - 1 \in 1 .. 2 * n /\ 2 * j \in 1 .. 2 * n
    BY <1>2
  <2> QED
    BY <1>4, <1>6, <1>7, <2>1
<1>9. \A i \in DOMAIN s : i = 2 * n + 1 \/ \E j \in 1 .. n : i = 2 * j - 1 \/ i = 2 * j
  <2>1. \A i \in 1 .. 2 * n + 1 : i = 2 * n + 1 \/ i \in 1 .. 2 * n
    BY <1>2
  <2> QED
    BY <1>6, <1>7, <2>1
<1> HIDE DEF R
<1>10. \A i \in DOMAIN s :
         \/ i = 2 * n + 1 /\ s[i].op = "deleteWebsite" /\ s[i].id = w
         \/ \E j \in 1 .. n : i = 2 * j - 1 /\ s[i].op = "deleteList" /\ s[i].id = lists[j]
         \/ \E j \in 1 .. n : /\ i = 2 * j /\ s[i].op = "dropTables"
                              /\ s[i].name = TableName(db, lists[j])
  <2> SUFFICES ASSUME NEW i \in DOMAIN s
               PROVE  \/ i = 2 * n + 1 /\ s[i].op = "deleteWebsite" /\ s[i].id = w
                      \/ \E j \in 1 .. n : i = 2 * j - 1 /\ s[i].op = "deleteList" /\ s[i].id = lists[j]
                      \/ \E j \in 1 .. n : /\ i = 2 * j /\ s[i].op = "dropTables"
                                           /\ s[i].name = TableName(db, lists[j])
    OBVIOUS
  <2>1. CASE i = 2 * n + 1
    <3>1. s[i] = DeleteWebsiteRow(w)
      BY <1>7, <2>1
    <3> QED
      BY <2>1, <3>1 DEF DeleteWebsiteRow
  <2>2. ASSUME NEW j \in 1 .. n, i = 2 * j - 1
        PROVE  s[i].op = "deleteList" /\ s[i].id = lists[j]
    <3>1. s[i] = DeleteListRow(lists[j])
      BY <1>8, <2>2
    <3> QED
      BY <3>1 DEF DeleteListRow
  <2>3. ASSUME NEW j \in 1 .. n, i = 2 * j
        PROVE  s[i].op = "dropTables" /\ s[i].name = TableName(db, lists[j])
    <3>1. s[i] = DropTables(TableName(db, lists[j]))
      BY <1>8, <2>3
    <3> QED
      BY <3>1 DEF DropTables
  <2>4. i = 2 * n + 1 \/ \E j \in 1 .. n : i = 2 * j - 1 \/ i = 2 * j
    BY <1>9
  <2> QED
    BY <2>1, <2>2, <2>3, <2>4
<1>11. \A i \in DOMAIN s : s[i].op \in {"deleteWebsite", "deleteList", "dropTables"}
  BY <1>10
<1>12. \A i \in Of(s, "dropTables") : i # 1 /\ i - 1 \in Of(s, "deleteList")
  <2> SUFFICES ASSUME NEW i \in Of(s, "dropTables") PROVE i # 1 /\ i - 1 \in Of(s, "deleteList")
    OBVIOUS
  <2>1. PICK j \in 1 .. n : i = 2 * j
    BY <1>10 DEF Of
  <2>2. i # 1 /\ i - 1 = 2 * j - 1 /\ 2 * j - 1 \in DOMAIN s
    BY <1>2, <1>7, <1>8, <2>1
  <2>3. s[2 * j - 1] = DeleteListRow(lists[j])
    BY <1>8
  <2>4. 2 * j - 1 \in Of(s, "deleteList")
    BY <2>2, <2>3 DEF Of, DeleteListRow
  <2> QED
    BY <2>2, <2>4
<1>13. ASSUME NEW i \in Of(s, "deleteList")
       PROVE  /\ s[i].id \in DOMAIN db.lists
              /\ i + 1 \in Of(s, "dropTables") /\ s[i + 1].name = TableName(db, s[i].id)
              /\ \A j \in Of(s, "deleteList") : s[j].id = s[i].id => j = i
  <2>1. PICK j \in 1 .. n : i = 2 * j - 1 /\ s[i].id = lists[j]
    BY <1>10 DEF Of
  <2>2. i + 1 = 2 * j /\ 2 * j \in DOMAIN s
    BY <1>2, <1>7, <1>8, <2>1
  <2>3. i + 1 \in Of(s, "dropTables") /\ s[i + 1].name = TableName(db, s[i].id)
    <3>1. s[2 * j] = DropTables(TableName(db, lists[j]))
      BY <1>8
    <3>2. 2 * j \in Of(s, "dropTables") /\ s[2 * j].name = TableName(db, lists[j])
      BY <2>2, <3>1 DEF Of, DropTables
    <3> QED
      BY <2>1, <2>2, <3>2
  <2>4. ASSUME NEW h \in Of(s, "deleteList"), s[h].id = s[i].id
        PROVE  h = i
    <3>1. PICK g \in 1 .. n : h = 2 * g - 1 /\ s[h].id = lists[g]
      BY <1>10 DEF Of
    <3>2. g = j
      BY <1>2, <2>1, <2>4, <3>1
    <3> QED
      BY <2>1, <3>1, <3>2
  <2> QED
    BY <1>2, <2>1, <2>3, <2>4
<1>14. ASSUME NEW i \in Of(s, "deleteWebsite")
       PROVE  /\ i = Len(s)
              /\ \A l \in DOMAIN db.lists :
                   db.lists[l].website = s[i].id => \E j \in Of(s, "deleteList") : s[j].id = l
  <2>1. i = 2 * n + 1 /\ s[i].id = w
    BY <1>10 DEF Of
  <2>2. ASSUME NEW l \in DOMAIN db.lists, db.lists[l].website = w
        PROVE  \E j \in Of(s, "deleteList") : s[j].id = l
    <3>1. PICK j \in 1 .. n : lists[j] = l
      BY <1>2, <2>2 DEF ListsOf
    <3>2. 2 * j - 1 \in DOMAIN s /\ s[2 * j - 1] = DeleteListRow(l)
      BY <1>2, <1>7, <1>8, <3>1
    <3>3. 2 * j - 1 \in Of(s, "deleteList") /\ s[2 * j - 1].id = l
      BY <3>2 DEF Of, DeleteListRow
    <3> QED
      BY <3>3
  <2> QED
    BY <1>7, <2>1, <2>2
<1>15. Of(s, "dropTables") \cap {1} = {}
  BY <1>12
<1>16. Deleting(db, s)
  BY <1>11, <1>12, <1>13, <1>14, <1>15 DEF Deleting
<1> QED
  BY <1>16 DEF s

\* updateWebsite(): the tables of its lists in turn, the website at last.
LEMMA RenameAllBalances ==
  ASSUME NamesAreUnambiguous, Sound(db), db.tables = Names(db), NEW w \in DOMAIN db.websites,
         NEW name \in WebsiteNames, ~IsWebsiteNamespace(name),
         NEW lists \in Ascending(ListsOf(w))
  PROVE  RenamingWebsite(db, RenameAll(w, lists, name))
<1> DEFINE n == Len(lists)
           from(i) == TableName(db, lists[i])
           to(i) == Joined(name, db.lists[lists[i]].name)
           tables == [i \in DOMAIN lists |-> RenameTables(from(i), to(i))]
           s == RenameAll(w, lists, name)
<1>1. db \in Database /\ Fresh(db) /\ ListsOf(w) \in SUBSET DOMAIN db.lists
  BY SoundFacts DEF ListsOf
<1>2. /\ n \in Nat /\ DOMAIN lists = 1 .. n
      /\ \A i \in 1 .. n : lists[i] \in DOMAIN db.lists /\ db.lists[lists[i]].website = w
      /\ \A l \in ListsOf(w) : \E i \in 1 .. n : lists[i] = l
      /\ \A i, j \in 1 .. n : lists[i] = lists[j] => i = j
  <2>1. IsFiniteSet(ListsOf(w))
    BY <1>1, DomainFinite DEF RowTables
  <2>2. /\ lists \in Seq(ListsOf(w)) /\ DOMAIN lists = 1 .. Len(lists)
        /\ \A i \in DOMAIN lists : lists[i] \in ListsOf(w)
        /\ \A x \in ListsOf(w) : \E i \in DOMAIN lists : lists[i] = x
        /\ \A i, j \in DOMAIN lists : lists[i] = lists[j] => i = j
    BY <2>1, AscendingFacts
  <2>3. Len(lists) \in Nat
    BY <2>2, LenProperties
  <2> QED
    BY <1>1, <2>2, <2>3 DEF ListsOf
<1>3. s = tables \o <<RenameWebsite(w, name)>>
  BY DEF RenameAll, Joined
<1>4. DOMAIN tables = 1 .. n /\ \A i \in 1 .. n : tables[i] = RenameTables(from(i), to(i))
  BY <1>2
<1> HIDE DEF n, from, to, tables, s
<1> DEFINE R == {tables[i] : i \in 1 .. n}
<1>5. tables \in Seq(R) /\ Len(tables) = n
  <2>1. tables \in [1 .. n -> R]
    BY <1>4 DEF tables
  <2> HIDE DEF R
  <2> QED
    BY <1>2, <2>1, FunctionIsSeq
<1> HIDE DEF R
<1>6. /\ s \in Seq(R \cup {RenameWebsite(w, name)}) /\ Len(s) = n + 1 /\ DOMAIN s = 1 .. n + 1
      /\ \A i \in 1 .. n : i \in 1 .. n + 1 /\ s[i] = tables[i]
      /\ n + 1 \in 1 .. n + 1 /\ s[n + 1] = RenameWebsite(w, name)
      /\ \A i \in 1 .. n + 1 : i \in 1 .. n \/ i = n + 1
  BY ONLY <1>3, <1>5, LastShape
<1>7. s # <<>> /\ Len(s) - 1 = n
  <2>1. n + 1 # 0 /\ (n + 1) - 1 = n
    BY <1>2
  <2>2. Len(<<>>) = 0
    OBVIOUS
  <2> QED
    BY <1>6, <2>1, <2>2
<1>8. \A i \in 1 .. n : s[i] = RenameTables(from(i), to(i))
  BY <1>4, <1>6
<1>9. \A i \in 1 .. n : s[i].op = "renameTables" /\ s[i].from = from(i) /\ s[i].to = to(i)
  <2> SUFFICES ASSUME NEW i \in 1 .. n
               PROVE  s[i].op = "renameTables" /\ s[i].from = from(i) /\ s[i].to = to(i)
    OBVIOUS
  <2>1. s[i] = RenameTables(from(i), to(i))
    BY <1>8
  <2> QED
    BY <2>1 DEF RenameTables
<1>10. \A i, j \in 1 .. n : s[i].from = s[j].from => i = j
  <2> SUFFICES ASSUME NEW i \in 1 .. n, NEW j \in 1 .. n, s[i].from = s[j].from PROVE i = j
    OBVIOUS
  <2>1. TableName(db, lists[i]) = TableName(db, lists[j])
    BY <1>9 DEF from
  <2>2. lists[i] = lists[j]
    BY <1>2, <2>1, TableNamesDiffer
  <2> QED
    BY <1>2, <2>2
<1>11. ASSUME NEW l \in DOMAIN db.lists, db.lists[l].website = w
       PROVE  TableName(db, l) \in Old(s)
  <2>1. PICK i \in 1 .. n : lists[i] = l
    BY <1>2, <1>11 DEF ListsOf
  <2>2. i \in DOMAIN s /\ s[i].op = "renameTables" /\ s[i].from = TableName(db, l)
    BY <1>6, <1>9, <2>1 DEF from
  <2> QED
    BY <2>2 DEF Old, Of
<1>12. db.tables = TablesOnTheWay(db, Old(s), w, name)
  <2>1. \A l \in DOMAIN db.lists : NameOnTheWay(db, Old(s), w, name, l) = TableName(db, l)
    BY <1>11 DEF NameOnTheWay
  <2> QED
    BY <2>1 DEF TablesOnTheWay, Names
<1>13. \A v \in DOMAIN db.websites : db.websites[v] # name
  BY DEF IsWebsiteNamespace
<1>14. ASSUME NEW i \in 1 .. n
       PROVE  \E l \in DOMAIN db.lists :
                /\ db.lists[l].website = w
                /\ s[i].from = TableName(db, l) /\ s[i].to = Joined(name, db.lists[l].name)
  BY <1>2, <1>9 DEF from, to
<1>15. s[Len(s)] = RenameWebsite(w, name)
  BY <1>6
<1>16. RenamingWebsite(db, s)
  <2>1. \A i \in 1 .. Len(s) - 1 :
          /\ s[i].op = "renameTables"
          /\ \E l \in DOMAIN db.lists :
               /\ db.lists[l].website = w
               /\ s[i].from = TableName(db, l) /\ s[i].to = Joined(name, db.lists[l].name)
    BY <1>7, <1>9, <1>14
  <2>2. \A i, j \in 1 .. Len(s) - 1 : s[i].from = s[j].from => i = j
    BY <1>7, <1>10
  <2> QED
    BY <1>7, <1>12, <1>13, <1>15, <2>1, <2>2 DEF RenamingWebsite
<1> QED
  BY <1>16 DEF s

\* updateUrlList()
LEMMA RenameOneBalances ==
  ASSUME db.tables = Names(db), NEW k \in DOMAIN db.lists, NEW name \in ListNames,
         ~IsUrlListNamespace(db.lists[k].website, name)
  PROVE  RenamingList(db, RenameOne(k, name))
<1> DEFINE new == Joined(db.websites[db.lists[k].website], name)
<1>1. RenameOne(k, name) = <<RenameTables(TableName(db, k), new), RenameList(k, name)>>
  BY DEF RenameOne, Joined
<1>2. \A l \in DOMAIN db.lists : db.lists[l].website = db.lists[k].website => db.lists[l].name # name
  BY DEF IsUrlListNamespace, ListsOf
<1> QED
  BY <1>1, <1>2 DEF RenamingList

\* deleteUrlList()
LEMMA DeleteListBalances ==
  ASSUME db.tables = Names(db), NEW k \in DOMAIN db.lists
  PROVE  Deleting(db, DeleteList(k))
<1> DEFINE s == DeleteList(k)
<1>1. /\ DOMAIN s = {1, 2}
      /\ s[1].op = "deleteList" /\ s[1].id = k
      /\ s[2].op = "dropTables" /\ s[2].name = TableName(db, k)
  BY DEF DeleteList, DeleteListRow, DropTables
<1> HIDE DEF s
<1>2. Of(s, "deleteList") = {1} /\ Of(s, "dropTables") = {2} /\ Of(s, "deleteWebsite") = {}
  BY <1>1 DEF Of
<1>3. 1 + 1 = 2 /\ 2 - 1 = 1 /\ {2} \cap {1} = {}
  OBVIOUS
<1>4. Deleting(db, s)
  BY <1>1, <1>2, <1>3 DEF Deleting
<1> QED
  BY <1>4 DEF s

\* A website with its lists: each row is followed by the tables.
AddsWebsite(s, new, name, names, k) ==
  /\ \A i, j \in 1 .. k : names[i] = names[j] => i = j
  /\ 1 \in DOMAIN s /\ s[1].op = "insertWebsite" /\ s[1].name = name
  /\ \A j \in 1 .. k :
       /\ 2 * j \in DOMAIN s /\ 2 * j + 1 \in DOMAIN s
       /\ s[2 * j].op = "insertList" /\ s[2 * j].website = new /\ s[2 * j].name = names[j]
       /\ s[2 * j + 1].op = "createTables" /\ s[2 * j + 1].name = Joined(name, names[j])
  /\ \A i \in DOMAIN s :
       \/ i = 1 \/ s[i].op = "insertConfig"
       \/ \E j \in 1 .. k : i = 2 * j \/ i = 2 * j + 1

LEMMA AddingPlan ==
  ASSUME Sound(db), db.tables = Names(db),
         NEW new, new = db.next["websites"], NEW name \in WebsiteNames,
         NEW k \in Nat, NEW names, NEW s, AddsWebsite(s, new, name, names, k)
  PROVE  Adding(db, s)
<1> USE DEF AddsWebsite
<1>1. \A l \in DOMAIN db.lists : db.lists[l].website # new
  <2>1. db \in Database /\ Fresh(db) /\ \A l \in DOMAIN db.lists : db.lists[l].website \in DOMAIN db.websites
    BY SoundFacts
  <2>2. new \in Nat
    BY <2>1, NextFacts DEF RowTables, Id
  <2>3. new \notin DOMAIN db.websites
    BY <2>1, <2>2 DEF Fresh, RowTables
  <2> QED
    BY <2>1, <2>3
<1>2. \A i \in DOMAIN s :
        \/ i = 1 /\ s[i].op = "insertWebsite"
        \/ s[i].op = "insertConfig"
        \/ \E j \in 1 .. k : i = 2 * j /\ s[i].op = "insertList"
        \/ \E j \in 1 .. k : i = 2 * j + 1 /\ s[i].op = "createTables"
  OBVIOUS
<1>3. \A j \in 1 .. k : j \in Nat /\ 2 * j # 1 /\ 2 * j + 1 # 1 /\ (2 * j + 1) - 1 = 2 * j
  OBVIOUS
<1>4. \A i \in DOMAIN s : s[i].op \in {"insertWebsite", "insertList", "createTables", "insertConfig"}
  BY <1>2
<1>5. Of(s, "insertWebsite") = {1}
  BY <1>2 DEF Of
<1>6. ASSUME NEW i \in Of(s, "createTables")
      PROVE  i # 1 /\ i - 1 \in Of(s, "insertList")
  <2>1. PICK j \in 1 .. k : i = 2 * j + 1
    BY <1>2 DEF Of
  <2>2. i # 1 /\ i - 1 = 2 * j
    BY <1>3, <2>1
  <2>3. 2 * j \in Of(s, "insertList")
    BY DEF Of
  <2> QED
    BY <2>2, <2>3
<1>7. ASSUME NEW i \in Of(s, "insertList")
      PROVE  \E j \in 1 .. k : i = 2 * j /\ s[i].website = new /\ s[i].name = names[j]
  <2>1. PICK j \in 1 .. k : i = 2 * j
    BY <1>2 DEF Of
  <2> QED
    BY <2>1
<1>8. ASSUME NEW i \in Of(s, "insertList")
      PROVE  /\ i + 1 \in Of(s, "createTables")
             /\ \E n \in WebsiteNames : Owns(db, s, s[i].website, n) /\ s[i + 1].name = Joined(n, s[i].name)
             /\ \A l \in DOMAIN db.lists : ~Same(db.lists[l], s[i])
             /\ \A j \in Of(s, "insertList") : Same(s[j], s[i]) => j = i
  <2>1. PICK j \in 1 .. k : i = 2 * j /\ s[i].website = new /\ s[i].name = names[j]
    BY <1>7
  <2>2. i + 1 \in Of(s, "createTables") /\ s[i + 1].name = Joined(name, s[i].name)
    BY <2>1 DEF Of
  <2>3. Owns(db, s, s[i].website, name)
    BY <1>5, <2>1 DEF Owns
  <2>4. \A l \in DOMAIN db.lists : ~Same(db.lists[l], s[i])
    BY <1>1, <2>1 DEF Same
  <2>5. ASSUME NEW h \in Of(s, "insertList"), Same(s[h], s[i])
        PROVE  h = i
    <3>1. PICK g \in 1 .. k : h = 2 * g /\ s[h].name = names[g]
      BY <1>7
    <3>2. g = j
      BY <2>1, <2>5, <3>1 DEF Same
    <3> QED
      BY <2>1, <3>1, <3>2
  <2> QED
    BY <2>2, <2>3, <2>4, <2>5
<1>9. {s[i].name : i \in Of(s, "createTables") \cap {1}} = {}
  BY <1>6
<1> QED
  BY <1>4, <1>5, <1>6, <1>8, <1>9 DEF Adding

LEMMA AddWebsiteShape ==
  ASSUME NEW new, NEW name, NEW s, s = AddWebsiteAs(new, name)
  PROVE  /\ s \in Seq({s[i] : i \in 1 .. 3}) /\ Len(s) = 3 /\ DOMAIN s = 1 .. 3
         /\ s[1] = InsertWebsite(name) /\ s[2] = InsertList(new, DefaultName, new)
         /\ s[3] = CreateTables(Joined(name, DefaultName), new)
<1> DEFINE x == InsertWebsite(name)
           y == InsertList(new, DefaultName, new)
           z == CreateTables(Joined(name, DefaultName), new)
<1>1. s = <<x>> \o <<y, z>>
  BY DEF AddWebsiteAs, AddUrlList, Joined
<1> HIDE DEF x, y, z
<1> DEFINE S == {x, y, z}
           f == <<x>>
           g == <<y, z>>
<1>2. /\ f \in Seq(S) /\ Len(f) = 1 /\ f[1] = x
      /\ g \in Seq(S) /\ Len(g) = 2 /\ g[1] = y /\ g[2] = z
  OBVIOUS
<1>5. s = f \o g
  BY <1>1
<1> HIDE DEF S, f, g
<1>6. /\ s \in Seq(S) /\ Len(s) = Len(f) + Len(g)
      /\ \A i \in 1 .. Len(f) + Len(g) : s[i] = IF i <= Len(f) THEN f[i] ELSE g[i - Len(f)]
  BY ONLY <1>2, <1>5, ConcatProperties
<1>7. Len(s) = 3 /\ \A i \in 1 .. 3 : s[i] = IF i <= 1 THEN f[i] ELSE g[i - 1]
  BY ONLY <1>2, <1>6
<1>3. Len(s) = 3 /\ DOMAIN s = 1 .. 3 /\ s[1] = x /\ s[2] = y /\ s[3] = z
  <2>1. DOMAIN s = 1 .. 3
    BY <1>6, <1>7, LenProperties
  <2> QED
    BY <1>2, <1>7, <2>1
<1>4. s \in Seq({s[i] : i \in 1 .. 3})
  <2> DEFINE R == {s[i] : i \in 1 .. 3}
  <2>1. S = R
    BY <1>3 DEF S
  <2> QED
    BY <1>6, <2>1
<1> QED
  BY <1>3, <1>4 DEF x, y, z

\* addWebsite()
LEMMA AddWebsiteBalances ==
  ASSUME Sound(db), db.tables = Names(db), NEW name \in WebsiteNames,
         NEW new, new = db.next["websites"]
  PROVE  Adding(db, AddWebsiteAs(new, name))
<1> DEFINE s == AddWebsiteAs(new, name)
           names == [i \in 1 .. 1 |-> DefaultName]
<1>1. /\ DOMAIN s = 1 .. 3
      /\ s[1] = InsertWebsite(name) /\ s[2] = InsertList(new, DefaultName, new)
      /\ s[3] = CreateTables(Joined(name, DefaultName), new)
  <2>1. s = AddWebsiteAs(new, name)
    OBVIOUS
  <2> QED
    BY ONLY <2>1, AddWebsiteShape
<1> HIDE DEF s
<1>2. /\ s[1].op = "insertWebsite" /\ s[1].name = name
      /\ s[2].op = "insertList" /\ s[2].website = new /\ s[2].name = DefaultName
      /\ s[3].op = "createTables" /\ s[3].name = Joined(name, DefaultName)
  BY <1>1 DEF InsertWebsite, InsertList, CreateTables
<1>3. \A j \in 1 .. 1 : names[j] = DefaultName /\ j = 1
  OBVIOUS
<1> HIDE DEF names
<1>4. \A j \in 1 .. 1 :
        /\ 2 * j \in DOMAIN s /\ 2 * j + 1 \in DOMAIN s
        /\ s[2 * j].op = "insertList" /\ s[2 * j].website = new /\ s[2 * j].name = names[j]
        /\ s[2 * j + 1].op = "createTables" /\ s[2 * j + 1].name = Joined(name, names[j])
  <2>1. 2 * 1 = 2 /\ 2 * 1 + 1 = 3 /\ 2 \in 1 .. 3 /\ 3 \in 1 .. 3 /\ 1 \in 1 .. 1
    OBVIOUS
  <2> QED
    BY <1>1, <1>2, <1>3, <2>1
<1>5. \A i \in DOMAIN s :
        \/ i = 1 \/ s[i].op = "insertConfig"
        \/ \E j \in 1 .. 1 : i = 2 * j \/ i = 2 * j + 1
  <2>1. \A i \in 1 .. 3 : i = 1 \/ \E j \in 1 .. 1 : i = 2 * j \/ i = 2 * j + 1
    OBVIOUS
  <2> QED
    BY <1>1, <2>1
<1>6. 1 \in DOMAIN s /\ 1 \in Nat /\ \A i, j \in 1 .. 1 : names[i] = names[j] => i = j
  BY <1>1
<1>7. Adding(db, s)
  <2>1. AddsWebsite(s, new, name, names, 1)
    BY <1>2, <1>4, <1>5, <1>6 DEF AddsWebsite
  <2> QED
    BY <2>1, AddingPlan
<1> QED
  BY <1>7 DEF s

\* addUrlList()
LEMMA AddUrlListBalances ==
  ASSUME Sound(db), db.tables = Names(db), NEW w \in DOMAIN db.websites, NEW name,
         ~IsUrlListNamespace(w, name), NEW u
  PROVE  Adding(db, AddUrlList(w, name, db.websites[w] \o name, u))
<1> DEFINE n == db.websites[w]
           s == AddUrlList(w, name, n \o name, u)
<1>1. /\ DOMAIN s = {1, 2}
      /\ s[1].op = "insertList" /\ s[1].website = w /\ s[1].name = name
      /\ s[2].op = "createTables" /\ s[2].name = Joined(n, name)
  BY DEF AddUrlList, InsertList, CreateTables, Joined
<1>2. n \in WebsiteNames
  BY SoundFacts
<1> HIDE DEF s, n
<1>3. Of(s, "insertList") = {1} /\ Of(s, "createTables") = {2} /\ Of(s, "insertWebsite") = {}
  BY <1>1 DEF Of
<1>4. 1 + 1 = 2 /\ 2 - 1 = 1 /\ {2} \cap {1} = {}
  OBVIOUS
<1>5. Owns(db, s, w, n)
  BY DEF Owns, n
<1>6. \A l \in DOMAIN db.lists : ~Same(db.lists[l], s[1])
  BY <1>1 DEF IsUrlListNamespace, ListsOf, Same
<1>7. Adding(db, s)
  BY <1>1, <1>2, <1>3, <1>4, <1>5, <1>6 DEF Adding
<1> QED
  BY <1>7 DEF s, n

LEMMA InsertConfigBalances ==
  ASSUME db.tables = Names(db), NEW w
  PROVE  Adding(db, <<InsertConfig(w)>>)
<1> DEFINE s == <<InsertConfig(w)>>
<1>1. DOMAIN s = {1} /\ s[1].op = "insertConfig"
  BY DEF InsertConfig
<1> HIDE DEF s
<1>2. Of(s, "insertList") = {} /\ Of(s, "createTables") = {} /\ Of(s, "insertWebsite") = {}
  BY <1>1 DEF Of
<1>3. Adding(db, s)
  BY <1>1, <1>2 DEF Adding
<1> QED
  BY <1>3 DEF s

\* duplicateWebsite(): the default list, the other lists, then the configurations.
IsDuplicated(s, new, name, lists, n, m) ==
  /\ DOMAIN s = 1 .. 3 + 2 * n + m
  /\ s[1] = InsertWebsite(name) /\ s[2] = InsertList(new, DefaultName, new)
  /\ s[3] = CreateTables(Joined(name, DefaultName), new)
  /\ \A j \in 1 .. n :
       /\ s[2 * j + 2] = InsertList(new, db.lists[lists[j]].name, 0)
       /\ s[2 * j + 3] = CreateTables(Joined(name, db.lists[lists[j]].name), 0)
  /\ \A j \in 1 .. m : s[3 + 2 * n + j] = InsertConfig(new)

LEMMA DuplicatedShape ==
  ASSUME NEW new, NEW name, NEW lists, NEW n \in Nat, DOMAIN lists = 1 .. n,
         NEW configs, NEW m \in Nat, DOMAIN configs = 1 .. m,
         NEW s, s = Duplicated(new, name, lists, configs)
  PROVE  IsDuplicated(s, new, name, lists, n, m)
<1> DEFINE rows == [i \in DOMAIN lists |-> InsertList(new, db.lists[lists[i]].name, 0)]
           tables == [i \in DOMAIN lists |-> CreateTables(Joined(name, db.lists[lists[i]].name), 0)]
           copies == [i \in DOMAIN configs |-> InsertConfig(new)]
           first == AddWebsiteAs(new, name)
           u == InTurn(rows, tables)
           R == {rows[i] : i \in 1 .. n} \cup {tables[i] : i \in 1 .. n}
           S == {first[i] : i \in 1 .. 3}
           C == {InsertConfig(new)}
<1>1. s = (first \o u) \o copies
  BY DEF Duplicated, Joined
<1>2. /\ first \in Seq(S) /\ Len(first) = 3
      /\ first[1] = InsertWebsite(name) /\ first[2] = InsertList(new, DefaultName, new)
      /\ first[3] = CreateTables(Joined(name, DefaultName), new)
  <2>1. first = AddWebsiteAs(new, name) /\ S = {first[i] : i \in 1 .. 3}
    OBVIOUS
  <2> HIDE DEF first, S
  <2> QED
    BY ONLY <2>1, AddWebsiteShape
<1>3. rows \in [1 .. n -> R] /\ tables \in [1 .. n -> R] /\ copies \in [1 .. m -> C]
  OBVIOUS
<1>4. /\ \A j \in 1 .. n : rows[j] = InsertList(new, db.lists[lists[j]].name, 0)
      /\ \A j \in 1 .. n : tables[j] = CreateTables(Joined(name, db.lists[lists[j]].name), 0)
      /\ \A j \in 1 .. m : copies[j] = InsertConfig(new)
  OBVIOUS
<1>5. u = InTurn(rows, tables)
  OBVIOUS
<1> HIDE DEF rows, tables, copies, first, u, R, S, C
<1>6. /\ rows \in Seq(R) /\ Len(rows) = n /\ tables \in Seq(R) /\ Len(tables) = n
      /\ copies \in Seq(C) /\ Len(copies) = m
  BY <1>3, FunctionIsSeq
<1>7. /\ u \in Seq(R) /\ Len(u) = 2 * n
      /\ \A j \in 1 .. n : u[2 * j - 1] = rows[j] /\ u[2 * j] = tables[j]
  <2>1. rows \in Seq(R) /\ tables \in Seq(R) /\ Len(rows) = n /\ Len(tables) = n
    BY <1>6
  <2>2. u \in Seq(R) /\ TakesTurns(u, rows, tables, n)
    BY ONLY <1>5, <2>1, InTurnShape
  <2> QED
    BY <2>2 DEF TakesTurns
<1> DEFINE T == (S \cup R) \cup C
<1>8. first \in Seq(T) /\ u \in Seq(T) /\ copies \in Seq(T)
  <2>1. S \subseteq T /\ R \subseteq T /\ C \subseteq T
    OBVIOUS
  <2> HIDE DEF T
  <2> QED
    BY <1>2, <1>6, <1>7, <2>1, SeqMonotonic
<1> HIDE DEF T
<1> DEFINE v == first \o u
<1>9. /\ v \in Seq(T) /\ Len(v) = Len(first) + Len(u)
      /\ \A i \in 1 .. Len(first) + Len(u) :
           v[i] = IF i <= Len(first) THEN first[i] ELSE u[i - Len(first)]
  BY ONLY <1>8, ConcatProperties
<1> HIDE DEF v
<1>10. /\ Len(v) = 3 + 2 * n
       /\ \A i \in 1 .. 3 + 2 * n : v[i] = IF i <= 3 THEN first[i] ELSE u[i - 3]
  BY ONLY <1>2, <1>7, <1>9
<1>11. /\ v \o copies \in Seq(T) /\ Len(v \o copies) = Len(v) + Len(copies)
       /\ \A i \in 1 .. Len(v) + Len(copies) :
            (v \o copies)[i] = IF i <= Len(v) THEN v[i] ELSE copies[i - Len(v)]
  <2>1. v \in Seq(T) /\ copies \in Seq(T)
    BY <1>8, <1>9
  <2> QED
    BY ONLY <2>1, ConcatProperties
<1>12. s = v \o copies
  BY <1>1 DEF v
<1>13. /\ s \in Seq(T) /\ Len(s) = 3 + 2 * n + m
       /\ \A i \in 1 .. 3 + 2 * n + m :
            s[i] = IF i <= 3 + 2 * n THEN v[i] ELSE copies[i - (3 + 2 * n)]
  BY ONLY <1>6, <1>10, <1>11, <1>12
<1>14. DOMAIN s = 1 .. 3 + 2 * n + m
  BY <1>13, LenProperties
<1>15. \A i \in 1 .. 3 : s[i] = first[i]
  <2>1. \A i \in 1 .. 3 : /\ i \in 1 .. 3 + 2 * n + m /\ i <= 3 + 2 * n
                          /\ i \in 1 .. 3 + 2 * n /\ i <= 3
    OBVIOUS
  <2> QED
    BY <1>10, <1>13, <2>1
<1>16. \A i \in 1 .. 2 * n : s[i + 3] = u[i]
  <2>1. \A i \in 1 .. 2 * n : /\ i + 3 \in 1 .. 3 + 2 * n + m /\ i + 3 <= 3 + 2 * n
                              /\ i + 3 \in 1 .. 3 + 2 * n /\ ~(i + 3 <= 3) /\ (i + 3) - 3 = i
    OBVIOUS
  <2> QED
    BY <1>10, <1>13, <2>1
<1>17. ASSUME NEW j \in 1 .. n
       PROVE  /\ s[2 * j + 2] = InsertList(new, db.lists[lists[j]].name, 0)
              /\ s[2 * j + 3] = CreateTables(Joined(name, db.lists[lists[j]].name), 0)
  <2>1. /\ 2 * j - 1 \in 1 .. 2 * n /\ 2 * j \in 1 .. 2 * n /\ (2 * j - 1) + 3 = 2 * j + 2
    OBVIOUS
  <2>2. s[2 * j + 2] = u[2 * j - 1] /\ s[2 * j + 3] = u[2 * j]
    BY <1>16, <2>1
  <2> QED
    BY <1>4, <1>7, <2>2
<1>18. ASSUME NEW j \in 1 .. m
       PROVE  s[3 + 2 * n + j] = InsertConfig(new)
  <2>1. /\ 3 + 2 * n + j \in 1 .. 3 + 2 * n + m /\ ~(3 + 2 * n + j <= 3 + 2 * n)
        /\ (3 + 2 * n + j) - (3 + 2 * n) = j
    OBVIOUS
  <2>2. s[3 + 2 * n + j] = copies[j]
    BY <1>13, <2>1
  <2> QED
    BY <1>4, <2>2
<1> QED
  BY <1>2, <1>14, <1>15, <1>17, <1>18 DEF IsDuplicated

LEMMA DuplicateBalances ==
  ASSUME Sound(db), db.tables = Names(db), NEW w \in DOMAIN db.websites, NEW name \in WebsiteNames,
         NEW new, new = db.next["websites"],
         NEW L, L = {l \in ListsOf(w) : db.lists[l].name # DefaultName}, NEW lists \in Ascending(L),
         NEW C \in SUBSET DOMAIN db.configs, NEW configs \in Ascending(C)
  PROVE  Adding(db, Duplicated(new, name, lists, configs))
<1> DEFINE n == Len(lists)
           m == Len(configs)
           s == Duplicated(new, name, lists, configs)
           names == [i \in 1 .. n + 1 |-> IF i = 1 THEN DefaultName ELSE db.lists[lists[i - 1]].name]
<1>1. /\ n \in Nat /\ DOMAIN lists = 1 .. n
      /\ \A i \in 1 .. n : lists[i] \in L
      /\ \A i, j \in 1 .. n : lists[i] = lists[j] => i = j
  <2>1. L \in SUBSET DOMAIN db.lists
    BY DEF ListsOf
  <2>2. IsFiniteSet(L)
    BY <2>1, SoundFacts, DomainFinite DEF RowTables
  <2>3. /\ lists \in Seq(L) /\ DOMAIN lists = 1 .. Len(lists)
        /\ \A i \in DOMAIN lists : lists[i] \in L
        /\ \A i, j \in DOMAIN lists : lists[i] = lists[j] => i = j
    BY <2>2, AscendingFacts
  <2>4. Len(lists) \in Nat
    BY <2>3, LenProperties
  <2> QED
    BY <2>3, <2>4
<1>2. m \in Nat /\ DOMAIN configs = 1 .. m
  <2>1. IsFiniteSet(C)
    BY SoundFacts, DomainFinite DEF RowTables
  <2>2. configs \in Seq(C) /\ DOMAIN configs = 1 .. Len(configs)
    BY <2>1, AscendingFacts
  <2> QED
    BY <2>2, LenProperties
<1>3. s = Duplicated(new, name, lists, configs)
  OBVIOUS
<1>4. /\ names[1] = DefaultName
      /\ \A i \in 1 .. n : names[i + 1] = db.lists[lists[i]].name
  <2>1. 1 \in 1 .. n + 1 /\ \A i \in 1 .. n : i + 1 \in 1 .. n + 1 /\ i + 1 # 1 /\ (i + 1) - 1 = i
    BY <1>1
  <2> QED
    BY <2>1
<1> HIDE DEF n, m, s, names
<1>5. /\ DOMAIN s = 1 .. 3 + 2 * n + m
      /\ s[1] = InsertWebsite(name) /\ s[2] = InsertList(new, DefaultName, new)
      /\ s[3] = CreateTables(Joined(name, DefaultName), new)
      /\ \A j \in 1 .. n :
           /\ s[2 * j + 2] = InsertList(new, db.lists[lists[j]].name, 0)
           /\ s[2 * j + 3] = CreateTables(Joined(name, db.lists[lists[j]].name), 0)
      /\ \A j \in 1 .. m : s[3 + 2 * n + j] = InsertConfig(new)
  <2>1. n \in Nat /\ DOMAIN lists = 1 .. n /\ m \in Nat /\ DOMAIN configs = 1 .. m
    BY <1>1, <1>2
  <2>2. IsDuplicated(s, new, name, lists, n, m)
    BY <1>3, <2>1, DuplicatedShape
  <2> QED
    BY <2>2 DEF IsDuplicated
<1>6. 1 \in DOMAIN s /\ s[1].op = "insertWebsite" /\ s[1].name = name
  <2>1. 1 \in 1 .. 3 + 2 * n + m
    BY <1>1, <1>2
  <2> QED
    BY <1>5, <2>1 DEF InsertWebsite
<1>7. \A j \in 1 .. n + 1 : j = 1 \/ (j - 1 \in 1 .. n /\ 2 * (j - 1) + 2 = 2 * j
                                      /\ 2 * (j - 1) + 3 = 2 * j + 1 /\ (j - 1) + 1 = j)
  BY <1>1
<1>8. \A i, j \in 1 .. n : db.lists[lists[i]].name = db.lists[lists[j]].name => i = j
  <2> SUFFICES ASSUME NEW i \in 1 .. n, NEW j \in 1 .. n,
                      db.lists[lists[i]].name = db.lists[lists[j]].name
               PROVE  i = j
    OBVIOUS
  <2>1. /\ lists[i] \in DOMAIN db.lists /\ db.lists[lists[i]].website = w
        /\ lists[j] \in DOMAIN db.lists /\ db.lists[lists[j]].website = w
    BY <1>1 DEF ListsOf
  <2>2. lists[i] = lists[j]
    BY <2>1, SoundFacts DEF UniqueLists, Same
  <2> QED
    BY <1>1, <2>2
<1>9. \A i \in 1 .. n : db.lists[lists[i]].name # DefaultName
  BY <1>1
<1>10. ASSUME NEW i \in 1 .. n + 1, NEW j \in 1 .. n + 1, names[i] = names[j]
       PROVE  i = j
  <2>1. CASE i = 1 /\ j = 1
    BY <2>1
  <2>2. CASE i = 1 /\ j # 1
    <3>1. j - 1 \in 1 .. n /\ (j - 1) + 1 = j
      BY <1>7, <2>2
    <3>2. names[j] = db.lists[lists[j - 1]].name
      BY <1>4, <3>1
    <3> QED
      BY <1>4, <1>9, <1>10, <2>2, <3>1, <3>2
  <2>3. CASE i # 1 /\ j = 1
    <3>1. i - 1 \in 1 .. n /\ (i - 1) + 1 = i
      BY <1>7, <2>3
    <3>2. names[i] = db.lists[lists[i - 1]].name
      BY <1>4, <3>1
    <3> QED
      BY <1>4, <1>9, <1>10, <2>3, <3>1, <3>2
  <2>4. CASE i # 1 /\ j # 1
    <3>1. i - 1 \in 1 .. n /\ (i - 1) + 1 = i /\ j - 1 \in 1 .. n /\ (j - 1) + 1 = j
      BY <1>7, <2>4
    <3>2. names[i] = db.lists[lists[i - 1]].name /\ names[j] = db.lists[lists[j - 1]].name
      BY <1>4, <3>1
    <3>3. i - 1 = j - 1
      BY <1>8, <1>10, <3>1, <3>2
    <3> QED
      BY <3>1, <3>3
  <2> QED
    BY <2>1, <2>2, <2>3, <2>4
<1>11. ASSUME NEW j \in 1 .. n + 1
       PROVE  /\ 2 * j \in DOMAIN s /\ 2 * j + 1 \in DOMAIN s
              /\ s[2 * j].op = "insertList" /\ s[2 * j].website = new /\ s[2 * j].name = names[j]
              /\ s[2 * j + 1].op = "createTables" /\ s[2 * j + 1].name = Joined(name, names[j])
  <2>1. 2 * j \in DOMAIN s /\ 2 * j + 1 \in DOMAIN s
    BY <1>1, <1>2, <1>5
  <2>2. \E x, y : s[2 * j] = InsertList(new, names[j], x) /\ s[2 * j + 1] = CreateTables(Joined(name, names[j]), y)
    <3>1. CASE j = 1
      <4>1. 2 * j = 2 /\ 2 * j + 1 = 3
        BY <3>1
      <4> QED
        BY <1>4, <1>5, <3>1, <4>1
    <3>2. CASE j # 1
      <4>1. /\ j - 1 \in 1 .. n /\ 2 * (j - 1) + 2 = 2 * j /\ 2 * (j - 1) + 3 = 2 * j + 1
            /\ (j - 1) + 1 = j
        BY <1>7, <3>2
      <4>2. names[j] = db.lists[lists[j - 1]].name
        BY <1>4, <4>1
      <4>3. /\ s[2 * j] = InsertList(new, names[j], 0)
            /\ s[2 * j + 1] = CreateTables(Joined(name, names[j]), 0)
        BY <1>5, <4>1, <4>2
      <4> QED
        BY <4>3
    <3> QED
      BY <3>1, <3>2
  <2> QED
    BY <2>1, <2>2 DEF InsertList, CreateTables
<1>12. ASSUME NEW i \in DOMAIN s
       PROVE  \/ i = 1 \/ s[i].op = "insertConfig"
              \/ \E j \in 1 .. n + 1 : i = 2 * j \/ i = 2 * j + 1
  <2>1. i \in 1 .. 3 + 2 * n + m
    BY <1>5
  <2>2. CASE i > 3 + 2 * n
    <3>1. i - (3 + 2 * n) \in 1 .. m /\ 3 + 2 * n + (i - (3 + 2 * n)) = i
      BY <1>1, <1>2, <2>1, <2>2
    <3>2. s[i] = InsertConfig(new)
      BY <1>5, <3>1
    <3> QED
      BY <3>2 DEF InsertConfig
  <2>3. CASE ~(i > 3 + 2 * n)
    <3>1. i \in Nat /\ i >= 1 /\ i <= 3 + 2 * n
      BY <1>1, <1>2, <2>1, <2>3
    <3>2. i \div 2 \in Nat /\ (i = 2 * (i \div 2) \/ i = 2 * (i \div 2) + 1)
      BY <3>1
    <3> DEFINE j == i \div 2
    <3> HIDE DEF j
    <3>3. j \in Nat /\ (i = 2 * j \/ i = 2 * j + 1)
      BY <3>2 DEF j
    <3>4. j = 0 => i = 1
      BY <3>1, <3>3
    <3>5. j <= n + 1
      BY <1>1, <3>1, <3>3
    <3>6. j = 0 \/ j \in 1 .. n + 1
      BY <1>1, <3>3, <3>5
    <3> QED
      BY <3>3, <3>4, <3>6
  <2> QED
    BY <2>2, <2>3
<1>13. n + 1 \in Nat
  BY <1>1
<1>14. Adding(db, s)
  <2> DEFINE k == n + 1
  <2>1. k \in Nat
    BY <1>13
  <2>2. AddsWebsite(s, new, name, names, k)
    BY <1>6, <1>10, <1>11, <1>12 DEF AddsWebsite
  <2> HIDE DEF k
  <2> QED
    BY <2>1, <2>2, AddingPlan
<1> QED
  BY <1>14 DEF s

LEMMA SoundIntro ==
  ASSUME Inv, UniqueLists(db)
  PROVE  Sound(db)
BY DEF Inv, TypeInv, TypeOK, UseInv, WebsiteNamespacesAreUnique, Sound

LEMMA DataCommandBalances ==
  ASSUME NamesAreUnambiguous, Inv, UniqueLists(db), db.tables = Names(db), DataCommand
  PROVE  \/ \E s : Balanced(db, s) /\ Accept(s)
         \/ \E c \in DOMAIN db.configs : DeleteConfig(c)
<1> USE DEF Balanced
<1>1. Sound(db)
  BY SoundIntro
<1>2. ASSUME NEW name \in WebsiteNames, AddWebsite(name)
      PROVE  \E s : Balanced(db, s) /\ Accept(s)
  BY <1>1, <1>2, AddWebsiteBalances DEF AddWebsite
<1>3. ASSUME NEW w \in DOMAIN db.websites, NEW name \in WebsiteNames, UpdateWebsite(w, name)
      PROVE  \E s : Balanced(db, s) /\ Accept(s)
  <2>1. ~IsWebsiteNamespace(name) /\ \E lists \in Ascending(ListsOf(w)) : Accept(RenameAll(w, lists, name))
    BY <1>3 DEF UpdateWebsite
  <2>2. PICK lists \in Ascending(ListsOf(w)) : Accept(RenameAll(w, lists, name))
    BY <2>1
  <2>3. RenamingWebsite(db, RenameAll(w, lists, name))
    BY <1>1, <2>1, RenameAllBalances
  <2> QED
    BY <2>2, <2>3
<1>4. ASSUME NEW w \in DOMAIN db.websites, NEW name \in WebsiteNames, DuplicateWebsite(w, name)
      PROVE  \E s : Balanced(db, s) /\ Accept(s)
  <2> DEFINE L == {l \in ListsOf(w) : db.lists[l].name # DefaultName}
             C == {c \in DOMAIN db.configs : db.configs[c] = w}
             new == db.next["websites"]
  <2>1. /\ C \in SUBSET DOMAIN db.configs
        /\ \E lists \in Ascending(L), configs \in Ascending(C) : Accept(Duplicated(new, name, lists, configs))
    BY <1>4 DEF DuplicateWebsite, Duplicated
  <2> HIDE DEF C
  <2>2. PICK lists \in Ascending(L), configs \in Ascending(C) : Accept(Duplicated(new, name, lists, configs))
    BY <2>1
  <2>3. Adding(db, Duplicated(new, name, lists, configs))
    BY <1>1, <2>1, DuplicateBalances
  <2> QED
    BY <2>2, <2>3
<1>5. ASSUME NEW w \in DOMAIN db.websites, NEW name \in ListNames, AddUrlListCommand(w, name)
      PROVE  \E s : Balanced(db, s) /\ Accept(s)
  <2>1. Adding(db, AddUrlList(w, name, db.websites[w] \o name, 0))
    BY <1>1, <1>5, AddUrlListBalances DEF AddUrlListCommand
  <2> QED
    BY <1>5, <2>1 DEF AddUrlListCommand
<1>6. ASSUME NEW w \in DOMAIN db.websites, DeleteWebsiteCommand(w)
      PROVE  \E s : Balanced(db, s) /\ Accept(s)
  <2>1. PICK lists \in Ascending(ListsOf(w)) : Accept(DeleteWebsite(w, lists))
    BY <1>6 DEF DeleteWebsiteCommand
  <2>2. Deleting(db, DeleteWebsite(w, lists))
    BY <1>1, DeleteWebsiteBalances
  <2> QED
    BY <2>1, <2>2
<1>7. ASSUME NEW w, Accept(<<InsertConfig(w)>>)
      PROVE  \E s : Balanced(db, s) /\ Accept(s)
  BY <1>7, InsertConfigBalances
<1>8. ASSUME NEW l \in DOMAIN db.lists, DeleteUrlList(l)
      PROVE  \E s : Balanced(db, s) /\ Accept(s)
  BY <1>8, DeleteListBalances DEF DeleteUrlList
<1>9. ASSUME NEW l \in DOMAIN db.lists, NEW name \in ListNames, UpdateUrlList(l, name)
      PROVE  \E s : Balanced(db, s) /\ Accept(s)
  BY <1>9, RenameOneBalances DEF UpdateUrlList
<1>10. (\E w \in DOMAIN db.websites : AddConfig(w)) \/ (\E c \in DOMAIN db.configs : DuplicateConfig(c))
       => \E w : Accept(<<InsertConfig(w)>>)
  BY DEF AddConfig, DuplicateConfig
<1> HIDE DEF Balanced
<1> QED
  BY <1>2, <1>3, <1>4, <1>5, <1>6, <1>7, <1>8, <1>9, <1>10 DEF DataCommand

\* What is left of an addition, or of nothing: a worker never has other statements.
LEMMA WorkerAdds ==
  ASSUME NEW s \in Seq(WorkerStatement), Balanced(db, s), s # <<>>
  PROVE  \E i \in DOMAIN s : s[i].op = "createTables"
<1>1. /\ Len(s) \in Nat /\ Len(s) # 0 /\ DOMAIN s = 1 .. Len(s)
      /\ \A i \in 1 .. Len(s) : s[i] \in WorkerStatement
  <2>1. Len(s) \in Nat \ {0}
    BY EmptySeq
  <2> QED
    BY <2>1, LenProperties, ElementOfSeq
<1>2. \A i \in DOMAIN s : s[i].op \in {"insertList", "createTables"}
  BY <1>1 DEF WorkerStatement
<1>3. 1 \in DOMAIN s /\ Len(s) \in DOMAIN s
  BY <1>1
<1>4. CASE Adding(db, s)
  <2>1. 1 \in Of(s, "insertList") \/ 1 \in Of(s, "createTables")
    BY <1>2, <1>3 DEF Of
  <2>2. \E i : i \in Of(s, "createTables")
    BY <1>4, <2>1 DEF Adding
  <2> QED
    BY <2>2 DEF Of
<1>5. ~Deleting(db, s)
  BY <1>2, <1>3 DEF Deleting
<1>6. ~RenamingWebsite(db, s)
  BY <1>2, <1>3 DEF RenamingWebsite, RenameWebsite
<1>7. ~RenamingList(db, s)
  <2>1. \A x, y : <<x, y>>[1] = x /\ \A z : <<z>>[1] = z
    OBVIOUS
  <2>2. s[1].op \notin {"renameTables", "renameList"}
    BY <1>2, <1>3
  <2> QED
    BY <2>1, <2>2 DEF RenamingList, RenameTables, RenameList
<1> QED
  BY <1>4, <1>5, <1>6, <1>7 DEF Balanced

-----------------------------------------------------------------------------
(* The other steps leave websites, lists and tables as they are.            *)

SameLists(d, e) ==
  /\ e.websites = d.websites /\ e.lists = d.lists /\ e.tables = d.tables
  /\ e.next["websites"] = d.next["websites"]

LEMMA BalancedKept ==
  ASSUME NEW d, NEW e, SameLists(d, e), NEW s, Balanced(d, s)
  PROVE  Balanced(e, s)
<1> USE DEF SameLists
<1>1. \A l : TableName(e, l) = TableName(d, l)
  BY DEF TableName
<1>2. Names(e) = Names(d)
  BY <1>1 DEF Names
<1>3. \A w, n : Owns(d, s, w, n) <=> Owns(e, s, w, n)
  BY DEF Owns
<1>4. Adding(d, s) => Adding(e, s)
  BY <1>2, <1>3 DEF Adding
<1>5. Deleting(d, s) => Deleting(e, s)
  BY <1>1, <1>2 DEF Deleting
<1>6. \A old, w, n : TablesOnTheWay(e, old, w, n) = TablesOnTheWay(d, old, w, n)
  <2>1. \A old, w, n, l : NameOnTheWay(e, old, w, n, l) = NameOnTheWay(d, old, w, n, l)
    BY <1>1 DEF NameOnTheWay
  <2> QED
    BY <2>1 DEF TablesOnTheWay
<1>7. RenamingWebsite(d, s) => RenamingWebsite(e, s)
  BY <1>1, <1>6 DEF RenamingWebsite
<1>8. RenamingList(d, s) => RenamingList(e, s)
  BY <1>1, <1>2 DEF RenamingList
<1> QED
  BY <1>4, <1>5, <1>7, <1>8 DEF Balanced

Quiet ==
  /\ SameLists(db, db') /\ UNCHANGED <<todo, faults, raced>>
  /\ undone' \in {undone, 0}

LEMMA DeleteConfigIsQuiet ==
  ASSUME Inv, NEW c, DeleteConfig(c)
  PROVE  Quiet
<1>1. db \in Database /\ Fresh(db) /\ Referring(db)
  BY DEF Inv, TypeInv, TypeOK
<1>2. db' = Delete(db, "configs", c) /\ undone' = 0 /\ UNCHANGED <<threads, todo, faults, works, raced, reused>>
  BY DEF DeleteConfig
<1>3. db'.tables = db.tables /\ db'.next["websites"] = db.next["websites"]
  BY <1>1, <1>2, DeleteFacts DEF RowTables
<1>4. db'.websites = db.websites /\ db'.lists = db.lists
  BY <1>1, <1>2, SameWebsitesAndLists
<1> QED
  BY <1>2, <1>3, <1>4 DEF Quiet, SameLists

LEMMA EndIsQuiet ==
  ASSUME Inv, NEW i, End(i)
  PROVE  Quiet
<1>1. db \in Database /\ Fresh(db) /\ Referring(db)
  BY DEF Inv, TypeInv, TypeOK
<1>2. db' = Delete(db, "rows", threads[i].id) /\ UNCHANGED <<todo, undone, faults, works, raced, reused>>
  BY DEF End
<1>3. db'.tables = db.tables /\ db'.next["websites"] = db.next["websites"]
  BY <1>1, <1>2, DeleteFacts DEF RowTables
<1>4. db'.websites = db.websites /\ db'.lists = db.lists
  BY <1>1, <1>2, SameWebsitesAndLists
<1> QED
  BY <1>2, <1>3, <1>4 DEF Quiet, SameLists

LEMMA ThreadCommandIsQuiet ==
  ASSUME Inv, ThreadCommand
  PROVE  Quiet
<1>1. db \in Database
  BY DEF Inv, TypeInv, TypeOK
<1>2. ASSUME NEW kind, Start(kind)
      PROVE  Quiet
  <2>1. /\ \E row : db' = Insert(db, "rows", row)
        /\ undone' = 0 /\ UNCHANGED <<todo, faults, works, raced>>
    BY <1>2 DEF Start, Command
  <2>2. SameLists(db, db')
    <3>1. db.next \in [RowTables -> Id] /\ "websites" \in RowTables
      BY <1>1 DEF Database, RowTables
    <3> QED
      BY <1>1, <2>1, <3>1 DEF Insert, SameLists, Database
  <2> QED
    BY <2>1, <2>2 DEF Quiet
<1>3. ASSUME NEW kind, NEW p, SetPause(kind, p)
      PROVE  Quiet
  <2>1. /\ \E id : db' = SetPaused(db, id, p)
        /\ undone' = 0 /\ UNCHANGED <<todo, faults, works, raced>>
    BY <1>3 DEF SetPause, Command
  <2>2. SameLists(db, db')
    BY <1>1, <2>1 DEF SetPaused, SameLists, Database
  <2> QED
    BY <2>1, <2>2 DEF Quiet
<1>4. ASSUME NEW kind, Stop(kind)
      PROVE  Quiet
  BY <1>4 DEF Stop, Command, Quiet, SameLists
<1>5. ASSUME NEW p, SetAllPaused(p)
      PROVE  Quiet
  <2>1. /\ \E R : db' = [db EXCEPT !.rows = R]
        /\ undone' = 0 /\ UNCHANGED <<todo, faults, works, raced>>
    BY <1>5 DEF SetAllPaused, Command
  <2>2. SameLists(db, db')
    BY <1>1, <2>1 DEF SameLists, Database
  <2> QED
    BY <2>1, <2>2 DEF Quiet
<1>6. \/ \E kind \in Kinds : Start(kind)
      \/ \E kind \in Kinds, p \in BOOLEAN : SetPause(kind, p)
      \/ \E kind \in Kinds : Stop(kind)
      \/ \E p \in BOOLEAN : SetAllPaused(p)
  BY DEF ThreadCommand, Kinds, StartCrawler, StartParser, StartExtractor, StartAnalyzer,
     PauseCrawler, PauseParser, PauseExtractor, PauseAnalyzer, UnpauseCrawler, UnpauseParser,
     UnpauseExtractor, UnpauseAnalyzer, StopCrawler, StopParser, StopExtractor, StopAnalyzer,
     PauseAll, UnpauseAll
<1> QED
  BY <1>2, <1>3, <1>4, <1>5, <1>6

\* The steps that matter for lists and tables.
LEMMA Steps ==
  ASSUME Inv, [Next]_vars
  PROVE  \/ \E c \in Connections : Execute(c) \/ Fault(c)
         \/ \E s : Accept(s) /\ Plan(s) /\ DataCommand
         \/ ImportNew \/ Restart \/ Quiet
<1>1. CASE DataCommand
  <2>1. TypeInv /\ UsedDataExists
    BY DEF Inv, UseInv
  <2> QED
    BY <1>1, <2>1, DataCommandPlans, DeleteConfigIsQuiet
<1>2. CASE RemoveFinished \/ UNCHANGED vars
  BY <1>2 DEF RemoveFinished, vars, Quiet, SameLists
<1> QED
  BY <1>1, <1>2, ThreadCommandIsQuiet, EndIsQuiet DEF Next

-----------------------------------------------------------------------------
(* Tables and lists, continued.                                             *)

LEMMA TablesInit == Init => TablesInv
<1> SUFFICES ASSUME Init PROVE TablesInv
  OBVIOUS
<1>1. /\ db.tables = {} /\ DOMAIN db.lists = {}
      /\ \A c \in Connections : todo[c] = <<>>
  <2>1. db.lists = Empty /\ db.tables = {} /\ todo = [c \in Connections |-> <<>>]
    BY DEF Init
  <2> QED
    BY <2>1 DEF Empty
<1>2. UniqueLists(db) /\ db.tables = Names(db)
  BY <1>1 DEF UniqueLists, Names
<1>3. Balanced(db, <<>>) /\ "main" \in Connections
  BY <1>2, BalancedEmpty DEF Connections
<1> QED
  BY <1>1, <1>2, <1>3 DEF TablesInv

\* When nobody has statements left, the tables are those of the lists.
LEMMA NothingLeft ==
  ASSUME TablesInv, faults = 0, ~raced, todo["main"] = <<>>, todo["worker"] = <<>>
  PROVE  UniqueLists(db) /\ db.tables = Names(db)
BY BalancedEmpty DEF TablesInv, Connections

LEMMA TablesNext ==
  ASSUME NamesAreUnambiguous, Inv, TablesInv, [Next]_vars
  PROVE  TablesInv'
<1> SUFFICES ASSUME faults' = 0, ~raced'
             PROVE  /\ UniqueLists(db')
                    /\ \E c \in Connections :
                         Balanced(db', todo'[c]) /\ \A b \in Connections \ {c} : todo'[b] = <<>>
  BY DEF TablesInv
<1>1. /\ todo \in [Connections -> Seq(Statement)] /\ faults \in Nat /\ raced \in BOOLEAN
      /\ todo["worker"] \in Seq(WorkerStatement)
  BY DEF Inv, TypeInv, TypeOK
<1>2. ASSUME NEW c \in Connections, Execute(c)
      PROVE  /\ UniqueLists(db')
             /\ \E b \in Connections :
                  Balanced(db', todo'[b]) /\ \A a \in Connections \ {b} : todo'[a] = <<>>
  <2>1. faults = 0 /\ ~raced /\ todo[c] # <<>>
    BY <1>2, ExecuteFacts DEF Inv, UseInv
  <2>2. /\ UniqueLists(db) /\ Balanced(db, todo[c]) /\ \A b \in Connections \ {c} : todo[b] = <<>>
    BY <2>1 DEF TablesInv
  <2>3. Sound(db) /\ todo[c] \in Seq(Statement)
    BY <1>1, <2>2, SoundIntro
  <2>4. Proceed(c) /\ UniqueLists(db') /\ Balanced(db', Tail(todo[c]))
    BY <1>2, <2>2, <2>3, BalancedStep
  <2>5. todo' = [todo EXCEPT ![c] = Tail(todo[c])]
    BY <2>4 DEF Proceed
  <2>6. todo'[c] = Tail(todo[c]) /\ \A b \in Connections \ {c} : todo'[b] = <<>>
    BY <1>1, <2>2, <2>5
  <2> QED
    BY <2>4, <2>6
<1>3. ASSUME NEW c \in Connections, Fault(c)
      PROVE  FALSE
  BY <1>1, <1>3 DEF Fault
<1>4. ASSUME NEW s, Accept(s), DataCommand
      PROVE  /\ UniqueLists(db')
             /\ \E b \in Connections :
                  Balanced(db', todo'[b]) /\ \A a \in Connections \ {b} : todo'[a] = <<>>
  <2>1. /\ faults = 0 /\ ~raced /\ todo["main"] = <<>>
        /\ \A i \in DOMAIN todo["worker"] : todo["worker"][i].op # "createTables"
    BY <1>1, <1>4 DEF Accept, Idle
  <2>2. todo["worker"] = <<>>
    <3>1. PICK c \in Connections :
            Balanced(db, todo[c]) /\ \A b \in Connections \ {c} : todo[b] = <<>>
      BY <2>1 DEF TablesInv
    <3>2. CASE c = "worker"
      BY <1>1, <2>1, <3>1, <3>2, WorkerAdds
    <3>3. CASE c = "main"
      BY <3>1, <3>3 DEF Connections
    <3> QED
      BY <3>2, <3>3 DEF Connections
  <2>3. UniqueLists(db) /\ db.tables = Names(db)
    BY <2>1, <2>2, NothingLeft
  <2>4. CASE \E t : Balanced(db, t) /\ Accept(t)
    <3>1. PICK t : Balanced(db, t) /\ Accept(t)
      BY <2>4
    <3>2. db' = db /\ todo' = [todo EXCEPT !["main"] = t]
      BY <3>1 DEF Accept
    <3>3. todo'["main"] = t /\ \A b \in Connections \ {"main"} : todo'[b] = <<>>
      BY <1>1, <2>2, <3>2 DEF Connections
    <3>4. UniqueLists(db') /\ Balanced(db', todo'["main"])
      BY <2>3, <3>1, <3>2, <3>3
    <3> QED
      BY <3>3, <3>4 DEF Connections
  <2>5. ASSUME NEW c, DeleteConfig(c)
        PROVE  /\ UniqueLists(db')
               /\ \E b \in Connections :
                    Balanced(db', todo'[b]) /\ \A a \in Connections \ {b} : todo'[a] = <<>>
    <3>1. Quiet
      BY <2>5, DeleteConfigIsQuiet
    <3>2. Balanced(db, <<>>)
      BY <2>3, BalancedEmpty
    <3>3. Balanced(db', <<>>) /\ UniqueLists(db')
      BY <2>3, <3>1, <3>2, BalancedKept DEF Quiet, SameLists, UniqueLists
    <3>4. todo'["main"] = <<>> /\ todo'["worker"] = <<>>
      BY <2>1, <2>2, <3>1 DEF Quiet
    <3> QED
      BY <3>3, <3>4 DEF Connections
  <2> QED
    BY <1>4, <2>3, <2>4, <2>5, DataCommandBalances
<1>5. CASE ImportNew
  <2>1. faults = 0 /\ ~raced /\ todo["main"] = <<>> /\ todo["worker"] = <<>> /\ db' = db
    BY <1>1, <1>5 DEF ImportNew, Idle
  <2>2. UniqueLists(db) /\ db.tables = Names(db)
    BY <2>1, NothingLeft
  <2>3. PICK w \in DOMAIN db.websites, name \in ListNames :
          /\ ~IsUrlListNamespace(w, name)
          /\ todo' = [todo EXCEPT !["worker"] = AddUrlList(w, name, db.websites[w] \o name, 0)]
    BY <1>5 DEF ImportNew
  <2> DEFINE s == AddUrlList(w, name, db.websites[w] \o name, 0)
  <2>4. Adding(db, s)
    BY <2>2, <2>3, SoundIntro, AddUrlListBalances
  <2>5. todo' = [todo EXCEPT !["worker"] = s]
    BY <2>3
  <2> HIDE DEF s
  <2>6. todo'["worker"] = s /\ \A b \in Connections \ {"worker"} : todo'[b] = <<>>
    BY <1>1, <2>1, <2>5 DEF Connections
  <2>7. UniqueLists(db') /\ Balanced(db', todo'["worker"])
    BY <2>1, <2>2, <2>4, <2>6 DEF Balanced
  <2> QED
    BY <2>6, <2>7 DEF Connections
<1>6. CASE Restart
  <2>1. /\ faults = 0 /\ ~raced /\ db' = db /\ \A c \in Connections : todo[c] = <<>>
        /\ todo' = [c \in Connections |-> <<>>]
    BY <1>1, <1>6 DEF Restart
  <2>2. UniqueLists(db) /\ db.tables = Names(db)
    BY <2>1, NothingLeft DEF Connections
  <2>3. UniqueLists(db') /\ Balanced(db', <<>>)
    BY <2>1, <2>2, BalancedEmpty
  <2> QED
    BY <2>1, <2>3 DEF Connections
<1>7. CASE Quiet
  <2>1. faults = 0 /\ ~raced /\ todo' = todo /\ SameLists(db, db')
    BY <1>7 DEF Quiet
  <2>2. PICK c \in Connections :
          Balanced(db, todo[c]) /\ \A b \in Connections \ {c} : todo[b] = <<>>
    BY <2>1 DEF TablesInv
  <2>3. UniqueLists(db')
    BY <2>1 DEF TablesInv, UniqueLists, SameLists
  <2>4. Balanced(db', todo[c])
    BY <2>1, <2>2, BalancedKept
  <2> QED
    BY <2>1, <2>2, <2>3, <2>4
<1> QED
  BY <1>2, <1>3, <1>4, <1>5, <1>6, <1>7, Steps

-----------------------------------------------------------------------------
(* A website that could not be added, continued.                            *)

LEMMA DeletionFacts ==
  ASSUME TypeInv, NEW w, NEW lists \in Ascending(ListsOf(w)), NEW s, s = DeleteWebsite(w, lists)
  PROVE  /\ \A i \in DOMAIN s : Deletion(s[i])
         /\ s # <<>> /\ s[Len(s)] = DeleteWebsiteRow(w)
<1> DEFINE n == Len(lists)
           rows == [i \in DOMAIN lists |-> DeleteListRow(lists[i])]
           tables == [i \in DOMAIN lists |-> DropTables(TableName(db, lists[i]))]
           R == {rows[i] : i \in 1 .. n} \cup {tables[i] : i \in 1 .. n}
           u == InTurn(rows, tables)
           last == DeleteWebsiteRow(w)
<1>1. n \in Nat /\ DOMAIN lists = 1 .. n
  BY ListsOfFacts
<1>2. \A x \in R : Deletion(x)
  BY <1>1 DEF Deletion, DeleteListRow, DropTables
<1>3. Deletion(last)
  BY DEF Deletion, DeleteWebsiteRow
<1>4. rows \in [1 .. n -> R] /\ tables \in [1 .. n -> R]
  BY <1>1
<1>5. s = u \o <<last>> /\ u = InTurn(rows, tables)
  BY DEF DeleteWebsite
<1> HIDE DEF n, rows, tables, R, u, last
<1>6. rows \in Seq(R) /\ tables \in Seq(R) /\ Len(rows) = n /\ Len(tables) = n
  BY <1>1, <1>4, FunctionIsSeq
<1>7. u \in Seq(R)
  BY <1>5, <1>6, InTurnFacts
<1> DEFINE m == Len(u)
<1>8. /\ m \in Nat /\ Len(s) = m + 1 /\ DOMAIN s = 1 .. m + 1
      /\ \A i \in 1 .. m : i \in 1 .. m + 1 /\ s[i] = u[i]
      /\ m + 1 \in 1 .. m + 1 /\ s[m + 1] = last
      /\ \A i \in 1 .. m + 1 : i \in 1 .. m \/ i = m + 1
  BY ONLY <1>5, <1>7, LastShape
<1>9. \A i \in 1 .. m : u[i] \in R
  BY <1>7, ElementOfSeq
<1> HIDE DEF m
<1>10. s # <<>>
  <2>1. m + 1 # 0
    BY <1>8
  <2> QED
    BY <1>8, <2>1
<1> QED
  BY <1>2, <1>3, <1>8, <1>9, <1>10 DEF last

\* A website that is to be deleted will be: the statements, the websites, the faults.
Undoing(undo, statements, websites, f) ==
  /\ \A i \in DOMAIN statements : Deletion(statements[i])
  /\ undo \in DOMAIN websites =>
       /\ f = 1 /\ statements # <<>>
       /\ statements[Len(statements)] = DeleteWebsiteRow(undo)

LEMMA FailUndoes ==
  ASSUME Inv, UndoInv, NEW c \in Connections, todo[c] # <<>>, Fail(c), undone' # 0, faults' <= 1,
         faults' \in {faults, faults + 1},
         faults' = faults => \/ Next1(c).op = "renameTables"
                             \/ /\ Next1(c).op = "insertList"
                                /\ Next1(c).website \notin DOMAIN db.websites
  PROVE  Undoing(undone', todo'["main"], db'.websites, faults')
<1> DEFINE x == Next1(c)
           w == Undo(x)
<1>1. /\ todo \in [Connections -> Seq(Statement)] /\ faults \in Nat
      /\ todo["worker"] \in Seq(WorkerStatement) /\ TypeInv /\ Plan(todo["main"])
  BY DEF Inv, UseInv, TypeInv, TypeOK
<1>2. "main" \in Connections /\ (c = "main" \/ c = "worker")
  BY DEF Connections
<1>3. db' = db /\ faults <= 1 /\ (faults' = faults + 1 => faults = 0 /\ faults' = 1)
  BY <1>1 DEF Fail
<1>4. undone # 0 => Undoing(undone, todo["main"], db.websites, faults)
  BY <1>3 DEF UndoInv, Undoing
<1>5. CASE w = 0
  <2>1. todo' = [todo EXCEPT ![c] = <<>>] /\ undone' = undone
    BY <1>5 DEF Fail
  <2>2. Undoing(undone, todo["main"], db.websites, faults)
    BY <1>4, <2>1
  <2>3. CASE c = "main"
    <3>1. todo'["main"] = <<>> /\ DOMAIN <<>> = {}
      BY <1>1, <1>2, <2>1, <2>3
    <3>2. faults' # faults
      <4>1. x = todo["main"][1] /\ 1 \in DOMAIN todo["main"]
        BY <1>1, <2>3, RestFacts DEF Next1
      <4>2. x.op \in {"deleteWebsite", "deleteList", "dropTables"}
        BY <2>2, <4>1 DEF Undoing, Deletion
      <4> QED
        BY <4>2
    <3>3. undone \notin DOMAIN db.websites
      BY <1>3, <2>2, <3>2 DEF Undoing
    <3> QED
      BY <1>3, <2>1, <3>1, <3>3 DEF Undoing
  <2>4. CASE c = "worker"
    <3>1. todo'["main"] = todo["main"]
      BY <1>1, <1>2, <2>1, <2>4
    <3>2. undone \in DOMAIN db.websites => faults' = 1
      BY <1>3, <2>2 DEF Undoing
    <3> QED
      BY <1>3, <2>1, <2>2, <3>1, <3>2 DEF Undoing
  <2> QED
    BY <1>2, <2>3, <2>4
<1>6. CASE w # 0
  <2>1. c = "main"
    <3>1. c = "worker" => x \in WorkerStatement
      BY <1>1, HeadTailProperties DEF Next1
    <3> QED
      BY <1>2, <1>6, <3>1, WorkerFacts
  <2>2. x \in Planned
    BY <1>1, <2>1, PlanTail DEF Next1
  <2>3. PICK lists \in Ascending(ListsOf(w)) : todo' = [todo EXCEPT ![c] = DeleteWebsite(w, lists)]
    BY <1>6 DEF Fail
  <2>4. undone' = w
    BY <1>6 DEF Fail
  <2>5. w \in DOMAIN db.websites => faults' = 1
    <3>1. CASE faults' = faults + 1
      BY <1>3, <3>1
    <3>2. CASE faults' = faults
      <4>1. x.op = "insertList" /\ x.website \notin DOMAIN db.websites
        BY <1>6, <3>2 DEF Undo
      <4>2. w = x.undo
        BY <4>1 DEF Undo
      <4>3. x.website = w
        BY <1>6, <2>2, <4>1, <4>2 DEF Planned, Safe
      <4> QED
        BY <4>1, <4>3
    <3> QED
      BY <3>1, <3>2
  <2> HIDE DEF w
  <2>6. todo'["main"] = DeleteWebsite(w, lists)
    BY <1>1, <1>2, <2>1, <2>3
  <2>7. /\ \A i \in DOMAIN todo'["main"] : Deletion(todo'["main"][i])
        /\ todo'["main"] # <<>> /\ todo'["main"][Len(todo'["main"])] = DeleteWebsiteRow(w)
    BY <1>1, <2>6, DeletionFacts
  <2> QED
    BY <1>3, <2>4, <2>5, <2>7 DEF Undoing
<1> QED
  BY <1>5, <1>6

LEMMA ExecuteUndoes ==
  ASSUME Inv, UndoInv, NEW c \in Connections, Execute(c), undone' # 0, faults' <= 1
  PROVE  Undoing(undone', todo'["main"], db'.websites, faults')
<1> DEFINE x == Next1(c)
<1>1. /\ todo \in [Connections -> Seq(Statement)] /\ db \in Database /\ Fresh(db) /\ Referring(db)
      /\ todo["worker"] \in Seq(WorkerStatement) /\ TypeInv /\ UsedDataExists
  BY DEF Inv, UseInv, TypeInv, TypeOK
<1>2. "main" \in Connections /\ (c = "main" \/ c = "worker")
  BY DEF Connections
<1>3. /\ todo[c] # <<>> /\ faults' = faults
      /\ \/ Fail(c)
         \/ Proceed(c) /\ undone' = undone /\ Executed(db, x, db')
  BY <1>1, ExecuteFacts
<1>4. \/ Proceed(c) /\ undone' = undone
      \/ x.op = "renameTables"
      \/ x.op = "insertList" /\ x.website \notin DOMAIN db.websites
  BY DEF Execute, ExecInsertWebsite, ExecInsertList, ExecCreateTables,
     ExecInsertConfig, ExecDeleteWebsite, ExecDeleteList, ExecDropTables, ExecRenameTables,
     ExecRenameWebsite, ExecRenameList, Done, IsNext
<1>5. CASE Fail(c) /\ (x.op = "renameTables" \/ (x.op = "insertList" /\ x.website \notin DOMAIN db.websites))
  BY <1>3, <1>5, FailUndoes
<1>6. ASSUME Proceed(c), undone' = undone, Fail(c) \/ Executed(db, x, db')
      PROVE  Undoing(undone', todo'["main"], db'.websites, faults')
  <2>1. Undoing(undone, todo["main"], db.websites, faults)
    BY <1>3, <1>6 DEF UndoInv, Undoing
  <2>2. todo' = [todo EXCEPT ![c] = Tail(todo[c])]
    BY <1>6 DEF Proceed
  <2>3. ~Naming(x) => DOMAIN db'.websites \subseteq DOMAIN db.websites
    BY <1>6 DEF Executed, Fail
  <2>4. CASE c = "worker"
    <3>1. x \in WorkerStatement
      BY <1>1, <1>3, <2>4, HeadTailProperties DEF Next1
    <3>2. todo'["main"] = todo["main"]
      BY <1>1, <1>2, <2>2, <2>4
    <3>3. DOMAIN db'.websites \subseteq DOMAIN db.websites
      BY <2>3, <3>1, WorkerFacts
    <3> QED
      BY <1>3, <1>6, <2>1, <3>2, <3>3 DEF Undoing
  <2>5. CASE c = "main"
    <3> DEFINE s == todo["main"]
               t == Tail(s)
    <3>1. s # <<>> /\ s \in Seq(Statement)
      BY <1>1, <1>2, <1>3, <2>5
    <3>2. /\ Len(s) \in Nat /\ Len(s) # 0 /\ DOMAIN s = 1 .. Len(s)
          /\ Len(t) = Len(s) - 1 /\ DOMAIN t = 1 .. Len(s) - 1
          /\ x = s[1] /\ t \in Seq(Statement)
          /\ \A i \in DOMAIN t : i \in Nat /\ i + 1 \in DOMAIN s /\ t[i] = s[i + 1]
      BY <2>5, <3>1, RestFacts DEF Next1
    <3>3. todo'["main"] = t
      BY <1>1, <1>2, <2>2, <2>5
    <3> HIDE DEF s, t
    <3>4. /\ \A i \in DOMAIN s : Deletion(s[i])
          /\ undone \in DOMAIN db.websites => faults = 1 /\ s[Len(s)] = DeleteWebsiteRow(undone)
      BY <2>1 DEF Undoing, s
    <3>5. \A i \in DOMAIN t : Deletion(t[i])
      BY <3>2, <3>4
    <3>6. 1 \in DOMAIN s /\ Deletion(x)
      BY <3>2, <3>4
    <3>7. DOMAIN db'.websites \subseteq DOMAIN db.websites
      BY <2>3, <3>6 DEF Deletion, Naming
    <3>8. ASSUME undone \in DOMAIN db'.websites
          PROVE  faults = 1 /\ t # <<>> /\ t[Len(t)] = DeleteWebsiteRow(undone)
      <4>1. faults = 1 /\ s[Len(s)] = DeleteWebsiteRow(undone)
        BY <3>4, <3>7, <3>8
      <4>2. Len(s) # 1
        <5> SUFFICES ASSUME Len(s) = 1 PROVE FALSE
          OBVIOUS
        <5>1. x = DeleteWebsiteRow(undone)
          BY <3>2, <4>1
        <5>2. x.op = "deleteWebsite" /\ x.id = undone
          BY <5>1 DEF DeleteWebsiteRow
        <5>3. db' = Delete(db, "websites", undone)
          BY <5>2, StatementEffect
        <5>4. undone \notin DOMAIN db'.websites
          BY <1>1, <5>3, DeleteFacts DEF RowTables
        <5> QED
          BY <3>8, <5>4
      <4>3. Len(t) \in DOMAIN t /\ Len(t) + 1 = Len(s) /\ t # <<>>
        <5>1. Len(t) # 0 /\ Len(t) \in 1 .. Len(s) - 1 /\ Len(t) + 1 = Len(s)
          BY <3>2, <4>2
        <5> QED
          BY <3>2, <5>1
      <4> QED
        BY <3>2, <4>1, <4>3
    <3> QED
      BY <1>3, <1>6, <3>3, <3>5, <3>8 DEF Undoing
  <2> QED
    BY <1>2, <2>4, <2>5
<1> QED
  BY <1>3, <1>4, <1>5, <1>6

LEMMA UndoNext ==
  ASSUME Inv, UndoInv, [Next]_vars
  PROVE  UndoInv'
<1> SUFFICES ASSUME undone' # 0, faults' <= 1
             PROVE  Undoing(undone', todo'["main"], db'.websites, faults')
  BY DEF UndoInv, Undoing
<1>1. faults \in Nat
  BY DEF Inv, TypeInv, TypeOK
<1>2. ASSUME NEW c \in Connections, Fault(c)
      PROVE  Undoing(undone', todo'["main"], db'.websites, faults')
  <2>1. todo[c] # <<>> /\ Fail(c) /\ faults' = faults + 1
    BY <1>2 DEF Fault
  <2>2. faults' # faults /\ faults' \in {faults, faults + 1}
    BY <1>1, <2>1
  <2> QED
    BY <2>1, <2>2, FailUndoes
<1>3. CASE (\E s : Accept(s)) \/ ImportNew \/ Restart
  BY <1>3 DEF Accept, ImportNew, Restart
<1>4. CASE Quiet
  <2>1. undone' = undone /\ UNCHANGED <<todo, faults>> /\ db'.websites = db.websites
    BY <1>4 DEF Quiet, SameLists
  <2>2. Undoing(undone, todo["main"], db.websites, faults)
    BY <2>1 DEF UndoInv, Undoing
  <2> QED
    BY <2>1, <2>2
<1> QED
  BY <1>2, <1>3, <1>4, ExecuteUndoes, Steps

LEMMA UndoInvariance == Spec => []UndoInv
<1>1. Init => UndoInv
  BY DEF Init, UndoInv
<1>2. Inv /\ UndoInv /\ [Next]_vars => UndoInv'
  BY UndoNext
<1> QED
  BY <1>1, <1>2, Invariance, PTL DEF Spec

-----------------------------------------------------------------------------
(* What the server promises.                                                *)

\* The database stays one: rows have the IDs and values of their tables, AUTO_INCREMENT
\* is ahead of them, foreign keys hold, workers only add lists (Main::Database).
THEOREM TypeCorrect == Spec => []TypeInv
<1>1. Inv => TypeInv
  BY DEF Inv
<1> QED
  BY <1>1, Invariance, PTL

\* Nothing that a module thread uses is deleted or renamed, whatever fails in between
\* (cmdDeleteWebsite(), cmdDeleteUrlList(), the undoing in addWebsite()).
THEOREM UsedDataIsKept == Spec => []UsedDataExists
<1>1. Inv => UsedDataExists
  BY DEF Inv, UseInv
<1> QED
  BY <1>1, Invariance, PTL

\* Two websites never share a namespace (isWebsiteNamespace()).
THEOREM NamespacesStayUnique == Spec => []WebsiteNamespacesAreUnique
<1>1. Inv => WebsiteNamespacesAreUnique
  BY DEF Inv, UseInv
<1> QED
  BY <1>1, Invariance, PTL

\* A restart continues the threads the server had, and only those (initThreads()).
THEOREM RowsKeepThreads == Spec => []RowsHaveThreads
<1>1. Inv => RowsHaveThreads
  BY DEF Inv, RowInv
<1> QED
  BY <1>1, Invariance, PTL

\* A website whose default URL list could not be added is gone when the command is
\* over, unless its deletion has failed, too (Server::cmdAddWebsite(), Database::addWebsite()).
THEOREM FailedWebsitesGo == Spec => []FailedWebsitesAreGone
<1>1. Inv /\ UndoInv => FailedWebsitesAreGone
  BY DEF UndoInv, FailedWebsitesAreGone, Idle
<1> QED
  BY <1>1, Invariance, UndoInvariance, PTL

\* If no two pairs of namespaces make the same table name, nothing is left behind: without
\* a fault and without a command between the statements of a worker the tables are those
\* of the URL lists whenever all commands are over, and failed websites are gone.
THEOREM TablesFollowLists == NamesAreUnambiguous => (Spec => []NothingIsLeftBehind)
<1> SUFFICES ASSUME NamesAreUnambiguous PROVE Spec => []NothingIsLeftBehind
  OBVIOUS
<1>1. Inv /\ TablesInv /\ [Next]_vars => TablesInv'
  BY TablesNext
<1>2. TablesInv => TablesAreThoseOfLists
  BY NothingLeft DEF TablesAreThoseOfLists, Idle, Names
<1>3. TablesAreThoseOfLists /\ FailedWebsitesAreGone => NothingIsLeftBehind
  BY DEF NothingIsLeftBehind
<1> QED
  BY <1>1, <1>2, <1>3, TablesInit, Invariance, FailedWebsitesGo, PTL DEF Spec
=============================================================================
