--------------------------- MODULE LockOrderProofs ---------------------------
(*****************************************************************************)
(* The commands of LockOrder take their locks in the order of Level, the     *)
(* two known exceptions aside. Along a circle of processes that wait for     *)
(* each other the level of the lock that is waited for would rise for        *)
(* ever.                                                                     *)
(*****************************************************************************)
EXTENDS LockOrder, SequenceTheorems, WellFoundedInduction, TLAPS

Lock == LockKinds \X (Numbers \cup {0})

\* The levels of one kind of lock begin at a multiple of W.
W == MaxNumber + 1
Base == [project |-> 0, update |-> W, task |-> W, apply |-> 2 * W, assisted |-> 2 * W,
         session |-> 4 * W, new |-> 5 * W, governance |-> 6 * W, mutations |-> 7 * W,
         file |-> 8 * W, lessons |-> 9 * W, adoption |-> 9 * W, journal |-> 10 * W,
         checkpoint |-> 11 * W, index |-> 12 * W, ledger |-> 13 * W, database |-> 14 * W,
         lease |-> 15 * W, drain |-> 15 * W, nothing |-> 15 * W]
Level(l) == Base[l[1]] + l[2]

\* The j-th lock of c is that of a session that the command has just created.
Created(c, j) ==
  /\ j > 1 /\ c[j][1] = "session"
  /\ c[j - 1] = NewLock \/ (c[j - 1][1] = "session" /\ c[j - 1][2] >= c[j][2])

\* Leases aside, locks are taken by rising level; only a copy follows the lock of the database.
Ordered(c) ==
  /\ \A i, j \in 1..Len(c) : i < j /\ c[i] # Lease /\ c[j] \notin {Lease, Drain} =>
       Level(c[i]) < Level(c[j]) \/ Created(c, j)
  /\ \A i \in 1..Len(c) : c[i] = Database => Len(c) = i + 1 /\ c[i + 1] = Drain
  /\ \A i \in 1..Len(c) : c[i] # Nothing
Good(c) == c \in Seq(Lock) /\ Ordered(c)

Below(c, k) == \A i \in 1..Len(c) : Level(c[i]) < k
Above(c, k) == \A i \in 1..Len(c) : Level(c[i]) >= k

LEMMA Width == W \in Int /\ W >= 1
  BY NumberOfNames DEF W

USE Width

LEMMA LevelIsNumber ==
  ASSUME NEW l \in Lock PROVE Level(l) \in Int /\ Level(l) >= 0 /\ Level(l) < 16 * W
  <1>1. l[1] \in LockKinds /\ l[2] \in Int /\ 0 <= l[2] /\ l[2] < W
    <2>1. l[1] \in LockKinds /\ l[2] \in Numbers \cup {0}
      BY DEF Lock
    <2>2. \A n \in Numbers \cup {0} : n \in Int /\ 0 <= n /\ n < W
      BY NumberOfNames DEF Numbers, W
    <2>3. QED
      BY <2>1, <2>2
  <1>2. Base[l[1]] \in Int /\ Base[l[1]] >= 0 /\ Base[l[1]] <= 15 * W
    BY <1>1, Width DEF Base, LockKinds
  <1>3. QED
    BY <1>1, <1>2, Width DEF Level

LEMMA LevelsAreIntegers ==
  \A l \in Lock : Level(l) \in Int /\ Level(l) >= 0 /\ Level(l) < 16 * W
  BY LevelIsNumber

\* The least-number principle, from the library's theorem that < is well-founded.
Smaller == {pair \in Nat \X Nat : pair[1] < pair[2]}

LEMMA LeastNatural ==
  ASSUME NEW S \in SUBSET Nat, S # {}
  PROVE  \E m \in S : \A n \in S : m <= n
  <1>1. IsWellFoundedOn(Smaller, Nat)
    <2>1. OpToRel(<, Nat) = Smaller
      BY Zenon DEF OpToRel, Smaller
    <2>2. QED
      BY <2>1, NatLessThanWellFounded, Zenon
  <1>2. S \subseteq Nat
    OBVIOUS
  <1>3. PICK m \in S : \A n \in S : <<n, m>> \notin Smaller
    BY <1>1, WFMin
  <1>4. ASSUME NEW n \in S PROVE m <= n
    <2>1. n \in Nat /\ m \in Nat /\ ~(n < m)
      BY <1>2, <1>3 DEF Smaller
    <2>2. QED
      BY <2>1
  <1>5. QED
    BY <1>4

LEMMA OneLock ==
  ASSUME NEW l \in Lock, l \notin {Nothing, Database}
  PROVE  /\ Good(<<l>>)
         /\ \A k \in Int : Level(l) < k => Below(<<l>>, k)
         /\ \A k \in Int : k <= Level(l) => Above(<<l>>, k)
  <1>1. <<l>> \in Seq(Lock) /\ Len(<<l>>) = 1 /\ <<l>>[1] = l
    OBVIOUS
  <1>2. QED
    BY <1>1 DEF Good, Ordered, Below, Above

\* A second part all of whose locks rank above those of the first.
LEMMA Join ==
  ASSUME NEW a, NEW b, NEW k \in Int, k <= 13 * W, Good(a), Good(b), Below(a, k), Above(b, k)
  PROVE  /\ Good(a \o b)
         /\ \A m \in Int : k <= m /\ Below(b, m) => Below(a \o b, m)
  <1> DEFINE c == a \o b
  <1>1. a \in Seq(Lock) /\ b \in Seq(Lock)
    BY DEF Good
  <1>2. /\ c \in Seq(Lock) /\ Len(c) = Len(a) + Len(b)
        /\ \A i \in 1..Len(c) : c[i] = IF i <= Len(a) THEN a[i] ELSE b[i - Len(a)]
    BY <1>1, ConcatProperties
  <1>3. Len(a) \in Nat /\ Len(b) \in Nat
    BY <1>1
  <1> HIDE DEF c
  <1>4. ASSUME NEW i \in 1..Len(c), NEW j \in 1..Len(c), i < j,
               c[i] # Lease, c[j] \notin {Lease, Drain}
        PROVE  Level(c[i]) < Level(c[j]) \/ Created(c, j)
    <2>1. CASE j <= Len(a)
      <3>1. i \in 1..Len(a) /\ j \in 1..Len(a) /\ c[i] = a[i] /\ c[j] = a[j]
        BY <2>1, <1>2, <1>3, <1>4
      <3>2. Level(c[i]) < Level(c[j]) \/ Created(a, j)
        BY <3>1, <1>4 DEF Good, Ordered
      <3>3. j > 1 => c[j - 1] = a[j - 1]
        BY <3>1, <1>2, <1>3
      <3>4. QED
        BY <3>1, <3>2, <3>3 DEF Created
    <2>2. CASE i > Len(a)
      <3>1. /\ i - Len(a) \in 1..Len(b) /\ j - Len(a) \in 1..Len(b) /\ i - Len(a) < j - Len(a)
            /\ c[i] = b[i - Len(a)] /\ c[j] = b[j - Len(a)] /\ c[j - 1] = b[j - Len(a) - 1]
        <4>1. /\ i \in Int /\ j \in Int /\ i < j /\ Len(a) < i /\ j <= Len(c)
              /\ j - 1 \in 1..Len(c) /\ Len(a) < j - 1
          BY <2>2, <1>2, <1>3, <1>4
        <4>2. c[i] = b[i - Len(a)] /\ c[j] = b[j - Len(a)]
          BY <4>1, <1>2, <1>3
        <4>3. c[j - 1] = b[(j - 1) - Len(a)] /\ (j - 1) - Len(a) = j - Len(a) - 1
          BY <4>1, <1>2, <1>3
        <4>4. QED
          BY <4>1, <4>2, <4>3, <1>2, <1>3
      <3>2. Level(c[i]) < Level(c[j]) \/ Created(b, j - Len(a))
        BY <3>1, <1>4 DEF Good, Ordered
      <3>3. QED
        BY <3>1, <3>2, <1>3 DEF Created
    <2>3. CASE i <= Len(a) /\ j > Len(a)
      <3>1. /\ i \in 1..Len(a) /\ j - Len(a) \in 1..Len(b)
            /\ c[i] = a[i] /\ c[j] = b[j - Len(a)]
        BY <2>3, <1>2, <1>3
      <3>2. Level(c[i]) < k /\ k <= Level(c[j])
        BY <3>1 DEF Below, Above
      <3>3. Level(c[i]) \in Int /\ Level(c[j]) \in Int
        <4>1. c[i] \in Lock /\ c[j] \in Lock
          BY <1>2, ElementOfSeq
        <4>2. QED
          BY <4>1, LevelsAreIntegers
      <3>4. QED
        BY <3>2, <3>3
    <2>4. QED
      BY <2>1, <2>2, <2>3, <1>2, <1>3
  <1>5. ASSUME NEW i \in 1..Len(c), c[i] = Database
        PROVE  Len(c) = i + 1 /\ c[i + 1] = Drain
    <2>1. Level(Database) = 14 * W
      BY DEF Level, Base, Database, Only
    <2>2. i > Len(a)
      BY <1>2, <1>3, <1>5, <2>1 DEF Below
    <2>3. i - Len(a) \in 1..Len(b) /\ b[i - Len(a)] = Database
      BY <2>2, <1>2, <1>3, <1>5
    <2>4. Len(b) = i - Len(a) + 1 /\ b[i - Len(a) + 1] = Drain
      BY <2>3 DEF Good, Ordered
    <2>5. QED
      BY <2>2, <2>4, <1>2, <1>3
  <1>6. ASSUME NEW i \in 1..Len(c) PROVE c[i] # Nothing
    BY <1>2, <1>3, SMTT(30) DEF Good, Ordered
  <1>7. ASSUME NEW m \in Int, k <= m, Below(b, m) PROVE Below(c, m)
    <2>1. ASSUME NEW i \in 1..Len(c) PROVE Level(c[i]) < m
      <3>1. CASE i <= Len(a)
        <4>1. c[i] \in Lock
          BY <1>2, ElementOfSeq
        <4>2. Level(c[i]) \in Int
          BY <4>1, LevelsAreIntegers
        <4>3. Level(c[i]) < k
          BY <3>1, <1>2, <1>3 DEF Below
        <4>4. QED
          BY <4>2, <4>3, <1>7
      <3>2. CASE i > Len(a)
        BY <3>2, <1>2, <1>3, <1>7, SMTT(30) DEF Below
      <3>3. QED
        BY <3>1, <3>2, <1>2, <1>3
    <2>2. QED
      BY <2>1 DEF Below
  <1>8. QED
    BY <1>2, <1>4, <1>5, <1>6, <1>7 DEF Good, Ordered, c

-----------------------------------------------------------------------------
(* The sequences that the commands are made of.                            *)

LEMMA Levels ==
  /\ Level(Project) = 0 /\ Level(Update) = W /\ Level(Apply) = 2 * W /\ Level(Assisted) = 2 * W
  /\ Level(NewLock) = 5 * W /\ Level(Governance) = 6 * W /\ Level(Mutations) = 7 * W /\ Level(Lessons) = 9 * W
  /\ Level(Adoption) = 9 * W /\ Level(Journal) = 10 * W /\ Level(Checkpoint) = 11 * W
  /\ Level(Index) = 12 * W /\ Level(Ledger) = 13 * W /\ Level(Database) = 14 * W
  BY DEF Level, Base, Only, Project, Update, Apply, Assisted, NewLock, Governance, Mutations, Lessons,
         Adoption, Journal, Checkpoint, Index, Ledger, Database

LEMMA Singles ==
  {Project, Update, Apply, Assisted, NewLock, Governance, Mutations, Lessons, Adoption, Journal,
   Checkpoint, Index, Ledger, Database, Lease, Drain} \subseteq Lock
  BY DEF Lock, LockKinds, Only, Project, Update, Apply, Assisted, NewLock, Governance, Mutations,
         Lessons, Adoption, Journal, Checkpoint, Index, Ledger, Database, Lease, Drain

LEMMA NumberedLevels ==
  ASSUME NEW n \in Numbers
  PROVE  /\ Session(n) \in Lock /\ Level(Session(n)) = 4 * W + n
         /\ Task(n) \in Lock /\ Level(Task(n)) = W + n
         /\ FileLock(n) \in Lock /\ Level(FileLock(n)) = 8 * W + n
         /\ n \in Int /\ 0 <= n /\ n < W
  BY NumberOfNames DEF Lock, LockKinds, Level, Base, Session, Task, FileLock, Numbers, W

\* Two locks one above the other.
LEMMA TwoLocks ==
  ASSUME NEW l \in Lock, NEW m \in Lock, {l, m} \cap {Nothing, Database} = {},
         Level(l) < Level(m) \/ Created(<<l, m>>, 2)
  PROVE  /\ Good(<<l, m>>)
         /\ \A k \in Int : Level(l) < k /\ Level(m) < k => Below(<<l, m>>, k)
         /\ \A k \in Int : k <= Level(l) /\ k <= Level(m) => Above(<<l, m>>, k)
  <1> DEFINE c == <<l, m>>
  <1>1. c \in Seq(Lock) /\ Len(c) = 2 /\ c[1] = l /\ c[2] = m
    OBVIOUS
  <1>2. \A i \in 1..2 : i = 1 \/ i = 2
    OBVIOUS
  <1> HIDE DEF c
  <1>3. Level(c[1]) < Level(c[2]) \/ Created(c, 2)
    BY <1>1 DEF c
  <1>4. Good(c)
    <2>1. \A i \in 1..2 : c[i] \notin {Nothing, Database}
      BY <1>1, <1>2
    <2>2. \A i, j \in 1..2 : i < j => i = 1 /\ j = 2
      BY <1>2
    <2>3. \A i, j \in 1..2 : i < j => Level(c[i]) < Level(c[j]) \/ Created(c, j)
      BY <2>2, <1>3
    <2>4. QED
      BY <2>1, <2>3, <1>1 DEF Good, Ordered
  <1>5. \A k \in Int : Level(l) < k /\ Level(m) < k => Below(c, k)
    BY <1>1, <1>2 DEF Below
  <1>6. \A k \in Int : k <= Level(l) /\ k <= Level(m) => Above(c, k)
    BY <1>1, <1>2 DEF Above
  <1>7. QED
    BY <1>4, <1>5, <1>6 DEF c

LEMMA SortedIsGood ==
  ASSUME NEW kind \in {"task", "session", "file"}, NEW c \in Sorted(kind)
  PROVE  Good(c) /\ Below(c, Base[kind] + W) /\ Above(c, Base[kind])
  <1>1. Base[kind] \in Int /\ Base[kind] <= 8 * W /\ kind \in LockKinds
    BY DEF Base, LockKinds
  <1>2. ASSUME NEW n \in Numbers
        PROVE  /\ <<kind, n>> \in Lock /\ Level(<<kind, n>>) = Base[kind] + n /\ n \in Int /\ 0 <= n /\ n < W
               /\ <<kind, n>> \notin {Nothing, Database}
    BY <1>1, NumberOfNames DEF Lock, Level, Nothing, Database, Only, Numbers, W
  <1>3. CASE \E n \in Numbers : c = << <<kind, n>> >>
    <2>1. PICK n \in Numbers : c = << <<kind, n>> >>
      BY <1>3
    <2>2. Level(<<kind, n>>) < Base[kind] + W /\ Base[kind] <= Level(<<kind, n>>)
      BY <1>1, <1>2
    <2>3. QED
      BY <2>1, <2>2, <1>1, <1>2, OneLock
  <1>4. CASE \E m \in Numbers \X Numbers : m[1] < m[2] /\ c = << <<kind, m[1]>>, <<kind, m[2]>> >>
    <2>1. PICK m \in Numbers \X Numbers : m[1] < m[2] /\ c = << <<kind, m[1]>>, <<kind, m[2]>> >>
      BY <1>4
    <2> DEFINE a == <<kind, m[1]>>
               b == <<kind, m[2]>>
    <2>2. m[1] \in Numbers /\ m[2] \in Numbers
      OBVIOUS
    <2>3. /\ a \in Lock /\ b \in Lock /\ {a, b} \cap {Nothing, Database} = {}
          /\ Level(a) = Base[kind] + m[1] /\ Level(b) = Base[kind] + m[2]
          /\ m[1] \in Int /\ 0 <= m[1] /\ m[1] < W /\ m[2] \in Int /\ 0 <= m[2] /\ m[2] < W
      BY <2>2, <1>2
    <2>4. c = <<a, b>>
      BY <2>1
    <2> HIDE DEF a, b
    <2>5. /\ Level(a) < Level(b) /\ Level(a) < Base[kind] + W /\ Level(b) < Base[kind] + W
          /\ Base[kind] <= Level(a) /\ Base[kind] <= Level(b)
      BY <2>1, <2>3, <1>1
    <2>6. QED
      BY <2>3, <2>4, <2>5, <1>1, TwoLocks
  <1>5. QED
    BY <1>3, <1>4 DEF Sorted

\* Every sequence that ranks below the index may end with telling the session's events.
LEMMA ToldIsGood ==
  ASSUME NEW outer, Good(outer), Below(outer, 12 * W), NEW c \in Told(outer)
  PROVE  Good(c)
  <1>1. Ledger \in Lock /\ Index \in Lock /\ {Ledger, Index} \cap {Nothing, Database} = {}
    BY Singles DEF Ledger, Index, Nothing, Database, Only
  <1>2. Good(<<Ledger>>) /\ Above(<<Ledger>>, 12 * W)
    <2>1. 12 * W <= Level(Ledger) /\ 12 * W \in Int
      BY Levels
    <2>2. Ledger \notin {Nothing, Database}
      BY <1>1
    <2>3. QED
      BY <1>1, <2>1, <2>2, OneLock
  <1>3. Good(<<Index, Ledger>>) /\ Above(<<Index, Ledger>>, 12 * W)
    BY <1>1, TwoLocks, Levels
  <1>4. Good(outer \o <<Ledger>>)
    BY <1>2, Join
  <1>5. Good(outer \o <<Index, Ledger>>)
    BY <1>3, Join
  <1>6. QED
    BY <1>4, <1>5 DEF Told

-----------------------------------------------------------------------------
(* The commands, one by one.                                               *)

LEMMA SessionAlone ==
  ASSUME NEW s \in Numbers
  PROVE  Good(<<Session(s)>>) /\ Below(<<Session(s)>>, 5 * W) /\ Below(<<Session(s)>>, 12 * W)
           /\ Above(<<Session(s)>>, 4 * W)
  <1>1. Session(s) \in Lock /\ Session(s) \notin {Nothing, Database}
    BY NumberedLevels DEF Session, Nothing, Database, Only
  <1>2. 4 * W <= Level(Session(s)) /\ Level(Session(s)) < 5 * W /\ Level(Session(s)) < 12 * W
    BY NumberedLevels
  <1>3. QED
    BY <1>1, <1>2, OneLock

LEMMA TaskCommandsGood == \A c \in TaskCommands : Good(c)
  BY SessionAlone, ToldIsGood DEF TaskCommands

LEMMA DoneCommandsGood == \A c \in DoneCommands : Good(c)
  <1>1. ASSUME NEW ts \in Sorted("task"), NEW s \in Numbers
        PROVE  Good(ts \o <<Session(s)>>) /\ Below(ts \o <<Session(s)>>, 12 * W)
    <2>1. Good(ts) /\ Below(ts, 2 * W)
      <3>1. Base["task"] = W
        BY DEF Base
      <3>2. QED
        BY <3>1, SortedIsGood
    <2>2. Below(ts, 4 * W)
      <3>1. \A i \in 1..Len(ts) : ts[i] \in Lock
        BY <2>1, ElementOfSeq DEF Good
      <3>2. QED
        BY <2>1, <3>1, LevelsAreIntegers DEF Below
    <2>3. QED
      BY <2>1, <2>2, SessionAlone, Join
  <1>2. ASSUME NEW c \in DoneCommands PROVE Good(c)
    <2>1. PICK ts \in Sorted("task"), s \in Numbers : c \in Told(ts \o <<Session(s)>>)
      BY <1>2 DEF DoneCommands
    <2>2. QED
      BY <2>1, <1>1, ToldIsGood
  <1>3. QED
    BY <1>2

\* The lock of a session under another: that of a session that has just been created.
LEMMA SessionUnder ==
  ASSUME NEW s \in Numbers, NEW l \in {NewLock} \cup {Session(t) : t \in Numbers}
  PROVE  Good(<<l, Session(s)>>) /\ Below(<<l, Session(s)>>, 12 * W)
  <1>1. /\ Session(s) \in Lock /\ Level(Session(s)) < 12 * W /\ Session(s)[1] = "session"
        /\ Session(s)[2] = s /\ Level(Session(s)) = 4 * W + s /\ s \in Int
    BY NumberedLevels DEF Session
  <1>2. l \in Lock /\ Level(l) < 12 * W /\ {l, Session(s)} \cap {Nothing, Database} = {}
    BY Singles, Levels, NumberedLevels DEF NewLock, Session, Nothing, Database, Only
  <1>3. Level(l) < Level(Session(s)) \/ Created(<<l, Session(s)>>, 2)
    <2>1. CASE l = NewLock
      BY <2>1, <1>1 DEF Created
    <2>2. CASE \E t \in Numbers : l = Session(t)
      <3>1. PICK t \in Numbers : l = Session(t)
        BY <2>2
      <3>2. l[1] = "session" /\ l[2] = t /\ Level(l) = 4 * W + t /\ t \in Int
        BY <3>1, NumberedLevels DEF Session
      <3>3. t < s \/ t >= s
        BY <3>2, <1>1
      <3>4. QED
        BY <3>2, <3>3, <1>1 DEF Created
    <2>3. QED
      BY <2>1, <2>2
  <1>4. QED
    BY <1>1, <1>2, <1>3, TwoLocks

LEMMA NewSessionGood == \A c \in NewSession : Good(c)
  <1>1. Good(<<NewLock, Governance>>)
    <2>1. {NewLock, Governance} \cap {Nothing, Database} = {}
      BY DEF NewLock, Governance, Nothing, Database, Only
    <2>2. QED
      BY <2>1, Singles, Levels, TwoLocks
  <1>2. QED
    BY <1>1, SessionUnder, ToldIsGood DEF NewSession

\* Three locks, the leases among them aside by rising level.
LEMMA ThreeLocks ==
  ASSUME NEW l \in Lock, NEW m \in Lock, NEW n \in Lock,
         {l, m, n} \cap {Nothing, Database, Drain} = {},
         l = Lease \/ m = Lease \/ Level(l) < Level(m),
         l = Lease \/ n = Lease \/ Level(l) < Level(n),
         m = Lease \/ n = Lease \/ Level(m) < Level(n)
  PROVE  /\ Good(<<l, m, n>>)
         /\ \A k \in Int : Level(l) < k /\ Level(m) < k /\ Level(n) < k => Below(<<l, m, n>>, k)
  <1> DEFINE c == <<l, m, n>>
  <1>1. c \in Seq(Lock) /\ Len(c) = 3 /\ c[1] = l /\ c[2] = m /\ c[3] = n
    OBVIOUS
  <1>2. \A i \in 1..3 : i = 1 \/ i = 2 \/ i = 3
    OBVIOUS
  <1> HIDE DEF c
  <1>3. \A i \in 1..3 : c[i] \notin {Nothing, Database, Drain}
    BY <1>1, <1>2
  <1>4. \A i, j \in 1..3 : i < j => c[i] = Lease \/ c[j] = Lease \/ Level(c[i]) < Level(c[j])
    BY <1>1, <1>2
  <1>5. Good(c)
    BY <1>1, <1>3, <1>4 DEF Good, Ordered
  <1>6. \A k \in Int : Level(l) < k /\ Level(m) < k /\ Level(n) < k => Below(c, k)
    BY <1>1, <1>2 DEF Below
  <1>7. QED
    BY <1>5, <1>6 DEF c

LEMMA CloseSessionGood == \A c \in CloseSession : Good(c)
  <1>1. ASSUME NEW s \in Numbers, NEW t \in Numbers
        PROVE  /\ \A c \in Told(<<Session(s)>>) \cup Told(<<Session(s), Session(t)>>) : Good(c)
               /\ Good(<<Session(s), NewLock>>) /\ Good(<<Session(s), Lease, Journal>>)
    <2>1. \A c \in Told(<<Session(s)>>) \cup Told(<<Session(s), Session(t)>>) : Good(c)
      BY SessionAlone, SessionUnder, ToldIsGood
    <2>2. /\ {Session(s), NewLock, Lease, Journal} \subseteq Lock
          /\ {Session(s), NewLock, Lease, Journal} \cap {Nothing, Database, Drain} = {}
      BY Singles, NumberedLevels DEF Session, NewLock, Lease, Journal, Nothing, Database, Drain, Only
    <2>3. Level(Session(s)) < Level(NewLock) /\ Level(Session(s)) < Level(Journal)
      BY NumberedLevels, Levels
    <2>4. Good(<<Session(s), NewLock>>)
      BY <2>2, <2>3, TwoLocks
    <2>5. Good(<<Session(s), Lease, Journal>>)
      BY <2>2, <2>3, ThreeLocks
    <2>6. QED
      BY <2>1, <2>4, <2>5
  <1>2. ASSUME NEW c \in CloseSession PROVE Good(c)
    <2>1. PICK s \in Numbers, t \in Numbers :
            c \in Told(<<Session(s)>>) \cup Told(<<Session(s), Session(t)>>)
                   \cup {<<Session(s), NewLock>>, <<Session(s), Lease, Journal>>}
      BY <1>2 DEF CloseSession
    <2>2. QED
      BY <2>1, <1>1
  <1>3. QED
    BY <1>2

LEMMA ArchiveSessionsGood == \A c \in ArchiveSessions : Good(c)
  <1>1. ASSUME NEW ss \in Sorted("session")
        PROVE  (\A c \in Told(ss) : Good(c)) /\ Good(ss \o <<Adoption>>)
    <2>1. Good(ss) /\ Below(ss, 5 * W)
      <3>1. Base["session"] = 4 * W
        BY DEF Base
      <3>2. QED
        BY <3>1, SortedIsGood
    <2>2. Below(ss, 9 * W) /\ Below(ss, 12 * W)
      <3>1. \A i \in 1..Len(ss) : ss[i] \in Lock
        BY <2>1, ElementOfSeq DEF Good
      <3>2. QED
        BY <2>1, <3>1, LevelsAreIntegers DEF Below
    <2>3. Good(<<Adoption>>) /\ Above(<<Adoption>>, 9 * W)
      <3>1. Adoption \in Lock /\ Adoption \notin {Nothing, Database}
        BY Singles DEF Adoption, Nothing, Database, Only
      <3>2. QED
        BY <3>1, Levels, OneLock
    <2>4. QED
      BY <2>1, <2>2, <2>3, Join, ToldIsGood
  <1>2. ASSUME NEW c \in ArchiveSessions PROVE Good(c)
    <2>1. PICK ss \in Sorted("session") : c \in Told(ss) \cup {ss \o <<Adoption>>}
      BY <1>2 DEF ArchiveSessions
    <2>2. QED
      BY <2>1, <1>1
  <1>3. QED
    BY <1>2

\* Files are locked below the journal of mutations.
LEMMA FilesAreGood ==
  ASSUME NEW fs \in Sorted("file")
  PROVE  Good(fs) /\ Below(fs, 9 * W) /\ Above(fs, 8 * W)
  <1>1. Base["file"] = 8 * W
    BY DEF Base
  <1>2. QED
    BY <1>1, SortedIsGood

LEMMA FileCommandsGood == \A c \in FileCommands \cup UpdateCommands : Good(c)
  <1>1. ASSUME NEW l \in Lock, NEW m \in Lock, Level(l) < Level(m), Level(m) < 7 * W,
               {l, m} \cap {Nothing, Database, Drain, Lease} = {}, NEW fs \in Sorted("file")
        PROVE  Good(<<l, m, Mutations>> \o fs)
    <2>1. Mutations \in Lock /\ Mutations \notin {Nothing, Database, Drain, Lease}
      BY Singles DEF Mutations, Nothing, Database, Drain, Lease, Only
    <2>2. Level(l) \in Int /\ Level(m) \in Int /\ Level(Mutations) = 7 * W
      BY LevelsAreIntegers, Levels
    <2>3. Good(<<l, m, Mutations>>) /\ Below(<<l, m, Mutations>>, 8 * W)
      <3>1. {l, m, Mutations} \cap {Nothing, Database, Drain} = {}
        BY <1>1, <2>1
      <3>2. Level(l) < Level(Mutations) /\ Level(m) < Level(Mutations) /\ Level(l) < 8 * W
              /\ Level(m) < 8 * W /\ Level(Mutations) < 8 * W
        BY <1>1, <2>2
      <3>3. QED
        BY <1>1, <2>1, <3>1, <3>2, ThreeLocks
    <2>4. QED
      BY <2>3, FilesAreGood, Join
  <1>2. ASSUME NEW s \in Numbers, NEW fs \in Sorted("file")
        PROVE  Good(<<Project, Session(s), Mutations>> \o fs)
    <2>1. /\ {Project, Session(s)} \subseteq Lock
          /\ {Project, Session(s)} \cap {Nothing, Database, Drain, Lease} = {}
      BY Singles, NumberedLevels DEF Project, Session, Nothing, Database, Drain, Lease, Only
    <2>2. Level(Project) < Level(Session(s)) /\ Level(Session(s)) < 7 * W
      BY NumberedLevels, Levels
    <2>3. QED
      BY <2>1, <2>2, <1>1
  <1>3. ASSUME NEW fs \in Sorted("file")
        PROVE  Good(<<Project, Update, Mutations>> \o fs)
    <2>1. /\ {Project, Update} \subseteq Lock
          /\ {Project, Update} \cap {Nothing, Database, Drain, Lease} = {}
      BY Singles DEF Project, Update, Nothing, Database, Drain, Lease, Only
    <2>2. Level(Project) < Level(Update) /\ Level(Update) < 7 * W
      BY Levels
    <2>3. QED
      BY <2>1, <2>2, <1>1
  <1>4. ASSUME NEW c \in FileCommands PROVE Good(c)
    <2> DEFINE G(s, fs) == <<Project, Session(s), Mutations>> \o fs
    <2>1. FileCommands = {G(s, fs) : s \in Numbers, fs \in Sorted("file")}
      BY DEF FileCommands
    <2>2. \A s \in Numbers, fs \in Sorted("file") : Good(G(s, fs))
      BY <1>2
    <2> HIDE DEF G
    <2>3. QED
      BY <2>1, <2>2, <1>4
  <1>5. ASSUME NEW c \in UpdateCommands PROVE Good(c)
    <2>1. PICK fs \in Sorted("file") : c = <<Project, Update, Mutations>> \o fs
      BY <1>5 DEF UpdateCommands
    <2>2. QED
      BY <2>1, <1>3
  <1>6. QED
    BY <1>4, <1>5

LEMMA AssistedCommandsGood == \A c \in AssistedCommands : Good(c)
  <1>1. ASSUME NEW fs \in Sorted("file") PROVE Good(<<Assisted, Mutations>> \o fs \o <<Lessons>>)
    <2>1. Good(<<Assisted, Mutations>>) /\ Below(<<Assisted, Mutations>>, 8 * W)
      <3>1. {Assisted, Mutations} \cap {Nothing, Database} = {}
        BY DEF Assisted, Mutations, Nothing, Database, Only
      <3>2. QED
        BY <3>1, Singles, Levels, TwoLocks
    <2>2. Good(<<Assisted, Mutations>> \o fs) /\ Below(<<Assisted, Mutations>> \o fs, 9 * W)
      BY <2>1, FilesAreGood, Join
    <2>3. Good(<<Lessons>>) /\ Above(<<Lessons>>, 9 * W)
      <3>1. Lessons \in Lock /\ Lessons \notin {Nothing, Database}
        BY Singles DEF Lessons, Nothing, Database, Only
      <3>2. QED
        BY <3>1, Levels, OneLock
    <2>4. QED
      BY <2>2, <2>3, Join
  <1>2. QED
    BY <1>1 DEF AssistedCommands

\* A copy of evolution.db: its lock, and the wait for the leases.
LEMMA CopyIsGood ==
  Good(<<Database, Drain>>) /\ Above(<<Database, Drain>>, 13 * W) /\ Good(<<Apply, Database, Drain>>)
  <1> DEFINE d == <<Database, Drain>>
             a == <<Apply, Database, Drain>>
  <1>1. {Apply, Database, Drain} \subseteq Lock
    BY Singles
  <1>2. Database # Drain /\ Apply # Database /\ Nothing \notin {Apply, Database, Drain}
    BY DEF Apply, Database, Drain, Nothing, Only
  <1>3. Level(Apply) < Level(Database) /\ Level(Database) = 14 * W /\ Level(Drain) = 15 * W
    BY Levels DEF Drain, Level, Base, Only
  <1>4. /\ d \in Seq(Lock) /\ Len(d) = 2 /\ d[1] = Database /\ d[2] = Drain
        /\ a \in Seq(Lock) /\ Len(a) = 3 /\ a[1] = Apply /\ a[2] = Database /\ a[3] = Drain
    BY <1>1
  <1>5. (\A i \in 1..2 : i = 1 \/ i = 2) /\ (\A i \in 1..3 : i = 1 \/ i = 2 \/ i = 3)
    OBVIOUS
  <1> HIDE DEF d, a
  <1>6. Good(d)
    BY <1>2, <1>4, <1>5 DEF Good, Ordered
  <1>7. Above(d, 13 * W)
    BY <1>3, <1>4, <1>5 DEF Above
  <1>8. Good(a)
    <2>1. \A i \in 1..3 : a[i] = Database => i = 2
      BY <1>2, <1>4, <1>5
    <2>2. \A i, j \in 1..3 : i < j /\ a[j] # Drain => i = 1 /\ j = 2
      BY <1>4, <1>5
    <2>3. \A i \in 1..3 : a[i] # Nothing
      BY <1>2, <1>4, <1>5
    <2>4. QED
      BY <2>1, <2>2, <2>3, <1>3, <1>4 DEF Good, Ordered
  <1>9. QED
    BY <1>6, <1>7, <1>8 DEF d, a

LEMMA EvolutionCommandsGood ==
  \A c \in ApplyCommands \cup EvaluateCommands \cup RepairCommand \cup JournalCommands
             \cup SnapshotCommands : Good(c)
  <1>1. /\ {Apply, Journal, Lease, Checkpoint, Mutations} \subseteq Lock
        /\ {Apply, Journal, Lease, Checkpoint, Mutations} \cap {Nothing, Database, Drain} = {}
    BY Singles DEF Apply, Journal, Lease, Checkpoint, Mutations, Nothing, Database, Drain, Only
  <1>2. /\ Good(<<Apply, Lease, Checkpoint>>) /\ Good(<<Journal, Lease, Checkpoint>>)
        /\ Good(<<Lease, Journal, Checkpoint>>)
    BY <1>1, Levels, ThreeLocks
  <1>3. Good(<<Apply, Journal, Lease, Checkpoint>>)
    <2> DEFINE c == <<Apply, Journal, Lease, Checkpoint>>
    <2>1. /\ c \in Seq(Lock) /\ Len(c) = 4
          /\ c[1] = Apply /\ c[2] = Journal /\ c[3] = Lease /\ c[4] = Checkpoint
      BY <1>1
    <2>2. \A i \in 1..4 : i = 1 \/ i = 2 \/ i = 3 \/ i = 4
      OBVIOUS
    <2> HIDE DEF c
    <2>3. \A i \in 1..4 : c[i] \notin {Nothing, Database, Drain}
      BY <2>1, <2>2, <1>1
    <2>4. \A i, j \in 1..4 : i < j => c[i] = Lease \/ c[j] = Lease \/ Level(c[i]) < Level(c[j])
      BY <2>1, <2>2, Levels, SMTT(30)
    <2>5. Good(c)
      BY <2>1, <2>3, <2>4 DEF Good, Ordered
    <2>6. QED
      BY <2>5 DEF c
  <1>4. ASSUME NEW f \in Numbers PROVE Good(<<Apply, Mutations, FileLock(f), Lease, Checkpoint>>)
    <2>1. FileLock(f) \in Lock /\ FileLock(f) \notin {Nothing, Database, Drain}
      BY NumberedLevels DEF FileLock, Nothing, Database, Drain, Only
    <2>2. Level(FileLock(f)) \in Int /\ 8 * W <= Level(FileLock(f)) /\ Level(FileLock(f)) < 9 * W
      BY NumberedLevels
    <2> DEFINE c == <<Apply, Mutations, FileLock(f), Lease, Checkpoint>>
    <2>3. /\ c \in Seq(Lock) /\ Len(c) = 5 /\ c[1] = Apply /\ c[2] = Mutations
          /\ c[3] = FileLock(f) /\ c[4] = Lease /\ c[5] = Checkpoint
      BY <1>1, <2>1
    <2>4. \A i \in 1..5 : i = 1 \/ i = 2 \/ i = 3 \/ i = 4 \/ i = 5
      OBVIOUS
    <2> HIDE DEF c
    <2>5. \A i \in 1..5 : c[i] \notin {Nothing, Database, Drain}
      BY <2>1, <2>3, <2>4, <1>1
    <2>6. \A i, j \in 1..5 : i < j => c[i] = Lease \/ c[j] = Lease \/ Level(c[i]) < Level(c[j])
      <3>1. /\ Level(c[1]) < Level(c[2]) /\ Level(c[2]) < Level(c[3]) /\ Level(c[3]) < Level(c[5])
            /\ Level(c[1]) < Level(c[3]) /\ Level(c[1]) < Level(c[5]) /\ Level(c[2]) < Level(c[5])
        BY <2>2, <2>3, Levels, SMTT(30)
      <3>2. QED
        BY <3>1, <2>3, <2>4
    <2>7. Good(c)
      BY <2>3, <2>5, <2>6 DEF Good, Ordered
    <2>8. QED
      BY <2>7 DEF c
  <1>5. ASSUME NEW s \in Numbers PROVE Good(<<Apply, Session(s)>>)
    <2>1. Session(s) \in Lock /\ Level(Apply) < Level(Session(s))
      BY NumberedLevels, Levels
    <2>2. {Apply, Session(s)} \cap {Nothing, Database} = {}
      BY <1>1 DEF Apply, Session, Nothing, Database, Only
    <2>3. QED
      BY <2>1, <2>2, <1>1, TwoLocks
  <1>6. \A c \in ApplyCommands : Good(c)
    BY <1>2, <1>4, <1>5, CopyIsGood DEF ApplyCommands
  <1>7. QED
    BY <1>2, <1>3, <1>6, CopyIsGood
       DEF EvaluateCommands, RepairCommand, JournalCommands, SnapshotCommands

LEMMA CommandsGood == \A c \in Commands : Good(c)
  BY TaskCommandsGood, DoneCommandsGood, NewSessionGood, CloseSessionGood, ArchiveSessionsGood,
     FileCommandsGood, AssistedCommandsGood, EvolutionCommandsGood DEF Commands

-----------------------------------------------------------------------------
(* The invariant: a process waits above what it holds.                     *)

\* Leases and the known exceptions aside, a process waits for a lock above all that it holds;
\* with the lock of the database it waits for nothing but the leases of others.
WaitsAbove(p) ==
  /\ want[p] \notin {Nothing, Lease, Drain} =>
       \A i \in 1..Len(held[p]) :
         held[p][i] # Lease => Level(held[p][i]) < Level(want[p]) \/ WaitsForCreated(p)
  /\ want[p] # Nothing /\ Holds(p, Database) => want[p] = Drain

OrderInv == OrderTypeOK /\ \A p \in Callers : WaitsAbove(p)

LEMMA InitInv == OrderInit => OrderInv
  <1> SUFFICES ASSUME OrderInit PROVE OrderInv
    OBVIOUS
  <1>1. Nothing \in Lock
    BY DEF Lock, LockKinds, Nothing
  <1>2. OrderTypeOK
    BY <1>1 DEF OrderInit, OrderTypeOK, Lock
  <1>3. \A p \in Callers : WaitsAbove(p)
    BY DEF OrderInit, WaitsAbove
  <1>4. QED
    BY <1>2, <1>3 DEF OrderInv

\* Whoever waits for nothing is above all it holds; what it holds is only then changed.
LEMMA Unwaiting ==
  ASSUME OrderInv, NEW p \in Callers, OrderTypeOK', want'[p] = Nothing,
         \A q \in Callers \ {p} : held'[q] = held[q] /\ want'[q] = want[q]
  PROVE  OrderInv'
  <1>1. WaitsAbove(p)'
    BY DEF WaitsAbove
  <1>2. ASSUME NEW q \in Callers \ {p} PROVE WaitsAbove(q)'
    BY <1>2, SMTT(30) DEF OrderInv, WaitsAbove, WaitsForCreated, Holds
  <1>3. QED
    BY <1>1, <1>2 DEF OrderInv

LEMMA TryInv ==
  ASSUME OrderInv, NEW p \in Callers, NEW c \in Commands, Try(p, c)
  PROVE  OrderInv'
  <1> DEFINE n == Len(held[p])
             l == c[n + 1]
  <1>1. c \in Seq(Lock) /\ Ordered(c)
    BY CommandsGood DEF Good
  <1>2. held \in [Callers -> Seq(Lock)] /\ want \in [Callers -> Lock]
    BY DEF OrderInv, OrderTypeOK, Lock
  <1>3. n \in Nat /\ Len(c) \in Nat /\ n < Len(c) /\ held[p] = SubSeq(c, 1, n)
    BY <1>1, <1>2 DEF Try
  <1>4. l \in Lock
    BY <1>1, <1>3, ElementOfSeq
  <1>5. held' = held /\ want' = [want EXCEPT ![p] = l]
    BY DEF Try
  <1>6. OrderTypeOK'
    BY <1>2, <1>4, <1>5 DEF OrderTypeOK, Lock
  <1>7. \A i \in 1..n : held[p][i] = c[i]
    BY <1>1, <1>3
  <1>8. want'[p] = l /\ held'[p] = held[p]
    BY <1>2, <1>5
  <1>9. ASSUME l \notin {Nothing, Lease, Drain}, NEW i \in 1..n, c[i] # Lease
        PROVE  Level(c[i]) < Level(l) \/ WaitsForCreated(p)'
    <2>1. i \in 1..Len(c) /\ n + 1 \in 1..Len(c) /\ i < n + 1
      BY <1>3
    <2>2. Level(c[i]) < Level(l) \/ Created(c, n + 1)
      BY <2>1, <1>1, <1>9 DEF Ordered
    <2>3. ASSUME Created(c, n + 1) PROVE WaitsForCreated(p)'
      <3>1. /\ n > 0 /\ c[n + 1][1] = "session"
            /\ c[n] = NewLock \/ (c[n][1] = "session" /\ c[n][2] >= c[n + 1][2])
        BY <2>3, <1>3 DEF Created
      <3>2. held'[p] # <<>> /\ held'[p][Len(held'[p])] = c[n]
        BY <3>1, <1>2, <1>3, <1>7, <1>8
      <3>3. QED
        BY <3>1, <3>2, <1>8 DEF WaitsForCreated
    <2>4. QED
      BY <2>2, <2>3
  <1>10. ASSUME NEW i \in 1..n, c[i] = Database PROVE l = Drain
    <2>1. i \in 1..Len(c)
      BY <1>3
    <2>2. Len(c) = i + 1 /\ c[i + 1] = Drain
      BY <2>1, <1>1, <1>10 DEF Ordered
    <2>3. i = n
      BY <2>2, <1>3
    <2>4. QED
      BY <2>2, <2>3
  <1> HIDE DEF l
  <1>11. WaitsAbove(p)'
    <2>1. Len(held'[p]) = n
      BY <1>8
    <2> HIDE DEF n
    <2>2. Holds(p, Database)' => \E i \in 1..n : c[i] = Database
      BY <2>1, <1>7, <1>8 DEF Holds
    <2>3. \A i \in 1..n : held'[p][i] = c[i]
      BY <1>7, <1>8
    <2>4. QED
      BY <2>1, <2>2, <2>3, <1>8, <1>9, <1>10 DEF WaitsAbove
  <1>12. ASSUME NEW q \in Callers, q # p PROVE WaitsAbove(q)'
    <2>1. want'[q] = want[q] /\ held'[q] = held[q]
      BY <1>2, <1>5, <1>12
    <2>2. WaitsAbove(q)
      BY DEF OrderInv
    <2>3. QED
      BY <2>1, <2>2 DEF WaitsAbove, WaitsForCreated, Holds
  <1>13. QED
    BY <1>6, <1>11, <1>12 DEF OrderInv

LEMMA StepInv == OrderInv /\ [OrderNext]_orderVars => OrderInv'
  <1> SUFFICES ASSUME OrderInv, [OrderNext]_orderVars PROVE OrderInv'
    OBVIOUS
  <1>1. held \in [Callers -> Seq(Lock)] /\ want \in [Callers -> Lock] /\ Nothing \in Lock
    BY DEF OrderInv, OrderTypeOK, Lock, LockKinds, Nothing
  <1>2. ASSUME NEW p \in Callers, NEW c \in Commands, Try(p, c) PROVE OrderInv'
    BY <1>2, TryInv
  <1>3. ASSUME NEW p \in Callers, Take(p) PROVE OrderInv'
    <2>1. Append(held[p], want[p]) \in Seq(Lock)
      BY <1>1
    <2>2. OrderTypeOK'
      BY <2>1, <1>1, <1>3 DEF Take, OrderTypeOK, Lock
    <2>3. want'[p] = Nothing /\ \A q \in Callers \ {p} : held'[q] = held[q] /\ want'[q] = want[q]
      BY <1>1, <1>3 DEF Take
    <2>4. QED
      BY <2>2, <2>3, Unwaiting
  <1>4. ASSUME NEW p \in Callers, LeaveBlock(p) PROVE OrderInv'
    <2>1. SubSeq(held[p], 1, Len(held[p]) - 1) \in Seq(Lock)
      BY <1>1, <1>4 DEF LeaveBlock
    <2>2. OrderTypeOK'
      BY <2>1, <1>1, <1>4 DEF LeaveBlock, OrderTypeOK, Lock
    <2>3. want'[p] = Nothing /\ \A q \in Callers \ {p} : held'[q] = held[q] /\ want'[q] = want[q]
      BY <1>1, <1>4 DEF LeaveBlock
    <2>4. QED
      BY <2>2, <2>3, Unwaiting
  <1>5. ASSUME NEW p \in Callers, DropAll(p) PROVE OrderInv'
    <2>1. OrderTypeOK'
      BY <1>1, <1>5 DEF DropAll, OrderTypeOK, Lock
    <2>2. want'[p] = Nothing /\ \A q \in Callers \ {p} : held'[q] = held[q] /\ want'[q] = want[q]
      BY <1>1, <1>5 DEF DropAll
    <2>3. QED
      BY <2>1, <2>2, Unwaiting
  <1>6. CASE UNCHANGED orderVars
    BY <1>6 DEF orderVars, OrderInv, OrderTypeOK, WaitsAbove, WaitsForCreated, Holds
  <1>7. QED
    BY <1>2, <1>3, <1>4, <1>5, <1>6 DEF OrderNext

-----------------------------------------------------------------------------
(* Along a circle the level rises.                                         *)

\* In a circle without a copy of the database and without a session being created, everyone
\* waits for somebody who waits for a lock of a higher level.
LEMMA LevelsRise ==
  ASSUME OrderInv, NEW D \in SUBSET Callers, Circle(D),
         \A p \in D : want[p] # Drain /\ ~WaitsForCreated(p)
  PROVE  \A p \in D : \E q \in D : Level(want[q]) >= Level(want[p]) + 1
  <1>1. \A p \in Callers : want[p] \in Lock
    BY DEF OrderInv, OrderTypeOK, Lock
  <1>2. ASSUME NEW p \in D PROVE want[p] # Nothing
    BY <1>2 DEF Circle, WaitsFor, Lease, Drain, Nothing, Only
  <1>3. ASSUME NEW p \in D PROVE want[p] # Lease
    <2>1. SUFFICES ASSUME want[p] = Lease PROVE FALSE
      OBVIOUS
    <2>2. PICK q \in D : Holds(q, Database)
      BY <2>1 DEF Circle, WaitsFor
    <2>3. want[q] = Drain
      BY <2>2, <1>2 DEF OrderInv, WaitsAbove
    <2>4. QED
      BY <2>3
  <1>4. ASSUME NEW p \in D PROVE \E q \in D : Level(want[q]) >= Level(want[p]) + 1
    <2>1. PICK q \in D : Holds(q, want[p])
      BY <1>3 DEF Circle, WaitsFor
    <2>2. PICK i \in 1..Len(held[q]) : held[q][i] = want[p]
      BY <2>1 DEF Holds
    <2>3. Level(want[p]) < Level(want[q])
      BY <2>2, <1>2, <1>3 DEF OrderInv, WaitsAbove
    <2>4. Level(want[p]) \in Int /\ Level(want[q]) \in Int
      BY <1>1, LevelsAreIntegers
    <2>5. QED
      BY <2>3, <2>4
  <1>5. QED
    BY <1>4

\* It cannot, since no level is above 16 * W: somebody waits for the highest.
LEMMA NoOtherCircle == OrderInv => OnlyKnownCircles
  <1> SUFFICES ASSUME OrderInv, NEW D \in SUBSET Callers, Circle(D),
                      \A p \in D : want[p] # Drain /\ ~WaitsForCreated(p)
               PROVE  FALSE
    BY DEF OnlyKnownCircles
  <1> DEFINE L(p) == Level(want[p])
             Gaps == {16 * W - L(p) : p \in D}
  <1>1. \A p \in D : L(p) \in Int /\ L(p) < 16 * W
    <2>1. \A p \in Callers : want[p] \in Lock
      BY DEF OrderInv, OrderTypeOK, Lock
    <2>2. QED
      BY <2>1, LevelsAreIntegers
  <1>2. \A p \in D : \E q \in D : L(q) >= L(p) + 1
    BY LevelsRise
  <1> HIDE DEF L
  <1>3. Gaps \in SUBSET Nat
    BY <1>1
  <1>4. Gaps # {}
    BY DEF Circle
  <1> HIDE DEF Gaps
  <1>5. PICK m \in Gaps : \A n \in Gaps : m <= n
    BY <1>3, <1>4, LeastNatural
  <1>6. PICK p \in D : m = 16 * W - L(p)
    BY DEF Gaps
  <1>7. PICK q \in D : L(q) >= L(p) + 1
    BY <1>2
  <1>8. m <= 16 * W - L(q)
    BY <1>5 DEF Gaps
  <1>9. QED
    BY <1>1, <1>6, <1>7, <1>8

-----------------------------------------------------------------------------

LEMMA OrderInvHolds == OrderSpec => []OrderInv
  BY InitInv, StepInv, PTL DEF OrderSpec

\* What processes hold and wait for are locks of the program.
THEOREM OrderTypeCorrect == OrderSpec => []OrderTypeOK
  <1>1. OrderInv => OrderTypeOK
    BY DEF OrderInv
  <1>2. QED
    BY <1>1, OrderInvHolds, PTL

\* However many processes run whatever commands, sessions, tasks and files: a circle of
\* processes that wait for each other is one of the two known ones.
THEOREM OnlyKnownCirclesHolds == OrderSpec => []OnlyKnownCircles
  BY NoOtherCircle, OrderInvHolds, PTL
=============================================================================
