--------------------------- MODULE PersistenceProofs ---------------------------
(***************************************************************************)
(* Proofs about Persistence for any number of players, items, moves,       *)
(* failures and crashes: a save holds the lock of the database exactly     *)
(* while it is in its transaction, no item is lost or doubled without a    *)
(* crash or a save that was given up, and what a transaction leaves in the *)
(* database of a player or of the houses is never half of it.              *)
(***************************************************************************)
EXTENDS Persistence, ListFacts

-----------------------------------------------------------------------------
(* The statements of a save.  Group is what it saves; every place of the    *)
(* group is emptied and filled again, inside of the transaction, but for a  *)
(* depot that was not opened.                                               *)
Group(s) ==
  CASE s.what = "player" -> Of(s.who)
    [] s.what = "info"   -> {}
    [] s.what = "house"  -> {House}
    [] s.what = "market" -> {Market}

Writing(t) == t[1] \in {"delete", "insert"}
Unopened(x) == x[2] = "depot" /\ x[1] \notin opened

Kinds == {"select", "begin", "update", "delete", "insert", "commit"}

Planned(s, L) ==
  /\ Len(L) \in Nat /\ Len(L) >= 2
  /\ \A k \in 1..Len(L) :
       /\ L[k][1] \in Kinds
       /\ L[k][1] = "begin" <=> L[k] = <<"begin">>
       /\ L[k][1] = "commit" <=> L[k] = <<"commit">>
       /\ L[k][1] = "commit" <=> s.what # "market" /\ k = Len(L)
       /\ L[k][1] = "select" => k = 1
       /\ s.what = "market" => Writing(L[k])
       /\ Writing(L[k]) =>
            /\ L[k][2] \in Group(s) /\ ~Unopened(L[k][2])
            /\ s.what # "market" => \E j \in 1..(k - 1) : L[j] = <<"begin">>
  /\ \A j, k \in 1..Len(L) :
       L[k][1] = "insert" /\ Writing(L[j]) /\ L[j][2] = L[k][2] => j <= k
  /\ \A x \in Group(s) :
       Unopened(x)
         \/ \E k \in 1..Len(L) : L[k][1] = "insert" /\ L[k][2] = x

Stmt ==
  {<<"select">>, <<"begin">>, <<"update">>, <<"commit">>}
    \cup ({"delete", "insert"} \X Places)

(* A list of statements in the making that replaces the places of X, in a   *)
(* transaction or not.                                                      *)
Partial(L, X, transaction) ==
  /\ L \in Seq(Stmt)
  /\ \A k \in 1..Len(L) :
       /\ L[k][1] \in Kinds \ {"commit"}
       /\ L[k][1] = "begin" <=> L[k] = <<"begin">>
       /\ L[k][1] = "select" => k = 1
       /\ ~transaction => Writing(L[k])
       /\ Writing(L[k]) =>
            /\ L[k][2] \in X
            /\ transaction => \E j \in 1..(k - 1) : L[j] = <<"begin">>
  /\ \A j, k \in 1..Len(L) :
       L[k][1] = "insert" /\ Writing(L[j]) /\ L[j][2] = L[k][2] => j <= k
  /\ \A x \in X : \E k \in 1..Len(L) : L[k][1] = "insert" /\ L[k][2] = x
  /\ transaction => \E j \in 1..Len(L) : L[j] = <<"begin">>

LEMMA Joined ==
  ASSUME NEW S, NEW s \in Seq(S), NEW t \in Seq(S)
  PROVE  /\ s \o t \in Seq(S) /\ Len(s \o t) = Len(s) + Len(t)
         /\ Len(s) \in Nat /\ Len(t) \in Nat
         /\ \A k \in 1..Len(s) : k \in 1..Len(s \o t) /\ (s \o t)[k] = s[k]
         /\ \A k \in 1..Len(t) : /\ Len(s) + k \in 1..Len(s \o t)
                                 /\ (s \o t)[Len(s) + k] = t[k]
         /\ \A k \in 1..Len(s \o t) :
              k \in 1..Len(s) \/ (k - Len(s) \in 1..Len(t) /\ k > Len(s))
<1>1. /\ Len(s) \in Nat /\ Len(t) \in Nat
      /\ s \o t \in Seq(S) /\ Len(s \o t) = Len(s) + Len(t)
      /\ \A i \in 1..Len(s) + Len(t) :
           (s \o t)[i] = IF i <= Len(s) THEN s[i] ELSE t[i - Len(s)]
  BY SeqFacts, ConcatProperties
<1> DEFINE m == Len(s) n == Len(t) u == s \o t
<1>2. /\ m \in Nat /\ n \in Nat /\ Len(u) = m + n
      /\ \A i \in 1..m + n : u[i] = IF i <= m THEN s[i] ELSE t[i - m]
  BY <1>1
<1> HIDE DEF m, n, u
<1>3. \A k \in 1..m : k \in 1..m + n /\ u[k] = s[k]
  BY <1>2
<1>4. ASSUME NEW k \in 1..n PROVE m + k \in 1..m + n /\ u[m + k] = t[k]
  <2>1. m + k \in 1..m + n /\ ~(m + k <= m) /\ (m + k) - m = k
    BY <1>2
  <2>2. QED
    BY <1>2, <2>1
<1>5. \A k \in 1..m + n : k \in 1..m \/ (k - m \in 1..n /\ k > m)
  BY <1>2
<1>6. QED
  BY <1>1, <1>2, <1>3, <1>4, <1>5 DEF m, n, u

(* A place is emptied and filled: two statements more.                      *)
LEMMA Replacing ==
  ASSUME NEW L, NEW X, NEW m \in BOOLEAN, Partial(L, X, m),
         NEW x \in Places, x \notin X
  PROVE  Partial(L \o Replace(x), X \cup {x}, m)
<1> DEFINE R == Replace(x)   M == L \o R   n == Len(L)
<1>1. /\ R \in Seq(Stmt) /\ Len(R) = 2
      /\ R[1] = <<"delete", x>> /\ R[2] = <<"insert", x>>
  BY DEF Replace, Stmt
<1>2. L \in Seq(Stmt)
  BY DEF Partial
<1> HIDE DEF R
<1>3. /\ M \in Seq(Stmt) /\ n \in Nat /\ Len(M) = n + 2
      /\ \A k \in 1..n : k \in 1..Len(M) /\ M[k] = L[k]
      /\ \A k \in 1..2 : n + k \in 1..Len(M) /\ M[n + k] = R[k]
      /\ \A k \in 1..Len(M) : k \in 1..n \/ (k - n \in 1..2 /\ k > n)
  <2>1. /\ M \in Seq(Stmt) /\ Len(M) = n + Len(R) /\ n \in Nat
        /\ \A k \in 1..n : k \in 1..Len(M) /\ M[k] = L[k]
        /\ \A k \in 1..Len(R) : n + k \in 1..Len(M) /\ M[n + k] = R[k]
        /\ \A k \in 1..Len(M) : k \in 1..n \/ (k - n \in 1..Len(R) /\ k > n)
    <3>1. L \in Seq(Stmt) /\ R \in Seq(Stmt)
      BY <1>1, <1>2
    <3>2. QED
      BY <3>1, Joined
  <2>2. Len(R) = 2
    BY <1>1
  <2> HIDE DEF M, n
  <2>3. QED
    BY <2>1, <2>2
<1>4. /\ n + 1 \in 1..Len(M) /\ M[n + 1] = <<"delete", x>>
      /\ n + 2 \in 1..Len(M) /\ M[n + 2] = <<"insert", x>>
      /\ \A k \in 1..Len(M) : k \in 1..n \/ k = n + 1 \/ k = n + 2
  BY <1>1, <1>3
<1> HIDE DEF M, n
<1>5. /\ M[n + 1][1] = "delete" /\ M[n + 1][2] = x
      /\ M[n + 2][1] = "insert" /\ M[n + 2][2] = x
      /\ M[n + 1] # <<"begin">> /\ M[n + 2] # <<"begin">>
  BY <1>4
<1>6. m => \E j \in 1..n : L[j] = <<"begin">>
  BY DEF Partial, n
<1>7. ASSUME NEW k \in 1..Len(M)
      PROVE  /\ M[k][1] \in Kinds \ {"commit"}
             /\ M[k][1] = "begin" <=> M[k] = <<"begin">>
             /\ M[k][1] = "select" => k = 1
             /\ ~m => Writing(M[k])
             /\ Writing(M[k]) =>
                  /\ M[k][2] \in X \cup {x}
                  /\ m => \E j \in 1..(k - 1) : M[j] = <<"begin">>
  <2>1. CASE k \in 1..n
    <3>1. M[k] = L[k]
      BY <1>3, <2>1 DEF M, n
    <3>2. \A j \in 1..(k - 1) : j \in 1..n /\ M[j] = L[j]
      BY <1>3, <2>1
    <3>3. /\ L[k][1] \in Kinds \ {"commit"}
          /\ L[k][1] = "begin" <=> L[k] = <<"begin">>
          /\ L[k][1] = "select" => k = 1
          /\ ~m => Writing(L[k])
          /\ Writing(L[k]) =>
               /\ L[k][2] \in X
               /\ m => \E j \in 1..(k - 1) : L[j] = <<"begin">>
      BY <2>1 DEF Partial, n
    <3>4. QED
      BY <3>1, <3>2, <3>3
  <2>2. ASSUME k = n + 1 \/ k = n + 2
        PROVE  /\ M[k][1] \in {"delete", "insert"} /\ M[k][2] = x
               /\ M[k] # <<"begin">>
               /\ m => \E j \in 1..(k - 1) : M[j] = <<"begin">>
    <3>1. m => \E j \in 1..(k - 1) : M[j] = <<"begin">>
      BY <1>3, <1>6, <2>2
    <3>2. QED
      BY <1>5, <2>2, <3>1
  <2>3. CASE k = n + 1 \/ k = n + 2
    BY <2>2, <2>3 DEF Writing, Kinds
  <2>4. QED
    BY <1>4, <2>1, <2>3
<1>8. ASSUME NEW j \in 1..Len(M), NEW k \in 1..Len(M),
             M[k][1] = "insert", Writing(M[j]), M[j][2] = M[k][2]
      PROVE  j <= k
  <2>1. \A i \in 1..n : M[i] = L[i] /\ (Writing(M[i]) => M[i][2] # x)
    BY <1>3 DEF Partial, n
  <2>2. CASE k \in 1..n
    <3>1. j \in 1..n
      BY <1>4, <1>5, <1>8, <2>1, <2>2 DEF Writing
    <3>2. QED
      BY <1>8, <2>1, <2>2, <3>1 DEF Partial, n
  <2>3. CASE k = n + 2
    BY <1>3, <2>3
  <2>4. QED
    BY <1>4, <1>5, <1>8, <2>2, <2>3
<1>9. ASSUME NEW y \in X \cup {x}
      PROVE  \E k \in 1..Len(M) : M[k][1] = "insert" /\ M[k][2] = y
  <2>1. CASE y = x
    BY <1>4, <1>5, <2>1
  <2>2. CASE y \in X
    <3>1. PICK k \in 1..n : L[k][1] = "insert" /\ L[k][2] = y
      BY <2>2 DEF Partial, n
    <3>2. k \in 1..Len(M) /\ M[k] = L[k]
      BY <1>3
    <3>3. QED
      BY <3>1, <3>2
  <2>3. QED
    BY <2>1, <2>2
<1>10. m => \E j \in 1..Len(M) : M[j] = <<"begin">>
  BY <1>3, <1>6
<1>11. QED
  BY <1>3, <1>7, <1>8, <1>9, <1>10 DEF Partial, M, R, n

(* The COMMIT of a transaction comes last.                                  *)
LEMMA Committing ==
  ASSUME NEW s, NEW L, NEW X, Partial(L, X, TRUE), s.what # "market",
         X \subseteq Group(s), \A x \in X : ~Unopened(x),
         \A x \in Group(s) : Unopened(x) \/ x \in X
  PROVE  Planned(s, L \o << <<"commit">> >>)
<1> DEFINE C == << <<"commit">> >>   M == L \o C   n == Len(L)
<1>1. C \in Seq(Stmt) /\ Len(C) = 1 /\ C[1] = <<"commit">>
  BY DEF Stmt
<1>2. L \in Seq(Stmt)
  BY DEF Partial
<1> HIDE DEF C
<1>3. /\ n \in Nat /\ Len(M) = n + 1
      /\ \A k \in 1..n : k \in 1..Len(M) /\ M[k] = L[k]
      /\ \A k \in 1..1 : n + k \in 1..Len(M) /\ M[n + k] = C[k]
      /\ \A k \in 1..Len(M) : k \in 1..n \/ (k - n \in 1..1 /\ k > n)
  BY <1>1, <1>2, Joined
<1>4. /\ M[n + 1] = <<"commit">> /\ n + 1 \in 1..Len(M)
      /\ \A k \in 1..Len(M) : k \in 1..n \/ k = n + 1
  BY <1>1, <1>3
<1> HIDE DEF M, n
<1>5. /\ M[n + 1][1] = "commit" /\ M[n + 1] # <<"begin">> /\ ~Writing(M[n + 1])
  BY <1>4 DEF Writing
<1>6. n >= 1
  <2>1. \E j \in 1..n : L[j] = <<"begin">>
    BY DEF Partial, n
  <2>2. QED
    BY <1>3, <2>1
<1>7. ASSUME NEW k \in 1..Len(M)
      PROVE  /\ M[k][1] \in Kinds
             /\ M[k][1] = "begin" <=> M[k] = <<"begin">>
             /\ M[k][1] = "commit" <=> M[k] = <<"commit">>
             /\ M[k][1] = "commit" <=> k = Len(M)
             /\ M[k][1] = "select" => k = 1
             /\ Writing(M[k]) =>
                  /\ M[k][2] \in Group(s) /\ ~Unopened(M[k][2])
                  /\ \E j \in 1..(k - 1) : M[j] = <<"begin">>
  <2>1. CASE k \in 1..n
    <3>1. M[k] = L[k] /\ k # Len(M)
      BY <1>3, <2>1
    <3>2. \A j \in 1..(k - 1) : j \in 1..n /\ M[j] = L[j]
      BY <1>3, <2>1
    <3>3. /\ L[k][1] \in Kinds \ {"commit"}
          /\ L[k][1] = "begin" <=> L[k] = <<"begin">>
          /\ L[k][1] = "select" => k = 1
          /\ Writing(L[k]) =>
               L[k][2] \in X /\ \E j \in 1..(k - 1) : L[j] = <<"begin">>
      BY <2>1 DEF Partial, n
    <3>4. L[k] # <<"commit">>
      BY <3>3
    <3>5. QED
      BY <3>1, <3>2, <3>3, <3>4
  <2>2. CASE k = n + 1
    BY <1>3, <1>4, <1>5, <2>2 DEF Kinds
  <2>3. QED
    BY <1>4, <2>1, <2>2
<1>8. ASSUME NEW j \in 1..Len(M), NEW k \in 1..Len(M),
             M[k][1] = "insert", Writing(M[j]), M[j][2] = M[k][2]
      PROVE  j <= k
  <2>1. j \in 1..n /\ k \in 1..n
    BY <1>4, <1>5, <1>8
  <2>2. QED
    BY <1>3, <1>8, <2>1 DEF Partial, n
<1>9. ASSUME NEW x \in Group(s)
      PROVE  Unopened(x)
               \/ \E k \in 1..Len(M) : M[k][1] = "insert" /\ M[k][2] = x
  <2>1. CASE x \in X
    <3>1. PICK k \in 1..n : L[k][1] = "insert" /\ L[k][2] = x
      BY <2>1 DEF Partial, n
    <3>2. k \in 1..Len(M) /\ M[k] = L[k]
      BY <1>3
    <3>3. QED
      BY <3>1, <3>2
  <2>2. QED
    BY <2>1
<1>10. Len(M) \in Nat /\ Len(M) >= 2
  BY <1>3, <1>6
<1>11. QED
  BY <1>7, <1>8, <1>9, <1>10 DEF Planned, M, C, n

LEMMA Preludes ==
  /\ Partial(<< <<"select">>, <<"begin">>, <<"update">> >>, {}, TRUE)
  /\ Partial(<< <<"begin">>, <<"update">> >>, {}, TRUE)
  /\ Partial(<< <<"begin">> >>, {}, TRUE)
  /\ Partial(<<>>, {}, FALSE)
<1>1. ASSUME NEW L \in Seq({<<"select">>, <<"begin">>, <<"update">>}),
             \A k \in 1..Len(L) : L[k] = <<"select">> => k = 1,
             \E k \in 1..Len(L) : L[k] = <<"begin">>
      PROVE  Partial(L, {}, TRUE)
  <2>1. L \in Seq(Stmt)
    <3>1. {<<"select">>, <<"begin">>, <<"update">>} \subseteq Stmt
      BY DEF Stmt
    <3>2. QED
      BY <3>1, SeqMonotonic
  <2>2. \A k \in 1..Len(L) :
          L[k] = <<"select">> \/ L[k] = <<"begin">> \/ L[k] = <<"update">>
    BY ElementOfSeq
  <2>3. QED
    BY <1>1, <2>1, <2>2 DEF Partial, Kinds, Writing
<1>2. Partial(<< <<"select">>, <<"begin">>, <<"update">> >>, {}, TRUE)
  <2> DEFINE L == << <<"select">>, <<"begin">>, <<"update">> >>
  <2>1. /\ L \in Seq({<<"select">>, <<"begin">>, <<"update">>}) /\ Len(L) = 3
        /\ L[1] = <<"select">> /\ L[2] = <<"begin">> /\ L[3] = <<"update">>
    OBVIOUS
  <2> HIDE DEF L
  <2>2. <<"begin">> # <<"select">> /\ <<"update">> # <<"select">>
    OBVIOUS
  <2>3. \A k \in 1..Len(L) : k = 1 \/ k = 2 \/ k = 3
    BY <2>1
  <2>4. \A k \in 1..Len(L) : L[k] = <<"select">> => k = 1
    BY <2>1, <2>2, <2>3
  <2>5. \E k \in 1..Len(L) : L[k] = <<"begin">>
    <3>1. 1 \in 1..Len(L) /\ (Len(L) = 3 => 2 \in 1..Len(L))
      BY <2>1
    <3>2. QED
      BY <2>1, <3>1
  <2>6. Partial(L, {}, TRUE)
    BY <1>1, <2>1, <2>4, <2>5
  <2>7. QED
    BY <2>6 DEF L
<1>3. Partial(<< <<"begin">>, <<"update">> >>, {}, TRUE)
  <2> DEFINE L == << <<"begin">>, <<"update">> >>
  <2>1. /\ L \in Seq({<<"select">>, <<"begin">>, <<"update">>}) /\ Len(L) = 2
        /\ L[1] = <<"begin">> /\ L[2] = <<"update">>
    OBVIOUS
  <2> HIDE DEF L
  <2>2. <<"begin">> # <<"select">> /\ <<"update">> # <<"select">>
    OBVIOUS
  <2>3. \A k \in 1..Len(L) : k = 1 \/ k = 2
    BY <2>1
  <2>4. \A k \in 1..Len(L) : L[k] = <<"select">> => k = 1
    BY <2>1, <2>2, <2>3
  <2>5. \E k \in 1..Len(L) : L[k] = <<"begin">>
    <3>1. 1 \in 1..Len(L) /\ (Len(L) = 3 => 2 \in 1..Len(L))
      BY <2>1
    <3>2. QED
      BY <2>1, <3>1
  <2>6. Partial(L, {}, TRUE)
    BY <1>1, <2>1, <2>4, <2>5
  <2>7. QED
    BY <2>6 DEF L
<1>4. Partial(<< <<"begin">> >>, {}, TRUE)
  <2> DEFINE L == << <<"begin">> >>
  <2>1. /\ L \in Seq({<<"select">>, <<"begin">>, <<"update">>}) /\ Len(L) = 1
        /\ L[1] = <<"begin">>
    OBVIOUS
  <2> HIDE DEF L
  <2>2. <<"begin">> # <<"select">>
    OBVIOUS
  <2>3. \A k \in 1..Len(L) : k = 1
    BY <2>1
  <2>4. \A k \in 1..Len(L) : L[k] = <<"select">> => k = 1
    BY <2>1, <2>2, <2>3
  <2>5. \E k \in 1..Len(L) : L[k] = <<"begin">>
    <3>1. 1 \in 1..Len(L) /\ (Len(L) = 3 => 2 \in 1..Len(L))
      BY <2>1
    <3>2. QED
      BY <2>1, <3>1
  <2>6. Partial(L, {}, TRUE)
    BY <1>1, <2>1, <2>4, <2>5
  <2>7. QED
    BY <2>6 DEF L
<1>5. Partial(<<>>, {}, FALSE)
  BY SeqFacts DEF Partial
<1>6. QED
  BY <1>2, <1>3, <1>4, <1>5

(* Every save is planned: its statements are as they should be.             *)
LEMMA PlannedSaves ==
  ASSUME NEW s \in Saves, s.what = "player" => s.who \in Players
  PROVE  Planned(s, Statements(s))
<1> USE DEF Group
<1>0. None \notin Players
  BY PersistenceAssumption
<1>1. CASE s.what = "player"
  <2> DEFINE p == s.who
             A == << <<"select">>, <<"begin">>, <<"update">> >>
             I == <<p, "items">>  D == <<p, "depot">>  B == <<p, "inbox">>
             X == IF p \in opened THEN {I, D} ELSE {I}
  <2>1. p \in Players /\ I \in Places /\ D \in Places /\ B \in Places
        /\ I # D /\ I # B /\ D # B /\ Of(p) = {I, D, B}
        /\ ~Unopened(I) /\ ~Unopened(B) /\ (Unopened(D) <=> p \notin opened)
    BY <1>1 DEF Places, Tables, Of, Unopened
  <2>2. Statements(s) = A \o Replace(I) \o Depot(p) \o Replace(B) \o << <<"commit">> >>
    BY <1>1 DEF Statements, Player
  <2>3. Partial(A, {}, TRUE)
    BY Preludes
  <2> HIDE DEF A, I, D, B
  <2>4. Partial(A \o Replace(I), {I}, TRUE)
    <3>1. Partial(A \o Replace(I), {} \cup {I}, TRUE)
      BY <2>1, <2>3, Replacing
    <3>2. QED
      BY <3>1
  <2>5. Partial(A \o Replace(I) \o Depot(p), X, TRUE)
    <3> DEFINE E == A \o Replace(I)
    <3>1. Partial(E, {I}, TRUE)
      BY <2>4
    <3> HIDE DEF E
    <3>2. CASE p \in opened
      <4>1. Partial(E \o Replace(D), {I} \cup {D}, TRUE)
        BY <2>1, <3>1, Replacing
      <4>2. Depot(p) = Replace(D) /\ X = {I} \cup {D}
        BY <3>2 DEF Depot, D
      <4>3. QED
        BY <4>1, <4>2 DEF E
    <3>3. CASE p \notin opened
      <4>1. Depot(p) = <<>> /\ X = {I}
        BY <3>3 DEF Depot
      <4>2. E \o <<>> = E
        BY <3>1, ConcatEmptySeq DEF Partial
      <4>3. QED
        BY <3>1, <4>1, <4>2 DEF E
    <3>4. QED
      BY <3>2, <3>3
  <2> DEFINE F == A \o Replace(I) \o Depot(p)
  <2>6. Partial(F, X, TRUE) /\ Statements(s) = (F \o Replace(B)) \o << <<"commit">> >>
    BY <2>2, <2>5
  <2> HIDE DEF F
  <2>7. /\ B \notin X /\ X \cup {B} \subseteq Of(p)
        /\ \A x \in X \cup {B} : ~Unopened(x)
        /\ \A x \in Of(p) : Unopened(x) \/ x \in X \cup {B}
    BY <2>1
  <2> HIDE DEF X
  <2>8. Partial(F \o Replace(B), X \cup {B}, TRUE)
    BY <2>1, <2>6, <2>7, Replacing
  <2> DEFINE H == F \o Replace(B)   Y == X \cup {B}
  <2>9. /\ Partial(H, Y, TRUE) /\ Statements(s) = H \o << <<"commit">> >>
        /\ Y \subseteq Group(s) /\ \A x \in Y : ~Unopened(x)
        /\ \A x \in Group(s) : Unopened(x) \/ x \in Y
    BY <1>1, <2>6, <2>7, <2>8
  <2> HIDE DEF H, Y, Group
  <2>10. QED
    BY <1>1, <2>9, Committing
<1>2. CASE s.what = "info"
  <2> DEFINE A == << <<"begin">>, <<"update">> >>
  <2>1. Statements(s) = << <<"begin">>, <<"update">>, <<"commit">> >>
    BY <1>2 DEF Statements
  <2>2. A \o << <<"commit">> >> = << <<"begin">>, <<"update">>, <<"commit">> >>
    <3> DEFINE C == << <<"commit">> >>   T == << <<"begin">>, <<"update">>, <<"commit">> >>
    <3>1. /\ A \in Seq(Stmt) /\ C \in Seq(Stmt) /\ T \in Seq(Stmt)
          /\ Len(A) = 2 /\ Len(C) = 1 /\ Len(T) = 3
          /\ A[1] = T[1] /\ A[2] = T[2] /\ C[1] = T[3]
      BY DEF Stmt
    <3> HIDE DEF A, C, T
    <3>2. /\ A \o C \in Seq(Stmt) /\ Len(A \o C) = 3
          /\ \A i \in 1..3 : (A \o C)[i] = IF i <= 2 THEN A[i] ELSE C[i - 2]
      BY <3>1, ConcatProperties
    <3>3. (A \o C)[1] = T[1] /\ (A \o C)[2] = T[2] /\ (A \o C)[3] = T[3]
      BY <3>1, <3>2
    <3>4. \A i \in 1..3 : i = 1 \/ i = 2 \/ i = 3
      OBVIOUS
    <3>5. A \o C = T
      BY <3>1, <3>2, <3>3, <3>4, SeqEqual
    <3>6. QED
      BY <3>5 DEF C, T
  <2>3. Partial(A, {}, TRUE)
    BY Preludes
  <2>4. Group(s) = {}
    BY <1>2
  <2> HIDE DEF A, Group
  <2>5. QED
    BY <1>2, <2>1, <2>2, <2>3, <2>4, Committing
<1>3. CASE s.what = "house"
  <2> DEFINE A == << <<"begin">> >>
  <2>1. Statements(s) = A \o Replace(House) \o << <<"commit">> >>
    BY <1>3 DEF Statements
  <2>2. Partial(A, {}, TRUE)
    BY Preludes
  <2>3. House \in Places /\ ~Unopened(House)
    BY DEF Places, Unopened, House
  <2> HIDE DEF A
  <2>4. Partial(A \o Replace(House), {} \cup {House}, TRUE)
    BY <2>2, <2>3, Replacing
  <2>5. Group(s) = {} \cup {House}
    BY <1>3
  <2> DEFINE E == A \o Replace(House)
  <2>6. Partial(E, Group(s), TRUE) /\ Statements(s) = E \o << <<"commit">> >>
    BY <2>1, <2>4, <2>5
  <2>7. \A x \in Group(s) : ~Unopened(x)
    BY <2>3, <2>5
  <2> HIDE DEF E, Group
  <2>8. QED
    BY <1>3, <2>6, <2>7, Committing
<1>4. CASE s.what = "market"
  <2>1. Statements(s) = Replace(Market)
    BY <1>4 DEF Statements
  <2>2. Group(s) = {Market} /\ ~Unopened(Market)
    BY <1>4 DEF Market, Unopened
  <2> DEFINE L == Replace(Market)
  <2>3. /\ Len(L) = 2 /\ L[1] = <<"delete", Market>> /\ L[2] = <<"insert", Market>>
    BY DEF Replace
  <2> HIDE DEF L, Group, Market
  <2>4. \A k \in 1..2 : k = 1 \/ k = 2
    OBVIOUS
  <2>5. /\ L[1][1] = "delete" /\ L[1][2] = Market
        /\ L[2][1] = "insert" /\ L[2][2] = Market
        /\ L[1] # <<"begin">> /\ L[2] # <<"begin">>
        /\ L[1] # <<"commit">> /\ L[2] # <<"commit">>
    BY <2>3
  <2>6. Planned(s, L)
    BY <1>4, <2>2, <2>3, <2>4, <2>5 DEF Planned, Kinds, Writing
  <2>7. QED
    BY <2>1, <2>6 DEF L
<1>5. QED
  BY <1>1, <1>2, <1>3, <1>4 DEF Saves

-----------------------------------------------------------------------------
(* The inductive invariant.  What is to be saved:                           *)
Now == Statements(Save)

Shape ==
  /\ phase = "down" => todo = <<>> /\ online = {}
  /\ ~Saving => at = 1
  /\ Saving => at \in 1..Len(Now)
  /\ opened \subseteq online
  /\ phase = "closing" => online = {}

(* Everybody is saved once, who is in the game or was loaded for a moment;  *)
(* the map is saved last, its information before its houses.                *)
Entry(k) ==
  LET s == todo[k] IN
  /\ s.what = "player" =>
       /\ s.who \in Players
       /\ s.who \in online \/ (s.leaves /\ Len(todo) = 1 /\ phase = "open")
  /\ s.leaves => s.what = "player" /\ (phase = "open" => Len(todo) = 1)
  /\ phase = "stopping" /\ s.what = "player" => s.leaves
  /\ s.what = "info" => k + 1 = Len(todo) /\ todo[k + 1].what = "house"
  /\ s.what = "house" => k = Len(todo)
  /\ s.what = "market" => Len(todo) = 1
  /\ s.what = "market" <=> phase = "closing"

Listed ==
  /\ \A k \in 1..Len(todo) : Entry(k)
  /\ \A j, k \in 1..Len(todo) :
       todo[j].what = "player" /\ todo[k].what = "player"
         /\ todo[j].who = todo[k].who => j = k
  /\ phase = "stopping" => \A p \in online :
       \E k \in 1..Len(todo) : todo[k].what = "player" /\ todo[k].who = p

(* What the save has written so far: the tables differ only where one of    *)
(* its statements has been, and what it has inserted is what memory holds.  *)
Begun == \E k \in 1..(at - 1) : Now[k] = <<"begin">>

Written ==
  /\ begun = locked
  /\ locked <=> Saving /\ Save.what # "market" /\ Begun
  /\ ~begun => work = rows
  /\ \A x \in Places : work[x] # rows[x] =>
       Saving /\ \E k \in 1..at : Writing(Now[k]) /\ Now[k][2] = x
  /\ Saving => \A k \in 1..(at - 1) :
       Now[k][1] = "insert" => work[Now[k][2]] = held[Now[k][2]]

(* Where the items are, while somebody who was loaded is saved and goes:    *)
(* the whereabouts that matter are memory or, for who is not in it, rows.   *)
Here(p) == p \in online \/ (Saving /\ Save.leaves /\ Save.who = p)
There(x) == phase # "down" /\ (x \in {House, Market} \/ Here(x[1]))
Kept(x) == IF There(x) THEN held[x] ELSE work[x]

Alone ==
  \A i \in Items : \E x \in Places : \A y \in Places : i \in Kept(y) <=> y = x

Depots ==
  \A p \in Players : Here(p) /\ p \notin opened =>
    held[<<p, "depot">>] = work[<<p, "depot">>]

HouseSaved ==
  phase \in {"stopping", "closing"}
    /\ (\A k \in 1..Len(todo) : todo[k].what # "house")
    => work[House] = held[House]

MarketSaved == phase = "closing" /\ ~Saving => work[Market] = held[Market]

Safe == ~damaged => Alone /\ Depots /\ HouseSaved /\ MarketSaved

IInv == TypeOK /\ Shape /\ Listed /\ Written /\ Safe

-----------------------------------------------------------------------------
(* The save in progress. *)
PlansOk ==
  \A s \in Saves :
    (s.what = "player" => s.who \in Players) => Planned(s, Statements(s))

LEMMA PlansAreOk == PlansOk
BY PlannedSaves DEF PlansOk

LEMMA PlansStayOk == PlansOk'
BY PlansAreOk, PTL

LEMMA PlaceFacts ==
  /\ House \in Places /\ Market \in Places /\ House # Market
  /\ \A p \in Players : Of(p) \subseteq Places /\ House \notin Of(p) /\ Market \notin Of(p)
  /\ \A p, q \in Players : \A x \in Of(p) : x \in Of(q) => p = q
  /\ \A x \in Places : x \in {House, Market} \/ (x[1] \in Players /\ x \in Of(x[1]))
  /\ \A p \in Players : \A x \in Of(p) : x[1] = p
  /\ \A p \in Players : <<p, "depot">> \in Of(p) /\ <<p, "inbox">> \in Of(p)
  /\ \A p \in Players : <<p, "depot">>[1] = p /\ <<p, "depot">>[2] = "depot"
  /\ \A p \in Players : <<p, "inbox">>[1] = p /\ <<p, "inbox">> # <<p, "depot">>
  /\ House[1] \notin Players /\ Market[1] \notin Players
  /\ House[2] # "depot" /\ Market[2] # "depot"
<1>1. None \notin Players
  BY PersistenceAssumption
<1>2. House \in Places /\ Market \in Places /\ House # Market
  BY DEF House, Market, Places
<1>3. /\ House[1] = None /\ Market[1] = None
      /\ House[2] # "depot" /\ Market[2] # "depot"
  BY DEF House, Market
<1>4. \A p \in Players : Of(p) \subseteq Places /\ \A x \in Of(p) : x[1] = p
  BY DEF Of, Places
<1>5. \A p \in Players :
        /\ <<p, "depot">> \in Of(p) /\ <<p, "inbox">> \in Of(p)
        /\ <<p, "depot">>[1] = p /\ <<p, "depot">>[2] = "depot"
        /\ <<p, "inbox">>[1] = p /\ <<p, "inbox">> # <<p, "depot">>
  BY DEF Of, Tables
<1>6. \A x \in Places : x \in {House, Market} \/ (x[1] \in Players /\ x \in Of(x[1]))
  BY DEF Of, Places
<1>7. QED
  BY <1>1, <1>2, <1>3, <1>4, <1>5, <1>6

LEMMA Standing ==
  ASSUME TypeOK, Shape, Listed, Saving
  PROVE  /\ Len(todo) \in Nat /\ Len(todo) >= 1 /\ 1 \in 1..Len(todo)
         /\ Save = todo[1] /\ Save \in Saves /\ Entry(1)
         /\ Planned(Save, Now) /\ at \in 1..Len(Now) /\ Statement = Now[at]
         /\ phase # "down"
         /\ Save.what = "player" => Save.who \in Players /\ Here(Save.who)
         /\ Group(Save) \subseteq Places
         /\ \A x \in Group(Save) : There(x)
<1>1. todo \in Seq(Saves) /\ todo # <<>>
  BY DEF TypeOK, Saving
<1>2. /\ Len(todo) \in Nat /\ Len(todo) >= 1 /\ 1 \in 1..Len(todo)
      /\ Save = todo[1] /\ Save \in Saves
  BY <1>1, SeqFacts DEF Save
<1>3. Entry(1)
  BY <1>2 DEF Listed
<1>4. Save.what = "player" => Save.who \in Players /\ Here(Save.who)
  BY <1>2, <1>3 DEF Entry, Here
<1>5. Planned(Save, Now)
  BY <1>2, <1>4, PlannedSaves DEF Now
<1>6. at \in 1..Len(Now) /\ Statement = Now[at]
  BY DEF Shape, Now, Statement
<1>7. phase # "down"
  BY DEF Shape, Saving
<1>8. Group(Save) \subseteq Places /\ \A x \in Group(Save) : There(x)
  <2>1. Save.what \in {"player", "info", "house", "market"}
    BY <1>2 DEF Saves
  <2>2. CASE Save.what = "player"
    BY <1>4, <1>7, <2>2, PlaceFacts DEF Group, There
  <2>3. CASE Save.what # "player"
    BY <1>7, <2>1, <2>3, PlaceFacts DEF Group, There
  <2>4. QED
    BY <2>2, <2>3
<1>9. QED
  BY <1>2, <1>3, <1>4, <1>5, <1>6, <1>7, <1>8

-----------------------------------------------------------------------------
(* The list of saves.  A save goes on, is tried again, or is dropped.       *)
Rest == <<held, online, opened>>

Goes == at < Len(Now) /\ at' = at + 1 /\ UNCHANGED <<todo, Rest>>
Stays == UNCHANGED <<todo, at, Rest>>
Retries ==
  /\ Save.tries > 1
  /\ todo' = [todo EXCEPT ![1].tries = @ - 1] /\ at' = 1 /\ UNCHANGED Rest
Drops ==
  /\ at' = 1 /\ After(Save)
  /\ \/ todo' = Tail(todo)
     \/ /\ Save.what = "info" /\ todo' = Tail(Tail(todo))
        /\ damaged' \/ phase = "open"

LEMMA Retried ==
  ASSUME TypeOK, Saving, Retries
  PROVE  /\ todo' \in Seq(Saves) /\ Len(todo') = Len(todo)
         /\ \A k \in 1..Len(todo) :
              /\ todo'[k].what = todo[k].what /\ todo'[k].who = todo[k].who
              /\ todo'[k].leaves = todo[k].leaves
<1> DEFINE s == todo[1]   n == s.tries - 1   r == [s EXCEPT !.tries = n]
           l == Len(todo)
<1>1. todo \in Seq(Saves) /\ todo # <<>>
  BY DEF TypeOK, Saving
<1>2. l \in Nat /\ 1 \in 1..l /\ s \in Saves /\ Save = s
  BY <1>1, SeqFacts DEF Save
<1>3. todo' = [todo EXCEPT ![1] = r]
  BY DEF Retries
<1>4. n \in 1..3
  BY <1>2 DEF Retries, Saves
<1> HIDE DEF n
<1>5. r \in Saves /\ r.what = s.what /\ r.who = s.who /\ r.leaves = s.leaves
  BY <1>2, <1>4 DEF Saves
<1> HIDE DEF r
<1>6. todo \in [1..l -> Saves]
  BY <1>1
<1> HIDE DEF l
<1>7. /\ todo' \in [1..l -> Saves] /\ todo'[1] = r
      /\ \A k \in 1..l : k # 1 => todo'[k] = todo[k]
  BY <1>2, <1>3, <1>5, <1>6
<1>8. todo' \in Seq(Saves) /\ Len(todo') = l
  BY <1>2, <1>7, IsASeq, LenProperties
<1>9. \A k \in 1..l :
        /\ todo'[k].what = todo[k].what /\ todo'[k].who = todo[k].who
        /\ todo'[k].leaves = todo[k].leaves
  BY <1>5, <1>7
<1>10. QED
  BY <1>8, <1>9 DEF l

(* What is left of the list.                                                *)
LEMMA Dropped ==
  ASSUME TypeOK, Shape, Listed, Saving, Drops
  PROVE  /\ todo' \in Seq(Saves)
         /\ \/ /\ Len(todo') = Len(todo) - 1
               /\ \A k \in 1..Len(todo') : k + 1 \in 1..Len(todo) /\ todo'[k] = todo[k + 1]
            \/ /\ todo' = <<>> /\ Len(todo) = 2 /\ Save.what = "info"
               /\ damaged' \/ phase = "open"
<1>1. todo \in Seq(Saves) /\ todo # <<>> /\ Len(todo) \in Nat
  BY SeqFacts DEF TypeOK, Saving
<1>2. /\ Tail(todo) \in Seq(Saves) /\ Len(Tail(todo)) = Len(todo) - 1
      /\ \A k \in 1..Len(Tail(todo)) : Tail(todo)[k] = todo[k + 1]
  BY <1>1, SeqFacts
<1>3. CASE todo' = Tail(todo)
  <2>1. \A k \in 1..Len(todo') : k + 1 \in 1..Len(todo)
    BY <1>1, <1>2, <1>3
  <2>2. QED
    BY <1>2, <1>3, <2>1
<1>4. CASE /\ Save.what = "info" /\ todo' = Tail(Tail(todo))
           /\ damaged' \/ phase = "open"
  <2>1. Len(todo) = 2
    BY <1>4, Standing DEF Entry
  <2> DEFINE u == Tail(todo)
  <2>2. u \in Seq(Saves) /\ Len(u) = 1 /\ todo' = Tail(u)
    BY <1>2, <1>4, <2>1
  <2> HIDE DEF u
  <2>3. u # <<>>
    BY <2>2, SeqFacts
  <2>4. Tail(u) \in Seq(Saves) /\ Len(Tail(u)) = 0
    BY <2>2, <2>3, SeqFacts
  <2>5. Tail(u) = <<>>
    BY <2>4, SeqFacts
  <2>6. QED
    BY <1>4, <2>1, <2>2, <2>4, <2>5
<1>5. QED
  BY <1>3, <1>4 DEF Drops

(* Who stays in the game, and in memory, when a save is dropped.            *)
LEMMA Leaving ==
  ASSUME TypeOK, Shape, Listed, Saving, Drops
  PROVE  /\ Save.leaves =>
              /\ Save.what = "player" /\ Save.who \in Players
              /\ online' = online \ {Save.who} /\ opened' = opened \ {Save.who}
              /\ held' = [x \in Places |->
                            IF x \in Of(Save.who) THEN {} ELSE held[x]]
         /\ ~Save.leaves => UNCHANGED Rest
         /\ online' \subseteq online /\ opened' \subseteq opened
         /\ opened' \subseteq online'
         /\ held' \in [Places -> SUBSET Items]
<1>1. Entry(1) /\ Save = todo[1] /\ (Save.what = "player" => Save.who \in Players)
  BY Standing
<1>2. Save.leaves => Save.what = "player"
  BY <1>1 DEF Entry
<1>3. After(Save)
  BY DEF Drops
<1>4. opened \subseteq online /\ held \in [Places -> SUBSET Items]
  BY DEF Shape, TypeOK
<1>5. CASE Save.leaves
  BY <1>1, <1>2, <1>3, <1>4, <1>5 DEF After
<1>6. CASE ~Save.leaves
  BY <1>3, <1>4, <1>6 DEF After, Rest
<1>7. QED
  BY <1>5, <1>6

LEMMA ListAfterDrop ==
  ASSUME TypeOK, Shape, Listed, Saving, Drops, phase' = phase
  PROVE  Listed'
<1>1. /\ \A k \in 1..Len(todo) : Entry(k)
      /\ \A j, k \in 1..Len(todo) :
           todo[j].what = "player" /\ todo[k].what = "player"
             /\ todo[j].who = todo[k].who => j = k
      /\ phase = "stopping" => \A p \in online :
           \E k \in 1..Len(todo) : todo[k].what = "player" /\ todo[k].who = p
  BY DEF Listed
<1>2. /\ Len(todo) \in Nat /\ 1 \in 1..Len(todo) /\ Save = todo[1]
      /\ todo' \in Seq(Saves) /\ Len(todo') \in Nat
  BY Standing, Dropped, SeqFacts
<1>3. /\ Save.leaves => Save.what = "player" /\ online' = online \ {Save.who}
      /\ ~Save.leaves => online' = online
      /\ online' \subseteq online
  BY Leaving DEF Rest
<1>4. CASE todo' = <<>> /\ Len(todo) = 2 /\ Save.what = "info"
  <2>1. \A k \in 1..Len(todo) : k = 1 \/ k = 2
    BY <1>4
  <2>2. todo[2].what = "house" /\ todo[1].what = "info"
    BY <1>1, <1>2, <1>4 DEF Entry
  <2>3. \A k \in 1..Len(todo) : todo[k].what # "player"
    BY <2>1, <2>2
  <2>4. phase = "stopping" => online = {}
    BY <1>1, <2>3
  <2>5. Len(todo') = 0
    BY <1>4, SeqFacts
  <2>6. QED
    BY <1>3, <2>4, <2>5 DEF Listed
<1>5. CASE /\ Len(todo') = Len(todo) - 1
           /\ \A k \in 1..Len(todo') :
                k + 1 \in 1..Len(todo) /\ todo'[k] = todo[k + 1]
  <2>1. ASSUME NEW k \in 1..Len(todo') PROVE Entry(k)'
    <3> DEFINE s == todo[k + 1]
    <3>1. /\ Entry(k + 1) /\ todo'[k] = s /\ k + 1 \in 1..Len(todo)
          /\ Len(todo) >= 2 /\ Len(todo) # 1
      BY <1>1, <1>2, <1>5
    <3>2. s.what = "player" =>
            /\ s.who \in Players /\ s.who \in online
            /\ Save.leaves => s.who # Save.who
      <4>1. ASSUME s.what = "player", Save.leaves PROVE s.who # Save.who
        <5>1. todo[1].what = "player" /\ k + 1 # 1
          BY <1>2, <1>3, <4>1
        <5>2. QED
          BY <1>1, <1>2, <3>1, <4>1, <5>1
      <4>2. QED
        BY <3>1, <4>1 DEF Entry
    <3>3. s.what = "player" => s.who \in online'
      BY <1>3, <3>2
    <3>4. s.leaves => s.what = "player" /\ phase # "open"
      BY <3>1 DEF Entry
    <3>5. s.what = "info" => /\ k + 1 = Len(todo') /\ k + 1 \in 1..Len(todo')
                             /\ todo'[k + 1].what = "house"
      <4>1. ASSUME s.what = "info"
            PROVE  (k + 1) + 1 = Len(todo) /\ todo[(k + 1) + 1].what = "house"
        BY <3>1, <4>1 DEF Entry
      <4>2. ASSUME s.what = "info"
            PROVE  k + 1 = Len(todo') /\ k + 1 \in 1..Len(todo')
        BY <1>2, <1>5, <4>1, <4>2
      <4>3. QED
        BY <1>5, <4>1, <4>2
    <3>6. s.what = "house" => k = Len(todo')
      BY <1>2, <1>5, <3>1 DEF Entry
    <3>7. /\ s.what # "market"
          /\ phase = "stopping" /\ s.what = "player" => s.leaves
          /\ s.what = "market" <=> phase = "closing"
      BY <3>1 DEF Entry
    <3> HIDE DEF s
    <3>8. QED
      BY <3>1, <3>2, <3>3, <3>4, <3>5, <3>6, <3>7 DEF Entry
  <2>2. ASSUME NEW j \in 1..Len(todo'), NEW k \in 1..Len(todo'),
               todo'[j].what = "player", todo'[k].what = "player",
               todo'[j].who = todo'[k].who
        PROVE  j = k
    <3>1. j + 1 = k + 1
      BY <1>1, <1>5, <2>2
    <3>2. QED
      BY <1>2, <3>1
  <2>3. ASSUME phase = "stopping", NEW p \in online'
        PROVE  \E k \in 1..Len(todo') : todo'[k].what = "player" /\ todo'[k].who = p
    <3>1. PICK k \in 1..Len(todo) : todo[k].what = "player" /\ todo[k].who = p
      BY <1>1, <1>3, <2>3
    <3>2. k # 1
      <4>1. ASSUME k = 1 PROVE FALSE
        <5>1. Save.what = "player" /\ Save.who = p
          BY <1>2, <3>1, <4>1
        <5>2. Save.leaves
          BY <1>1, <1>2, <2>3, <5>1 DEF Entry
        <5>3. QED
          BY <1>3, <2>3, <5>1, <5>2
      <4>2. QED
        BY <4>1
    <3>3. k - 1 \in 1..Len(todo') /\ (k - 1) + 1 = k
      BY <1>2, <1>5, <3>2
    <3>4. QED
      BY <1>5, <3>1, <3>3
  <2>4. QED
    BY <2>1, <2>2, <2>3 DEF Listed
<1>6. QED
  BY <1>4, <1>5, Dropped

(* A list of saves that begins anew is in shape.                            *)
LEMMA Anew ==
  ASSUME TypeOK', Listed', at' = 1, phase' # "down",
         opened' \subseteq online', phase' = "closing" => online' = {}
  PROVE  Shape'
<1>1. Saving' => at' \in 1..Len(Now)'
  <2> SUFFICES ASSUME Saving' PROVE at' \in 1..Len(Now)'
    OBVIOUS
  <2>1. todo' \in Seq(Saves) /\ todo' # <<>>
    BY DEF TypeOK, Saving
  <2>2. Len(todo') \in Nat /\ 1 \in 1..Len(todo') /\ Save' = todo'[1]
        /\ Save' \in Saves
    BY <2>1, SeqFacts DEF Save
  <2>3. Save'.what = "player" => Save'.who \in Players
    BY <2>2 DEF Listed, Entry
  <2>4. Planned(Save, Now)'
    BY <2>2, <2>3, PlansStayOk DEF PlansOk, Now
  <2>5. Len(Now)' \in Nat /\ Len(Now)' >= 2
    BY <2>4 DEF Planned
  <2>6. QED
    BY <2>5
<1>2. QED
  BY <1>1 DEF Shape

LEMMA QueueKept ==
  ASSUME TypeOK, Shape, Listed, Saving, phase' = phase,
         Goes \/ Stays \/ Retries \/ Drops
  PROVE  /\ todo' \in Seq(Saves) /\ at' \in Nat
         /\ online' \subseteq Players /\ opened' \subseteq Players
         /\ held' \in [Places -> SUBSET Items]
         /\ Listed'
         /\ TypeOK' => Shape'
<1>1. /\ todo \in Seq(Saves) /\ at \in Nat /\ online \subseteq Players
      /\ opened \subseteq Players /\ held \in [Places -> SUBSET Items]
      /\ Planned(Save, Now) /\ at \in 1..Len(Now) /\ phase # "down"
  BY Standing DEF TypeOK
<1>2. CASE Goes \/ Stays
  <2>1. UNCHANGED <<todo, held, online, opened>>
        /\ (at' = at \/ (at' = at + 1 /\ at < Len(Now)))
    BY <1>2 DEF Goes, Stays, Rest
  <2>2. Listed'
    BY <2>1 DEF Listed, Entry
  <2>3. Save' = Save /\ Now' = Now /\ (Saving' <=> Saving)
    BY <2>1 DEF Save, Now, Saving, Statements, Player, Depot
  <2>4. at' \in 1..Len(Now) /\ at' \in Nat
    BY <1>1, <2>1 DEF Planned
  <2>5. Shape'
    BY <1>1, <2>1, <2>3, <2>4 DEF Shape
  <2>6. QED
    BY <1>1, <2>1, <2>2, <2>4, <2>5
<1>3. CASE Retries
  <2>1. /\ todo' \in Seq(Saves) /\ Len(todo') = Len(todo)
        /\ \A k \in 1..Len(todo) :
             /\ todo'[k].what = todo[k].what /\ todo'[k].who = todo[k].who
             /\ todo'[k].leaves = todo[k].leaves
    BY <1>3, Retried
  <2>2. UNCHANGED <<held, online, opened>> /\ at' = 1
    BY <1>3 DEF Retries, Rest
  <2>3. \A k \in 1..Len(todo) : Entry(k)'
    <3>1. \A k \in 1..Len(todo) : k + 1 = Len(todo) => k + 1 \in 1..Len(todo)
      OBVIOUS
    <3>2. QED
      BY <2>1, <2>2, <3>1 DEF Listed, Entry
  <2>4. Listed'
    BY <2>1, <2>2, <2>3 DEF Listed
  <2>5. TypeOK' => Shape'
    BY <1>1, <2>2, <2>4, Anew DEF Shape
  <2>6. QED
    BY <1>1, <2>1, <2>2, <2>4, <2>5
<1>4. CASE Drops
  <2>1. Listed' /\ todo' \in Seq(Saves) /\ at' = 1
    BY <1>4, ListAfterDrop, Dropped DEF Drops
  <2>2. /\ online' \subseteq online /\ opened' \subseteq opened
        /\ opened' \subseteq online' /\ held' \in [Places -> SUBSET Items]
    BY <1>4, Leaving
  <2>3. TypeOK' => Shape'
    BY <1>1, <2>1, <2>2, Anew DEF Shape
  <2>4. QED
    BY <1>1, <2>1, <2>2, <2>3
<1>5. QED
  BY <1>2, <1>3, <1>4

-----------------------------------------------------------------------------
(* The tables.  A statement of a save touches what the save replaces; a     *)
(* save that is dropped has written it all, or was given up.                *)
Aside ==
  \A x \in Places : x \notin Group(Save) \/ Unopened(x) => work'[x] = work[x]

Done == \A x \in Group(Save) : Unopened(x) \/ work'[x] = held[x]

Outcome ==
  \/ Goes \/ Stays \/ Retries
  \/ Drops /\ (Done \/ damaged' \/ (~Save.leaves /\ phase = "open"))

StoreTyped ==
  /\ rows' \in [Places -> SUBSET Items] /\ work' \in [Places -> SUBSET Items]
  /\ begun' \in BOOLEAN /\ locked' \in BOOLEAN

SaveStep == Aside /\ Outcome /\ StoreTyped /\ Written'

LEMMA Fresh ==
  ASSUME at' = 1, ~begun', begun' = locked', work' = rows'
  PROVE  Written'
<1>1. ~(Begun')
  BY DEF Begun
<1>2. \A k \in 1..(at' - 1) : FALSE
  OBVIOUS
<1>3. QED
  BY <1>1, <1>2 DEF Written

LEMMA SameList ==
  ASSUME Saving, UNCHANGED <<todo, opened>>
  PROVE  Saving' /\ Save' = Save /\ Now' = Now
BY DEF Saving, Save, Now, Statements, Player, Depot

LEMMA AtFacts ==
  ASSUME TypeOK, Shape, Listed, Written, Saving
  PROVE  LET t == Now[at] IN
         /\ at \in 1..Len(Now) /\ Len(Now) \in Nat /\ at \in Nat
         /\ Statement = t /\ t[1] \in Kinds
         /\ t = <<"begin">> <=> t[1] = "begin"
         /\ t = <<"commit">> <=> t[1] = "commit"
         /\ t[1] = "commit" <=> Save.what # "market" /\ at = Len(Now)
         /\ t[1] = "select" => at = 1
         /\ Save.what = "market" => Writing(t) /\ ~begun
         /\ Writing(t) => /\ t[2] \in Group(Save) /\ t[2] \in Places /\ ~Unopened(t[2])
                          /\ Save.what # "market" => begun
         /\ begun = locked /\ begun \in BOOLEAN
         /\ ~begun => work = rows
<1>1. /\ Planned(Save, Now) /\ at \in 1..Len(Now) /\ Statement = Now[at]
      /\ Group(Save) \subseteq Places
  BY Standing
<1>2. Len(Now) \in Nat
  BY <1>1 DEF Planned
<1>3. at \in Nat
  BY <1>1, <1>2
<1>4. begun = locked /\ begun \in BOOLEAN /\ (~begun => work = rows)
      /\ (locked <=> Save.what # "market" /\ Begun)
  BY DEF Written, TypeOK
<1>5. Writing(Now[at]) =>
        /\ Now[at][2] \in Group(Save) /\ ~Unopened(Now[at][2])
        /\ Save.what # "market" => Begun
  BY <1>1 DEF Planned, Begun
<1>6. QED
  BY <1>1, <1>2, <1>3, <1>4, <1>5 DEF Planned

(* The next statement, or the next rows of the same INSERT.                 *)
LEMMA WrittenOn ==
  ASSUME TypeOK, Shape, Listed, Written, Saving, Goes \/ Stays,
         begun' = locked', ~begun' => work' = rows',
         \/ UNCHANGED locked /\ Now[at] # <<"begin">>
         \/ locked' = TRUE /\ Save.what # "market" /\ Now[at] = <<"begin">> /\ Goes,
         \A x \in Places : work'[x] # rows'[x] =>
            work[x] # rows[x] \/ (Writing(Now[at]) /\ Now[at][2] = x),
         \A k \in 1..(at' - 1) :
            Now[k][1] = "insert" => work'[Now[k][2]] = held[Now[k][2]]
  PROVE  Written'
<1>1. UNCHANGED <<todo, opened, held>> /\ (at' = at \/ at' = at + 1)
      /\ (Goes => at' = at + 1) /\ at \in Nat /\ at >= 1
  BY AtFacts DEF Goes, Stays, Rest
<1>2. Saving' /\ Save' = Save /\ Now' = Now
  BY <1>1, SameList
<1>3. locked' <=> Save.what # "market" /\ Begun'
  <2>1. locked <=> Save.what # "market" /\ Begun
    BY DEF Written
  <2>2. Begun' <=> \E k \in 1..(at' - 1) : Now[k] = <<"begin">>
    BY <1>2 DEF Begun
  <2>3. CASE UNCHANGED locked /\ Now[at] # <<"begin">>
    <3>1. \A k \in 1..(at' - 1) : k \in 1..(at - 1) \/ k = at
      BY <1>1
    <3>2. \A k \in 1..(at - 1) : k \in 1..(at' - 1)
      BY <1>1
    <3>3. Begun' <=> Begun
      BY <2>2, <2>3, <3>1, <3>2 DEF Begun
    <3>4. QED
      BY <2>1, <2>3, <3>3
  <2>4. CASE locked' = TRUE /\ Save.what # "market" /\ Now[at] = <<"begin">> /\ Goes
    <3>1. at \in 1..(at' - 1)
      BY <1>1, <2>4
    <3>2. QED
      BY <2>2, <2>4, <3>1
  <2>5. QED
    BY <2>3, <2>4
<1>4. \A x \in Places : work'[x] # rows'[x] =>
        \E k \in 1..at' : Writing(Now[k]) /\ Now[k][2] = x
  <2>1. \A x \in Places : work[x] # rows[x] =>
          \E k \in 1..at : Writing(Now[k]) /\ Now[k][2] = x
    BY DEF Written
  <2>2. at \in 1..at' /\ \A k \in 1..at : k \in 1..at'
    BY <1>1
  <2>3. QED
    BY <2>1, <2>2
<1>5. QED
  BY <1>1, <1>2, <1>3, <1>4 DEF Written

LEMMA BeginStep ==
  ASSUME TypeOK, Shape, Listed, Written, Begin
  PROVE  SaveStep
<1>1. Saving /\ Statement = <<"begin">> /\ Proceed
      /\ begun' = TRUE /\ locked' = TRUE /\ UNCHANGED <<rows, work>>
  BY DEF Begin, BeginTransaction
<1>2. /\ Now[at] = <<"begin">> /\ Now[at][1] = "begin"
      /\ Save.what # "market" /\ at # Len(Now) /\ ~Writing(Now[at])
  <2>1. Now[at] = <<"begin">>
    BY <1>1, AtFacts
  <2>2. Now[at][1] = "begin" /\ ~Writing(Now[at])
    BY <2>1 DEF Writing
  <2>3. QED
    BY <1>1, <2>1, <2>2, AtFacts
<1>3. Goes
  BY <1>1, <1>2, AtFacts DEF Proceed, Goes, Now, Rest
<1>4. \A k \in 1..(at' - 1) :
        Now[k][1] = "insert" => work'[Now[k][2]] = held[Now[k][2]]
  <2>1. \A k \in 1..(at' - 1) : k \in 1..(at - 1) \/ k = at
    BY <1>1, <1>3, AtFacts DEF Goes
  <2>2. QED
    BY <1>1, <1>2, <2>1 DEF Written
<1>5. Written'
  BY <1>1, <1>2, <1>3, <1>4, WrittenOn
<1>6. QED
  BY <1>1, <1>3, <1>5 DEF SaveStep, Aside, Outcome, StoreTyped, TypeOK

LEMMA WritingStep ==
  ASSUME TypeOK, Shape, Listed, Written, Saving, Writing(Now[at]),
         NEW w \in [Places -> SUBSET Items], Wrote(w), UNCHANGED <<begun, locked>>,
         \A y \in Places : y # Now[at][2] => w[y] = work[y],
         Proceed \/ Stays,
         Stays \/ (Now[at][1] = "insert" => w[Now[at][2]] = held[Now[at][2]])
  PROVE  SaveStep
<1> DEFINE x == Now[at][2]
<1>1. /\ at \in 1..Len(Now) /\ Len(Now) \in Nat /\ at \in Nat
      /\ x \in Group(Save) /\ x \in Places /\ ~Unopened(x)
      /\ Save.what # "market" => begun
      /\ Save.what = "market" => ~begun
      /\ begun = locked /\ begun \in BOOLEAN /\ (~begun => work = rows)
  BY AtFacts
<1>2. Now[at][1] # "commit" /\ Now[at] # <<"begin">>
  BY DEF Writing
<1>3. work' = w /\ (begun => rows' = rows) /\ (~begun => rows' = w)
  BY DEF Wrote
<1>4. Aside
  BY <1>1, <1>3 DEF Aside
<1>5. StoreTyped
  BY <1>1, <1>3 DEF StoreTyped, TypeOK
<1>6. Planned(Save, Now)
  BY Standing
<1>7. ASSUME NEW k \in 1..(at - 1), Now[k][1] = "insert"
      PROVE  work'[Now[k][2]] = held[Now[k][2]]
  <2>1. k \in 1..Len(Now) /\ ~(at <= k)
    BY <1>1
  <2>2. Now[k][2] \in Places
    BY <1>6, <1>7, <2>1, Standing DEF Planned, Writing
  <2>3. Now[k][2] # x
    BY <1>1, <1>6, <1>7, <2>1 DEF Planned
  <2>4. work[Now[k][2]] = held[Now[k][2]]
    BY <1>7 DEF Written
  <2>5. QED
    BY <1>3, <2>2, <2>3, <2>4
<1>8. CASE Goes \/ Stays
  <2>1. ASSUME NEW k \in 1..(at' - 1), Now[k][1] = "insert"
        PROVE  work'[Now[k][2]] = held[Now[k][2]]
    <3>1. CASE k \in 1..(at - 1)
      BY <1>7, <2>1, <3>1
    <3>2. CASE k \notin 1..(at - 1)
      <4>1. k = at /\ at' # at
        BY <1>1, <1>8, <2>1, <3>2 DEF Goes, Stays
      <4>2. ~Stays
        BY <4>1 DEF Stays
      <4>3. QED
        BY <1>3, <2>1, <4>1, <4>2
    <3>3. QED
      BY <3>1, <3>2
  <2>2. \A y \in Places : work'[y] # rows'[y] => work[y] # rows[y] \/ x = y
    BY <1>1, <1>3
  <2>3. begun' = locked' /\ (~begun' => work' = rows')
    BY <1>1, <1>3
  <2>4. Written'
    BY <1>2, <1>8, <2>1, <2>2, <2>3, WrittenOn
  <2>5. QED
    BY <1>4, <1>5, <1>8, <2>4 DEF SaveStep, Outcome
<1>9. CASE ~(Goes \/ Stays)
  <2>1. at = Len(Now) /\ Finish
    BY <1>1, <1>9 DEF Proceed, Goes, Now, Rest
  <2>2. Save.what = "market" /\ ~begun
    BY <1>1, <1>2, <2>1, AtFacts
  <2>3. Drops /\ at' = 1
    BY <2>1 DEF Finish, Drops
  <2>4. Written'
    BY <1>1, <1>3, <2>2, <2>3, Fresh
  <2>5. ASSUME NEW y \in Group(Save), ~Unopened(y) PROVE work'[y] = held[y]
    <3>1. PICK k \in 1..Len(Now) : Now[k][1] = "insert" /\ Now[k][2] = y
      BY <1>6, <2>5 DEF Planned
    <3>2. CASE k = at
      BY <1>3, <1>9, <3>1, <3>2
    <3>3. CASE k # at
      <4>1. k \in 1..(at - 1)
        BY <1>1, <2>1, <3>3
      <4>2. QED
        BY <1>7, <3>1, <4>1
    <3>4. QED
      BY <3>2, <3>3
  <2>6. Done
    BY <2>5 DEF Done
  <2>7. QED
    BY <1>4, <1>5, <2>3, <2>4, <2>6 DEF SaveStep, Outcome
<1>10. QED
  BY <1>8, <1>9

LEMMA DeleteStep ==
  ASSUME TypeOK, Shape, Listed, Written, Delete
  PROVE  SaveStep
<1> DEFINE x == Statement[2]   w == [work EXCEPT ![x] = {}]
<1>1. Saving /\ Statement = Now[at] /\ Now[at][1] = "delete" /\ Proceed
      /\ Wrote(w) /\ UNCHANGED <<begun, locked>>
  BY AtFacts DEF Delete
<1>2. Writing(Now[at]) /\ Now[at][1] # "insert"
  BY <1>1 DEF Writing
<1>3. w \in [Places -> SUBSET Items] /\ \A y \in Places : y # x => w[y] = work[y]
  BY DEF TypeOK
<1> HIDE DEF w
<1>4. QED
  BY <1>1, <1>2, <1>3, WritingStep

LEMMA InsertStep ==
  ASSUME TypeOK, Shape, Listed, Written, Insert
  PROVE  SaveStep
<1> DEFINE x == Statement[2]
<1>1. Saving /\ Statement = Now[at] /\ Now[at][1] = "insert"
      /\ work[x] \subseteq held[x] /\ UNCHANGED <<begun, locked>>
  BY AtFacts DEF Insert
<1>2. Writing(Now[at])
  BY <1>1 DEF Writing
<1>3. x \in Places
  BY <1>1, <1>2, AtFacts
<1>4. PICK S \in SUBSET Missing :
        /\ Wrote([work EXCEPT ![x] = @ \cup S])
        /\ IF S = Missing THEN Proceed ELSE UNCHANGED <<todo, at, held, online, opened>>
  BY DEF Insert
<1> DEFINE w == [work EXCEPT ![x] = @ \cup S]
<1>5. work \in [Places -> SUBSET Items] /\ held \in [Places -> SUBSET Items]
  BY DEF TypeOK
<1>6. Missing = held[x] \ work[x]
  BY DEF Missing
<1>7. w \in [Places -> SUBSET Items] /\ \A y \in Places : y # x => w[y] = work[y]
  BY <1>3, <1>5, <1>6
<1>8. S = Missing => w[x] = held[x]
  BY <1>1, <1>3, <1>5, <1>6
<1>9. Wrote(w)
  BY <1>4
<1> HIDE DEF w
<1>10. CASE S = Missing
  BY <1>1, <1>2, <1>4, <1>7, <1>8, <1>9, <1>10, WritingStep
<1>11. CASE S # Missing
  <2>1. Stays
    BY <1>4, <1>11 DEF Stays, Rest
  <2>2. QED
    BY <1>1, <1>2, <1>7, <1>9, <2>1, WritingStep
<1>12. QED
  BY <1>10, <1>11

LEMMA OtherStep ==
  ASSUME TypeOK, Shape, Listed, Written, Other
  PROVE  SaveStep
<1>1. Saving /\ Statement = Now[at] /\ Now[at][1] \in {"select", "update"}
      /\ Proceed /\ UNCHANGED <<rows, work, begun, locked>>
  BY AtFacts DEF Other, store
<1>2. /\ Now[at][1] # "begin" /\ Now[at][1] # "commit" /\ Now[at][1] # "insert"
      /\ ~Writing(Now[at])
  BY <1>1 DEF Writing
<1>3. Goes
  BY <1>1, <1>2, AtFacts DEF Proceed, Goes, Now, Rest
<1>4. \A k \in 1..(at' - 1) :
        Now[k][1] = "insert" => work'[Now[k][2]] = held[Now[k][2]]
  <2>1. \A k \in 1..(at' - 1) : k \in 1..(at - 1) \/ k = at
    BY <1>1, <1>3, AtFacts DEF Goes
  <2>2. QED
    BY <1>1, <1>2, <2>1 DEF Written
<1>5. begun = locked /\ (~begun => work = rows) /\ Now[at] # <<"begin">>
  BY <1>1, <1>2, AtFacts
<1>6. Written'
  BY <1>1, <1>3, <1>4, <1>5, WrittenOn
<1>7. QED
  BY <1>1, <1>3, <1>6 DEF SaveStep, Aside, Outcome, StoreTyped, TypeOK

LEMMA CommitStep ==
  ASSUME TypeOK, Shape, Listed, Written, Commit
  PROVE  SaveStep /\ Done
<1>1. Saving /\ Statement = <<"commit">> /\ Proceed
      /\ rows' = work /\ work' = work /\ begun' = FALSE /\ locked' = FALSE
  BY DEF Commit
<1>2. Now[at] = <<"commit">> /\ Now[at][1] = "commit"
  <2>1. Now[at] = <<"commit">>
    BY <1>1, AtFacts
  <2>2. QED
    BY <2>1
<1>3. at = Len(Now) /\ at \in Nat /\ Planned(Save, Now)
  BY <1>1, <1>2, AtFacts, Standing
<1>4. Drops /\ at' = 1
  BY <1>1, <1>3 DEF Proceed, Finish, Drops, Now
<1>5. ASSUME NEW y \in Group(Save), ~Unopened(y) PROVE work'[y] = held[y]
  <2>1. PICK k \in 1..Len(Now) : Now[k][1] = "insert" /\ Now[k][2] = y
    BY <1>3, <1>5 DEF Planned
  <2>2. k # at
    BY <1>2, <2>1
  <2>3. k \in 1..(at - 1)
    BY <1>3, <2>2
  <2>4. QED
    BY <1>1, <2>1, <2>3 DEF Written
<1>6. Done
  BY <1>5 DEF Done
<1>7. Written'
  BY <1>1, <1>4, Fresh
<1>8. QED
  BY <1>1, <1>4, <1>6, <1>7 DEF SaveStep, Aside, Outcome, StoreTyped, TypeOK

LEMMA GivenUp ==
  ASSUME GiveUp
  PROVE  /\ Drops /\ at' = 1 /\ (damaged' \/ (~Save.leaves /\ phase = "open"))
         /\ damaged' = (damaged \/ Save.leaves \/ phase # "open")
BY DEF GiveUp, Drops

LEMMA Abandoned ==
  ASSUME Abandon
  PROVE  /\ at' = 1
         /\ Retries \/ (Drops /\ (damaged' \/ (~Save.leaves /\ phase = "open")))
<1>1. CASE TriesAgain(Save)
  BY <1>1 DEF Abandon, Retries, TriesAgain, Rest
<1>2. CASE ~TriesAgain(Save)
  BY <1>2, GivenUp DEF Abandon
<1>3. QED
  BY <1>1, <1>2

LEMMA Touched ==
  ASSUME TypeOK, Shape, Listed, Written, Saving
  PROVE  \A x \in Places : work[x] # rows[x] => x \in Group(Save) /\ ~Unopened(x)
<1>1. Planned(Save, Now) /\ at \in 1..Len(Now) /\ Len(Now) \in Nat
  BY Standing, AtFacts
<1>2. ASSUME NEW x \in Places, work[x] # rows[x]
      PROVE  x \in Group(Save) /\ ~Unopened(x)
  <2>1. PICK k \in 1..at : Writing(Now[k]) /\ Now[k][2] = x
    BY <1>2 DEF Written
  <2>2. k \in 1..Len(Now)
    BY <1>1
  <2>3. QED
    BY <1>1, <2>1, <2>2 DEF Planned
<1>3. QED
  BY <1>2

LEMMA FailStep ==
  ASSUME TypeOK, Shape, Listed, Written, Fail
  PROVE  SaveStep
<1>1. /\ Saving /\ Abandon /\ work' = rows /\ rows' = rows
      /\ begun' = FALSE /\ locked' = FALSE
  BY DEF Fail, Failing, Rollback
<1>2. at' = 1 /\ Outcome
  BY <1>1, Abandoned DEF Outcome
<1>3. Written'
  BY <1>1, <1>2, Fresh
<1>4. Aside
  BY <1>1, Touched DEF Aside
<1>5. QED
  BY <1>1, <1>2, <1>3, <1>4 DEF SaveStep, StoreTyped, TypeOK

LEMMA FailSelectStep ==
  ASSUME TypeOK, Shape, Listed, Written, FailSelect
  PROVE  SaveStep
<1>1. Saving /\ Statement[1] = "select" /\ Abandon
      /\ UNCHANGED <<rows, work, begun, locked>>
  BY DEF FailSelect, Failing, store
<1>2. at = 1 /\ begun = locked /\ begun \in BOOLEAN /\ (~begun => work = rows)
  BY <1>1, AtFacts
<1>3. ~locked
  BY <1>2 DEF Written, Begun
<1>4. at' = 1 /\ Outcome
  BY <1>1, Abandoned DEF Outcome
<1>5. Written'
  BY <1>1, <1>2, <1>3, <1>4, Fresh
<1>6. QED
  BY <1>1, <1>4, <1>5 DEF SaveStep, Aside, StoreTyped, TypeOK

LEMMA MarketSteps ==
  ASSUME TypeOK, Shape, Listed, Written, FailMarket \/ DuplicateId
  PROVE  SaveStep
<1>1. /\ Saving /\ Save.what = "market" /\ UNCHANGED <<rows, work, begun, locked>>
      /\ GiveUp \/ (Statement[1] = "delete" /\ Proceed /\ damaged' = TRUE)
  BY DEF FailMarket, DuplicateId, Failing, store
<1>2. ~begun /\ begun = locked /\ work = rows /\ at \in Nat /\ Statement = Now[at]
      /\ at \in 1..Len(Now) /\ Len(Now) \in Nat
  BY <1>1, AtFacts
<1>3. CASE GiveUp
  <2>1. at' = 1 /\ Outcome
    BY <1>3, GivenUp DEF Outcome
  <2>2. Written'
    BY <1>1, <1>2, <2>1, Fresh
  <2>3. QED
    BY <1>1, <2>1, <2>2 DEF SaveStep, Aside, StoreTyped, TypeOK
<1>4. CASE Statement[1] = "delete" /\ Proceed /\ damaged' = TRUE
  <2>1. Now[at][1] # "insert" /\ Now[at] # <<"begin">>
    BY <1>2, <1>4
  <2>2. CASE at < Len(Now)
    <3>1. Goes
      BY <1>4, <2>2 DEF Proceed, Goes, Now, Rest
    <3>2. \A k \in 1..(at' - 1) :
            Now[k][1] = "insert" => work'[Now[k][2]] = held[Now[k][2]]
      <4>1. \A k \in 1..(at' - 1) : k \in 1..(at - 1) \/ k = at
        BY <1>2, <3>1 DEF Goes
      <4>2. QED
        BY <1>1, <2>1, <4>1 DEF Written
    <3>3. Written'
      BY <1>1, <1>2, <2>1, <3>1, <3>2, WrittenOn
    <3>4. QED
      BY <1>1, <3>1, <3>3 DEF SaveStep, Aside, Outcome, StoreTyped, TypeOK
  <2>3. CASE ~(at < Len(Now))
    <3>1. Drops /\ at' = 1
      BY <1>4, <2>3 DEF Proceed, Finish, Drops, Now
    <3>2. Written'
      BY <1>1, <1>2, <3>1, Fresh
    <3>3. QED
      BY <1>1, <1>4, <3>1, <3>2 DEF SaveStep, Aside, Outcome, StoreTyped, TypeOK
  <2>4. QED
    BY <2>2, <2>3
<1>5. QED
  BY <1>1, <1>3, <1>4

(* After a save only those are in memory who are in the game.               *)
LEMMA HereAfter ==
  ASSUME TypeOK, Shape, Listed, Saving, Drops, phase' = phase
  PROVE  \A p \in Players :
           /\ Here(p) <=> p \in online \/ (Save.leaves /\ Save.who = p)
           /\ Here(p)' <=> p \in online'
<1>1. \A p \in Players : Here(p) <=> p \in online \/ (Save.leaves /\ Save.who = p)
  BY DEF Here
<1>2. ASSUME Saving', Save'.leaves PROVE Save'.who \in online'
  <2>1. todo' \in Seq(Saves) /\ todo' # <<>>
    BY <1>2, Dropped DEF Saving
  <2>2. /\ Len(todo') \in Nat /\ Len(todo') >= 1 /\ 1 \in 1..Len(todo')
        /\ Save' = todo'[1]
    BY <2>1, SeqFacts DEF Save
  <2>3. Entry(1)'
    BY <2>2, ListAfterDrop DEF Listed
  <2>4. /\ Len(todo') = Len(todo) - 1 /\ Len(todo) \in Nat
        /\ 1 + 1 \in 1..Len(todo) /\ todo'[1] = todo[1 + 1]
    BY <2>1, <2>2, Dropped, Standing
  <2>5. Entry(1 + 1) /\ Len(todo) # 1
    BY <2>2, <2>4 DEF Listed
  <2>6. phase # "open"
    BY <1>2, <2>2, <2>4, <2>5 DEF Entry
  <2>7. QED
    BY <1>2, <2>2, <2>3, <2>6 DEF Entry
<1>3. \A p \in Players : Here(p)' <=> p \in online'
  BY <1>2 DEF Here
<1>4. QED
  BY <1>1, <1>3

LEMMA GroupFacts ==
  ASSUME TypeOK, Shape, Listed, Saving
  PROVE  /\ House \in Group(Save) <=> Save.what = "house"
         /\ Market \in Group(Save) <=> Save.what = "market"
         /\ Save.what = "player" => Group(Save) = Of(Save.who)
<1>1. /\ Save.what \in {"player", "info", "house", "market"}
      /\ Save.what = "player" => Save.who \in Players
  BY Standing DEF Saves
<1>2. QED
  BY <1>1, PlaceFacts DEF Group

LEMMA SafeWhileSaving ==
  ASSUME TypeOK, Shape, Listed, Saving, phase' = phase, Aside,
         Goes \/ Stays \/ Retries, Alone, Depots, HouseSaved, MarketSaved
  PROVE  Alone' /\ Depots' /\ HouseSaved' /\ MarketSaved'
<1>1. UNCHANGED <<held, online, opened>>
  BY DEF Goes, Stays, Retries, Rest
<1>2. /\ Len(todo') = Len(todo) /\ todo' \in Seq(Saves)
      /\ \A k \in 1..Len(todo) :
           /\ todo'[k].what = todo[k].what /\ todo'[k].who = todo[k].who
           /\ todo'[k].leaves = todo[k].leaves
  BY Retried DEF Goes, Stays, TypeOK
<1>3. /\ Len(todo) \in Nat /\ Len(todo) >= 1 /\ 1 \in 1..Len(todo) /\ Save = todo[1]
      /\ \A x \in Group(Save) : There(x)
  BY Standing
<1>4. Saving' /\ Save' = todo'[1]
  BY <1>2, <1>3, SeqFacts DEF Saving, Save
<1>5. Save'.who = Save.who /\ Save'.leaves = Save.leaves
  BY <1>2, <1>3, <1>4
<1>6. \A x \in Places : There(x)' <=> There(x)
  BY <1>1, <1>4, <1>5 DEF There, Here
<1>7. \A x \in Places : Kept(x)' = Kept(x)
  BY <1>1, <1>3, <1>6 DEF Kept, Aside
<1>8. Alone'
  BY <1>7 DEF Alone
<1>9. Depots'
  <2>1. ASSUME NEW p \in Players, Here(p)', p \notin opened'
        PROVE  held'[<<p, "depot">>] = work'[<<p, "depot">>]
    <3>1. Here(p) /\ p \notin opened
      BY <1>1, <1>4, <1>5, <2>1 DEF Here
    <3>2. <<p, "depot">> \in Places /\ Unopened(<<p, "depot">>)
      BY <3>1, PlaceFacts DEF Unopened
    <3>3. QED
      BY <1>1, <3>1, <3>2 DEF Aside, Depots
  <2>2. QED
    BY <2>1 DEF Depots
<1>10. HouseSaved'
  <2>1. SUFFICES ASSUME phase \in {"stopping", "closing"},
                        \A k \in 1..Len(todo) : todo[k].what # "house"
                 PROVE  work'[House] = held'[House]
    BY <1>2 DEF HouseSaved
  <2>2. House \notin Group(Save) /\ House \in Places
    BY <1>3, <2>1, GroupFacts, PlaceFacts
  <2>3. QED
    BY <1>1, <2>1, <2>2 DEF Aside, HouseSaved
<1>11. QED
  BY <1>4, <1>8, <1>9, <1>10 DEF MarketSaved

LEMMA SafeAfterSave ==
  ASSUME TypeOK, Shape, Listed, Saving, phase' = phase, Aside, Drops, ~damaged',
         Done \/ (~Save.leaves /\ phase = "open"),
         Alone, Depots, HouseSaved, MarketSaved
  PROVE  Alone' /\ Depots' /\ HouseSaved' /\ MarketSaved'
<1> DEFINE p == Save.who
<1>1. /\ Save.leaves =>
           /\ Save.what = "player" /\ p \in Players /\ Group(Save) = Of(p)
           /\ online' = online \ {p} /\ opened' = opened \ {p}
           /\ held' = [x \in Places |-> IF x \in Of(p) THEN {} ELSE held[x]]
      /\ ~Save.leaves => UNCHANGED <<held, online, opened>>
  BY Leaving, GroupFacts DEF Rest
<1>2. /\ \A q \in Players : /\ Here(q) <=> q \in online \/ (Save.leaves /\ p = q)
                            /\ Here(q)' <=> q \in online'
      /\ Save.what = "player" => Here(p)
      /\ phase # "down" /\ \A x \in Group(Save) : There(x)
  BY HereAfter, Standing
<1>3. \A q \in Players : Here(q)' <=> Here(q) /\ ~(Save.leaves /\ p = q)
  <2>1. ASSUME NEW q \in Players PROVE Here(q)' <=> Here(q) /\ ~(Save.leaves /\ p = q)
    <3>1. CASE Save.leaves
      BY <1>1, <1>2, <3>1
    <3>2. CASE ~Save.leaves
      BY <1>1, <1>2, <3>2
    <3>3. QED
      BY <3>1, <3>2
  <2>2. QED
    BY <2>1
<1>4. \A x \in Places : There(x)' <=> There(x) /\ ~(Save.leaves /\ x \in Of(p))
  <2>1. ASSUME NEW x \in Places
        PROVE  There(x)' <=> There(x) /\ ~(Save.leaves /\ x \in Of(p))
    <3>1. CASE x \in {House, Market}
      <4>1. ~(Save.leaves /\ x \in Of(p))
        BY <1>1, <3>1, PlaceFacts
      <4>2. QED
        BY <1>2, <3>1, <4>1 DEF There
    <3>2. CASE x \notin {House, Market}
      <4>1. x[1] \in Players /\ x \in Of(x[1])
        BY <3>2, PlaceFacts
      <4>2. Save.leaves => (x \in Of(p) <=> p = x[1])
        BY <1>1, <4>1, PlaceFacts
      <4>3. There(x)' <=> Here(x[1])'
        BY <1>2, <3>2 DEF There
      <4>4. There(x) <=> Here(x[1])
        BY <1>2, <3>2 DEF There
      <4>5. QED
        BY <1>3, <4>1, <4>2, <4>3, <4>4
    <3>3. QED
      BY <3>1, <3>2
  <2>2. QED
    BY <2>1
<1>5. \A x \in Places :
        ~(Save.leaves /\ x \in Of(p)) => held'[x] = held[x]
  BY <1>1
<1>6. \A x \in Places : Kept(x)' = Kept(x)
  <2>1. ASSUME NEW x \in Places, Save.leaves, x \in Of(p) PROVE Kept(x)' = Kept(x)
    <3>1. There(x) /\ ~There(x)'
      BY <1>1, <1>2, <1>4, <2>1
    <3>2. work'[x] = held[x]
      <4>1. CASE Unopened(x)
        <5>1. x = <<p, "depot">> /\ p \notin opened
          BY <2>1, <4>1 DEF Of, Unopened
        <5>2. held[x] = work[x]
          BY <1>1, <1>2, <2>1, <5>1 DEF Depots
        <5>3. QED
          BY <4>1, <5>2 DEF Aside
      <4>2. CASE ~Unopened(x)
        BY <1>1, <2>1, <4>2 DEF Done
      <4>3. QED
        BY <4>1, <4>2
    <3>3. QED
      BY <3>1, <3>2 DEF Kept
  <2>2. ASSUME NEW x \in Places, ~(Save.leaves /\ x \in Of(p)) PROVE Kept(x)' = Kept(x)
    <3>1. There(x)' <=> There(x)
      BY <1>4, <2>2
    <3>2. ~There(x) => work'[x] = work[x]
      BY <1>2 DEF Aside
    <3>3. QED
      BY <1>5, <2>2, <3>1, <3>2 DEF Kept
  <2>3. QED
    BY <2>1, <2>2
<1>7. Alone'
  BY <1>6 DEF Alone
<1>8. Depots'
  <2>1. ASSUME NEW q \in Players, Here(q)', q \notin opened'
        PROVE  held'[<<q, "depot">>] = work'[<<q, "depot">>]
    <3> DEFINE x == <<q, "depot">>
    <3>1. Here(q) /\ ~(Save.leaves /\ p = q)
      BY <1>3, <2>1
    <3>2. x \in Of(q) /\ x \in Places /\ x[1] = q /\ x[2] = "depot"
      BY PlaceFacts
    <3>3. q \notin opened
      BY <1>1, <2>1, <3>1
    <3>4. Unopened(x)
      BY <3>2, <3>3 DEF Unopened
    <3>5. ~(Save.leaves /\ x \in Of(p))
      BY <1>1, <3>1, <3>2, PlaceFacts
    <3>6. held[x] = work[x]
      BY <3>1, <3>3 DEF Depots
    <3>7. QED
      BY <1>5, <3>2, <3>4, <3>5, <3>6 DEF Aside
  <2>2. QED
    BY <2>1 DEF Depots
<1>9. /\ Len(todo) \in Nat /\ 1 \in 1..Len(todo) /\ Save = todo[1] /\ Entry(1)
      /\ Save.what \in {"player", "info", "house", "market"}
  BY Standing DEF Saves
<1>10. ASSUME phase \in {"stopping", "closing"} PROVE Done
  BY <1>10
<1>11. /\ House \in Places /\ Market \in Places /\ ~Unopened(House) /\ ~Unopened(Market)
       /\ held'[House] = held[House] /\ held'[Market] = held[Market]
  BY <1>1, <1>5, PlaceFacts DEF Unopened
<1>12. HouseSaved'
  <2>1. SUFFICES ASSUME phase \in {"stopping", "closing"},
                        \A k \in 1..Len(todo') : todo'[k].what # "house"
                 PROVE  work'[House] = held[House]
    BY <1>11 DEF HouseSaved
  <2>2. CASE Save.what = "house"
    BY <1>10, <1>11, <2>1, <2>2, GroupFacts DEF Done
  <2>3. CASE Save.what # "house"
    <3>1. work'[House] = work[House]
      BY <1>11, <2>3, GroupFacts DEF Aside
    <3>2. /\ Len(todo') = Len(todo) - 1
          /\ \A k \in 1..Len(todo') : k + 1 \in 1..Len(todo) /\ todo'[k] = todo[k + 1]
      BY <2>1, Dropped
    <3>3. ASSUME NEW k \in 1..Len(todo) PROVE todo[k].what # "house"
      <4>1. CASE k = 1
        BY <1>9, <2>3, <4>1
      <4>2. CASE k # 1
        <5>1. k - 1 \in 1..Len(todo') /\ (k - 1) + 1 = k
          BY <1>9, <3>2, <4>2
        <5>2. QED
          BY <2>1, <3>2, <5>1
      <4>3. QED
        BY <4>1, <4>2
    <3>4. QED
      BY <2>1, <3>1, <3>3 DEF HouseSaved
  <2>4. QED
    BY <2>2, <2>3
<1>13. MarketSaved'
  <2>1. SUFFICES ASSUME phase = "closing" PROVE work'[Market] = held[Market]
    BY <1>11 DEF MarketSaved
  <2>2. Save.what = "market"
    BY <1>9, <2>1 DEF Entry
  <2>3. QED
    BY <1>10, <1>11, <2>1, <2>2, GroupFacts DEF Done
<1>14. QED
  BY <1>7, <1>8, <1>12, <1>13

LEMMA SafeStep ==
  ASSUME TypeOK, Shape, Listed, Safe, Saving, phase' = phase, Aside, Outcome,
         damaged => damaged'
  PROVE  Safe'
<1> SUFFICES ASSUME ~damaged' PROVE Alone' /\ Depots' /\ HouseSaved' /\ MarketSaved'
  BY DEF Safe
<1>1. Alone /\ Depots /\ HouseSaved /\ MarketSaved
  BY DEF Safe
<1>2. CASE Goes \/ Stays \/ Retries
  BY <1>1, <1>2, SafeWhileSaving
<1>3. CASE Drops /\ (Done \/ (~Save.leaves /\ phase = "open"))
  BY <1>1, <1>3, SafeAfterSave
<1>4. QED
  BY <1>2, <1>3 DEF Outcome

SaveAction ==
  Begin \/ Delete \/ Insert \/ Other \/ Commit
    \/ Fail \/ FailSelect \/ FailMarket \/ DuplicateId

Counted ==
  count' \in [moves : 0..MaxMoves, failures : 0..MaxFailures,
              crashes : 0..MaxCrashes, sessions : 0..MaxSessions]

LEMMA Counting ==
  ASSUME TypeOK, NEW m \in 0..MaxMoves, NEW f \in 0..MaxFailures,
         NEW c \in 0..MaxCrashes, NEW s \in 0..MaxSessions
  PROVE  /\ UNCHANGED count => Counted
         /\ count' = [count EXCEPT !.moves = m] => Counted
         /\ count' = [count EXCEPT !.failures = f] => Counted
         /\ count' = [count EXCEPT !.crashes = c] => Counted
         /\ count' = [count EXCEPT !.sessions = s] => Counted
         /\ count' = [count EXCEPT !.sessions = s, !.failures = f] => Counted
BY DEF TypeOK, Counted

LEMMA Bounds ==
  ASSUME TypeOK
  PROVE  /\ count.moves \in 0..MaxMoves /\ count.failures \in 0..MaxFailures
         /\ count.crashes \in 0..MaxCrashes /\ count.sessions \in 0..MaxSessions
         /\ MaxMoves \in Nat /\ MaxFailures \in Nat
         /\ MaxCrashes \in Nat /\ MaxSessions \in Nat
<1>1. /\ MaxMoves \in Nat /\ MaxFailures \in Nat
      /\ MaxCrashes \in Nat /\ MaxSessions \in Nat
  BY PersistenceAssumption
<1>2. QED
  BY <1>1 DEF TypeOK

LEMMA FailingCounts ==
  ASSUME TypeOK, Failing
  PROVE  Saving /\ Counted /\ phase' = phase
<1> DEFINE n == count.failures + 1
<1>1. n \in 0..MaxFailures
  BY Bounds DEF Failing
<1>2. count' = [count EXCEPT !.failures = n] /\ Saving /\ phase' = phase
  BY DEF Failing
<1> HIDE DEF n
<1>3. 0 \in 0..MaxMoves /\ 0 \in 0..MaxCrashes /\ 0 \in 0..MaxSessions
  BY Bounds
<1>4. QED
  BY <1>1, <1>2, <1>3, Counting

LEMMA AbandonDamages ==
  ASSUME TypeOK, Abandon \/ GiveUp
  PROVE  damaged' \in BOOLEAN /\ (damaged => damaged')
BY DEF Abandon, GiveUp, TypeOK

LEMMA SaveActionFacts ==
  ASSUME TypeOK, Shape, Listed, Written, SaveAction
  PROVE  /\ SaveStep /\ Saving /\ phase' = phase /\ Counted
         /\ damaged' \in BOOLEAN /\ (damaged => damaged')
<1>1. SaveStep
  BY BeginStep, DeleteStep, InsertStep, OtherStep, CommitStep, FailStep,
     FailSelectStep, MarketSteps DEF SaveAction
<1>2. UNCHANGED count => Counted
  <2>1. 0 \in 0..MaxMoves /\ 0 \in 0..MaxCrashes /\ 0 \in 0..MaxSessions
        /\ 0 \in 0..MaxFailures
    BY Bounds
  <2>2. QED
    BY <2>1, Counting
<1>3. damaged \in BOOLEAN
  BY DEF TypeOK
<1>4. CASE Begin \/ Delete \/ Insert \/ Other \/ Commit
  <2>1. Saving /\ UNCHANGED <<phase, damaged, count>>
    BY <1>4 DEF Begin, Delete, Insert, Other, Commit
  <2>2. QED
    BY <1>1, <1>2, <1>3, <2>1
<1>5. CASE Fail \/ FailSelect
  <2>1. Failing /\ Abandon
    BY <1>5 DEF Fail, FailSelect
  <2>2. QED
    BY <1>1, <2>1, FailingCounts, AbandonDamages
<1>6. CASE FailMarket
  <2>1. Failing /\ (GiveUp \/ damaged' = TRUE)
    BY <1>6 DEF FailMarket
  <2>2. QED
    BY <1>1, <2>1, FailingCounts, AbandonDamages
<1>7. CASE DuplicateId
  <2>1. Saving /\ GiveUp /\ UNCHANGED <<phase, count>>
    BY <1>7 DEF DuplicateId
  <2>2. QED
    BY <1>1, <1>2, <2>1, AbandonDamages
<1>8. QED
  BY <1>4, <1>5, <1>6, <1>7 DEF SaveAction

LEMMA SaveActionKeeps ==
  ASSUME IInv, SaveAction
  PROVE  IInv'
<1>1. TypeOK /\ Shape /\ Listed /\ Written /\ Safe
  BY DEF IInv
<1>2. /\ SaveStep /\ Saving /\ phase' = phase /\ Counted
      /\ damaged' \in BOOLEAN /\ (damaged => damaged')
  BY <1>1, SaveActionFacts
<1>3. Aside /\ Outcome /\ StoreTyped /\ Written'
  BY <1>2 DEF SaveStep
<1>4. Goes \/ Stays \/ Retries \/ Drops
  BY <1>3 DEF Outcome
<1>5. /\ todo' \in Seq(Saves) /\ at' \in Nat
      /\ online' \subseteq Players /\ opened' \subseteq Players
      /\ held' \in [Places -> SUBSET Items]
      /\ Listed'
      /\ TypeOK' => Shape'
  BY <1>1, <1>2, <1>4, QueueKept
<1>6. phase' \in {"open", "stopping", "closing", "down"}
  BY <1>1, <1>2 DEF TypeOK
<1>7. TypeOK'
  BY <1>2, <1>3, <1>5, <1>6 DEF TypeOK, Counted, StoreTyped
<1>8. Safe'
  BY <1>1, <1>2, <1>3, SafeStep
<1>9. QED
  BY <1>3, <1>5, <1>7, <1>8 DEF IInv

-----------------------------------------------------------------------------
(* Between the saves: nothing is to be saved, nothing has been begun.       *)
LEMMA AtRest ==
  ASSUME TypeOK, Shape, Listed, Written, ~Saving
  PROVE  /\ todo = <<>> /\ Len(todo) = 0 /\ at = 1
         /\ begun = FALSE /\ locked = FALSE /\ work = rows
         /\ phase = "stopping" => online = {}
         /\ \A p \in Players : Here(p) <=> p \in online
<1>1. todo = <<>> /\ Len(todo) = 0
  BY SeqFacts DEF Saving
<1>2. at = 1
  BY DEF Shape
<1>3. begun = FALSE /\ locked = FALSE /\ work = rows
  BY DEF Written, TypeOK
<1>4. phase = "stopping" => online = {}
  BY <1>1 DEF Listed
<1>5. QED
  BY <1>1, <1>2, <1>3, <1>4 DEF Here

(* Nothing is to be saved afterwards either.                                *)
LEMMA Settled ==
  ASSUME TypeOK', todo' = <<>>, at' = 1, ~begun', begun' = locked', work' = rows',
         opened' \subseteq online',
         phase' \in {"stopping", "closing", "down"} => online' = {}
  PROVE  Shape' /\ Listed' /\ Written' /\ ~Saving'
<1>1. Len(todo') = 0 /\ ~Saving'
  BY SeqFacts DEF Saving
<1>2. Listed'
  BY <1>1 DEF Listed
<1>3. Shape'
  BY <1>1 DEF Shape
<1>4. QED
  BY <1>1, <1>2, <1>3, Fresh

(* There is something to be saved.                                          *)
LEMMA Started ==
  ASSUME TypeOK, Shape, Listed, Written, ~Saving, UNCHANGED <<at, store, online, opened>>,
         TypeOK', Listed', phase \in {"open", "stopping"},
         phase' # "down", phase' = "closing" => phase = "stopping"
  PROVE  Shape' /\ Written'
<1>1. /\ at' = 1 /\ begun' = FALSE /\ locked' = FALSE /\ work' = rows'
      /\ phase = "stopping" => online = {}
  BY AtRest DEF store
<1>2. opened' \subseteq online'
  BY DEF Shape
<1>3. QED
  BY <1>1, <1>2, Anew, Fresh

LEMMA MovedCounts ==
  ASSUME TypeOK
  PROVE  Moved \/ Session \/ UNCHANGED count => Counted
<1> DEFINE m == count.moves + 1   s == count.sessions + 1
<1>1. Moved => m \in 0..MaxMoves
  BY Bounds DEF Moved
<1>2. Session => s \in 0..MaxSessions
  BY Bounds DEF Session
<1>3. /\ Moved => count' = [count EXCEPT !.moves = m]
      /\ Session => count' = [count EXCEPT !.sessions = s]
  BY DEF Moved, Session
<1> HIDE DEF m, s
<1>4. 0 \in 0..MaxMoves /\ 0 \in 0..MaxCrashes /\ 0 \in 0..MaxSessions
      /\ 0 \in 0..MaxFailures
  BY Bounds
<1>5. QED
  BY <1>1, <1>2, <1>3, <1>4, Counting

(* No item has moved from one of the places to another.                     *)
LEMMA StillAlone ==
  ASSUME Alone, \A z \in Places : Kept(z)' = Kept(z)
  PROVE  Alone'
BY DEF Alone

(* The items of S have moved, from x to y.                                  *)
LEMMA MovedAlone ==
  ASSUME Alone, NEW x \in Places, NEW y \in Places, x # y, NEW S \in SUBSET Items,
         S \subseteq Kept(x),
         Kept(x)' = Kept(x) \ S, Kept(y)' = Kept(y) \cup S,
         \A z \in Places : z # x /\ z # y => Kept(z)' = Kept(z)
  PROVE  Alone'
<1>1. ASSUME NEW i \in Items
      PROVE  \E z \in Places : \A u \in Places : (i \in Kept(u)') <=> u = z
  <2>1. PICK z \in Places : \A u \in Places : i \in Kept(u) <=> u = z
    BY DEF Alone
  <2> DEFINE K(u) == i \in Kept(u)   L(u) == i \in Kept(u)'
  <2>2. /\ \A u \in Places : K(u) <=> u = z
        /\ L(x) <=> K(x) /\ i \notin S
        /\ L(y) <=> K(y) \/ i \in S
        /\ \A u \in Places : u # x /\ u # y => (L(u) <=> K(u))
        /\ i \in S => K(x)
    BY <2>1
  <2> HIDE DEF K, L
  <2>3. CASE i \in S
    <3>1. x = z
      BY <2>2, <2>3
    <3>2. \A u \in Places : L(u) <=> u = y
      BY <2>2, <2>3, <3>1
    <3>3. QED
      BY <3>2 DEF L
  <2>4. CASE i \notin S
    <3>1. \A u \in Places : L(u) <=> u = z
      BY <2>2, <2>4
    <3>2. QED
      BY <3>1 DEF L
  <2>5. QED
    BY <2>3, <2>4
<1>2. QED
  BY <1>1 DEF Alone

LEMMA Reach ==
  ASSUME TypeOK, Shape, Listed, Written, Idle, NEW x \in Places, Reachable(x)
  PROVE  /\ There(x) /\ Kept(x) = held[x]
         /\ \A p \in Players \ opened : x # <<p, "depot">>
         /\ x \notin {House, Market} => x[1] \in online
<1>1. ~Saving /\ phase # "down"
  BY DEF Idle
<1>2. x \notin {House, Market} => x[1] \in Players
  BY PlaceFacts
<1>3. \A p \in Players : Here(p) <=> p \in online
  BY <1>1, AtRest
<1>4. There(x)
  BY <1>1, <1>2, <1>3 DEF There, Reachable
<1>5. ASSUME NEW p \in Players \ opened PROVE x # <<p, "depot">>
  BY <1>5, PlaceFacts DEF Reachable
<1>6. QED
  BY <1>4, <1>5 DEF Kept, Reachable

LEMMA MoveItemKeeps ==
  ASSUME IInv, NEW i \in Items, NEW x \in Places, NEW y \in Places, MoveItem(i, x, y)
  PROVE  IInv'
<1>1. TypeOK /\ Shape /\ Listed /\ Written /\ Safe
  BY DEF IInv
<1>2. /\ Idle /\ Moved /\ x # y /\ i \in held[x] /\ Reachable(x) /\ Reachable(y)
      /\ held' = [held EXCEPT ![x] = @ \ {i}, ![y] = @ \cup {i}]
      /\ UNCHANGED <<phase, online, opened, todo, at, rows, work, begun, locked, damaged>>
  BY DEF MoveItem, store
<1>3. ~Saving /\ phase = "open"
  BY <1>2 DEF Idle
<1>4. /\ todo = <<>> /\ at = 1 /\ begun = FALSE /\ locked = FALSE /\ work = rows
      /\ \A p \in Players : Here(p) <=> p \in online
  BY <1>1, <1>3, AtRest
<1>5. held \in [Places -> SUBSET Items]
  BY <1>1 DEF TypeOK
<1>6. /\ held' \in [Places -> SUBSET Items]
      /\ held'[x] = held[x] \ {i} /\ held'[y] = held[y] \cup {i}
      /\ \A z \in Places : z # x /\ z # y => held'[z] = held[z]
  BY <1>2, <1>5
<1>7. TypeOK'
  BY <1>1, <1>2, <1>6, MovedCounts DEF TypeOK, Counted
<1>8. Shape' /\ Listed' /\ Written' /\ ~Saving'
  <2>1. opened' \subseteq online'
    BY <1>1, <1>2 DEF Shape
  <2>2. QED
    BY <1>2, <1>3, <1>4, <1>7, <2>1, Settled
<1>9. Safe'
  <2> SUFFICES ASSUME ~damaged PROVE Alone' /\ Depots' /\ HouseSaved' /\ MarketSaved'
    BY <1>2 DEF Safe
  <2>1. Alone /\ Depots
    BY <1>1 DEF Safe
  <2>2. \A p \in Players : Here(p)' <=> Here(p)
    BY <1>2, <1>4, <1>8 DEF Here
  <2>3. \A z \in Places : There(z)' <=> There(z)
    BY <1>2, <2>2, PlaceFacts DEF There
  <2>4. /\ There(x) /\ There(y)
        /\ \A p \in Players \ opened : x # <<p, "depot">> /\ y # <<p, "depot">>
    BY <1>1, <1>2, Reach
  <2>5. /\ Kept(x) = held[x] /\ Kept(y) = held[y]
        /\ Kept(x)' = held'[x] /\ Kept(y)' = held'[y]
        /\ \A z \in Places : z # x /\ z # y => Kept(z)' = Kept(z)
    BY <1>2, <1>6, <2>3, <2>4 DEF Kept
  <2> DEFINE S == {i}
  <2>6. Alone'
    <3>1. /\ S \in SUBSET Items /\ S \subseteq Kept(x)
          /\ Kept(x)' = Kept(x) \ S /\ Kept(y)' = Kept(y) \cup S
      BY <1>2, <1>6, <2>5
    <3> HIDE DEF S
    <3>2. QED
      BY <1>2, <2>1, <2>5, <3>1, MovedAlone
  <2>7. Depots'
    <3>1. \A p \in Players : <<p, "depot">> \in Places
      BY PlaceFacts
    <3>2. QED
      BY <1>2, <1>6, <2>1, <2>2, <2>4, <3>1 DEF Depots
  <2>8. QED
    BY <1>2, <1>3, <2>6, <2>7 DEF HouseSaved, MarketSaved
<1>10. QED
  BY <1>7, <1>8, <1>9 DEF IInv

LEMMA OpenDepotKeeps ==
  ASSUME IInv, NEW p \in Players, OpenDepot(p)
  PROVE  IInv'
<1>1. TypeOK /\ Shape /\ Listed /\ Written /\ Safe
  BY DEF IInv
<1>2. /\ Idle /\ p \in online /\ opened' = opened \cup {p}
      /\ UNCHANGED <<phase, online, held, todo, at, rows, work, begun, locked, damaged, count>>
  BY DEF OpenDepot, store
<1>3. ~Saving /\ phase = "open"
  BY <1>2 DEF Idle
<1>4. /\ todo = <<>> /\ at = 1 /\ begun = FALSE /\ locked = FALSE /\ work = rows
      /\ \A q \in Players : Here(q) <=> q \in online
  BY <1>1, <1>3, AtRest
<1>5. TypeOK'
  BY <1>1, <1>2 DEF TypeOK
<1>6. Shape' /\ Listed' /\ Written' /\ ~Saving'
  <2>1. opened' \subseteq online'
    BY <1>1, <1>2 DEF Shape
  <2>2. QED
    BY <1>2, <1>3, <1>4, <1>5, <2>1, Settled
<1>7. Safe'
  <2> SUFFICES ASSUME ~damaged PROVE Alone' /\ Depots' /\ HouseSaved' /\ MarketSaved'
    BY <1>2 DEF Safe
  <2>1. Alone /\ Depots
    BY <1>1 DEF Safe
  <2>2. \A q \in Players : Here(q)' <=> Here(q)
    BY <1>2, <1>4, <1>6 DEF Here
  <2>3. \A z \in Places : There(z)' <=> There(z)
    BY <1>2, <2>2, PlaceFacts DEF There
  <2>4. Alone'
    BY <1>2, <2>1, <2>3, StillAlone DEF Kept
  <2>5. Depots'
    BY <1>2, <2>1, <2>2 DEF Depots
  <2>6. QED
    BY <1>2, <1>3, <2>4, <2>5 DEF HouseSaved, MarketSaved
<1>8. QED
  BY <1>5, <1>6, <1>7 DEF IInv

LEMMA LoadedFacts ==
  ASSUME TypeOK, NEW p \in Players, NEW unread
  PROVE  /\ Loaded(p, unread) \in [Places -> SUBSET Items]
         /\ \A x \in Places : x \notin Of(p) => Loaded(p, unread)[x] = held[x]
         /\ unread = {} => \A x \in Of(p) : Loaded(p, unread)[x] = work[x]
<1>1. held \in [Places -> SUBSET Items] /\ work \in [Places -> SUBSET Items]
  BY DEF TypeOK
<1>2. Of(p) \subseteq Places
  BY PlaceFacts
<1>3. QED
  BY <1>1, <1>2 DEF Loaded

LEMMA UnreadFacts ==
  ASSUME TypeOK, NEW unread \in SUBSET Tables, Unread(unread),
         count.sessions < MaxSessions,
         count' = [count EXCEPT !.sessions = @ + 1,
                                !.failures = @ + Cardinality(unread)]
  PROVE  /\ Counted /\ damaged' \in BOOLEAN /\ (damaged => damaged')
         /\ unread # {} => damaged'
<1> DEFINE s == count.sessions + 1   f == count.failures + Cardinality(unread)
<1>1. s \in 0..MaxSessions
  BY Bounds
<1>2. f \in 0..MaxFailures
  <2>1. CASE unread = {}
    BY <2>1, Bounds, FS_EmptySet
  <2>2. CASE unread # {}
    BY <2>2, Bounds DEF Unread
  <2>3. QED
    BY <2>1, <2>2
<1>3. count' = [count EXCEPT !.sessions = s, !.failures = f]
  OBVIOUS
<1> HIDE DEF s, f
<1>4. Counted
  <2>1. 0 \in 0..MaxMoves /\ 0 \in 0..MaxCrashes
    BY Bounds
  <2>2. QED
    BY <1>1, <1>2, <1>3, <2>1, Counting
<1>5. QED
  BY <1>4 DEF Unread, TypeOK

LEMMA LoginKeeps ==
  ASSUME IInv, NEW p \in Players, NEW unread \in SUBSET Tables, Login(p, unread)
  PROVE  IInv'
<1>1. TypeOK /\ Shape /\ Listed /\ Written /\ Safe
  BY DEF IInv
<1>2. /\ Idle /\ p \notin online /\ Unread(unread)
      /\ online' = online \cup {p} /\ held' = Loaded(p, unread)
      /\ UNCHANGED <<phase, opened, todo, at, rows, work, begun, locked>>
  BY DEF Login, store
<1>3. ~Saving /\ phase = "open"
  BY <1>2 DEF Idle
<1>4. /\ todo = <<>> /\ at = 1 /\ begun = FALSE /\ locked = FALSE /\ work = rows
      /\ \A q \in Players : Here(q) <=> q \in online
  BY <1>1, <1>3, AtRest
<1>5. /\ Counted /\ damaged' \in BOOLEAN /\ (damaged => damaged')
      /\ unread # {} => damaged'
  BY <1>1, <1>2, UnreadFacts DEF Login
<1>6. /\ held' \in [Places -> SUBSET Items]
      /\ \A x \in Places : x \notin Of(p) => held'[x] = held[x]
      /\ unread = {} => \A x \in Of(p) : held'[x] = work[x]
  BY <1>1, <1>2, LoadedFacts
<1>7. TypeOK'
  BY <1>1, <1>2, <1>5, <1>6 DEF TypeOK, Counted
<1>8. Shape' /\ Listed' /\ Written' /\ ~Saving'
  <2>1. opened' \subseteq online'
    BY <1>1, <1>2 DEF Shape
  <2>2. QED
    BY <1>2, <1>3, <1>4, <1>7, <2>1, Settled
<1>9. Safe'
  <2> SUFFICES ASSUME ~damaged' PROVE Alone' /\ Depots' /\ HouseSaved' /\ MarketSaved'
    BY DEF Safe
  <2>1. Alone /\ Depots /\ unread = {}
    BY <1>1, <1>5 DEF Safe
  <2>2. \A q \in Players : Here(q)' <=> Here(q) \/ q = p
    BY <1>2, <1>4, <1>8 DEF Here
  <2>3. \A z \in Places : There(z)' <=> There(z) \/ z \in Of(p)
    <3>1. ASSUME NEW z \in Places PROVE There(z)' <=> There(z) \/ z \in Of(p)
      <4>1. CASE z \in {House, Market}
        BY <1>2, <1>3, <4>1 DEF There
      <4>2. CASE z \notin {House, Market}
        <5>1. z[1] \in Players /\ (z \in Of(p) <=> z[1] = p)
          BY <4>2, PlaceFacts
        <5>2. QED
          BY <1>2, <1>3, <2>2, <4>2, <5>1 DEF There
      <4>3. QED
        BY <4>1, <4>2
    <3>2. QED
      BY <3>1
  <2>4. \A z \in Of(p) : z \in Places /\ ~There(z)
    BY <1>2, <1>4, PlaceFacts DEF There
  <2>5. \A z \in Places : Kept(z)' = Kept(z)
    BY <1>2, <1>6, <2>1, <2>3, <2>4 DEF Kept
  <2>6. Depots'
    <3>1. ASSUME NEW q \in Players, Here(q)', q \notin opened'
          PROVE  held'[<<q, "depot">>] = work'[<<q, "depot">>]
      <4>1. <<q, "depot">> \in Of(q) /\ <<q, "depot">> \in Places
        BY PlaceFacts
      <4>2. CASE q = p
        BY <1>2, <1>6, <2>1, <4>1, <4>2
      <4>3. CASE q # p
        <5>1. <<q, "depot">> \notin Of(p)
          BY <4>1, <4>3, PlaceFacts
        <5>2. held[<<q, "depot">>] = work[<<q, "depot">>]
          BY <1>2, <2>1, <2>2, <3>1, <4>3 DEF Depots
        <5>3. QED
          BY <1>2, <1>6, <4>1, <5>1, <5>2
      <4>4. QED
        BY <4>2, <4>3
    <3>2. QED
      BY <3>1 DEF Depots
  <2>7. QED
    BY <1>2, <1>3, <2>1, <2>5, <2>6, StillAlone DEF HouseSaved, MarketSaved
<1>10. QED
  BY <1>7, <1>8, <1>9 DEF IInv

(* One save is to be done: of a player who goes, or of the market.          *)
LEMMA SingleSave ==
  ASSUME NEW s \in Saves, todo' = <<s>>,
         \/ s.what = "player" /\ s.who \in Players /\ s.leaves /\ phase' = "open"
         \/ s.what = "market" /\ ~s.leaves /\ phase' = "closing"
  PROVE  todo' \in Seq(Saves) /\ Len(todo') = 1 /\ Listed' /\ Saving' /\ Save' = s
<1>1. todo' \in Seq(Saves) /\ Len(todo') = 1 /\ todo'[1] = s
  OBVIOUS
<1>2. Saving' /\ Save' = s
  BY <1>1, SeqFacts DEF Saving, Save
<1>3. \A k \in 1..Len(todo') : k = 1
  BY <1>1
<1>4. Entry(1)'
  BY <1>1 DEF Entry
<1>5. Listed'
  BY <1>3, <1>4 DEF Listed
<1>6. QED
  BY <1>1, <1>2, <1>5

LEMMA LogoutKeeps ==
  ASSUME IInv, NEW p \in Players, Logout(p)
  PROVE  IInv'
<1> DEFINE s == SavePlayer(p, 3, TRUE)
<1>1. TypeOK /\ Shape /\ Listed /\ Written /\ Safe
  BY DEF IInv
<1>2. /\ Idle /\ p \in online /\ todo' = <<s>>
      /\ UNCHANGED <<phase, online, opened, held, at, store, rows, work, begun, locked,
                     damaged, count>>
  BY DEF Logout, store
<1>3. ~Saving /\ phase = "open"
  BY <1>2 DEF Idle
<1>4. \A q \in Players : Here(q) <=> q \in online
  BY <1>1, <1>3, AtRest
<1>5. s \in Saves /\ s.what = "player" /\ s.who = p /\ s.leaves
  BY DEF SavePlayer, Saves
<1> HIDE DEF s
<1>6. todo' \in Seq(Saves) /\ Listed' /\ Saving' /\ Save' = s
  BY <1>2, <1>3, <1>5, SingleSave
<1>7. TypeOK'
  BY <1>1, <1>2, <1>6 DEF TypeOK
<1>8. Shape' /\ Written'
  BY <1>1, <1>2, <1>3, <1>6, <1>7, Started
<1>9. Safe'
  <2> SUFFICES ASSUME ~damaged PROVE Alone' /\ Depots' /\ HouseSaved' /\ MarketSaved'
    BY <1>2 DEF Safe
  <2>1. Alone /\ Depots
    BY <1>1 DEF Safe
  <2>2. \A q \in Players : Here(q)' <=> Here(q)
    BY <1>2, <1>4, <1>5, <1>6 DEF Here
  <2>3. \A z \in Places : There(z)' <=> There(z)
    BY <1>2, <2>2, PlaceFacts DEF There
  <2>4. Alone'
    BY <1>2, <2>1, <2>3, StillAlone DEF Kept
  <2>5. Depots'
    BY <1>2, <2>1, <2>2 DEF Depots
  <2>6. QED
    BY <1>2, <1>3, <2>4, <2>5 DEF HouseSaved, MarketSaved
<1>10. QED
  BY <1>6, <1>7, <1>8, <1>9 DEF IInv

LEMMA GiveKeeps ==
  ASSUME IInv, NEW S \in SUBSET Items, NEW x \in Places, NEW p \in Players,
         Give(S, x, p)
  PROVE  IInv'
<1> DEFINE s == SavePlayer(p, 1, TRUE)   b == <<p, "inbox">>   f == Loaded(p, {})
<1>1. TypeOK /\ Shape /\ Listed /\ Written /\ Safe
  BY DEF IInv
<1>2. /\ Idle /\ Moved /\ p \notin online /\ S \subseteq held[x]
      /\ Reachable(x) /\ x # Market /\ todo' = <<s>>
      /\ held' = [f EXCEPT ![x] = @ \ S, ![b] = @ \cup S]
      /\ UNCHANGED <<phase, online, opened, at, store, rows, work, begun, locked, damaged>>
  BY DEF Give, store
<1>3. ~Saving /\ phase = "open"
  BY <1>2 DEF Idle
<1>4. \A q \in Players : Here(q) <=> q \in online
  BY <1>1, <1>3, AtRest
<1>5. s \in Saves /\ s.what = "player" /\ s.who = p /\ s.leaves
  BY DEF SavePlayer, Saves
<1> HIDE DEF s
<1>6. todo' \in Seq(Saves) /\ Listed' /\ Saving' /\ Save' = s
  BY <1>2, <1>3, <1>5, SingleSave
<1>7. /\ f \in [Places -> SUBSET Items]
      /\ \A z \in Places : z \notin Of(p) => f[z] = held[z]
      /\ \A z \in Of(p) : f[z] = work[z]
  BY <1>1, LoadedFacts
<1>8. /\ b \in Of(p) /\ b \in Places /\ \A q \in Players : b # <<q, "depot">>
      /\ x \notin Of(p) /\ x # b
      /\ \A z \in Of(p) : z \in Places /\ ~There(z)
  <2>1. b \in Of(p) /\ b \in Places /\ \A q \in Players : b # <<q, "depot">>
    BY PlaceFacts
  <2>2. x \notin Of(p)
    <3>1. x \notin {House, Market} => x[1] \in online
      BY <1>1, <1>2, Reach
    <3>2. QED
      BY <1>2, <3>1, PlaceFacts
  <2>3. \A z \in Of(p) : z \in Places /\ ~There(z)
    BY <1>2, <1>4, PlaceFacts DEF There
  <2>4. QED
    BY <2>1, <2>2, <2>3
<1> HIDE DEF b, f
<1>9. /\ held' \in [Places -> SUBSET Items]
      /\ held'[x] = f[x] \ S /\ held'[b] = f[b] \cup S
      /\ \A z \in Places : z # x /\ z # b => held'[z] = f[z]
  BY <1>2, <1>7, <1>8
<1>10. TypeOK'
  BY <1>1, <1>2, <1>6, <1>9, MovedCounts DEF TypeOK, Counted
<1>11. Shape' /\ Written'
  BY <1>1, <1>2, <1>3, <1>6, <1>10, Started
<1>12. Safe'
  <2> SUFFICES ASSUME ~damaged PROVE Alone' /\ Depots' /\ HouseSaved' /\ MarketSaved'
    BY <1>2 DEF Safe
  <2>1. Alone /\ Depots
    BY <1>1 DEF Safe
  <2>2. \A q \in Players : Here(q)' <=> Here(q) \/ q = p
    BY <1>2, <1>4, <1>5, <1>6 DEF Here
  <2>3. \A z \in Places : There(z)' <=> There(z) \/ z \in Of(p)
    <3>1. ASSUME NEW z \in Places PROVE There(z)' <=> There(z) \/ z \in Of(p)
      <4>1. CASE z \in {House, Market}
        BY <1>2, <1>3, <4>1 DEF There
      <4>2. CASE z \notin {House, Market}
        <5>1. z[1] \in Players /\ (z \in Of(p) <=> z[1] = p)
          BY <4>2, PlaceFacts
        <5>2. QED
          BY <1>2, <1>3, <2>2, <4>2, <5>1 DEF There
      <4>3. QED
        BY <4>1, <4>2
    <3>2. QED
      BY <3>1
  <2>4. /\ There(x) /\ Kept(x) = held[x]
        /\ \A q \in Players \ opened : x # <<q, "depot">>
    BY <1>1, <1>2, Reach
  <2>5. Kept(x)' = Kept(x) \ S
    BY <1>7, <1>8, <1>9, <2>3, <2>4 DEF Kept
  <2>6. Kept(b)' = Kept(b) \cup S
    BY <1>7, <1>8, <1>9, <2>3 DEF Kept
  <2>7. \A z \in Places : z # x /\ z # b => Kept(z)' = Kept(z)
    BY <1>2, <1>7, <1>8, <1>9, <2>3 DEF Kept
  <2>8. Alone'
    BY <1>2, <1>8, <2>1, <2>4, <2>5, <2>6, <2>7, MovedAlone
  <2>9. ASSUME NEW q \in Players, Here(q)', q \notin opened'
        PROVE  held'[<<q, "depot">>] = work'[<<q, "depot">>]
    <3> DEFINE z == <<q, "depot">>
    <3>1. z \in Of(q) /\ z \in Places /\ z # b /\ z # x
      BY <1>2, <1>8, <2>4, <2>9, PlaceFacts
    <3>2. held'[z] = f[z]
      BY <1>9, <3>1
    <3>3. CASE q = p
      BY <1>2, <1>7, <3>1, <3>2, <3>3
    <3>4. CASE q # p
      <4>1. z \notin Of(p)
        BY <3>1, <3>4, PlaceFacts
      <4>2. held[z] = work[z]
        BY <1>2, <2>1, <2>2, <2>9, <3>4 DEF Depots
      <4>3. QED
        BY <1>2, <1>7, <3>1, <3>2, <4>1, <4>2
    <3>5. QED
      BY <3>3, <3>4
  <2>10. QED
    BY <1>2, <1>3, <2>8, <2>9 DEF HouseSaved, MarketSaved, Depots
<1>13. QED
  BY <1>6, <1>10, <1>11, <1>12 DEF IInv

LEMMA GameShutdownKeeps ==
  ASSUME IInv, GameShutdown
  PROVE  IInv'
<1> DEFINE s == SaveMarketItems
<1>1. TypeOK /\ Shape /\ Listed /\ Written /\ Safe
  BY DEF IInv
<1>2. /\ phase = "stopping" /\ ~Saving /\ phase' = "closing" /\ todo' = <<s>>
      /\ UNCHANGED <<online, opened, held, at, store, rows, work, begun, locked,
                     damaged, count>>
  BY DEF GameShutdown, store
<1>3. /\ Len(todo) = 0 /\ \A q \in Players : Here(q) <=> q \in online
  BY <1>1, <1>2, AtRest
<1>4. s \in Saves /\ s.what = "market" /\ s.leaves = FALSE
  BY DEF SaveMarketItems, Saves
<1> HIDE DEF s
<1>5. todo' \in Seq(Saves) /\ Listed' /\ Saving' /\ Save' = s /\ Len(todo') = 1
  BY <1>2, <1>4, SingleSave
<1>6. TypeOK'
  BY <1>1, <1>2, <1>5 DEF TypeOK
<1>7. Shape' /\ Written'
  BY <1>1, <1>2, <1>5, <1>6, Started
<1>8. Safe'
  <2> SUFFICES ASSUME ~damaged PROVE Alone' /\ Depots' /\ HouseSaved' /\ MarketSaved'
    BY <1>2 DEF Safe
  <2>1. Alone /\ Depots /\ HouseSaved
    BY <1>1 DEF Safe
  <2>2. \A q \in Players : Here(q)' <=> Here(q)
    BY <1>2, <1>3, <1>4, <1>5 DEF Here
  <2>3. \A z \in Places : There(z)' <=> There(z)
    BY <1>2, <2>2, PlaceFacts DEF There
  <2>4. Alone'
    BY <1>2, <2>1, <2>3, StillAlone DEF Kept
  <2>5. Depots'
    BY <1>2, <2>1, <2>2 DEF Depots
  <2>6. HouseSaved'
    BY <1>2, <1>3, <2>1 DEF HouseSaved
  <2>7. QED
    BY <1>5, <2>4, <2>5, <2>6 DEF MarketSaved
<1>9. QED
  BY <1>5, <1>6, <1>7, <1>8 DEF IInv

(* Everybody who is in the game is saved, and then the map.                 *)
Saved(s, n, leaves) == [k \in DOMAIN s |-> SavePlayer(s[k], n, leaves)] \o SaveMap

LEMMA OrderFacts ==
  ASSUME TypeOK, NEW s \in Orders(online)
  PROVE  /\ s \in Seq(online) /\ s \in [1..Len(s) -> online] /\ Len(s) \in Nat
         /\ \A p \in online : \E k \in 1..Len(s) : s[k] = p
         /\ \A j, k \in 1..Len(s) : s[j] = s[k] => j = k
<1> DEFINE n == Cardinality(online)
<1>1. IsFiniteSet(online)
  BY PersistenceAssumption, FS_Subset DEF TypeOK
<1>2. n \in Nat /\ IsFiniteSet(1..n) /\ Cardinality(1..n) = n
  <2>1. n \in Nat
    BY <1>1, FS_CardinalityType
  <2> HIDE DEF n
  <2>2. IsFiniteSet(1..n) /\ Cardinality(1..n) = (IF 1 > n THEN 0 ELSE n - 1 + 1)
    BY <2>1, FS_Interval
  <2>3. QED
    BY <2>1, <2>2
<1>3. s \in [1..n -> online] /\ \A p \in online : \E k \in 1..n : s[k] = p
  BY DEF Orders
<1>4. s \in Surjection(1..n, online)
  BY <1>3 DEF Surjection
<1>5. s \in Injection(1..n, online)
  <2>1. Cardinality(1..n) = Cardinality(online)
    BY <1>2
  <2>2. QED
    BY <1>1, <1>2, <1>4, <2>1, FS_SurjSameCardinalityImpliesInj
<1>6. \A j, k \in 1..n : s[j] = s[k] => j = k
  BY <1>5 DEF Injection, IsInjective
<1>7. s \in Seq(online) /\ Len(s) = n
  BY <1>2, <1>3, IsASeq, LenProperties
<1> HIDE DEF n
<1>8. QED
  BY <1>2, <1>3, <1>6, <1>7

AllOf(s, c, t, leaves) ==
  /\ t \in Seq(Saves) /\ Len(t) = c + 2 /\ c \in Nat
  /\ \A k \in 1..c :
       /\ t[k].what = "player" /\ t[k].who = s[k] /\ t[k].leaves = leaves
       /\ s[k] \in online
  /\ t[c + 1].what = "info" /\ t[c + 1].leaves = FALSE
  /\ t[c + 2].what = "house" /\ t[c + 2].leaves = FALSE
  /\ \A k \in 1..Len(t) : k \in 1..c \/ k = c + 1 \/ k = c + 2

LEMMA SavedFacts ==
  ASSUME TypeOK, NEW s \in Orders(online), NEW n \in 1..3, NEW leaves \in BOOLEAN
  PROVE  AllOf(s, Len(s), Saved(s, n, leaves), leaves)
<1> DEFINE c == Len(s)   r == [k \in DOMAIN s |-> SavePlayer(s[k], n, leaves)]
           t == r \o SaveMap
<1>1. s \in [1..c -> online] /\ c \in Nat /\ online \subseteq Players
  BY OrderFacts DEF TypeOK
<1>2. \A p \in Players : /\ SavePlayer(p, n, leaves) \in Saves
                         /\ SavePlayer(p, n, leaves).what = "player"
                         /\ SavePlayer(p, n, leaves).who = p
                         /\ SavePlayer(p, n, leaves).leaves = leaves
  BY DEF SavePlayer, Saves
<1>3. /\ r \in [1..c -> Saves]
      /\ \A k \in 1..c : r[k] = SavePlayer(s[k], n, leaves)
  BY <1>1, <1>2
<1>4. /\ SaveMap \in Seq(Saves) /\ Len(SaveMap) = 2
      /\ SaveMap[1].what = "info" /\ SaveMap[1].leaves = FALSE
      /\ SaveMap[2].what = "house" /\ SaveMap[2].leaves = FALSE
  BY DEF SaveMap, Saves
<1> HIDE DEF c
<1>5. \A k \in 1..c :
        /\ r[k].what = "player" /\ r[k].who = s[k] /\ r[k].leaves = leaves
        /\ s[k] \in online
  BY <1>1, <1>2, <1>3
<1> HIDE DEF r
<1>6. r \in Seq(Saves) /\ Len(r) = c
  BY <1>1, <1>3, IsASeq, LenProperties
<1>7. /\ t \in Seq(Saves) /\ Len(t) = c + 2
      /\ \A k \in 1..c : t[k] = r[k]
      /\ \A k \in 1..2 : t[c + k] = SaveMap[k]
      /\ \A k \in 1..(c + 2) : k \in 1..c \/ (k - c \in 1..2 /\ k > c)
  <2>1. /\ t \in Seq(Saves) /\ Len(t) = Len(r) + Len(SaveMap)
        /\ \A k \in 1..Len(r) : k \in 1..Len(t) /\ t[k] = r[k]
        /\ \A k \in 1..Len(SaveMap) :
             Len(r) + k \in 1..Len(t) /\ t[Len(r) + k] = SaveMap[k]
        /\ \A k \in 1..Len(t) :
             k \in 1..Len(r) \/ (k - Len(r) \in 1..Len(SaveMap) /\ k > Len(r))
    <3>1. r \in Seq(Saves) /\ SaveMap \in Seq(Saves)
      BY <1>4, <1>6
    <3>2. QED
      BY <3>1, Joined
  <2> HIDE DEF t
  <2>2. QED
    BY <1>4, <1>6, <2>1
<1> HIDE DEF t
<1>8. t[c + 1] = SaveMap[1] /\ t[c + 2] = SaveMap[2]
  BY <1>7
<1>9. \A k \in 1..Len(t) : k \in 1..c \/ k = c + 1 \/ k = c + 2
  BY <1>1, <1>7
<1>10. /\ \A k \in 1..c :
            /\ t[k].what = "player" /\ t[k].who = s[k] /\ t[k].leaves = leaves
            /\ s[k] \in online
       /\ t[c + 1].what = "info" /\ t[c + 1].leaves = FALSE
       /\ t[c + 2].what = "house" /\ t[c + 2].leaves = FALSE
  BY <1>4, <1>5, <1>7, <1>8
<1>11. Saved(s, n, leaves) = t
  BY DEF Saved, r, t
<1>12. AllOf(s, c, t, leaves)
  BY <1>1, <1>7, <1>9, <1>10 DEF AllOf
<1>13. QED
  BY <1>11, <1>12 DEF c

LEMMA SavingAll ==
  ASSUME IInv, Idle, NEW s \in Orders(online), NEW n \in 1..3, NEW leaves \in BOOLEAN,
         todo' = Saved(s, n, leaves), phase' = (IF leaves THEN "stopping" ELSE "open"),
         UNCHANGED <<online, opened, held, at, store, damaged>>, Counted
  PROVE  IInv'
<1> DEFINE c == Len(s)   t == Saved(s, n, leaves)
<1>1. TypeOK /\ Shape /\ Listed /\ Written /\ Safe
  BY DEF IInv
<1>2. ~Saving /\ phase = "open" /\ UNCHANGED <<rows, work, begun, locked>>
  BY DEF Idle, store
<1>3. \A q \in Players : Here(q) <=> q \in online
  BY <1>1, <1>2, AtRest
<1>4. AllOf(s, c, t, leaves)
  BY <1>1, SavedFacts
<1>5. /\ \A p \in online : \E k \in 1..c : s[k] = p
      /\ \A j, k \in 1..c : s[j] = s[k] => j = k
  BY <1>1, OrderFacts
<1>6. phase' \in {"open", "stopping"} /\ (phase' = "stopping" => leaves)
      /\ (leaves => phase' # "open") /\ phase' # "closing" /\ phase' # "down"
  OBVIOUS
<1>7. todo' = t
  OBVIOUS
<1> HIDE DEF c, t
<1>8. /\ Len(t) \in Nat /\ Len(t) >= 1 /\ 1 \in 1..Len(t) /\ (c + 1) + 1 = c + 2
      /\ \A k \in 1..c : k \in 1..Len(t)
      /\ c + 1 \in 1..Len(t) /\ c + 2 \in 1..Len(t)
  BY <1>4 DEF AllOf
<1>9. Saving' /\ Save' = t[1]
  BY <1>4, <1>7, <1>8, SeqFacts DEF Saving, Save, AllOf
<1>10. online \subseteq Players
  BY <1>1 DEF TypeOK
<1>11. Listed'
  <2>1. ASSUME NEW k \in 1..Len(t) PROVE Entry(k)'
    <3>1. CASE k \in 1..c
      BY <1>4, <1>6, <1>7, <1>10, <3>1 DEF Entry, AllOf
    <3>2. CASE k = c + 1
      BY <1>4, <1>6, <1>7, <1>8, <3>2 DEF Entry, AllOf
    <3>3. CASE k = c + 2
      BY <1>4, <1>6, <1>7, <3>3 DEF Entry, AllOf
    <3>4. QED
      BY <1>4, <3>1, <3>2, <3>3 DEF AllOf
  <2>2. ASSUME NEW j \in 1..Len(t), NEW k \in 1..Len(t),
               t[j].what = "player", t[k].what = "player", t[j].who = t[k].who
        PROVE  j = k
    <3>1. j \in 1..c /\ k \in 1..c
      BY <1>4, <2>2 DEF AllOf
    <3>2. QED
      BY <1>4, <1>5, <2>2, <3>1 DEF AllOf
  <2>3. ASSUME NEW p \in online
        PROVE  \E k \in 1..Len(t) : t[k].what = "player" /\ t[k].who = p
    BY <1>4, <1>5, <1>8 DEF AllOf
  <2>4. QED
    BY <1>7, <2>1, <2>2, <2>3 DEF Listed
<1>12. TypeOK'
  BY <1>1, <1>2, <1>4, <1>6, <1>7 DEF TypeOK, Counted, AllOf
<1>13. Shape' /\ Written'
  BY <1>1, <1>2, <1>6, <1>11, <1>12, Started
<1>14. Save'.leaves => Save'.who \in online
  <2>1. 1 \in 1..c \/ c + 1 = 1 \/ c + 2 = 1
    BY <1>4, <1>8 DEF AllOf
  <2>2. QED
    BY <1>4, <1>9, <2>1 DEF AllOf
<1>15. Safe'
  <2> SUFFICES ASSUME ~damaged PROVE Alone' /\ Depots' /\ HouseSaved' /\ MarketSaved'
    BY DEF Safe
  <2>1. Alone /\ Depots
    BY <1>1 DEF Safe
  <2>2. \A q \in Players : Here(q)' <=> Here(q)
    BY <1>3, <1>14 DEF Here
  <2>3. \A z \in Places : There(z)' <=> There(z)
    BY <1>2, <1>6, <2>2, PlaceFacts DEF There
  <2>4. Alone'
    BY <1>2, <2>1, <2>3, StillAlone DEF Kept
  <2>5. Depots'
    BY <1>2, <2>1, <2>2 DEF Depots
  <2>6. HouseSaved'
    BY <1>4, <1>7, <1>8 DEF HouseSaved, AllOf
  <2>7. QED
    BY <1>6, <2>4, <2>5, <2>6 DEF MarketSaved
<1>16. QED
  BY <1>11, <1>12, <1>13, <1>15 DEF IInv

LEMMA GameSaves ==
  ASSUME IInv, SaveGameState \/ Shutdown
  PROVE  IInv'
<1>1. TypeOK
  BY DEF IInv
<1>2. CASE SaveGameState
  <2>1. PICK s \in Orders(online) : todo' = Saved(s, 1, FALSE)
    BY <1>2 DEF SaveGameState, Saved
  <2>2. /\ Idle /\ phase' = (IF FALSE THEN "stopping" ELSE "open") /\ Counted
        /\ UNCHANGED <<online, opened, held, at, store, damaged>>
    BY <1>1, <1>2, MovedCounts DEF SaveGameState, Idle
  <2>3. 1 \in 1..3 /\ FALSE \in BOOLEAN
    OBVIOUS
  <2>4. QED
    BY <2>1, <2>2, <2>3, SavingAll
<1>3. CASE Shutdown
  <2>1. PICK s \in Orders(online) : todo' = Saved(s, 3, TRUE)
    BY <1>3 DEF Shutdown, Saved
  <2>2. /\ Idle /\ phase' = (IF TRUE THEN "stopping" ELSE "open") /\ Counted
        /\ UNCHANGED <<online, opened, held, at, store, damaged>>
    BY <1>1, <1>3, MovedCounts DEF Shutdown
  <2>3. 3 \in 1..3 /\ TRUE \in BOOLEAN
    OBVIOUS
  <2>4. QED
    BY <2>1, <2>2, <2>3, SavingAll
<1>4. QED
  BY <1>2, <1>3

LEMMA Nothing ==
  /\ Empty \in [Places -> SUBSET Items] /\ \A x \in Places : Empty[x] = {}
BY DEF Empty

LEMMA ExitKeeps ==
  ASSUME IInv, Exit
  PROVE  IInv'
<1>1. TypeOK /\ Shape /\ Listed /\ Written /\ Safe
  BY DEF IInv
<1>2. /\ phase = "closing" /\ ~Saving /\ phase' = "down"
      /\ online' = {} /\ opened' = {} /\ held' = Empty /\ todo' = <<>> /\ at' = 1
      /\ work' = rows /\ begun' = FALSE /\ locked' = FALSE
      /\ UNCHANGED <<rows, damaged, count>>
  BY DEF Exit, Ends
<1>3. /\ work = rows /\ Len(todo) = 0 /\ online = {}
      /\ \A q \in Players : Here(q) <=> q \in online
  BY <1>1, <1>2, AtRest DEF Shape
<1>4. <<>> \in Seq(Saves)
  BY SeqFacts
<1>5. TypeOK'
  BY <1>1, <1>2, <1>4, Nothing DEF TypeOK
<1>6. Shape' /\ Listed' /\ Written' /\ ~Saving'
  BY <1>2, <1>5, Settled
<1>7. Safe'
  <2> SUFFICES ASSUME ~damaged PROVE Alone' /\ Depots' /\ HouseSaved' /\ MarketSaved'
    BY <1>2 DEF Safe
  <2>1. Alone /\ HouseSaved /\ MarketSaved
    BY <1>1, <1>2 DEF Safe
  <2>2. work[House] = held[House] /\ work[Market] = held[Market]
    BY <1>2, <1>3, <2>1 DEF HouseSaved, MarketSaved
  <2>3. \A z \in Places : ~There(z)' /\ (There(z) => z \in {House, Market})
    BY <1>2, <1>3, PlaceFacts DEF There
  <2>4. \A z \in Places : Kept(z)' = Kept(z)
    BY <1>2, <1>3, <2>2, <2>3 DEF Kept
  <2>5. Depots'
    BY <1>2, <1>6 DEF Depots, Here
  <2>6. QED
    BY <1>2, <2>1, <2>4, <2>5, StillAlone DEF HouseSaved, MarketSaved
<1>8. QED
  BY <1>5, <1>6, <1>7 DEF IInv

LEMMA CrashKeeps ==
  ASSUME IInv, Crash
  PROVE  IInv'
<1> DEFINE n == count.crashes + 1
<1>1. TypeOK
  BY DEF IInv
<1>2. /\ phase' = "down"
      /\ online' = {} /\ opened' = {} /\ held' = Empty /\ todo' = <<>> /\ at' = 1
      /\ work' = rows /\ begun' = FALSE /\ locked' = FALSE
      /\ rows' = rows /\ damaged' = TRUE /\ count' = [count EXCEPT !.crashes = n]
  BY DEF Crash, Ends
<1>3. n \in 0..MaxCrashes
  BY <1>1, Bounds DEF Crash
<1> HIDE DEF n
<1>4. Counted
  <2>1. 0 \in 0..MaxMoves /\ 0 \in 0..MaxFailures /\ 0 \in 0..MaxSessions
    BY <1>1, Bounds
  <2>2. QED
    BY <1>1, <1>2, <1>3, <2>1, Counting
<1>5. <<>> \in Seq(Saves)
  BY SeqFacts
<1>6. TypeOK'
  BY <1>1, <1>2, <1>4, <1>5, Nothing DEF TypeOK, Counted
<1>7. Shape' /\ Listed' /\ Written'
  BY <1>2, <1>6, Settled
<1>8. QED
  BY <1>2, <1>6, <1>7 DEF IInv, Safe

LEMMA StartupKeeps ==
  ASSUME IInv, Startup
  PROVE  IInv'
<1>1. TypeOK /\ Shape /\ Listed /\ Written /\ Safe
  BY DEF IInv
<1>2. /\ phase = "down" /\ Session /\ phase' = "open"
      /\ held' = [Empty EXCEPT ![House] = rows[House], ![Market] = rows[Market]]
      /\ UNCHANGED <<online, opened, todo, at, rows, work, begun, locked, damaged>>
  BY DEF Startup, store
<1>3. todo = <<>> /\ ~Saving /\ online = {} /\ opened \subseteq online
  BY <1>1, <1>2 DEF Shape, Saving
<1>4. at = 1 /\ begun = FALSE /\ locked = FALSE /\ work = rows
  BY <1>1, <1>3, AtRest
<1>5. rows \in [Places -> SUBSET Items]
  BY <1>1 DEF TypeOK
<1>6. /\ held' \in [Places -> SUBSET Items]
      /\ held'[House] = work[House] /\ held'[Market] = work[Market]
  BY <1>2, <1>4, <1>5, Nothing, PlaceFacts
<1>7. TypeOK'
  BY <1>1, <1>2, <1>6, MovedCounts DEF TypeOK, Counted
<1>8. Shape' /\ Listed' /\ Written' /\ ~Saving'
  BY <1>2, <1>3, <1>4, <1>7, Settled
<1>9. Safe'
  <2> SUFFICES ASSUME ~damaged PROVE Alone' /\ Depots' /\ HouseSaved' /\ MarketSaved'
    BY <1>2 DEF Safe
  <2>1. Alone
    BY <1>1 DEF Safe
  <2>2. \A q \in Players : ~Here(q)'
    BY <1>2, <1>3, <1>8 DEF Here
  <2>3. \A z \in Places : ~There(z) /\ (There(z)' => z \in {House, Market})
    BY <1>2, <2>2, PlaceFacts DEF There
  <2>4. \A z \in Places : Kept(z)' = Kept(z)
    BY <1>2, <1>6, <2>3 DEF Kept
  <2>5. QED
    BY <1>2, <2>1, <2>2, <2>4, StillAlone DEF Depots, HouseSaved, MarketSaved
<1>10. QED
  BY <1>7, <1>8, <1>9 DEF IInv

-----------------------------------------------------------------------------
LEMMA Initially == Init => IInv
<1> SUFFICES ASSUME Init PROVE IInv
  OBVIOUS
<1> DEFINE z == [moves |-> 0, failures |-> 0, crashes |-> 0, sessions |-> 0]
<1>1. /\ phase = "down" /\ online = {} /\ opened = {} /\ held = Empty
      /\ todo = <<>> /\ at = 1 /\ work = rows
      /\ begun = FALSE /\ locked = FALSE /\ damaged = FALSE /\ count = z
  BY DEF Init
<1>2. PICK f \in [Items -> Initial] :
        rows = [x \in Places |-> {i \in Items : f[i] = x}]
  BY DEF Init
<1>3. Initial \subseteq Places
  BY PersistenceAssumption DEF Places, Tables, House, Market
<1>4. /\ todo \in Seq(Saves) /\ Len(todo) = 0 /\ ~Saving
  BY <1>1, SeqFacts DEF Saving
<1>5. z \in [moves : 0..MaxMoves, failures : 0..MaxFailures,
             crashes : 0..MaxCrashes, sessions : 0..MaxSessions]
  <2>1. 0 \in 0..MaxMoves /\ 0 \in 0..MaxFailures
        /\ 0 \in 0..MaxCrashes /\ 0 \in 0..MaxSessions
    BY PersistenceAssumption
  <2>2. QED
    BY <2>1
<1> HIDE DEF z
<1>6. rows \in [Places -> SUBSET Items]
  BY <1>2
<1>7. TypeOK
  BY <1>1, <1>4, <1>5, <1>6, Nothing DEF TypeOK
<1>8. Shape
  BY <1>1, <1>4 DEF Shape
<1>9. Listed
  BY <1>1, <1>4 DEF Listed
<1>10. Written
  BY <1>1, <1>4 DEF Written
<1>11. Safe
  <2>1. \A x \in Places : Kept(x) = rows[x]
    BY <1>1 DEF Kept, There
  <2>2. Alone
    BY <1>2, <1>3, <2>1 DEF Alone
  <2>3. QED
    BY <1>1, <1>4, <2>2 DEF Safe, Depots, Here, HouseSaved, MarketSaved
<1>12. QED
  BY <1>7, <1>8, <1>9, <1>10, <1>11 DEF IInv

LEMMA Stutters == IInv /\ UNCHANGED vars => IInv'
<1> SUFFICES ASSUME IInv, UNCHANGED vars PROVE IInv'
  OBVIOUS
<1>1. UNCHANGED <<phase, online, opened, held, todo, at, rows, work, begun, locked,
                  damaged, count>>
  BY DEF vars
<1>2. TypeOK /\ Shape /\ Listed /\ Written /\ Safe
  BY DEF IInv
<1>3. Save' = Save /\ Now' = Now /\ (Saving' <=> Saving)
  BY <1>1 DEF Save, Now, Saving, Statements, Player, Depot
<1>4. TypeOK' /\ Shape'
  BY <1>1, <1>2, <1>3 DEF TypeOK, Shape
<1>5. Listed'
  BY <1>1, <1>2 DEF Listed, Entry
<1>6. Begun' <=> Begun
  BY <1>1, <1>3 DEF Begun
<1>7. Written'
  BY <1>1, <1>2, <1>3, <1>6 DEF Written
<1>8. \A q \in Players : Here(q)' <=> Here(q)
  BY <1>1, <1>3 DEF Here
<1>9. \A z \in Places : There(z)' <=> There(z)
  BY <1>1, <1>8, PlaceFacts DEF There
<1>10. \A z \in Places : Kept(z)' = Kept(z)
  BY <1>1, <1>9 DEF Kept
<1>11. Alone => Alone'
  BY <1>10, StillAlone
<1>12. (Depots => Depots') /\ (HouseSaved => HouseSaved')
       /\ (MarketSaved => MarketSaved')
  BY <1>1, <1>3, <1>8 DEF Depots, HouseSaved, MarketSaved
<1>13. Safe'
  BY <1>1, <1>2, <1>11, <1>12 DEF Safe
<1>14. QED
  BY <1>4, <1>5, <1>7, <1>13 DEF IInv

LEMMA Inductive == IInv /\ [Next]_vars => IInv'
<1> SUFFICES ASSUME IInv, [Next]_vars PROVE IInv'
  OBVIOUS
<1>1. CASE SaveAction
  BY <1>1, SaveActionKeeps
<1>2. CASE \E i \in Items, x, y \in Places : MoveItem(i, x, y)
  BY <1>2, MoveItemKeeps
<1>3. CASE \E S \in SUBSET Items, x \in Places, p \in Players : Give(S, x, p)
  BY <1>3, GiveKeeps
<1>4. ASSUME NEW p \in Players, OpenDepot(p) PROVE IInv'
  BY <1>4, OpenDepotKeeps
<1>5. ASSUME NEW p \in Players, Logout(p) PROVE IInv'
  BY <1>5, LogoutKeeps
<1>6. ASSUME NEW p \in Players, NEW unread \in SUBSET Tables, Login(p, unread)
      PROVE  IInv'
  BY <1>6, LoginKeeps
<1>7. CASE SaveGameState \/ Shutdown
  BY <1>7, GameSaves
<1>8. CASE GameShutdown
  BY <1>8, GameShutdownKeeps
<1>9. CASE Exit
  BY <1>9, ExitKeeps
<1>10. CASE Crash
  BY <1>10, CrashKeeps
<1>11. CASE Startup
  BY <1>11, StartupKeeps
<1>12. CASE UNCHANGED vars
  BY <1>12, Stutters
<1>13. QED
  BY <1>1, <1>2, <1>3, <1>4, <1>5, <1>6, <1>7, <1>8, <1>9, <1>10, <1>11, <1>12
     DEF Next, SaveAction

(* The queue of saves, what the save in progress has written and where the  *)
(* items are meanwhile: together they survive every step, and every failure *)
(* and crash.                                                               *)
THEOREM InductiveInvariant == Spec => []IInv
BY Initially, Inductive, PTL DEF Spec

LEMMA SoundStore == IInv => StoreInv
<1> SUFFICES ASSUME IInv PROVE StoreInv
  OBVIOUS
<1>1. TypeOK /\ Shape /\ Listed /\ Written /\ Safe
  BY DEF IInv
<1>2. LockIsBalanced
  BY <1>1 DEF LockIsBalanced, Written, Begun, Now
<1>3. ItemsAreKept
  <2> SUFFICES ASSUME ~damaged, ~Saving
               PROVE  /\ \A i \in Items : Cardinality(Whereabouts(i)) = 1
                      /\ \A p \in online \ opened :
                           held[<<p, "depot">>] = work[<<p, "depot">>]
    BY DEF ItemsAreKept
  <2>1. Alone /\ Depots /\ online \subseteq Players
    BY <1>1 DEF Safe, TypeOK
  <2>2. \A p \in Players : Here(p) <=> p \in online
    BY <1>1, AtRest
  <2>3. \A x \in Places : InMemory(x) <=> There(x)
    BY <2>2, PlaceFacts DEF InMemory, There
  <2>4. ASSUME NEW i \in Items PROVE Cardinality(Whereabouts(i)) = 1
    <3>1. PICK z \in Places : \A y \in Places : i \in Kept(y) <=> y = z
      BY <2>1 DEF Alone
    <3>2. \A y \in Places : y \in Whereabouts(i) <=> i \in Kept(y)
      BY <2>3 DEF Whereabouts, Kept
    <3>3. Whereabouts(i) = {z}
      BY <3>1, <3>2 DEF Whereabouts
    <3>4. QED
      BY <3>3, FS_Singleton
  <2>5. \A p \in online \ opened : held[<<p, "depot">>] = work[<<p, "depot">>]
    BY <2>1, <2>2 DEF Depots
  <2>6. QED
    BY <2>4, <2>5
<1>4. QED
  BY <1>1, <1>2, <1>3 DEF StoreInv

(* For any number of players, items, moves, failed statements and crashes:  *)
(* the lock of the database is held exactly inside of a save's transaction; *)
(* and as long as nothing has crashed or been given up every item is in one *)
(* place between the saves.                                                 *)
THEOREM StoreIsSound == Spec => []StoreInv
BY InductiveInvariant, SoundStore, PTL

-----------------------------------------------------------------------------
(* What the tables of a player or of the houses become.                     *)
Wholly == Whole({House}) /\ \A p \in Players : Whole(Of(p))

LEMMA RowsStay ==
  ASSUME rows' = rows \/ \A x \in Places \ {Market} : rows'[x] = rows[x]
  PROVE  Wholly
<1>1. /\ House \in Places \ {Market}
      /\ \A p \in Players : \A x \in Of(p) : x \in Places \ {Market}
  BY PlaceFacts
<1>2. QED
  BY <1>1 DEF Wholly, Whole

LEMMA MarketRows ==
  ASSUME TypeOK, Shape, Listed, Written, Delete \/ Insert
  PROVE  rows' = rows \/ \A x \in Places \ {Market} : rows'[x] = rows[x]
<1> DEFINE x == Statement[2]
<1>1. PICK S : Saving /\ Writing(Statement) /\ Wrote([work EXCEPT ![x] = S])
  BY DEF Delete, Insert, Writing
<1>2. /\ Statement = Now[at]
      /\ Save.what # "market" => begun
      /\ x \in Group(Save) /\ begun \in BOOLEAN /\ (~begun => work = rows)
  BY <1>1, AtFacts
<1>3. CASE begun
  BY <1>1, <1>3 DEF Wrote
<1>4. CASE ~begun
  <2>1. x = Market
    BY <1>2, <1>4 DEF Group
  <2>2. work \in [Places -> SUBSET Items] /\ Market \in Places
    BY PlaceFacts DEF TypeOK
  <2> HIDE DEF x
  <2>3. \A y \in Places \ {Market} : rows'[y] = work[y]
    BY <1>1, <1>4, <2>1, <2>2 DEF Wrote
  <2>4. QED
    BY <1>2, <1>4, <2>3
<1>5. QED
  BY <1>2, <1>3, <1>4

LEMMA CommitRows ==
  ASSUME TypeOK, Shape, Listed, Written, Commit
  PROVE  Wholly
<1>1. Saving /\ rows' = work /\ work' = work
  BY DEF Commit
<1>2. \A x \in Group(Save) : Unopened(x) \/ rows'[x] = held[x]
  BY <1>1, CommitStep DEF Done
<1>3. \A x \in Places : rows'[x] # rows[x] => x \in Group(Save) /\ ~Unopened(x)
  BY <1>1, Touched
<1>4. Whole({House})
  <2>1. ~Unopened(House) /\ House \in Places
    BY PlaceFacts DEF Unopened
  <2>2. QED
    BY <1>2, <1>3, <2>1 DEF Whole
<1>5. ASSUME NEW p \in Players PROVE Whole(Of(p))
  <2> SUFFICES ASSUME NEW y \in Of(p), rows'[y] # rows[y], NEW x \in Of(p)
               PROVE  rows'[x] = held[x] \/ (x[2] = "depot" /\ rows'[x] = rows[x])
    BY DEF Whole
  <2>1. y \in Places /\ x \in Places /\ y # House /\ y # Market
    BY PlaceFacts
  <2>2. y \in Group(Save)
    BY <1>3, <2>1
  <2>3. Save.what \in {"player", "info", "house", "market"}
        /\ (Save.what = "player" => Save.who \in Players)
    BY <1>1, Standing DEF Saves
  <2>4. Save.what = "player" /\ y \in Of(Save.who)
    BY <2>1, <2>2, <2>3 DEF Group
  <2>5. Save.who = p
    BY <2>3, <2>4, PlaceFacts
  <2>6. x \in Group(Save)
    BY <2>4, <2>5 DEF Group
  <2>7. Unopened(x) => x[2] = "depot" /\ rows'[x] = rows[x]
    BY <1>3, <2>1 DEF Unopened
  <2>8. QED
    BY <1>2, <2>6, <2>7
<1>6. QED
  BY <1>4, <1>5 DEF Wholly

LEMMA WholeStep ==
  IInv /\ [Next]_vars => [Whole({House}) /\ \A p \in Players : Whole(Of(p))]_vars
<1> SUFFICES ASSUME IInv, Next PROVE Wholly
  BY DEF Wholly
<1>1. TypeOK /\ Shape /\ Listed /\ Written
  BY DEF IInv
<1>2. CASE Delete \/ Insert
  BY <1>1, <1>2, MarketRows, RowsStay
<1>3. CASE Commit
  BY <1>1, <1>3, CommitRows
<1>4. ASSUME Next, ~(Delete \/ Insert), ~Commit PROVE rows' = rows
  <2>1. CASE Begin \/ Other \/ Fail \/ FailSelect \/ FailMarket \/ DuplicateId
    BY <2>1 DEF Begin, Other, Fail, FailSelect, FailMarket, DuplicateId, Rollback, store
  <2>2. CASE \/ \E i \in Items, x, y \in Places : MoveItem(i, x, y)
             \/ \E S \in SUBSET Items, x \in Places, p \in Players : Give(S, x, p)
    BY <2>2 DEF MoveItem, Give, store
  <2>3. CASE \E p \in Players :
               OpenDepot(p) \/ Logout(p) \/ \E unread \in SUBSET Tables : Login(p, unread)
    BY <2>3 DEF OpenDepot, Logout, Login, store
  <2>4. CASE SaveGameState \/ Shutdown \/ GameShutdown \/ Exit \/ Crash \/ Startup
    BY <2>4 DEF SaveGameState, Shutdown, GameShutdown, Exit, Crash, Startup, Ends, store
  <2>5. QED
    BY <1>4, <2>1, <2>2, <2>3, <2>4 DEF Next
<1>5. QED
  BY <1>2, <1>3, <1>4, RowsStay

(* Whatever fails and whenever the process ends, the database gets all that *)
(* memory holds of a player or of the houses at once, or nothing of it.     *)
THEOREM SavesNothingByHalves == Spec => SavesAreWhole
BY InductiveInvariant, WholeStep, PTL DEF Spec, SavesAreWhole
=============================================================================
