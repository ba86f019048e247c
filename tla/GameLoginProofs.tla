--------------------------- MODULE GameLoginProofs ---------------------------
(***************************************************************************)
(* Proofs about GameLogin for every number of connections and any length   *)
(* of the queue: its invariant, and that its connections behave as         *)
(* ConnectionLife says.                                                    *)
(***************************************************************************)
EXTENDS GameLogin, ListFacts

-----------------------------------------------------------------------------
(* The queue of tasks.  No task waits twice, and the login of a connection   *)
(* waits before its release.                                                *)
Task == {"login", "connect", "logout", "release"} \X Conns

LoginFirst(s) ==
  \A c \in Conns, i, j \in 1..Len(s) :
    s[i] = <<"login", c>> /\ s[j] = <<"release", c>> => i < j

WellQueued(s) == s \in Seq(Task) /\ Distinct(s) /\ LoginFirst(s)

LEMMA Posting ==
  ASSUME NEW s, WellQueued(s), NEW what, NEW c \in Conns, <<what, c>> \in Task,
         <<what, c>> \notin Elems(s),
         what = "login" => <<"release", c>> \notin Elems(s)
  PROVE  /\ WellQueued(Append(s, <<what, c>>))
         /\ Elems(Append(s, <<what, c>>)) = Elems(s) \cup {<<what, c>>}
<1> DEFINE e == <<what, c>>
<1>1. /\ s \in Seq(Task) /\ Distinct(s) /\ e \in Task
      /\ Append(s, e) \in Seq(Task) /\ Distinct(Append(s, e))
      /\ Elems(Append(s, e)) = Elems(s) \cup {e}
  BY AppendFacts DEF WellQueued
<1>2. /\ Len(s) \in Nat /\ Len(Append(s, e)) = Len(s) + 1
      /\ \A i \in 1..Len(s) : Append(s, e)[i] = s[i]
      /\ Append(s, e)[Len(s) + 1] = e
  BY <1>1, SeqFacts
<1>3. ASSUME NEW d \in Conns, NEW i \in 1..Len(Append(s, e)),
             NEW j \in 1..Len(Append(s, e)),
             Append(s, e)[i] = <<"login", d>>, Append(s, e)[j] = <<"release", d>>
      PROVE  i < j
  <2>1. /\ i \in 1..Len(s) \/ i = Len(s) + 1
        /\ j \in 1..Len(s) \/ j = Len(s) + 1
    BY <1>2
  <2>2. CASE i \in 1..Len(s) /\ j \in 1..Len(s)
    BY <1>2, <1>3, <2>2 DEF WellQueued, LoginFirst
  <2>3. CASE i \in 1..Len(s) /\ j = Len(s) + 1
    BY <1>2, <2>3
  <2>4. CASE i = Len(s) + 1
    <3>1. e = <<"login", d>>
      BY <1>2, <1>3, <2>4
    <3>2. what = "login" /\ c = d
      BY <3>1
    <3>3. j # Len(s) + 1
      BY <1>2, <1>3, <3>1
    <3>4. j \in 1..Len(s) /\ s[j] = <<"release", c>>
      BY <1>2, <1>3, <2>1, <3>2, <3>3
    <3>5. <<"release", c>> \in Elems(s)
      BY <3>4 DEF Elems
    <3>6. QED
      BY <3>2, <3>5
  <2>5. QED
    BY <2>1, <2>2, <2>3, <2>4
<1>4. QED
  BY <1>1, <1>3 DEF WellQueued, LoginFirst

LEMMA Serving ==
  ASSUME NEW s, WellQueued(s), s # <<>>
  PROVE  /\ WellQueued(Tail(s)) /\ Head(s) \in Task
         /\ Head(s) \in Elems(s)
         /\ Elems(Tail(s)) = Elems(s) \ {Head(s)}
         /\ \A c \in Conns : Head(s) = <<"release", c>> => <<"login", c>> \notin Elems(s)
<1>1. /\ s \in Seq(Task) /\ Distinct(s)
      /\ Tail(s) \in Seq(Task) /\ Distinct(Tail(s))
      /\ s[1] \in Elems(s) /\ Elems(Tail(s)) = Elems(s) \ {s[1]}
  BY TailFacts DEF WellQueued
<1>2. /\ Len(s) \in Nat /\ Len(s) # 0 /\ Len(Tail(s)) = Len(s) - 1
      /\ \A i \in 1..Len(Tail(s)) : Tail(s)[i] = s[i + 1]
      /\ Head(s) = s[1] /\ Head(s) \in Task
  BY <1>1, SeqFacts
<1>3. LoginFirst(Tail(s))
  <2> SUFFICES ASSUME NEW c \in Conns, NEW i \in 1..Len(Tail(s)),
                      NEW j \in 1..Len(Tail(s)),
                      Tail(s)[i] = <<"login", c>>, Tail(s)[j] = <<"release", c>>
               PROVE  i < j
    BY DEF LoginFirst
  <2>1. /\ i + 1 \in 1..Len(s) /\ s[i + 1] = <<"login", c>>
        /\ j + 1 \in 1..Len(s) /\ s[j + 1] = <<"release", c>>
    BY <1>2
  <2>2. i + 1 < j + 1
    BY <2>1 DEF WellQueued, LoginFirst
  <2>3. QED
    BY <1>2, <2>2
<1>4. ASSUME NEW c \in Conns, s[1] = <<"release", c>>, <<"login", c>> \in Elems(s)
      PROVE  FALSE
  <2>1. PICK i \in 1..Len(s) : s[i] = <<"login", c>>
    BY <1>4 DEF Elems
  <2>2. i < 1
    BY <1>2, <1>4, <2>1 DEF WellQueued, LoginFirst
  <2>3. QED
    BY <1>2, <2>2
<1>5. QED
  BY <1>1, <1>2, <1>3, <1>4 DEF WellQueued

-----------------------------------------------------------------------------
(* The inductive invariant: the parts of LoginInv, with the holders of a     *)
(* player counted by its client, and where each connection is in its life:  *)
(* before its login everything about it is fresh, a replacement waits in    *)
(* the scheduler or in the queue but not in both, and release comes once.   *)
Pending(what, c) == <<what, c>> \in Elems(tasks)

Types ==
  /\ life \in [Conns -> {"new", "open", "closing", "gone"}]
  /\ first \subseteq Conns
  /\ WellQueued(tasks)
  /\ timers \subseteq Conns
  /\ player \in [Conns -> Conns \cup {None}]
  /\ accept \subseteq Conns
  /\ target \in [Conns -> Conns \cup {None}]
  /\ released \subseteq Conns
  /\ client \in [Conns -> Conns \cup {None}]
  /\ connecting \subseteq Conns
  /\ refs \in [Conns -> Nat]
  /\ world \subseteq Conns
  /\ toRelease \subseteq Conns
  /\ pool \in [Conns -> 0..1]

Mutual == \A o, c \in Conns : client[o] = c <=> player[c] = o

Counted ==
  \A o \in Conns :
    refs[o] = (IF client[o] # None THEN 1 ELSE 0)
              + (IF o \in world \cup toRelease THEN 1 ELSE 0)

InGameOnce ==
  /\ \A o, q \in world : o = q
  /\ world \cap toRelease = {}

Unused(c) ==
  /\ c \notin world \cup toRelease
  /\ client[c] = None /\ player[c] = None
  /\ pool[c] = 0
  /\ c \notin timers /\ ~Pending("connect", c)

Stages ==
  \A c \in Conns :
    /\ c \notin first => Unused(c) /\ ~Pending("login", c)
    /\ Pending("login", c) => Unused(c) /\ c \notin released
    /\ c \in timers => ~Pending("connect", c)
    /\ c \in timers \/ Pending("connect", c) =>
         player[c] = None /\ (c \notin released => pool[c] = 1)

Releases ==
  \A c \in Conns :
    /\ life[c] \in {"new", "open"} => ~Pending("release", c) /\ c \notin released
    /\ Pending("release", c) => c \notin released

Pooling ==
  \A c \in Conns :
    /\ c \in released => pool[c] = 0
    /\ c \notin released /\ player[c] # None =>
         pool[c] = 1 \/ (player[c] = c /\ c \notin world)

IInv ==
  Types /\ Mutual /\ Counted /\ InGameOnce /\ Stages /\ Releases /\ Pooling

LEMMA Enough == IInv => LoginInv
<1> SUFFICES ASSUME IInv PROVE LoginInv
  OBVIOUS
<1> USE GameLoginAssumption DEF IInv, Types
<1>1. ASSUME NEW o \in Conns
      PROVE  /\ IsFiniteSet({c \in Conns : player[c] = o})
             /\ Cardinality({c \in Conns : player[c] = o})
                  = IF client[o] # None THEN 1 ELSE 0
  <2>1. CASE client[o] = None
    <3>1. {c \in Conns : player[c] = o} = {}
      BY <2>1 DEF Mutual
    <3>2. QED
      BY <2>1, <3>1, FS_EmptySet
  <2>2. CASE client[o] # None
    <3>1. {c \in Conns : player[c] = o} = {client[o]}
      BY <2>2 DEF Mutual
    <3>2. IsFiniteSet({client[o]}) /\ Cardinality({client[o]}) = 1
      BY FS_Singleton
    <3>3. QED
      BY <2>2, <3>1, <3>2
  <2>3. QED
    BY <2>1, <2>2
<1>2. HoldersCounted
  BY <1>1 DEF HoldersCounted, Counted
<1>3. TypeOK
  <2>1. ASSUME NEW o \in Conns PROVE refs[o] \in 0..(Cardinality(Conns) + 1)
    <3>1. Cardinality(Conns) \in Nat /\ Cardinality(Conns) # 0
      BY FS_CardinalityType, FS_EmptySet
    <3>2. refs[o] \in 0..2
      BY DEF Counted
    <3>3. QED
      BY <3>1, <3>2
  <2>2. tasks \in Seq({"login", "connect", "logout", "release"} \X Conns)
    BY DEF WellQueued, Task
  <2>3. QED
    BY <2>1, <2>2 DEF TypeOK
<1>4. ClientIsMutual
  BY DEF ClientIsMutual, Mutual
<1>5. OneInWorld
  <2>1. CASE world = {}
    BY <2>1, FS_EmptySet DEF OneInWorld
  <2>2. CASE world # {}
    <3>1. PICK o \in world : world = {o}
      BY <2>2 DEF InGameOnce
    <3>2. QED
      BY <3>1, FS_Singleton DEF OneInWorld
  <2>3. QED
    BY <2>1, <2>2
<1>6. PoolIsLive
  BY DEF PoolIsLive, Pooling
<1>7. QED
  BY <1>2, <1>3, <1>4, <1>5, <1>6 DEF LoginInv

LEMMA Initially == Init => IInv
<1> SUFFICES ASSUME Init PROVE IInv
  OBVIOUS
<1> USE GameLoginAssumption DEF Init
<1>1. WellQueued(<<>>) /\ Elems(<<>>) = {}
  BY EmptySeq, NoElems DEF WellQueued, LoginFirst
<1>2. Types
  BY <1>1 DEF Types
<1>3. Mutual /\ Counted /\ InGameOnce
  BY DEF Mutual, Counted, InGameOnce
<1>4. Stages /\ Releases /\ Pooling
  BY <1>1 DEF Stages, Unused, Pending, Releases, Pooling
<1>5. QED
  BY <1>2, <1>3, <1>4 DEF IInv

-----------------------------------------------------------------------------
(* The network thread and the scheduler. *)

(* The connections of D that are still open. *)
Hung(D) == {d \in D : life[d] = "open"}

(* Disconnecting c posts its release, if that was not done before. *)
LEMMA Releasing ==
  ASSUME IInv, NEW c \in Conns
  PROVE  /\ WellQueued(ReleasePosted(c))
         /\ Elems(ReleasePosted(c))
              = Elems(tasks) \cup {<<"release", d>> : d \in Hung({c})}
         /\ Disconnected(c)
              = [d \in Conns |-> IF d \in Hung({c}) THEN "closing" ELSE life[d]]
<1> USE DEF IInv, Types
<1>1. CASE life[c] = "open"
  <2>1. Hung({c}) = {c}
    BY <1>1 DEF Hung
  <2>2. /\ WellQueued(Append(tasks, <<"release", c>>))
        /\ Elems(Append(tasks, <<"release", c>>))
             = Elems(tasks) \cup {<<"release", c>>}
    <3>1. /\ <<"release", c>> \in Task /\ <<"release", c>> \notin Elems(tasks)
          /\ WellQueued(tasks)
      BY <1>1 DEF Task, Releases, Pending
    <3>2. QED
      BY <3>1, Posting
  <2>3. Disconnected(c)
          = [d \in Conns |-> IF d \in Hung({c}) THEN "closing" ELSE life[d]]
    BY <1>1, <2>1 DEF Disconnected
  <2>4. {<<"release", d>> : d \in Hung({c})} = {<<"release", c>>}
    BY <2>1
  <2>5. QED
    BY <1>1, <2>2, <2>3, <2>4 DEF ReleasePosted
<1>2. CASE life[c] # "open"
  <2>1. Hung({c}) = {}
    BY <1>2 DEF Hung
  <2>2. QED
    BY <1>2, <2>1 DEF ReleasePosted, Disconnected
<1>3. QED
  BY <1>1, <1>2

(* The tasks of G were taken and the connections of D disconnected. *)
Took(G, D) ==
  /\ G \subseteq Elems(tasks)
  /\ life' = [d \in Conns |-> IF d \in Hung(D) THEN "closing" ELSE life[d]]
  /\ WellQueued(tasks')
  /\ Elems(tasks') = (Elems(tasks) \ G) \cup {<<"release", d>> : d \in Hung(D)}

LEMMA HungUp ==
  ASSUME IInv, NEW c \in Conns, life' = Disconnected(c), tasks' = ReleasePosted(c)
  PROVE  Took({}, {c})
BY Releasing DEF Took

LEMMA Finished ==
  ASSUME IInv, NEW what, NEW c \in Conns, IsHead(what, c), Done
  PROVE  Took({<<what, c>>}, {})
<1>1. /\ WellQueued(tasks) /\ tasks # <<>> /\ Head(tasks) = <<what, c>>
      /\ tasks' = Tail(tasks) /\ life' = life
  BY DEF IsHead, Done, IInv, Types
<1>2. /\ WellQueued(Tail(tasks)) /\ <<what, c>> \in Elems(tasks)
      /\ Elems(Tail(tasks)) = Elems(tasks) \ {<<what, c>>}
  BY <1>1, Serving
<1>3. Hung({}) = {} /\ life = [d \in Conns |-> life[d]]
  BY DEF Hung, IInv, Types
<1>4. QED
  BY <1>1, <1>2, <1>3 DEF Took

LEMMA FinishedDisconnecting ==
  ASSUME IInv, NEW what, NEW c \in Conns, NEW d \in Conns, IsHead(what, c),
         DoneDisconnecting(d)
  PROVE  Took({<<what, c>>}, {d})
<1> DEFINE posted == ReleasePosted(d)
           new == {<<"release", x>> : x \in Hung({d})}
<1>1. /\ WellQueued(tasks) /\ tasks # <<>> /\ Head(tasks) = <<what, c>>
      /\ tasks' = Tail(posted) /\ life' = Disconnected(d)
  BY DEF IsHead, DoneDisconnecting, IInv, Types
<1>2. /\ WellQueued(posted) /\ Elems(posted) = Elems(tasks) \cup new
      /\ Disconnected(d) = [x \in Conns |-> IF x \in Hung({d}) THEN "closing" ELSE life[x]]
  BY Releasing
<1>3. posted # <<>> /\ Head(posted) = Head(tasks)
  <2>1. /\ tasks \in Seq(Task) /\ <<"release", d>> \in Task
        /\ Append(tasks, <<"release", d>>) \in Seq(Task)
        /\ Len(Append(tasks, <<"release", d>>)) = Len(tasks) + 1
        /\ Len(tasks) \in Nat /\ Len(tasks) # 0
        /\ \A i \in 1..Len(tasks) : Append(tasks, <<"release", d>>)[i] = tasks[i]
    BY <1>1, SeqFacts DEF WellQueued, Task
  <2>2. /\ Append(tasks, <<"release", d>>) # <<>>
        /\ Append(tasks, <<"release", d>>)[1] = tasks[1]
    BY <2>1, SeqFacts
  <2>3. /\ Head(tasks) = tasks[1]
        /\ Head(Append(tasks, <<"release", d>>)) = Append(tasks, <<"release", d>>)[1]
    BY <1>1, <2>1, <2>2, SeqFacts
  <2>4. QED
    BY <1>1, <2>2, <2>3 DEF ReleasePosted
<1>4. /\ WellQueued(Tail(posted))
      /\ Elems(Tail(posted)) = Elems(posted) \ {<<what, c>>}
  BY <1>1, <1>2, <1>3, Serving
<1>5. <<what, c>> \in Elems(tasks)
  BY <1>1, Serving
<1>6. \A x \in Hung({d}) : <<"release", x>> \notin Elems(tasks)
  BY DEF Hung, IInv, Releases, Pending
<1>7. Elems(tasks') = (Elems(tasks) \ {<<what, c>>}) \cup new
  BY <1>1, <1>2, <1>4, <1>5, <1>6
<1>8. QED
  BY <1>1, <1>2, <1>4, <1>5, <1>7 DEF Took

(* What then waits: of logins and connects nothing new. *)
LEMMA PendingThen ==
  ASSUME IInv, NEW G, NEW D \in SUBSET Conns, Took(G, D)
  PROVE  /\ \A w \in {"login", "connect"}, d \in Conns :
              Pending(w, d)' <=> Pending(w, d) /\ <<w, d>> \notin G
         /\ \A d \in Conns :
              /\ Pending("release", d)' <=>
                   (Pending("release", d) /\ <<"release", d>> \notin G) \/ d \in Hung(D)
              /\ life'[d] = IF d \in Hung(D) THEN "closing" ELSE life[d]
         /\ \A d \in Hung(D) : d \in Conns /\ life[d] = "open"
         /\ life' \in [Conns -> {"new", "open", "closing", "gone"}]
         /\ WellQueued(tasks')
BY DEF Took, Pending, Hung, IInv, Types

LEMMA ReleasesKept ==
  ASSUME IInv, NEW G, NEW D \in SUBSET Conns, Took(G, D),
         released' = released \cup {c \in Conns : <<"release", c>> \in G}
  PROVE  Releases'
<1> SUFFICES ASSUME NEW c \in Conns
             PROVE  /\ life'[c] \in {"new", "open"} =>
                         ~Pending("release", c)' /\ c \notin released'
                    /\ Pending("release", c)' => c \notin released'
  BY DEF Releases
<1>1. /\ life[c] \in {"new", "open"} => ~Pending("release", c) /\ c \notin released
      /\ Pending("release", c) => c \notin released
      /\ <<"release", c>> \in G => Pending("release", c)
  BY DEF IInv, Releases, Took, Pending
<1>2. /\ Pending("release", c)' <=>
           (Pending("release", c) /\ <<"release", c>> \notin G) \/ c \in Hung(D)
      /\ life'[c] = IF c \in Hung(D) THEN "closing" ELSE life[c]
      /\ c \in Hung(D) => life[c] = "open"
  BY PendingThen
<1>3. QED
  BY <1>1, <1>2

(* Players leave the game and connections close. *)
LEMMA Departing ==
  ASSUME IInv, NEW G, NEW D \in SUBSET Conns, Took(G, D),
         G \subseteq {<<"logout", c>> : c \in Conns},
         first \subseteq first', first' \subseteq Conns,
         NEW X, world' = world \ X, toRelease' = toRelease \cup (world \cap X),
         UNCHANGED <<timers, target, protVars, client, connecting, refs>>
  PROVE  IInv'
<1>1. \A d \in Conns : /\ Pending("login", d)' <=> Pending("login", d)
                       /\ Pending("connect", d)' <=> Pending("connect", d)
  <2>1. \A d \in Conns : <<"login", d>> \notin G /\ <<"connect", d>> \notin G
    OBVIOUS
  <2>2. QED
    BY <2>1, PendingThen
<1>2. life' \in [Conns -> {"new", "open", "closing", "gone"}] /\ WellQueued(tasks')
  BY PendingThen
<1>3. released' = released \cup {c \in Conns : <<"release", c>> \in G}
  BY DEF protVars
<1>4. Releases'
  BY <1>3, ReleasesKept
<1>5. world' \cup toRelease' = world \cup toRelease
  OBVIOUS
<1> HIDE DEF Took
<1> USE DEF IInv, Types, protVars
<1>6. Types'
  BY <1>2
<1>7. Mutual' /\ InGameOnce' /\ Pooling'
  BY DEF Mutual, InGameOnce, Pooling
<1>8. Counted'
  BY <1>5 DEF Counted
<1>9. Stages'
  <2>1. \A c \in Conns : Unused(c) => Unused(c)'
    BY <1>1, <1>5 DEF Unused
  <2>2. QED
    BY <1>1, <2>1 DEF Stages
<1>10. QED
  BY <1>4, <1>6, <1>7, <1>8, <1>9

-----------------------------------------------------------------------------
(* One lemma for each action: first the network thread and the scheduler.    *)

LEMMA Accepting == ASSUME IInv, NEW c \in Conns, Accept(c) \/ Expire(c) PROVE IInv'
<1>1. /\ life[c] \in {"new", "closing"}
      /\ life' = [life EXCEPT ![c] = IF @ = "new" THEN "open" ELSE "gone"]
      /\ UNCHANGED <<first, timers, target, tasks, protVars, playVars>>
  BY DEF Accept, Expire
<1>2. Types' /\ Releases'
  BY <1>1 DEF IInv, Types, Releases, Pending, protVars, playVars
<1>3. Mutual' /\ Counted' /\ InGameOnce' /\ Stages' /\ Pooling'
  BY <1>1 DEF IInv, Mutual, Counted, InGameOnce, Stages, Pooling, Unused, Pending,
              protVars, playVars
<1>4. QED
  BY <1>2, <1>3 DEF IInv

LEMMA HangingUp ==
  ASSUME IInv, NEW c \in Conns, life' = Disconnected(c), tasks' = ReleasePosted(c),
         first \subseteq first', first' \subseteq Conns,
         UNCHANGED <<timers, target, protVars, playVars>>
  PROVE  IInv'
<1>1. Took({}, {c})
  BY HungUp
<1>2. world' = world \ {} /\ toRelease' = toRelease \cup (world \cap {})
  BY DEF playVars
<1>3. UNCHANGED <<timers, target, protVars, client, connecting, refs>>
  BY DEF playVars
<1>4. QED
  BY <1>1, <1>2, <1>3, Departing

LEMMA FirstMessages == ASSUME IInv, NEW c \in Conns, RecvFirstMessage(c) PROVE IInv'
<1>1. /\ life[c] = "open" /\ c \notin first /\ first' = first \cup {c}
      /\ UNCHANGED <<timers, target, protVars, playVars>>
  BY DEF RecvFirstMessage
<1>2. CASE tasks' = Append(tasks, <<"login", c>>) /\ UNCHANGED life
  <2>1. /\ ~Pending("login", c) /\ ~Pending("release", c) /\ c \notin released
        /\ Unused(c)
    BY <1>1 DEF IInv, Stages, Releases
  <2>2. WellQueued(tasks) /\ <<"login", c>> \in Task
    BY DEF IInv, Types, Task
  <2>3. /\ WellQueued(tasks')
        /\ Elems(tasks') = Elems(tasks) \cup {<<"login", c>>}
    BY <1>2, <2>1, <2>2, Posting DEF Pending
  <2>4. \A w \in {"login", "connect", "release"}, d \in Conns :
          Pending(w, d)' <=> Pending(w, d) \/ (w = "login" /\ d = c)
    BY <2>3 DEF Pending
  <2>5. Types' /\ Mutual' /\ Counted' /\ InGameOnce' /\ Pooling'
    BY <1>1, <1>2, <2>3 DEF IInv, Types, Mutual, Counted, InGameOnce, Pooling,
                            protVars, playVars
  <2>6. Releases'
    BY <1>1, <1>2, <2>4 DEF IInv, Releases, protVars
  <2>7. Stages'
    <3>1. \A d \in Conns : Unused(d)' <=> Unused(d)
      BY <1>1, <2>4 DEF Unused, protVars, playVars
    <3>2. QED
      BY <1>1, <2>1, <2>4, <3>1 DEF IInv, Stages, protVars
  <2>8. QED
    BY <2>5, <2>6, <2>7 DEF IInv
<1>3. CASE tasks' = ReleasePosted(c) /\ life' = Disconnected(c)
  <2>1. first \subseteq first' /\ first' \subseteq Conns
    BY <1>1 DEF IInv, Types
  <2>2. QED
    BY <1>1, <1>3, <2>1, HangingUp
<1>4. QED
  BY <1>2, <1>3 DEF RecvFirstMessage

LEMMA LogoutMessages == ASSUME IInv, NEW c \in Conns, RecvLogout(c) PROVE IInv'
<1>1. /\ \A i \in 1..Len(tasks) : tasks[i] # <<"logout", c>>
      /\ tasks' = Append(tasks, <<"logout", c>>)
      /\ UNCHANGED <<connVars, protVars, playVars>>
  BY DEF RecvLogout
<1>2. /\ WellQueued(tasks) /\ <<"logout", c>> \in Task
      /\ <<"logout", c>> \notin Elems(tasks)
  BY <1>1 DEF IInv, Types, Task, Elems
<1>3. /\ WellQueued(tasks')
      /\ Elems(tasks') = Elems(tasks) \cup {<<"logout", c>>}
  <2>1. "logout" # "login"
    OBVIOUS
  <2>2. /\ WellQueued(Append(tasks, <<"logout", c>>))
        /\ Elems(Append(tasks, <<"logout", c>>)) = Elems(tasks) \cup {<<"logout", c>>}
    BY <1>2, <2>1, Posting
  <2>3. QED
    BY <1>1, <2>2
<1>4. \A w \in {"login", "connect", "release"}, d \in Conns :
        Pending(w, d)' <=> Pending(w, d)
  BY <1>3 DEF Pending
<1>5. Types' /\ Mutual' /\ Counted' /\ InGameOnce' /\ Pooling'
  BY <1>1, <1>3 DEF IInv, Types, Mutual, Counted, InGameOnce, Pooling,
                    connVars, protVars, playVars
<1>6. Releases'
  BY <1>1, <1>4 DEF IInv, Releases, connVars, protVars
<1>7. Stages'
  <2>1. \A d \in Conns : Unused(d)' <=> Unused(d)
    BY <1>1, <1>4 DEF Unused, connVars, protVars, playVars
  <2>2. QED
    BY <1>1, <1>4, <2>1 DEF IInv, Stages, connVars, protVars
<1>8. QED
  BY <1>5, <1>6, <1>7 DEF IInv

LEMMA Firing == ASSUME IInv, NEW c \in Conns, Fire(c) PROVE IInv'
<1>1. /\ c \in timers /\ timers' = timers \ {c}
      /\ tasks' = Append(tasks, <<"connect", c>>)
      /\ UNCHANGED <<life, first, target, protVars, playVars>>
  BY DEF Fire
<1>2. /\ ~Pending("connect", c) /\ ~Pending("login", c)
      /\ c \in first
  BY <1>1 DEF IInv, Stages, Unused
<1>3. /\ WellQueued(tasks) /\ <<"connect", c>> \in Task
      /\ <<"connect", c>> \notin Elems(tasks)
  BY <1>2 DEF IInv, Types, Task, Pending
<1>4. /\ WellQueued(tasks')
      /\ Elems(tasks') = Elems(tasks) \cup {<<"connect", c>>}
  <2>1. "connect" # "login"
    OBVIOUS
  <2>2. /\ WellQueued(Append(tasks, <<"connect", c>>))
        /\ Elems(Append(tasks, <<"connect", c>>)) = Elems(tasks) \cup {<<"connect", c>>}
    BY <1>3, <2>1, Posting
  <2>3. QED
    BY <1>1, <2>2
<1>5. \A w \in {"login", "connect", "release"}, d \in Conns :
        Pending(w, d)' <=> Pending(w, d) \/ (w = "connect" /\ d = c)
  BY <1>4 DEF Pending
<1>6. Types' /\ Mutual' /\ Counted' /\ InGameOnce' /\ Pooling'
  BY <1>1, <1>4 DEF IInv, Types, Mutual, Counted, InGameOnce, Pooling,
                    protVars, playVars
<1>7. Releases'
  BY <1>1, <1>5 DEF IInv, Releases, protVars
<1>8. Stages'
  <2>1. \A d \in Conns : d # c => (Unused(d)' <=> Unused(d))
    BY <1>1, <1>5 DEF Unused, protVars, playVars
  <2>2. QED
    BY <1>1, <1>2, <1>5, <2>1 DEF IInv, Stages, protVars, playVars
<1>9. QED
  BY <1>6, <1>7, <1>8 DEF IInv

-----------------------------------------------------------------------------
(* The dispatcher. *)

LEMMA Removing ==
  ASSUME IInv, NEW G, NEW D \in SUBSET Conns, Took(G, D),
         G \subseteq {<<"logout", c>> : c \in Conns},
         NEW o, Removed(o) \/ UNCHANGED <<world, toRelease>>,
         UNCHANGED <<first, timers, target, protVars, client, connecting, refs>>
  PROVE  IInv'
<1>1. \E X : world' = world \ X /\ toRelease' = toRelease \cup (world \cap X)
  <2>1. CASE Removed(o)
    <3>1. /\ world' = world \ {o}
          /\ toRelease' = toRelease \cup (world \cap {o})
      BY <2>1 DEF Removed
    <3>2. QED
      BY <3>1
  <2>2. CASE UNCHANGED <<world, toRelease>>
    <3>1. /\ world' = world \ {}
          /\ toRelease' = toRelease \cup (world \cap {})
      BY <2>2
    <3>2. QED
      BY <3>1
  <2>3. QED
    BY <2>1, <2>2
<1>2. first \subseteq first' /\ first' \subseteq Conns
  BY DEF IInv, Types
<1>3. UNCHANGED <<timers, target, protVars, client, connecting, refs>>
  OBVIOUS
<1>4. QED
  BY <1>1, <1>2, <1>3, Departing

LEMMA NothingTaken ==
  ASSUME IInv, UNCHANGED <<life, tasks>>
  PROVE  Took({}, {})
BY DEF IInv, Types, Took, Hung

LEMMA LoggingOut == ASSUME IInv, NEW c \in Conns, LogoutTask(c) PROVE IInv'
<1>1. /\ IsHead("logout", c)
      /\ UNCHANGED <<first, timers, target, protVars, client, connecting, refs>>
      /\ \/ Done /\ UNCHANGED <<world, toRelease>>
         \/ DoneDisconnecting(c) /\ Removed(player[c])
  BY DEF LogoutTask
<1>2. PICK D \in {{}, {c}} : Took({<<"logout", c>>}, D)
  BY <1>1, Finished, FinishedDisconnecting
<1>3. QED
  BY <1>1, <1>2, Removing

LEMMA Kicking == ASSUME IInv, NEW o \in Conns, Kick(o) PROVE IInv'
<1>1. UNCHANGED <<first, timers, target, protVars, client, connecting, refs>>
  BY DEF Kick
<1>2. CASE UNCHANGED <<life, tasks>>
  <2>1. PICK q : Removed(q) \/ UNCHANGED <<world, toRelease>>
    BY <1>2 DEF Kick
  <2>2. QED
    BY <1>1, <1>2, <2>1, NothingTaken, Removing
<1>3. CASE ~UNCHANGED <<life, tasks>>
  <2>1. /\ client[o] # None
        /\ life' = Disconnected(client[o]) /\ tasks' = ReleasePosted(client[o])
        /\ Removed(player[client[o]])
    BY <1>3 DEF Kick
  <2>2. client[o] \in Conns
    BY <2>1 DEF IInv, Types
  <2>3. Took({}, {client[o]})
    BY <2>1, <2>2, HungUp
  <2>4. QED
    BY <1>1, <2>1, <2>2, <2>3, Removing
<1>4. QED
  BY <1>2, <1>3

LEMMA Dying == ASSUME IInv, NEW o \in Conns, Death(o) PROVE IInv'
<1>1. /\ Removed(o) /\ UNCHANGED <<life, tasks>>
      /\ UNCHANGED <<first, timers, target, protVars, client, connecting, refs>>
  BY DEF Death, connVars
<1>2. QED
  BY <1>1, NothingTaken, Removing

LEMMA CleaningUp == ASSUME IInv, Cleanup PROVE IInv'
<1>1. /\ toRelease' = {}
      /\ refs' = [o \in Conns |-> IF o \in toRelease THEN refs[o] - 1 ELSE refs[o]]
      /\ UNCHANGED <<connVars, tasks, protVars, client, connecting, world>>
  BY DEF Cleanup
<1> USE DEF IInv, Types, connVars, protVars
<1>2. \A o \in Conns : o \in toRelease => refs[o] - 1 \in Nat /\ o \notin world
  BY DEF Counted, InGameOnce
<1>3. Types'
  BY <1>1, <1>2
<1>4. Counted'
  BY <1>1, <1>2 DEF Counted
<1>5. Mutual' /\ InGameOnce' /\ Releases' /\ Pooling'
  BY <1>1 DEF Mutual, InGameOnce, Releases, Pooling, Pending
<1>6. Stages'
  BY <1>1 DEF Stages, Unused, Pending
<1>7. QED
  BY <1>3, <1>4, <1>5, <1>6

LEMMA HangupByPeer == ASSUME IInv, NEW c \in Conns, Hangup(c) PROVE IInv'
<1>1. /\ life' = Disconnected(c) /\ tasks' = ReleasePosted(c)
      /\ first \subseteq first' /\ first' \subseteq Conns
      /\ UNCHANGED <<timers, target, protVars, playVars>>
  BY DEF Hangup, IInv, Types
<1>2. QED
  BY <1>1, HangingUp

(* What is known of a connection whose task is served. *)
LEMMA Served ==
  ASSUME IInv, NEW what, NEW c \in Conns, IsHead(what, c)
  PROVE  /\ Pending(what, c)
         /\ what = "release" => ~Pending("login", c)
<1>1. WellQueued(tasks) /\ tasks # <<>> /\ Head(tasks) = <<what, c>>
  BY DEF IsHead, IInv, Types
<1>2. QED
  BY <1>1, Serving DEF Pending

(* A login that finds nobody in the game. *)
LEMMA LoggingIn == ASSUME IInv, NEW c \in Conns, LoginNew(c) PROVE IInv'
<1>1. /\ IsHead("login", c) /\ world = {}
      /\ player' = [player EXCEPT ![c] = c]
      /\ client' = [client EXCEPT ![c] = c]
      /\ UNCHANGED <<first, timers, target, released, connecting>>
  BY DEF LoginNew, Found
<1>2. PICK D \in {{}, {c}} : Took({<<"login", c>>}, D)
  BY <1>1, Finished, FinishedDisconnecting DEF LoginNew
<1>3. \/ /\ refs' = [refs EXCEPT ![c] = 1]
         /\ UNCHANGED <<accept, pool, world, toRelease>>
      \/ /\ refs' = [refs EXCEPT ![c] = 2]
         /\ accept' = accept \cup {c}
         /\ pool' = [pool EXCEPT ![c] = @ + 1]
         /\ \/ world' = world \cup {c} /\ UNCHANGED toRelease
            \/ toRelease' = toRelease \cup {c} /\ UNCHANGED world
  BY DEF LoginNew, Pooled
<1>4. /\ D \in SUBSET Conns
      /\ released' = released \cup {d \in Conns : <<"release", d>> \in {<<"login", c>>}}
  BY <1>1
<1>5. Releases'
  BY <1>2, <1>4, ReleasesKept
<1>6. /\ \A d \in Conns :
           /\ Pending("login", d)' <=> Pending("login", d) /\ d # c
           /\ Pending("connect", d)' <=> Pending("connect", d)
      /\ life' \in [Conns -> {"new", "open", "closing", "gone"}]
      /\ WellQueued(tasks')
  <2>1. \A d \in Conns : /\ <<"login", d>> \in {<<"login", c>>} <=> d = c
                         /\ <<"connect", d>> \notin {<<"login", c>>}
    OBVIOUS
  <2>2. QED
    BY <1>2, <1>4, <2>1, PendingThen
<1>7. /\ Unused(c) /\ c \notin released /\ c \in first
      /\ c \notin timers /\ ~Pending("connect", c)
  <2>1. Pending("login", c)
    BY <1>1, Served
  <2>2. QED
    BY <2>1 DEF IInv, Stages, Unused
<1>8. c \notin toRelease /\ client[c] = None /\ player[c] = None /\ pool[c] = 0
  BY <1>7 DEF Unused
<1> USE GameLoginAssumption
<1>9. Types'
  <2>1. /\ player' \in [Conns -> Conns \cup {None}]
        /\ client' \in [Conns -> Conns \cup {None}]
    BY <1>1 DEF IInv, Types
  <2>2. /\ refs' \in [Conns -> Nat] /\ pool' \in [Conns -> 0..1]
        /\ accept' \subseteq Conns
    BY <1>3, <1>8 DEF IInv, Types
  <2>3. world' \subseteq Conns /\ toRelease' \subseteq Conns
    BY <1>3 DEF IInv, Types
  <2>4. QED
    BY <1>1, <1>6, <2>1, <2>2, <2>3 DEF IInv, Types
<1>10. Mutual'
  BY <1>1, <1>8 DEF IInv, Types, Mutual
<1>11. Counted'
  BY <1>1, <1>3, <1>8 DEF IInv, Types, Counted
<1>12. InGameOnce'
  BY <1>1, <1>3, <1>8 DEF IInv, InGameOnce
<1>13. Pooling'
  BY <1>1, <1>3, <1>7, <1>8 DEF IInv, Types, Pooling
<1>14. Stages'
  <2>1. \A d \in Conns : d # c => (Unused(d)' <=> Unused(d))
    BY <1>1, <1>3, <1>6 DEF Unused, IInv, Types
  <2>2. ASSUME NEW d \in Conns, d # c
        PROVE  /\ pool'[d] = pool[d] /\ player'[d] = player[d]
               /\ Pending("login", d)' <=> Pending("login", d)
    BY <1>1, <1>3, <1>6, <2>2 DEF IInv, Types
  <2>3. QED
    BY <1>1, <1>6, <1>7, <2>1, <2>2 DEF IInv, Stages
<1>15. QED
  BY <1>5, <1>9, <1>10, <1>11, <1>12, <1>13, <1>14 DEF IInv

(* The login or the connect of c is done: it waits for its player, was       *)
(* refused, or has taken over the player o.                                  *)
Seated(c, o) ==
  /\ o \in world /\ client[o] = None
  /\ player' = [player EXCEPT ![c] = o]
  /\ client' = [client EXCEPT ![o] = c]
  /\ refs' = [refs EXCEPT ![o] = @ + 1]
  /\ accept' = accept \cup {c} /\ connecting' \subseteq connecting
  /\ UNCHANGED <<timers, target>>

Waits(what, c) ==
  /\ UNCHANGED <<player, client, refs, accept>>
  /\ connecting' \subseteq Conns
  /\ target' \in [Conns -> Conns \cup {None}]
  /\ \/ UNCHANGED timers
     \/ what = "login" /\ timers' = timers \cup {c}

LEMMA Answering ==
  ASSUME IInv, NEW what \in {"login", "connect"}, NEW c \in Conns,
         NEW D \in SUBSET Conns, Took({<<what, c>>}, D), Pending(what, c),
         \/ what = "login" /\ pool' = Pooled(c)
         \/ what = "connect" /\ pool' = pool,
         UNCHANGED <<first, released, world, toRelease>>,
         Waits(what, c) \/ \E o \in Conns : Seated(c, o)
  PROVE  IInv'
<1>1. Releases'
  <2>1. released' = released \cup {d \in Conns : <<"release", d>> \in {<<what, c>>}}
    OBVIOUS
  <2>2. QED
    BY <2>1, ReleasesKept
<1>2. /\ \A d \in Conns :
           /\ Pending("login", d)' <=> Pending("login", d) /\ ~(what = "login" /\ d = c)
           /\ Pending("connect", d)' <=>
                Pending("connect", d) /\ ~(what = "connect" /\ d = c)
      /\ life' \in [Conns -> {"new", "open", "closing", "gone"}]
      /\ WellQueued(tasks')
  <2>1. \A d \in Conns :
          /\ <<"login", d>> \in {<<what, c>>} <=> what = "login" /\ d = c
          /\ <<"connect", d>> \in {<<what, c>>} <=> what = "connect" /\ d = c
    OBVIOUS
  <2>2. QED
    BY <2>1, PendingThen
<1>3. /\ c \in first /\ player[c] = None /\ c \notin timers
      /\ what = "login" => /\ c \notin released /\ ~Pending("connect", c)
                           /\ pool[c] = 0
      /\ what = "connect" => ~Pending("login", c) /\ (c \notin released => pool[c] = 1)
  BY DEF IInv, Stages, Unused
<1>4. /\ pool' \in [Conns -> 0..1]
      /\ \A d \in Conns : d # c => pool'[d] = pool[d]
      /\ c \in released => pool'[c] = pool[c]
      /\ c \notin released => pool'[c] = 1
  BY <1>3 DEF Pooled, IInv, Types
<1>5. c \notin timers' \/ (what = "login" /\ Waits(what, c))
  BY <1>3 DEF Waits, Seated
<1>6. CASE Waits(what, c)
  <2> USE <1>6
  <2>1. Types'
    BY <1>2, <1>4 DEF IInv, Types, Waits
  <2>2. Mutual' /\ Counted' /\ InGameOnce'
    BY DEF IInv, Mutual, Counted, InGameOnce, Waits
  <2>3. Pooling'
    BY <1>4 DEF IInv, Pooling, Waits
  <2>4. \A d \in Conns : d # c => (d \in timers' <=> d \in timers)
    BY DEF Waits
  <2>5. \A d \in Conns : d # c => (Unused(d)' <=> Unused(d))
    BY <1>2, <1>4, <2>4 DEF Unused, Waits
  <2>6. Stages'
    BY <1>2, <1>3, <1>4, <1>5, <2>4, <2>5 DEF IInv, Stages, Waits
  <2>7. QED
    BY <1>1, <2>1, <2>2, <2>3, <2>6 DEF IInv
<1>7. ASSUME NEW o \in Conns, Seated(c, o) PROVE IInv'
  <2> USE <1>7, GameLoginAssumption
  <2>1. Types'
    <3>1. /\ player' \in [Conns -> Conns \cup {None}]
          /\ client' \in [Conns -> Conns \cup {None}]
      BY DEF IInv, Types, Seated
    <3>2. /\ refs' \in [Conns -> Nat] /\ accept' \subseteq Conns
          /\ connecting' \subseteq Conns /\ UNCHANGED <<timers, target>>
      BY DEF IInv, Types, Seated
    <3>3. QED
      BY <1>2, <1>4, <3>1, <3>2 DEF IInv, Types
  <2>2. Mutual'
    BY <1>3 DEF IInv, Types, Mutual, Seated
  <2>3. Counted' /\ InGameOnce'
    BY DEF IInv, Types, Counted, InGameOnce, Seated
  <2>4. \A d \in Conns : d # c => player'[d] = player[d]
    BY DEF IInv, Types, Seated
  <2>5. Pooling'
    BY <1>4, <2>4 DEF IInv, Pooling
  <2>6. \A d \in Conns : d # c => (Unused(d)' <=> Unused(d))
    BY <1>2, <1>4, <2>4 DEF Unused, Seated, IInv, Types
  <2>7. timers' = timers
    BY DEF Seated
  <2>8. Stages'
    BY <1>2, <1>3, <1>4, <2>4, <2>6, <2>7 DEF IInv, Stages
  <2>9. QED
    BY <1>1, <2>1, <2>2, <2>3, <2>5, <2>8 DEF IInv
<1>8. QED
  BY <1>6, <1>7

(* connect, from the login or a second later. *)
LEMMA ConnectingTo ==
  ASSUME IInv, NEW what \in {"login", "connect"}, NEW c \in Conns,
         IsHead(what, c), NEW o, Connect(c, o), UNCHANGED <<timers, target>>
  PROVE  /\ \E D \in SUBSET Conns : Took({<<what, c>>}, D)
         /\ Waits(what, c) \/ (o \in Conns /\ Seated(c, o))
<1>1. \/ Done
      \/ DoneDisconnecting(c)
  BY DEF Connect, Refused
<1>2. \E D \in SUBSET Conns : Took({<<what, c>>}, D)
  <2>1. {} \in SUBSET Conns /\ {c} \in SUBSET Conns
    OBVIOUS
  <2>2. QED
    BY <1>1, <2>1, Finished, FinishedDisconnecting
<1>3. CASE UNCHANGED <<player, accept, client, connecting, refs>>
  BY <1>2, <1>3 DEF Waits, IInv, Types
<1>4. CASE /\ Takeable(o)
           /\ player' = [player EXCEPT ![c] = o]
           /\ refs' = Referenced(o)
           /\ connecting' = connecting \ {o}
           /\ client' = [client EXCEPT ![o] = c]
           /\ accept' = accept \cup {c}
  <2>1. o \in Conns
    BY <1>4 DEF Takeable, IInv, Types
  <2>2. Seated(c, o)
    BY <1>4 DEF Seated, Takeable, Referenced
  <2>3. QED
    BY <1>2, <2>1, <2>2
<1>5. QED
  BY <1>3, <1>4 DEF Connect

LEMMA ConnectingLate == ASSUME IInv, NEW c \in Conns, ConnectTask(c) PROVE IInv'
<1>1. /\ IsHead("connect", c) /\ Connect(c, target[c])
      /\ UNCHANGED <<first, timers, target, released, pool, world, toRelease>>
  BY DEF ConnectTask
<1>2. /\ \E D \in SUBSET Conns : Took({<<"connect", c>>}, D)
      /\ Waits("connect", c) \/ \E o \in Conns : Seated(c, o)
  BY <1>1, ConnectingTo
<1>3. Pending("connect", c)
  BY <1>1, Served
<1>4. QED
  BY <1>1, <1>2, <1>3, Answering

LEMMA LoggingInAgain == ASSUME IInv, NEW c \in Conns, LoginAgain(c) PROVE IInv'
<1>1. PICK o \in world :
        \/ /\ client[o] # None
           /\ DoneDisconnecting(client[o])
           /\ connecting' = connecting \cup {o}
           /\ timers' = timers \cup {c}
           /\ target' = [target EXCEPT ![c] = o]
           /\ UNCHANGED <<player, accept, client, refs>>
        \/ /\ client[o] = None
           /\ Connect(c, o)
           /\ UNCHANGED <<timers, target>>
  BY DEF LoginAgain, Found
<1>2. /\ IsHead("login", c) /\ pool' = Pooled(c)
      /\ UNCHANGED <<first, released, world, toRelease>>
  BY DEF LoginAgain
<1>3. Pending("login", c)
  BY <1>2, Served
<1>4. /\ \E D \in SUBSET Conns : Took({<<"login", c>>}, D)
      /\ Waits("login", c) \/ \E q \in Conns : Seated(c, q)
  <2>1. CASE client[o] # None /\ DoneDisconnecting(client[o])
             /\ connecting' = connecting \cup {o}
             /\ timers' = timers \cup {c}
             /\ target' = [target EXCEPT ![c] = o]
             /\ UNCHANGED <<player, accept, client, refs>>
    <3>1. o \in Conns /\ client[o] \in Conns
      BY <2>1 DEF IInv, Types
    <3>2. Took({<<"login", c>>}, {client[o]})
      BY <1>2, <2>1, <3>1, FinishedDisconnecting
    <3>3. Waits("login", c)
      BY <2>1, <3>1 DEF Waits, IInv, Types
    <3>4. QED
      BY <3>1, <3>2, <3>3
  <2>2. CASE Connect(c, o) /\ UNCHANGED <<timers, target>>
    BY <1>2, <2>2, ConnectingTo
  <2>3. QED
    BY <1>1, <2>1, <2>2
<1>5. QED
  BY <1>2, <1>3, <1>4, Answering

(* The release of c lets go of the player it holds. *)
LEMMA LettingGo == ASSUME IInv, NEW c \in Conns, Release(c) PROVE IInv'
<1>1. /\ IsHead("release", c) /\ Done
      /\ pool' = Unpooled(c) /\ released' = released \cup {c}
      /\ UNCHANGED <<first, timers, target, accept, connecting, world, toRelease>>
  BY DEF Release
<1>2. Took({<<"release", c>>}, {})
  BY <1>1, Finished
<1>3. Releases'
  <2>1. /\ {} \in SUBSET Conns
        /\ {d \in Conns : <<"release", d>> \in {<<"release", c>>}} = {c}
    OBVIOUS
  <2>2. QED
    BY <1>1, <1>2, <2>1, ReleasesKept
<1>4. /\ \A d \in Conns :
           /\ Pending("login", d)' <=> Pending("login", d)
           /\ Pending("connect", d)' <=> Pending("connect", d)
      /\ life' \in [Conns -> {"new", "open", "closing", "gone"}]
      /\ WellQueued(tasks')
  <2>1. \A d \in Conns : /\ <<"login", d>> \notin {<<"release", c>>}
                         /\ <<"connect", d>> \notin {<<"release", c>>}
    OBVIOUS
  <2>2. {} \in SUBSET Conns
    OBVIOUS
  <2>3. QED
    BY <1>2, <2>1, <2>2, PendingThen
<1>5. Pending("release", c) /\ ~Pending("login", c)
  BY <1>1, Served
<1>6. /\ pool' \in [Conns -> 0..1] /\ pool'[c] = 0
      /\ \A d \in Conns : d # c => pool'[d] = pool[d]
  BY <1>1 DEF Unpooled, IInv, Types
<1>7. \/ UNCHANGED <<client, refs, player>>
      \/ \E o \in Conns : /\ player[c] = o /\ client[o] = c
                          /\ client' = [client EXCEPT ![o] = None]
                          /\ refs' = [refs EXCEPT ![o] = @ - 1]
                          /\ player' = [player EXCEPT ![c] = None]
  BY DEF Release, WithoutClient, Dereferenced, IInv, Types
<1>8. /\ \A d \in Conns : /\ player'[d] = player[d] \/ player'[d] = None
                          /\ client'[d] = client[d] \/ client'[d] = None
      /\ player' \in [Conns -> Conns \cup {None}]
      /\ client' \in [Conns -> Conns \cup {None}]
  BY <1>7 DEF IInv, Types
<1>9. Mutual'
  BY <1>7, GameLoginAssumption DEF IInv, Types, Mutual
<1>10. Counted' /\ refs' \in [Conns -> Nat]
  BY <1>1, <1>7, GameLoginAssumption DEF IInv, Types, Counted
<1>11. Types'
  BY <1>1, <1>4, <1>6, <1>8, <1>10 DEF IInv, Types
<1>12. InGameOnce'
  BY <1>1 DEF IInv, InGameOnce
<1>13. Pooling'
  BY <1>1, <1>6, <1>8 DEF IInv, Pooling
<1>14. Stages'
  <2>1. ASSUME NEW d \in Conns, Unused(d) PROVE Unused(d)'
    BY <1>1, <1>4, <1>6, <1>8, <2>1 DEF Unused
  <2>2. QED
    BY <1>1, <1>4, <1>5, <1>6, <1>8, <2>1 DEF IInv, Stages
<1>15. QED
  BY <1>3, <1>9, <1>10, <1>11, <1>12, <1>13, <1>14 DEF IInv

-----------------------------------------------------------------------------
LEMMA Inductive == IInv /\ [Next]_vars => IInv'
<1> SUFFICES ASSUME IInv, [Next]_vars PROVE IInv'
  OBVIOUS
<1>1. CASE RunTask
  BY <1>1, LoggingIn, LoggingInAgain, ConnectingLate, LoggingOut, LettingGo
  DEF RunTask
<1>2. ASSUME NEW c \in Conns,
             \/ Accept(c) \/ RecvFirstMessage(c) \/ RecvLogout(c)
             \/ Hangup(c) \/ Expire(c) \/ Fire(c) \/ Kick(c) \/ Death(c)
      PROVE  IInv'
  BY <1>2, Accepting, FirstMessages, LogoutMessages, HangupByPeer, Firing,
     Kicking, Dying
<1>3. CASE Cleanup
  BY <1>3, CleaningUp
<1>4. CASE UNCHANGED vars
  BY <1>4 DEF vars, connVars, protVars, playVars, IInv, Types, Mutual, Counted,
              InGameOnce, Stages, Unused, Pending, Releases, Pooling
<1>5. QED
  BY <1>1, <1>2, <1>3, <1>4 DEF Next

LEMMA InductiveInvariant == Spec => []IInv
<1>1. Init => IInv
  BY Initially
<1>2. IInv /\ [Next]_vars => IInv'
  BY Inductive
<1>3. QED
  BY <1>1, <1>2, PTL DEF Spec

(* Protocols, players, their reference counts and the pool always agree,     *)
(* however many connections log the character in, and however their         *)
(* messages, closings and tasks interleave.                                  *)
THEOREM LoginIsConsistent == Spec => []LoginInv
<1>1. Spec => []IInv
  BY InductiveInvariant
<1>2. IInv => LoginInv
  BY Enough
<1>3. QED
  BY <1>1, <1>2, PTL

-----------------------------------------------------------------------------
(* Every connection behaves as ConnectionLife says.                          *)
ReleaseOf(c) ==
  IF c \in released THEN "run"
  ELSE IF Pending("release", c) THEN "posted" ELSE "none"

LifeStep(c) == Life(c)!LifeNext \/ UNCHANGED Life(c)!lifeVars

LEMMA Mapped ==
  ASSUME NEW c \in Conns
  PROVE  /\ ReleaseOf(c)
              = IF c \in released THEN "run"
                ELSE IF \E i \in 1..Len(tasks) : tasks[i] = <<"release", c>>
                     THEN "posted" ELSE "none"
         /\ ReleaseOf(c)'
              = IF c \in released' THEN "run"
                ELSE IF \E i \in 1..Len(tasks') : tasks'[i] = <<"release", c>>
                     THEN "posted" ELSE "none"
BY DEF ReleaseOf, Pending, Elems

LEMMA LifeKept ==
  ASSUME NEW c \in Conns, ReleaseOf(c)' = ReleaseOf(c),
         (life[c] \in {"new", "open"} /\ life'[c] \in {"new", "open"})
           \/ life'[c] = life[c]
  PROVE  LifeStep(c)
BY Mapped DEF LifeStep, Life!lifeVars

LEMMA LifeExpires ==
  ASSUME NEW c \in Conns, ReleaseOf(c)' = ReleaseOf(c),
         life[c] = "closing", life'[c] = "gone"
  PROVE  LifeStep(c)
BY Mapped DEF LifeStep, Life!LifeNext, Life!Expire

LEMMA LifeCloses ==
  ASSUME NEW c \in Conns, ReleaseOf(c)' = "posted",
         life[c] = "open", life'[c] = "closing"
  PROVE  LifeStep(c)
BY Mapped DEF LifeStep, Life!LifeNext, Life!Close

LEMMA LifeReleases ==
  ASSUME NEW c \in Conns, ReleaseOf(c) = "posted", ReleaseOf(c)' = "run",
         life'[c] = life[c]
  PROVE  LifeStep(c)
BY Mapped DEF LifeStep, Life!LifeNext, Life!Release

LEMMA LivesOfTook ==
  ASSUME IInv, NEW G, NEW D \in SUBSET Conns, Took(G, D),
         released' = released \cup {c \in Conns : <<"release", c>> \in G},
         NEW c \in Conns
  PROVE  LifeStep(c)
<1>1. /\ life[c] \in {"new", "open"} => ~Pending("release", c) /\ c \notin released
      /\ Pending("release", c) => c \notin released
      /\ <<"release", c>> \in G => Pending("release", c)
      /\ c \in released' <=> c \in released \/ <<"release", c>> \in G
  BY DEF IInv, Releases, Took, Pending
<1>2. /\ Pending("release", c)' <=>
           (Pending("release", c) /\ <<"release", c>> \notin G) \/ c \in Hung(D)
      /\ life'[c] = IF c \in Hung(D) THEN "closing" ELSE life[c]
      /\ c \in Hung(D) => life[c] = "open"
  BY PendingThen
<1>3. CASE c \in Hung(D)
  <2>1. ReleaseOf(c)' = "posted" /\ life[c] = "open" /\ life'[c] = "closing"
    BY <1>1, <1>2, <1>3 DEF ReleaseOf
  <2>2. QED
    BY <2>1, LifeCloses
<1>4. CASE c \notin Hung(D) /\ <<"release", c>> \in G
  <2>1. ReleaseOf(c) = "posted" /\ ReleaseOf(c)' = "run" /\ life'[c] = life[c]
    BY <1>1, <1>2, <1>4 DEF ReleaseOf
  <2>2. QED
    BY <2>1, LifeReleases
<1>5. CASE c \notin Hung(D) /\ <<"release", c>> \notin G
  <2>1. ReleaseOf(c)' = ReleaseOf(c) /\ life'[c] = life[c]
    BY <1>1, <1>2, <1>5 DEF ReleaseOf
  <2>2. QED
    BY <2>1, LifeKept
<1>6. QED
  BY <1>3, <1>4, <1>5

(* A task other than a release is posted, or none. *)
LEMMA LivesOfPosted ==
  ASSUME IInv, NEW what \in {"login", "connect", "logout"}, NEW d \in Conns,
         tasks' = Append(tasks, <<what, d>>), UNCHANGED <<life, released>>,
         NEW c \in Conns
  PROVE  LifeStep(c)
<1>1. Elems(Append(tasks, <<what, d>>)) = Elems(tasks) \cup {<<what, d>>}
  <2>1. tasks \in Seq(Task) /\ <<what, d>> \in Task
    BY DEF IInv, Types, WellQueued, Task
  <2>2. QED
    BY <2>1, ElemsFacts
<1>2. Pending("release", c)' <=> Pending("release", c)
  BY <1>1 DEF Pending
<1>3. ReleaseOf(c)' = ReleaseOf(c) /\ life'[c] = life[c]
  BY <1>2 DEF ReleaseOf
<1>4. QED
  BY <1>3, LifeKept

(* What an action of the dispatcher takes from the queue. *)
LEMMA TasksTake ==
  ASSUME IInv, NEW d \in Conns,
         \/ LoginNew(d) \/ LoginAgain(d) \/ ConnectTask(d)
         \/ LogoutTask(d) \/ Release(d)
  PROVE  \E what \in {"login", "connect", "logout", "release"}, D \in SUBSET Conns :
           /\ Took({<<what, d>>}, D)
           /\ released' = IF what = "release" THEN released \cup {d} ELSE released
<1>1. ASSUME NEW what \in {"login", "connect", "logout", "release"},
             IsHead(what, d),
             Done \/ \E x \in Conns : DoneDisconnecting(x)
      PROVE  \E D \in SUBSET Conns : Took({<<what, d>>}, D)
  <2>1. CASE Done
    <3>1. Took({<<what, d>>}, {}) /\ {} \in SUBSET Conns
      BY <1>1, <2>1, Finished
    <3>2. QED
      BY <3>1
  <2>2. ASSUME NEW x \in Conns, DoneDisconnecting(x)
        PROVE  \E D \in SUBSET Conns : Took({<<what, d>>}, D)
    <3>1. Took({<<what, d>>}, {x}) /\ {x} \in SUBSET Conns
      BY <1>1, <2>2, FinishedDisconnecting
    <3>2. QED
      BY <3>1
  <2>3. QED
    BY <1>1, <2>1, <2>2
<1>2. ASSUME NEW o, Connect(d, o) PROVE Done \/ DoneDisconnecting(d)
  BY <1>2 DEF Connect, Refused
<1>3. CASE LoginNew(d)
  BY <1>1, <1>3 DEF LoginNew
<1>4. CASE LoginAgain(d)
  <2>1. IsHead("login", d) /\ released' = released
    BY <1>4 DEF LoginAgain
  <2>2. Done \/ \E x \in Conns : DoneDisconnecting(x)
    BY <1>2, <1>4 DEF LoginAgain, Found, IInv, Types
  <2>3. QED
    BY <1>1, <2>1, <2>2
<1>5. CASE ConnectTask(d)
  BY <1>1, <1>2, <1>5 DEF ConnectTask
<1>6. CASE LogoutTask(d)
  BY <1>1, <1>6 DEF LogoutTask, protVars
<1>7. CASE Release(d)
  BY <1>1, <1>7 DEF Release
<1>8. QED
  BY <1>3, <1>4, <1>5, <1>6, <1>7

LEMMA LivesKept == ASSUME IInv, [Next]_vars, NEW c \in Conns PROVE LifeStep(c)
<1>1. CASE RunTask
  <2>1. PICK d \in Conns : \E what \in {"login", "connect", "logout", "release"},
                              D \in SUBSET Conns :
          /\ Took({<<what, d>>}, D)
          /\ released' = IF what = "release" THEN released \cup {d} ELSE released
    BY <1>1, TasksTake DEF RunTask
  <2>2. PICK what \in {"login", "connect", "logout", "release"}, D \in SUBSET Conns :
          /\ Took({<<what, d>>}, D)
          /\ released' = IF what = "release" THEN released \cup {d} ELSE released
    BY <2>1
  <2>3. released' = released \cup {x \in Conns : <<"release", x>> \in {<<what, d>>}}
    BY <2>2
  <2>4. QED
    BY <2>2, <2>3, LivesOfTook
<1>2. ASSUME NEW D \in SUBSET Conns, Took({}, D), UNCHANGED released
      PROVE  LifeStep(c)
  <2>1. released' = released \cup {x \in Conns : <<"release", x>> \in {}}
    BY <1>2
  <2>2. QED
    BY <1>2, <2>1, LivesOfTook
<1>3. ASSUME NEW d \in Conns, life' = Disconnected(d), tasks' = ReleasePosted(d),
             UNCHANGED released
      PROVE  LifeStep(c)
  <2>1. Took({}, {d}) /\ {d} \in SUBSET Conns
    BY <1>3, HungUp
  <2>2. QED
    BY <1>2, <1>3, <2>1
<1>4. CASE UNCHANGED <<life, tasks, released>>
  <2>1. Took({}, {}) /\ {} \in SUBSET Conns
    BY <1>4, NothingTaken
  <2>2. QED
    BY <1>2, <1>4, <2>1
<1>5. ASSUME NEW d \in Conns, Accept(d) \/ Expire(d) PROVE LifeStep(c)
  <2>1. /\ ReleaseOf(c)' = ReleaseOf(c)
        /\ \/ life[d] = "new" /\ life' = [life EXCEPT ![d] = "open"]
           \/ life[d] = "closing" /\ life' = [life EXCEPT ![d] = "gone"]
    BY <1>5 DEF Accept, Expire, ReleaseOf, Pending, protVars
  <2>2. CASE life[d] = "closing" /\ life' = [life EXCEPT ![d] = "gone"] /\ c = d
    BY <2>1, <2>2, LifeExpires DEF IInv, Types
  <2>3. CASE (life[d] = "new" /\ life' = [life EXCEPT ![d] = "open"]) \/ c # d
    BY <2>1, <2>3, LifeKept DEF IInv, Types
  <2>4. QED
    BY <2>1, <2>2, <2>3
<1>6. ASSUME NEW d \in Conns, RecvFirstMessage(d) PROVE LifeStep(c)
  BY <1>3, <1>6, LivesOfPosted DEF RecvFirstMessage, protVars
<1>7. ASSUME NEW d \in Conns, RecvLogout(d) PROVE LifeStep(c)
  BY <1>7, LivesOfPosted DEF RecvLogout, connVars, protVars
<1>8. ASSUME NEW d \in Conns, Hangup(d) PROVE LifeStep(c)
  BY <1>3, <1>8 DEF Hangup, protVars
<1>9. ASSUME NEW d \in Conns, Fire(d) PROVE LifeStep(c)
  BY <1>9, LivesOfPosted DEF Fire, protVars
<1>10. ASSUME NEW o \in Conns, Kick(o) PROVE LifeStep(c)
  <2>1. released' = released
    BY <1>10 DEF Kick, protVars
  <2>2. \/ UNCHANGED <<life, tasks>>
        \/ /\ client[o] \in Conns
           /\ life' = Disconnected(client[o]) /\ tasks' = ReleasePosted(client[o])
    BY <1>10 DEF Kick, IInv, Types
  <2>3. QED
    BY <1>3, <1>4, <2>1, <2>2
<1>11. ASSUME NEW o \in Conns, Death(o) PROVE LifeStep(c)
  BY <1>4, <1>11 DEF Death, connVars, protVars
<1>12. CASE Cleanup
  BY <1>4, <1>12 DEF Cleanup, connVars, protVars
<1>13. CASE UNCHANGED vars
  BY <1>4, <1>13 DEF vars, connVars, protVars
<1>14. QED
  BY <1>1, <1>5, <1>6, <1>7, <1>8, <1>9, <1>10, <1>11, <1>12, <1>13 DEF Next

(* Seen from the protocol, every connection of the model is one of           *)
(* ConnectionLife, which the proofs and the runs of Connection show of the   *)
(* code of the connection: it is released once, and only after it closed.    *)
THEOREM ConnectionsLive == Spec => UsesLife
<1>1. Init => \A c \in Conns : Life(c)!LifeInit
  BY DEF Init, Life!LifeInit
<1>2. IInv /\ [Next]_vars => [\A c \in Conns : LifeStep(c)]_vars
  BY LivesKept
<1>3. Spec => []IInv
  BY InductiveInvariant
<1>4. Spec => [][\A c \in Conns : LifeStep(c)]_vars
  BY <1>2, <1>3, PTL DEF Spec
<1>5. QED
  BY <1>1, <1>4, PTL DEF Spec, UsesLife, LifeStep
=============================================================================
