--------------------------- MODULE InventoryProofs ---------------------------
(***************************************************************************)
(* The safety properties of Inventory for any number of clicks, windows    *)
(* and callers and any limits.  The inductive invariant says that a click  *)
(* that is on its way, pending or ended was submitted by a caller who has  *)
(* not changed the request since, that a pending one was sent to the       *)
(* window that is open now, that the window open now has the id its number *)
(* gives it, and that an outcome is recorded only with a verdict.          *)
(***************************************************************************)
EXTENDS Inventory, FiniteSetTheorems, TLAPS

Transactions == [id : Clicks, age : Nat]

Unique(s) == \A i, j \in 1..Len(s) : s[i].id = s[j].id => i = j

\* A map of outcomes.
Outcomes(done) ==
  /\ done = [r \in DOMAIN done |-> done[r]]
  /\ DOMAIN done \subseteq Clicks
  /\ \A r \in DOMAIN done : done[r] \in InventoryOutcome

TypeInv ==
  /\ scene \in Scenes
  /\ player \in Nat /\ opens \in Nat /\ restarts \in Nat
  /\ pending \in Seq(Transactions)
  /\ Outcomes(completed)
  /\ commands \in Seq(Clicks)
  /\ request = [r \in Clicks |-> request[r]]
  /\ call \in [Clicks -> {"new", "picked", "waiting", "done"}]
  /\ answer \in [Clicks -> Answers]
  /\ verdicts \in [Clicks -> Seq(InventoryOutcome)]
  /\ target = [r \in Clicks |-> target[r]]

\* The id of the n-th window.
IdOf(n) == ((n - 1) % WindowCycle) + 1

WindowInv ==
  \/ open = NoWindow
  \/ open \in [id : 1..WindowCycle, state : Nat] /\ opens # 0 /\ open.id = IdOf(opens)

\* What the caller saw when it asked.
Saw(q, n) ==
  /\ q.window \in Nat
  /\ q.window # Player => \E o \in 1..n : q.saw = <<q.window, o>> /\ q.window = IdOf(o)

InFlight(r) == r \in Ids(pending) \/ \E i \in 1..Len(commands) : commands[i] = r

Known(r) == InFlight(r) \/ r \in DOMAIN completed \/ target[r] # <<>> \/ verdicts[r] # <<>>

CallInv ==
  \A r \in Clicks : /\ Known(r) => call[r] \in {"waiting", "done"} /\ Saw(request[r], opens)
                    /\ call[r] = "waiting" => Saw(request[r], opens)

VerdictInv ==
  /\ \A r \in DOMAIN completed : completed[r] \in Range(verdicts[r])
  /\ AnswerIsTheVerdict

\* A click that is submitted once is in one place.
OnceInv ==
  /\ Unique(pending)
  /\ \A r \in Clicks \ scene.reused :
       /\ Len(verdicts[r]) <= 1
       /\ InFlight(r) => verdicts[r] = <<>>
       /\ \A i, j \in 1..Len(commands) : commands[i] = r /\ commands[j] = r => i = j
       /\ r \in Ids(pending) => \A i \in 1..Len(commands) : commands[i] # r

IInv ==
  /\ TypeInv /\ WindowInv /\ CallInv /\ VerdictInv /\ OnceInv
  /\ PendingHasItsWindow /\ ClickHitsTheWindowSeen

-----------------------------------------------------------------------------
(* The loop of finish_transaction.                                         *)

\* Every set of numbers that is not empty has a smallest: what there is of
\* induction here.
LEMMA LeastNat ==
  ASSUME NEW T, T \subseteq Nat, T # {}
  PROVE  \E m \in T : \A n \in T : m <= n
<1> DEFINE R == StrictSubsetOrdering(Nat)
           S == FiniteSubsetsOf(Nat)
           TT == {0..n : n \in T}
<1>1. IsWellFoundedOn(R, S)
  BY FS_StrictSubsetOrderingWellFounded
<1>2. TT # {}
  BY Zenon
<1>3. TT \subseteq S
  <2> SUFFICES ASSUME NEW n \in T PROVE 0..n \in S
    OBVIOUS
  <2>1. n \in Nat /\ IsFiniteSet(0..n)
    BY FS_Interval
  <2> QED BY <2>1 DEF FiniteSubsetsOf
<1> HIDE DEF R, S, TT
<1>4. PICK x \in TT : \A y \in TT : ~ (<<y, x>> \in R)
  BY <1>1, <1>2, <1>3, WFMin
<1>5. PICK m \in T : x = 0..m
  BY DEF TT
<1>6. ASSUME NEW n \in T, n < m PROVE FALSE
  <2>1. 0..n \in TT BY DEF TT
  <2>2. 0..n \subseteq 0..m /\ 0..n # 0..m
    <3>1. m \in 0..m /\ m \notin 0..n BY <1>6
    <3> QED BY <1>6, <3>1
  <2>3. 0..n \in SUBSET Nat /\ 0..m \in SUBSET Nat OBVIOUS
  <2>4. <<0..n, 0..m>> \in R BY <2>2, <2>3 DEF R, StrictSubsetOrdering
  <2> QED BY <1>4, <1>5, <2>1, <2>4
<1> QED BY <1>6

\* f is what the first n rounds of the loop leave.
IsLoop(f, n, waiting, ids, outcome, done) ==
  f = [i \in 0..n |-> IF i = 0 THEN [left |-> <<>>, done |-> done]
                      ELSE finish_transaction(f[i - 1], waiting[i], ids, outcome)]

\* There is such a function, so the recursive definition is one.
LEMMA LoopExists ==
  ASSUME NEW waiting \in Seq(Transactions), NEW ids, NEW outcome, NEW done
  PROVE  IsLoop(FinishLoop(waiting, ids, outcome, done), Len(waiting),
                waiting, ids, outcome, done)
<1> DEFINE T == {n \in Nat : ~ \E f : IsLoop(f, n, waiting, ids, outcome, done)}
<1>1. ASSUME T # {} PROVE FALSE
  <2>1. PICK n \in T : \A k \in T : n <= k
    BY Zenon, <1>1, LeastNat
  <2>2. CASE n = 0
    <3> DEFINE f == [i \in 0..0 |-> [left |-> <<>>, done |-> done]]
    <3>1. IsLoop(f, 0, waiting, ids, outcome, done)
      BY DEF IsLoop
    <3> QED BY <2>1, <2>2, <3>1
  <2>3. CASE n # 0
    <3>1. n - 1 \in Nat /\ n - 1 \notin T
      BY <2>1, <2>3
    <3>2. PICK g : IsLoop(g, n - 1, waiting, ids, outcome, done)
      BY <3>1
    <3> DEFINE x == finish_transaction(g[n - 1], waiting[n], ids, outcome)
               f == [i \in 0..n |-> IF i = n THEN x ELSE g[i]]
    <3>3. \A i \in 0..n : f[i] = IF i = 0 THEN [left |-> <<>>, done |-> done]
                                 ELSE finish_transaction(f[i - 1], waiting[i], ids, outcome)
      <4> TAKE i \in 0..n
      <4>1. CASE i = n
        <5>1. f[i] = x /\ f[i - 1] = g[n - 1]
          BY <2>3, <4>1
        <5> QED BY <2>3, <4>1, <5>1
      <4>2. CASE i # n
        <5>1. i \in 0..(n - 1)
          BY <4>2
        <5>2. f[i] = g[i] /\ (i # 0 => f[i - 1] = g[i - 1])
          BY <4>2, <5>1
        <5>3. g[i] = IF i = 0 THEN [left |-> <<>>, done |-> done]
                     ELSE finish_transaction(g[i - 1], waiting[i], ids, outcome)
          BY <3>2, <5>1 DEF IsLoop
        <5> QED BY <5>2, <5>3
      <4> QED BY <4>1, <4>2
    <3>4. f = [i \in 0..n |-> f[i]]
      OBVIOUS
    <3> HIDE DEF f
    <3>5. IsLoop(f, n, waiting, ids, outcome, done)
      BY <3>3, <3>4 DEF IsLoop
    <3> QED BY <2>1, <3>5
  <2> QED BY <2>2, <2>3
<1>2. \E f : IsLoop(f, Len(waiting), waiting, ids, outcome, done)
  <2>1. Len(waiting) \in Nat
    OBVIOUS
  <2> DEFINE n == Len(waiting)
  <2>2. n \in Nat
    BY <2>1
  <2> HIDE DEF n
  <2>3. n \notin T
    <3> HIDE DEF T
    <3> QED BY <1>1
  <2>4. \E f : IsLoop(f, n, waiting, ids, outcome, done)
    BY <2>2, <2>3
  <2> QED BY <2>4 DEF n
<1>3. FinishLoop(waiting, ids, outcome, done) =
        CHOOSE f : IsLoop(f, Len(waiting), waiting, ids, outcome, done)
  BY DEF FinishLoop, IsLoop
<1> QED BY <1>2, <1>3

\* Append adds one element at the end and moves no other.
LEMMA AppendFacts ==
  ASSUME NEW T, NEW s \in Seq(T), NEW x \in T
  PROVE  /\ Append(s, x) \in Seq(T) /\ Len(Append(s, x)) = Len(s) + 1 /\ Len(s) \in Nat
         /\ Append(s, x)[Len(s) + 1] = x
         /\ \A i \in 1..Len(s) : i \in 1..Len(Append(s, x)) /\ Append(s, x)[i] = s[i]
         /\ \A i \in 1..Len(Append(s, x)) :
              i \in 1..Len(s) \/ (i = Len(s) + 1 /\ Append(s, x)[i] = x)
         /\ Len(s) + 1 \in 1..Len(Append(s, x))
OBVIOUS

\* Keep makes room at the limit: the outcomes stay as many as are allowed.
LEMMA KeepBound ==
  ASSUME NEW done, Outcomes(done), NEW r \in Clicks, NEW outcome,
         Cardinality(DOMAIN done) <= MaxCompleted
  PROVE  Cardinality(DOMAIN Keep(done, r, outcome)) <= MaxCompleted
<1> DEFINE D == DOMAIN done
           kept == IF r \notin D /\ Cardinality(D) >= MaxCompleted
                   THEN D \ {Min(D)} ELSE D
<1>1. DOMAIN Keep(done, r, outcome) = kept \cup {r}
  BY DEF Keep
<1>2. IsFiniteSet(Clicks) /\ Clicks \subseteq Nat
  <2>1. MaxClicks \in Nat
    BY BoundAssumption
  <2> QED BY <2>1, FS_Interval DEF Clicks
<1>3. IsFiniteSet(D) /\ D \subseteq Nat /\ Cardinality(D) \in Nat /\ Cardinality(D) <= MaxCompleted
  <2>1. D \subseteq Clicks
    BY Zenon DEF Outcomes
  <2>2. IsFiniteSet(D)
    BY Zenon, <1>2, <2>1, FS_Subset
  <2> QED BY Zenon, <1>2, <2>1, <2>2, FS_CardinalityType
<1>4. MaxCompleted \in Nat \ {0}
  BY BoundAssumption
<1> HIDE DEF D
<1>5. CASE r \in D
  <2>1. kept \cup {r} = D
    BY Zenon, <1>5
  <2> QED BY Zenon, <1>1, <1>3, <2>1
<1>6. CASE r \notin D /\ ~ (Cardinality(D) >= MaxCompleted)
  <2>1. kept = D
    BY Zenon, <1>6
  <2>2. Cardinality(D \cup {r}) = Cardinality(D) + 1
    BY Zenon, <1>3, <1>6, FS_AddElement
  <2> QED BY <1>1, <1>3, <1>4, <1>6, <2>1, <2>2
<1>7. CASE r \notin D /\ Cardinality(D) >= MaxCompleted
  <2>1. D # {}
    <3>1. Cardinality({}) = 0
      BY Zenon, FS_EmptySet
    <3> QED BY <1>4, <1>7, <3>1
  <2>2. Min(D) \in D
    <3>1. \E m \in D : \A n \in D : m <= n
      BY Zenon, <1>3, <2>1, LeastNat
    <3> QED BY Zenon, <3>1 DEF Min
  <2>3. kept = D \ {Min(D)}
    BY Zenon, <1>7
  <2>4. IsFiniteSet(D \ {Min(D)}) /\ Cardinality(D \ {Min(D)}) = Cardinality(D) - 1
    BY Zenon, <1>3, <2>2, FS_RemoveElement
  <2>5. r \notin D \ {Min(D)}
    BY Zenon, <1>7
  <2>6. Cardinality((D \ {Min(D)}) \cup {r}) = Cardinality(D \ {Min(D)}) + 1
    BY Zenon, <2>4, <2>5, FS_AddElement
  <2>7. Cardinality(DOMAIN Keep(done, r, outcome)) = (Cardinality(D) - 1) + 1
    BY Zenon, <1>1, <2>3, <2>4, <2>6
  <2> QED BY <1>3, <2>7
<1> QED BY Zenon, <1>5, <1>6, <1>7

\* An outcome that is kept is the one given or one there was.
LEMMA KeepFacts ==
  ASSUME NEW done, Outcomes(done), NEW r \in Clicks, NEW outcome \in InventoryOutcome
  PROVE  /\ Outcomes(Keep(done, r, outcome))
         /\ \A d \in DOMAIN Keep(done, r, outcome) :
              \/ d = r /\ Keep(done, r, outcome)[d] = outcome
              \/ d \in DOMAIN done /\ Keep(done, r, outcome)[d] = done[d]
<1> DEFINE kept == IF r \notin DOMAIN done /\ Cardinality(DOMAIN done) >= MaxCompleted
                   THEN DOMAIN done \ {Min(DOMAIN done)} ELSE DOMAIN done
           k == Keep(done, r, outcome)
<1>1. kept \subseteq DOMAIN done
  OBVIOUS
<1>2. k = [d \in kept \cup {r} |-> IF d = r THEN outcome ELSE done[d]]
  BY DEF Keep
<1> HIDE DEF kept, k
<1>3. DOMAIN k = kept \cup {r} /\ \A d \in DOMAIN k : k[d] = IF d = r THEN outcome ELSE done[d]
  BY <1>2
<1>4. k = [d \in DOMAIN k |-> k[d]]
  BY <1>2
<1>5. Outcomes(k)
  BY <1>1, <1>3, <1>4 DEF Outcomes
<1> QED BY <1>1, <1>3, <1>5 DEF k

\* What i rounds leave.
Round(x, i, waiting, ids, outcome, done) ==
  /\ x.left \in Seq(Transactions) /\ Len(x.left) <= i
  /\ \A k \in 1..Len(x.left) : \E j \in 1..i : x.left[k] = waiting[j] /\ waiting[j].id \notin ids
  /\ Unique(waiting) => Unique(x.left)
  /\ Outcomes(x.done)
  /\ \A d \in DOMAIN x.done :
       \/ d \in DOMAIN done /\ x.done[d] = done[d]
       \/ x.done[d] = outcome /\ d \in ids /\ \E j \in 1..i : waiting[j].id = d
  /\ Cardinality(DOMAIN done) <= MaxCompleted => Cardinality(DOMAIN x.done) <= MaxCompleted

\* One turn of the loop over the waiting transactions keeps what Round says of
\* the turns made so far.
LEMMA RoundStep ==
  ASSUME NEW waiting \in Seq(Transactions), NEW ids, NEW outcome \in InventoryOutcome,
         NEW done, NEW i \in 1..Len(waiting), NEW x,
         Round(x, i - 1, waiting, ids, outcome, done)
  PROVE  Round(finish_transaction(x, waiting[i], ids, outcome), i, waiting, ids, outcome, done)
<1> DEFINE t == waiting[i]
           y == finish_transaction(x, t, ids, outcome)
<1>1. t \in Transactions /\ t.id \in Clicks
  <2>1. t \in Transactions
    OBVIOUS
  <2> HIDE DEF t
  <2> QED BY <2>1 DEF Transactions
<1>2. i - 1 \in Nat /\ i \in 1..i /\ \A j \in 1..(i - 1) : j \in 1..i /\ j \in 1..Len(waiting) /\ j # i
  OBVIOUS
<1>3. CASE t.id \in ids
  <2> DEFINE k == Keep(x.done, t.id, outcome)
  <2>1. y.left = x.left /\ y.done = k
    BY <1>3 DEF finish_transaction
  <2>2. /\ Outcomes(k)
        /\ \A d \in DOMAIN k : (d = t.id /\ k[d] = outcome) \/ (d \in DOMAIN x.done /\ k[d] = x.done[d])
    BY <1>1, KeepFacts DEF Round
  <2> HIDE DEF k, y
  <2>3. \A d \in DOMAIN y.done :
          \/ d \in DOMAIN done /\ y.done[d] = done[d]
          \/ y.done[d] = outcome /\ d \in ids /\ \E j \in 1..i : waiting[j].id = d
    <3> TAKE d \in DOMAIN y.done
    <3>1. CASE d = t.id /\ k[d] = outcome
      BY <1>2, <1>3, <2>1, <3>1
    <3>2. CASE d \in DOMAIN x.done /\ k[d] = x.done[d]
      BY <1>2, <2>1, <3>2 DEF Round
    <3> QED BY <2>1, <2>2, <3>1, <3>2
  <2>4. Cardinality(DOMAIN done) <= MaxCompleted => Cardinality(DOMAIN k) <= MaxCompleted
    BY Zenon, <1>1, KeepBound DEF Round, k
  <2>5. Len(x.left) <= i
    <3>1. Len(x.left) <= i - 1 /\ x.left \in Seq(Transactions)
      BY Zenon DEF Round
    <3> QED BY <1>2, <3>1
  <2>6. Round(y, i, waiting, ids, outcome, done)
    <3>1. \A m \in 1..Len(x.left) : \E j \in 1..i : x.left[m] = waiting[j] /\ waiting[j].id \notin ids
      BY Zenon, <1>2 DEF Round
    <3>2. x.left \in Seq(Transactions) /\ (Unique(waiting) => Unique(x.left))
      BY Zenon DEF Round
    <3>3. /\ y.left \in Seq(Transactions) /\ Len(y.left) <= i /\ Outcomes(y.done)
          /\ \A m \in 1..Len(y.left) : \E j \in 1..i : y.left[m] = waiting[j] /\ waiting[j].id \notin ids
          /\ Unique(waiting) => Unique(y.left)
          /\ Cardinality(DOMAIN done) <= MaxCompleted => Cardinality(DOMAIN y.done) <= MaxCompleted
      BY <2>1, <2>2, <2>4, <2>5, <3>1, <3>2
    <3> QED BY Zenon, <2>3, <3>3 DEF Round
  <2> QED BY <2>6 DEF y
<1>4. CASE t.id \notin ids
  <2> DEFINE l == x.left
             m == Append(l, t)
  <2>1. y.left = m /\ y.done = x.done
    BY <1>4 DEF finish_transaction
  <2>2. l \in Seq(Transactions)
    BY DEF Round
  <2>3. \A k \in 1..Len(l) : \E j \in 1..(i - 1) : l[k] = waiting[j] /\ waiting[j].id \notin ids
    BY DEF Round
  <2> HIDE DEF l
  <2>4. /\ m \in Seq(Transactions) /\ Len(l) \in Nat /\ Len(m) = Len(l) + 1
        /\ \A k \in 1..Len(m) :
             (k \in 1..Len(l) /\ m[k] = l[k]) \/ (k = Len(l) + 1 /\ m[k] = t)
    BY <1>1, <2>2, AppendFacts
  <2> HIDE DEF m, y
  <2>5. \A k \in 1..Len(m) : \E j \in 1..i : m[k] = waiting[j] /\ waiting[j].id \notin ids
    BY <1>2, <1>4, <2>3, <2>4
  <2>6. ASSUME Unique(waiting) PROVE Unique(m)
    <3> SUFFICES ASSUME NEW k \in 1..Len(m), NEW n \in 1..Len(m), m[k].id = m[n].id PROVE k = n
      BY DEF Unique
    <3>1. Unique(l)
      BY <2>6 DEF Round, l
    <3>2. \A k1 \in 1..Len(l) : l[k1].id # t.id
      BY Zenon, <1>2, <2>3, <2>6 DEF Unique
    <3>3. CASE k \in 1..Len(l) /\ n \in 1..Len(l) /\ m[k] = l[k] /\ m[n] = l[n]
      BY <3>1, <3>3 DEF Unique
    <3> QED BY <2>4, <3>2, <3>3
  <2>7. \A d \in DOMAIN x.done :
          \/ d \in DOMAIN done /\ x.done[d] = done[d]
          \/ x.done[d] = outcome /\ d \in ids /\ \E j \in 1..i : waiting[j].id = d
    BY <1>2 DEF Round
  <2>8. /\ Outcomes(x.done)
        /\ Cardinality(DOMAIN done) <= MaxCompleted => Cardinality(DOMAIN x.done) <= MaxCompleted
    BY Zenon DEF Round
  <2>9. Len(m) <= i
    <3>1. Len(l) <= i - 1
      BY Zenon DEF Round, l
    <3> QED BY <1>2, <2>4, <3>1
  <2>10. Round(y, i, waiting, ids, outcome, done)
    BY Zenon, <2>1, <2>4, <2>5, <2>6, <2>7, <2>8, <2>9 DEF Round
  <2> QED BY <2>10 DEF y
<1> QED BY <1>3, <1>4

\* The whole loop: the least turn at which Round fails would contradict RoundStep.
LEMMA FinishFacts ==
  ASSUME NEW waiting \in Seq(Transactions), NEW ids, NEW outcome \in InventoryOutcome,
         NEW done, Outcomes(done)
  PROVE  Round(FinishLoop(waiting, ids, outcome, done)[Len(waiting)], Len(waiting),
               waiting, ids, outcome, done)
<1> DEFINE f == FinishLoop(waiting, ids, outcome, done)
           T == {n \in 0..Len(waiting) : ~ Round(f[n], n, waiting, ids, outcome, done)}
<1>1. IsLoop(f, Len(waiting), waiting, ids, outcome, done)
  BY LoopExists
<1> HIDE DEF f
<1>2. /\ Len(waiting) \in Nat
      /\ f[0] = [left |-> <<>>, done |-> done]
      /\ \A i \in 1..Len(waiting) : f[i] = finish_transaction(f[i - 1], waiting[i], ids, outcome)
  <2>1. Len(waiting) \in Nat
    OBVIOUS
  <2>2. \A i \in 0..Len(waiting) :
          f[i] = IF i = 0 THEN [left |-> <<>>, done |-> done]
                 ELSE finish_transaction(f[i - 1], waiting[i], ids, outcome)
    BY Zenon, <1>1, <2>1 DEF IsLoop
  <2> QED BY <2>1, <2>2
<1>3. ASSUME T # {} PROVE FALSE
  <2>1. PICK n \in T : \A k \in T : n <= k
    <3>1. T \subseteq Nat
      BY <1>2
    <3> HIDE DEF T
    <3> QED BY Zenon, <1>3, <3>1, LeastNat
  <2>2. CASE n = 0
    <3>1. f[0].left = <<>> /\ f[0].done = done
      BY <1>2
    <3>2. <<>> \in Seq(Transactions) /\ Len(<<>>) = 0
      OBVIOUS
    <3>3. Round(f[0], 0, waiting, ids, outcome, done)
      BY <3>1, <3>2 DEF Round, Unique
    <3> QED BY <2>1, <2>2, <3>3
  <2>3. CASE n # 0
    <3>1. n \in 1..Len(waiting) /\ n - 1 \in 0..Len(waiting) /\ n - 1 \notin T
      BY <1>2, <2>1, <2>3
    <3>2. Round(f[n - 1], n - 1, waiting, ids, outcome, done)
      BY <3>1
    <3>3. Round(f[n], n, waiting, ids, outcome, done)
      BY <1>2, <3>1, <3>2, RoundStep
    <3> QED BY <2>1, <3>3
  <2> QED BY <2>2, <2>3
<1>4. Len(waiting) \in 0..Len(waiting)
  BY <1>2
<1>5. Round(f[Len(waiting)], Len(waiting), waiting, ids, outcome, done)
  BY <1>3, <1>4
<1> QED BY <1>5 DEF f

-----------------------------------------------------------------------------
(* Handlers that end transactions.                                         *)

\* Append only adds to the values a sequence holds.
LEMMA RangeFacts ==
  ASSUME NEW T, NEW s \in Seq(T), NEW x \in T
  PROVE  x \in Range(Append(s, x)) /\ Range(s) \subseteq Range(Append(s, x))
<1> DEFINE a == Append(s, x)
<1>1. /\ a \in Seq(T) /\ a[Len(s) + 1] = x /\ Len(s) + 1 \in 1..Len(a)
      /\ \A i \in 1..Len(s) : i \in 1..Len(a) /\ a[i] = s[i]
  BY AppendFacts
<1>2. DOMAIN a = 1..Len(a) /\ DOMAIN s = 1..Len(s)
  BY <1>1
<1> HIDE DEF a
<1>3. x \in Range(a) /\ Range(s) \subseteq Range(a)
  BY <1>1, <1>2 DEF Range
<1> QED BY <1>3 DEF a

\* The ids of a list of transactions are those of its elements.
LEMMA IdsFacts ==
  ASSUME NEW s \in Seq(Transactions), NEW r
  PROVE  r \in Ids(s) <=> \E i \in 1..Len(s) : s[i].id = r
BY DEF Ids

\* The verdicts on ids are in.
Judged(ids, outcome) ==
  verdicts' = [r \in Clicks |-> IF r \in ids THEN Append(verdicts[r], outcome)
                                ELSE verdicts[r]]

\* Recording a verdict for some clicks keeps every verdict already recorded.
LEMMA VerdictFacts ==
  ASSUME TypeInv, NEW ids, NEW outcome \in InventoryOutcome, Judged(ids, outcome)
  PROVE  /\ verdicts' \in [Clicks -> Seq(InventoryOutcome)]
         /\ \A r \in Clicks : Range(verdicts[r]) \subseteq Range(verdicts'[r])
         /\ \A r \in Clicks : r \in ids => outcome \in Range(verdicts'[r])
         /\ \A r \in Clicks : r \notin ids => verdicts'[r] = verdicts[r]
         /\ \A r \in Clicks : r \in ids /\ verdicts[r] = <<>> => Len(verdicts'[r]) <= 1
<1>1. verdicts \in [Clicks -> Seq(InventoryOutcome)]
  BY DEF TypeInv
<1>2. \A r \in Clicks : verdicts'[r] = IF r \in ids THEN Append(verdicts[r], outcome)
                                       ELSE verdicts[r]
  BY DEF Judged
<1>3. ASSUME NEW r \in Clicks
      PROVE  /\ verdicts'[r] \in Seq(InventoryOutcome)
             /\ Range(verdicts[r]) \subseteq Range(verdicts'[r])
             /\ r \in ids => outcome \in Range(verdicts'[r])
             /\ r \in ids /\ verdicts[r] = <<>> => Len(verdicts'[r]) <= 1
  <2> DEFINE v == verdicts[r]
             a == Append(v, outcome)
  <2>1. v \in Seq(InventoryOutcome)
    BY <1>1
  <2> HIDE DEF v
  <2>2. /\ a \in Seq(InventoryOutcome) /\ Len(a) = Len(v) + 1
        /\ outcome \in Range(a) /\ Range(v) \subseteq Range(a)
    BY <2>1, AppendFacts, RangeFacts
  <2>3. v = <<>> => Len(a) <= 1
    BY <2>2
  <2> HIDE DEF a
  <2> QED BY Zenon, <1>2, <2>1, <2>2, <2>3 DEF v, a
<1>4. verdicts' \in [Clicks -> Seq(InventoryOutcome)]
  BY <1>3 DEF Judged
<1> QED BY <1>2, <1>3, <1>4

\* The windows that the pending transactions not in ids wait for are there.
Stays(ids) ==
  \A r \in Ids(pending) : r \notin ids =>
    IsOpen(request[r].window)' /\ InstanceOf(request[r].window)' = InstanceOf(request[r].window)

\* The same transactions, maybe a tick older.
Alike(waiting) ==
  /\ waiting \in Seq(Transactions) /\ Len(waiting) = Len(pending)
  /\ \A i \in 1..Len(pending) : waiting[i].id = pending[i].id

\* A caller that saw a window opened by count m saw one opened by any later count.
LEMMA SawMore ==
  ASSUME NEW q, NEW m \in Nat, NEW n \in Nat, m <= n, Saw(q, m)
  PROVE  Saw(q, n)
BY DEF Saw

\* finish_transaction over any list keeps the invariant, whatever the window
\* becomes, so long as what stays pending is still answerable.
LEMMA Finished ==
  ASSUME IInv, NEW waiting, Alike(waiting), NEW ids \in SUBSET Ids(pending),
         NEW outcome \in InventoryOutcome, Finish(waiting, ids, outcome),
         UNCHANGED <<scene, commands, callerVars>>,
         player' \in Nat, opens' \in Nat, opens <= opens', restarts' \in Nat,
         WindowInv', Stays(ids)
  PROVE  IInv'
<1> USE DEF callerVars
<1> DEFINE last == FinishLoop(waiting, ids, outcome, completed)[Len(waiting)]
<1>1. /\ pending' = last.left /\ completed' = last.done /\ target' = target
      /\ Judged(ids, outcome)
  BY DEF Finish, Judged
<1>2. TypeInv /\ Outcomes(completed) /\ pending \in Seq(Transactions) /\ Unique(pending)
  BY DEF IInv, TypeInv, OnceInv
<1>3. Round(last, Len(waiting), waiting, ids, outcome, completed)
  BY <1>2, FinishFacts DEF Alike
<1> HIDE DEF last
<1>4. Unique(waiting)
  BY <1>2 DEF Alike, Unique
<1>5. /\ pending' \in Seq(Transactions) /\ Unique(pending')
      /\ \A k \in 1..Len(pending') : \E j \in 1..Len(pending) :
           pending'[k].id = pending[j].id /\ pending[j].id \notin ids
  <2>1. pending' \in Seq(Transactions) /\ Unique(pending')
    BY Zenon, <1>1, <1>3, <1>4 DEF Round
  <2>2. \A k \in 1..Len(pending') : \E j \in 1..Len(waiting) :
          pending'[k] = waiting[j] /\ waiting[j].id \notin ids
    BY Zenon, <1>1, <1>3 DEF Round
  <2>3. Len(waiting) = Len(pending) /\ \A j \in 1..Len(pending) : waiting[j].id = pending[j].id
    BY Zenon DEF Alike
  <2>4. ASSUME NEW k \in 1..Len(pending')
        PROVE  \E j \in 1..Len(pending) :
                 pending'[k].id = pending[j].id /\ pending[j].id \notin ids
    <3>1. PICK j \in 1..Len(waiting) : pending'[k] = waiting[j] /\ waiting[j].id \notin ids
      BY Zenon, <2>2
    <3>2. j \in 1..Len(pending) /\ waiting[j].id = pending[j].id
      BY Zenon, <2>3
    <3> QED BY Zenon, <3>1, <3>2
  <2> QED BY Zenon, <2>1, <2>4
<1>6. \A r \in Ids(pending') : r \in Ids(pending) /\ r \notin ids
  BY <1>2, <1>5, IdsFacts
<1>7. /\ Outcomes(completed')
      /\ \A d \in DOMAIN completed' : \/ d \in DOMAIN completed /\ completed'[d] = completed[d]
                                      \/ d \in ids /\ completed'[d] = outcome
  BY <1>1, <1>3 DEF Round
<1>8. /\ verdicts' \in [Clicks -> Seq(InventoryOutcome)]
      /\ \A r \in Clicks : Range(verdicts[r]) \subseteq Range(verdicts'[r])
      /\ \A r \in Clicks : r \in ids => outcome \in Range(verdicts'[r])
      /\ \A r \in Clicks : r \notin ids => verdicts'[r] = verdicts[r]
      /\ \A r \in Clicks : r \in ids /\ verdicts[r] = <<>> => Len(verdicts'[r]) <= 1
  BY Zenon, <1>1, <1>2, VerdictFacts
<1>9. Ids(pending) \subseteq Clicks
  <2> SUFFICES ASSUME NEW r \in Ids(pending) PROVE r \in Clicks
    OBVIOUS
  <2>1. PICK i \in 1..Len(pending) : pending[i].id = r
    BY <1>2, IdsFacts
  <2>2. pending[i] \in Transactions
    BY <1>2
  <2> QED BY <2>1, <2>2 DEF Transactions
<1>10. TypeInv'
  BY <1>1, <1>2, <1>5, <1>7, <1>8 DEF TypeInv
<1>11. CallInv'
  <2>1. \A r \in Clicks : Known(r)' => Known(r)
    BY <1>1, <1>6, <1>7, <1>8 DEF Known, InFlight
  <2>2. \A r \in Clicks :
          /\ Known(r) => call[r] \in {"waiting", "done"} /\ Saw(request[r], opens)
          /\ call[r] = "waiting" => Saw(request[r], opens)
    BY DEF IInv, CallInv
  <2>3. opens \in Nat
    BY <1>2 DEF TypeInv
  <2>4. \A r \in Clicks : Saw(request[r], opens) => Saw(request[r], opens')
    BY <2>3, SawMore
  <2> QED BY <2>1, <2>2, <2>4 DEF CallInv
<1>12. VerdictInv'
  <2>1. \A d \in DOMAIN completed' : completed'[d] \in Range(verdicts'[d])
    BY <1>2, <1>7, <1>8, <1>9 DEF IInv, VerdictInv, Outcomes
  <2>2. AnswerIsTheVerdict'
    BY <1>8 DEF IInv, VerdictInv, AnswerIsTheVerdict
  <2> QED BY <2>1, <2>2 DEF VerdictInv
<1>13. OnceInv'
  <2>1. \A r \in Clicks \ scene.reused :
          /\ Len(verdicts[r]) <= 1
          /\ InFlight(r) => verdicts[r] = <<>>
          /\ \A i, j \in 1..Len(commands) : commands[i] = r /\ commands[j] = r => i = j
          /\ r \in Ids(pending) => \A i \in 1..Len(commands) : commands[i] # r
    BY DEF IInv, OnceInv
  <2> SUFFICES ASSUME NEW r \in Clicks \ scene.reused
               PROVE  /\ Len(verdicts'[r]) <= 1
                      /\ InFlight(r)' => verdicts'[r] = <<>>
                      /\ r \in Ids(pending') => \A i \in 1..Len(commands) : commands[i] # r
    BY <1>5, <2>1 DEF OnceInv
  <2>2. CASE r \in ids
    <3>1. r \in Ids(pending) /\ InFlight(r)
      BY <2>2 DEF InFlight
    <3>2. verdicts[r] = <<>> /\ \A i \in 1..Len(commands) : commands[i] # r
      BY <2>1, <3>1
    <3>3. r \notin Ids(pending')
      BY <1>6, <2>2
    <3>4. ~ InFlight(r)'
      BY <3>2, <3>3 DEF InFlight
    <3> QED BY <1>8, <2>2, <3>2, <3>3, <3>4
  <2>3. CASE r \notin ids
    <3>1. InFlight(r)' => InFlight(r)
      BY <1>6 DEF InFlight
    <3> QED BY <1>6, <1>8, <2>1, <2>3, <3>1
  <2> QED BY <2>2, <2>3
<1>14. PendingHasItsWindow'
  <2>1. \A r \in Ids(pending) :
          IsOpen(request[r].window) /\ target[r] = InstanceOf(request[r].window)
    BY DEF IInv, PendingHasItsWindow, Ids
  <2>2. \A r \in Ids(pending') :
          IsOpen(request[r].window)' /\ target[r] = InstanceOf(request[r].window)'
    BY <1>6, <2>1 DEF Stays
  <2>3. \A i \in DOMAIN pending' : pending'[i].id \in Ids(pending')
    BY DEF Ids
  <2> QED BY <1>1, <2>2, <2>3 DEF PendingHasItsWindow, IsOpen, InstanceOf
<1>15. ClickHitsTheWindowSeen'
  BY <1>1 DEF IInv, ClickHitsTheWindowSeen, Sent
<1> QED BY <1>10, <1>11, <1>12, <1>13, <1>14, <1>15 DEF IInv

\* Pending transactions carry the window of their click, which is still open.
LEMMA PendingAlike ==
  ASSUME IInv
  PROVE  /\ Alike(pending) /\ \A w : OfWindow(w) \in SUBSET Ids(pending)
         /\ \A r \in Ids(pending) : IsOpen(request[r].window)
BY DEF IInv, TypeInv, Alike, OfWindow, PendingHasItsWindow, Ids

\* The transactions are left alone.
LEMMA NotFinished ==
  ASSUME IInv, UNCHANGED <<scene, transactionVars, commands, callerVars>>,
         player' \in Nat, opens' = opens, restarts' \in Nat, WindowInv', Stays({})
  PROVE  IInv'
<1> USE DEF callerVars, transactionVars
<1>1. TypeInv' /\ CallInv'
  BY Zenon DEF IInv, TypeInv, CallInv, Known, InFlight
<1>2. VerdictInv' /\ OnceInv' /\ ClickHitsTheWindowSeen'
  BY DEF IInv, VerdictInv, AnswerIsTheVerdict, OnceInv, InFlight, ClickHitsTheWindowSeen, Sent
<1>3. PendingHasItsWindow'
  <2>1. \A r \in Ids(pending) :
          IsOpen(request[r].window) /\ target[r] = InstanceOf(request[r].window)
    BY DEF IInv, PendingHasItsWindow, Ids
  <2>2. \A r \in Ids(pending) :
          IsOpen(request[r].window)' /\ target[r] = InstanceOf(request[r].window)'
    BY <2>1 DEF Stays
  <2>3. \A i \in DOMAIN pending : pending[i].id \in Ids(pending)
    BY DEF Ids
  <2> QED BY <2>2, <2>3 DEF PendingHasItsWindow, IsOpen, InstanceOf
<1> QED BY <1>1, <1>2, <1>3 DEF IInv

\* The open window, when there is one, is not the player inventory.
LEMMA OpenFacts ==
  ASSUME IInv
  PROVE  /\ player \in Nat /\ opens \in Nat /\ restarts \in Nat /\ WindowInv
         /\ open # NoWindow =>
              open \in [id : 1..WindowCycle, state : Nat] /\ open.id \in Nat /\ open.id # Player
BY BoundAssumption DEF IInv, TypeInv, WindowInv, Player

\* open_window keeps the invariant: what waits for the old window ends with it.
LEMMA OpenWindowInv ==
  ASSUME IInv, NEW w \in 1..WindowCycle, open_window(w), UNCHANGED scene
  PROVE  IInv'
<1> DEFINE ids == IF open = NoWindow THEN {} ELSE OfWindow(open.id)
<1>1. /\ w = (opens % WindowCycle) + 1 /\ open' = [id |-> w, state |-> 0]
      /\ opens' = opens + 1 /\ Finish(pending, ids, "WindowClosed")
      /\ UNCHANGED <<player, restarts, commands, callerVars>>
  BY DEF open_window, OpenWindow
<1>2. /\ player \in Nat /\ opens \in Nat /\ restarts \in Nat
  BY OpenFacts
<1>3. player' \in Nat /\ opens' \in Nat /\ opens <= opens' /\ restarts' \in Nat /\ opens' # 0
  BY <1>1, <1>2
<1>4. WindowInv'
  <2>1. IdOf(opens') = (opens % WindowCycle) + 1
    <3>1. opens' - 1 = opens
      BY <1>1, <1>2
    <3> QED BY <3>1 DEF IdOf
  <2>2. open' \in [id : 1..WindowCycle, state : Nat] /\ open'.id = w
    BY <1>1
  <2> QED BY <1>1, <1>3, <2>1, <2>2 DEF WindowInv
<1>5. ids \in SUBSET Ids(pending)
  BY PendingAlike
<1>6. Stays(ids)
  <2> SUFFICES ASSUME NEW r \in Ids(pending), r \notin ids
               PROVE  /\ IsOpen(request[r].window)'
                      /\ InstanceOf(request[r].window)' = InstanceOf(request[r].window)
    BY DEF Stays
  <2>1. IsOpen(request[r].window)
    BY PendingAlike
  <2>2. request[r].window = Player
    BY <2>1 DEF IsOpen, OfWindow
  <2>3. request' = request /\ restarts' = restarts
    BY <1>1 DEF callerVars
  <2> QED BY <2>2, <2>3 DEF IsOpen, InstanceOf
<1> HIDE DEF ids
<1>7. "WindowClosed" \in InventoryOutcome /\ Alike(pending)
  BY PendingAlike DEF InventoryOutcome
<1> QED BY <1>1, <1>3, <1>4, <1>5, <1>6, <1>7, Finished

\* close_window keeps the invariant: what waits for the window ends as closed.
LEMMA CloseWindowInv ==
  ASSUME IInv, close_window, UNCHANGED scene
  PROVE  IInv'
<1> DEFINE ids == OfWindow(open.id)
<1>1. /\ open # NoWindow /\ open' = NoWindow /\ Finish(pending, ids, "WindowClosed")
      /\ UNCHANGED <<player, opens, restarts, commands, callerVars>>
  BY DEF close_window, finish_window_transactions
<1>2. player' \in Nat /\ opens' \in Nat /\ opens <= opens' /\ restarts' \in Nat
  BY <1>1, OpenFacts
<1>3. WindowInv'
  BY <1>1 DEF WindowInv
<1>4. ids \in SUBSET Ids(pending)
  BY PendingAlike
<1>5. Stays(ids)
  <2> SUFFICES ASSUME NEW r \in Ids(pending), r \notin ids
               PROVE  /\ IsOpen(request[r].window)'
                      /\ InstanceOf(request[r].window)' = InstanceOf(request[r].window)
    BY DEF Stays
  <2>1. IsOpen(request[r].window)
    BY PendingAlike
  <2>2. request[r].window = Player
    BY <2>1 DEF IsOpen, OfWindow
  <2>3. request' = request /\ restarts' = restarts
    BY <1>1 DEF callerVars
  <2> QED BY <2>2, <2>3 DEF IsOpen, InstanceOf
<1> HIDE DEF ids
<1>6. "WindowClosed" \in InventoryOutcome /\ Alike(pending)
  BY PendingAlike DEF InventoryOutcome
<1> QED BY <1>1, <1>2, <1>3, <1>4, <1>5, <1>6, Finished

\* A revision changes no window's number.
LEMMA Refreshed ==
  ASSUME IInv, NEW w, IsOpen(w), NEW s \in Nat, Refresh(w, s),
         UNCHANGED <<opens, restarts, callerVars>>
  PROVE  /\ player' \in Nat /\ opens' \in Nat /\ opens <= opens' /\ restarts' \in Nat
         /\ WindowInv' /\ \A ids : Stays(ids)
<1>1. /\ player \in Nat /\ opens \in Nat /\ restarts \in Nat /\ WindowInv
      /\ (open # NoWindow =>
              open \in [id : 1..WindowCycle, state : Nat] /\ open.id \in Nat /\ open.id # Player)
  BY OpenFacts
<1>2. player' \in Nat /\ WindowInv' /\ open'.id = open.id /\ (open' = NoWindow <=> open = NoWindow)
  <2>1. CASE w = Player
    BY <1>1, <2>1 DEF Refresh, WindowInv
  <2>2. CASE w # Player
    <3>1. open # NoWindow /\ open \in [id : 1..WindowCycle, state : Nat] /\ player' = player
      BY <1>1, <2>2 DEF IsOpen, Refresh
    <3>2. open' = [open EXCEPT !.state = s]
      BY <2>2 DEF Refresh
    <3>3. open' \in [id : 1..WindowCycle, state : Nat] /\ open'.id = open.id
      BY <3>1, <3>2
    <3>4. open' # NoWindow
      BY <1>1, <3>1, <3>3 DEF NoWindow
    <3> QED BY <1>1, <3>1, <3>3, <3>4 DEF WindowInv
  <2> QED BY <2>1, <2>2
<1>3. \A v : (IsOpen(v) <=> v = Player \/ (open' # NoWindow /\ open'.id = v))
  BY <1>2 DEF IsOpen
<1>4. ASSUME NEW ids, NEW r \in Ids(pending)
      PROVE  /\ IsOpen(request[r].window)'
             /\ InstanceOf(request[r].window)' = InstanceOf(request[r].window)
  <2>1. IsOpen(request[r].window) /\ request' = request
    BY PendingAlike DEF callerVars
  <2> QED BY <1>3, <2>1 DEF IsOpen, InstanceOf
<1> QED BY <1>1, <1>2, <1>4 DEF Stays

\* window_items and set_slot keep the invariant: they correct or confirm clicks.
LEMMA SlotsInv ==
  ASSUME IInv, NEW w \in 0..WindowCycle, NEW s \in 0..MaxStateId,
         window_items(w, s) \/ \E valid \in BOOLEAN : set_slot(w, s, valid), UNCHANGED scene
  PROVE  IInv'
<1>1. /\ IsOpen(w) /\ s \in Nat /\ Refresh(w, s)
      /\ UNCHANGED <<scene, opens, restarts, commands, callerVars>>
  BY BoundAssumption DEF window_items, set_slot
<1>2. /\ player' \in Nat /\ opens' \in Nat /\ opens <= opens' /\ restarts' \in Nat
      /\ WindowInv' /\ \A ids : Stays(ids)
  BY <1>1, Refreshed
<1>3. Alike(pending) /\ OfWindow(w) \in SUBSET Ids(pending)
  BY PendingAlike
<1>4. {"Corrected", "Confirmed"} \subseteq InventoryOutcome
  BY DEF InventoryOutcome
<1>5. CASE Finish(pending, OfWindow(w), "Corrected")
  BY <1>1, <1>2, <1>3, <1>4, <1>5, Finished
<1>6. CASE finish_confirmed_transactions(w, s)
  <2> DEFINE ids == {r \in OfWindow(w) : s > request[r].state}
  <2>1. ids \in SUBSET Ids(pending) /\ Finish(pending, ids, "Confirmed")
    BY <1>3, <1>6 DEF finish_confirmed_transactions
  <2> HIDE DEF ids
  <2> QED BY <1>1, <1>2, <1>3, <1>4, <2>1, Finished
<1>7. CASE UNCHANGED transactionVars
  BY <1>1, <1>2, <1>7, NotFinished
<1> QED BY <1>5, <1>6, <1>7 DEF window_items, set_slot, finish_window_transactions

\* The clock makes the waiting transactions older and leaves them in place.
LEMMA AgedFacts ==
  ASSUME pending \in Seq(Transactions)
  PROVE  /\ Aged \in Seq(Transactions) /\ Len(Aged) = Len(pending)
         /\ DOMAIN Aged = 1..Len(pending)
         /\ \A i \in 1..Len(pending) : Aged[i].id = pending[i].id
<1> DEFINE n == Len(pending)
           older(i) == [pending[i] EXCEPT !.age = @ + 1]
<1>1. ASSUME NEW i \in 1..n
      PROVE  older(i) \in Transactions /\ older(i).id = pending[i].id
  <2> DEFINE t == pending[i]
  <2>1. t \in Transactions
    OBVIOUS
  <2> HIDE DEF t
  <2>2. [t EXCEPT !.age = @ + 1] \in Transactions /\ [t EXCEPT !.age = @ + 1].id = t.id
    BY <2>1 DEF Transactions
  <2> QED BY <2>2 DEF t
<1>2. n \in Nat /\ Aged = [i \in 1..n |-> older(i)]
  BY DEF Aged
<1> HIDE DEF n, older
<1>3. /\ Aged \in Seq(Transactions) /\ Len(Aged) = n /\ DOMAIN Aged = 1..n
      /\ \A i \in 1..n : Aged[i] = older(i)
  BY <1>1, <1>2
<1> QED BY <1>1, <1>3 DEF n

\* expire_transactions keeps the invariant: it ends only what is pending.
LEMMA ExpireInv ==
  ASSUME IInv, expire_transactions, UNCHANGED scene
  PROVE  IInv'
<1> DEFINE ids == {Aged[i].id : i \in {j \in DOMAIN Aged : Aged[j].age >= Timeout}}
<1>1. Finish(Aged, ids, "TimedOut") /\ UNCHANGED <<scene, windowVars, commands, callerVars>>
  BY DEF expire_transactions, TickThen
<1>2. pending \in Seq(Transactions) /\ Len(pending) \in Nat
  BY DEF IInv, TypeInv
<1>3. /\ Aged \in Seq(Transactions) /\ Len(Aged) = Len(pending) /\ DOMAIN Aged = 1..Len(pending)
      /\ \A i \in 1..Len(pending) : Aged[i].id = pending[i].id
  BY Zenon, <1>2, AgedFacts
<1>4. ids \in SUBSET Ids(pending)
  BY <1>2, <1>3, IdsFacts
<1> HIDE DEF ids
<1>5. Alike(Aged)
  BY <1>3 DEF Alike
<1>6. /\ player' \in Nat /\ opens' \in Nat /\ opens <= opens' /\ restarts' \in Nat /\ WindowInv'
  BY <1>1, OpenFacts DEF windowVars, WindowInv
<1>7. Stays(ids)
  BY <1>1, PendingAlike DEF Stays, IsOpen, InstanceOf, windowVars, callerVars
<1>8. "TimedOut" \in InventoryOutcome
  BY DEF InventoryOutcome
<1> QED BY <1>1, <1>4, <1>5, <1>6, <1>7, <1>8, Finished

-----------------------------------------------------------------------------
(* A click reaches the play loop.                                          *)

\* Two windows with the same id are the same or a whole cycle apart.
LEMMA SameId ==
  ASSUME NEW m \in Nat \ {0}, NEW n \in Nat, m <= n, IdOf(m) = IdOf(n)
  PROVE  m = n \/ n - m >= WindowCycle
<1> DEFINE c == WindowCycle
           a == n - 1
           b == m - 1
<1>1. c \in Nat \ {0} /\ a \in Nat /\ b \in Nat /\ b <= a /\ a - b = n - m
  BY BoundAssumption
<1>2. a % c = b % c
  <2>1. a % c \in Nat /\ b % c \in Nat
    BY <1>1
  <2> QED BY <2>1 DEF IdOf
<1> HIDE DEF c, a, b
<1>3. a = c * (a \div c) + (a % c) /\ b = c * (b \div c) + (b % c)
  BY <1>1
<1>4. a \div c \in Nat /\ b \div c \in Nat
  BY <1>1
<1> DEFINE p == a \div c
           q == b \div c
<1> HIDE DEF p, q
<1>5. a - b = c * p - c * q /\ p \in Nat /\ q \in Nat
  BY <1>1, <1>2, <1>3, <1>4 DEF p, q
<1>6. CASE p = q
  BY <1>1, <1>5, <1>6 DEF a, b
<1>7. CASE p > q
  <2>1. p - q \in Nat /\ p - q >= 1 /\ c * p - c * q = c * (p - q)
    BY <1>1, <1>5, <1>7
  <2>2. c * (p - q) >= c
    BY <1>1, <2>1
  <2> QED BY <1>1, <1>5, <2>1, <2>2 DEF c
<1>8. CASE p < q
  <2>1. q - p \in Nat /\ q - p >= 1 /\ c * q - c * p = c * (q - p)
    BY <1>1, <1>5, <1>8
  <2>2. c * (q - p) >= c
    BY <1>1, <2>1
  <2> QED BY <1>1, <1>5, <2>1, <2>2
<1> QED BY <1>5, <1>6, <1>7, <1>8

\* Tail drops the first element and shifts the others by one.
LEMMA TailFacts ==
  ASSUME NEW T, NEW s \in Seq(T), s # <<>>
  PROVE  /\ Tail(s) \in Seq(T) /\ Len(Tail(s)) = Len(s) - 1 /\ Len(s) \in Nat \ {0}
         /\ \A i \in 1..Len(Tail(s)) : i + 1 \in 1..Len(s) /\ Tail(s)[i] = s[i + 1]
         /\ Head(s) = s[1] /\ s[1] \in T /\ 1 \in 1..Len(s)
OBVIOUS

\* What is left of the commands after that of r.
Dequeued(r) ==
  /\ commands' \in Seq(Clicks) /\ r \in Clicks /\ InFlight(r)
  /\ \A i \in 1..Len(commands') : i + 1 \in 1..Len(commands) /\ commands'[i] = commands[i + 1]
  /\ commands[1] = r /\ 1 \in 1..Len(commands)

\* Taking the first command leaves the others, each still queued at most once.
LEMMA DequeuedFacts ==
  ASSUME IInv, NEW r \in Clicks, Dequeued(r)
  PROVE  /\ \A s \in Clicks : (\E i \in 1..Len(commands') : commands'[i] = s) =>
              \E i \in 1..Len(commands) : commands[i] = s
         /\ \A s \in Clicks \ scene.reused : \A i, j \in 1..Len(commands') :
              commands'[i] = s /\ commands'[j] = s => i = j
         /\ r \notin scene.reused =>
              /\ \A i \in 1..Len(commands') : commands'[i] # r
              /\ verdicts[r] = <<>> /\ r \notin Ids(pending)
<1>1. \A s \in Clicks \ scene.reused : \A i, j \in 1..Len(commands) :
        commands[i] = s /\ commands[j] = s => i = j
  BY DEF IInv, OnceInv
<1>2. \A s \in Clicks \ scene.reused : \A i, j \in 1..Len(commands') :
        commands'[i] = s /\ commands'[j] = s => i = j
  <2> SUFFICES ASSUME NEW s \in Clicks \ scene.reused, NEW i \in 1..Len(commands'),
                      NEW j \in 1..Len(commands'), commands'[i] = s, commands'[j] = s
               PROVE  i = j
    OBVIOUS
  <2>1. commands[i + 1] = s /\ commands[j + 1] = s /\ i + 1 \in 1..Len(commands)
        /\ j + 1 \in 1..Len(commands)
    BY DEF Dequeued
  <2>2. i + 1 = j + 1
    BY <1>1, <2>1
  <2> QED BY <2>2
<1>3. ASSUME r \notin scene.reused, NEW i \in 1..Len(commands'), commands'[i] = r PROVE FALSE
  <2>1. commands[i + 1] = r /\ i + 1 \in 1..Len(commands) /\ commands[1] = r /\ 1 \in 1..Len(commands)
    BY <1>3 DEF Dequeued
  <2>2. i + 1 = 1
    BY <1>1, <1>3, <2>1
  <2> QED BY <2>2
<1>4. r \notin scene.reused => verdicts[r] = <<>> /\ r \notin Ids(pending)
  BY DEF IInv, OnceInv, Dequeued
<1>5. \A s \in Clicks : (\E i \in 1..Len(commands') : commands'[i] = s) =>
        \E i \in 1..Len(commands) : commands[i] = s
  BY DEF Dequeued
<1> QED BY <1>2, <1>3, <1>4, <1>5

\* Where the packet of r went, if one did.
Aimed(r) ==
  /\ target' = [s \in Clicks |-> target'[s]]
  /\ \A s \in Clicks : s # r => target'[s] = target[s]
  /\ \/ target'[r] = target[r]
     \/ IsNew(r) /\ IsCurrent(r) /\ target'[r] = InstanceOf(request[r].window)

\* A click sent at the window its caller saw is a click that hits it.
LEMMA AimedHits ==
  ASSUME IInv, NEW r \in Clicks, InFlight(r), Aimed(r), UNCHANGED request
  PROVE  ClickHitsTheWindowSeen'
<1> SUFFICES ASSUME NEW s \in Clicks, target'[s] # <<>>, request[s].window # Player
             PROVE  target'[s] = request[s].saw \/ target'[s][2] - request[s].saw[2] >= WindowCycle
  BY DEF ClickHitsTheWindowSeen, Sent
<1>1. CASE target'[s] = target[s]
  BY <1>1 DEF IInv, ClickHitsTheWindowSeen, Sent
<1>2. CASE s = r /\ IsCurrent(r) /\ target'[r] = InstanceOf(request[r].window)
  <2> DEFINE w == request[r].window
  <2>1. w # Player /\ IsOpen(w) /\ Saw(request[r], opens)
    BY Zenon, <1>2 DEF IsCurrent, IInv, CallInv, Known
  <2>2. PICK o \in 1..opens : request[r].saw = <<w, o>> /\ w = IdOf(o)
    BY <2>1 DEF Saw
  <2>3. open # NoWindow /\ open.id = w /\ w = IdOf(opens) /\ opens \in Nat
    BY <2>1, OpenFacts DEF IsOpen, WindowInv
  <2>4. target'[r] = <<w, opens>>
    BY <1>2, <2>1 DEF InstanceOf
  <2>5. o = opens \/ opens - o >= WindowCycle
    <3>1. o \in Nat \ {0} /\ opens \in Nat /\ o <= opens
      BY <2>3
    <3>2. IdOf(o) = IdOf(opens)
      BY <2>2, <2>3
    <3> QED BY <3>1, <3>2, SameId
  <2> HIDE DEF w
  <2>6. target'[r][2] = opens /\ request[r].saw[2] = o
    BY <2>2, <2>4
  <2> QED BY Zenon, <1>2, <2>2, <2>4, <2>5, <2>6
<1> QED BY <1>1, <1>2 DEF Aimed

\* The click is answered at once: refused, or a drag that is not answered.
LEMMA EndedNow ==
  ASSUME IInv, NEW r \in Clicks, Dequeued(r), Aimed(r), NEW outcome \in InventoryOutcome,
         completed' = Keep(completed, r, outcome), Judged({r}, outcome),
         UNCHANGED <<scene, player, open, opens, restarts, pending, callerVars>>
  PROVE  IInv'
<1> USE DEF callerVars
<1>0. TypeInv /\ InFlight(r)
  BY Zenon DEF IInv, Dequeued
<1>1. /\ \A s \in Clicks : (\E i \in 1..Len(commands') : commands'[i] = s) =>
           \E i \in 1..Len(commands) : commands[i] = s
      /\ \A s \in Clicks \ scene.reused : \A i, j \in 1..Len(commands') :
           commands'[i] = s /\ commands'[j] = s => i = j
      /\ r \notin scene.reused =>
           /\ \A i \in 1..Len(commands') : commands'[i] # r
           /\ verdicts[r] = <<>> /\ r \notin Ids(pending)
  BY DequeuedFacts
<1>2. /\ verdicts' \in [Clicks -> Seq(InventoryOutcome)]
      /\ \A s \in Clicks : Range(verdicts[s]) \subseteq Range(verdicts'[s])
      /\ outcome \in Range(verdicts'[r])
      /\ \A s \in Clicks : s # r => verdicts'[s] = verdicts[s]
      /\ verdicts[r] = <<>> => Len(verdicts'[r]) <= 1
  BY <1>0, VerdictFacts
<1>3. /\ Outcomes(completed')
      /\ \A d \in DOMAIN completed' : \/ d = r /\ completed'[d] = outcome
                                      \/ d \in DOMAIN completed /\ completed'[d] = completed[d]
  BY <1>0, KeepFacts DEF TypeInv
<1>4. TypeInv'
  BY <1>0, <1>2, <1>3 DEF TypeInv, Dequeued, Aimed
<1>5. CallInv'
  <2>1. \A s \in Clicks : Known(s)' => Known(s)
    BY Zenon, <1>0, <1>1, <1>2, <1>3 DEF Known, InFlight, Aimed
  <2> QED BY Zenon, <2>1 DEF IInv, CallInv
<1>6. VerdictInv'
  <2>1. \A d \in DOMAIN completed' : completed'[d] \in Range(verdicts'[d])
    BY Zenon, <1>0, <1>2, <1>3 DEF IInv, VerdictInv, TypeInv, Outcomes
  <2>2. AnswerIsTheVerdict'
    BY Zenon, <1>2 DEF IInv, VerdictInv, AnswerIsTheVerdict
  <2> QED BY <2>1, <2>2 DEF VerdictInv
<1>7. OnceInv'
  <2>1. /\ Unique(pending)
        /\ \A s \in Clicks \ scene.reused :
          /\ Len(verdicts[s]) <= 1
          /\ InFlight(s) => verdicts[s] = <<>>
          /\ s \in Ids(pending) => \A i \in 1..Len(commands) : commands[i] # s
    BY Zenon DEF IInv, OnceInv
  <2> SUFFICES ASSUME NEW s \in Clicks \ scene.reused
               PROVE  /\ Len(verdicts'[s]) <= 1
                      /\ InFlight(s)' => verdicts'[s] = <<>>
                      /\ s \in Ids(pending) => \A i \in 1..Len(commands') : commands'[i] # s
    BY Zenon, <1>1, <2>1 DEF OnceInv
  <2>2. CASE s = r
    <3>1. ~ InFlight(r)'
      BY Zenon, <1>1, <2>2 DEF InFlight
    <3> QED BY Zenon, <1>1, <1>2, <2>2, <3>1
  <2>3. CASE s # r
    <3>1. InFlight(s)' => InFlight(s)
      BY Zenon, <1>1 DEF InFlight
    <3> QED BY Zenon, <1>1, <1>2, <2>1, <2>3, <3>1
  <2> QED BY Zenon, <2>2, <2>3
<1>8. PendingHasItsWindow'
  <2>1. \A i \in DOMAIN pending : pending[i].id \in Ids(pending)
    BY DEF Ids
  <2>2. \A s \in Ids(pending) : s \in Clicks
    <3> TAKE s \in Ids(pending)
    <3>1. PICK i \in 1..Len(pending) : pending[i].id = s
      BY Zenon, <1>0, IdsFacts DEF TypeInv
    <3>2. pending[i] \in Transactions
      BY <1>0 DEF TypeInv
    <3> QED BY <3>1, <3>2 DEF Transactions
  <2>3. \A s \in Ids(pending) : target'[s] = target[s]
    BY <2>2 DEF Aimed, IsNew
  <2> QED BY Zenon, <2>1, <2>3 DEF IInv, PendingHasItsWindow, IsOpen, InstanceOf
<1>9. WindowInv' /\ ClickHitsTheWindowSeen'
  BY Zenon, <1>0, AimedHits DEF IInv, WindowInv
<1> QED BY Zenon, <1>4, <1>5, <1>6, <1>7, <1>8, <1>9 DEF IInv

\* The click is sent and waits for its answer.
LEMMA EndsLater ==
  ASSUME IInv, NEW r \in Clicks, Dequeued(r), Aimed(r), IsNew(r), IsCurrent(r),
         target'[r] = InstanceOf(request[r].window),
         pending' = Append(pending, [id |-> r, age |-> 0]),
         UNCHANGED <<scene, player, open, opens, restarts, completed, verdicts, callerVars>>
  PROVE  IInv'
<1> USE DEF callerVars
<1> DEFINE t == [id |-> r, age |-> 0]
<1>0. TypeInv /\ InFlight(r) /\ pending \in Seq(Transactions)
  BY Zenon DEF IInv, Dequeued, TypeInv
<1>1. /\ \A s \in Clicks : (\E i \in 1..Len(commands') : commands'[i] = s) =>
           \E i \in 1..Len(commands) : commands[i] = s
      /\ \A s \in Clicks \ scene.reused : \A i, j \in 1..Len(commands') :
           commands'[i] = s /\ commands'[j] = s => i = j
      /\ r \notin scene.reused =>
           /\ \A i \in 1..Len(commands') : commands'[i] # r
           /\ verdicts[r] = <<>> /\ r \notin Ids(pending)
  BY DequeuedFacts
<1>2. t \in Transactions /\ t.id = r /\ pending' = Append(pending, t)
  BY DEF Transactions
<1> HIDE DEF t
<1>3. /\ pending' \in Seq(Transactions) /\ Len(pending) \in Nat
      /\ \A i \in 1..Len(pending') : \/ i \in 1..Len(pending) /\ pending'[i] = pending[i]
                                     \/ i = Len(pending) + 1 /\ pending'[i] = t
  <2> DEFINE m == Append(pending, t)
  <2>1. /\ m \in Seq(Transactions) /\ Len(pending) \in Nat
        /\ \A i \in 1..Len(m) : \/ i \in 1..Len(pending) /\ m[i] = pending[i]
                                \/ i = Len(pending) + 1 /\ m[i] = t
    BY <1>0, <1>2, AppendFacts
  <2>2. pending' = m
    BY Zenon, <1>2
  <2> HIDE DEF m
  <2> QED BY Zenon, <2>1, <2>2
<1>4. r \notin Ids(pending) /\ IsOpen(request[r].window)
  BY DEF IsNew, IsCurrent
<1>5. \A s : s \in Ids(pending') => s \in Ids(pending) \/ s = r
  <2> SUFFICES ASSUME NEW s, s \in Ids(pending'), s # r
               PROVE  s \in Ids(pending)
    OBVIOUS
  <2>1. PICK i \in 1..Len(pending') : pending'[i].id = s
    BY Zenon, <1>3, IdsFacts
  <2>2. i \in 1..Len(pending) /\ pending[i].id = s
    BY Zenon, <1>2, <1>3, <2>1
  <2> QED BY Zenon, <1>0, <2>2, IdsFacts
<1>6. TypeInv'
  BY <1>0, <1>3 DEF TypeInv, Dequeued, Aimed
<1>7. CallInv'
  <2>1. \A s \in Clicks : Known(s)' => Known(s)
    BY Zenon, <1>0, <1>1, <1>5 DEF Known, InFlight, Aimed
  <2> QED BY Zenon, <2>1 DEF IInv, CallInv
<1>8. VerdictInv'
  BY Zenon DEF IInv, VerdictInv, AnswerIsTheVerdict
<1>9. OnceInv'
  <2>1. /\ Unique(pending)
        /\ \A s \in Clicks \ scene.reused :
          /\ Len(verdicts[s]) <= 1
          /\ InFlight(s) => verdicts[s] = <<>>
          /\ s \in Ids(pending) => \A i \in 1..Len(commands) : commands[i] # s
    BY Zenon DEF IInv, OnceInv
  <2>2. Unique(pending')
    <3> SUFFICES ASSUME NEW i \in 1..Len(pending'), NEW j \in 1..Len(pending'),
                        pending'[i].id = pending'[j].id
                 PROVE  i = j
      BY DEF Unique
    <3>1. \A k \in 1..Len(pending) : pending[k].id # r
      BY Zenon, <1>0, <1>4, IdsFacts
    <3>2. CASE i \in 1..Len(pending) /\ j \in 1..Len(pending) /\ pending'[i] = pending[i]
               /\ pending'[j] = pending[j]
      BY Zenon, <2>1, <3>2 DEF Unique
    <3> QED BY Zenon, <1>2, <1>3, <3>1, <3>2
  <2>3. \A s \in Clicks : InFlight(s)' => InFlight(s)
    BY Zenon, <1>0, <1>1, <1>5 DEF InFlight
  <2>4. \A s \in Clicks \ scene.reused :
          s \in Ids(pending') => \A i \in 1..Len(commands') : commands'[i] # s
    BY <1>1, <1>5, <2>1
  <2> QED BY Zenon, <1>1, <2>1, <2>2, <2>3, <2>4 DEF OnceInv
<1>10. PendingHasItsWindow'
  <2>1. \A s \in Ids(pending) : s \in Clicks
    <3> TAKE s \in Ids(pending)
    <3>1. PICK i \in 1..Len(pending) : pending[i].id = s
      BY Zenon, <1>0, IdsFacts
    <3>2. pending[i] \in Transactions
      BY <1>0
    <3> QED BY <3>1, <3>2 DEF Transactions
  <2>2. \A s \in Ids(pending) :
          IsOpen(request[s].window) /\ target'[s] = InstanceOf(request[s].window)
    BY Zenon, <1>4, <2>1 DEF Aimed, IInv, PendingHasItsWindow, Ids
  <2>3. \A s \in Ids(pending') :
          IsOpen(request[s].window) /\ target'[s] = InstanceOf(request[s].window)
    BY <1>4, <1>5, <2>2
  <2>4. \A i \in DOMAIN pending' : pending'[i].id \in Ids(pending')
    BY DEF Ids
  <2> QED BY Zenon, <2>3, <2>4 DEF PendingHasItsWindow, IsOpen, InstanceOf
<1>11. WindowInv' /\ ClickHitsTheWindowSeen'
  BY <1>0, AimedHits DEF IInv, WindowInv
<1> QED BY <1>6, <1>7, <1>8, <1>9, <1>10, <1>11 DEF IInv

\* send_inventory_click keeps the invariant on each of its paths.
LEMMA SendInv ==
  ASSUME IInv, NEW valid, send_inventory_click(valid), UNCHANGED scene
  PROVE  IInv'
<1> DEFINE r == Head(commands)
<1>1. /\ commands # <<>> /\ commands' = Tail(commands)
      /\ IF prepare_click(r, valid) THEN SendClick(r) ELSE reject_transaction(r)
      /\ UNCHANGED <<scene, player, open, opens, restarts, callerVars>>
  BY DEF send_inventory_click
<1>2. commands \in Seq(Clicks) /\ verdicts \in [Clicks -> Seq(InventoryOutcome)]
      /\ target = [s \in Clicks |-> target[s]]
  BY DEF IInv, TypeInv
<1>3. Dequeued(r) /\ r \in Clicks
  <2>1. /\ Tail(commands) \in Seq(Clicks) /\ r = commands[1] /\ r \in Clicks
        /\ 1 \in 1..Len(commands)
        /\ \A i \in 1..Len(Tail(commands)) :
             i + 1 \in 1..Len(commands) /\ Tail(commands)[i] = commands[i + 1]
    BY <1>1, <1>2, TailFacts
  <2> DEFINE t == Tail(commands)
  <2>2. commands' = t
    BY <1>1
  <2> HIDE DEF t, r
  <2>3. /\ t \in Seq(Clicks) /\ r = commands[1] /\ r \in Clicks
        /\ 1 \in 1..Len(commands)
        /\ \A i \in 1..Len(t) : i + 1 \in 1..Len(commands) /\ t[i] = commands[i + 1]
    BY <2>1 DEF t
  <2> QED BY <2>2, <2>3 DEF Dequeued, InFlight
<1> HIDE DEF r
<1>4. "Rejected" \in InventoryOutcome /\ "Sent" \in InventoryOutcome
  BY DEF InventoryOutcome
<1>5. CASE ~ prepare_click(r, valid)
  <2>1. /\ completed' = Keep(completed, r, "Rejected")
        /\ verdicts' = [verdicts EXCEPT ![r] = Append(@, "Rejected")]
        /\ UNCHANGED <<pending, target>>
    BY <1>1, <1>5 DEF reject_transaction
  <2>2. Judged({r}, "Rejected")
    BY Zenon, <1>2, <1>3, <2>1 DEF Judged
  <2>3. Aimed(r)
    BY <1>2, <2>1 DEF Aimed
  <2> QED BY <1>1, <1>3, <1>4, <2>1, <2>2, <2>3, EndedNow
<1>6. CASE prepare_click(r, valid)
  <2>1. SendClick(r) /\ IsNew(r) /\ IsCurrent(r)
    BY <1>1, <1>6 DEF prepare_click
  <2>2. target' = [target EXCEPT ![r] = InstanceOf(request[r].window)]
    BY <2>1 DEF SendClick
  <2>3. target'[r] = InstanceOf(request[r].window) /\ Aimed(r)
    <3> DEFINE i == InstanceOf(request[r].window)
    <3>1. target' = [target EXCEPT ![r] = i]
      BY <2>2
    <3> HIDE DEF i
    <3>2. /\ target'[r] = i /\ target' = [s \in Clicks |-> target'[s]]
          /\ \A s \in Clicks : s # r => target'[s] = target[s]
      BY Zenon, <1>2, <1>3, <3>1
    <3> QED BY <2>1, <3>2 DEF Aimed, i
  <2>4. CASE request[r].kind \in {"drag_start", "drag_add"}
    <3>1. /\ completed' = Keep(completed, r, "Sent")
          /\ verdicts' = [verdicts EXCEPT ![r] = Append(@, "Sent")]
          /\ UNCHANGED pending
      BY <2>1, <2>4 DEF SendClick
    <3>2. Judged({r}, "Sent")
      BY Zenon, <1>2, <1>3, <3>1 DEF Judged
    <3> QED BY <1>1, <1>3, <1>4, <2>3, <3>1, <3>2, EndedNow
  <2>5. CASE request[r].kind \notin {"drag_start", "drag_add"}
    <3>1. /\ pending' = Append(pending, [id |-> r, age |-> 0])
          /\ UNCHANGED <<completed, verdicts>>
      BY <2>1, <2>5 DEF SendClick
    <3> QED BY <1>1, <1>3, <2>1, <2>3, <3>1, EndsLater
  <2> QED BY <2>4, <2>5
<1> QED BY <1>5, <1>6

-----------------------------------------------------------------------------
(* A new PlayState, and the end of the session.                            *)

\* Leaving Play for Configuration keeps the invariant: nothing pending is left
\* that waits for a window.
LEMMA ReconfigureInv ==
  ASSUME IInv, Reconfigure, UNCHANGED scene
  PROVE  IInv'
<1>1. /\ restarts' = restarts + 1 /\ player' = 0 /\ open' = NoWindow /\ pending' = <<>>
      /\ completed' = [r \in {} |-> "none"]
      /\ UNCHANGED <<scene, opens, verdicts, target, commands, request, call, answer>>
  BY DEF Reconfigure, callerVars
<1>2. pending' \in Seq(Transactions) /\ Len(pending') = 0 /\ DOMAIN pending' = {}
  BY <1>1
<1>3. Ids(pending') = {}
  BY <1>2 DEF Ids
<1>4. DOMAIN completed' = {} /\ Outcomes(completed')
  BY <1>1 DEF Outcomes
<1>5. TypeInv'
  BY <1>1, <1>2, <1>4 DEF IInv, TypeInv
<1>6. \A r \in Clicks : (InFlight(r)' => InFlight(r)) /\ (Known(r)' => Known(r))
  BY Zenon, <1>1, <1>3, <1>4 DEF InFlight, Known
<1>7. CallInv'
  BY <1>1, <1>6 DEF IInv, CallInv
<1>8. VerdictInv'
  BY Zenon, <1>1, <1>4 DEF IInv, VerdictInv, AnswerIsTheVerdict
<1>9. OnceInv'
  <2>1. Unique(pending')
    BY <1>2 DEF Unique
  <2>2. ASSUME NEW r \in Clicks \ scene.reused
        PROVE  /\ Len(verdicts[r]) <= 1
               /\ InFlight(r)' => verdicts[r] = <<>>
               /\ \A i, j \in 1..Len(commands) : commands[i] = r /\ commands[j] = r => i = j
    BY Zenon, <1>6 DEF IInv, OnceInv
  <2>3. \A r : r \notin Ids(pending')
    BY Zenon, <1>3
  <2> QED BY Zenon, <1>1, <2>1, <2>2, <2>3 DEF OnceInv
<1>10. WindowInv' /\ PendingHasItsWindow' /\ ClickHitsTheWindowSeen'
  BY <1>1, <1>2 DEF IInv, WindowInv, PendingHasItsWindow, ClickHitsTheWindowSeen, Sent
<1> QED BY <1>5, <1>7, <1>8, <1>9, <1>10 DEF IInv

\* The end of the session keeps the invariant: it only marks it.
LEMMA SessionEndsInv ==
  ASSUME IInv, SessionEnds, UNCHANGED scene
  PROVE  IInv'
<1>1. UNCHANGED <<scene, windowVars, transactionVars, commands, callerVars>>
  BY DEF SessionEnds
<1>2. player' \in Nat /\ opens' = opens /\ restarts' \in Nat /\ WindowInv'
  BY <1>1 DEF windowVars, IInv, TypeInv, WindowInv
<1>3. Stays({})
  BY Zenon, <1>1, PendingAlike DEF Stays, IsOpen, InstanceOf, windowVars, callerVars
<1> QED BY <1>1, <1>2, <1>3, NotFinished

-----------------------------------------------------------------------------
(* The callers.                                                            *)

\* The caller of r moves, and no other.
Called(r) ==
  /\ request' = [s \in Clicks |-> request'[s]]
  /\ call' \in [Clicks -> {"new", "picked", "waiting", "done"}]
  /\ answer' \in [Clicks -> Answers]
  /\ \A s \in Clicks : s # r => /\ request'[s] = request[s] /\ call'[s] = call[s]
                                /\ answer'[s] = answer[s]

\* A click that is known keeps its request.
Honest(r) ==
  /\ Known(r) => request'[r] = request[r] /\ call'[r] \in {"waiting", "done"}
  /\ call'[r] = "waiting" => Saw(request'[r], opens)
  /\ answer'[r] \in InventoryOutcome => answer'[r] \in Range(verdicts[r])

\* It is put on its way.
Queued(r) ==
  /\ commands' = Append(commands, r)
  /\ call'[r] \in {"waiting", "done"} /\ Saw(request'[r], opens)
  /\ verdicts[r] = <<>>
  /\ r \notin scene.reused => ~ InFlight(r)

\* A caller that records or queues a click keeps the invariant.
LEMMA CalledInv ==
  ASSUME IInv, NEW r \in Clicks, Called(r), Honest(r), commands' = commands \/ Queued(r),
         UNCHANGED <<scene, windowVars, transactionVars>>
  PROVE  IInv'
<1>1. UNCHANGED <<scene, player, open, opens, restarts, pending, completed, verdicts, target>>
  BY DEF windowVars, transactionVars
<1>2. TypeInv /\ commands \in Seq(Clicks) /\ pending \in Seq(Transactions)
  BY DEF IInv, TypeInv
<1>3. /\ commands' \in Seq(Clicks)
      /\ \A s \in Clicks : s # r /\ (\E i \in 1..Len(commands') : commands'[i] = s) =>
           \E i \in 1..Len(commands) : commands[i] = s
      /\ \A s \in Clicks : s # r \/ commands' = commands => \A i, j \in 1..Len(commands') :
           commands'[i] = s /\ commands'[j] = s =>
             \/ i = j
             \/ /\ i \in 1..Len(commands) /\ j \in 1..Len(commands)
                /\ commands[i] = s /\ commands[j] = s
      /\ commands' # commands => \A i \in 1..Len(commands') :
           \/ i \in 1..Len(commands) /\ commands'[i] = commands[i]
           \/ i = Len(commands) + 1
  <2>1. CASE commands' = commands
    BY <1>2, <2>1
  <2>2. CASE Queued(r)
    <3> DEFINE m == Append(commands, r)
    <3>1. /\ m \in Seq(Clicks)
          /\ \A i \in 1..Len(m) : \/ i \in 1..Len(commands) /\ m[i] = commands[i]
                                  \/ i = Len(commands) + 1 /\ m[i] = r
      BY <1>2, AppendFacts
    <3>2. commands' = m
      BY <2>2 DEF Queued
    <3> HIDE DEF m
    <3>3. commands' # commands
      <4>1. Len(m) = Len(commands) + 1 /\ Len(commands) \in Nat
        BY Zenon, <1>2, AppendFacts DEF m
      <4> QED BY <3>2, <4>1
    <3> QED BY Zenon, <3>1, <3>2, <3>3
  <2> QED BY <2>1, <2>2
<1>4. \A s \in Clicks : s # r \/ commands' = commands =>
        (InFlight(s)' => InFlight(s)) /\ (Known(s)' => Known(s))
  BY <1>1, <1>3 DEF InFlight, Known
<1>5. \A s \in Clicks : Known(s) => request'[s] = request[s]
  BY DEF Called, Honest
<1>6. TypeInv'
  BY Zenon, <1>1, <1>2, <1>3 DEF TypeInv, Called
<1>7. CallInv'
  <2> SUFFICES ASSUME NEW s \in Clicks
               PROVE  /\ Known(s)' => call'[s] \in {"waiting", "done"} /\ Saw(request'[s], opens)
                      /\ call'[s] = "waiting" => Saw(request'[s], opens)
    BY <1>1 DEF CallInv
  <2>1. CASE s # r
    BY Zenon, <1>4, <2>1 DEF IInv, CallInv, Called
  <2>2. CASE s = r /\ commands' = commands
    BY Zenon, <1>4, <2>2 DEF IInv, CallInv, Honest
  <2>3. CASE s = r /\ Queued(r)
    BY <2>3 DEF Queued
  <2> QED BY Zenon, <2>1, <2>2, <2>3
<1>8. VerdictInv'
  BY Zenon, <1>1 DEF IInv, VerdictInv, AnswerIsTheVerdict, Called, Honest
<1>9. OnceInv'
  <2>1. /\ Unique(pending)
        /\ \A s \in Clicks \ scene.reused :
          /\ Len(verdicts[s]) <= 1
          /\ InFlight(s) => verdicts[s] = <<>>
          /\ \A i, j \in 1..Len(commands) : commands[i] = s /\ commands[j] = s => i = j
          /\ s \in Ids(pending) => \A i \in 1..Len(commands) : commands[i] # s
    BY Zenon DEF IInv, OnceInv
  <2> SUFFICES ASSUME NEW s \in Clicks \ scene.reused
               PROVE  /\ InFlight(s)' => verdicts[s] = <<>>
                      /\ \A i, j \in 1..Len(commands') :
                           commands'[i] = s /\ commands'[j] = s => i = j
                      /\ s \in Ids(pending) => \A i \in 1..Len(commands') : commands'[i] # s
    BY Zenon, <1>1, <2>1 DEF OnceInv
  <2>2. CASE s # r \/ commands' = commands
    <3>1. InFlight(s)' => verdicts[s] = <<>>
      BY Zenon, <1>4, <2>1, <2>2
    <3>2. \A i, j \in 1..Len(commands') : commands'[i] = s /\ commands'[j] = s => i = j
      <4> SUFFICES ASSUME NEW i \in 1..Len(commands'), NEW j \in 1..Len(commands'),
                          commands'[i] = s, commands'[j] = s
                   PROVE  i = j
        OBVIOUS
      <4>1. \/ i = j
            \/ /\ i \in 1..Len(commands) /\ j \in 1..Len(commands)
               /\ commands[i] = s /\ commands[j] = s
        BY Zenon, <1>3, <2>2
      <4>2. \A k, l \in 1..Len(commands) : commands[k] = s /\ commands[l] = s => k = l
        BY Zenon, <2>1
      <4> QED BY Zenon, <4>1, <4>2
    <3>3. s \in Ids(pending) => \A i \in 1..Len(commands') : commands'[i] # s
      <4>1. CASE s # r
        BY Zenon, <1>3, <2>1, <4>1
      <4>2. CASE commands' = commands
        BY Zenon, <2>1, <4>2
      <4> QED BY <2>2, <4>1, <4>2
    <3> QED BY Zenon, <3>1, <3>2, <3>3
  <2>3. CASE s = r /\ commands' # commands
    <3>1. verdicts[s] = <<>> /\ ~ InFlight(s)
      BY Zenon, <2>3 DEF Queued
    <3>2. s \notin Ids(pending) /\ \A i \in 1..Len(commands) : commands[i] # s
      BY <3>1 DEF InFlight
    <3> QED BY Zenon, <1>3, <2>3, <3>1, <3>2
  <2> QED BY <2>2, <2>3
<1>10. PendingHasItsWindow'
  <2>1. \A i \in DOMAIN pending : pending[i].id \in Clicks /\ Known(pending[i].id)
    <3> TAKE i \in DOMAIN pending
    <3>1. pending[i] \in Transactions /\ pending[i].id \in Ids(pending)
      BY <1>2 DEF Ids
    <3> QED BY <3>1 DEF Transactions, Known, InFlight
  <2> QED BY <1>1, <1>5, <2>1 DEF IInv, PendingHasItsWindow, IsOpen, InstanceOf
<1>11. WindowInv' /\ ClickHitsTheWindowSeen'
  BY <1>1, <1>5 DEF IInv, WindowInv, ClickHitsTheWindowSeen, Sent, Known
<1> QED BY <1>6, <1>7, <1>8, <1>9, <1>10, <1>11 DEF IInv

\* What Return changes.
LEMMA ReturnInv ==
  ASSUME IInv, NEW r \in Clicks, NEW a \in Answers, Return(r, a),
         a \in InventoryOutcome => a \in Range(verdicts[r]),
         UNCHANGED <<scene, windowVars, transactionVars, commands, request>>
  PROVE  IInv'
<1>1. /\ call' = [call EXCEPT ![r] = "done"] /\ answer' = [answer EXCEPT ![r] = a]
      /\ request' = request /\ commands' = commands
  BY DEF Return
<1>2. /\ call \in [Clicks -> {"new", "picked", "waiting", "done"}]
      /\ answer \in [Clicks -> Answers] /\ request = [s \in Clicks |-> request[s]]
  BY DEF IInv, TypeInv
<1>3. Called(r) /\ Honest(r)
  BY <1>1, <1>2 DEF Called, Honest
<1> QED BY <1>1, <1>3, CalledInv

\* Choosing the window to click keeps the invariant.
LEMMA PickWindowInv ==
  ASSUME IInv, NEW r \in Clicks, NEW w, PickWindow(r, w), UNCHANGED scene
  PROVE  IInv'
<1>1. /\ call[r] = "new" /\ request' = [request EXCEPT ![r].window = w]
      /\ call' = [call EXCEPT ![r] = "picked"]
      /\ answer' = answer /\ commands' = commands
      /\ UNCHANGED <<scene, windowVars, transactionVars>>
  BY DEF PickWindow
<1>2. /\ call \in [Clicks -> {"new", "picked", "waiting", "done"}]
      /\ answer \in [Clicks -> Answers] /\ request = [s \in Clicks |-> request[s]]
  BY DEF IInv, TypeInv
<1>3. ~ Known(r) /\ (answer[r] \in InventoryOutcome => answer[r] \in Range(verdicts[r]))
  BY <1>1 DEF IInv, CallInv, VerdictInv, AnswerIsTheVerdict
<1>4. Called(r) /\ Honest(r)
  BY Zenon, <1>1, <1>2, <1>3 DEF Called, Honest
<1> QED BY <1>1, <1>4, CalledInv

\* Submitting a click keeps the invariant.
LEMMA SubmitInv ==
  ASSUME IInv, NEW r \in Clicks, NEW kind, NEW button, Submit(r, kind, button), UNCHANGED scene
  PROVE  IInv'
<1> DEFINE w == request[r].window
           q == [window |-> w, state |-> StateOf(w), kind |-> kind,
                 button |-> button, saw |-> InstanceOf(w)]
<1>1. call[r] = "picked" /\ UNCHANGED <<scene, windowVars, transactionVars>>
  BY Zenon DEF Submit
<1>2. CASE ~ IsOpen(w)
  <2>1. Return(r, "UnknownWindow") /\ UNCHANGED <<request, commands>>
    BY <1>2 DEF Submit
  <2>2. "UnknownWindow" \in Answers /\ "UnknownWindow" \notin InventoryOutcome
    BY DEF Answers, InventoryOutcome
  <2> QED BY <1>1, <2>1, <2>2, ReturnInv
<1>3. CASE IsOpen(w)
  <2>1. /\ request' = [request EXCEPT ![r] = q]
        /\ call' = [call EXCEPT ![r] = "waiting"]
        /\ commands' = Append(commands, r) /\ answer' = answer
    BY <1>3 DEF Submit
  <2>2. /\ call \in [Clicks -> {"new", "picked", "waiting", "done"}]
        /\ answer \in [Clicks -> Answers] /\ request = [s \in Clicks |-> request[s]]
    BY Zenon DEF IInv, TypeInv
  <2>3. ~ Known(r) /\ (answer[r] \in InventoryOutcome => answer[r] \in Range(verdicts[r]))
    BY <1>1 DEF IInv, CallInv, VerdictInv, AnswerIsTheVerdict
  <2>4. Saw(q, opens)
    <3>1. q.window = w /\ q.saw = InstanceOf(w)
      BY Zenon
    <3>2. CASE w = Player
      <4>1. Player \in Nat
        BY DEF Player
      <4> HIDE DEF q
      <4> QED BY Zenon, <3>1, <3>2, <4>1 DEF Saw
    <3>3. CASE w # Player
      <4>1. open # NoWindow /\ open.id = w
        BY <1>3, <3>3 DEF IsOpen
      <4>2. open \in [id : 1..WindowCycle, state : Nat] /\ opens # 0 /\ open.id = IdOf(opens)
        BY <4>1 DEF IInv, WindowInv
      <4>3. w \in Nat /\ w = IdOf(opens) /\ opens \in 1..opens
        BY <4>1, <4>2 DEF IInv, TypeInv
      <4>4. q.saw = <<w, opens>>
        BY <3>1, <3>3 DEF InstanceOf
      <4> HIDE DEF q
      <4> QED BY Zenon, <3>1, <4>3, <4>4 DEF Saw
    <3> QED BY <3>2, <3>3
  <2> HIDE DEF q
  <2>5. request'[r] = q /\ call'[r] = "waiting"
    BY <2>1, <2>2
  <2>6. Called(r) /\ Honest(r)
    BY Zenon, <2>1, <2>2, <2>3, <2>4, <2>5 DEF Called, Honest
  <2>7. Queued(r)
    BY Zenon, <2>1, <2>3, <2>4, <2>5 DEF Queued, Known
  <2> QED BY <1>1, <2>6, <2>7, CalledInv
<1> QED BY <1>2, <1>3

\* Submitting a click id a second time keeps the invariant.
LEMMA ResubmitInv ==
  ASSUME IInv, NEW r \in Clicks, Resubmit(r), UNCHANGED scene
  PROVE  IInv'
<1>1. /\ r \in scene.reused /\ call[r] = "waiting" /\ verdicts[r] = <<>>
      /\ commands' = Append(commands, r)
      /\ UNCHANGED <<scene, windowVars, transactionVars, request, call, answer>>
  BY DEF Resubmit, callerVars
<1>2. /\ call \in [Clicks -> {"new", "picked", "waiting", "done"}]
      /\ answer \in [Clicks -> Answers] /\ request = [s \in Clicks |-> request[s]]
  BY Zenon DEF IInv, TypeInv
<1>3. /\ answer[r] \in InventoryOutcome => answer[r] \in Range(verdicts[r])
      /\ Saw(request[r], opens)
  BY <1>1 DEF IInv, CallInv, VerdictInv, AnswerIsTheVerdict
<1>4. Called(r) /\ Honest(r)
  BY Zenon, <1>1, <1>2, <1>3 DEF Called, Honest
<1>5. Queued(r)
  BY <1>1, <1>3 DEF Queued
<1> QED BY Zenon, <1>1, <1>4, <1>5, CalledInv

\* Every step of a caller keeps the invariant.
LEMMA CallerInv ==
  ASSUME IInv, NEW r \in Clicks, Caller(r), UNCHANGED scene
  PROVE  IInv'
<1>1. ASSUME NEW w \in 0..WindowCycle, PickWindow(r, w) PROVE IInv'
  BY <1>1, PickWindowInv
<1>2. CASE NoGuiOpen(r)
  <2>1. "NoGuiOpen" \in Answers /\ "NoGuiOpen" \notin InventoryOutcome
    BY DEF Answers, InventoryOutcome
  <2> QED BY <1>2, <2>1, ReturnInv DEF NoGuiOpen
<1>3. ASSUME NEW kind \in scene.kinds, NEW button \in Buttons, Submit(r, kind, button)
      PROVE  IInv'
  BY <1>3, SubmitInv
<1>4. CASE Resubmit(r)
  BY <1>4, ResubmitInv
<1>5. CASE Outcome(r)
  <2>1. r \in DOMAIN completed /\ Return(r, completed[r])
        /\ UNCHANGED <<windowVars, transactionVars, commands, request>>
    BY <1>5 DEF Outcome
  <2>2. completed[r] \in Answers /\ completed[r] \in Range(verdicts[r])
    BY Zenon, <2>1 DEF IInv, TypeInv, Outcomes, VerdictInv, Answers
  <2> QED BY <2>1, <2>2, ReturnInv
<1>6. CASE Disconnected(r)
  <2>1. "Disconnected" \in Answers /\ "Disconnected" \notin InventoryOutcome
    BY DEF Answers, InventoryOutcome
  <2> QED BY <1>6, <2>1, ReturnInv DEF Disconnected
<1>7. CASE GiveUp(r)
  <2>1. "GaveUp" \in Answers /\ "GaveUp" \notin InventoryOutcome
    BY DEF Answers, InventoryOutcome
  <2> QED BY <1>7, <2>1, ReturnInv DEF GiveUp
<1> QED BY Zenon, <1>1, <1>2, <1>3, <1>4, <1>5, <1>6, <1>7 DEF Caller

-----------------------------------------------------------------------------
\* The invariant holds before any window is opened.
LEMMA InitInv == Init => IInv
<1> SUFFICES ASSUME Init PROVE IInv
  OBVIOUS
<1>1. pending = <<>> /\ DOMAIN pending = {} /\ Len(pending) = 0 /\ pending \in Seq(Transactions)
  BY DEF Init
<1>2. commands = <<>> /\ Len(commands) = 0 /\ commands \in Seq(Clicks)
  BY DEF Init
<1>3. DOMAIN completed = {} /\ Outcomes(completed) /\ Ids(pending) = {}
  BY <1>1 DEF Init, Outcomes, Ids
<1>4. /\ call \in [Clicks -> {"new", "picked", "waiting", "done"}]
      /\ \A r \in Clicks : call[r] = "new" /\ answer[r] = "none" /\ target[r] = <<>>
                           /\ verdicts[r] = <<>> /\ Len(verdicts[r]) = 0
      /\ verdicts \in [Clicks -> Seq(InventoryOutcome)]
      /\ request = [r \in Clicks |-> request[r]] /\ target = [r \in Clicks |-> target[r]]
      /\ "none" \notin InventoryOutcome /\ answer \in [Clicks -> Answers]
  BY DEF Init, Answers, InventoryOutcome
<1>5. TypeInv
  BY <1>1, <1>2, <1>3, <1>4 DEF TypeInv, Init
<1>6. \A r \in Clicks : ~ Known(r)
  BY <1>2, <1>3, <1>4 DEF Known, InFlight
<1>7. CallInv /\ VerdictInv
  BY <1>3, <1>4, <1>6 DEF CallInv, VerdictInv, AnswerIsTheVerdict
<1>8. OnceInv
  BY <1>1, <1>2, <1>3, <1>4 DEF OnceInv, Unique
<1>9. WindowInv /\ PendingHasItsWindow /\ ClickHitsTheWindowSeen
  BY <1>1, <1>4 DEF Init, WindowInv, PendingHasItsWindow, ClickHitsTheWindowSeen, Sent
<1> QED BY <1>5, <1>7, <1>8, <1>9 DEF IInv

\* Every step keeps the invariant.
LEMMA StepInv == IInv /\ [Next]_vars => IInv'
<1> SUFFICES ASSUME IInv, [Next]_vars PROVE IInv'
  OBVIOUS
<1>1. CASE Server /\ UNCHANGED scene
  BY <1>1, OpenWindowInv, CloseWindowInv, SlotsInv, ReconfigureInv, SessionEndsInv DEF Server
<1>2. CASE Handle /\ UNCHANGED scene
  BY <1>2, SendInv DEF Handle
<1>3. CASE expire_transactions /\ UNCHANGED scene
  BY <1>3, ExpireInv
<1>4. ASSUME NEW r \in Clicks, Caller(r), UNCHANGED scene PROVE IInv'
  BY <1>4, CallerInv
<1>5. CASE UNCHANGED vars
  <2>1. UNCHANGED <<scene, windowVars, transactionVars, commands, callerVars>>
    BY <1>5 DEF vars
  <2>2. player' \in Nat /\ opens' = opens /\ restarts' \in Nat /\ WindowInv'
    BY Zenon, <2>1 DEF windowVars, IInv, TypeInv, WindowInv
  <2>3. Stays({})
    BY <2>1, PendingAlike DEF Stays, IsOpen, InstanceOf, windowVars, callerVars
  <2> QED BY <2>1, <2>2, <2>3, NotFinished
<1> QED BY <1>1, <1>2, <1>3, <1>4, <1>5 DEF Next

\* The invariant holds in every reachable state.
LEMMA Invariant == Spec => []IInv
BY InitInv, StepInv, PTL DEF Spec

(* A pending transaction is one of a window that is still there, the very  *)
(* one its packet went to: open_window, close_window and a new PlayState   *)
(* take theirs along.                                                      *)
THEOREM PendingIsAnswerable == Spec => []PendingHasItsWindow
<1>1. IInv => PendingHasItsWindow
  BY Zenon DEF IInv
<1> QED BY <1>1, Invariant, PTL

(* No transaction ends twice: not by two of the events that end one, and   *)
(* never one that is still pending.                                        *)
THEOREM TransactionsEndOnce == Spec => []EndsOnce
<1>1. IInv => EndsOnce
  <2> SUFFICES ASSUME IInv PROVE EndsOnce
    OBVIOUS
  <2>1. /\ Unique(pending) /\ \A r \in Clicks \ scene.reused :
              Len(verdicts[r]) <= 1 /\ (InFlight(r) => verdicts[r] = <<>>)
    BY DEF IInv, OnceInv
  <2>2. \A r \in DOMAIN completed : verdicts[r] # <<>>
    BY DEF IInv, VerdictInv, Range
  <2>3. DOMAIN pending = 1..Len(pending)
    BY DEF IInv, TypeInv
  <2> QED BY <2>1, <2>2, <2>3 DEF EndsOnce, Unique, InFlight
<1> QED BY <1>1, Invariant, PTL

(* A container click goes to the window its caller saw, unless the server  *)
(* has gone through all its window ids meanwhile: prepare_click compares   *)
(* the id and the revision, and no more is needed for any cycle of ids.    *)
THEOREM ClicksHitTheWindowSeen == Spec => []ClickHitsTheWindowSeen
<1>1. IInv => ClickHitsTheWindowSeen
  BY DEF IInv
<1> QED BY <1>1, Invariant, PTL

(* inventory_click returns how the caller's own transaction ended, however *)
(* many outcomes were dropped to make room meanwhile.                      *)
THEOREM AnswersAreVerdicts == Spec => []AnswerIsTheVerdict
<1>1. IInv => AnswerIsTheVerdict
  BY DEF IInv, VerdictInv
<1> QED BY <1>1, Invariant, PTL

-----------------------------------------------------------------------------
(* The limits.                                                             *)

\* MAX_PENDING_TRANSACTIONS and MAX_COMPLETED_TRANSACTIONS hold of the state a
\* session keeps, whatever the clicks, the packets and the timeouts do.
TransactionsBounded ==
  Len(pending) <= MaxPending /\ Cardinality(DOMAIN completed) <= MaxCompleted

\* Finishing some of the transactions that wait makes no more of them, and
\* drops outcomes rather than keep too many.
LEMMA FinishBound ==
  ASSUME IInv, TransactionsBounded, NEW waiting \in Seq(Transactions),
         Len(waiting) = Len(pending), NEW ids, NEW outcome \in InventoryOutcome,
         Finish(waiting, ids, outcome)
  PROVE  TransactionsBounded'
<1> DEFINE last == FinishLoop(waiting, ids, outcome, completed)[Len(waiting)]
<1>1. pending' = last.left /\ completed' = last.done
  BY Zenon DEF Finish
<1>2. Round(last, Len(waiting), waiting, ids, outcome, completed)
  BY Zenon, FinishFacts DEF IInv, TypeInv
<1> HIDE DEF last
<1>3. /\ Len(last.left) <= Len(waiting) /\ last.left \in Seq(Transactions)
      /\ Cardinality(DOMAIN last.done) <= MaxCompleted
  BY Zenon, <1>2 DEF Round, TransactionsBounded
<1>4. Len(pending') <= MaxPending
  <2>1. Len(pending) <= MaxPending /\ MaxPending \in Nat
    BY BoundAssumption DEF TransactionsBounded
  <2> QED BY <1>1, <1>3, <2>1
<1> QED BY Zenon, <1>1, <1>3, <1>4 DEF TransactionsBounded

\* A click that is sent found room, and one that ends at once makes room.
LEMMA SendBound ==
  ASSUME IInv, TransactionsBounded, NEW valid, send_inventory_click(valid)
  PROVE  TransactionsBounded'
<1> DEFINE r == Head(commands)
<1>1. r \in Clicks /\ Outcomes(completed) /\ pending \in Seq(Transactions)
  <2>1. commands \in Seq(Clicks) /\ commands # <<>>
    BY Zenon DEF send_inventory_click, IInv, TypeInv
  <2>2. r \in Clicks
    BY <2>1
  <2> QED BY Zenon, <2>2 DEF IInv, TypeInv
<1>2. \/ \E outcome \in InventoryOutcome :
           completed' = Keep(completed, r, outcome) /\ pending' = pending
      \/ /\ Len(pending) < MaxPending /\ completed' = completed
         /\ pending' = Append(pending, [id |-> r, age |-> 0])
  <2>1. "Sent" \in InventoryOutcome /\ "Rejected" \in InventoryOutcome
    BY DEF InventoryOutcome
  <2>2. CASE prepare_click(r, valid) /\ SendClick(r)
    BY Zenon, <2>1, <2>2 DEF prepare_click, HasRoom, SendClick
  <2>3. CASE reject_transaction(r)
    BY Zenon, <2>1, <2>3 DEF reject_transaction
  <2> QED BY Zenon, <2>2, <2>3 DEF send_inventory_click
<1> HIDE DEF r
<1>3. ASSUME NEW outcome \in InventoryOutcome,
             completed' = Keep(completed, r, outcome), pending' = pending
      PROVE  TransactionsBounded'
  BY Zenon, <1>1, <1>3, KeepBound DEF TransactionsBounded
<1>4. CASE /\ Len(pending) < MaxPending /\ completed' = completed
           /\ pending' = Append(pending, [id |-> r, age |-> 0])
  <2>1. Len(pending') = Len(pending) + 1 /\ Len(pending) \in Nat
    BY <1>1, <1>4
  <2>2. Len(pending') <= MaxPending
    BY <1>4, <2>1, BoundAssumption
  <2> QED BY Zenon, <1>4, <2>2 DEF TransactionsBounded
<1> QED BY Zenon, <1>2, <1>3, <1>4

\* The memory of a session's transactions is bounded: no sequence of clicks,
\* answers, windows, timeouts and new PlayStates makes more of them wait than
\* MAX_PENDING_TRANSACTIONS or keeps more outcomes than
\* MAX_COMPLETED_TRANSACTIONS.
THEOREM TransactionsStayBounded == Spec => []TransactionsBounded
<1>1. Init => TransactionsBounded
  <2> SUFFICES ASSUME Init PROVE TransactionsBounded
    OBVIOUS
  <2>1. Len(pending) = 0 /\ DOMAIN completed = {}
    BY DEF Init
  <2>2. Cardinality({}) = 0 /\ 0 <= MaxPending /\ 0 <= MaxCompleted
    BY FS_EmptySet, BoundAssumption
  <2> QED BY Zenon, <2>1, <2>2 DEF TransactionsBounded
<1>2. IInv /\ TransactionsBounded /\ [Next]_vars => TransactionsBounded'
  <2> SUFFICES ASSUME IInv, TransactionsBounded, [Next]_vars PROVE TransactionsBounded'
    OBVIOUS
  <2>1. ASSUME UNCHANGED <<pending, completed>> PROVE TransactionsBounded'
    BY Zenon, <2>1 DEF TransactionsBounded
  <2>2. pending \in Seq(Transactions)
    BY Zenon DEF IInv, TypeInv
  <2>3. ASSUME NEW ids, NEW outcome \in InventoryOutcome, Finish(pending, ids, outcome)
        PROVE  TransactionsBounded'
    BY Zenon, <2>2, <2>3, FinishBound
  <2>4. {"WindowClosed", "Corrected", "Confirmed", "TimedOut"} \subseteq InventoryOutcome
    BY DEF InventoryOutcome
  <2>5. CASE Server
    <3>1. ASSUME NEW w, open_window(w) PROVE TransactionsBounded'
      BY Zenon, <2>3, <2>4, <3>1 DEF open_window, OpenWindow
    <3>2. CASE close_window
      BY Zenon, <2>3, <2>4, <3>2 DEF close_window, finish_window_transactions
    <3>3. ASSUME NEW w, NEW s, window_items(w, s) PROVE TransactionsBounded'
      BY Zenon, <2>3, <2>4, <3>3 DEF window_items, finish_window_transactions
    <3>4. ASSUME NEW w, NEW s, NEW valid, set_slot(w, s, valid) PROVE TransactionsBounded'
      <4>1. CASE finish_confirmed_transactions(w, s)
        BY Zenon, <2>3, <2>4, <4>1 DEF finish_confirmed_transactions
      <4>2. CASE UNCHANGED transactionVars
        BY Zenon, <2>1, <4>2 DEF transactionVars
      <4> QED BY Zenon, <3>4, <4>1, <4>2 DEF set_slot
    <3>5. CASE Reconfigure
      <4>1. Len(pending') = 0 /\ DOMAIN completed' = {}
        BY <3>5 DEF Reconfigure
      <4>2. Cardinality({}) = 0 /\ 0 <= MaxPending /\ 0 <= MaxCompleted
        BY FS_EmptySet, BoundAssumption
      <4> QED BY Zenon, <4>1, <4>2 DEF TransactionsBounded
    <3>6. CASE SessionEnds
      BY Zenon, <2>1, <3>6 DEF SessionEnds, transactionVars
    <3> QED BY Zenon, <2>5, <3>1, <3>2, <3>3, <3>4, <3>5, <3>6 DEF Server
  <2>6. CASE Handle
    BY Zenon, <2>6, SendBound DEF Handle
  <2>7. CASE expire_transactions
    <3>1. Aged \in Seq(Transactions) /\ Len(Aged) = Len(pending)
      BY Zenon, <2>2, AgedFacts
    <3>2. PICK expired : Finish(Aged, expired, "TimedOut")
      BY Zenon, <2>7 DEF expire_transactions, TickThen
    <3> QED BY Zenon, <2>4, <3>1, <3>2, FinishBound
  <2>8. ASSUME NEW c \in Clicks, Caller(c) PROVE TransactionsBounded'
    <3>1. UNCHANGED transactionVars
      BY Zenon, <2>8 DEF Caller, PickWindow, NoGuiOpen, Submit, Resubmit, Outcome,
                         Disconnected, GiveUp
    <3> QED BY Zenon, <2>1, <3>1 DEF transactionVars
  <2>9. CASE UNCHANGED vars
    BY Zenon, <2>1, <2>9 DEF vars, transactionVars
  <2> QED BY Zenon, <2>5, <2>6, <2>7, <2>8, <2>9 DEF Next
<1> QED BY <1>1, <1>2, Invariant, PTL DEF Spec
=============================================================================
