-------------------------- MODULE FrontendsProofs ---------------------------
(***************************************************************************)
(* The front ends keep their invariants: FrontInv, by which every answer   *)
(* is whole and nobody is left waiting, and HarnessInv, by which the load  *)
(* loops' ServeRun is exact and every session keeps its slot.              *)
(***************************************************************************)
EXTENDS FrontendsInvariants, HarnessInvariants, FiniteSetTheorems, SequenceTheorems, WellFoundedInduction, TLAPS

\* Every set of naturals that is not empty has a least member.
LEMMA LeastNatural ==
  ASSUME NEW X \in SUBSET Nat, X # {}
  PROVE  \E i \in X : \A j \in X : i <= j
<1> DEFINE Less == {p \in Nat \X Nat : p[1] < p[2]}
<1>1. IsWellFoundedOn(Less, Nat)
  BY NatLessThanWellFounded, Zenon DEF OpToRel
<1>2. \A i, j \in Nat : ~(<<j, i>> \in Less) => i <= j
  OBVIOUS
<1> HIDE DEF Less
<1>3. \E i \in X : \A j \in X : ~(<<j, i>> \in Less)
  BY <1>1, WFMin
<1> QED
  BY <1>2, <1>3

\* A set of naturals that has 0 and every successor has them all.
LEMMA InductionOnNaturals ==
  ASSUME NEW X, 0 \in X, \A n \in Nat : n \in X => n + 1 \in X
  PROVE  Nat \subseteq X
<1> SUFFICES ASSUME Nat \ X # {}
             PROVE  FALSE
  OBVIOUS
<1>1. PICK i \in Nat \ X : \A j \in Nat \ X : i <= j
  BY LeastNatural
<1>2. i # 0 /\ i - 1 \in Nat
  BY <1>1
<1>3. i - 1 \in X
  BY <1>1, <1>2
<1>4. i - 1 + 1 \in X
  BY <1>2, <1>3
<1> QED
  BY <1>1, <1>4

\* What appending to a queue does to its elements.
LEMMA AppendFacts ==
  ASSUME NEW D, NEW s \in Seq(D), NEW x \in D
  PROVE  Append(s, x) \in Seq(D) /\ Range(Append(s, x)) = Range(s) \union {x}
<1>1. /\ Append(s, x) \in Seq(D) /\ Len(Append(s, x)) = Len(s) + 1
      /\ \A i \in 1..Len(s) : Append(s, x)[i] = s[i]
      /\ Append(s, x)[Len(s) + 1] = x
  BY AppendProperties
<1>2. DOMAIN s = 1..Len(s) /\ DOMAIN Append(s, x) = 1..Len(s) + 1 /\ Len(s) \in Nat
  BY <1>1, LenProperties
<1> QED
  BY <1>1, <1>2 DEF Range

\* What filtering a queue keeps.
LEMMA KeptFacts ==
  ASSUME NEW D, NEW s \in Seq(D), NEW S
  PROVE  Kept(s, S) \in Seq(D) /\ Range(Kept(s, S)) = Range(s) \intersect S
<1> DEFINE Grown(t, i) == IF s[i] \in S THEN Append(t, s[i]) ELSE t
           Filters(f, n) == f = [i \in 0..n |-> IF i = 0 THEN << >> ELSE Grown(f[i - 1], i)]
           Seen(n) == {s[j] : j \in {k \in 1..n : s[k] \in S}}
           Value(t, n) == t \in Seq(D) /\ Range(t) = Seen(n)
           X == {n \in Nat : n <= Len(s) => \E f : Filters(f, n) /\ Value(f[n], n)}
<1>1. Len(s) \in Nat /\ DOMAIN s = 1..Len(s) /\ \A i \in 1..Len(s) : s[i] \in D
  BY LenProperties
<1>2. 0 \in X
  <2> DEFINE f == [i \in 0..0 |-> << >>]
  <2>1. Filters(f, 0)
    OBVIOUS
  <2>2. Value(f[0], 0)
    BY DEF Range
  <2> QED
    BY <2>1, <2>2
<1>3. ASSUME NEW n \in Nat, n \in X
      PROVE  n + 1 \in X
  <2> SUFFICES ASSUME n + 1 <= Len(s)
               PROVE  \E f : Filters(f, n + 1) /\ Value(f[n + 1], n + 1)
    <3> HIDE DEF Filters, Value
    <3> QED
      OBVIOUS
  <2>1. PICK g : Filters(g, n) /\ Value(g[n], n)
    <3>1. n <= Len(s)
      BY <1>1
    <3> HIDE DEF Filters, Value
    <3> QED
      BY <1>3, <3>1
  <2> DEFINE t == Grown(g[n], n + 1)
             f == [i \in 0..n + 1 |-> IF i <= n THEN g[i] ELSE t]
  <2>2. f[n] = g[n] /\ f[n + 1] = t /\ \A i \in 0..n : f[i] = g[i]
    OBVIOUS
  <2>3. \A i \in 0..n : g[i] = IF i = 0 THEN << >> ELSE Grown(g[i - 1], i)
    <3> HIDE DEF Grown
    <3> QED
      BY <2>1
  <2>4. \A i \in 0..n + 1 : f[i] = IF i = 0 THEN << >> ELSE Grown(f[i - 1], i)
    <3> TAKE i \in 0..n + 1
    <3>1. CASE i \in 0..n
      <4>1. i # 0 => i - 1 \in 0..n
        BY <3>1
      <4> HIDE DEF Grown, f
      <4> QED
        BY <2>2, <2>3, <3>1, <4>1
    <3>2. CASE i = n + 1
      <4>1. i # 0 /\ i - 1 = n
        BY <3>2
      <4> HIDE DEF Grown, f
      <4>2. f[i] = Grown(g[n], n + 1)
        BY <2>2, <3>2
      <4> QED
        BY <2>2, <3>2, <4>1, <4>2
    <3> QED
      BY <3>1, <3>2
  <2>5. Filters(f, n + 1)
    <3>1. DOMAIN f = 0..n + 1 /\ f = [i \in 0..n + 1 |-> f[i]]
      OBVIOUS
    <3> HIDE DEF Grown, f
    <3> QED
      BY <2>4, <3>1
  <2>6. Value(t, n + 1)
    <3>1. n + 1 \in 1..Len(s) /\ s[n + 1] \in D
      BY <1>1
    <3>2. 1..n + 1 = 1..n \union {n + 1}
      OBVIOUS
    <3>3. CASE s[n + 1] \in S
      <4>1. /\ Append(g[n], s[n + 1]) \in Seq(D)
            /\ Range(Append(g[n], s[n + 1])) = Range(g[n]) \union {s[n + 1]}
        <5>1. g[n] \in Seq(D)
          BY <2>1
        <5> QED
          BY <5>1, <3>1, AppendFacts
      <4>2. Seen(n + 1) = Seen(n) \union {s[n + 1]}
        BY <3>2, <3>3
      <4> HIDE DEF Seen
      <4> QED
        BY <2>1, <3>3, <4>1, <4>2
    <3>4. CASE s[n + 1] \notin S
      <4>1. Seen(n + 1) = Seen(n)
        BY <3>2, <3>4
      <4> HIDE DEF Seen
      <4> QED
        BY <2>1, <3>4, <4>1
    <3> QED
      BY <3>3, <3>4
  <2>7. Value(f[n + 1], n + 1)
    BY <2>2, <2>6
  <2> HIDE DEF f, t
  <2> QED
    BY <2>5, <2>7
<1>4. Len(s) \in X
  <2> HIDE DEF X
  <2>1. Nat \subseteq X
    BY <1>2, <1>3, InductionOnNaturals
  <2> QED
    BY <1>1, <2>1
<1>5. PICK f : Filters(f, Len(s)) /\ Value(f[Len(s)], Len(s))
  BY SMTT(60), <1>1, <1>4
<1>6. ASSUME NEW g, Filters(g, Len(s))
      PROVE  g[Len(s)] = f[Len(s)]
  <2> DEFINE Y == {n \in Nat : n <= Len(s) => g[n] = f[n]}
  <2> HIDE DEF Grown
  <2>1. 0 \in Y
    BY <1>1, <1>5, <1>6
  <2>2. ASSUME NEW n \in Nat, n \in Y
        PROVE  n + 1 \in Y
    <3> SUFFICES ASSUME n + 1 <= Len(s)
                 PROVE  g[n + 1] = f[n + 1]
      OBVIOUS
    <3>1. n + 1 \in 0..Len(s) /\ n + 1 # 0 /\ n + 1 - 1 = n /\ n <= Len(s)
      BY <1>1
    <3>2. g[n + 1] = Grown(g[n], n + 1) /\ f[n + 1] = Grown(f[n], n + 1)
      BY <1>5, <1>6, <3>1
    <3> QED
      BY <2>2, <3>1, <3>2
  <2>3. Nat \subseteq Y
    <3> HIDE DEF Y
    <3> QED
      BY <2>1, <2>2, InductionOnNaturals
  <2> QED
    BY <1>1, <2>3
<1>7. Kept(s, S) = (CHOOSE g : Filters(g, Len(s)))[Len(s)]
  BY DEF Kept
<1>8. Filters(CHOOSE g : Filters(g, Len(s)), Len(s))
  <2> HIDE DEF Filters
  <2> QED
    BY <1>5
<1>9. Kept(s, S) = f[Len(s)]
  <2> DEFINE g == CHOOSE h : Filters(h, Len(s))
  <2> HIDE DEF Filters, g
  <2> QED
    BY <1>6, <1>7, <1>8 DEF g
<1>10. Value(Kept(s, S), Len(s))
  BY <1>5, <1>9
<1>11. {s[j] : j \in {k \in 1..Len(s) : s[k] \in S}} = Range(s) \intersect S
  BY <1>1 DEF Range
<1> QED
  BY <1>10, <1>11

---------------------------------------------------------------------------
(* The engine below. *)

\* The next id is the first that is not in use.
LEMMA NextIdFacts ==
  ASSUME NEW E, Orderly(E)
  PROVE  /\ NextId(E) \in Nat \ {0} /\ NextId(E) <= MaxRequests + 1
         /\ \A r \in Ids : E.req[r].st = "unborn" <=> r >= NextId(E)
<1>1. PICK n \in 0..MaxRequests : \A r \in Ids : E.req[r].st = "unborn" <=> r > n
  BY DEF Orderly
<1>2. MaxRequests \in Nat
  BY StepEngineAssumption
<1>3. {r \in Ids : E.req[r].st # "unborn"} = 1..n
  BY <1>1, <1>2 DEF Ids
<1>4. Cardinality(1..n) = n
  <2>1. 1 \in Int /\ n \in Int /\ (IF 1 > n THEN 0 ELSE n - 1 + 1) = n
    BY <1>1, <1>2
  <2> QED
    BY <2>1, FS_Interval
<1>5. NextId(E) = n + 1
  BY <1>3, <1>4 DEF NextId
<1> QED
  BY <1>1, <1>2, <1>5 DEF Ids

\* What a record of the requests is.
LEMMA EngineFacts ==
  ASSUME NEW E, Orderly(E)
  PROVE  /\ E.req \in [Ids -> Requests] /\ E.order \in Seq(Ids) /\ E.last \in [Ids -> Seq(Nat)]
         /\ \A r \in Ids : /\ E.req[r] \in Requests
                           /\ E.req[r].out \in Nat /\ E.req[r].left \in Nat /\ E.req[r].chunks \in Nat
                           /\ E.req[r].hold \in BOOLEAN
                           /\ r \in Range(E.order) <=> E.req[r].st = "active"
BY DEF Orderly, Engines, Requests

\* An engine is its three fields.
LEMMA EngineFields ==
  ASSUME NEW E \in Engines
  PROVE  /\ E = [req |-> E.req, order |-> E.order, last |-> E.last]
         /\ \A a, b : LET F == [req |-> a, order |-> b, last |-> E.last]
                      IN  a \in [Ids -> Requests] /\ b \in Seq(Ids) => F \in Engines
BY DEF Engines

\* The queue is that of the active requests.
LEMMA QueueOf ==
  ASSUME NEW E \in Engines, \A r \in Ids : r \in Range(E.order) <=> E.req[r].st = "active"
  PROVE  Range(E.order) = {r \in Ids : E.req[r].st = "active"}
<1>1. Range(E.order) \subseteq Ids
  BY LenProperties DEF Engines, Range
<1> QED
  BY <1>1

\* A new request is active and has emitted nothing; nothing else changes.
LEMMA AddFacts ==
  ASSUME NEW E, Orderly(E), CanAdd(E), NEW n \in Nat, NEW k \in Nat, NEW hold \in BOOLEAN
  PROVE  LET F == AddRequest(E, n, k, hold)
             i == NextId(E)
         IN  /\ Orderly(F) /\ i \in Ids /\ E.req[i].st = "unborn"
             /\ F.req[i] = [st |-> "active", hold |-> hold, chunks |-> k, left |-> n, out |-> 0]
             /\ \A r \in Ids : r # i => F.req[r] = E.req[r]
             /\ F.last = E.last
<1> DEFINE F == AddRequest(E, n, k, hold)
           i == NextId(E)
           x == [st |-> "active", hold |-> hold, chunks |-> k, left |-> n, out |-> 0]
<1>1. i \in Ids /\ E \in Engines
  BY DEF CanAdd, Orderly
<1>2. E.req[i].st = "unborn" /\ \A r \in Ids : E.req[r].st = "unborn" <=> r >= i
  BY <1>1, NextIdFacts DEF Ids
<1> HIDE DEF i
<1>3. /\ F.req = [E.req EXCEPT ![i] = x] /\ F.order = Append(E.order, i) /\ F.last = E.last
      /\ F.req \in [Ids -> Requests] /\ F.order \in Seq(Ids) => F \in Engines
  <2> DEFINE a == [E.req EXCEPT ![i] = x]
             b == Append(E.order, i)
  <2>1. F = [E EXCEPT !.req = a, !.order = b]
    BY <1>1 DEF AddRequest, Engines, i
  <2> HIDE DEF F, a, b
  <2>2. E = [req |-> E.req, order |-> E.order, last |-> E.last]
    BY <1>1, EngineFields
  <2>3. F = [req |-> a, order |-> b, last |-> E.last]
    BY <2>1, <2>2
  <2>4. /\ F.req = a /\ F.order = b /\ F.last = E.last
        /\ a \in [Ids -> Requests] /\ b \in Seq(Ids) => F \in Engines
    BY <1>1, <2>3, EngineFields
  <2> QED
    BY <2>4 DEF a, b
<1>4. x \in Requests /\ x.st = "active"
  BY DEF Requests
<1> HIDE DEF x, F
<1>5. F.req \in [Ids -> Requests] /\ F.req[i] = x /\ \A r \in Ids : r # i => F.req[r] = E.req[r]
  BY <1>1, <1>3, <1>4, EngineFacts
<1>6. F.order \in Seq(Ids) /\ Range(F.order) = Range(E.order) \union {i}
  BY <1>1, <1>3, EngineFacts, AppendFacts
<1>7. F \in Engines
  BY <1>3, <1>5, <1>6
<1>8. \A r \in Ids : F.req[r].st = "unborn" <=> r > i
  <2>1. \A r \in Ids : r \in Nat
    BY DEF Ids
  <2> QED
    BY <1>1, <1>2, <1>4, <1>5, <2>1
<1>9. i \in 0..MaxRequests
  BY <1>1, StepEngineAssumption DEF Ids
<1>10. Range(F.order) = {r \in Ids : F.req[r].st = "active"}
  <2>1. \A r \in Ids : r \in Range(F.order) <=> F.req[r].st = "active"
    BY <1>1, <1>4, <1>5, <1>6, EngineFacts
  <2> QED
    BY <1>7, <2>1, QueueOf
<1>11. Orderly(F)
  BY <1>7, <1>8, <1>9, <1>10 DEF Orderly
<1> QED
  BY <1>1, <1>2, <1>3, <1>5, <1>11 DEF x, F, i

\* A request that resumes becomes active with what it has emitted; nothing else changes.
LEMMA ResumeFacts ==
  ASSUME NEW E, Orderly(E), NEW i \in Paused(E), NEW n \in Nat, NEW k \in Nat, NEW hold \in BOOLEAN
  PROVE  LET F == ResumeRequest(E, i, n, k, hold)
         IN  /\ Orderly(F) /\ i \in Ids
             /\ F.req[i].st = "active" /\ F.req[i].out = E.req[i].out /\ F.req[i].left = n
             /\ F.req[i].hold = hold
             /\ \A r \in Ids : r # i => F.req[r] = E.req[r]
             /\ F.last = E.last
<1> DEFINE F == ResumeRequest(E, i, n, k, hold)
           x == [E.req[i] EXCEPT !.st = "active", !.hold = hold, !.chunks = k, !.left = n]
<1>1. i \in Ids /\ E \in Engines /\ E.req[i].st = "paused" /\ E.req[i] \in Requests
  BY EngineFacts DEF Paused, Orderly
<1>2. /\ F.req = [E.req EXCEPT ![i] = x] /\ F.order = Append(E.order, i) /\ F.last = E.last
      /\ F.req \in [Ids -> Requests] /\ F.order \in Seq(Ids) => F \in Engines
  <2> DEFINE a == [E.req EXCEPT ![i] = x]
             b == Append(E.order, i)
  <2>1. F = [E EXCEPT !.req = a, !.order = b]
    BY <1>1 DEF ResumeRequest, Engines
  <2> HIDE DEF F, a, b
  <2>2. E = [req |-> E.req, order |-> E.order, last |-> E.last]
    BY <1>1, EngineFields
  <2>3. F = [req |-> a, order |-> b, last |-> E.last]
    BY <2>1, <2>2
  <2>4. /\ F.req = a /\ F.order = b /\ F.last = E.last
        /\ a \in [Ids -> Requests] /\ b \in Seq(Ids) => F \in Engines
    BY <1>1, <2>3, EngineFields
  <2> QED
    BY <2>4 DEF a, b
<1>3. /\ x \in Requests /\ x.st = "active" /\ x.out = E.req[i].out /\ x.left = n /\ x.hold = hold
  BY <1>1 DEF Requests
<1> HIDE DEF x, F
<1>4. F.req \in [Ids -> Requests] /\ F.req[i] = x /\ \A r \in Ids : r # i => F.req[r] = E.req[r]
  BY <1>1, <1>2, <1>3, EngineFacts
<1>5. F.order \in Seq(Ids) /\ Range(F.order) = Range(E.order) \union {i}
  BY <1>1, <1>2, EngineFacts, AppendFacts
<1>6. F \in Engines
  BY <1>2, <1>4, <1>5
<1>7. PICK m \in 0..MaxRequests : \A r \in Ids : E.req[r].st = "unborn" <=> r > m
  BY DEF Orderly
<1>8. \A r \in Ids : F.req[r].st = "unborn" <=> r > m
  BY <1>1, <1>3, <1>4, <1>7
<1>9. Range(F.order) = {r \in Ids : F.req[r].st = "active"}
  <2>1. \A r \in Ids : r \in Range(F.order) <=> F.req[r].st = "active"
    BY <1>1, <1>3, <1>4, <1>5, EngineFacts
  <2> QED
    BY <1>6, <2>1, QueueOf
<1>10. Orderly(F)
  BY <1>6, <1>7, <1>8, <1>9 DEF Orderly
<1> QED
  BY <1>1, <1>2, <1>3, <1>4, <1>10 DEF F

\* The known requests of V are gone; nothing else changes.
LEMMA FinishFacts ==
  ASSUME NEW E, Orderly(E), NEW V
  PROVE  LET F == FinishRequests(E, V)
         IN  /\ Orderly(F)
             /\ \A r \in Ids : /\ r \notin V => F.req[r] = E.req[r]
                               /\ ~Known(E, r) => F.req[r] = E.req[r]
                               /\ r \in V /\ Known(E, r) => F.req[r].st = "gone"
             /\ F.last = E.last
<1> DEFINE F == FinishRequests(E, V)
           gone == {r \in V : Known(E, r)}
<1>1. E \in Engines
  BY DEF Orderly
<1>2. /\ F.req = [r \in Ids |-> IF r \in gone THEN [E.req[r] EXCEPT !.st = "gone"] ELSE E.req[r]]
      /\ F.order = Kept(E.order, Ids \ gone) /\ F.last = E.last
      /\ F.req \in [Ids -> Requests] /\ F.order \in Seq(Ids) => F \in Engines
  <2> DEFINE a == [r \in Ids |-> IF r \in gone THEN [E.req[r] EXCEPT !.st = "gone"] ELSE E.req[r]]
             b == Kept(E.order, Ids \ gone)
  <2>1. F = [E EXCEPT !.req = a, !.order = b]
    BY DEF FinishRequests
  <2> HIDE DEF F, a, b
  <2>2. E = [req |-> E.req, order |-> E.order, last |-> E.last]
    BY <1>1, EngineFields
  <2>3. F = [req |-> a, order |-> b, last |-> E.last]
    BY <2>1, <2>2
  <2>4. /\ F.req = a /\ F.order = b /\ F.last = E.last
        /\ a \in [Ids -> Requests] /\ b \in Seq(Ids) => F \in Engines
    BY <1>1, <2>3, EngineFields
  <2> QED
    BY <2>4 DEF a, b
<1> HIDE DEF F
<1>3. \A r \in Ids : [E.req[r] EXCEPT !.st = "gone"] \in Requests
  BY ZenonT(60), EngineFacts DEF Requests
<1>4. \A r \in Ids : F.req[r] = IF r \in gone THEN [E.req[r] EXCEPT !.st = "gone"] ELSE E.req[r]
  BY <1>2
<1>5. F.req \in [Ids -> Requests]
  BY <1>2, <1>3, EngineFacts
<1>6. F.order \in Seq(Ids) /\ Range(F.order) = Range(E.order) \intersect (Ids \ gone)
  BY <1>2, EngineFacts, KeptFacts
<1>7. F \in Engines
  BY <1>2, <1>5, <1>6
<1>8. \A r \in gone : r \in Ids /\ E.req[r].st \in {"active", "paused"}
  BY DEF Known
<1>9. \A r \in Ids : [E.req[r] EXCEPT !.st = "gone"].st = "gone"
  BY EngineFacts DEF Requests
<1> HIDE DEF gone
<1>10. PICK m \in 0..MaxRequests : \A r \in Ids : E.req[r].st = "unborn" <=> r > m
  BY DEF Orderly
<1>11. \A r \in Ids : F.req[r].st = "unborn" <=> r > m
  BY <1>4, <1>8, <1>9, <1>10
<1>12. Range(F.order) = {r \in Ids : F.req[r].st = "active"}
  <2>1. ASSUME NEW r \in Ids
        PROVE  r \in Range(F.order) <=> F.req[r].st = "active"
    <3>1. r \in Range(F.order) <=> E.req[r].st = "active" /\ r \notin gone
      BY <1>6, EngineFacts
    <3>2. F.req[r].st = IF r \in gone THEN "gone" ELSE E.req[r].st
      BY <1>4, <1>9
    <3> QED
      BY <3>1, <3>2
  <2> QED
    BY <1>7, <2>1, QueueOf
<1>13. Orderly(F)
  BY <1>7, <1>10, <1>11, <1>12 DEF Orderly
<1> QED
  BY <1>2, <1>4, <1>13 DEF F, gone

\* A request of the queue keeps what it has to emit: what it emits comes off what is left.
LEMMA AdvancedFacts ==
  ASSUME NEW q \in Requests, NEW m \in Nat
  PROVE  LET p == Advanced(q, m)
         IN  /\ p \in Requests /\ p.st \in {"active", "paused", "gone"}
             /\ q.out <= p.out
             /\ p.out + (IF p.st = "active" THEN p.left ELSE 0) = q.out + q.left
             /\ p.hold = q.hold /\ (p.st = "paused" => q.hold) /\ (p.st = "gone" => ~q.hold)
<1> DEFINE e == Emitted(q, m)
           ends == q.chunks = 0 /\ e = q.left
           st == IF ~ends THEN "active" ELSE IF q.hold THEN "paused" ELSE "gone"
           p == Advanced(q, m)
<1>1. /\ q.chunks \in Nat /\ q.left \in Nat /\ q.out \in Nat /\ q.hold \in BOOLEAN
      /\ q = [st |-> q.st, hold |-> q.hold, chunks |-> q.chunks, left |-> q.left, out |-> q.out]
  BY DEF Requests
<1>2. e \in Nat /\ e <= q.left
  BY <1>1 DEF Emitted
<1>3. p = [st |-> st, hold |-> q.hold, chunks |-> IF q.chunks > 0 THEN q.chunks - 1 ELSE 0,
           left |-> q.left - e, out |-> q.out + e]
  <2>1. p = [q EXCEPT !.chunks = IF q.chunks > 0 THEN q.chunks - 1 ELSE 0,
                      !.left = q.left - e, !.out = q.out + e, !.st = st]
    BY DEF Advanced
  <2> HIDE DEF p, e, st
  <2> QED
    BY <1>1, <2>1
<1>4. /\ st \in {"active", "paused", "gone"} /\ (st # "active" => e = q.left)
      /\ (st = "paused" => q.hold) /\ (st = "gone" => ~q.hold)
  OBVIOUS
<1> HIDE DEF e, ends, st
<1>5. /\ p.st = st /\ p.left = q.left - e /\ p.out = q.out + e /\ p.hold = q.hold
      /\ p.chunks = IF q.chunks > 0 THEN q.chunks - 1 ELSE 0
  BY <1>3
<1>6. q.left - e \in Nat /\ q.out + e \in Nat /\ (IF q.chunks > 0 THEN q.chunks - 1 ELSE 0) \in Nat
  BY <1>1, <1>2
<1>7. p \in Requests
  BY <1>1, <1>3, <1>4, <1>6 DEF Requests
<1> HIDE DEF p
<1>8. q.out <= p.out /\ p.out + (IF p.st = "active" THEN p.left ELSE 0) = q.out + q.left
  BY <1>1, <1>2, <1>4, <1>5
<1> QED
  BY <1>4, <1>5, <1>7, <1>8 DEF p

\* What a step does: only requests of the queue emit, each what it is left with at most, and
\* last_emitted has exactly what they emitted.
Served(E, F) ==
  \A r \in Ids :
    /\ E.req[r].st # "active" => F.req[r] = E.req[r] /\ F.last[r] = << >>
    /\ E.req[r].st = "active" =>
         /\ F.req[r].st \in {"active", "paused", "gone"}
         /\ E.req[r].out <= F.req[r].out
         /\ F.last[r] = TokensFrom(E.req[r].out, F.req[r].out - E.req[r].out)
         /\ F.req[r].out + (IF F.req[r].st = "active" THEN F.req[r].left ELSE 0)
              = E.req[r].out + E.req[r].left
         /\ F.req[r].hold = E.req[r].hold
         /\ F.req[r].st = "paused" => E.req[r].hold
         /\ F.req[r].st = "gone" => ~E.req[r].hold

\* A step that does nothing serves nobody.
LEMMA StillFacts ==
  ASSUME NEW E, Orderly(E)
  PROVE  Orderly([E EXCEPT !.last = NothingEmitted]) /\ Served(E, [E EXCEPT !.last = NothingEmitted])
<1> DEFINE F == [E EXCEPT !.last = NothingEmitted]
<1>1. E \in Engines
  BY DEF Orderly
<1>2. E = [req |-> E.req, order |-> E.order, last |-> E.last]
  BY <1>1, EngineFields
<1>3. F = [req |-> E.req, order |-> E.order, last |-> NothingEmitted]
  BY <1>2
<1>4. NothingEmitted \in [Ids -> Seq(Nat)]
  BY DEF NothingEmitted
<1> HIDE DEF F
<1>5. F.req = E.req /\ F.order = E.order /\ F.last = NothingEmitted
  BY <1>3
<1>6. F \in Engines
  BY <1>1, <1>3, <1>4 DEF Engines
<1>7. Orderly(F)
  BY <1>5, <1>6 DEF Orderly
<1>8. ASSUME NEW r \in Ids
      PROVE  F.last[r] = << >> /\ << >> = TokensFrom(E.req[r].out, F.req[r].out - E.req[r].out)
  <2>1. E.req[r].out \in Nat /\ F.req[r].out - E.req[r].out = 0
    BY <1>5, EngineFacts
  <2> QED
    BY <1>5, <2>1 DEF NothingEmitted, TokensFrom
<1>9. Served(E, F)
  BY <1>5, <1>8, EngineFacts DEF Served
<1> QED
  BY <1>7, <1>9 DEF F

\* One step that schedules the requests S.
LEMMA SteppedFacts ==
  ASSUME NEW E, Orderly(E), NEW S \in SUBSET Range(E.order), NEW n \in [S -> 1..MaxEmit]
  PROVE  Orderly(Stepped(E, S, n)) /\ Served(E, Stepped(E, S, n))
<1> DEFINE req == [r \in Ids |-> IF r \in S THEN Advanced(E.req[r], n[r]) ELSE E.req[r]]
           order == Kept(E.order, {r \in Ids : req[r].st = "active"})
           last == [r \in Ids |->
                      IF r \notin S THEN << >>
                      ELSE [i \in 1..(req[r].out - E.req[r].out) |-> E.req[r].out + i]]
           F == Stepped(E, S, n)
<1>1. F = [req |-> req, order |-> order, last |-> last]
  BY DEF Stepped
<1>2. \A r \in S : r \in Ids /\ E.req[r].st = "active" /\ n[r] \in Nat
  BY EngineFacts, StepEngineAssumption DEF Orderly
<1>3. ASSUME NEW r \in S
      PROVE  /\ req[r] \in Requests /\ req[r].st \in {"active", "paused", "gone"}
             /\ E.req[r].out <= req[r].out
             /\ req[r].out + (IF req[r].st = "active" THEN req[r].left ELSE 0) = E.req[r].out + E.req[r].left
             /\ req[r].hold = E.req[r].hold
             /\ req[r].st = "paused" => E.req[r].hold
             /\ req[r].st = "gone" => ~E.req[r].hold
  <2>1. req[r] = Advanced(E.req[r], n[r]) /\ E.req[r] \in Requests /\ n[r] \in Nat
    BY <1>2, EngineFacts
  <2> HIDE DEF req
  <2> QED
    BY <2>1, AdvancedFacts, SMTT(30)
<1>4. \A r \in Ids : r \notin S => req[r] = E.req[r]
  OBVIOUS
<1>5. req \in [Ids -> Requests]
  <2>1. \A r \in Ids : req[r] \in Requests
    <3> HIDE DEF req
    <3> QED
      BY <1>3, <1>4, EngineFacts
  <2> QED
    BY <2>1
<1> HIDE DEF req
<1>6. order \in Seq(Ids) /\ Range(order) = Range(E.order) \intersect {r \in Ids : req[r].st = "active"}
  BY EngineFacts, KeptFacts
<1>7. \A r \in Ids : last[r] = IF r \notin S THEN << >>
                               ELSE TokensFrom(E.req[r].out, req[r].out - E.req[r].out)
  BY DEF TokensFrom
<1>8. last \in [Ids -> Seq(Nat)]
  <2>1. ASSUME NEW r \in Ids
        PROVE  last[r] \in Seq(Nat)
    <3>1. CASE r \in S
      <4>1. req[r].out \in Nat /\ E.req[r].out \in Nat /\ E.req[r].out <= req[r].out
        BY <1>3, <1>5, <3>1, EngineFacts DEF Requests
      <4>2. req[r].out - E.req[r].out \in Nat
        BY <4>1
      <4>3. TokensFrom(E.req[r].out, req[r].out - E.req[r].out) \in Seq(Nat)
        BY <4>1, <4>2, IsASeq DEF TokensFrom
      <4> HIDE DEF last
      <4> QED
        BY <1>7, <3>1, <4>3
    <3>2. CASE r \notin S
      BY <3>2
    <3> QED
      BY <3>1, <3>2
  <2> QED
    BY <2>1
<1> HIDE DEF last, order
<1>9. F.req = req /\ F.order = order /\ F.last = last /\ F \in Engines
  BY <1>1, <1>5, <1>6, <1>8 DEF Engines
<1> HIDE DEF F
<1>10. Served(E, F)
  <2>1. ASSUME NEW r \in Ids, E.req[r].st = "active", r \notin S
        PROVE  last[r] = TokensFrom(E.req[r].out, req[r].out - E.req[r].out)
    <3>1. req[r].out - E.req[r].out = 0
      BY <1>4, <2>1, EngineFacts
    <3>2. TokensFrom(E.req[r].out, 0) = << >>
      BY DEF TokensFrom
    <3> QED
      BY <1>7, <2>1, <3>1, <3>2
  <2>2. ASSUME NEW r \in Ids, E.req[r].st = "active"
        PROVE  /\ req[r].st \in {"active", "paused", "gone"}
               /\ E.req[r].out <= req[r].out
               /\ last[r] = TokensFrom(E.req[r].out, req[r].out - E.req[r].out)
               /\ req[r].out + (IF req[r].st = "active" THEN req[r].left ELSE 0) = E.req[r].out + E.req[r].left
               /\ req[r].hold = E.req[r].hold
               /\ req[r].st = "paused" => E.req[r].hold
               /\ req[r].st = "gone" => ~E.req[r].hold
    <3>1. CASE r \in S
      BY <1>3, <1>7, <3>1
    <3>2. CASE r \notin S
      BY <1>4, <2>1, <2>2, <3>2, EngineFacts
    <3> QED
      BY <3>1, <3>2
  <2>3. ASSUME NEW r \in Ids, E.req[r].st # "active"
        PROVE  req[r] = E.req[r] /\ last[r] = << >>
    BY <1>2, <1>4, <1>7, <2>3
  <2> QED
    BY <1>9, <2>2, <2>3 DEF Served
<1>11. PICK m \in 0..MaxRequests : \A r \in Ids : E.req[r].st = "unborn" <=> r > m
  BY DEF Orderly
<1>12. \A r \in Ids : F.req[r].st = "unborn" <=> r > m
  BY <1>2, <1>3, <1>4, <1>9, <1>11
<1>13. Range(F.order) = {r \in Ids : F.req[r].st = "active"}
  <2>1. \A r \in Ids : r \in Range(F.order) <=> F.req[r].st = "active"
    BY <1>2, <1>4, <1>6, <1>9, EngineFacts
  <2> QED
    BY <1>9, <2>1, QueueOf
<1>14. Orderly(F)
  BY <1>9, <1>11, <1>12, <1>13 DEF Orderly
<1> QED
  BY <1>10, <1>14 DEF F

\* Any step, one that raises included.
LEMMA StepFacts ==
  ASSUME NEW E, Orderly(E), NEW F \in Steps(E) \union FailedSteps(E)
  PROVE  Orderly(F) /\ Served(E, F)
<1>1. CASE F = [E EXCEPT !.last = NothingEmitted]
  BY <1>1, StillFacts
<1>2. CASE \E S \in SUBSET Range(E.order) : \E n \in [S -> 1..MaxEmit] : F = Stepped(E, S, n)
  BY <1>2, SteppedFacts
<1>3. \/ F = [E EXCEPT !.last = NothingEmitted]
      \/ \E S \in SUBSET Range(E.order) : \E n \in [S -> 1..MaxEmit] : F = Stepped(E, S, n)
  <2> HIDE DEF Stepped
  <2> QED
    BY DEF Steps, FailedSteps
<1> QED
  BY <1>1, <1>2, <1>3

\* The tokens of two steps in a row.
LEMMA TokensFacts ==
  ASSUME NEW a \in Nat, NEW m \in Nat, NEW k \in Nat
  PROVE  /\ TokensFrom(a, m) \in Seq(Nat) /\ TokensFrom(a, 0) = << >>
         /\ TokensFrom(a, m) \o TokensFrom(a + m, k) = TokensFrom(a, m + k)
<1>1. TokensFrom(a, m) \in Seq(Nat) /\ Len(TokensFrom(a, m)) = m
  BY IsASeq DEF TokensFrom
<1>2. TokensFrom(a + m, k) \in Seq(Nat) /\ Len(TokensFrom(a + m, k)) = k
  BY IsASeq DEF TokensFrom
<1>3. TokensFrom(a, m + k) \in Seq(Nat) /\ Len(TokensFrom(a, m + k)) = m + k
  BY IsASeq DEF TokensFrom
<1>4. /\ \A i \in 1..m : TokensFrom(a, m)[i] = a + i
      /\ \A i \in 1..k : TokensFrom(a + m, k)[i] = a + m + i
      /\ \A i \in 1..m + k : TokensFrom(a, m + k)[i] = a + i
      /\ TokensFrom(a, 0) = << >>
  BY DEF TokensFrom
<1> DEFINE s == TokensFrom(a, m)
           t == TokensFrom(a + m, k)
           u == TokensFrom(a, m + k)
<1> HIDE DEF s, t, u
<1>5. /\ s \o t \in Seq(Nat) /\ Len(s \o t) = m + k
      /\ \A i \in 1..m + k : (s \o t)[i] = IF i <= m THEN s[i] ELSE t[i - m]
  <2>1. s \in Seq(Nat) /\ t \in Seq(Nat) /\ Len(s) = m /\ Len(t) = k
    BY <1>1, <1>2 DEF s, t
  <2> QED
    BY <2>1, ConcatProperties
<1>6. ASSUME NEW i \in 1..m + k
      PROVE  (s \o t)[i] = u[i]
  <2>1. CASE i <= m
    <3>1. i \in 1..m
      BY <2>1
    <3> QED
      BY <1>4, <1>5, <2>1, <3>1 DEF s, u
  <2>2. CASE ~(i <= m)
    <3>1. i - m \in 1..k /\ a + m + (i - m) = a + i
      BY <2>2
    <3>2. t[i - m] = a + m + (i - m) /\ u[i] = a + i
      BY <1>4, <3>1 DEF t, u
    <3> QED
      BY <1>5, <2>2, <3>1, <3>2
  <2> QED
    BY <2>1, <2>2
<1>7. s \o t = u
  BY <1>3, <1>5, <1>6, SeqEqual DEF u
<1> QED
  BY <1>1, <1>4, <1>7 DEF s, t, u

\* What a turn is owed after a step, the tokens of the step included.
LEMMA OwedServed ==
  ASSUME NEW E, NEW F, Orderly(E), Orderly(F), Served(E, F), NEW r \in Ids,
         NEW c, c.from \in Nat, c.want \in Nat, NEW t, Owed(c, E.req[r], t)
  PROVE  Owed(c, F.req[r], t \o F.last[r])
<1> DEFINE q == E.req[r]
           p == F.req[r]
<1>1. /\ c.from \in Nat /\ c.want \in Nat /\ q.out \in Nat /\ q.left \in Nat
      /\ p.out \in Nat /\ p.left \in Nat
  BY EngineFacts
<1>2. /\ c.from <= q.out /\ t = TokensFrom(c.from, q.out - c.from)
      /\ q.out + (IF q.st = "active" THEN q.left ELSE 0) = c.from + c.want
  BY DEF Owed
<1>3. q.out - c.from \in Nat
  BY <1>1, <1>2
<1>4. CASE q.st # "active"
  <2>1. p = q /\ F.last[r] = << >>
    BY <1>4 DEF Served
  <2>2. t \in Seq(Nat)
    BY <1>1, <1>2, <1>3, TokensFacts
  <2>3. t \o << >> = t
    BY <2>2, ConcatEmptySeq
  <2> QED
    BY <2>1, <2>3
<1>5. CASE q.st = "active"
  <2>1. /\ q.out <= p.out
        /\ F.last[r] = TokensFrom(q.out, p.out - q.out)
        /\ p.out + (IF p.st = "active" THEN p.left ELSE 0) = q.out + q.left
    BY <1>5 DEF Served
  <2> HIDE DEF q, p
  <2>2. p.out - q.out \in Nat /\ c.from <= p.out
    BY <1>1, <1>2, <2>1
  <2>3. PICK a \in Nat : a = q.out - c.from
    BY <1>3
  <2>4. PICK k \in Nat : k = p.out - q.out
    BY <2>2
  <2>5. q.out = c.from + a /\ p.out - c.from = a + k
    BY <1>1, <2>3, <2>4
  <2>6. TokensFrom(c.from, a) \o TokensFrom(c.from + a, k) = TokensFrom(c.from, a + k)
    BY ZenonT(60), <1>1, TokensFacts
  <2>7. t \o F.last[r] = TokensFrom(c.from, p.out - c.from)
    BY <1>2, <2>1, <2>3, <2>4, <2>5, <2>6
  <2>8. p.out + (IF p.st = "active" THEN p.left ELSE 0) = c.from + c.want
    BY <1>2, <1>5, <2>1
  <2> QED
    BY <2>2, <2>7, <2>8 DEF Owed, p
<1> QED
  BY <1>4, <1>5

---------------------------------------------------------------------------
(* The queue of submissions. *)

\* A submission put on a queue that does not have it is queued once.
LEMMA QueueGrows ==
  ASSUME NEW D, NEW s \in Seq(D), IsInjective(s), NEW x \in D, x \notin Range(s)
  PROVE  /\ Append(s, x) \in Seq(D) /\ IsInjective(Append(s, x))
         /\ Range(Append(s, x)) = Range(s) \union {x}
<1>1. /\ Append(s, x) \in Seq(D) /\ Len(Append(s, x)) = Len(s) + 1
      /\ \A i \in 1..Len(s) : Append(s, x)[i] = s[i]
      /\ Append(s, x)[Len(s) + 1] = x
  BY AppendProperties
<1>2. DOMAIN s = 1..Len(s) /\ DOMAIN Append(s, x) = 1..Len(s) + 1 /\ Len(s) \in Nat
  BY <1>1, LenProperties
<1>3. \A i \in 1..Len(s) : s[i] # x
  BY <1>2 DEF Range
<1>4. IsInjective(Append(s, x))
  <2> SUFFICES ASSUME NEW i \in 1..Len(s) + 1, NEW j \in 1..Len(s) + 1, Append(s, x)[i] = Append(s, x)[j]
               PROVE  i = j
    BY <1>2 DEF IsInjective
  <2>1. \A k \in 1..Len(s) + 1 : k \in 1..Len(s) \/ k = Len(s) + 1
    BY <1>2
  <2> QED
    BY <1>1, <1>2, <1>3, <2>1 DEF IsInjective
<1> QED
  BY <1>1, <1>4, AppendFacts

\* The submission taken off a queue is not queued any more, and the others are.
LEMMA QueueShrinks ==
  ASSUME NEW D, NEW s \in Seq(D), IsInjective(s), s # << >>
  PROVE  /\ Tail(s) \in Seq(D) /\ IsInjective(Tail(s))
         /\ Head(s) \in D /\ Head(s) \in Range(s)
         /\ Range(Tail(s)) = Range(s) \ {Head(s)}
<1>1. /\ Head(s) \in D /\ Tail(s) \in Seq(D) /\ Len(Tail(s)) = Len(s) - 1
      /\ \A i \in 1..Len(Tail(s)) : Tail(s)[i] = s[i + 1]
  BY HeadTailProperties
<1>2. /\ Len(s) \in Nat /\ Len(s) # 0 /\ DOMAIN s = 1..Len(s) /\ DOMAIN Tail(s) = 1..Len(s) - 1
  BY <1>1, LenProperties, EmptySeq
<1>3. Head(s) = s[1] /\ 1 \in 1..Len(s)
  BY <1>2
<1>4. \A i \in 1..Len(s) - 1 : i + 1 \in 1..Len(s) /\ i + 1 # 1 /\ Tail(s)[i] = s[i + 1]
  BY <1>1, <1>2
<1>5. IsInjective(Tail(s))
  <2> SUFFICES ASSUME NEW i \in 1..Len(s) - 1, NEW j \in 1..Len(s) - 1, Tail(s)[i] = Tail(s)[j]
               PROVE  i = j
    BY <1>2 DEF IsInjective
  <2>1. i + 1 = j + 1
    BY <1>2, <1>4 DEF IsInjective
  <2> QED
    BY <1>2, <2>1
<1>6. Range(Tail(s)) \subseteq Range(s) \ {Head(s)}
  BY <1>2, <1>3, <1>4 DEF Range, IsInjective
<1>7. ASSUME NEW i \in 1..Len(s), s[i] # Head(s)
      PROVE  s[i] \in Range(Tail(s))
  <2>1. i - 1 \in 1..Len(s) - 1 /\ i - 1 + 1 = i
    BY <1>2, <1>3, <1>7
  <2> QED
    BY <1>2, <1>4, <2>1 DEF Range
<1>8. Range(s) \ {Head(s)} \subseteq Range(Tail(s)) /\ Head(s) \in Range(s)
  <2>1. Range(s) = {s[i] : i \in 1..Len(s)}
    BY <1>2 DEF Range
  <2> QED
    BY <1>3, <1>7, <2>1
<1> QED
  BY <1>1, <1>5, <1>6, <1>8

---------------------------------------------------------------------------
(* What the actions of the rollout server leave alone. *)

\* A chat that does not wait, or no longer has to, is nobody's business.
LEMMA NotWaiting ==
  ASSUME ChatsOK, WaitersOK, PendingOK, NEW c \in Chats,
         chat[c].pc \notin {"wait", "timeout"} \/ (chat[c].pc = "wait" /\ chat[c].set)
  PROVE  c \notin Range(pending) /\ adding # c /\ \A r \in Ids : waiters[r] # c
<1>1. c # NoChat
  BY RolloutServerAssumption
<1>2. \A r \in Ids : ~WaiterOf(c, r)
  BY DEF WaiterOf
<1>3. adding # c /\ \A r \in Ids : waiters[r] # c
  BY <1>1, <1>2 DEF WaitersOK
<1> QED
  BY <1>3 DEF PendingOK

\* The phases of the engine thread that waiters depend on.
StepPhase == \A p \in {"harvest", "fail"} : loop' = p <=> loop = p
SamePhase == \A p \in {"reg", "harvest", "fail"} : loop' = p <=> loop = p

\* What a waiter depends on stays, or its handler leaves.
LEMMA WaiterFrame ==
  ASSUME NEW d \in Chats, NEW r \in Ids, WaiterOf(d, r), StepPhase,
         engine'.req[r] = engine.req[r], engine'.last[r] = engine.last[r],
         chat'[d] = chat[d] \/ (chat'[d].pc = "timeout" /\ chat'[d].rid = chat[d].rid)
  PROVE  WaiterOf(d, r)'
<1>1. /\ loop' \in {"harvest", "fail"} <=> loop \in {"harvest", "fail"}
      /\ loop' = "fail" <=> loop = "fail"
      /\ loop' = "harvest" <=> loop = "harvest"
  BY DEF StepPhase
<1>2. CASE chat'[d] = chat[d]
  BY <1>1, <1>2 DEF WaiterOf, Owed
<1>3. CASE chat'[d].pc = "timeout" /\ chat'[d].rid = chat[d].rid
  BY <1>1, <1>3 DEF WaiterOf
<1> QED
  BY <1>2, <1>3

\* The waiters stay owed what they are owed when neither their requests nor they change.
LEMMA WaitersFrame ==
  ASSUME ChatsOK, WaitersOK, SamePhase, adding' = adding,
         waiters' \in [Ids -> Chats \union {NoChat}],
         \A r \in Ids : waiters'[r] # NoChat => waiters'[r] = waiters[r],
         \A r \in Ids, d \in Chats :
           waiters'[r] = d \/ (adding = d /\ chat[d].rid = r) =>
             /\ engine'.req[r] = engine.req[r] /\ engine'.last[r] = engine.last[r]
             /\ chat'[d] = chat[d] \/ (chat'[d].pc = "timeout" /\ chat'[d].rid = chat[d].rid)
  PROVE  WaitersOK'
<1> StepPhase
  BY DEF StepPhase, SamePhase
<1>1. ASSUME NEW r \in Ids, waiters'[r] # NoChat
      PROVE  WaiterOf(waiters[r], r)' /\ adding' # waiters'[r]
  <2>1. waiters[r] = waiters'[r] /\ waiters[r] # NoChat /\ waiters[r] \in Chats
    BY <1>1 DEF WaitersOK
  <2>2. PICK d \in Chats : d = waiters[r]
    BY <2>1
  <2>3. WaiterOf(d, r) /\ adding # d
    BY <2>1, <2>2 DEF WaitersOK
  <2>4. WaiterOf(d, r)'
    BY <2>1, <2>2, <2>3, WaiterFrame
  <2> QED
    BY <2>1, <2>2, <2>3, <2>4
<1>2. ASSUME adding # NoChat
      PROVE  /\ chat'[adding].rid \in Ids
             /\ WaiterOf(adding, chat[adding].rid)'
             /\ waiters'[chat'[adding].rid] = NoChat
  <2>1. PICK d \in Chats : d = adding
    BY <1>2 DEF WaitersOK
  <2>2. PICK r \in Ids : r = chat[d].rid
    BY <1>2, <2>1 DEF WaitersOK
  <2>3. WaiterOf(d, r) /\ waiters[r] = NoChat
    BY <1>2, <2>1, <2>2 DEF WaitersOK
  <2>4. WaiterOf(d, r)' /\ chat'[d].rid = r
    BY <2>1, <2>2, <2>3, WaiterFrame
  <2>5. waiters'[r] = NoChat
    BY <2>3
  <2> QED
    BY <2>1, <2>4, <2>5
<1>3. adding' # NoChat <=> loop' = "reg"
  BY DEF WaitersOK, SamePhase
<1> QED
  BY <1>1, <1>2, <1>3 DEF WaitersOK

\* The queue loses members only and no member's chat changes, except that a handler leaves.
LEMMA PendingFrame ==
  ASSUME PendingOK, pending' \in Seq(Chats \union Resets), IsInjective(pending'),
         Range(pending') \subseteq Range(pending),
         \A c \in Chats \intersect Range(pending') :
           /\ chat'[c] = chat[c] \/ (chat'[c].pc = "timeout" /\ ~chat'[c].set /\ chat'[c].toks = << >>)
           /\ adding' # c
           /\ \A r \in Ids : waiters'[r] # c,
         \A h \in Resets \intersect Range(pending') : reset'[h].pc = reset[h].pc
  PROVE  PendingOK'
<1>1. \A c \in Chats \intersect Range(pending') :
        /\ chat'[c].pc \in {"wait", "timeout"}
        /\ ~chat'[c].set /\ chat'[c].toks = << >>
  BY DEF PendingOK
<1>2. \A h \in Resets \intersect Range(pending') : reset'[h].pc = "wait"
  BY DEF PendingOK
<1> QED
  BY <1>1, <1>2 DEF PendingOK

\* A handler that nothing happens to.
LEMMA HandlerFrame ==
  ASSUME NEW d \in Chats, HandlerOK(d), chat'[d] = chat[d],
         chat[d].pc = "wait" /\ ~chat[d].set /\ Awaited(d) => Awaited(d)'
  PROVE  HandlerOK(d)'
BY DEF HandlerOK, WholeTurn

---------------------------------------------------------------------------
(* The handlers of the rollout server. *)

\* One chat changes.
LEMMA OneChat ==
  ASSUME ChatsOK, NEW c \in Chats, NEW x \in ChatType, chat' = [chat EXCEPT ![c] = x]
  PROVE  /\ chat' \in [Chats -> ChatType] /\ chat'[c] = x
         /\ \A d \in Chats : d # c => chat'[d] = chat[d]
BY DEF ChatsOK

\* An ended chat.
LEMMA EndedFacts ==
  ASSUME ChatsOK, NEW c \in Chats, NEW how \in {"done", "error", "timeout"}
  PROVE  /\ Ended(c, how) \in ChatType
         /\ Ended(c, how).pc = how /\ Ended(c, how).toks = << >> /\ ~Ended(c, how).set
         /\ Ended(c, how).rid = IF how = "timeout" THEN chat[c].rid ELSE 0
         /\ Ended(c, how).cut = chat[c].cut
         /\ Ended(c, how).exact <=> how = "done" /\ chat[c].toks = WholeTurn(c)
<1>1. chat[c] \in ChatType
  BY DEF ChatsOK
<1>2. /\ chat[c].key \in Keys \union {All} /\ chat[c].rid \in Ids \union {0} /\ chat[c].cut \in BOOLEAN
  BY <1>1 DEF ChatType
<1> DEFINE whole == how = "done" /\ chat[c].toks = WholeTurn(c)
<1>3. Ended(c, how) = [pc |-> how, key |-> IF how = "timeout" THEN chat[c].key ELSE All,
                       rid |-> IF how = "timeout" THEN chat[c].rid ELSE 0, toks |-> << >>,
                       set |-> FALSE, err |-> FALSE, cut |-> chat[c].cut, exact |-> whole,
                       from |-> 0, want |-> 0]
  <2>1. Ended(c, how) = [NewChat EXCEPT !.pc = how, !.key = IF how = "timeout" THEN chat[c].key ELSE All,
                                        !.rid = IF how = "timeout" THEN chat[c].rid ELSE 0,
                                        !.cut = chat[c].cut, !.exact = whole]
    BY DEF Ended
  <2> HIDE DEF whole
  <2> QED
    BY <2>1 DEF NewChat
<1>4. whole \in BOOLEAN /\ << >> \in Seq(Nat) /\ how \in Places
  BY DEF Places
<1> HIDE DEF whole
<1>5. Ended(c, how) \in ChatType
  BY <1>2, <1>3, <1>4 DEF ChatType
<1>6. /\ Ended(c, how).pc = how /\ Ended(c, how).toks = << >> /\ ~Ended(c, how).set
      /\ Ended(c, how).rid = IF how = "timeout" THEN chat[c].rid ELSE 0
      /\ Ended(c, how).cut = chat[c].cut /\ Ended(c, how).exact = whole
  BY <1>3
<1> QED
  BY <1>5, <1>6 DEF whole

\* What stays as it is in every action of a handler.
LEMMA HandlerAction ==
  ASSUME ServerInv, NEW c \in Chats, NEW x \in ChatType, chat' = [chat EXCEPT ![c] = x],
         SamePhase, loop' \in {loop, "top"}, loop' = "off" => x.pc = "ensure",
         UNCHANGED <<engine, sessions, reset, waiters, adding>>,
         \/ pending' = pending
         \/ pending' = Append(pending, c) /\ chat[c].pc = "enqueue" /\ x.pc = "wait" /\ ~x.set /\ x.toks = << >>,
         \/ chat[c].pc \notin {"wait", "timeout"}
         \/ chat[c].pc = "wait" /\ chat[c].set
         \/ x.pc = "timeout" /\ x.rid = chat[c].rid /\ ~x.set /\ x.toks = << >>,
         x.pc = "done" => x.exact \/ x.cut,
         HandlerOK(c)'
  PROVE  ServerInv'
<1>1. /\ chat' \in [Chats -> ChatType] /\ chat'[c] = x
      /\ \A d \in Chats : d # c => chat'[d] = chat[d]
  BY OneChat DEF ServerInv
<1>2. ChatsOK'
  BY <1>1 DEF ServerInv, ChatsOK
<1>3. AnswersWhole'
  BY <1>1 DEF ServerInv, AnswersWhole
<1>4. \/ c \notin Range(pending) /\ adding # c /\ \A r \in Ids : waiters[r] # c
      \/ x.pc = "timeout" /\ x.rid = chat[c].rid /\ ~x.set /\ x.toks = << >>
  BY NotWaiting DEF ServerInv
<1>5. WaitersOK'
  <2>1. \A r \in Ids, d \in Chats :
          waiters'[r] = d \/ (adding = d /\ chat[d].rid = r) =>
            /\ engine'.req[r] = engine.req[r] /\ engine'.last[r] = engine.last[r]
            /\ chat'[d] = chat[d] \/ (chat'[d].pc = "timeout" /\ chat'[d].rid = chat[d].rid)
    BY <1>1, <1>4
  <2>2. ChatsOK /\ WaitersOK /\ waiters \in [Ids -> Chats \union {NoChat}]
    BY DEF ServerInv, WaitersOK
  <2> QED
    BY <2>1, <2>2, WaitersFrame
<1>6. /\ pending' \in Seq(Chats \union Resets) /\ IsInjective(pending')
      /\ Range(pending) \subseteq Range(pending')
  <2>1. pending \in Seq(Chats \union Resets) /\ IsInjective(pending)
    BY DEF ServerInv, PendingOK
  <2>2. CASE pending' = pending
    BY <2>1, <2>2
  <2>3. CASE pending' = Append(pending, c) /\ chat[c].pc = "enqueue"
    <3>1. c \notin Range(pending)
      BY <2>3, NotWaiting DEF ServerInv
    <3>2. c \in Chats \union Resets
      OBVIOUS
    <3> QED
      BY <2>1, <2>3, <3>1, <3>2, QueueGrows
  <2> QED
    BY <2>2, <2>3
<1>7. PendingOK'
  <2>1. CASE pending' = pending
    <3>1. \A d \in Chats \intersect Range(pending') :
             /\ chat'[d] = chat[d] \/ (chat'[d].pc = "timeout" /\ ~chat'[d].set /\ chat'[d].toks = << >>)
             /\ adding' # d
             /\ \A r \in Ids : waiters'[r] # d
      BY <1>1, <1>4, <2>1 DEF ServerInv, PendingOK
    <3> QED
      BY <1>6, <2>1, <3>1, PendingFrame DEF ServerInv
  <2>2. CASE pending' = Append(pending, c) /\ chat[c].pc = "enqueue" /\ x.pc = "wait" /\ ~x.set /\ x.toks = << >>
    <3>1. c \notin Range(pending) /\ adding # c /\ \A r \in Ids : waiters[r] # c
      BY <2>2, NotWaiting DEF ServerInv
    <3>2. pending \in Seq(Chats \union Resets) /\ IsInjective(pending)
      BY DEF ServerInv, PendingOK
    <3>3. c \in Chats \union Resets /\ c \notin Resets
      BY FrontEndAssumption
    <3>4. Range(pending') = Range(pending) \union {c}
      BY <2>2, <3>1, <3>2, <3>3, QueueGrows
    <3>5. ASSUME NEW d \in Chats \intersect Range(pending')
          PROVE  /\ chat'[d].pc \in {"wait", "timeout"}
                 /\ ~chat'[d].set /\ chat'[d].toks = << >>
                 /\ adding' # d
                 /\ \A r \in Ids : waiters'[r] # d
      BY <1>1, <2>2, <3>1, <3>4 DEF ServerInv, PendingOK
    <3>6. \A h \in Resets \intersect Range(pending') : reset'[h].pc = "wait"
      BY <3>3, <3>4 DEF ServerInv, PendingOK
    <3> QED
      BY <1>6, <3>5, <3>6 DEF PendingOK
  <2> QED
    BY <2>1, <2>2
<1>8. \A d \in Chats : HandlerOK(d)'
  <2>1. ASSUME NEW d \in Chats, d # c
        PROVE  HandlerOK(d)'
    <3>1. HandlerOK(d) /\ chat'[d] = chat[d]
      BY <1>1, <2>1 DEF ServerInv
    <3>2. Awaited(d) => Awaited(d)'
      BY <1>6, <3>1 DEF Awaited
    <3> QED
      BY <3>1, <3>2, HandlerFrame
  <2> QED
    BY <2>1
<1>9. OffOK'
  <2> SUFFICES ASSUME loop' = "off"
               PROVE  OffOK'
    BY DEF OffOK
  <2>1. loop = "off" /\ x.pc = "ensure"
    OBVIOUS
  <2>2. OffOK
    BY DEF ServerInv
  <2>3. pending' = pending
    BY <2>1
  <2> QED
    BY <1>1, <2>1, <2>2, <2>3 DEF OffOK
<1>10. loop' \in {"off", "top", "drain", "reg", "step", "harvest", "fail"} /\ Orderly(engine')
  BY DEF ServerInv
<1>11. Orderly(engine)'
  BY <1>10
<1> QED
  BY <1>2, <1>3, <1>5, <1>7, <1>8, <1>9, <1>10, <1>11 DEF ServerInv

\* The fields of a chat.
LEMMA ChatFields ==
  ASSUME NEW q \in ChatType
  PROVE  /\ q = [pc |-> q.pc, key |-> q.key, rid |-> q.rid, toks |-> q.toks, set |-> q.set,
                 err |-> q.err, cut |-> q.cut, exact |-> q.exact, from |-> q.from, want |-> q.want]
         /\ q.pc \in Places /\ q.key \in Keys \union {All} /\ q.rid \in Ids \union {0}
         /\ q.toks \in Seq(Nat) /\ q.set \in BOOLEAN /\ q.err \in BOOLEAN
         /\ q.cut \in BOOLEAN /\ q.exact \in BOOLEAN /\ q.from \in Nat /\ q.want \in Nat
BY DEF ChatType

\* A chat that moves on to p, and one for the session k.
Moved(q, p) == [q EXCEPT !.pc = p]
Keyed(q, k) == [q EXCEPT !.key = k]

\* A chat that moves on keeps what it has.
LEMMA MovedChat ==
  ASSUME NEW q \in ChatType, NEW p \in Places
  PROVE  /\ Moved(q, p) \in ChatType /\ Moved(q, p).pc = p
         /\ Moved(q, p).toks = q.toks /\ Moved(q, p).set = q.set /\ Moved(q, p).rid = q.rid
         /\ Moved(q, p).from = q.from /\ Moved(q, p).want = q.want
<1>1. q = [pc |-> q.pc, key |-> q.key, rid |-> q.rid, toks |-> q.toks, set |-> q.set,
           err |-> q.err, cut |-> q.cut, exact |-> q.exact, from |-> q.from, want |-> q.want]
  BY ChatFields
<1>2. Moved(q, p) =
        [pc |-> p, key |-> q.key, rid |-> q.rid, toks |-> q.toks, set |-> q.set,
         err |-> q.err, cut |-> q.cut, exact |-> q.exact, from |-> q.from, want |-> q.want]
  BY <1>1 DEF Moved
<1> QED
  BY <1>2, ChatFields DEF ChatType

\* A chat that gets its session keeps what it has.
LEMMA KeyedChat ==
  ASSUME NEW q \in ChatType, NEW k \in Keys \union {All}
  PROVE  /\ Keyed(q, k) \in ChatType /\ Keyed(q, k).pc = q.pc /\ Keyed(q, k).key = k
         /\ Keyed(q, k).toks = q.toks /\ Keyed(q, k).set = q.set
<1>1. q = [pc |-> q.pc, key |-> q.key, rid |-> q.rid, toks |-> q.toks, set |-> q.set,
           err |-> q.err, cut |-> q.cut, exact |-> q.exact, from |-> q.from, want |-> q.want]
  BY ChatFields
<1>2. Keyed(q, k) =
        [pc |-> q.pc, key |-> k, rid |-> q.rid, toks |-> q.toks, set |-> q.set,
         err |-> q.err, cut |-> q.cut, exact |-> q.exact, from |-> q.from, want |-> q.want]
  BY <1>1 DEF Keyed
<1> QED
  BY <1>2, ChatFields DEF ChatType

\* A chat that arrives at the rollout server keeps its invariant.
LEMMA ChatArrivesKeeps ==
  ASSUME ServerInv, NEW c \in Chats, ChatArrives(c)
  PROVE  ServerInv'
<1>1. PICK k \in Keys : chat' = [chat EXCEPT ![c].pc = "ensure", ![c].key = k]
  BY DEF ChatArrives
<1> DEFINE x == Keyed(Moved(chat[c], "ensure"), k)
<1>2. chat[c] \in ChatType /\ chat[c].pc = "idle" /\ HandlerOK(c)
  BY DEF ServerInv, ChatsOK, ChatArrives
<1>3. x \in ChatType /\ x.pc = "ensure" /\ x.toks = chat[c].toks /\ x.set = chat[c].set
  <2>1. "ensure" \in Places /\ k \in Keys \union {All}
    BY DEF Places
  <2> QED
    BY <1>2, <2>1, MovedChat, KeyedChat
<1>4. chat' = [chat EXCEPT ![c] = x]
  BY <1>1 DEF Moved, Keyed
<1> HIDE DEF x
<1>5. chat'[c] = x
  BY <1>3, <1>4, OneChat DEF ServerInv
<1>6. HandlerOK(c)'
  BY <1>2, <1>3, <1>5 DEF HandlerOK
<1>7. UNCHANGED <<engine, sessions, reset, waiters, adding, loop, pending>>
  BY DEF ChatArrives, serverVars
<1>8. SamePhase /\ loop' \in {loop, "top"}
  BY <1>7 DEF SamePhase
<1> QED
  BY <1>2, <1>3, <1>4, <1>6, <1>7, <1>8, HandlerAction

\* So does the handler that starts the engine thread ...
LEMMA EnsureEngineLoopKeeps ==
  ASSUME ServerInv, NEW c \in Chats, EnsureEngineLoop(c)
  PROVE  ServerInv'
<1> DEFINE x == Moved(chat[c], "enqueue")
<1>1. chat[c] \in ChatType /\ chat[c].pc = "ensure" /\ HandlerOK(c)
  BY DEF ServerInv, ChatsOK, EnsureEngineLoop
<1>2. x \in ChatType /\ x.pc = "enqueue" /\ x.toks = chat[c].toks /\ x.set = chat[c].set
  <2>1. "enqueue" \in Places
    BY DEF Places
  <2> QED
    BY <1>1, <2>1, MovedChat
<1>3. chat' = [chat EXCEPT ![c] = x]
  BY DEF EnsureEngineLoop, Moved
<1> HIDE DEF x
<1>4. chat'[c] = x
  BY <1>2, <1>3, OneChat DEF ServerInv
<1>5. HandlerOK(c)'
  BY <1>1, <1>2, <1>4 DEF HandlerOK
<1>6. /\ UNCHANGED <<engine, sessions, reset, waiters, adding, pending>>
      /\ loop' = IF loop = "off" THEN "top" ELSE loop
  BY DEF EnsureEngineLoop
<1>7. SamePhase /\ loop' \in {loop, "top"} /\ loop' # "off"
  BY <1>6 DEF SamePhase
<1> QED
  BY <1>1, <1>2, <1>3, <1>5, <1>6, <1>7, HandlerAction

\* ... the one that queues its submission ...
LEMMA EnqueueKeeps ==
  ASSUME ServerInv, NEW c \in Chats, Enqueue(c)
  PROVE  ServerInv'
<1> DEFINE x == Moved(chat[c], "wait")
<1>1. chat[c] \in ChatType /\ chat[c].pc = "enqueue" /\ HandlerOK(c) /\ loop # "off"
  BY DEF ServerInv, ChatsOK, Enqueue, OffOK
<1>2. x \in ChatType /\ x.pc = "wait" /\ x.toks = << >> /\ ~x.set
  <2>1. "wait" \in Places
    BY DEF Places
  <2>2. chat[c].toks = << >> /\ ~chat[c].set
    BY <1>1 DEF HandlerOK
  <2> QED
    BY <1>1, <2>1, <2>2, MovedChat
<1>3. chat' = [chat EXCEPT ![c] = x]
  BY DEF Enqueue, Moved
<1> HIDE DEF x
<1>4. chat'[c] = x
  BY <1>2, <1>3, OneChat DEF ServerInv
<1>5. UNCHANGED <<engine, sessions, reset, waiters, adding, loop>> /\ pending' = Append(pending, c)
  BY DEF Enqueue
<1>6. c \in Range(pending')
  <2>1. pending \in Seq(Chats \union Resets) /\ c \in Chats \union Resets
    BY DEF ServerInv, PendingOK
  <2> QED
    BY <1>5, <2>1, AppendFacts
<1>7. HandlerOK(c)'
  BY <1>2, <1>4, <1>6 DEF HandlerOK, Awaited
<1>8. SamePhase /\ loop' \in {loop, "top"} /\ loop' # "off"
  BY <1>1, <1>5 DEF SamePhase
<1> QED
  BY <1>1, <1>2, <1>3, <1>5, <1>7, <1>8, HandlerAction

\* ... the one that answers ...
LEMMA AnswerKeeps ==
  ASSUME ServerInv, NEW c \in Chats, Answer(c)
  PROVE  ServerInv'
<1>1. PICK how \in {"done", "error"} : how = IF chat[c].err THEN "error" ELSE "done"
  OBVIOUS
<1> DEFINE x == Ended(c, how)
<1>2. chat[c] \in ChatType /\ chat[c].pc = "wait" /\ chat[c].set /\ HandlerOK(c) /\ loop # "off"
  BY DEF ServerInv, ChatsOK, Answer, OffOK
<1>3. /\ x \in ChatType /\ x.pc = how /\ x.cut = chat[c].cut
      /\ x.exact <=> how = "done" /\ chat[c].toks = WholeTurn(c)
  BY EndedFacts DEF ServerInv
<1>4. chat' = [chat EXCEPT ![c] = x]
  BY <1>1 DEF Answer
<1> HIDE DEF x
<1>5. chat'[c] = x
  BY <1>3, <1>4, OneChat DEF ServerInv
<1>6. x.pc = "done" => x.exact \/ x.cut
  BY <1>1, <1>2, <1>3 DEF HandlerOK
<1>7. HandlerOK(c)'
  BY <1>3, <1>5 DEF HandlerOK
<1>8. UNCHANGED <<engine, sessions, reset, waiters, adding, loop, pending>>
  BY DEF Answer, serverVars
<1>9. SamePhase /\ loop' \in {loop, "top"} /\ loop' # "off"
  BY <1>2, <1>8 DEF SamePhase
<1> QED
  BY <1>2, <1>3, <1>4, <1>6, <1>7, <1>8, <1>9, HandlerAction

\* ... and the one whose time is over.
LEMMA TimeOutKeeps ==
  ASSUME ServerInv, NEW c \in Chats, TimeOut(c)
  PROVE  ServerInv'
<1> DEFINE x == Ended(c, "timeout")
<1>1. chat[c] \in ChatType /\ chat[c].pc = "wait" /\ loop # "off"
  BY DEF ServerInv, ChatsOK, TimeOut, OffOK
<1>2. /\ x \in ChatType /\ x.pc = "timeout" /\ x.rid = chat[c].rid /\ ~x.set /\ x.toks = << >>
  BY EndedFacts DEF ServerInv
<1>3. chat' = [chat EXCEPT ![c] = x]
  BY DEF TimeOut
<1> HIDE DEF x
<1>4. chat'[c] = x
  BY <1>2, <1>3, OneChat DEF ServerInv
<1>5. HandlerOK(c)'
  BY <1>2, <1>4 DEF HandlerOK
<1>6. UNCHANGED <<engine, sessions, reset, waiters, adding, loop, pending>>
  BY DEF TimeOut, serverVars
<1>7. SamePhase /\ loop' \in {loop, "top"} /\ loop' # "off"
  BY <1>1, <1>6 DEF SamePhase
<1> QED
  BY <1>2, <1>3, <1>5, <1>6, <1>7, HandlerAction

---------------------------------------------------------------------------
(* Resets, and the engine thread between them. *)

\* Nothing happens to a chat.
LEMMA ChatsStay ==
  ASSUME ServerInv, SamePhase, UNCHANGED <<engine, chat, sessions, waiters, adding>>,
         loop' \in {loop, "top", "drain", "step"},
         reset' \in [Resets -> [pc : {"idle", "direct", "enqueue", "wait", "done"}, key : Keys \union {All}]],
         Range(pending) \subseteq Range(pending'), PendingOK', OffOK'
  PROVE  ServerInv'
<1>1. ChatsOK' /\ AnswersWhole'
  BY DEF ServerInv, ChatsOK, AnswersWhole
<1>2. WaitersOK'
  <2>1. ChatsOK /\ WaitersOK /\ waiters' \in [Ids -> Chats \union {NoChat}]
    BY DEF ServerInv, WaitersOK
  <2> QED
    BY <2>1, WaitersFrame
<1>3. \A d \in Chats : HandlerOK(d)'
  <2>1. ASSUME NEW d \in Chats
        PROVE  HandlerOK(d)'
    <3>1. HandlerOK(d)
      BY DEF ServerInv
    <3>2. Awaited(d) => Awaited(d)'
      BY DEF Awaited
    <3> QED
      BY <3>1, <3>2, HandlerFrame
  <2> QED
    BY <2>1
<1>4. loop' \in {"off", "top", "drain", "reg", "step", "harvest", "fail"} /\ Orderly(engine')
  BY DEF ServerInv
<1>5. Orderly(engine)'
  BY <1>4
<1> QED
  BY <1>1, <1>2, <1>3, <1>4, <1>5 DEF ServerInv

\* The engine thread that takes the lock keeps the invariant ...
LEMMA TakeLockKeeps ==
  ASSUME ServerInv, TakeLock
  PROVE  ServerInv'
<1>1. /\ UNCHANGED <<engine, chat, sessions, waiters, adding, reset, pending>>
      /\ loop = "top" /\ loop' = "drain"
  BY DEF TakeLock, frontVars
<1>2. SamePhase /\ OffOK' /\ PendingOK'
  BY <1>1 DEF SamePhase, OffOK, ServerInv, PendingOK
<1> QED
  BY <1>1, <1>2, ChatsStay DEF ServerInv, ChatsOK

\* ... and so does the one that releases it.
LEMMA ReleaseLockKeeps ==
  ASSUME ServerInv, ReleaseLock
  PROVE  ServerInv'
<1>1. /\ UNCHANGED <<engine, chat, sessions, waiters, adding, reset, pending>>
      /\ loop = "drain" /\ loop' \in {"step", "top"}
  BY DEF ReleaseLock, frontVars
<1>2. SamePhase /\ OffOK' /\ PendingOK'
  BY <1>1 DEF SamePhase, OffOK, ServerInv, PendingOK
<1> QED
  BY <1>1, <1>2, ChatsStay DEF ServerInv, ChatsOK

\* A reset that arrives keeps the invariant ...
LEMMA ResetArrivesKeeps ==
  ASSUME ServerInv, NEW h \in Resets, ResetArrives(h)
  PROVE  ServerInv'
<1>1. PICK k \in Keys \union {All} :
        reset' = [reset EXCEPT ![h] = [pc |-> IF loop = "off" THEN "direct" ELSE "enqueue", key |-> k]]
  BY DEF ResetArrives
<1>2. UNCHANGED <<engine, chat, sessions, waiters, adding, loop, pending>> /\ reset[h].pc = "idle"
  BY DEF ResetArrives, serverVars
<1>3. reset \in [Resets -> [pc : {"idle", "direct", "enqueue", "wait", "done"}, key : Keys \union {All}]]
  BY DEF ServerInv, ChatsOK
<1>4. /\ reset' \in [Resets -> [pc : {"idle", "direct", "enqueue", "wait", "done"}, key : Keys \union {All}]]
      /\ reset'[h].pc = IF loop = "off" THEN "direct" ELSE "enqueue"
      /\ \A g \in Resets : g # h => reset'[g] = reset[g]
  BY <1>1, <1>3
<1>5. PendingOK'
  BY <1>2, <1>4 DEF ServerInv, PendingOK
<1>6. OffOK'
  BY <1>2, <1>4 DEF ServerInv, OffOK
<1>7. SamePhase
  BY <1>2 DEF SamePhase
<1> QED
  BY <1>2, <1>4, <1>5, <1>6, <1>7, ChatsStay

\* ... and so does the one that is queued.
LEMMA EnqueueResetKeeps ==
  ASSUME ServerInv, NEW h \in Resets, EnqueueReset(h)
  PROVE  ServerInv'
<1>1. /\ UNCHANGED <<engine, chat, sessions, waiters, adding, loop>>
      /\ reset[h].pc = "enqueue" /\ reset' = [reset EXCEPT ![h].pc = "wait"]
      /\ pending' = Append(pending, h)
  BY DEF EnqueueReset
<1>2. reset \in [Resets -> [pc : {"idle", "direct", "enqueue", "wait", "done"}, key : Keys \union {All}]]
  BY DEF ServerInv, ChatsOK
<1>3. /\ reset' \in [Resets -> [pc : {"idle", "direct", "enqueue", "wait", "done"}, key : Keys \union {All}]]
      /\ reset'[h].pc = "wait"
      /\ \A g \in Resets : g # h => reset'[g] = reset[g]
  BY <1>1, <1>2
<1>4. h \notin Range(pending) /\ pending \in Seq(Chats \union Resets) /\ IsInjective(pending)
  BY <1>1 DEF ServerInv, PendingOK
<1>5. /\ pending' \in Seq(Chats \union Resets) /\ IsInjective(pending')
      /\ Range(pending') = Range(pending) \union {h}
  <2>1. h \in Chats \union Resets
    OBVIOUS
  <2> QED
    BY <1>1, <1>4, <2>1, QueueGrows
<1>6. h \notin Chats
  BY FrontEndAssumption
<1>7. PendingOK'
  <2>1. ASSUME NEW c \in Chats \intersect Range(pending')
        PROVE  /\ chat'[c].pc \in {"wait", "timeout"}
               /\ ~chat'[c].set /\ chat'[c].toks = << >>
               /\ adding' # c
               /\ \A r \in Ids : waiters'[r] # c
    BY <1>1, <1>5, <1>6 DEF ServerInv, PendingOK
  <2>2. \A g \in Resets \intersect Range(pending') : reset'[g].pc = "wait"
    BY <1>3, <1>5 DEF ServerInv, PendingOK
  <2> QED
    BY <1>5, <2>1, <2>2 DEF PendingOK
<1>8. OffOK' /\ SamePhase
  BY <1>1 DEF ServerInv, OffOK, SamePhase
<1> QED
  BY <1>1, <1>3, <1>5, <1>7, <1>8, ChatsStay

\* A chat whose request a reset takes away.
CutShort(q) == [q EXCEPT !.set = TRUE, !.cut = TRUE]

\* A waiter that is cut short is awaited no more and keeps what it has.
LEMMA CutChat ==
  ASSUME NEW q \in ChatType
  PROVE  /\ CutShort(q) \in ChatType /\ CutShort(q).pc = q.pc /\ CutShort(q).rid = q.rid
         /\ CutShort(q).set /\ CutShort(q).cut /\ CutShort(q).exact = q.exact
         /\ CutShort(q).toks = q.toks
<1>1. PICK yes \in BOOLEAN : yes = TRUE
  OBVIOUS
<1> DEFINE y == [q EXCEPT !.set = yes]
<1>2. q = [pc |-> q.pc, key |-> q.key, rid |-> q.rid, toks |-> q.toks, set |-> q.set,
           err |-> q.err, cut |-> q.cut, exact |-> q.exact, from |-> q.from, want |-> q.want]
  BY ChatFields
<1>3. y = [pc |-> q.pc, key |-> q.key, rid |-> q.rid, toks |-> q.toks, set |-> yes,
           err |-> q.err, cut |-> q.cut, exact |-> q.exact, from |-> q.from, want |-> q.want]
  BY <1>2
<1>4. CutShort(q) = [y EXCEPT !.cut = yes]
  BY <1>1, Zenon DEF CutShort
<1> HIDE DEF y
<1>5. CutShort(q) =
        [pc |-> q.pc, key |-> q.key, rid |-> q.rid, toks |-> q.toks, set |-> yes,
         err |-> q.err, cut |-> yes, exact |-> q.exact, from |-> q.from, want |-> q.want]
  BY <1>3, <1>4
<1>6. CutShort(q) \in ChatType
  BY <1>5, ChatFields DEF ChatType
<1> QED
  BY <1>1, <1>5, <1>6

\* A reset that does not run beside the engine thread.
LEMMA ResetTheseKeeps ==
  ASSUME ServerInv, loop \in {"drain", "off"}, NEW k \in Keys \union {All}, ResetThese(k),
         adding' = adding, loop' = loop,
         reset' \in [Resets -> [pc : {"idle", "direct", "enqueue", "wait", "done"}, key : Keys \union {All}]],
         pending' \in Seq(Chats \union Resets), IsInjective(pending'),
         Range(pending') \subseteq Range(pending),
         Range(pending) \intersect Chats \subseteq Range(pending'),
         \A h \in Resets \intersect Range(pending') : reset'[h].pc = reset[h].pc,
         OffOK'
  PROVE  ServerInv'
<1> DEFINE V == Victims(k)
           hit(c) == chat[c].pc = "wait" /\ \E r \in V : waiters[r] = c
<1>1. Orderly(engine) /\ sessions \in [Keys -> Ids \union {0}] /\ chat \in [Chats -> ChatType]
  BY DEF ServerInv, ChatsOK
<1>2. V \subseteq Ids
  <2>1. Live(engine) \subseteq Ids
    BY DEF Live
  <2>2. k # All => k \in Keys /\ sessions[k] \in Ids \union {0}
    BY <1>1
  <2> QED
    BY <2>1, <2>2 DEF Victims
<1> HIDE DEF V
<1>3. /\ engine' = FinishRequests(engine, V)
      /\ sessions' \in [Keys -> Ids \union {0}]
      /\ waiters' = [r \in Ids |-> IF r \in V THEN NoChat ELSE waiters[r]]
      /\ chat' = [c \in Chats |-> IF hit(c) THEN CutShort(chat[c]) ELSE chat[c]]
  BY <1>1 DEF ResetThese, CutShort, V
<1>4. /\ Orderly(engine') /\ engine'.last = engine.last
      /\ \A r \in Ids : r \notin V => engine'.req[r] = engine.req[r]
  <2> DEFINE F == FinishRequests(engine, V)
  <2>1. /\ Orderly(F) /\ F.last = engine.last
        /\ \A r \in Ids : r \notin V => F.req[r] = engine.req[r]
    BY <1>1, FinishFacts
  <2> HIDE DEF F
  <2>2. engine' = F
    BY <1>3 DEF F
  <2> QED
    BY <2>1, <2>2
<1>5. \A c \in Chats : /\ hit(c) => chat'[c] = CutShort(chat[c])
                       /\ ~hit(c) => chat'[c] = chat[c]
  BY <1>3
<1>6. ASSUME NEW c \in Chats, NEW r \in Ids, waiters[r] = c
      PROVE  chat[c].rid = r
  <2>1. c # NoChat
    BY RolloutServerAssumption
  <2> QED
    BY <1>6, <2>1 DEF ServerInv, WaitersOK, WaiterOf
<1>7. ASSUME NEW r \in Ids, NEW d \in Chats, waiters'[r] = d
      PROVE  r \notin V /\ waiters[r] = d /\ chat'[d] = chat[d]
  <2>1. r \notin V /\ waiters[r] = d
    BY <1>3, <1>7, RolloutServerAssumption
  <2>2. ~hit(d)
    BY <1>2, <1>6, <2>1
  <2> QED
    BY <1>5, <2>1, <2>2
<1>8. adding = NoChat
  BY DEF ServerInv, WaitersOK
<1>9. WaitersOK'
  <2>1. ChatsOK /\ WaitersOK /\ waiters' \in [Ids -> Chats \union {NoChat}] /\ SamePhase
    BY <1>3 DEF ServerInv, WaitersOK, SamePhase
  <2>2. \A r \in Ids : waiters'[r] # NoChat => waiters'[r] = waiters[r]
    BY <1>3
  <2>3. \A r \in Ids, d \in Chats :
          waiters'[r] = d \/ (adding = d /\ chat[d].rid = r) =>
            /\ engine'.req[r] = engine.req[r] /\ engine'.last[r] = engine.last[r]
            /\ chat'[d] = chat[d] \/ (chat'[d].pc = "timeout" /\ chat'[d].rid = chat[d].rid)
    BY <1>4, <1>7, <1>8, RolloutServerAssumption
  <2> QED
    BY <2>1, <2>2, <2>3, WaitersFrame
<1>10. \A c \in Chats \intersect Range(pending) : ~hit(c) /\ adding' # c /\ \A r \in Ids : waiters'[r] # c
  <2>1. ASSUME NEW c \in Chats \intersect Range(pending)
        PROVE  ~hit(c) /\ adding' # c /\ \A r \in Ids : waiters'[r] # c
    <3>1. adding # c /\ \A r \in Ids : waiters[r] # c
      BY DEF ServerInv, PendingOK
    <3> QED
      BY <1>2, <1>7, <3>1
  <2> QED
    BY <2>1
<1>11. PendingOK'
  <2>1. \A c \in Chats \intersect Range(pending') :
           /\ chat'[c] = chat[c] \/ (chat'[c].pc = "timeout" /\ ~chat'[c].set /\ chat'[c].toks = << >>)
           /\ adding' # c
           /\ \A r \in Ids : waiters'[r] # c
    BY <1>5, <1>10
  <2>2. PendingOK
    BY DEF ServerInv
  <2> QED
    BY <2>1, <2>2, PendingFrame
<1>12. ChatsOK'
  <2>1. \A c \in Chats : chat'[c] \in ChatType
    BY <1>1, <1>5, CutChat
  <2>2. chat' \in [Chats -> ChatType]
    BY <1>3, <2>1
  <2> QED
    BY <1>3, <2>2 DEF ChatsOK
<1>13. AnswersWhole'
  <2>1. ASSUME NEW c \in Chats, chat'[c].pc = "done"
        PROVE  chat'[c].exact \/ chat'[c].cut
    <3>1. chat[c] \in ChatType
      BY <1>1
    <3>2. ~hit(c)
      BY <1>5, <2>1, <3>1, CutChat
    <3> QED
      BY <1>5, <2>1, <3>2 DEF ServerInv, AnswersWhole
  <2> QED
    BY <2>1 DEF AnswersWhole
<1>14. \A c \in Chats : HandlerOK(c)'
  <2>1. ASSUME NEW c \in Chats
        PROVE  HandlerOK(c)'
    <3>1. chat[c] \in ChatType /\ HandlerOK(c)
      BY <1>1 DEF ServerInv
    <3>2. CASE hit(c)
      <4>1. chat'[c].pc = "wait" /\ chat'[c].set /\ chat'[c].cut
        BY <1>5, <3>1, <3>2, CutChat
      <4> QED
        BY <4>1 DEF HandlerOK
    <3>3. CASE ~hit(c)
      <4>1. chat'[c] = chat[c]
        BY <1>5, <3>3
      <4>2. chat[c].pc = "wait" /\ Awaited(c) => Awaited(c)'
        <5>1. c \in Range(pending) => c \in Range(pending')
          OBVIOUS
        <5>2. \A r \in Ids : waiters[r] = c /\ chat[c].pc = "wait" => waiters'[r] = c
          BY <1>3, <3>3
        <5> QED
          BY <4>1, <5>1, <5>2 DEF Awaited
      <4> QED
        BY <3>1, <4>1, <4>2, HandlerFrame
    <3> QED
      BY <3>2, <3>3
  <2> QED
    BY <2>1
<1>15. Orderly(engine)' /\ loop' \in {"off", "top", "drain", "reg", "step", "harvest", "fail"}
  BY <1>4
<1> QED
  BY <1>9, <1>11, <1>12, <1>13, <1>14, <1>15 DEF ServerInv

\* A reset taken off the queue sets the events of the waiters whose requests it finishes.
LEMMA RunResetKeeps ==
  ASSUME ServerInv, NEW h \in Resets, RunReset(h)
  PROVE  ServerInv'
<1>1. /\ loop = "drain" /\ pending # << >> /\ Head(pending) = h /\ pending' = Tail(pending)
      /\ reset' = [reset EXCEPT ![h].pc = "done"] /\ ResetThese(reset[h].key)
      /\ UNCHANGED <<loop, adding>>
  BY DEF RunReset
<1>2. reset \in [Resets -> [pc : {"idle", "direct", "enqueue", "wait", "done"}, key : Keys \union {All}]]
  BY DEF ServerInv, ChatsOK
<1>3. /\ reset' \in [Resets -> [pc : {"idle", "direct", "enqueue", "wait", "done"}, key : Keys \union {All}]]
      /\ \A g \in Resets : g # h => reset'[g] = reset[g]
      /\ reset[h].key \in Keys \union {All}
  BY <1>1, <1>2
<1>4. pending \in Seq(Chats \union Resets) /\ IsInjective(pending)
  BY DEF ServerInv, PendingOK
<1>5. /\ pending' \in Seq(Chats \union Resets) /\ IsInjective(pending')
      /\ Range(pending') = Range(pending) \ {h}
  BY <1>1, <1>4, QueueShrinks
<1>6. h \notin Chats
  BY FrontEndAssumption
<1>7. OffOK'
  BY <1>1 DEF OffOK
<1>8. PICK k \in Keys \union {All} : k = reset[h].key
  BY <1>3
<1>9. ResetThese(k)
  BY <1>1, <1>8
<1>10. \A g \in Resets \intersect Range(pending') : reset'[g].pc = reset[g].pc
  BY <1>3, <1>5
<1>11. Range(pending') \subseteq Range(pending) /\ Range(pending) \intersect Chats \subseteq Range(pending')
  BY <1>5, <1>6
<1> QED
  BY <1>1, <1>3, <1>5, <1>7, <1>9, <1>10, <1>11, ResetTheseKeeps

\* Before there is an engine thread a reset finds nothing to do.
LEMMA DirectResetKeeps ==
  ASSUME ServerInv, NEW h \in Resets, DirectReset(h), loop = "off"
  PROVE  ServerInv'
<1>1. /\ reset[h].pc = "direct" /\ ResetThese(reset[h].key)
      /\ reset' = [reset EXCEPT ![h].pc = "done"] /\ UNCHANGED <<loop, pending, adding>>
  BY DEF DirectReset
<1>2. reset \in [Resets -> [pc : {"idle", "direct", "enqueue", "wait", "done"}, key : Keys \union {All}]]
  BY DEF ServerInv, ChatsOK
<1>3. /\ reset' \in [Resets -> [pc : {"idle", "direct", "enqueue", "wait", "done"}, key : Keys \union {All}]]
      /\ \A g \in Resets : g # h => reset'[g] = reset[g]
      /\ reset'[h].pc = "done"
      /\ reset[h].key \in Keys \union {All}
  BY <1>1, <1>2
<1>4. PICK k \in Keys \union {All} : k = reset[h].key
  BY <1>3
<1>5. ResetThese(k)
  BY <1>1, <1>4
<1>6. /\ pending \in Seq(Chats \union Resets) /\ IsInjective(pending)
      /\ \A g \in Resets \intersect Range(pending) : reset[g].pc = "wait"
  BY DEF ServerInv, PendingOK
<1>7. \A g \in Resets \intersect Range(pending') : reset'[g].pc = reset[g].pc
  BY <1>1, <1>3, <1>6
<1>8. OffOK /\ Orderly(engine) /\ ChatsOK
  BY DEF ServerInv
<1>9. OffOK'
  <2>1. /\ \A c \in Chats : chat[c].pc \in {"idle", "ensure"}
        /\ \A g \in Resets : reset[g].pc \in {"idle", "direct", "done"}
        /\ pending = << >> /\ waiters = [r \in Ids |-> NoChat]
        /\ \A r \in Ids : engine.req[r].st = "unborn"
        /\ sessions = [q \in Keys |-> 0]
    BY <1>8 DEF OffOK
  <2>2. \A c \in Chats : chat'[c] = chat[c]
    BY <1>5, <2>1 DEF ResetThese
  <2>3. \A r \in Ids : ~Known(engine, r)
    BY <2>1 DEF Known
  <2>4. \A r \in Ids : engine'.req[r] = engine.req[r]
    <3> DEFINE F == FinishRequests(engine, Victims(k))
    <3>1. \A r \in Ids : F.req[r] = engine.req[r]
      BY <1>8, <2>3, FinishFacts
    <3> HIDE DEF F
    <3>2. engine' = F
      BY <1>5 DEF ResetThese, F
    <3> QED
      BY <3>1, <3>2
  <2>5. waiters' = [r \in Ids |-> NoChat] /\ sessions' = [q \in Keys |-> 0]
    BY <1>5, <2>1 DEF ResetThese
  <2> QED
    BY <1>1, <1>3, <2>1, <2>2, <2>4, <2>5 DEF OffOK
<1> QED
  BY <1>1, <1>3, <1>5, <1>6, <1>7, <1>9, ResetTheseKeeps

---------------------------------------------------------------------------
(* The engine thread: submissions. *)

\* A finished request frees no id.
LEMMA FinishKeepsNext ==
  ASSUME NEW E, Orderly(E), NEW i
  PROVE  NextId(FinishRequest(E, i)) = NextId(E)
<1> DEFINE F == FinishRequests(E, {i})
<1>1. \A r \in Ids : /\ ~Known(E, r) => F.req[r] = E.req[r]
                     /\ r \notin {i} => F.req[r] = E.req[r]
                     /\ r \in {i} /\ Known(E, r) => F.req[r].st = "gone"
  BY FinishFacts
<1> HIDE DEF F
<1>2. \A r \in Ids : Known(E, r) => E.req[r].st # "unborn"
  BY DEF Known
<1>3. {r \in Ids : F.req[r].st # "unborn"} = {r \in Ids : E.req[r].st # "unborn"}
  BY <1>1, <1>2
<1> QED
  BY <1>3 DEF NextId, FinishRequest, F

\* What _continue_or_add does, whichever way it goes: request i becomes active for chat c.
Continues(c, i, n) ==
  /\ engine.req[i].st # "active"
  /\ Orderly(engine') /\ engine'.last = engine.last
  /\ engine'.req[i].st = "active" /\ engine'.req[i].left = n
  /\ \A r \in Ids : engine.req[r].st = "active" => engine'.req[r] = engine.req[r]
  /\ sessions' = [sessions EXCEPT ![chat[c].key] = i]
  /\ chat' = [chat EXCEPT ![c].rid = i, ![c].from = engine'.req[i].out, ![c].want = n]

\* A submission makes a request active that was not, and leaves the active ones alone.
LEMMA ContinueOrAddFacts ==
  ASSUME ServerInv, NEW c \in Chats, NEW extends \in BOOLEAN, NEW n \in TurnLengths, NEW k \in Chunks,
         ContinueOrAdd(c, extends, n, k)
  PROVE  \E i \in Ids : Continues(c, i, n)
<1> DEFINE held == HeldBy(chat[c].key)
<1>1. Orderly(engine) /\ n \in Nat /\ k \in Nat
  BY StepEngineAssumption DEF ServerInv
<1>2. PICK hold \in BOOLEAN : hold = HoldKV
  BY DEF HoldKV
<1>3. held = 0 \/ held \in Paused(engine)
  BY DEF HeldBy
<1>4. 0 \notin Ids
  BY DEF Ids
<1> HIDE DEF held
<1>5. CASE held # 0 /\ extends
  <2> DEFINE F == ResumeRequest(engine, held, n, k, hold)
  <2>1. held \in Paused(engine) /\ held \in Ids /\ engine.req[held].st = "paused"
    BY <1>3, <1>5 DEF Paused
  <2>2. /\ Orderly(F) /\ F.last = engine.last
        /\ F.req[held].st = "active" /\ F.req[held].left = n
        /\ \A r \in Ids : r # held => F.req[r] = engine.req[r]
    BY <1>1, <2>1, ResumeFacts
  <2>3. /\ engine' = F
        /\ sessions' = [sessions EXCEPT ![chat[c].key] = held]
        /\ chat' = [chat EXCEPT ![c].rid = held, ![c].from = F.req[held].out, ![c].want = n]
    BY <1>2, <1>5 DEF ContinueOrAdd, held
  <2> HIDE DEF F
  <2>4. Continues(c, held, n)
    BY <2>1, <2>2, <2>3 DEF Continues
  <2> QED
    BY <2>1, <2>4
<1>6. CASE ~(held # 0 /\ extends)
  <2> DEFINE G == FinishRequest(engine, held)
             F == AddRequest(G, n, k, hold)
             i == NextId(engine)
  <2>1. /\ engine' = F
        /\ sessions' = [sessions EXCEPT ![chat[c].key] = i]
        /\ chat' = [chat EXCEPT ![c].rid = i, ![c].from = F.req[i].out, ![c].want = n]
        /\ CanAdd(engine)
    BY <1>2, <1>6 DEF ContinueOrAdd, held
  <2>2. /\ Orderly(G) /\ G.last = engine.last
        /\ \A r \in Ids : r # held => G.req[r] = engine.req[r]
    <3> DEFINE H == FinishRequests(engine, {held})
    <3>1. /\ Orderly(H) /\ H.last = engine.last
          /\ \A r \in Ids : r \notin {held} => H.req[r] = engine.req[r]
      BY <1>1, FinishFacts
    <3> HIDE DEF H
    <3>2. G = H
      BY DEF FinishRequest, H
    <3> QED
      BY <3>1, <3>2
  <2>3. NextId(G) = i
    BY <1>1, FinishKeepsNext
  <2>4. CanAdd(G)
    BY <2>1, <2>3 DEF CanAdd
  <2>5. engine.req[i].st = "unborn" /\ i \in Ids
    BY <1>1, <2>1, NextIdFacts DEF CanAdd, Ids
  <2> HIDE DEF G, i
  <2>6. /\ Orderly(F) /\ F.last = G.last
        /\ F.req[i] = [st |-> "active", hold |-> hold, chunks |-> k, left |-> n, out |-> 0]
        /\ \A r \in Ids : r # i => F.req[r] = G.req[r]
    BY <1>1, <2>2, <2>3, <2>4, AddFacts
  <2> HIDE DEF F
  <2>7. held \in Ids => engine.req[held].st = "paused"
    BY <1>3, <1>4 DEF Paused
  <2>8. \A r \in Ids : engine.req[r].st = "active" => F.req[r] = engine.req[r]
    BY <2>2, <2>5, <2>6, <2>7
  <2>9. F.req[i].st = "active" /\ F.req[i].left = n
    BY <2>6
  <2>10. Continues(c, i, n)
    BY <2>1, <2>2, <2>5, <2>6, <2>8, <2>9 DEF Continues
  <2> QED
    BY <2>5, <2>10
<1> QED
  BY <1>5, <1>6

\* A chat whose turn the request i has begun.
Begun(q, i, f, n) == [q EXCEPT !.rid = i, !.from = f, !.want = n]

\* A chat whose turn begins is owed the turn from what its request has emitted before.
LEMMA BegunChat ==
  ASSUME NEW q \in ChatType, NEW i \in Ids, NEW f \in Nat, NEW n \in Nat
  PROVE  LET x == Begun(q, i, f, n)
         IN  /\ x \in ChatType /\ x.rid = i /\ x.from = f /\ x.want = n
             /\ x.pc = q.pc /\ x.toks = q.toks /\ x.set = q.set /\ x.exact = q.exact /\ x.cut = q.cut
<1>1. q = [pc |-> q.pc, key |-> q.key, rid |-> q.rid, toks |-> q.toks, set |-> q.set,
           err |-> q.err, cut |-> q.cut, exact |-> q.exact, from |-> q.from, want |-> q.want]
  BY ChatFields
<1>2. Begun(q, i, f, n) =
        [pc |-> q.pc, key |-> q.key, rid |-> i, toks |-> q.toks, set |-> q.set,
         err |-> q.err, cut |-> q.cut, exact |-> q.exact, from |-> f, want |-> n]
  <2> DEFINE y == [q EXCEPT !.rid = i]
             z == [y EXCEPT !.from = f]
  <2>1. y = [pc |-> q.pc, key |-> q.key, rid |-> i, toks |-> q.toks, set |-> q.set,
             err |-> q.err, cut |-> q.cut, exact |-> q.exact, from |-> q.from, want |-> q.want]
    BY <1>1
  <2>2. Begun(q, i, f, n) = [z EXCEPT !.want = n]
    BY DEF Begun
  <2> HIDE DEF y
  <2>3. z = [pc |-> q.pc, key |-> q.key, rid |-> i, toks |-> q.toks, set |-> q.set,
             err |-> q.err, cut |-> q.cut, exact |-> q.exact, from |-> f, want |-> q.want]
    BY <2>1
  <2> HIDE DEF z
  <2> QED
    BY <2>2, <2>3
<1> QED
  BY <1>2, ChatFields DEF ChatType

\* A submission taken off the queue is owed its whole turn.
LEMMA SubmitKeeps ==
  ASSUME ServerInv, NEW c \in Chats, Submit(c)
  PROVE  ServerInv'
<1>1. /\ loop = "drain" /\ pending # << >> /\ Head(pending) = c
      /\ pending' = Tail(pending) /\ adding' = c /\ loop' = "reg"
      /\ UNCHANGED <<reset, waiters>>
  BY DEF Submit
<1>2. PICK extends \in BOOLEAN, n \in TurnLengths, k \in Chunks : ContinueOrAdd(c, extends, n, k)
  BY DEF Submit
<1>3. PICK i \in Ids : Continues(c, i, n)
  BY <1>2, ContinueOrAddFacts
<1>4. /\ engine.req[i].st # "active"
      /\ Orderly(engine') /\ engine'.last = engine.last
      /\ engine'.req[i].st = "active" /\ engine'.req[i].left = n
      /\ \A r \in Ids : engine.req[r].st = "active" => engine'.req[r] = engine.req[r]
      /\ sessions' = [sessions EXCEPT ![chat[c].key] = i]
      /\ chat' = [chat EXCEPT ![c].rid = i, ![c].from = engine'.req[i].out, ![c].want = n]
  BY <1>3 DEF Continues
<1>5. PICK f \in Nat : f = engine'.req[i].out
  BY <1>4, EngineFacts
<1> DEFINE x == Begun(chat[c], i, f, n)
<1>6. /\ chat[c] \in ChatType /\ n \in Nat
      /\ pending \in Seq(Chats \union Resets) /\ IsInjective(pending)
  BY StepEngineAssumption DEF ServerInv, ChatsOK, PendingOK
<1>7. /\ x \in ChatType /\ x.rid = i /\ x.from = f /\ x.want = n
      /\ x.pc = chat[c].pc /\ x.toks = chat[c].toks /\ x.set = chat[c].set
      /\ x.exact = chat[c].exact /\ x.cut = chat[c].cut
  BY <1>5, <1>6, BegunChat
<1>8. chat' = [chat EXCEPT ![c] = x]
  BY <1>4, <1>5 DEF Begun
<1> HIDE DEF x
<1>9. /\ chat' \in [Chats -> ChatType] /\ chat'[c] = x
      /\ \A d \in Chats : d # c => chat'[d] = chat[d]
  BY <1>7, <1>8, OneChat DEF ServerInv
<1>10. /\ c \in Range(pending)
      /\ pending' \in Seq(Chats \union Resets) /\ IsInjective(pending')
      /\ Range(pending') = Range(pending) \ {c}
  BY <1>1, <1>6, QueueShrinks
<1>11. /\ chat[c].pc \in {"wait", "timeout"} /\ ~chat[c].set /\ chat[c].toks = << >>
       /\ \A r \in Ids : waiters[r] # c
  BY <1>10 DEF ServerInv, PendingOK
<1>12. c # NoChat
  BY RolloutServerAssumption
<1>13. ChatsOK'
  BY <1>1, <1>4, <1>9 DEF ServerInv, ChatsOK
<1>14. AnswersWhole'
  BY <1>7, <1>9 DEF ServerInv, AnswersWhole
<1>15. WaiterOf(c, i)'
  <2>1. i \in Nat /\ f - f = 0 /\ f + n = f + n
    BY <1>5 DEF Ids
  <2>2. TokensFrom(f, 0) = << >>
    BY <1>5, TokensFacts
  <2>3. Owed(x, engine'.req[i], x.toks)
    BY <1>4, <1>5, <1>6, <1>7, <1>11, <2>1, <2>2 DEF Owed
  <2> QED
    BY <1>1, <1>4, <1>7, <1>9, <1>11, <2>3 DEF WaiterOf
<1>16. ASSUME NEW r \in Ids, waiters[r] # NoChat
       PROVE  WaiterOf(waiters[r], r)' /\ c # waiters[r] /\ r # i
  <2>1. PICK d \in Chats : d = waiters[r]
    BY <1>16 DEF ServerInv, WaitersOK
  <2>2. WaiterOf(d, r)
    BY <1>16, <2>1 DEF ServerInv, WaitersOK
  <2>3. engine.req[r].st = "active"
    BY <1>1, <2>2 DEF WaiterOf
  <2>4. /\ d # c /\ chat'[d] = chat[d]
        /\ engine'.req[r] = engine.req[r] /\ engine'.last[r] = engine.last[r]
    BY <1>4, <1>9, <1>11, <2>1, <2>3
  <2>5. StepPhase
    BY <1>1 DEF StepPhase
  <2>6. WaiterOf(d, r)'
    BY <2>2, <2>4, <2>5, WaiterFrame
  <2> QED
    BY <1>1, <1>4, <2>1, <2>3, <2>4, <2>6
<1>17. WaitersOK'
  <2>1. waiters' \in [Ids -> Chats \union {NoChat}] /\ adding' \in Chats \union {NoChat}
    BY <1>1 DEF ServerInv, WaitersOK
  <2>2. waiters'[i] = NoChat /\ chat'[adding'].rid = i
    BY <1>1, <1>7, <1>9, <1>16
  <2>3. \A r \in Ids : waiters'[r] # NoChat => WaiterOf(waiters[r], r)' /\ adding' # waiters'[r]
    BY <1>1, <1>16
  <2>4. WaiterOf(adding, chat[adding].rid)'
    BY <1>1, <1>15, <2>2
  <2> QED
    BY <1>1, <1>12, <2>1, <2>2, <2>3, <2>4 DEF WaitersOK
<1>18. PendingOK'
  <2>1. \A d \in Chats \intersect Range(pending') :
          /\ chat'[d] = chat[d] \/ (chat'[d].pc = "timeout" /\ ~chat'[d].set /\ chat'[d].toks = << >>)
          /\ adding' # d
          /\ \A r \in Ids : waiters'[r] # d
    BY <1>1, <1>9, <1>10 DEF ServerInv, PendingOK
  <2>2. PendingOK /\ \A h \in Resets \intersect Range(pending') : reset'[h].pc = reset[h].pc
    BY <1>1 DEF ServerInv
  <2>3. Range(pending') \subseteq Range(pending)
    BY <1>10
  <2> QED
    BY <1>10, <2>1, <2>2, <2>3, PendingFrame
<1>19. \A d \in Chats : HandlerOK(d)'
  <2>1. HandlerOK(c)'
    BY <1>1, <1>7, <1>9, <1>11 DEF HandlerOK, Awaited
  <2>2. ASSUME NEW d \in Chats, d # c
        PROVE  HandlerOK(d)'
    <3>1. HandlerOK(d) /\ chat'[d] = chat[d]
      BY <1>9, <2>2 DEF ServerInv
    <3>2. adding = NoChat /\ d # NoChat
      BY <1>1, RolloutServerAssumption DEF ServerInv, WaitersOK
    <3>3. Awaited(d) => Awaited(d)'
      BY <1>1, <1>10, <2>2, <3>1, <3>2 DEF Awaited
    <3> QED
      BY <3>1, <3>3, HandlerFrame
  <2> QED
    BY <2>1, <2>2
<1>20. OffOK' /\ loop' \in {"off", "top", "drain", "reg", "step", "harvest", "fail"} /\ Orderly(engine)'
  BY <1>1, <1>4 DEF OffOK
<1> QED
  BY <1>13, <1>14, <1>17, <1>18, <1>19, <1>20 DEF ServerInv

\* A waiter that gets an error.
Failed(q, e) == [q EXCEPT !.err = e, !.set = e]

\* A waiter that gets an error has its event set.
LEMMA FailedChat ==
  ASSUME NEW q \in ChatType, NEW e \in BOOLEAN
  PROVE  /\ Failed(q, e) \in ChatType /\ Failed(q, e).pc = q.pc /\ Failed(q, e).rid = q.rid
         /\ Failed(q, e).set = e /\ Failed(q, e).err = e /\ Failed(q, e).toks = q.toks
         /\ Failed(q, e).exact = q.exact /\ Failed(q, e).cut = q.cut
<1> DEFINE y == [q EXCEPT !.err = e]
<1>1. q = [pc |-> q.pc, key |-> q.key, rid |-> q.rid, toks |-> q.toks, set |-> q.set,
           err |-> q.err, cut |-> q.cut, exact |-> q.exact, from |-> q.from, want |-> q.want]
  BY ChatFields
<1>2. y = [pc |-> q.pc, key |-> q.key, rid |-> q.rid, toks |-> q.toks, set |-> q.set,
           err |-> e, cut |-> q.cut, exact |-> q.exact, from |-> q.from, want |-> q.want]
  BY <1>1
<1>3. Failed(q, e) = [y EXCEPT !.set = e]
  BY DEF Failed
<1> HIDE DEF y
<1>4. Failed(q, e) =
        [pc |-> q.pc, key |-> q.key, rid |-> q.rid, toks |-> q.toks, set |-> e,
         err |-> e, cut |-> q.cut, exact |-> q.exact, from |-> q.from, want |-> q.want]
  BY <1>2, <1>3
<1>5. Failed(q, e) \in ChatType
  BY <1>4, ChatFields DEF ChatType
<1> QED
  BY <1>4, <1>5

\* A submission that raises sets the event of its waiter.
LEMMA SubmitFailsKeeps ==
  ASSUME ServerInv, NEW c \in Chats, SubmitFails(c)
  PROVE  ServerInv'
<1>1. /\ loop = "drain" /\ pending # << >> /\ Head(pending) = c
      /\ pending' = Tail(pending)
      /\ UNCHANGED <<reset, waiters, adding, loop>>
  BY DEF SubmitFails
<1>2. PICK e \in BOOLEAN : e = (chat[c].pc = "wait")
  OBVIOUS
<1> DEFINE held == HeldBy(chat[c].key)
           x == Failed(chat[c], e)
<1>3. chat' = [chat EXCEPT ![c] = x]
  BY <1>2, Zenon DEF SubmitFails, Failed
<1>4. /\ chat[c] \in ChatType /\ Orderly(engine) /\ sessions \in [Keys -> Ids \union {0}]
      /\ pending \in Seq(Chats \union Resets) /\ IsInjective(pending)
      /\ HandlerOK(c)
  BY DEF ServerInv, ChatsOK, PendingOK
<1>5. /\ x \in ChatType /\ x.pc = chat[c].pc /\ x.rid = chat[c].rid /\ x.set = e /\ x.err = e
      /\ x.toks = chat[c].toks /\ x.exact = chat[c].exact /\ x.cut = chat[c].cut
  BY <1>4, FailedChat
<1>6. held = 0 \/ held \in Paused(engine)
  BY DEF HeldBy
<1>7. \/ UNCHANGED <<engine, sessions>>
      \/ held # 0 /\ engine' = FinishRequest(engine, held) /\ sessions' = [sessions EXCEPT ![chat[c].key] = 0]
  BY DEF SubmitFails
<1> HIDE DEF held, x
<1>8. /\ chat' \in [Chats -> ChatType] /\ chat'[c] = x
      /\ \A d \in Chats : d # c => chat'[d] = chat[d]
  BY <1>3, <1>5, OneChat DEF ServerInv
<1>9. /\ Orderly(engine') /\ engine'.last = engine.last
      /\ \A r \in Ids : engine.req[r].st = "active" => engine'.req[r] = engine.req[r]
  <2>1. CASE engine' = engine
    BY <1>4, <2>1
  <2>2. CASE held # 0 /\ engine' = FinishRequest(engine, held)
    <3> DEFINE H == FinishRequests(engine, {held})
    <3>1. /\ Orderly(H) /\ H.last = engine.last
          /\ \A r \in Ids : r \notin {held} => H.req[r] = engine.req[r]
      BY <1>4, FinishFacts
    <3>2. engine.req[held].st = "paused"
      BY <1>6, <2>2 DEF Paused
    <3> HIDE DEF H
    <3>3. engine' = H
      BY <2>2 DEF FinishRequest, H
    <3> QED
      BY <3>1, <3>2, <3>3
  <2> QED
    BY <1>7, <2>1, <2>2
<1>10. /\ c \in Range(pending)
       /\ pending' \in Seq(Chats \union Resets) /\ IsInjective(pending')
       /\ Range(pending') = Range(pending) \ {c}
  BY <1>1, <1>4, QueueShrinks
<1>11. /\ chat[c].pc \in {"wait", "timeout"} /\ ~chat[c].set /\ chat[c].toks = << >>
       /\ \A r \in Ids : waiters[r] # c
  BY <1>10 DEF ServerInv, PendingOK
<1>12. adding = NoChat
  BY <1>1 DEF ServerInv, WaitersOK
<1>13. ChatsOK'
  <2>1. sessions' \in [Keys -> Ids \union {0}]
    BY <1>4, <1>7
  <2> QED
    BY <1>1, <1>8, <2>1 DEF ServerInv, ChatsOK
<1>14. AnswersWhole'
  BY <1>5, <1>8 DEF ServerInv, AnswersWhole
<1>15. WaitersOK'
  <2>1. ChatsOK /\ WaitersOK /\ waiters \in [Ids -> Chats \union {NoChat}] /\ SamePhase
    BY <1>1 DEF ServerInv, WaitersOK, SamePhase
  <2>2. ASSUME NEW r \in Ids, NEW d \in Chats, waiters'[r] = d \/ (adding = d /\ chat[d].rid = r)
        PROVE  /\ engine'.req[r] = engine.req[r] /\ engine'.last[r] = engine.last[r]
               /\ chat'[d] = chat[d] \/ (chat'[d].pc = "timeout" /\ chat'[d].rid = chat[d].rid)
    <3>1. d # NoChat
      BY RolloutServerAssumption
    <3>2. waiters[r] = d
      BY <1>1, <1>12, <2>2, <3>1
    <3>3. engine.req[r].st = "active"
      BY <1>1, <2>1, <3>1, <3>2 DEF WaitersOK, WaiterOf
    <3> QED
      BY <1>8, <1>9, <1>11, <3>2, <3>3
  <2> QED
    BY <1>1, <2>1, <2>2, WaitersFrame
<1>16. PendingOK'
  <2>1. \A d \in Chats \intersect Range(pending') :
          /\ chat'[d] = chat[d] \/ (chat'[d].pc = "timeout" /\ ~chat'[d].set /\ chat'[d].toks = << >>)
          /\ adding' # d
          /\ \A r \in Ids : waiters'[r] # d
    BY <1>1, <1>8, <1>10 DEF ServerInv, PendingOK
  <2>2. PendingOK /\ \A h \in Resets \intersect Range(pending') : reset'[h].pc = reset[h].pc
    BY <1>1 DEF ServerInv
  <2>3. Range(pending') \subseteq Range(pending)
    BY <1>10
  <2> QED
    BY <1>10, <2>1, <2>2, <2>3, PendingFrame
<1>17. \A d \in Chats : HandlerOK(d)'
  <2>1. HandlerOK(c)'
    <3>1. chat'[c].pc \in {"wait", "timeout"}
      BY <1>5, <1>8, <1>11
    <3>2. chat'[c].pc = "wait" => chat'[c].set /\ chat'[c].err
      BY <1>2, <1>5, <1>8
    <3> QED
      BY <3>1, <3>2 DEF HandlerOK
  <2>2. ASSUME NEW d \in Chats, d # c
        PROVE  HandlerOK(d)'
    <3>1. HandlerOK(d) /\ chat'[d] = chat[d]
      BY <1>8, <2>2 DEF ServerInv
    <3>2. Awaited(d) => Awaited(d)'
      BY <1>1, <1>10, <2>2, <3>1 DEF Awaited
    <3> QED
      BY <3>1, <3>2, HandlerFrame
  <2> QED
    BY <2>1, <2>2
<1>18. OffOK' /\ loop' \in {"off", "top", "drain", "reg", "step", "harvest", "fail"} /\ Orderly(engine)'
  BY <1>1, <1>9 DEF OffOK
<1> QED
  BY <1>13, <1>14, <1>15, <1>16, <1>17, <1>18 DEF ServerInv

\* The request of a submission gets its waiter before the engine steps.
LEMMA RegisterKeeps ==
  ASSUME ServerInv, Register
  PROVE  ServerInv'
<1>1. /\ loop = "reg" /\ loop' = "drain" /\ adding' = NoChat
      /\ waiters' = [waiters EXCEPT ![chat[adding].rid] = adding]
      /\ UNCHANGED <<engine, sessions, chat, reset, pending>>
  BY DEF Register, frontVars
<1>2. PICK a \in Chats : a = adding
  BY <1>1 DEF ServerInv, WaitersOK
<1>3. a # NoChat /\ \A d \in Chats : d # NoChat
  BY RolloutServerAssumption
<1>4. PICK i \in Ids : i = chat[a].rid
  BY <1>2, <1>3 DEF ServerInv, WaitersOK
<1>5. /\ waiters[i] = NoChat /\ WaiterOf(a, i)
      /\ waiters \in [Ids -> Chats \union {NoChat}]
  BY <1>2, <1>3, <1>4 DEF ServerInv, WaitersOK
<1>6. /\ waiters' \in [Ids -> Chats \union {NoChat}] /\ waiters'[i] = a
      /\ \A r \in Ids : r # i => waiters'[r] = waiters[r]
  BY <1>1, <1>2, <1>4, <1>5
<1>7. StepPhase
  BY <1>1 DEF StepPhase
<1>8. WaitersOK'
  <2>1. ASSUME NEW r \in Ids, waiters'[r] # NoChat
        PROVE  WaiterOf(waiters[r], r)'
    <3>1. PICK d \in Chats : d = waiters'[r]
      BY <1>6, <2>1
    <3>2. WaiterOf(d, r)
      BY <1>5, <1>6, <2>1, <3>1 DEF ServerInv, WaitersOK
    <3>3. WaiterOf(d, r)'
      BY <1>1, <1>7, <3>2, WaiterFrame
    <3> QED
      BY <3>1, <3>3
  <2>2. \A r \in Ids : waiters'[r] # NoChat => adding' # waiters'[r]
    BY <1>1
  <2> QED
    BY <1>1, <1>6, <2>1, <2>2 DEF WaitersOK
<1>9. PendingOK'
  <2>1. PendingOK
    BY DEF ServerInv
  <2>2. \A c \in Chats \intersect Range(pending) : adding' # c /\ \A r \in Ids : waiters'[r] # c
    BY <1>1, <1>2, <1>3, <1>6, <2>1 DEF PendingOK
  <2> QED
    BY <1>1, <2>1, <2>2 DEF PendingOK
<1>10. \A d \in Chats : HandlerOK(d)'
  <2>1. ASSUME NEW d \in Chats
        PROVE  HandlerOK(d)'
    <3>1. HandlerOK(d) /\ chat'[d] = chat[d]
      BY <1>1 DEF ServerInv
    <3>2. Awaited(d) => Awaited(d)'
      BY <1>1, <1>2, <1>3, <1>4, <1>5, <1>6 DEF Awaited
    <3> QED
      BY <3>1, <3>2, HandlerFrame
  <2> QED
    BY <2>1
<1>11. OffOK' /\ loop' \in {"off", "top", "drain", "reg", "step", "harvest", "fail"}
  BY <1>1 DEF OffOK
<1>12. ChatsOK' /\ AnswersWhole'
  BY <1>1 DEF ServerInv, ChatsOK, AnswersWhole
<1>13. Orderly(engine')
  BY <1>1 DEF ServerInv
<1>14. Orderly(engine)'
  BY <1>13
<1> QED
  BY <1>8, <1>9, <1>10, <1>11, <1>12, <1>14 DEF ServerInv

---------------------------------------------------------------------------
(* The engine thread: a step and what comes of it. *)

\* A step only changes the engine and what the waiters are owed.
LEMMA AnyStepKeeps ==
  ASSUME ServerInv, loop = "step", loop' \in {"harvest", "fail"}, Orderly(engine'), Served(engine, engine'),
         UNCHANGED <<sessions, chat, reset, pending, waiters, adding>>
  PROVE  ServerInv'
<1>1. ASSUME NEW r \in Ids, waiters[r] # NoChat
      PROVE  WaiterOf(waiters[r], r)'
  <2>1. PICK d \in Chats : d = waiters[r]
    BY <1>1 DEF ServerInv, WaitersOK
  <2>2. WaiterOf(d, r) /\ Orderly(engine)
    BY <1>1, <2>1 DEF ServerInv, WaitersOK
  <2>3. engine.req[r].st = "active"
    BY <2>2 DEF WaiterOf
  <2>4. engine'.req[r].st # "unborn"
    BY <2>3 DEF Served
  <2>5. ASSUME chat[d].pc = "wait", loop' # "fail"
        PROVE  Owed(chat[d], engine'.req[r], chat[d].toks \o engine'.last[r])
    <3>1. Owed(chat[d], engine.req[r], chat[d].toks)
      BY <2>2, <2>5 DEF WaiterOf
    <3>2. chat[d] \in ChatType
      BY DEF ServerInv, ChatsOK
    <3> DEFINE q == chat[d]
               s == chat[d].toks
               F == engine'
    <3> HIDE DEF q, s, F
    <3>3. Orderly(F) /\ Served(engine, F) /\ q \in ChatType /\ Owed(q, engine.req[r], s)
      BY <3>1, <3>2 DEF q, s, F
    <3>4. Owed(q, F.req[r], s \o F.last[r])
      BY <2>2, <3>3, OwedServed, ChatFields
    <3> QED
      BY <3>4 DEF q, s, F
  <2>6. WaiterOf(d, r)'
    BY <2>2, <2>4, <2>5 DEF WaiterOf
  <2> QED
    BY <2>1, <2>6
<1>2. adding = NoChat
  BY DEF ServerInv, WaitersOK
<1>3. WaitersOK'
  <2>1. /\ waiters \in [Ids -> Chats \union {NoChat}] /\ loop' # "reg"
        /\ \A r \in Ids : waiters[r] # NoChat => adding # waiters[r]
    BY DEF ServerInv, WaitersOK
  <2> QED
    BY <1>1, <1>2, <2>1 DEF WaitersOK
<1>4. PendingOK' /\ ChatsOK' /\ AnswersWhole'
  BY DEF ServerInv, PendingOK, ChatsOK, AnswersWhole
<1>5. \A d \in Chats : HandlerOK(d)'
  <2>1. ASSUME NEW d \in Chats
        PROVE  HandlerOK(d)'
    <3>1. HandlerOK(d) /\ (Awaited(d) => Awaited(d)')
      BY DEF ServerInv, Awaited
    <3> QED
      BY <3>1, HandlerFrame
  <2> QED
    BY <2>1
<1>6. OffOK' /\ loop' \in {"off", "top", "drain", "reg", "step", "harvest", "fail"} /\ Orderly(engine)'
  BY DEF OffOK
<1> QED
  BY <1>3, <1>4, <1>5, <1>6 DEF ServerInv

\* A step of the engine, failed or not, emits only what the waiters are owed.
LEMMA EngineStepsKeep ==
  ASSUME ServerInv, EngineStep \/ EngineStepRaises
  PROVE  ServerInv'
<1>1. /\ loop = "step" /\ loop' \in {"harvest", "fail"}
      /\ engine' \in Steps(engine) \union FailedSteps(engine)
      /\ UNCHANGED <<sessions, chat, reset, pending, waiters, adding>>
  BY DEF EngineStep, EngineStepRaises, frontVars
<1>2. PICK F \in Steps(engine) \union FailedSteps(engine) : F = engine'
  BY <1>1
<1>3. Orderly(F) /\ Served(engine, F)
  BY StepFacts DEF ServerInv
<1>4. Orderly(engine') /\ Served(engine, engine')
  BY <1>2, <1>3
<1> QED
  BY <1>1, <1>4, AnyStepKeeps

\* The waiter of a request is that of no other.
LEMMA WaitersApart ==
  ASSUME ServerInv, NEW c \in Chats, NEW r \in Ids, waiters[r] = c
  PROVE  WaiterOf(c, r) /\ chat[c].rid = r /\ adding # c /\ c \notin Range(pending)
<1>1. c # NoChat
  BY RolloutServerAssumption
<1>2. WaiterOf(c, r) /\ adding # c
  BY <1>1 DEF ServerInv, WaitersOK
<1>3. c \notin Range(pending)
  BY DEF ServerInv, PendingOK
<1> QED
  BY <1>2, <1>3 DEF WaiterOf

\* After a failed step every waiter has its event set.
LEMMA FailWaitersKeeps ==
  ASSUME ServerInv, FailWaiters
  PROVE  ServerInv'
<1>1. PICK yes \in BOOLEAN : yes = TRUE
  OBVIOUS
<1>2. /\ loop = "fail" /\ loop' = "top" /\ waiters' = [r \in Ids |-> NoChat]
      /\ UNCHANGED <<engine, sessions, reset, pending, adding>>
      /\ chat' = [c \in Chats |-> IF Waits(c) THEN Failed(chat[c], yes) ELSE chat[c]]
  BY <1>1, Zenon DEF FailWaiters, Failed
<1>3. \A c \in Chats : /\ Waits(c) => chat'[c] = Failed(chat[c], yes)
                       /\ ~Waits(c) => chat'[c] = chat[c]
  BY <1>2
<1>4. ASSUME NEW c \in Chats
      PROVE  /\ chat[c] \in ChatType /\ HandlerOK(c)
             /\ Waits(c) => /\ chat'[c] \in ChatType /\ chat'[c].pc = "wait"
                            /\ chat'[c].set /\ chat'[c].err
  <2>1. chat[c] \in ChatType /\ HandlerOK(c)
    BY DEF ServerInv, ChatsOK
  <2> QED
    BY ZenonT(60), <1>1, <1>3, <2>1, FailedChat DEF Waits
<1>5. adding = NoChat /\ \A c \in Chats : c # NoChat
  BY <1>2, RolloutServerAssumption DEF ServerInv, WaitersOK
<1>6. ChatsOK'
  <2>1. \A c \in Chats : chat'[c] \in ChatType
    BY <1>3, <1>4
  <2>2. chat' \in [Chats -> ChatType]
    BY <1>2, <2>1
  <2> QED
    BY <1>2, <2>2 DEF ServerInv, ChatsOK
<1>7. AnswersWhole'
  BY <1>3, <1>4 DEF ServerInv, AnswersWhole
<1>8. WaitersOK'
  BY <1>2, <1>5 DEF WaitersOK
<1>9. PendingOK'
  <2>1. \A c \in Chats \intersect Range(pending') :
          /\ chat'[c] = chat[c] \/ (chat'[c].pc = "timeout" /\ ~chat'[c].set /\ chat'[c].toks = << >>)
          /\ adding' # c
          /\ \A r \in Ids : waiters'[r] # c
    BY <1>2, <1>3, <1>5, WaitersApart DEF Waits
  <2>2. PendingOK /\ \A h \in Resets \intersect Range(pending') : reset'[h].pc = reset[h].pc
    BY <1>2 DEF ServerInv
  <2>3. pending' \in Seq(Chats \union Resets) /\ IsInjective(pending') /\ Range(pending') \subseteq Range(pending)
    BY <1>2, <2>2 DEF PendingOK
  <2> QED
    BY <2>1, <2>2, <2>3, PendingFrame
<1>10. \A c \in Chats : HandlerOK(c)'
  <2>1. ASSUME NEW c \in Chats
        PROVE  HandlerOK(c)'
    <3>1. CASE Waits(c)
      BY <1>4, <3>1 DEF HandlerOK
    <3>2. CASE ~Waits(c)
      <4>1. chat'[c] = chat[c] /\ HandlerOK(c)
        BY <1>3, <1>4, <3>2
      <4>2. chat[c].pc = "wait" /\ Awaited(c) => Awaited(c)'
        BY <1>2, <1>5, <3>2 DEF Awaited, Waits
      <4> QED
        BY <4>1, <4>2, HandlerFrame
    <3> QED
      BY <3>1, <3>2
  <2> QED
    BY <2>1
<1>11. Orderly(engine')
  BY <1>2 DEF ServerInv
<1>12. OffOK' /\ loop' \in {"off", "top", "drain", "reg", "step", "harvest", "fail"} /\ Orderly(engine)'
  BY <1>2, <1>11 DEF OffOK
<1> QED
  BY <1>6, <1>7, <1>8, <1>9, <1>10, <1>12 DEF ServerInv

\* A waiter that gets the tokens t of a step, and its event with the last of them.
Fed(q, t, s) == [q EXCEPT !.toks = q.toks \o t, !.set = s]

\* A waiter that is fed has the tokens of the step after its own.
LEMMA FedChat ==
  ASSUME NEW q \in ChatType, NEW t \in Seq(Nat), NEW s \in BOOLEAN
  PROVE  LET x == Fed(q, t, s)
         IN  /\ x \in ChatType /\ x.pc = q.pc /\ x.rid = q.rid /\ x.set = s /\ x.err = q.err
             /\ x.toks = q.toks \o t /\ x.from = q.from /\ x.want = q.want
             /\ x.exact = q.exact /\ x.cut = q.cut
<1> DEFINE y == [q EXCEPT !.toks = q.toks \o t]
<1>1. q = [pc |-> q.pc, key |-> q.key, rid |-> q.rid, toks |-> q.toks, set |-> q.set,
           err |-> q.err, cut |-> q.cut, exact |-> q.exact, from |-> q.from, want |-> q.want]
  BY ChatFields
<1>2. y = [pc |-> q.pc, key |-> q.key, rid |-> q.rid, toks |-> q.toks \o t, set |-> q.set,
           err |-> q.err, cut |-> q.cut, exact |-> q.exact, from |-> q.from, want |-> q.want]
  <2> DEFINE u == q.toks \o t
  <2> HIDE DEF u
  <2>1. y = [q EXCEPT !.toks = u]
    BY DEF u
  <2> HIDE DEF y
  <2>2. y = [pc |-> q.pc, key |-> q.key, rid |-> q.rid, toks |-> u, set |-> q.set,
             err |-> q.err, cut |-> q.cut, exact |-> q.exact, from |-> q.from, want |-> q.want]
    BY <1>1, <2>1
  <2> QED
    BY <2>2 DEF u
<1>3. Fed(q, t, s) = [y EXCEPT !.set = s]
  BY DEF Fed
<1> HIDE DEF y
<1>4. Fed(q, t, s) =
        [pc |-> q.pc, key |-> q.key, rid |-> q.rid, toks |-> q.toks \o t, set |-> s,
         err |-> q.err, cut |-> q.cut, exact |-> q.exact, from |-> q.from, want |-> q.want]
  BY <1>2, <1>3
<1>5. q.toks \o t \in Seq(Nat)
  BY ChatFields, ConcatProperties
<1>6. Fed(q, t, s) \in ChatType
  BY <1>4, <1>5, ChatFields DEF ChatType
<1> QED
  BY <1>4, <1>6

\* Every waiter is fed what its request has emitted, and is woken when that is over.
LEMMA HarvestKeeps ==
  ASSUME ServerInv, Harvest
  PROVE  ServerInv'
<1> DEFINE over == {r \in Ids : waiters[r] # NoChat /\ engine.req[r].st # "active"}
<1>1. /\ loop = "harvest" /\ loop' = "top"
      /\ UNCHANGED <<engine, sessions, reset, pending, adding>>
      /\ waiters' = [r \in Ids |-> IF r \in over THEN NoChat ELSE waiters[r]]
      /\ chat' = [c \in Chats |->
                    IF Waits(c)
                    THEN [chat[c] EXCEPT !.toks = @ \o engine.last[chat[c].rid],
                                         !.set = (@ \/ chat[c].rid \in over)]
                    ELSE chat[c]]
  BY DEF Harvest
<1>2. \A c \in Chats : ~Waits(c) => chat'[c] = chat[c]
  BY <1>1
<1>3. adding = NoChat /\ \A c \in Chats : c # NoChat
  BY <1>1, RolloutServerAssumption DEF ServerInv, WaitersOK
\* A waiter and what it is owed.
<1>4. ASSUME NEW c \in Chats, Waits(c)
      PROVE  \E r \in Ids :
               /\ waiters[r] = c /\ chat[c].rid = r /\ ~chat[c].set
               /\ Owed(chat[c], engine.req[r], chat[c].toks \o engine.last[r])
  <2>1. PICK r \in Ids : waiters[r] = c
    BY <1>4 DEF Waits
  <2>2. WaiterOf(c, r) /\ chat[c].rid = r
    BY <2>1, WaitersApart
  <2> QED
    BY <1>1, <1>4, <2>1, <2>2 DEF WaiterOf, Waits
<1>5. ASSUME NEW c \in Chats, Waits(c)
      PROVE  \E r \in Ids :
               /\ waiters[r] = c /\ chat[c].rid = r
               /\ chat'[c] \in ChatType /\ chat'[c].pc = "wait" /\ chat'[c].rid = r
               /\ chat'[c].set <=> r \in over
               /\ Owed(chat'[c], engine.req[r], chat'[c].toks)
  <2>1. PICK r \in Ids : /\ waiters[r] = c /\ chat[c].rid = r /\ ~chat[c].set
                         /\ Owed(chat[c], engine.req[r], chat[c].toks \o engine.last[r])
    BY <1>4, <1>5
  <2>2. PICK s \in BOOLEAN : s = (chat[c].set \/ chat[c].rid \in over)
    OBVIOUS
  <2>3. PICK t \in Seq(Nat) : t = engine.last[r]
    BY EngineFacts DEF ServerInv
  <2>4. PICK q \in ChatType : q = chat[c]
    BY DEF ServerInv, ChatsOK
  <2>5. chat'[c] = [chat[c] EXCEPT !.toks = @ \o engine.last[chat[c].rid],
                                   !.set = (@ \/ chat[c].rid \in over)]
    BY <1>1, <1>5
  <2>6. chat'[c] = Fed(q, t, s)
    BY <2>1, <2>2, <2>3, <2>4, <2>5, Zenon DEF Fed
  <2>7. /\ Fed(q, t, s) \in ChatType /\ Fed(q, t, s).pc = q.pc /\ Fed(q, t, s).rid = q.rid
        /\ Fed(q, t, s).set = s /\ Fed(q, t, s).toks = q.toks \o t
        /\ Fed(q, t, s).from = q.from /\ Fed(q, t, s).want = q.want
    BY FedChat
  <2>8. Owed(Fed(q, t, s), engine.req[r], Fed(q, t, s).toks)
    BY <2>1, <2>3, <2>4, <2>7 DEF Owed
  <2>9. s <=> r \in over
    BY <2>1, <2>2
  <2> HIDE DEF over
  <2> QED
    BY <1>5, <2>1, <2>4, <2>6, <2>7, <2>8, <2>9 DEF Waits
<1>6. \A r \in Ids : r \notin over => waiters'[r] = waiters[r]
  BY <1>1
<1>7. \A r \in Ids : r \in over => engine.req[r].st # "active" /\ waiters'[r] = NoChat
  BY <1>1
<1>8. \A r \in Ids : waiters'[r] # NoChat => r \notin over /\ waiters'[r] = waiters[r] /\ engine.req[r].st = "active"
  BY <1>1
<1>9. waiters' \in [Ids -> Chats \union {NoChat}]
  BY <1>1 DEF ServerInv, WaitersOK
<1> HIDE DEF over
<1>10. ChatsOK'
  <2>1. \A c \in Chats : chat'[c] \in ChatType
    BY <1>2, <1>5 DEF ServerInv, ChatsOK
  <2>2. chat' \in [Chats -> ChatType]
    BY <1>1, <2>1
  <2> QED
    BY <1>1, <2>2 DEF ServerInv, ChatsOK
<1>11. AnswersWhole'
  <2>1. ASSUME NEW c \in Chats, chat'[c].pc = "done"
        PROVE  chat'[c].exact \/ chat'[c].cut
    <3>1. ~Waits(c)
      BY <1>5, <2>1
    <3> QED
      BY <1>2, <2>1, <3>1 DEF ServerInv, AnswersWhole
  <2> QED
    BY <2>1 DEF AnswersWhole
<1>12. WaitersOK'
  <2>1. ASSUME NEW r \in Ids, waiters'[r] # NoChat
        PROVE  WaiterOf(waiters[r], r)'
    <3>1. PICK d \in Chats : d = waiters'[r]
      BY <1>9, <2>1
    <3>2. waiters[r] = d /\ r \notin over /\ engine.req[r].st = "active"
      BY <1>8, <2>1, <3>1
    <3>3. WaiterOf(d, r)
      BY <3>2, WaitersApart
    <3>4. CASE Waits(d)
      <4>1. /\ chat'[d].pc = "wait" /\ chat'[d].rid = r /\ ~chat'[d].set
            /\ Owed(chat'[d], engine.req[r], chat'[d].toks)
        <5>1. PICK i \in Ids :
                 /\ waiters[i] = d /\ chat[d].rid = i
                 /\ chat'[d].pc = "wait" /\ chat'[d].rid = i
                 /\ chat'[d].set <=> i \in over
                 /\ Owed(chat'[d], engine.req[i], chat'[d].toks)
          BY <1>5, <3>4
        <5>2. i = r
          BY <3>3, <5>1 DEF WaiterOf
        <5> QED
          BY <3>2, <5>1, <5>2
      <4> QED
        BY <1>1, <3>2, <4>1 DEF WaiterOf
    <3>5. CASE ~Waits(d)
      <4>1. chat'[d] = chat[d] /\ chat[d].pc # "wait"
        BY <1>2, <3>2, <3>5 DEF Waits
      <4> QED
        BY <1>1, <3>2, <3>3, <4>1 DEF WaiterOf
    <3> QED
      BY <3>1, <3>4, <3>5
  <2> QED
    BY <1>1, <1>3, <1>9, <2>1 DEF WaitersOK
<1>13. PendingOK'
  <2>1. ASSUME NEW c \in Chats \intersect Range(pending')
        PROVE  /\ chat'[c] = chat[c] \/ (chat'[c].pc = "timeout" /\ ~chat'[c].set /\ chat'[c].toks = << >>)
               /\ adding' # c
               /\ \A r \in Ids : waiters'[r] # c
    <3>1. \A r \in Ids : waiters[r] # c
      BY <1>1, WaitersApart
    <3>2. \A r \in Ids : waiters'[r] # c
      BY <1>3, <1>8, <3>1
    <3> QED
      BY <1>1, <1>2, <1>3, <3>1, <3>2 DEF Waits
  <2>2. PendingOK /\ \A h \in Resets \intersect Range(pending') : reset'[h].pc = reset[h].pc
    BY <1>1 DEF ServerInv
  <2>3. pending' \in Seq(Chats \union Resets) /\ IsInjective(pending') /\ Range(pending') \subseteq Range(pending)
    BY <1>1, <2>2 DEF PendingOK
  <2> QED
    BY <2>1, <2>2, <2>3, PendingFrame
<1>14. \A c \in Chats : HandlerOK(c)'
  <2>1. ASSUME NEW c \in Chats
        PROVE  HandlerOK(c)'
    <3>1. CASE ~Waits(c)
      <4>1. chat'[c] = chat[c] /\ HandlerOK(c)
        BY <1>2, <3>1 DEF ServerInv
      <4>2. chat[c].pc = "wait" /\ Awaited(c) => Awaited(c)'
        BY <1>1, <3>1 DEF Awaited, Waits
      <4> QED
        BY <4>1, <4>2, HandlerFrame
    <3>2. CASE Waits(c)
      <4>1. PICK r \in Ids :
               /\ waiters[r] = c /\ chat'[c].pc = "wait" /\ chat'[c].rid = r
               /\ chat'[c] \in ChatType
               /\ chat'[c].set <=> r \in over
               /\ Owed(chat'[c], engine.req[r], chat'[c].toks)
        BY <1>5, <3>2
      <4>2. CASE r \notin over
        <5>1. Awaited(c)'
          BY <1>6, <4>1, <4>2 DEF Awaited
        <5> QED
          BY <4>1, <4>2, <5>1 DEF HandlerOK
      <4>3. CASE r \in over
        <5>1. engine.req[r].st # "active"
          BY <1>7, <4>3
        <5>2. engine.req[r].out = chat'[c].from + chat'[c].want /\ chat'[c].from \in Nat /\ chat'[c].want \in Nat
          BY <4>1, <5>1, EngineFacts, ChatFields DEF Owed, ServerInv
        <5>3. engine.req[r].out - chat'[c].from = chat'[c].want
          BY <5>2
        <5>4. chat'[c].toks = TokensFrom(chat'[c].from, chat'[c].want)
          BY <4>1, <5>3 DEF Owed
        <5>5. chat'[c].toks = WholeTurn(c)'
          BY <5>4 DEF WholeTurn, TokensFrom
        <5> QED
          BY <4>1, <4>3, <5>5 DEF HandlerOK
      <4> QED
        BY <4>2, <4>3
    <3> QED
      BY <3>1, <3>2
  <2> QED
    BY <2>1
<1>15. Orderly(engine')
  BY <1>1 DEF ServerInv
<1>16. OffOK' /\ loop' \in {"off", "top", "drain", "reg", "step", "harvest", "fail"} /\ Orderly(engine)'
  BY <1>1, <1>15 DEF OffOK
<1> QED
  BY <1>10, <1>11, <1>12, <1>13, <1>14, <1>16 DEF ServerInv

\* Every step of the rollout server, unless a reset runs beside its engine thread.
LEMMA ServerKeeps ==
  ASSUME ServerInv, ServerNext, ~raced'
  PROVE  ServerInv' /\ ~raced
<1>1. CASE \E c \in Chats : ChatArrives(c) \/ EnsureEngineLoop(c) \/ Enqueue(c) \/ Answer(c) \/ TimeOut(c)
  BY <1>1, ChatArrivesKeeps, EnsureEngineLoopKeeps, EnqueueKeeps, AnswerKeeps, TimeOutKeeps
     DEF ChatArrives, EnsureEngineLoop, Enqueue, Answer, TimeOut, serverVars
<1>2. CASE \E h \in Resets : ResetArrives(h) \/ EnqueueReset(h)
  BY <1>2, ResetArrivesKeeps, EnqueueResetKeeps DEF ResetArrives, EnqueueReset, serverVars
<1>3. ASSUME NEW h \in Resets, DirectReset(h)
      PROVE  ServerInv' /\ ~raced
  <2>1. loop = "off" /\ ~raced
    BY <1>3 DEF DirectReset
  <2> QED
    BY <1>3, <2>1, DirectResetKeeps
<1>4. CASE EngineLoop
  <2>1. ServerInv'
    BY <1>4, TakeLockKeeps, SubmitKeeps, SubmitFailsKeeps, RegisterKeeps, RunResetKeeps,
       ReleaseLockKeeps, EngineStepsKeep, FailWaitersKeeps, HarvestKeeps DEF EngineLoop
  <2>2. raced' = raced
    BY <1>4 DEF EngineLoop, TakeLock, Submit, SubmitFails, Register, RunReset, ReleaseLock,
                EngineStep, EngineStepRaises, FailWaiters, Harvest
  <2> QED
    BY <2>1, <2>2
<1> QED
  BY <1>1, <1>2, <1>3, <1>4 DEF ServerNext, Handler

---------------------------------------------------------------------------
(* The OpenAI server. *)

\* One handler takes a step.
LEMMA ServeFrame ==
  ASSUME ServingInv, NEW c \in Chats, NEW x \in ChatType, chat' = [chat EXCEPT ![c] = x],
         Orderly(engine'), sessions' \in [Keys -> Ids \union {0}], reset' = reset,
         c \in InFlight \/ Concurrent \/ InFlight = {},
         x.pc \in ServingPlaces,
         x.pc \in {"idle", "lookup", "found", "add"} => x.toks = << >>,
         x.pc = "lookup" => x.key \in Keys,
         x.pc \in {"open", "loop", "step", "read"} => x.rid \in Ids /\ (~Concurrent => Streams(c)'),
         ~Concurrent /\ x.pc = "done" => x.exact \/ x.cut
  PROVE  ServingInv'
<1>1. /\ chat' \in [Chats -> ChatType] /\ chat'[c] = x
      /\ \A d \in Chats : d # c => chat'[d] = chat[d]
  BY OneChat DEF ServingInv
<1>2. ChatsOK'
  BY <1>1 DEF ServingInv, ChatsOK
<1>3. ASSUME NEW d \in Chats
      PROVE  /\ chat'[d].pc \in ServingPlaces
             /\ chat'[d].pc \in {"idle", "lookup", "found", "add"} => chat'[d].toks = << >>
             /\ chat'[d].pc = "lookup" => chat'[d].key \in Keys
             /\ chat'[d].pc \in {"open", "loop", "step", "read"} => chat'[d].rid \in Ids
  <2>1. CASE d = c
    BY <1>1, <2>1
  <2>2. CASE d # c
    BY <1>1, <2>2 DEF ServingInv, Streaming
  <2> QED
    BY <2>1, <2>2
<1>4. ASSUME ~Concurrent
      PROVE  /\ AnswersWhole' /\ \A e, d \in InFlight' : e = d
             /\ \A d \in Streaming' : Streams(d)'
  <2>1. \A d \in Chats : d # c => d \notin InFlight
    BY <1>4 DEF ServingInv
  <2>2. \A d \in Chats : d # c => d \notin InFlight' /\ d \notin Streaming'
    BY <1>1, <2>1 DEF InFlight, Streaming
  <2>3. AnswersWhole'
    BY <1>1, <1>4 DEF ServingInv, AnswersWhole
  <2>4. \A e, d \in InFlight' : e = d
    BY <2>2 DEF InFlight
  <2>5. ASSUME NEW d \in Streaming'
        PROVE  Streams(d)'
    <3>1. c \in Streaming' /\ d = c
      BY <2>2, <2>5 DEF Streaming
    <3>2. Streams(c)'
      BY <1>1, <1>4, <3>1 DEF Streaming
    <3> QED
      BY <3>1, <3>2
  <2> QED
    BY <2>3, <2>4, <2>5
<1>5. Orderly(engine)'
  OBVIOUS
<1>6. \A d \in Chats :
        /\ chat'[d].pc \in ServingPlaces
        /\ chat'[d].pc \in {"idle", "lookup", "found", "add"} => chat'[d].toks = << >>
        /\ chat'[d].pc = "lookup" => chat'[d].key \in Keys
        /\ d \in Streaming' => chat'[d].rid \in Ids
  BY <1>3 DEF Streaming
<1> QED
  BY <1>2, <1>4, <1>5, <1>6 DEF ServingInv, ServingPlaces

\* A chat that has looked its session up.
LookedUp(q, r, p) == [q EXCEPT !.rid = r, !.pc = p]

\* A chat that has looked its session up keeps what it has.
LEMMA LookedUpChat ==
  ASSUME NEW q \in ChatType, NEW r \in Ids \union {0}, NEW p \in Places
  PROVE  LET x == LookedUp(q, r, p)
         IN  x \in ChatType /\ x.pc = p /\ x.toks = q.toks
<1> DEFINE y == [q EXCEPT !.rid = r]
<1>1. q = [pc |-> q.pc, key |-> q.key, rid |-> q.rid, toks |-> q.toks, set |-> q.set,
           err |-> q.err, cut |-> q.cut, exact |-> q.exact, from |-> q.from, want |-> q.want]
  BY ChatFields
<1>2. y = [pc |-> q.pc, key |-> q.key, rid |-> r, toks |-> q.toks, set |-> q.set,
           err |-> q.err, cut |-> q.cut, exact |-> q.exact, from |-> q.from, want |-> q.want]
  BY <1>1
<1>3. LookedUp(q, r, p) = [y EXCEPT !.pc = p]
  BY DEF LookedUp
<1> HIDE DEF y
<1>4. LookedUp(q, r, p) =
        [pc |-> p, key |-> q.key, rid |-> r, toks |-> q.toks, set |-> q.set,
         err |-> q.err, cut |-> q.cut, exact |-> q.exact, from |-> q.from, want |-> q.want]
  BY <1>2, <1>3
<1>5. LookedUp(q, r, p) \in ChatType
  BY <1>4, ChatFields DEF ChatType
<1> QED
  BY <1>4, <1>5

\* A request that arrives at the OpenAI server keeps its invariant ...
LEMMA RequestArrivesKeeps ==
  ASSUME ServingInv, NEW c \in Chats, RequestArrives(c)
  PROVE  ServingInv'
<1>1. PICK k \in Keys \union {All} :
        chat' = [chat EXCEPT ![c].pc = IF k = All THEN "add" ELSE "lookup", ![c].key = k]
  BY DEF RequestArrives
<1>2. PICK p \in {"add", "lookup"} : p = IF k = All THEN "add" ELSE "lookup"
  OBVIOUS
<1> DEFINE x == Keyed(Moved(chat[c], p), k)
<1>3. /\ chat[c] \in ChatType /\ chat[c].pc = "idle" /\ chat[c].toks = << >>
      /\ Concurrent \/ InFlight = {}
      /\ Orderly(engine) /\ sessions \in [Keys -> Ids \union {0}]
      /\ UNCHANGED <<engine, sessions, reset>>
  BY DEF ServingInv, ChatsOK, RequestArrives
<1>4. x \in ChatType /\ x.pc = p /\ x.toks = << >> /\ x.key = k
  <2>1. p \in Places
    BY DEF Places
  <2> DEFINE y == Moved(chat[c], p)
  <2>2. y \in ChatType /\ y.pc = p /\ y.toks = << >>
    BY <1>3, <2>1, MovedChat
  <2> HIDE DEF y
  <2>3. /\ Keyed(y, k) \in ChatType /\ Keyed(y, k).pc = p /\ Keyed(y, k).toks = << >>
        /\ Keyed(y, k).key = k
    BY <2>2, KeyedChat
  <2>4. x = Keyed(y, k)
    BY DEF y
  <2> HIDE DEF x
  <2> QED
    BY <2>3, <2>4
<1>5. chat' = [chat EXCEPT ![c] = x]
  BY <1>1, <1>2 DEF Moved, Keyed
<1> HIDE DEF x
<1>6. x.pc \in ServingPlaces /\ x.pc \notin {"open", "loop", "step", "read"} /\ x.pc # "done"
  BY <1>2, <1>4 DEF ServingPlaces
<1> QED
  BY <1>2, <1>3, <1>4, <1>5, <1>6, ServeFrame

\* ... and so does the one that looks its session up.
LEMMA LookUpKeeps ==
  ASSUME ServingInv, NEW c \in Chats, LookUp(c)
  PROVE  ServingInv'
<1>1. /\ chat[c] \in ChatType /\ chat[c].pc = "lookup" /\ chat[c].toks = << >> /\ c \in InFlight
      /\ chat[c].key \in Keys
      /\ Orderly(engine) /\ sessions \in [Keys -> Ids \union {0}]
      /\ UNCHANGED <<engine, sessions, reset>>
  BY DEF ServingInv, ChatsOK, LookUp, InFlight
<1>2. PICK r \in Ids \union {0} : r = sessions[chat[c].key]
  BY <1>1
<1>3. PICK p \in {"add", "found"} : p = IF r \in Paused(engine) THEN "found" ELSE "add"
  OBVIOUS
<1> DEFINE x == LookedUp(chat[c], r, p)
<1>4. x \in ChatType /\ x.pc = p /\ x.toks = << >>
  <2>1. p \in Places
    BY DEF Places
  <2> QED
    BY <1>1, <2>1, LookedUpChat
<1>5. chat' = [chat EXCEPT ![c] = x]
  BY <1>2, <1>3 DEF LookUp, LookedUp
<1> HIDE DEF x
<1>6. x.pc \in ServingPlaces /\ x.pc \notin {"open", "loop", "step", "read"} /\ x.pc \notin {"done", "lookup"}
  BY <1>3, <1>4 DEF ServingPlaces
<1> QED
  BY <1>1, <1>4, <1>5, <1>6, ServeFrame

\* The handler leaves with an error, whatever it did to the engine.
LEMMA ServeEnds ==
  ASSUME ServingInv, NEW c \in InFlight, chat' = [chat EXCEPT ![c] = Ended(c, "error")],
         Orderly(engine'), UNCHANGED <<sessions, reset>>
  PROVE  ServingInv'
<1> DEFINE x == Ended(c, "error")
<1>1. c \in Chats
  BY DEF InFlight
<1>2. x \in ChatType /\ x.pc = "error"
  BY <1>1, EndedFacts DEF ServingInv
<1>3. sessions' \in [Keys -> Ids \union {0}]
  BY DEF ServingInv, ChatsOK
<1> HIDE DEF x
<1>4. chat' = [chat EXCEPT ![c] = x]
  BY DEF x
<1>5. x.pc \in ServingPlaces
  BY <1>2 DEF ServingPlaces
<1> QED
  BY <1>1, <1>2, <1>3, <1>4, <1>5, ServeFrame

\* A turn that is started is owed to its handler, and to it alone.
LEMMA StartTurnKeeps ==
  ASSUME ServingInv, NEW c \in InFlight, NEW E, Orderly(E), chat[c].toks = << >>,
         NEW n \in TurnLengths, NEW k \in Chunks, StartTurn(c, E, n, k)
  PROVE  ServingInv'
<1> DEFINE i == NextId(E)
<1>1. c \in Chats /\ chat[c] \in ChatType /\ n \in Nat /\ k \in Nat /\ sessions \in [Keys -> Ids \union {0}]
  BY StepEngineAssumption DEF InFlight, ServingInv, ChatsOK
<1>2. PICK hold \in BOOLEAN : hold = (chat[c].key # All)
  OBVIOUS
<1> DEFINE F == AddRequest(E, n, k, hold)
           x == Begun(Moved(chat[c], "open"), i, 0, n)
<1>3. /\ CanAdd(E) /\ engine' = F /\ reset' = reset
      /\ sessions' = [q \in Keys |-> IF q = chat[c].key THEN i ELSE sessions[q]]
      /\ chat' = [chat EXCEPT ![c].pc = "open", ![c].rid = i, ![c].from = 0, ![c].want = n]
  BY <1>2 DEF StartTurn
<1>4. i \in Ids
  BY <1>3 DEF CanAdd
<1>5. chat' = [chat EXCEPT ![c] = x]
  BY <1>3 DEF Begun, Moved
<1> HIDE DEF i
<1>6. /\ Orderly(F)
      /\ F.req[i] = [st |-> "active", hold |-> hold, chunks |-> k, left |-> n, out |-> 0]
  BY <1>1, <1>3, AddFacts DEF i
<1>7. x \in ChatType /\ x.pc = "open" /\ x.rid = i /\ x.from = 0 /\ x.want = n /\ x.toks = << >>
  <2>1. "open" \in Places /\ 0 \in Nat
    BY DEF Places
  <2> DEFINE y == Moved(chat[c], "open")
  <2>2. y \in ChatType /\ y.pc = "open" /\ y.toks = << >>
    BY <1>1, <2>1, MovedChat
  <2> HIDE DEF y
  <2>0. PICK f \in Nat : f = 0
    OBVIOUS
  <2> DEFINE z == Begun(y, i, f, n)
  <2>3. z \in ChatType /\ z.pc = "open" /\ z.rid = i /\ z.from = f /\ z.want = n /\ z.toks = << >>
    <3>1. y \in ChatType /\ n \in Nat
      BY <1>1, <2>2
    <3>2. /\ z \in ChatType /\ z.rid = i /\ z.from = f /\ z.want = n
          /\ z.pc = y.pc /\ z.toks = y.toks
      BY SMTT(60), <1>4, <3>1, BegunChat
    <3> HIDE DEF z
    <3> QED
      BY <2>2, <3>2
  <2>4. x = z
    BY <2>0 DEF y
  <2> HIDE DEF x, z
  <2> QED
    BY <2>0, <2>3, <2>4
<1> HIDE DEF F, x
<1>8. chat'[c] = x
  BY <1>1, <1>5, <1>7, OneChat DEF ServingInv
<1>9. Owed(x, F.req[i], << >>)
  <2>1. F.req[i].st = "active" /\ F.req[i].left = n /\ F.req[i].out = 0
    BY <1>6
  <2>2. TokensFrom(0, 0) = << >>
    BY TokensFacts
  <2> QED
    BY <1>1, <1>7, <2>1, <2>2 DEF Owed
<1>10. Streams(c)'
  <2>1. F.req[i].st # "unborn"
    BY <1>6
  <2> QED
    BY <1>3, <1>7, <1>8, <1>9, <2>1 DEF Streams
<1>11. sessions' \in [Keys -> Ids \union {0}]
  BY <1>1, <1>3, <1>4
<1>12. x.pc \in ServingPlaces
  BY <1>7 DEF ServingPlaces
<1> QED
  BY <1>1, <1>3, <1>4, <1>5, <1>6, <1>7, <1>10, <1>11, <1>12, ServeFrame

\* A new request, or one that takes the place of the request its session has, keeps the invariant.
LEMMA AddOrReplaceKeeps ==
  ASSUME ServingInv, NEW c \in Chats, AddTurn(c) \/ ReplaceTurn(c)
  PROVE  ServingInv'
<1>1. /\ chat[c].pc \in {"add", "found"} /\ c \in InFlight /\ chat[c].toks = << >>
      /\ Orderly(engine)
  BY DEF AddTurn, ReplaceTurn, InFlight, ServingInv
<1>2. CASE AddTurn(c)
  BY <1>1, <1>2, StartTurnKeeps DEF AddTurn
<1>3. CASE ReplaceTurn(c)
  <2>1. PICK n \in TurnLengths, k \in Chunks : StartTurn(c, FinishRequest(engine, chat[c].rid), n, k)
    BY <1>3 DEF ReplaceTurn
  <2> DEFINE E == FinishRequest(engine, chat[c].rid)
  <2>2. Orderly(E)
    BY <1>1, FinishFacts DEF FinishRequest
  <2> HIDE DEF E
  <2>3. StartTurn(c, E, n, k)
    BY <2>1 DEF E
  <2> QED
    BY <1>1, <2>2, <2>3, StartTurnKeeps
<1> QED
  BY <1>2, <1>3

\* A chat whose request resumes.
Resumed(q, f, n) == [q EXCEPT !.pc = "open", !.want = n, !.from = f]

\* A chat whose turn is resumed is owed the turn from what its request has emitted before.
LEMMA ResumedChat ==
  ASSUME NEW q \in ChatType, NEW f \in Nat, NEW n \in Nat
  PROVE  LET x == Resumed(q, f, n)
         IN  /\ x \in ChatType /\ x.pc = "open" /\ x.rid = q.rid /\ x.from = f /\ x.want = n
             /\ x.toks = q.toks
<1> DEFINE y == [q EXCEPT !.pc = "open"]
           z == [y EXCEPT !.want = n]
<1>1. q = [pc |-> q.pc, key |-> q.key, rid |-> q.rid, toks |-> q.toks, set |-> q.set,
           err |-> q.err, cut |-> q.cut, exact |-> q.exact, from |-> q.from, want |-> q.want]
  BY ChatFields
<1>2. y = [pc |-> "open", key |-> q.key, rid |-> q.rid, toks |-> q.toks, set |-> q.set,
           err |-> q.err, cut |-> q.cut, exact |-> q.exact, from |-> q.from, want |-> q.want]
  BY <1>1
<1>3. Resumed(q, f, n) = [z EXCEPT !.from = f]
  BY DEF Resumed
<1> HIDE DEF y
<1>4. z = [pc |-> "open", key |-> q.key, rid |-> q.rid, toks |-> q.toks, set |-> q.set,
           err |-> q.err, cut |-> q.cut, exact |-> q.exact, from |-> q.from, want |-> n]
  BY <1>2
<1> HIDE DEF z
<1>5. Resumed(q, f, n) =
        [pc |-> "open", key |-> q.key, rid |-> q.rid, toks |-> q.toks, set |-> q.set,
         err |-> q.err, cut |-> q.cut, exact |-> q.exact, from |-> f, want |-> n]
  BY <1>3, <1>4
<1>6. "open" \in Places
  BY DEF Places
<1>7. Resumed(q, f, n) \in ChatType
  BY <1>5, <1>6, ChatFields DEF ChatType
<1> QED
  BY <1>5, <1>7

\* A resumed turn is owed to its handler.
LEMMA ResumeTurnKeeps ==
  ASSUME ServingInv, NEW c \in Chats, ResumeTurn(c)
  PROVE  ServingInv'
<1>1. /\ chat[c].pc = "found" /\ c \in InFlight /\ chat[c].toks = << >> /\ chat[c] \in ChatType
      /\ Orderly(engine) /\ sessions \in [Keys -> Ids \union {0}]
  BY DEF ResumeTurn, InFlight, ServingInv, ChatsOK
<1>2. CASE chat[c].rid \notin Paused(engine)
  <2>1. /\ chat' = [chat EXCEPT ![c] = Ended(c, "error")]
        /\ UNCHANGED <<engine, sessions, reset>>
    BY <1>2 DEF ResumeTurn
  <2> QED
    BY <1>1, <2>1, ServeEnds
<1>3. CASE chat[c].rid \in Paused(engine)
  <2>1. PICK i \in Paused(engine) : i = chat[c].rid
    BY <1>3
  <2>2. PICK n \in TurnLengths, k \in Chunks :
          /\ engine' = ResumeRequest(engine, i, n, k, TRUE)
          /\ chat' = [chat EXCEPT ![c].pc = "open", ![c].want = n, ![c].from = engine.req[i].out]
          /\ UNCHANGED <<sessions, reset>>
    BY <1>3, <2>1 DEF ResumeTurn
  <2>3. PICK yes \in BOOLEAN : yes = TRUE
    OBVIOUS
  <2>4. n \in Nat /\ k \in Nat /\ i \in Ids
    BY StepEngineAssumption DEF Paused
  <2>5. PICK f \in Nat : f = engine.req[i].out
    BY <1>1, <2>4, EngineFacts
  <2> DEFINE F == ResumeRequest(engine, i, n, k, yes)
             x == Resumed(chat[c], f, n)
  <2>6. engine' = F
    BY <2>2, <2>3, Zenon
  <2>7. /\ Orderly(F) /\ F.req[i].st = "active" /\ F.req[i].out = f /\ F.req[i].left = n
    BY <1>1, <2>4, <2>5, ResumeFacts
  <2>8. /\ x \in ChatType /\ x.pc = "open" /\ x.rid = i /\ x.from = f /\ x.want = n
        /\ x.toks = << >>
    <3>1. PICK q \in ChatType : q = chat[c]
      BY <1>1
    <3> DEFINE z == Resumed(q, f, n)
    <3>2. /\ z \in ChatType /\ z.pc = "open" /\ z.rid = q.rid /\ z.from = f /\ z.want = n
          /\ z.toks = q.toks
      BY <2>4, ResumedChat
    <3>3. x = z
      BY <3>1
    <3> HIDE DEF x, z
    <3> QED
      BY <1>1, <2>1, <3>1, <3>2, <3>3
  <2>9. chat' = [chat EXCEPT ![c] = x]
    BY <2>2, <2>5 DEF Resumed
  <2> HIDE DEF F, x
  <2>10. chat'[c] = x
    BY <2>8, <2>9, OneChat DEF ServingInv
  <2>11. Owed(x, F.req[i], << >>)
    <3>1. f - f = 0 /\ TokensFrom(f, 0) = << >>
      BY TokensFacts
    <3> QED
      BY <2>4, <2>7, <2>8, <3>1 DEF Owed
  <2>12. Streams(c)'
    BY <2>6, <2>7, <2>8, <2>10, <2>11 DEF Streams
  <2>13. x.pc \in ServingPlaces
    BY <2>8 DEF ServingPlaces
  <2>14. Orderly(engine') /\ sessions' \in [Keys -> Ids \union {0}] /\ reset' = reset
    BY <1>1, <2>2, <2>6, <2>7
  <2> QED
    BY <1>1, <2>4, <2>8, <2>9, <2>12, <2>13, <2>14, ServeFrame
<1> QED
  BY <1>2, <1>3

\* A turn that raises leaves its handler without a stream.
LEMMA TurnRaisesKeeps ==
  ASSUME ServingInv, NEW c \in Chats, TurnRaises(c)
  PROVE  ServingInv'
<1>1. /\ c \in InFlight /\ Orderly(engine)
      /\ chat' = [chat EXCEPT ![c] = Ended(c, "error")] /\ UNCHANGED <<sessions, reset>>
  BY DEF TurnRaises, InFlight, ServingInv
<1>2. Orderly(FinishRequest(engine, chat[c].rid))
  BY <1>1, FinishFacts DEF FinishRequest
<1>3. Orderly(engine')
  BY <1>1, <1>2 DEF TurnRaises
<1> QED
  BY <1>1, <1>3, ServeEnds

\* A handler that streams on.
LEMMA StreamGoesOn ==
  ASSUME ServingInv, NEW c \in Streaming, NEW p \in {"loop", "step", "read"},
         chat' = [chat EXCEPT ![c] = Moved(chat[c], p)], Orderly(engine'), UNCHANGED <<sessions, reset>>,
         ~Concurrent => Streams(c)'
  PROVE  ServingInv'
<1> DEFINE x == Moved(chat[c], p)
<1>1. c \in Chats /\ c \in InFlight /\ chat[c] \in ChatType /\ chat[c].rid \in Ids
  BY DEF Streaming, InFlight, ServingInv, ChatsOK
<1>2. x \in ChatType /\ x.pc = p /\ x.rid \in Ids
  <2>1. p \in Places
    BY DEF Places
  <2> QED
    BY <1>1, <2>1, MovedChat
<1>3. chat' = [chat EXCEPT ![c] = x] /\ sessions' \in [Keys -> Ids \union {0}]
  BY DEF ServingInv, ChatsOK
<1> HIDE DEF x
<1>4. x.pc \in ServingPlaces
  BY <1>2 DEF ServingPlaces
<1> QED
  BY <1>1, <1>2, <1>3, <1>4, ServeFrame

\* What a handler that goes on is owed.
LEMMA MovedStream ==
  ASSUME ServingInv, NEW c \in Streaming, NEW p \in {"loop", "step", "read"},
         chat' = [chat EXCEPT ![c] = Moved(chat[c], p)]
  PROVE  /\ c \in Chats /\ chat'[c].pc = p /\ chat'[c].rid = chat[c].rid /\ chat'[c].toks = chat[c].toks
         /\ chat'[c].from = chat[c].from /\ chat'[c].want = chat[c].want
<1> DEFINE x == Moved(chat[c], p)
<1>1. c \in Chats /\ chat[c] \in ChatType
  BY DEF Streaming, ServingInv, ChatsOK
<1>2. /\ x \in ChatType /\ x.pc = p /\ x.rid = chat[c].rid /\ x.toks = chat[c].toks
      /\ x.from = chat[c].from /\ x.want = chat[c].want
  <2>1. p \in Places
    BY DEF Places
  <2> QED
    BY <1>1, <2>1, MovedChat
<1> HIDE DEF x
<1>3. chat' = [chat EXCEPT ![c] = x]
  BY DEF x
<1> QED
  BY <1>1, <1>2, <1>3, OneChat DEF ServingInv

\* A stream that opens keeps the invariant ...
LEMMA StreamOpensKeeps ==
  ASSUME ServingInv, NEW c \in Chats, StreamOpens(c)
  PROVE  ServingInv'
<1>1. /\ chat[c].pc = "open" /\ c \in Streaming /\ c \in InFlight /\ Orderly(engine)
      /\ UNCHANGED <<engine, sessions, reset>>
  BY DEF StreamOpens, Streaming, InFlight, ServingInv
<1>2. CASE ~Known(engine, chat[c].rid)
  <2>1. chat' = [chat EXCEPT ![c] = Ended(c, "error")]
    BY <1>2 DEF StreamOpens
  <2> QED
    BY <1>1, <2>1, ServeEnds
<1>3. CASE Known(engine, chat[c].rid)
  <2>1. chat' = [chat EXCEPT ![c] = Moved(chat[c], "loop")]
    BY <1>3 DEF StreamOpens, Moved
  <2>2. /\ chat'[c].pc = "loop" /\ chat'[c].rid = chat[c].rid /\ chat'[c].toks = chat[c].toks
        /\ chat'[c].from = chat[c].from /\ chat'[c].want = chat[c].want
    BY <1>1, <2>1, MovedStream
  <2>3. ~Concurrent => Streams(c)'
    BY <1>1, <2>2 DEF ServingInv, Streams, Owed
  <2> QED
    BY <1>1, <2>1, <2>3, StreamGoesOn
<1> QED
  BY <1>2, <1>3

\* ... the one that ends has the whole turn ...
LEMMA StreamTestsKeeps ==
  ASSUME ServingInv, NEW c \in Chats, StreamTests(c)
  PROVE  ServingInv'
<1>1. /\ chat[c].pc = "loop" /\ c \in Streaming /\ c \in InFlight /\ Orderly(engine)
      /\ chat[c] \in ChatType /\ chat[c].rid \in Ids /\ sessions \in [Keys -> Ids \union {0}]
      /\ UNCHANGED <<engine, sessions, reset>>
  BY DEF StreamTests, Streaming, InFlight, ServingInv, ChatsOK
<1>2. CASE engine.req[chat[c].rid].st = "active"
  <2>1. chat' = [chat EXCEPT ![c] = Moved(chat[c], "step")]
    BY <1>2 DEF StreamTests, Moved
  <2>2. /\ chat'[c].pc = "step" /\ chat'[c].rid = chat[c].rid /\ chat'[c].toks = chat[c].toks
        /\ chat'[c].from = chat[c].from /\ chat'[c].want = chat[c].want
    BY <1>1, <2>1, MovedStream
  <2>3. ~Concurrent => Streams(c)'
    BY <1>1, <2>2 DEF ServingInv, Streams, Owed
  <2> QED
    BY <1>1, <2>1, <2>3, StreamGoesOn
<1>3. CASE engine.req[chat[c].rid].st # "active"
  <2> DEFINE x == Ended(c, "done")
  <2>1. chat' = [chat EXCEPT ![c] = x]
    BY <1>3 DEF StreamTests
  <2>2. x \in ChatType /\ x.pc = "done" /\ (x.exact <=> chat[c].toks = WholeTurn(c))
    BY EndedFacts DEF ServingInv
  <2>3. ~Concurrent => chat[c].toks = WholeTurn(c)
    <3> SUFFICES ASSUME ~Concurrent
                 PROVE  chat[c].toks = WholeTurn(c)
      OBVIOUS
    <3>1. Streams(c)
      BY <1>1 DEF ServingInv
    <3>2. /\ chat[c].toks = TokensFrom(chat[c].from, engine.req[chat[c].rid].out - chat[c].from)
          /\ engine.req[chat[c].rid].out + 0 = chat[c].from + chat[c].want
      BY <1>1, <1>3, <3>1 DEF Streams, Owed
    <3>3. engine.req[chat[c].rid].out \in Nat /\ chat[c].from \in Nat /\ chat[c].want \in Nat
      BY <1>1, EngineFacts, ChatFields
    <3>4. engine.req[chat[c].rid].out - chat[c].from = chat[c].want
      BY <3>2, <3>3
    <3> QED
      BY <3>2, <3>4 DEF TokensFrom, WholeTurn
  <2> HIDE DEF x
  <2>4. x.pc \in ServingPlaces
    BY <2>2 DEF ServingPlaces
  <2> QED
    BY <1>1, <2>1, <2>2, <2>3, <2>4, ServeFrame
<1> QED
  BY <1>2, <1>3

\* ... the one that steps the engine has yet to read what the step emitted ...
LEMMA StreamStepsKeeps ==
  ASSUME ServingInv, NEW c \in Chats, StreamSteps(c) \/ StreamRaises(c)
  PROVE  ServingInv'
<1>1. /\ chat[c].pc = "step" /\ c \in Streaming /\ c \in InFlight /\ Orderly(engine)
      /\ chat[c] \in ChatType /\ chat[c].rid \in Ids
      /\ engine' \in Steps(engine) \union FailedSteps(engine)
      /\ UNCHANGED <<sessions, reset>>
  BY DEF StreamSteps, StreamRaises, Streaming, InFlight, ServingInv, ChatsOK
<1>2. PICK F \in Steps(engine) \union FailedSteps(engine) : F = engine'
  BY <1>1
<1>3. Orderly(F) /\ Served(engine, F)
  BY <1>1, StepFacts
<1>4. Orderly(engine')
  BY <1>2, <1>3
<1>5. CASE chat' = [chat EXCEPT ![c] = Ended(c, "error")]
  BY <1>1, <1>4, <1>5, ServeEnds
<1>6. CASE chat' = [chat EXCEPT ![c] = Moved(chat[c], "read")]
  <2>1. /\ chat'[c].pc = "read" /\ chat'[c].rid = chat[c].rid /\ chat'[c].toks = chat[c].toks
        /\ chat'[c].from = chat[c].from /\ chat'[c].want = chat[c].want
    BY <1>1, <1>6, MovedStream
  <2>2. ASSUME ~Concurrent
        PROVE  Streams(c)'
    <3> DEFINE q == chat[c]
               r == chat[c].rid
               s == chat[c].toks
    <3>1. q \in ChatType /\ r \in Ids /\ engine.req[r].st # "unborn" /\ Owed(q, engine.req[r], s)
      BY <1>1, <2>2 DEF ServingInv, Streams
    <3>2. chat'[c].from = q.from /\ chat'[c].want = q.want /\ chat'[c].rid = r /\ chat'[c].toks = s
      BY <2>1
    <3> HIDE DEF q, r, s
    <3>3. Owed(q, F.req[r], s \o F.last[r])
      BY <1>1, <1>3, <3>1, OwedServed, ChatFields
    <3>4. F.req[r].st # "unborn"
      BY <1>3, <3>1 DEF Served
    <3>5. Owed(chat'[c], F.req[r], s \o F.last[r])
      BY <3>2, <3>3 DEF Owed
    <3> QED
      BY <1>2, <2>1, <3>2, <3>4, <3>5 DEF Streams
  <2> QED
    BY <1>1, <1>4, <1>6, <2>2, StreamGoesOn
<1>7. \/ chat' = [chat EXCEPT ![c] = Ended(c, "error")]
      \/ chat' = [chat EXCEPT ![c] = Moved(chat[c], "read")]
  BY DEF StreamSteps, StreamRaises, Moved
<1> QED
  BY <1>5, <1>6, <1>7

\* A chat that has got the tokens t and goes on to p.
Yielded(q, t) == [q EXCEPT !.pc = "loop", !.toks = q.toks \o t]

\* A chat back at the head of its loop.
LEMMA LoopingChat ==
  ASSUME NEW q \in ChatType
  PROVE  [q EXCEPT !.pc = "loop"]
           = [pc |-> "loop", key |-> q.key, rid |-> q.rid, toks |-> q.toks, set |-> q.set,
              err |-> q.err, cut |-> q.cut, exact |-> q.exact, from |-> q.from, want |-> q.want]
<1>1. q = [pc |-> q.pc, key |-> q.key, rid |-> q.rid, toks |-> q.toks, set |-> q.set,
           err |-> q.err, cut |-> q.cut, exact |-> q.exact, from |-> q.from, want |-> q.want]
  BY ChatFields
<1> QED
  BY <1>1

\* A stream that yields has the tokens after the ones it had.
LEMMA YieldedChat ==
  ASSUME NEW q \in ChatType, NEW t \in Seq(Nat)
  PROVE  LET x == Yielded(q, t)
         IN  /\ x \in ChatType /\ x.pc = "loop" /\ x.rid = q.rid /\ x.toks = q.toks \o t
             /\ x.from = q.from /\ x.want = q.want
<1> DEFINE y == [q EXCEPT !.pc = "loop"]
           u == q.toks \o t
<1>1. u \in Seq(Nat) /\ "loop" \in Places
  BY ChatFields, ConcatProperties DEF Places
<1> HIDE DEF u
<1>2. y = [pc |-> "loop", key |-> q.key, rid |-> q.rid, toks |-> q.toks, set |-> q.set,
           err |-> q.err, cut |-> q.cut, exact |-> q.exact, from |-> q.from, want |-> q.want]
  BY LoopingChat
<1>3. Yielded(q, t) = [y EXCEPT !.toks = u]
  BY DEF Yielded, u
<1> HIDE DEF y
<1>4. Yielded(q, t) =
        [pc |-> "loop", key |-> q.key, rid |-> q.rid, toks |-> u, set |-> q.set,
         err |-> q.err, cut |-> q.cut, exact |-> q.exact, from |-> q.from, want |-> q.want]
  BY <1>2, <1>3
<1>5. Yielded(q, t) \in ChatType
  BY <1>1, <1>4, ChatFields DEF ChatType
<1> QED
  BY <1>4, <1>5 DEF u

\* ... and the one that yields has it.
LEMMA StreamYieldsKeeps ==
  ASSUME ServingInv, NEW c \in Chats, StreamYields(c)
  PROVE  ServingInv'
<1>1. /\ chat[c].pc = "read" /\ c \in Streaming /\ c \in InFlight /\ Orderly(engine)
      /\ chat[c] \in ChatType /\ chat[c].rid \in Ids /\ sessions \in [Keys -> Ids \union {0}]
      /\ UNCHANGED <<engine, sessions, reset>>
  BY DEF StreamYields, Streaming, InFlight, ServingInv, ChatsOK
<1>2. PICK r \in Ids : r = chat[c].rid
  BY <1>1
<1>3. PICK t \in Seq(Nat) : t = engine.last[r]
  BY <1>1, EngineFacts
<1>4. PICK q \in ChatType : q = chat[c]
  BY <1>1
<1> DEFINE x == Yielded(q, t)
<1>5. chat' = [chat EXCEPT ![c] = x]
  BY <1>2, <1>3, <1>4 DEF StreamYields, Yielded
<1>6. /\ x \in ChatType /\ x.pc = "loop" /\ x.rid = q.rid /\ x.toks = q.toks \o t
      /\ x.from = q.from /\ x.want = q.want
  BY YieldedChat
<1> HIDE DEF x
<1>7. chat'[c] = x
  BY <1>5, <1>6, OneChat DEF ServingInv
<1>8. ~Concurrent => Streams(c)'
  BY <1>1, <1>2, <1>3, <1>4, <1>6, <1>7 DEF ServingInv, Streams, Owed
<1>9. x.pc \in ServingPlaces
  BY <1>6 DEF ServingPlaces
<1>10. x.rid \in Ids
  BY <1>1, <1>4, <1>6
<1> QED
  BY <1>1, <1>5, <1>6, <1>8, <1>9, <1>10, ServeFrame

\* A chat whose request is finished under it.
CutOff(q, yes) == [q EXCEPT !.cut = yes]

\* A chat whose request is finished under it keeps the tokens it has.
LEMMA CutOffChat ==
  ASSUME NEW q \in ChatType, NEW yes \in BOOLEAN
  PROVE  LET x == CutOff(q, yes)
         IN  x \in ChatType /\ x.pc = q.pc /\ x.rid = q.rid /\ x.toks = q.toks /\ x.key = q.key
<1>1. q = [pc |-> q.pc, key |-> q.key, rid |-> q.rid, toks |-> q.toks, set |-> q.set,
           err |-> q.err, cut |-> q.cut, exact |-> q.exact, from |-> q.from, want |-> q.want]
  BY ChatFields
<1>2. CutOff(q, yes) =
        [pc |-> q.pc, key |-> q.key, rid |-> q.rid, toks |-> q.toks, set |-> q.set,
         err |-> q.err, cut |-> yes, exact |-> q.exact, from |-> q.from, want |-> q.want]
  BY <1>1 DEF CutOff
<1> QED
  BY <1>2, ChatFields DEF ChatType

\* A reset of the OpenAI server leaves a request that is in flight no stream to trust.
LEMMA FinishSessionsKeeps ==
  ASSUME ServingInv, NEW h \in Resets, FinishSessions(h)
  PROVE  ServingInv'
<1>1. PICK k \in Keys \union {All} :
        LET ks == IF k = All THEN Keys ELSE {k}
            gone == {sessions[q] : q \in ks} \ {0}
        IN /\ engine' = FinishRequests(engine, gone)
           /\ sessions' = [q \in Keys |-> IF q \in ks THEN 0 ELSE sessions[q]]
           /\ chat' = [c \in Chats |->
                         IF c \in InFlight /\ chat[c].rid \in gone
                         THEN [chat[c] EXCEPT !.cut = TRUE] ELSE chat[c]]
           /\ reset' = [reset EXCEPT ![h] = [pc |-> "done", key |-> k]]
  BY DEF FinishSessions
<1>2. PICK yes \in BOOLEAN : yes = TRUE
  OBVIOUS
<1> DEFINE ks == IF k = All THEN Keys ELSE {k}
           gone == {sessions[q] : q \in ks} \ {0}
           hit(c) == c \in InFlight /\ chat[c].rid \in gone
<1>3. /\ engine' = FinishRequests(engine, gone)
      /\ sessions' = [q \in Keys |-> IF q \in ks THEN 0 ELSE sessions[q]]
      /\ reset' = [reset EXCEPT ![h] = [pc |-> "done", key |-> k]]
      /\ chat' = [c \in Chats |-> IF hit(c) THEN CutOff(chat[c], yes) ELSE chat[c]]
  BY <1>1, <1>2, Zenon DEF CutOff
<1>4. Concurrent \/ InFlight = {}
  BY DEF FinishSessions
<1> HIDE DEF ks, gone
<1>5. /\ Orderly(engine) /\ chat \in [Chats -> ChatType] /\ sessions \in [Keys -> Ids \union {0}]
      /\ reset \in [Resets -> [pc : {"idle", "direct", "enqueue", "wait", "done"}, key : Keys \union {All}]]
  BY DEF ServingInv, ChatsOK
<1>6. Orderly(engine')
  BY <1>3, <1>5, FinishFacts
<1>7. ASSUME NEW c \in Chats
      PROVE  /\ chat'[c] \in ChatType /\ chat'[c].pc = chat[c].pc /\ chat'[c].rid = chat[c].rid
             /\ chat'[c].toks = chat[c].toks /\ chat'[c].key = chat[c].key
             /\ ~Concurrent => chat'[c] = chat[c]
  <2>1. chat[c] \in ChatType
    BY <1>5
  <2>2. CASE hit(c)
    <3>1. chat'[c] = CutOff(chat[c], yes) /\ Concurrent
      BY <1>3, <1>4, <2>2
    <3> QED
      BY <2>1, <3>1, CutOffChat
  <2>3. CASE ~hit(c)
    BY <1>3, <2>1, <2>3
  <2> QED
    BY <2>2, <2>3
<1>8. ChatsOK'
  <2>1. chat' \in [Chats -> ChatType]
    BY <1>3, <1>7
  <2>2. sessions' \in [Keys -> Ids \union {0}]
    BY <1>3, <1>5
  <2>3. reset' \in [Resets -> [pc : {"idle", "direct", "enqueue", "wait", "done"}, key : Keys \union {All}]]
    BY <1>3, <1>5
  <2> QED
    BY <2>1, <2>2, <2>3 DEF ChatsOK
<1>9. \A c \in Chats :
        /\ chat'[c].pc \in ServingPlaces
        /\ chat'[c].pc \in {"idle", "lookup", "found", "add"} => chat'[c].toks = << >>
        /\ chat'[c].pc = "lookup" => chat'[c].key \in Keys
        /\ c \in Streaming' => chat'[c].rid \in Ids
  BY <1>7 DEF ServingInv, Streaming
<1>10. ASSUME ~Concurrent
       PROVE  AnswersWhole' /\ InFlight' = {} /\ Streaming' = {}
  <2>1. InFlight = {}
    BY <1>4, <1>10
  <2>2. AnswersWhole'
    BY <1>7, <1>10 DEF ServingInv, AnswersWhole
  <2>3. InFlight' = {} /\ Streaming' = {}
    BY <1>7, <2>1 DEF InFlight, Streaming
  <2> QED
    BY <2>2, <2>3
<1>11. Orderly(engine)'
  BY <1>6
<1> QED
  BY <1>8, <1>9, <1>10, <1>11 DEF ServingInv, ServingPlaces

\* Every step of the OpenAI server.
LEMMA ServingKeeps ==
  ASSUME ServingInv, ServingNext
  PROVE  ServingInv'
BY RequestArrivesKeeps, LookUpKeeps, AddOrReplaceKeeps, ResumeTurnKeeps, TurnRaisesKeeps,
   StreamOpensKeeps, StreamTestsKeeps, StreamStepsKeeps, StreamYieldsKeeps, FinishSessionsKeeps
   DEF ServingNext, Serve

---------------------------------------------------------------------------
(* The front ends together. *)

\* The engine that starts has no requests.
LEMMA OrderlyInitially ==
  ASSUME EngineInit
  PROVE  Orderly(engine)
<1>1. Unborn \in Requests /\ Unborn.st = "unborn"
  BY DEF Unborn, Requests
<1>2. NothingEmitted \in [Ids -> Seq(Nat)]
  BY DEF NothingEmitted
<1> HIDE DEF Unborn, NothingEmitted
<1>3. /\ engine = [req |-> engine.req, order |-> engine.order, last |-> engine.last]
      /\ engine.req = [r \in Ids |-> Unborn] /\ engine.order = << >>
      /\ engine.last = NothingEmitted
  BY DEF EngineInit
<1>4. engine.req \in [Ids -> Requests] /\ engine.order \in Seq(Ids)
  BY <1>1, <1>3
<1>5. engine \in Engines
  BY <1>2, <1>3, <1>4 DEF Engines
<1>6. \A r \in Ids : engine.req[r] = Unborn
  BY <1>3
<1>7. \A r \in Ids : r > 0
  BY DEF Ids
<1>8. \A r \in Ids : engine.req[r].st = "unborn" /\ (engine.req[r].st = "unborn" <=> r > 0)
  BY <1>1, <1>6, <1>7
<1>9. Range(engine.order) = {}
  BY <1>3 DEF Range
<1>10. 0 \in 0..MaxRequests
  BY StepEngineAssumption
<1> QED
  BY <1>5, <1>8, <1>9, <1>10 DEF Orderly

\* Nothing has been asked of a front end that starts.
LEMMA FrontInvHoldsInitially == Init => FrontInv
<1> SUFFICES ASSUME Init
             PROVE  FrontInv
  OBVIOUS
<1>1. /\ engine = [req |-> [r \in Ids |-> Unborn], order |-> << >>, last |-> NothingEmitted]
      /\ front \in FrontEnds /\ sessions = [k \in Keys |-> 0] /\ chat = [c \in Chats |-> NewChat]
      /\ reset = [h \in Resets |-> NewReset]
      /\ loop = "off" /\ pending = << >> /\ waiters = [r \in Ids |-> NoChat]
      /\ adding = NoChat /\ raced = FALSE
  BY DEF Init, EngineInit, FrontInit, ServerInit
<1>2. ChatsOK
  <2>1. NewChat \in ChatType
    BY DEF NewChat, ChatType, Places
  <2> QED
    BY <1>1, <2>1 DEF ChatsOK, NewReset
<1>3. \A c \in Chats : /\ chat[c].pc = "idle" /\ chat[c].toks = << >> /\ ~chat[c].set
  BY <1>1 DEF NewChat
<1>4. Orderly(engine)
  BY OrderlyInitially DEF Init
<1>5. AnswersWhole
  BY <1>3 DEF AnswersWhole
<1>6. WaitersOK /\ PendingOK
  <2>1. Range(pending) = {} /\ IsInjective(pending) /\ pending \in Seq(Chats \union Resets)
    BY <1>1 DEF Range, IsInjective
  <2> QED
    BY <1>1, <2>1 DEF WaitersOK, PendingOK
<1>7. \A c \in Chats : HandlerOK(c)
  BY <1>3 DEF HandlerOK
<1>8. OffOK
  BY <1>1, <1>3 DEF OffOK, NewReset, Unborn
<1>9. ServerInv
  BY <1>1, <1>2, <1>4, <1>5, <1>6, <1>7, <1>8 DEF ServerInv
<1>10. ServingInv
  <2>1. InFlight = {} /\ Streaming = {}
    BY <1>3 DEF InFlight, Streaming
  <2> QED
    BY <1>2, <1>3, <1>4, <1>5, <2>1 DEF ServingInv, ServingPlaces
<1> QED
  BY <1>1, <1>3, <1>9, <1>10 DEF FrontInv

\* A behaviour stays with the front end it runs.
LEMMA FrontStays ==
  ASSUME [Next]_vars
  PROVE  front' = front
<1>1. CASE UNCHANGED vars
  BY <1>1 DEF vars, frontVars
<1>2. CASE Rollout /\ ServerNext
  BY <1>2 DEF ServerNext, Handler, EngineLoop, ChatArrives, EnsureEngineLoop, Enqueue, Answer,
     TimeOut, ResetArrives, EnqueueReset, DirectReset, TakeLock, Submit, SubmitFails, Register, RunReset,
     ReleaseLock, EngineStep, EngineStepRaises, FailWaiters, Harvest, frontVars
<1>3. CASE front = "openai" /\ ServingNext
  BY ZenonT(60), <1>3 DEF ServingNext, Serve, RequestArrives, LookUp, AddTurn, ReplaceTurn, StartTurn, ResumeTurn,
     TurnRaises, StreamOpens, StreamTests, StreamSteps, StreamRaises, StreamYields, FinishSessions
<1>4. CASE front = "harness" /\ UNCHANGED <<frontVars, serverVars>>
  BY <1>4 DEF frontVars
<1> QED
  BY <1>1, <1>2, <1>3, <1>4 DEF Next

\* No step of any front end breaks the invariant.
LEMMA FrontInvIsInductive == FrontInv /\ [Next]_vars => FrontInv'
<1> SUFFICES ASSUME FrontInv, [Next]_vars
             PROVE  FrontInv'
  OBVIOUS
<1>1. CASE UNCHANGED vars
  <2>1. UNCHANGED <<engine, front, sessions, chat, reset, loop, pending, waiters, adding, raced>>
    BY <1>1 DEF vars, frontVars, serverVars
  <2>2. ChatsOK' = ChatsOK /\ AnswersWhole' = AnswersWhole /\ Orderly(engine)' = Orderly(engine)
    BY <2>1 DEF ChatsOK, AnswersWhole, Orderly, WholeTurn
  <2>3. WaitersOK' = WaitersOK
    BY <2>1 DEF WaitersOK, WaiterOf, Owed
  <2>4. PendingOK' = PendingOK /\ OffOK' = OffOK
    BY <2>1 DEF PendingOK, OffOK
  <2>5. \A c \in Chats : HandlerOK(c)' = HandlerOK(c)
    BY <2>1 DEF HandlerOK, Awaited, WholeTurn
  <2>6. ServerInv => ServerInv'
    BY <2>1, <2>2, <2>3, <2>4, <2>5 DEF ServerInv
  <2>7. InFlight' = InFlight /\ Streaming' = Streaming /\ \A c \in Streaming : Streams(c)' = Streams(c)
    BY <2>1 DEF InFlight, Streaming, Streams, Owed
  <2>8. ServingInv => ServingInv'
    BY <2>1, <2>2, <2>7 DEF ServingInv
  <2> QED
    BY <2>1, <2>6, <2>8 DEF FrontInv, Rollout
<1>2. CASE Rollout /\ ServerNext
  <2>1. front' = front /\ raced' \in BOOLEAN
    BY <1>2 DEF FrontInv, ServerNext, Handler, EngineLoop, ChatArrives, EnsureEngineLoop, Enqueue, Answer,
       TimeOut, ResetArrives, EnqueueReset, DirectReset, TakeLock, Submit, SubmitFails, Register, RunReset,
       ReleaseLock, EngineStep, EngineStepRaises, FailWaiters, Harvest, frontVars, serverVars
  <2>2. ASSUME ~raced'
        PROVE  ServerInv'
    <3>1. ~raced
      BY <1>2, <2>2 DEF ServerNext, Handler, EngineLoop, ChatArrives, EnsureEngineLoop, Enqueue, Answer,
         TimeOut, ResetArrives, EnqueueReset, DirectReset, TakeLock, Submit, SubmitFails, Register, RunReset,
         ReleaseLock, EngineStep, EngineStepRaises, FailWaiters, Harvest, serverVars
    <3>2. ServerInv
      BY <1>2, <3>1 DEF FrontInv
    <3> QED
      BY <1>2, <2>2, <3>2, ServerKeeps
  <2>3. front # "openai" /\ Rollout'
    BY <1>2, <2>1 DEF Rollout
  <2> QED
    BY <2>1, <2>2, <2>3 DEF FrontInv
<1>3. CASE front = "openai" /\ ServingNext /\ UNCHANGED serverVars
  <2>1. front' = front /\ raced' = raced
    BY ZenonT(60), <1>3 DEF ServingNext, Serve, RequestArrives, LookUp, AddTurn, ReplaceTurn, StartTurn, ResumeTurn,
       TurnRaises, StreamOpens, StreamTests, StreamSteps, StreamRaises, StreamYields, FinishSessions,
       serverVars
  <2>2. ~raced => ServingInv'
    BY <1>3, ServingKeeps DEF FrontInv
  <2>3. ~Rollout'
    BY <1>3, <2>1 DEF Rollout
  <2> QED
    BY <1>3, <2>1, <2>2, <2>3 DEF FrontInv
<1>4. CASE front = "harness" /\ UNCHANGED <<frontVars, serverVars>>
  <2>1. UNCHANGED <<front, chat, raced>>
    BY <1>4 DEF frontVars, serverVars
  <2> QED
    BY <1>4, <2>1 DEF FrontInv, Rollout
<1> QED
  BY <1>1, <1>2, <1>3, <1>4 DEF Next

\* FrontInv holds in every reachable state of the front ends.
THEOREM FrontInvariant == Spec => []FrontInv
<1> QED
  BY FrontInvHoldsInitially, FrontInvIsInductive, PTL DEF Spec

\* Whoever waits for the rollout server's engine thread is queued, being registered or the waiter of
\* exactly one request that will still be harvested or failed, whatever the interleaving.
THEOREM NoChatIsLost == Spec => []NoChatLost
<1>1. FrontInv => NoChatLost
  <2> SUFFICES ASSUME FrontInv, ~raced, NEW c \in Chats, chat[c].pc = "wait", ~chat[c].set
               PROVE  \/ \E i \in DOMAIN pending : pending[i] = c
                      \/ adding = c
                      \/ /\ {r \in Ids : waiters[r] = c} = {chat[c].rid}
                         /\ engine.req[chat[c].rid].st = "active" \/ loop \in {"harvest", "fail"}
    BY DEF NoChatLost
  <2>1. ServerInv
    BY DEF FrontInv, ServingInv, ServingPlaces
  <2>2. Awaited(c)
    BY <2>1 DEF ServerInv, HandlerOK
  <2>3. CASE c \in Range(pending)
    BY <2>3 DEF Range
  <2>4. CASE chat[c].rid \in Ids /\ waiters[chat[c].rid] = c
    <3>1. \A r \in Ids : waiters[r] = c => WaiterOf(c, r) /\ r = chat[c].rid
      BY <2>1, WaitersApart
    <3> QED
      BY <2>4, <3>1 DEF WaiterOf
  <2> QED
    BY <2>2, <2>3, <2>4 DEF Awaited
<1> QED
  BY <1>1, FrontInvariant, PTL

\* A chat answered without an error has every token of its turn, once and in order, unless a reset
\* took its request away: in the rollout server always, in the OpenAI server with one request in
\* flight at a time.
THEOREM AnswersAreExact ==
  ASSUME OneAtATime
  PROVE  Spec => []AnswersExact
<1>1. FrontInv => AnswersExact
  <2> SUFFICES ASSUME FrontInv, ~raced
               PROVE  AnswersWhole
    BY DEF AnswersExact
  <2>1. CASE Rollout
    BY <2>1 DEF FrontInv, ServerInv
  <2>2. CASE front = "openai"
    BY <2>2 DEF FrontInv, ServingInv, OneAtATime
  <2>3. CASE ~Rollout /\ front # "openai"
    BY <2>3 DEF FrontInv, AnswersWhole
  <2> QED
    BY <2>1, <2>2, <2>3
<1> QED
  BY <1>1, FrontInvariant, PTL

(***************************************************************************)
(* The load loops of the SLO harness.                                      *)
(***************************************************************************)
(* Traces. *)

\* A trace put at the end leaves the others alone.
LEMMA TraceGrows ==
  ASSUME trace \in Seq(Traces), NEW x \in Traces, trace' = Append(trace, x)
  PROVE  /\ trace' \in Seq(Traces) /\ Len(trace) \in Nat /\ Len(trace') = Len(trace) + 1
         /\ DOMAIN trace = 1..Len(trace) /\ DOMAIN trace' = 1..(Len(trace) + 1)
         /\ trace'[Len(trace) + 1] = x
         /\ \A i \in DOMAIN trace : i # Len(trace) + 1 /\ i \in DOMAIN trace' /\ trace'[i] = trace[i]
<1>1. /\ trace' \in Seq(Traces) /\ Len(trace) \in Nat /\ Len(trace') = Len(trace) + 1
      /\ DOMAIN trace = 1..Len(trace)
      /\ \A i \in 1..Len(trace) : trace'[i] = trace[i]
      /\ trace'[Len(trace) + 1] = x
  BY AppendProperties, LenProperties
<1>2. DOMAIN trace' = 1..(Len(trace) + 1)
  BY <1>1, LenProperties
<1> QED
  BY <1>1, <1>2

\* The refusals it adds to.
LEMMA RefusalsGrow ==
  ASSUME trace \in Seq(Traces), NEW x \in Traces, trace' = Append(trace, x)
  PROVE  /\ Cardinality(Refused) \in Nat /\ Cardinality(RefusedBetween) \in Nat
         /\ x.admitted => Refused' = Refused /\ RefusedBetween' = RefusedBetween
         /\ ~x.admitted => Cardinality(Refused') = Cardinality(Refused) + 1
         /\ ~x.admitted /\ x.resumed => Cardinality(RefusedBetween') = Cardinality(RefusedBetween) + 1
         /\ ~x.resumed => RefusedBetween' = RefusedBetween
<1> DEFINE n == Len(trace) + 1
<1>1. /\ n \notin DOMAIN trace /\ DOMAIN trace' = DOMAIN trace \union {n} /\ trace'[n] = x
      /\ \A i \in DOMAIN trace : i # n /\ trace'[i] = trace[i]
  BY TraceGrows
<1>2. IsFiniteSet(DOMAIN trace)
  <2>1. IsFiniteSet(1..Len(trace)) /\ DOMAIN trace = 1..Len(trace)
    BY LenProperties, FS_Interval
  <2> QED
    BY <2>1
<1>3. IsFiniteSet(Refused) /\ IsFiniteSet(RefusedBetween)
  BY <1>2, FS_Subset DEF Refused, RefusedBetween
<1>4. Cardinality(Refused) \in Nat /\ Cardinality(RefusedBetween) \in Nat
  BY <1>3, FS_CardinalityType
<1>5. n \notin Refused /\ n \notin RefusedBetween
  BY <1>1 DEF Refused, RefusedBetween
<1> HIDE DEF n
<1>6. x.admitted => Refused' = Refused /\ RefusedBetween' = RefusedBetween
  BY <1>1 DEF Refused, RefusedBetween
<1>7. ~x.admitted => Refused' = Refused \union {n}
  BY <1>1 DEF Refused
<1>8. ~x.admitted /\ x.resumed => RefusedBetween' = RefusedBetween \union {n}
  BY <1>1 DEF RefusedBetween
<1>9. ~x.resumed => RefusedBetween' = RefusedBetween
  BY <1>1 DEF RefusedBetween
<1> QED
  BY <1>3, <1>4, <1>5, <1>6, <1>7, <1>8, <1>9, FS_AddElement

---------------------------------------------------------------------------
(* Requests in the engine. *)

\* The live requests of an engine are finitely many.
LEMMA LiveFinite ==
  ASSUME NEW E, Orderly(E)
  PROVE  /\ Live(E) = {r \in Ids : E.req[r].st \in {"active", "paused"}}
         /\ Live(E) \subseteq Ids /\ IsFiniteSet(Live(E)) /\ Cardinality(Live(E)) \in Nat
<1>1. Live(E) = {r \in Ids : E.req[r].st \in {"active", "paused"}}
  BY DEF Live, Known
<1>2. IsFiniteSet(Ids)
  BY StepEngineAssumption, FS_Interval DEF Ids
<1>3. Live(E) \subseteq Ids
  BY <1>1
<1> QED
  BY <1>1, <1>2, <1>3, FS_Subset, FS_CardinalityType

\* A step starts no request.
LEMMA LiveShrinks ==
  ASSUME NEW E, NEW F, Orderly(E), Orderly(F), Served(E, F)
  PROVE  Live(F) \subseteq Live(E) /\ Cardinality(Live(F)) <= Cardinality(Live(E))
<1>1. Live(F) \subseteq Live(E)
  <2>1. \A r \in Ids : F.req[r].st \in {"active", "paused"} => E.req[r].st \in {"active", "paused"}
    BY DEF Served
  <2> QED
    BY <2>1, LiveFinite
<1> QED
  BY <1>1, LiveFinite, FS_Subset

---------------------------------------------------------------------------
(* Steps that only move the loop on. *)

\* What holds of a loop that moves on but its end, which has to be shown.
LEMMA MoveOn ==
  ASSUME HarnessInv, ~count.exhausted, at # "raised",
         at' \in {"top", "start", "resume", "serve", "end"}, slept' \in BOOLEAN,
         UNCHANGED <<engine, mode, policy, next, ses, trace, traceOf, count>>,
         EndOK', EverySessionStarts => ComesOn'
  PROVE  HarnessInv'
<1>1. HarnessTypeOK'
  BY DEF HarnessInv, HarnessTypeOK
<1>2. CountsAdd' /\ SlotsOK' /\ Orderly(engine)'
  BY DEF HarnessInv, CountsAdd, Refused, SlotsOK, Live, Known, Orderly
<1>3. SessionsOK'
  BY DEF HarnessInv, SessionsOK, SessionOK, Turns, Holders, Orphans, Live, Known, RefusedBetween
<1>4. TracesOK'
  BY DEF HarnessInv, TracesOK, Owed
<1> QED
  BY <1>1, <1>2, <1>3, <1>4 DEF HarnessInv, EverySessionStarts, N

\* The sessions that occupy run_sessions hold a request each, and have been started.
LEMMA HoldersFacts ==
  ASSUME HarnessInv, ~count.exhausted, at # "raised"
  PROVE  /\ Holders \subseteq 1..next /\ next \in Nat /\ next <= N /\ N \in Nat
         /\ Outstanding(Harness) \in Nat /\ Outstanding(Harness) <= next
         /\ Holders = {} => Outstanding(Harness) = 0
         /\ \A s \in Holders : /\ ses[s].rid \in Ids
                               /\ engine.req[ses[s].rid].st = IF ses[s].thinks THEN "paused" ELSE "active"
         /\ \A r \in Ids : engine.req[r].st = "active" => Holders # {}
<1>1. /\ \A s \in 1..N : SessionOK(s) /\ ses[s] \in States
      /\ next \in 0..N
      /\ \A r \in Ids : engine.req[r].st = "active" => \E s \in Holders : ses[s].rid = r
  BY DEF HarnessInv, HarnessTypeOK, SessionsOK
<1>2. N \in Nat
  BY HarnessAssumption, LenProperties DEF N
<1>3. next \in Nat /\ next <= N
  BY <1>1, <1>2
<1>4. \A s \in Holders : s \in 1..next
  BY <1>1, <1>2, <1>3 DEF Holders, SessionOK
<1>5. \A s \in Holders : /\ ses[s].rid \in Ids
                         /\ engine.req[ses[s].rid].st = IF ses[s].thinks THEN "paused" ELSE "active"
  BY <1>1 DEF Holders, SessionOK, States
<1> DEFINE O == {s \in 1..N : (ses[s].rid # 0 \/ ses[s].thinks) /\ ~ses[s].done}
<1>6. Outstanding(Harness) = Cardinality(O)
  BY DEF Outstanding, Harness
<1>7. O \subseteq Holders
  BY <1>1 DEF Holders, SessionOK
<1> HIDE DEF O
<1>8. IsFiniteSet(1..next) /\ Cardinality(1..next) = next
  BY <1>3, FS_Interval
<1>9. IsFiniteSet(O) /\ Cardinality(O) <= next /\ Cardinality(O) \in Nat
  BY <1>4, <1>7, <1>8, FS_Subset, FS_CardinalityType
<1>10. O = {} => Cardinality(O) = 0
  BY FS_EmptySet
<1> QED
  BY <1>1, <1>2, <1>3, <1>4, <1>5, <1>6, <1>7, <1>9, <1>10

\* The loop that starts no more turns has started all, or waits for a session.
LEMMA StartsDoneKeeps ==
  ASSUME HarnessInv, StartsDone
  PROVE  HarnessInv'
<1>1. /\ at = "start" /\ (mode = "poisson" \/ ~MayStart(Harness)) /\ at' = "resume"
      /\ UNCHANGED <<engine, mode, policy, slept, next, ses, trace, traceOf, count>>
  BY DEF StartsDone
<1>2. ~count.exhausted
  BY <1>1 DEF HarnessInv
<1>3. slept \in BOOLEAN /\ mode \in {"sessions", "poisson", "batch", "sequence"}
      /\ (mode = "sequence" => policy = "always") /\ policy \in Policies
  BY DEF HarnessInv, HarnessTypeOK
<1>4. ASSUME EverySessionStarts, mode # "poisson"
      PROVE  next = N \/ (Holders # {} /\ ~(mode = "sessions" /\ policy = "any"))
  <2>1. ~MayStart(Harness)
    BY <1>1, <1>4
  <2>2. CASE ~(next < N)
    BY <1>1, <1>2, <2>2, HoldersFacts
  <2>3. CASE next < N /\ mode = "sessions"
    <3>1. ~(Outstanding(Harness) < MaxActive)
      BY <2>1, <2>3 DEF MayStart, Harness
    <3>2. MaxActive \in Nat \ {0}
      BY HarnessAssumption
    <3>3. policy # "any"
      BY <1>1, <1>2, <1>3, <1>4, <2>3, <3>1, <3>2, HoldersFacts DEF EverySessionStarts
    <3> QED
      BY <1>1, <1>2, <3>1, <3>2, <3>3, HoldersFacts
  <2>4. CASE next < N /\ mode = "sequence"
    <3>1. Live(engine) # {}
      BY <2>1, <2>4 DEF MayStart, Harness, IsFinished
    <3>2. \E r \in Ids : engine.req[r].st = "active"
      BY <1>1, <1>2, <2>4, <3>1 DEF Live, Known, HarnessInv, SessionsOK
    <3> QED
      BY <1>1, <1>2, <2>4, <3>2, HoldersFacts
  <2>5. CASE next < N /\ mode = "batch"
    BY <2>1, <2>5 DEF MayStart, Harness
  <2> QED
    BY <1>3, <1>4, <2>2, <2>3, <2>4, <2>5
<1>5. EverySessionStarts => ComesOn'
  BY <1>1, <1>4 DEF ComesOn, Holders, N
<1>6. EndOK'
  BY <1>1 DEF EndOK
<1> QED
  BY <1>1, <1>2, <1>3, <1>5, <1>6, MoveOn

\* The loop that resumes no more turns goes on to serve.
LEMMA ResumesDoneKeeps ==
  ASSUME HarnessInv, ResumesDone
  PROVE  HarnessInv'
<1>1. /\ at = "resume" /\ at' = "serve"
      /\ UNCHANGED <<engine, mode, policy, slept, next, ses, trace, traceOf, count>>
  BY DEF ResumesDone
<1>2. ~count.exhausted
  BY <1>1 DEF HarnessInv
<1>3. slept \in BOOLEAN
  BY DEF HarnessInv, HarnessTypeOK
<1>4. EverySessionStarts => ComesOn'
  BY <1>1, <1>2 DEF HarnessInv, ComesOn, Holders, N
<1>5. EndOK'
  BY <1>1 DEF EndOK
<1> QED
  BY <1>1, <1>2, <1>3, <1>4, <1>5, MoveOn

\* The loop whose condition is false has served every session.
LEMMA LoopTopKeeps ==
  ASSUME HarnessInv, LoopTop
  PROVE  HarnessInv'
<1>1. /\ at = "top" /\ at' = (IF More THEN "start" ELSE "end")
      /\ UNCHANGED <<engine, mode, policy, slept, next, ses, trace, traceOf, count>>
  BY DEF LoopTop
<1>2. ~count.exhausted
  BY <1>1 DEF HarnessInv
<1>3. slept \in BOOLEAN
  BY DEF HarnessInv, HarnessTypeOK
<1>4. EverySessionStarts => ComesOn'
  BY <1>1 DEF ComesOn
<1>5. ASSUME ~More
      PROVE  (\A s \in 1..N : ses[s].done) /\ \A r \in Ids : engine.req[r].st # "active"
  <2>1. \A r \in Ids : engine.req[r].st \notin {"active", "paused"}
    BY <1>5 DEF More, IsFinished, Live, Known
  <2>2. Holders = {}
    BY <1>1, <1>2, <2>1, HoldersFacts
  <2>3. CASE mode = "poisson"
    <3>1. ~(next < N)
      BY <1>5, <2>3 DEF More
    <3>2. next = N /\ next \in Nat
      BY <1>1, <1>2, <3>1, HoldersFacts
    <3> QED
      BY <1>1, <1>2, <2>1, <2>2, <3>2 DEF HarnessInv, SessionsOK, SessionOK, Holders
  <2>4. CASE mode # "poisson"
    BY <1>5, <2>1, <2>4 DEF More
  <2> QED
    BY <2>3, <2>4
<1>6. EndOK'
  BY <1>1, <1>5 DEF EndOK, N
<1> QED
  BY <1>1, <1>2, <1>3, <1>4, <1>6, MoveOn

\* The loop that finds nothing to step and nothing to sleep for has served every session.
LEMMA ServeIdleKeeps ==
  ASSUME HarnessInv, ServeIdle
  PROVE  HarnessInv'
<1>1. /\ at = "serve" /\ ~HasWork(engine)
      /\ slept' = (Thinking # {} \/ (mode = "poisson" /\ next < N))
      /\ at' = IF slept' THEN "top" ELSE "end"
      /\ UNCHANGED <<engine, mode, policy, next, ses, trace, traceOf, count>>
  BY DEF ServeIdle
<1>2. ~count.exhausted
  BY <1>1 DEF HarnessInv
<1>3. slept' \in BOOLEAN
  BY <1>1
<1>4. EverySessionStarts => ComesOn'
  BY <1>1 DEF ComesOn
<1>5. \A r \in Ids : engine.req[r].st # "active"
  <2>1. Range(engine.order) = {}
    BY <1>1 DEF HasWork, Range
  <2> QED
    BY <2>1 DEF HarnessInv, Orderly
<1>6. ASSUME EverySessionStarts, ~slept'
      PROVE  \A s \in 1..N : ses[s].done
  <2>1. Thinking = {} /\ (mode = "poisson" => ~(next < N))
    BY <1>1, <1>6
  <2>2. \A s \in Holders : ses[s].thinks /\ ~ses[s].done /\ s \in 1..N
    BY <1>1, <1>2, <1>5, HoldersFacts DEF Holders, HarnessInv, SessionsOK, SessionOK
  <2>3. Holders = {}
    BY <2>1, <2>2 DEF Thinking
  <2>4. next = N
    BY <1>1, <1>2, <1>6, <2>1, <2>3, HoldersFacts DEF HarnessInv, ComesOn
  <2>5. N \in Nat
    BY <1>1, <1>2, HoldersFacts
  <2> QED
    BY <1>1, <1>2, <2>3, <2>4, <2>5 DEF HarnessInv, SessionsOK, SessionOK, Holders
<1>7. EndOK'
  BY <1>1, <1>5, <1>6 DEF EndOK, EverySessionStarts, N
<1> QED
  BY <1>1, <1>2, <1>3, <1>4, <1>7, MoveOn

---------------------------------------------------------------------------
(* Turns that start. *)

GivenUp(st) == [idx |-> st.idx, rid |-> 0, thinks |-> FALSE, done |-> TRUE]
Occupied(st, r) == [idx |-> st.idx, rid |-> r, thinks |-> FALSE, done |-> st.done]
RefusedTrace(n, resume) ==
  [want |-> n, toks |-> << >>, admitted |-> FALSE, from |-> 0, resumed |-> resume]
AdmittedTrace(n, from, resume) ==
  [want |-> n, toks |-> << >>, admitted |-> TRUE, from |-> from, resumed |-> resume]

\* A session that is given up keeps the number of its turn.
LEMMA GivesUp ==
  ASSUME NEW st \in States, NEW a, NEW b, NEW c
  PROVE  [st EXCEPT !.done = a, !.rid = b, !.thinks = c] =
           [idx |-> st.idx, rid |-> b, thinks |-> c, done |-> a]
<1> DEFINE x == [st EXCEPT !.done = a]
           y == [x EXCEPT !.rid = b]
           z == [y EXCEPT !.thinks = c]
<1>1. st = [idx |-> st.idx, rid |-> st.rid, thinks |-> st.thinks, done |-> st.done]
  BY DEF States
<1>2. x = [idx |-> st.idx, rid |-> st.rid, thinks |-> st.thinks, done |-> a]
  BY <1>1
<1> HIDE DEF x
<1>3. y = [idx |-> st.idx, rid |-> b, thinks |-> st.thinks, done |-> a]
  BY <1>2
<1> HIDE DEF y
<1>4. z = [idx |-> st.idx, rid |-> b, thinks |-> c, done |-> a]
  BY <1>3
<1> QED
  BY <1>4 DEF x, y, z

\* A turn that is started leaves the number of the turn and whether the session is over.
LEMMA Occupies ==
  ASSUME NEW st \in States, NEW b, NEW c
  PROVE  [st EXCEPT !.rid = b, !.thinks = c] =
           [idx |-> st.idx, rid |-> b, thinks |-> c, done |-> st.done]
<1> DEFINE y == [st EXCEPT !.rid = b]
           z == [y EXCEPT !.thinks = c]
<1>1. st = [idx |-> st.idx, rid |-> st.rid, thinks |-> st.thinks, done |-> st.done]
  BY DEF States
<1>2. y = [idx |-> st.idx, rid |-> b, thinks |-> st.thinks, done |-> st.done]
  BY <1>1
<1> HIDE DEF y
<1>3. z = [idx |-> st.idx, rid |-> b, thinks |-> c, done |-> st.done]
  BY <1>2
<1> QED
  BY <1>3 DEF y, z

\* The harness with the session states S, and what it becomes when a turn of s is refused or admitted.
HarnessWith(S) ==
  [e |-> engine, next |-> next, ses |-> S, trace |-> trace, of |-> traceOf, count |-> count]
HarnessRefusing(S, s, resume, n) ==
  [e |-> engine, next |-> next, ses |-> [S EXCEPT ![s] = GivenUp(S[s])],
   trace |-> Append(trace, RefusedTrace(n, resume)), of |-> traceOf,
   count |-> [offered |-> count.offered + 1, admitted |-> count.admitted,
              rejected |-> count.rejected + 1, exhausted |-> count.exhausted]]
HarnessAdmitting(S, s, resume, n) ==
  LET r == IF resume THEN S[s].rid ELSE NextId(engine)
      more == S[s].idx + 1 < Turns(s)
  IN  [e |-> IF resume THEN ResumeRequest(engine, r, n, 0, more) ELSE AddRequest(engine, n, 0, more),
       next |-> next, ses |-> [S EXCEPT ![s] = Occupied(S[s], r)],
       trace |-> Append(trace, AdmittedTrace(n, engine.req[r].out, resume)),
       of |-> [traceOf EXCEPT ![r] = Len(trace) + 1],
       count |-> [offered |-> count.offered + 1, admitted |-> count.admitted + 1,
                  rejected |-> count.rejected, exhausted |-> count.exhausted]]

\* A turn that is refused changes its session, the traces and the counts ...
LEMMA RefusedFacts ==
  ASSUME count \in Counts, NEW S \in [1..N -> States], NEW s \in 1..N, NEW resume, NEW ok, ~ok, NEW n
  PROVE  StartSessionTurn(HarnessWith(S), s, resume, ok, n) = HarnessRefusing(S, s, resume, n)
<1> DEFINE H == HarnessWith(S)
           st == S[s]
           D == [count EXCEPT !.offered = @ + 1]
           B == [D EXCEPT !.rejected = @ + 1]
           x == [st EXCEPT !.done = TRUE, !.rid = 0, !.thinks = FALSE]
           y == RefusedTrace(n, resume)
           S1 == [S EXCEPT ![s] = x]
           T1 == Append(trace, y)
           H1 == [H EXCEPT !.ses[s] = x]
           H2 == [H1 EXCEPT !.trace = Append(@, y)]
           H3 == [H2 EXCEPT !.count = B]
<1>1. StartSessionTurn(H, s, resume, ok, n) = H3
  BY DEF StartSessionTurn, RefusedTrace, HarnessWith
<1>2. count = [offered |-> count.offered, admitted |-> count.admitted, rejected |-> count.rejected,
           exhausted |-> count.exhausted]
  BY DEF Counts
<1>3. x = GivenUp(st)
  <2>1. st \in States
    OBVIOUS
  <2> HIDE DEF st
  <2> QED
    BY <2>1, GivesUp DEF GivenUp
<1>4. D = [offered |-> count.offered + 1, admitted |-> count.admitted, rejected |-> count.rejected,
           exhausted |-> count.exhausted]
  BY <1>2
<1> HIDE DEF D
<1>5. B = [offered |-> count.offered + 1, admitted |-> count.admitted, rejected |-> count.rejected + 1,
           exhausted |-> count.exhausted]
  BY <1>4
<1> HIDE DEF B, x, y
<1>6. H1 = [e |-> engine, next |-> next, ses |-> S1, trace |-> trace, of |-> traceOf, count |-> count]
  BY DEF HarnessWith
<1> HIDE DEF H1, S1
<1>7. H2 = [e |-> engine, next |-> next, ses |-> S1, trace |-> T1, of |-> traceOf, count |-> count]
  <2>1. H2 = [H1 EXCEPT !.trace = T1]
    BY <1>6
  <2> HIDE DEF H2, T1
  <2> QED
    BY <1>6, <2>1
<1> HIDE DEF H2, T1
<1>8. H3 = [e |-> engine, next |-> next, ses |-> S1, trace |-> T1, of |-> traceOf, count |-> B]
  BY <1>7
<1> HIDE DEF H3
<1>9. S1 = [S EXCEPT ![s] = GivenUp(S[s])] /\ T1 = Append(trace, RefusedTrace(n, resume))
  BY <1>3 DEF S1, T1, st, y
<1> QED
  BY <1>1, <1>5, <1>8, <1>9 DEF HarnessRefusing

\* ... and one that is admitted the engine and the table of traces too.
LEMMA AdmittedFacts ==
  ASSUME count \in Counts, NEW S \in [1..N -> States], NEW s \in 1..N, NEW resume, NEW ok, ok, NEW n
  PROVE  StartSessionTurn(HarnessWith(S), s, resume, ok, n) = HarnessAdmitting(S, s, resume, n)
<1> DEFINE H == HarnessWith(S)
           st == S[s]
           r == IF resume THEN st.rid ELSE NextId(engine)
           more == st.idx + 1 < Turns(s)
           e == IF resume THEN ResumeRequest(engine, r, n, 0, more) ELSE AddRequest(engine, n, 0, more)
           D == [count EXCEPT !.offered = @ + 1]
           B == [D EXCEPT !.admitted = @ + 1]
           x == [st EXCEPT !.rid = r, !.thinks = FALSE]
           y == AdmittedTrace(n, engine.req[r].out, resume)
           m == Len(trace) + 1
           S1 == [S EXCEPT ![s] = x]
           T1 == Append(trace, y)
           F1 == [traceOf EXCEPT ![r] = m]
           H1 == [H EXCEPT !.e = e]
           H2 == [H1 EXCEPT !.ses[s] = x]
           H3 == [H2 EXCEPT !.trace = Append(@, y)]
           H4 == [H3 EXCEPT !.of[r] = m]
           H5 == [H4 EXCEPT !.count = B]
<1>1. StartSessionTurn(H, s, resume, ok, n) = H5
  BY DEF StartSessionTurn, AdmittedTrace, HarnessWith
<1>2. count = [offered |-> count.offered, admitted |-> count.admitted, rejected |-> count.rejected,
           exhausted |-> count.exhausted]
  BY DEF Counts
<1>3. x = Occupied(st, r)
  <2>1. st \in States
    OBVIOUS
  <2> HIDE DEF st, r
  <2> QED
    BY <2>1, Occupies DEF Occupied
<1>4. D = [offered |-> count.offered + 1, admitted |-> count.admitted, rejected |-> count.rejected,
           exhausted |-> count.exhausted]
  BY <1>2
<1> HIDE DEF D
<1>5. B = [offered |-> count.offered + 1, admitted |-> count.admitted + 1, rejected |-> count.rejected,
           exhausted |-> count.exhausted]
  BY <1>4
<1> HIDE DEF B, x, y, e, r, m
<1>6. H1 = [e |-> e, next |-> next, ses |-> S, trace |-> trace, of |-> traceOf, count |-> count]
  BY DEF HarnessWith
<1> HIDE DEF H1
<1>7. H2 = [e |-> e, next |-> next, ses |-> S1, trace |-> trace, of |-> traceOf, count |-> count]
  <2>1. H2 = [H1 EXCEPT !.ses = S1]
    BY <1>6
  <2> HIDE DEF H2, S1
  <2> QED
    BY <1>6, <2>1
<1> HIDE DEF H2, S1
<1>8. H3 = [e |-> e, next |-> next, ses |-> S1, trace |-> T1, of |-> traceOf, count |-> count]
  <2>1. H3 = [H2 EXCEPT !.trace = T1]
    BY <1>7
  <2> HIDE DEF H3, T1
  <2> QED
    BY <1>7, <2>1
<1> HIDE DEF H3, T1
<1>9. H4 = [e |-> e, next |-> next, ses |-> S1, trace |-> T1, of |-> F1, count |-> count]
  <2>1. H4 = [H3 EXCEPT !.of = F1]
    BY <1>8
  <2> HIDE DEF H4, F1
  <2> QED
    BY <1>8, <2>1
<1> HIDE DEF H4, F1
<1>10. H5 = [e |-> e, next |-> next, ses |-> S1, trace |-> T1, of |-> F1, count |-> B]
  BY <1>9
<1> HIDE DEF H5
<1>11. S1 = [S EXCEPT ![s] = Occupied(S[s], r)] /\ F1 = [traceOf EXCEPT ![r] = Len(trace) + 1]
       /\ T1 = Append(trace, AdmittedTrace(n, engine.req[r].out, resume))
  BY <1>3 DEF S1, T1, F1, st, y, m
<1> QED
  BY <1>1, <1>5, <1>10, <1>11 DEF HarnessAdmitting, e, r

\* A session whose fields change leaves the others alone.
LEMMA OneSession ==
  ASSUME ses \in [1..N -> States], NEW s \in 1..N, NEW x \in States, ses' = [ses EXCEPT ![s] = x]
  PROVE  /\ ses' \in [1..N -> States] /\ ses'[s] = x
         /\ \A t \in 1..N : t # s => ses'[t] = ses[t]
OBVIOUS

\* The counts add up whether a turn is admitted ...
LEMMA CountAdmitted ==
  ASSUME HarnessInv, ~count.exhausted, at # "raised", NEW x \in Traces, x.admitted, trace' = Append(trace, x),
         count' = [offered |-> count.offered + 1, admitted |-> count.admitted + 1,
                   rejected |-> count.rejected, exhausted |-> count.exhausted]
  PROVE  /\ CountsAdd' /\ count' \in Counts /\ count'.exhausted = count.exhausted
         /\ Refused' = Refused /\ RefusedBetween' = RefusedBetween
<1>1. trace \in Seq(Traces) /\ count \in Counts
  BY DEF HarnessInv, HarnessTypeOK
<1>2. /\ count.admitted + count.rejected = Len(trace) /\ count.offered = Len(trace)
      /\ count.rejected = Cardinality(Refused)
  BY DEF HarnessInv, CountsAdd
<1>3. /\ count.offered \in Nat /\ count.admitted \in Nat /\ count.rejected \in Nat
      /\ count.exhausted \in BOOLEAN
  BY <1>1 DEF Counts
<1>4. PICK a \in Nat, b \in Nat, c \in Nat : a = count.offered /\ b = count.admitted /\ c = count.rejected
  BY <1>3
<1>5. b + c = Len(trace) /\ a = Len(trace) /\ c = Cardinality(Refused)
  BY <1>2, <1>4
<1>6. count' = [offered |-> a + 1, admitted |-> b + 1, rejected |-> c, exhausted |-> count.exhausted]
  BY <1>4
<1>7. count'.offered = a + 1 /\ count'.admitted = b + 1 /\ count'.rejected = c
      /\ count'.exhausted = count.exhausted /\ count' \in Counts
  <2>1. a + 1 \in Nat /\ b + 1 \in Nat
    OBVIOUS
  <2> QED
    BY <1>3, <1>6, <2>1 DEF Counts
<1>8. Len(trace') = Len(trace) + 1
  BY <1>1, TraceGrows
<1>9. Refused' = Refused /\ RefusedBetween' = RefusedBetween
  BY <1>1, RefusalsGrow
<1>10. CountsAdd'
  BY <1>5, <1>7, <1>8, <1>9 DEF CountsAdd
<1> QED
  BY <1>7, <1>9, <1>10

\* ... or refused.
LEMMA CountRefused ==
  ASSUME HarnessInv, ~count.exhausted, at # "raised", NEW x \in Traces, ~x.admitted, trace' = Append(trace, x),
         count' = [offered |-> count.offered + 1, admitted |-> count.admitted,
                   rejected |-> count.rejected + 1, exhausted |-> count.exhausted]
  PROVE  CountsAdd' /\ count' \in Counts /\ count'.exhausted = count.exhausted
<1>1. trace \in Seq(Traces) /\ count \in Counts
  BY DEF HarnessInv, HarnessTypeOK
<1>2. /\ count.admitted + count.rejected = Len(trace) /\ count.offered = Len(trace)
      /\ count.rejected = Cardinality(Refused)
  BY DEF HarnessInv, CountsAdd
<1>3. /\ count.offered \in Nat /\ count.admitted \in Nat /\ count.rejected \in Nat
      /\ count.exhausted \in BOOLEAN
  BY <1>1 DEF Counts
<1>4. PICK a \in Nat, b \in Nat, c \in Nat : a = count.offered /\ b = count.admitted /\ c = count.rejected
  BY <1>3
<1>5. b + c = Len(trace) /\ a = Len(trace) /\ c = Cardinality(Refused)
  BY <1>2, <1>4
<1>6. count' = [offered |-> a + 1, admitted |-> b, rejected |-> c + 1, exhausted |-> count.exhausted]
  BY <1>4
<1>7. count'.offered = a + 1 /\ count'.admitted = b /\ count'.rejected = c + 1
      /\ count'.exhausted = count.exhausted /\ count' \in Counts
  <2>1. a + 1 \in Nat /\ c + 1 \in Nat
    OBVIOUS
  <2> QED
    BY <1>3, <1>6, <2>1 DEF Counts
<1>8. Len(trace') = Len(trace) + 1 /\ Len(trace) \in Nat
  BY <1>1, TraceGrows
<1>9. Cardinality(Refused') = Cardinality(Refused) + 1
  BY <1>1, RefusalsGrow
<1>10. CountsAdd'
  <2>1. Cardinality(Refused)' = Cardinality(Refused')
    OBVIOUS
  <2> QED
    BY <1>5, <1>7, <1>8, <1>9, <2>1 DEF CountsAdd
<1> QED
  BY <1>7, <1>10

\* What a turn that request i starts does to the engine: n tokens to come, held or not.
Starts(E, F, i, n, hold) ==
  /\ Orderly(F) /\ F.req[i].st = "active" /\ F.req[i].left = n /\ F.req[i].out = E.req[i].out
  /\ F.req[i].hold = hold
  /\ \A r \in Ids : r # i => F.req[r] = E.req[r]

\* The traces stay good where a turn starts ...
LEMMA TracesAdmitted ==
  ASSUME TracesOK, trace \in Seq(Traces), traceOf \in [Ids -> Nat], Orderly(engine),
         NEW i \in Ids, engine.req[i].st \in {"unborn", "paused"}, NEW n \in Nat, NEW resume \in BOOLEAN,
         NEW hold, Starts(engine, engine', i, n, hold),
         trace' = Append(trace, AdmittedTrace(n, engine.req[i].out, resume)),
         traceOf' = [traceOf EXCEPT ![i] = Len(trace) + 1]
  PROVE  TracesOK'
<1> DEFINE m == Len(trace) + 1
           x == AdmittedTrace(n, engine.req[i].out, resume)
<1>1. engine.req[i].out \in Nat
  BY EngineFacts
<1>2. /\ x \in Traces /\ x.admitted /\ x.from = engine.req[i].out /\ x.want = n /\ x.toks = << >>
  BY <1>1 DEF AdmittedTrace, Traces
<1>3. /\ m \in Nat \ {0} /\ m \notin DOMAIN trace /\ m \in DOMAIN trace' /\ trace'[m] = x
      /\ DOMAIN trace' = DOMAIN trace \union {m}
      /\ \A j \in DOMAIN trace : j # m /\ j \in DOMAIN trace' /\ trace'[j] = trace[j]
  BY <1>2, TraceGrows
<1>4. traceOf'[i] = m /\ \A r \in Ids : r # i => traceOf'[r] = traceOf[r]
  OBVIOUS
<1>5. /\ engine'.req[i].st = "active" /\ engine'.req[i].left = n /\ engine'.req[i].out = engine.req[i].out
      /\ \A r \in Ids : r # i => engine'.req[r] = engine.req[r]
  BY DEF Starts
<1> HIDE DEF m, x
<1>6. Owed(x, engine'.req[i], x.toks)
  <2>1. PICK a \in Nat : a = engine.req[i].out
    BY <1>1
  <2>2. a - a = 0 /\ a <= a
    OBVIOUS
  <2>3. TokensFrom(a, 0) = << >>
    BY TokensFacts
  <2> QED
    BY <1>2, <1>5, <2>1, <2>2, <2>3 DEF Owed
<1>7. ASSUME NEW r \in Ids
      PROVE  /\ traceOf'[r] = 0 <=> engine'.req[r].st = "unborn"
             /\ engine'.req[r].st = "unborn" => engine'.req[r].out = 0
             /\ traceOf'[r] # 0 =>
                  /\ traceOf'[r] \in DOMAIN trace' /\ trace'[traceOf'[r]].admitted
                  /\ Owed(trace'[traceOf'[r]], engine'.req[r], trace'[traceOf'[r]].toks)
  <2>1. CASE r = i
    <3>1. traceOf'[r] = m /\ m # 0 /\ engine'.req[r].st # "unborn"
      BY <1>3, <1>4, <1>5, <2>1
    <3> QED
      BY <1>2, <1>3, <1>6, <2>1, <3>1
  <2>2. CASE r # i
    BY <1>3, <1>4, <1>5, <2>2 DEF TracesOK
  <2> QED
    BY <2>1, <2>2
<1>8. ASSUME NEW r \in Ids, NEW q \in Ids, traceOf'[r] # 0, traceOf'[r] = traceOf'[q]
      PROVE  r = q
  <2>1. \A k \in Ids : traceOf[k] # m
    BY <1>3 DEF TracesOK
  <2> QED
    BY <1>4, <1>8, <2>1 DEF TracesOK
<1>9. ASSUME NEW j \in DOMAIN trace', trace'[j].admitted
      PROVE  \/ \E r \in Ids : traceOf'[r] = j
             \/ trace'[j].toks = TokensFrom(trace'[j].from, trace'[j].want)
  <2>1. CASE j = m
    BY <1>4, <2>1
  <2>2. CASE j # m
    <3>1. j \in DOMAIN trace /\ trace'[j] = trace[j]
      BY <1>3, <2>2
    <3>2. CASE traceOf[i] = j
      <4>1. j # 0 /\ engine.req[i].st = "paused" /\ Owed(trace[j], engine.req[i], trace[j].toks)
        <5>1. j # 0
          BY <3>1, LenProperties
        <5> QED
          BY <3>2, <5>1 DEF TracesOK
      <4>2. trace[j] \in Traces
        BY <3>1, ElementOfSeq, LenProperties
      <4>3. PICK a \in Nat, b \in Nat, c \in Nat :
               a = engine.req[i].out /\ b = trace[j].from /\ c = trace[j].want
        BY <1>1, <4>2 DEF Traces
      <4>4. a + 0 = b + c /\ trace[j].toks = TokensFrom(b, a - b)
        BY <4>1, <4>3 DEF Owed
      <4>5. a - b = c
        BY <4>4
      <4> QED
        BY <3>1, <4>3, <4>4, <4>5
    <3>3. CASE \E r \in Ids : r # i /\ traceOf[r] = j
      BY <1>4, <3>3
    <3>4. CASE \A r \in Ids : traceOf[r] # j
      BY <1>9, <3>1, <3>4 DEF TracesOK
    <3> QED
      BY <3>2, <3>3, <3>4
  <2> QED
    BY <2>1, <2>2
<1> QED
  BY <1>7, <1>8, <1>9 DEF TracesOK

\* ... and where it does not.
LEMMA TracesRefused ==
  ASSUME TracesOK, trace \in Seq(Traces), NEW x \in Traces, ~x.admitted, trace' = Append(trace, x),
         UNCHANGED <<engine, traceOf>>
  PROVE  TracesOK'
<1>1. /\ DOMAIN trace' = DOMAIN trace \union {Len(trace) + 1} /\ trace'[Len(trace) + 1] = x
      /\ \A j \in DOMAIN trace : j \in DOMAIN trace' /\ trace'[j] = trace[j]
  BY TraceGrows
<1> QED
  BY <1>1 DEF TracesOK, Owed

\* The session whose turn starts has its request.
LEMMA SessionsAdmitted ==
  ASSUME SessionsOK, HarnessTypeOK, Orderly(engine), mode' = mode,
         NEW s \in 1..N, NEW i \in Ids, NEW n, NEW k \in Nat, k < Turns(s),
         Starts(engine, engine', i, n, k + 1 < Turns(s)),
         ses' = [ses EXCEPT ![s] = [idx |-> k, rid |-> i, thinks |-> FALSE, done |-> FALSE]],
         \/ engine.req[i].st = "unborn" /\ ses[s].rid = 0
         \/ engine.req[i].st = "paused" /\ ses[s].rid = i,
         next \in Nat, next' \in Nat, next <= next', s <= next',
         \A t \in 1..N : t # s /\ t > next => t > next',
         RefusedBetween' = RefusedBetween
  PROVE  SessionsOK'
<1> DEFINE x == [idx |-> k, rid |-> i, thinks |-> FALSE, done |-> FALSE]
<1>1. ses \in [1..N -> States] /\ x \in States
  BY DEF HarnessTypeOK, States
<1>2. x.idx = k /\ x.rid = i /\ ~x.thinks /\ ~x.done
  OBVIOUS
<1>3. /\ engine'.req[i].st = "active" /\ (engine'.req[i].hold <=> k + 1 < Turns(s))
      /\ \A r \in Ids : r # i => engine'.req[r] = engine.req[r]
      /\ Orderly(engine')
  BY DEF Starts
<1> HIDE DEF x
<1>4. ses'[s] = x /\ \A t \in 1..N : t # s => ses'[t] = ses[t]
  BY <1>1, OneSession DEF x
<1>5. \A t \in Holders : t # s => ses[t].rid # i
  <2>1. CASE engine.req[i].st = "unborn"
    BY <2>1 DEF SessionsOK, SessionOK, Holders
  <2>2. CASE ses[s].rid = i /\ engine.req[i].st = "paused"
    <3>1. i # 0
      BY DEF Ids
    <3> QED
      BY <2>2, <3>1 DEF SessionsOK, Holders
  <2> QED
    BY <2>1, <2>2
<1>6. ASSUME NEW t \in 1..N
      PROVE  SessionOK(t)'
  <2>1. CASE t = s
    <3>1. i # 0 /\ s \in Nat
      BY DEF Ids
    <3> QED
      BY <1>2, <1>3, <1>4, <2>1, <3>1 DEF SessionOK, Turns
  <2>2. CASE t # s
    <3>1. ses'[t] = ses[t] /\ SessionOK(t) /\ (t > next => t > next') /\ (t > next' => t > next) /\ t \in Nat
      BY <1>4, <2>2 DEF SessionsOK
    <3>2. ses[t].rid # 0 => ses[t].rid \in Ids /\ ses[t].rid # i
      BY <1>1, <1>5, <2>2 DEF Holders, States
    <3>3. ses[t].rid # 0 => engine'.req[ses[t].rid] = engine.req[ses[t].rid]
      BY <1>3, <3>2
    <3> QED
      BY <3>1, <3>2, <3>3 DEF SessionOK, Turns
  <2> QED
    BY <2>1, <2>2
<1>7. Holders' = Holders \union {s}
  <2>1. i # 0
    BY DEF Ids
  <2> QED
    BY <1>2, <1>4, <2>1 DEF Holders, N
<1>8. \A t, u \in Holders' : ses'[t].rid = ses'[u].rid => t = u
  <2>1. \A t \in Holders : t \in 1..N
    BY DEF Holders
  <2> QED
    BY <1>2, <1>4, <1>5, <1>7, <2>1 DEF SessionsOK
<1>9. \A r \in Ids : engine'.req[r].st = "active" => \E t \in Holders' : ses'[t].rid = r
  <2>1. \A r \in Ids : r = i \/ (engine'.req[r].st = "active" => \E t \in Holders : ses[t].rid = r)
    BY <1>3 DEF SessionsOK
  <2>2. \A r \in Ids : r # i => \A t \in Holders : ses[t].rid = r => t = s \/ ses'[t].rid = r
    BY <1>4 DEF Holders
  <2>3. \A r \in Ids : r # i /\ ses[s].rid = r => ses[s].rid = 0
    OBVIOUS
  <2>4. 0 \notin Ids
    BY DEF Ids
  <2> QED
    BY <1>2, <1>4, <1>7, <2>1, <2>2, <2>3, <2>4
<1>10. mode' # "sessions" => \A r \in Ids : engine'.req[r].st # "paused"
  BY <1>3 DEF SessionsOK
<1>11. Orphans' = Orphans
  <2>1. Live(engine) = {r \in Ids : engine.req[r].st \in {"active", "paused"}}
        /\ Live(engine') = {r \in Ids : engine'.req[r].st \in {"active", "paused"}}
    BY <1>3, LiveFinite
  <2>2. Live(engine') = Live(engine) \union {i}
    BY <1>3, <2>1
  <2> DEFINE R == {ses[t].rid : t \in Holders}
             Q == {ses'[t].rid : t \in Holders'}
  <2>3. Q = R \union {i}
    <3>1. \A t \in Holders : t \in 1..N
      BY DEF Holders
    <3>2. \A t \in Holders : t = s \/ ses'[t].rid = ses[t].rid
      BY <1>4, <3>1
    <3>3. s \in Holders => ses[s].rid = i
      BY DEF Holders
    <3> QED
      BY <1>2, <1>4, <1>7, <3>2, <3>3
  <2>4. i \in R \/ i \notin Live(engine)
    <3>1. CASE engine.req[i].st = "unborn"
      BY <2>1, <3>1
    <3>2. CASE ses[s].rid = i
      <4>1. s \in Holders
        BY <3>2 DEF Holders, Ids
      <4> QED
        BY <3>2, <4>1
    <3> QED
      BY <3>1, <3>2
  <2>5. Orphans = Live(engine) \ R /\ Orphans' = Live(engine') \ Q
    BY DEF Orphans, Live, Known
  <2> HIDE DEF R, Q
  <2> QED
    BY <2>2, <2>3, <2>4, <2>5
<1>12. Cardinality(Orphans)' = Cardinality(Orphans') /\ Cardinality(RefusedBetween)' = Cardinality(RefusedBetween')
  OBVIOUS
<1> QED
  BY <1>6, <1>8, <1>9, <1>10, <1>11, <1>12 DEF SessionsOK, N

\* The session that is refused has none any more: its request, if it has one, is held for nobody.
LEMMA SessionsRefused ==
  ASSUME SessionsOK, HarnessTypeOK, Orderly(engine), UNCHANGED <<engine, mode>>,
         NEW s \in 1..N, NEW k \in Nat, k < Turns(s),
         ses' = [ses EXCEPT ![s] = [idx |-> k, rid |-> 0, thinks |-> FALSE, done |-> TRUE]],
         next \in Nat, next' \in Nat, next <= next', s <= next',
         \A t \in 1..N : t # s /\ t > next => t > next',
         \/ ses[s].rid = 0 /\ RefusedBetween' = RefusedBetween
         \/ ses[s].rid # 0 /\ ses[s].thinks /\ Cardinality(RefusedBetween') = Cardinality(RefusedBetween) + 1
  PROVE  SessionsOK'
<1> DEFINE x == [idx |-> k, rid |-> 0, thinks |-> FALSE, done |-> TRUE]
<1>1. ses \in [1..N -> States] /\ x \in States
  BY DEF HarnessTypeOK, States
<1>2. x.idx = k /\ x.rid = 0 /\ ~x.thinks /\ x.done
  OBVIOUS
<1> HIDE DEF x
<1>3. ses'[s] = x /\ \A t \in 1..N : t # s => ses'[t] = ses[t]
  BY <1>1, OneSession DEF x
<1>4. ASSUME NEW t \in 1..N
      PROVE  SessionOK(t)'
  <2>1. CASE t = s
    <3>1. s \in Nat
      OBVIOUS
    <3> QED
      BY <1>2, <1>3, <2>1, <3>1 DEF SessionOK, Turns
  <2>2. CASE t # s
    <3>1. ses'[t] = ses[t] /\ SessionOK(t) /\ (t > next => t > next') /\ (t > next' => t > next) /\ t \in Nat
      BY <1>3, <2>2 DEF SessionsOK
    <3> QED
      BY <3>1 DEF SessionOK, Turns
  <2> QED
    BY <2>1, <2>2
<1>5. Holders' = Holders \ {s}
  BY <1>2, <1>3 DEF Holders, N
<1>6. \A t \in Holders' : t \in Holders /\ t # s /\ ses'[t] = ses[t]
  BY <1>3, <1>5 DEF Holders
<1>7. \A t, u \in Holders' : ses'[t].rid = ses'[u].rid => t = u
  BY <1>6 DEF SessionsOK
<1>8. s \in Holders => engine.req[ses[s].rid].st = "paused" /\ ses[s].rid \in Ids
  BY <1>1 DEF Holders, SessionsOK, SessionOK, States
<1>9. \A r \in Ids : engine'.req[r].st = "active" => \E t \in Holders' : ses'[t].rid = r
  <2>1. ASSUME NEW r \in Ids, engine'.req[r].st = "active"
        PROVE  \E t \in Holders' : ses'[t].rid = r
    <3>1. PICK t \in Holders : ses[t].rid = r
      BY <2>1 DEF SessionsOK
    <3>2. t # s
      BY <1>8, <2>1, <3>1
    <3> QED
      BY <1>5, <1>6, <3>1, <3>2
  <2> QED
    BY <2>1
<1>10. mode' # "sessions" => \A r \in Ids : engine'.req[r].st # "paused"
  BY DEF SessionsOK
<1>11. Cardinality(Orphans') = Cardinality(RefusedBetween')
  <2> DEFINE R == {ses[t].rid : t \in Holders}
             Q == {ses'[t].rid : t \in Holders'}
  <2>1. Orphans = Live(engine) \ R /\ Orphans' = Live(engine) \ Q
    BY DEF Orphans, Live, Known
  <2>2. CASE ses[s].rid = 0
    <3>1. Holders' = Holders
      BY <1>5, <2>2 DEF Holders
    <3>2. Q = R
      BY <1>6, <3>1
    <3> HIDE DEF R, Q
    <3> QED
      BY <2>1, <2>2, <3>2 DEF SessionsOK
  <2>3. CASE ses[s].rid # 0
    <3>1. s \in Holders
      BY <2>3 DEF Holders
    <3>2. ses[s].rid \in Live(engine) /\ ses[s].rid \in R
      BY <1>8, <3>1, LiveFinite
    <3>3. Q = R \ {ses[s].rid}
      <4>1. \A t \in Holders : t # s => ses[t].rid # ses[s].rid
        BY <3>1 DEF SessionsOK
      <4> QED
        BY <1>5, <1>6, <4>1
    <3> HIDE DEF R, Q
    <3>4. Orphans' = Orphans \union {ses[s].rid} /\ ses[s].rid \notin Orphans
      BY <2>1, <3>2, <3>3
    <3>5. IsFiniteSet(Orphans)
      BY <2>1, LiveFinite, FS_Subset
    <3>6. Cardinality(Orphans') = Cardinality(Orphans) + 1
      BY <3>4, <3>5, FS_AddElement
    <3> QED
      BY <2>3, <3>6 DEF SessionsOK
  <2> QED
    BY <2>2, <2>3
<1>12. Cardinality(Orphans)' = Cardinality(Orphans') /\ Cardinality(RefusedBetween)' = Cardinality(RefusedBetween')
  OBVIOUS
<1> QED
  BY <1>4, <1>7, <1>9, <1>10, <1>11, <1>12 DEF SessionsOK, N

\* What a turn that is admitted or refused changes in the harness.
LEMMA TurnBegins ==
  ASSUME NEW E, NEW k, NEW S, NEW T, NEW F, NEW C, NEW j,
         LET H == [e |-> E, next |-> k, ses |-> S, trace |-> T, of |-> F, count |-> C]
         IN  (BecomeHarness(H) /\ j = k) \/ BecomeHarness([H EXCEPT !.next = j])
  PROVE  engine' = E /\ next' = j /\ ses' = S /\ trace' = T /\ traceOf' = F /\ count' = C
<1> DEFINE H == [e |-> E, next |-> k, ses |-> S, trace |-> T, of |-> F, count |-> C]
           G == [H EXCEPT !.next = j]
<1>1. G = [e |-> E, next |-> j, ses |-> S, trace |-> T, of |-> F, count |-> C]
  OBVIOUS
<1>2. CASE BecomeHarness(H) /\ j = k
  BY <1>2 DEF BecomeHarness
<1>3. CASE BecomeHarness(G)
  <2> HIDE DEF G
  <2> QED
    BY <1>1, <1>3 DEF BecomeHarness
<1> QED
  BY <1>2, <1>3

\* What the functions that admit turns promise: a policy that knows the knee
\* lets nobody in above it, and only one without rules refuses a next turn.
LEMMA DecisionsFacts ==
  ASSUME policy \in {"always", "session_slo", "request_slo", "any"}, NEW resume \in BOOLEAN,
         NEW ok \in Decisions(engine, resume)
  PROVE  /\ ok \in BOOLEAN
         /\ policy = "session_slo" /\ ~resume /\ ok => Occupancy(engine) < MaxOccupancy
         /\ resume /\ ~ok => policy = "any"
<1>1. CASE policy = "always"
  BY <1>1 DEF Decisions
<1>2. CASE policy = "any"
  BY <1>2 DEF Decisions
<1>3. CASE policy = "session_slo"
  <2>1. ok = (resume \/ Occupancy(engine) < MaxOccupancy)
    BY <1>3 DEF Decisions
  <2> QED
    BY <1>3, <2>1
<1>4. CASE policy = "request_slo"
  BY <1>4 DEF Decisions
<1> QED
  BY <1>1, <1>2, <1>3, <1>4

\* A session's last turn is its first unless run_sessions runs it.
LEMMA TurnsFacts ==
  ASSUME NEW s \in 1..N
  PROVE  Turns(s) \in Nat \ {0} /\ (mode # "sessions" => Turns(s) = 1)
<1>1. TurnsOf[s] \in Nat \ {0}
  BY HarnessAssumption, ElementOfSeq DEF N
<1> QED
  BY <1>1 DEF Turns

\* A slot is taken only where there is one, or kept.
LEMMA SlotsAdmitted ==
  ASSUME SlotsOK, Orderly(engine), NEW i \in Ids, NEW n, NEW hold, Starts(engine, engine', i, n, hold),
         trace \in Seq(Traces), NEW x \in Traces, x.admitted, trace' = Append(trace, x), policy' = policy,
         \/ engine.req[i].st = "paused"
         \/ policy = "session_slo" => Occupancy(engine) < MaxOccupancy
  PROVE  SlotsOK'
<1>1. /\ Live(engine) = {r \in Ids : engine.req[r].st \in {"active", "paused"}}
      /\ Live(engine') = {r \in Ids : engine'.req[r].st \in {"active", "paused"}}
      /\ IsFiniteSet(Live(engine)) /\ Cardinality(Live(engine)) \in Nat
  BY LiveFinite DEF Starts
<1>2. Live(engine') = Live(engine) \union {i}
  BY <1>1 DEF Starts
<1>3. policy = "session_slo" => Cardinality(Live(engine')) <= MaxOccupancy
  <2>1. MaxOccupancy \in Nat
    BY HarnessAssumption
  <2>2. CASE i \in Live(engine)
    <3>1. Live(engine') = Live(engine)
      BY <1>2, <2>2
    <3> QED
      BY <3>1 DEF SlotsOK
  <2>3. CASE i \notin Live(engine)
    <3>1. Cardinality(Live(engine')) = Cardinality(Live(engine)) + 1
      BY <1>1, <1>2, <2>3, FS_AddElement
    <3>2. policy = "session_slo" => Cardinality(Live(engine)) < MaxOccupancy
      BY <1>1, <2>3 DEF Occupancy
    <3> QED
      BY <1>1, <2>1, <3>1, <3>2
  <2> QED
    BY <2>2, <2>3
<1>4. /\ DOMAIN trace' = DOMAIN trace \union {Len(trace) + 1} /\ trace'[Len(trace) + 1] = x
      /\ \A j \in DOMAIN trace : trace'[j] = trace[j]
  BY TraceGrows
<1>5. policy # "any" => \A j \in DOMAIN trace' : trace'[j].resumed => trace'[j].admitted
  BY <1>4 DEF SlotsOK
<1>6. Live(engine)' = Live(engine')
  BY DEF Live, Known
<1> QED
  BY <1>3, <1>5, <1>6 DEF SlotsOK

\* A refusal gives no slot away, and comes between two turns only where it may.
LEMMA SlotsRefused ==
  ASSUME SlotsOK, UNCHANGED <<engine, policy>>, trace \in Seq(Traces),
         NEW x \in Traces, trace' = Append(trace, x), x.resumed => policy = "any"
  PROVE  SlotsOK'
<1>1. /\ DOMAIN trace' = DOMAIN trace \union {Len(trace) + 1} /\ trace'[Len(trace) + 1] = x
      /\ \A j \in DOMAIN trace : trace'[j] = trace[j]
  BY TraceGrows
<1>2. policy' # "any" => \A j \in DOMAIN trace' : trace'[j].resumed => trace'[j].admitted
  BY <1>1 DEF SlotsOK
<1>3. Live(engine)' = Live(engine)
  BY DEF Live, Known
<1> QED
  BY <1>2, <1>3 DEF SlotsOK

\* A turn that is admitted, the first of its session or the next, ...
LEMMA AdmittedKeeps ==
  ASSUME HarnessInv, at \notin {"end", "raised"}, at' \in {"top", "start", "resume", "serve"},
         slept' \in BOOLEAN, UNCHANGED <<mode, policy>>,
         NEW s \in 1..N, NEW i \in Ids, NEW n \in Nat, NEW k \in Nat, k < Turns(s), NEW resume \in BOOLEAN,
         Starts(engine, engine', i, n, k + 1 < Turns(s)),
         ses' = [ses EXCEPT ![s] = [idx |-> k, rid |-> i, thinks |-> FALSE, done |-> FALSE]],
         trace' = Append(trace, AdmittedTrace(n, engine.req[i].out, resume)),
         traceOf' = [traceOf EXCEPT ![i] = Len(trace) + 1],
         count' = [offered |-> count.offered + 1, admitted |-> count.admitted + 1,
                   rejected |-> count.rejected, exhausted |-> count.exhausted],
         \/ /\ engine.req[i].st = "unborn" /\ ses[s].rid = 0
            /\ policy = "session_slo" => Occupancy(engine) < MaxOccupancy
         \/ engine.req[i].st = "paused" /\ ses[s].rid = i,
         next' \in 0..N, next <= next', s <= next', \A t \in 1..N : t # s /\ t > next => t > next',
         EverySessionStarts => ComesOn'
  PROVE  HarnessInv'
<1> DEFINE x == AdmittedTrace(n, engine.req[i].out, resume)
           y == [idx |-> k, rid |-> i, thinks |-> FALSE, done |-> FALSE]
<1>1. /\ HarnessTypeOK /\ SlotsOK /\ Orderly(engine) /\ ~count.exhausted
      /\ SessionsOK /\ TracesOK
  BY DEF HarnessInv
<1>2. trace \in Seq(Traces) /\ traceOf \in [Ids -> Nat] /\ count \in Counts /\ ses \in [1..N -> States]
      /\ next \in 0..N /\ N \in Nat
  <2>1. N \in Nat
    BY HarnessAssumption, LenProperties DEF N
  <2> QED
    BY <1>1, <2>1 DEF HarnessTypeOK
<1>3. engine.req[i].out \in Nat
  BY <1>1, EngineFacts
<1>4. x \in Traces /\ x.admitted /\ y \in States
  BY <1>3 DEF Traces, AdmittedTrace, States
<1> HIDE DEF x, y
<1>5. trace' = Append(trace, x) /\ ses' = [ses EXCEPT ![s] = y]
  BY DEF x, y
<1>6. CountsAdd' /\ count' \in Counts /\ ~count'.exhausted /\ RefusedBetween' = RefusedBetween
  BY <1>1, <1>4, <1>5, CountAdmitted
<1>7. trace' \in Seq(Traces) /\ Len(trace) \in Nat
  BY <1>2, <1>4, <1>5, TraceGrows
<1>8. HarnessTypeOK'
  <2>1. ses' \in [1..N -> States]
    BY <1>2, <1>4, <1>5, OneSession
  <2>2. traceOf' \in [Ids -> Nat]
    BY <1>2, <1>7
  <2> QED
    BY <1>1, <1>6, <1>7, <2>1, <2>2 DEF HarnessTypeOK, N
<1>9. SlotsOK'
  BY <1>1, <1>2, <1>4, <1>5, SlotsAdmitted
<1>10. SessionsOK'
  <2>1. next \in Nat /\ next' \in Nat /\ mode' = mode
    BY <1>2
  <2> QED
    BY <1>1, <1>2, <1>6, <2>1, SessionsAdmitted
<1>11. TracesOK'
  BY <1>1, <1>2, TracesAdmitted
<1>12. Orderly(engine)' /\ EndOK'
  <2>1. Orderly(engine') /\ at' # "end"
    BY DEF Starts
  <2> QED
    BY <2>1 DEF EndOK, Orderly
<1> QED
  BY <1>6, <1>8, <1>9, <1>10, <1>11, <1>12 DEF HarnessInv, EverySessionStarts, N

\* ... and one that is refused.
LEMMA RefusedKeeps ==
  ASSUME HarnessInv, at \notin {"end", "raised"}, at' \in {"top", "start", "resume", "serve"},
         slept' \in BOOLEAN, UNCHANGED <<engine, mode, policy, traceOf>>,
         NEW s \in 1..N, NEW n \in Nat, NEW k \in Nat, k < Turns(s), NEW resume \in BOOLEAN,
         ses' = [ses EXCEPT ![s] = [idx |-> k, rid |-> 0, thinks |-> FALSE, done |-> TRUE]],
         trace' = Append(trace, RefusedTrace(n, resume)),
         count' = [offered |-> count.offered + 1, admitted |-> count.admitted,
                   rejected |-> count.rejected + 1, exhausted |-> count.exhausted],
         \/ ses[s].rid = 0 /\ ~resume
         \/ ses[s].rid # 0 /\ ses[s].thinks /\ resume /\ policy = "any",
         next' \in 0..N, next <= next', s <= next', \A t \in 1..N : t # s /\ t > next => t > next',
         EverySessionStarts => ComesOn'
  PROVE  HarnessInv'
<1> DEFINE x == RefusedTrace(n, resume)
           y == [idx |-> k, rid |-> 0, thinks |-> FALSE, done |-> TRUE]
<1>1. /\ HarnessTypeOK /\ SlotsOK /\ Orderly(engine) /\ ~count.exhausted
      /\ SessionsOK /\ TracesOK
  BY DEF HarnessInv
<1>2. trace \in Seq(Traces) /\ traceOf \in [Ids -> Nat] /\ count \in Counts /\ ses \in [1..N -> States]
      /\ next \in 0..N /\ N \in Nat
  <2>1. N \in Nat
    BY HarnessAssumption, LenProperties DEF N
  <2> QED
    BY <1>1, <2>1 DEF HarnessTypeOK
<1>3. x \in Traces /\ ~x.admitted /\ (x.resumed <=> resume) /\ y \in States
  <2>1. << >> \in Seq(Nat)
    OBVIOUS
  <2> QED
    BY <2>1 DEF Traces, RefusedTrace, States
<1> HIDE DEF x, y
<1>4. trace' = Append(trace, x) /\ ses' = [ses EXCEPT ![s] = y]
  BY DEF x, y
<1>5. CountsAdd' /\ count' \in Counts /\ ~count'.exhausted
  BY <1>1, <1>3, <1>4, CountRefused
<1>6. trace' \in Seq(Traces)
  BY <1>2, <1>3, <1>4, TraceGrows
<1>7. /\ ~resume => RefusedBetween' = RefusedBetween
      /\ resume => Cardinality(RefusedBetween') = Cardinality(RefusedBetween) + 1
  BY <1>2, <1>3, <1>4, RefusalsGrow
<1>8. HarnessTypeOK'
  <2>1. ses' \in [1..N -> States]
    BY <1>2, <1>3, <1>4, OneSession
  <2> QED
    BY <1>1, <1>5, <1>6, <2>1 DEF HarnessTypeOK, N
<1>9. SlotsOK'
  BY <1>1, <1>2, <1>3, <1>4, SlotsRefused
<1>10. SessionsOK'
  <2>1. next \in Nat /\ next' \in Nat /\ mode' = mode
    BY <1>2
  <2> QED
    BY <1>1, <1>2, <1>7, <2>1, SessionsRefused
<1>11. TracesOK'
  BY <1>1, <1>2, <1>3, <1>4, TracesRefused
<1>12. Orderly(engine)' /\ EndOK'
  BY <1>1 DEF EndOK, Orderly
<1> QED
  BY <1>5, <1>8, <1>9, <1>10, <1>11, <1>12 DEF HarnessInv, EverySessionStarts, N

\* A session that starts has its first turn admitted, or is given up.
LEMMA StartNextKeeps ==
  ASSUME HarnessInv, StartNext
  PROVE  HarnessInv'
<1> DEFINE s == next + 1
<1>1. PICK ok \in Decisions(engine, FALSE), n \in TurnLengths :
        /\ at = "start" /\ MayStart(Harness)
        /\ ok => CanAdd(engine)
        /\ BecomeHarness([StartSessionTurn(Harness, s, FALSE, ok, n) EXCEPT !.next = s])
        /\ slept' = (slept /\ mode # "poisson") /\ UNCHANGED <<mode, policy, at>>
  BY DEF StartNext
<1>2. ~count.exhausted
  BY <1>1 DEF HarnessInv
<1>3. /\ HarnessTypeOK /\ Orderly(engine) /\ SessionsOK /\ TracesOK
      /\ ses \in [1..N -> States] /\ count \in Counts /\ slept \in BOOLEAN
      /\ policy \in {"always", "session_slo", "request_slo", "any"}
  BY <1>1, <1>2 DEF HarnessInv, HarnessTypeOK
<1>4. /\ next \in Nat /\ N \in Nat /\ next < N /\ s \in 1..N /\ n \in Nat
      /\ s \in 0..N /\ next <= s /\ \A t \in 1..N : t # s /\ t > next => t > s
  <2>1. next < N
    BY <1>1 DEF MayStart, Harness
  <2>2. next \in Nat /\ N \in Nat
    BY <1>1, <1>2, HoldersFacts
  <2>3. n \in Nat
    BY <1>1, StepEngineAssumption
  <2> QED
    BY <2>1, <2>2, <2>3
<1>5. ses[s].rid = 0 /\ ses[s].idx = 0 /\ ~ses[s].done
  BY <1>3, <1>4 DEF SessionsOK, SessionOK
<1>6. Turns(s) \in Nat \ {0}
  BY <1>4, TurnsFacts
<1>7. slept' \in BOOLEAN /\ ComesOn' /\ at' \in {"top", "start", "resume", "serve"} /\ at \notin {"end", "raised"}
  BY <1>1, <1>3 DEF ComesOn
<1>8. ok \in BOOLEAN /\ (policy = "session_slo" /\ ok => Occupancy(engine) < MaxOccupancy)
  BY <1>1, <1>3, DecisionsFacts
<1> HIDE DEF s
<1>9. CASE ok
  <2> DEFINE i == NextId(engine)
             hold == ses[s].idx + 1 < Turns(s)
             F == AddRequest(engine, n, 0, hold)
             S == [ses EXCEPT ![s] = Occupied(ses[s], i)]
             T == Append(trace, AdmittedTrace(n, engine.req[i].out, FALSE))
             Z == [traceOf EXCEPT ![i] = Len(trace) + 1]
             C == [offered |-> count.offered + 1, admitted |-> count.admitted + 1,
                   rejected |-> count.rejected, exhausted |-> count.exhausted]
             H == [e |-> F, next |-> next, ses |-> S, trace |-> T, of |-> Z, count |-> C]
  <2>1. StartSessionTurn(HarnessWith(ses), s, FALSE, ok, n) = HarnessAdmitting(ses, s, FALSE, n)
    BY <1>3, <1>4, <1>9, AdmittedFacts
  <2>2. HarnessWith(ses) = Harness /\ HarnessAdmitting(ses, s, FALSE, n) = H
    BY DEF HarnessWith, Harness, HarnessAdmitting
  <2>3. BecomeHarness([H EXCEPT !.next = s])
    <3> HIDE DEF H
    <3> QED
      BY <1>1, <2>1, <2>2
  <2> HIDE DEF F, S, T, Z, C, i, hold
  <2>4. engine' = F /\ next' = s /\ ses' = S /\ trace' = T /\ traceOf' = Z /\ count' = C
    BY <2>3, TurnBegins
  <2>5. hold \in BOOLEAN /\ (hold <=> 0 + 1 < Turns(s))
    BY <1>5 DEF hold
  <2>6. /\ Orderly(F) /\ i \in Ids /\ engine.req[i].st = "unborn"
        /\ F.req[i] = [st |-> "active", hold |-> hold, chunks |-> 0, left |-> n, out |-> 0]
        /\ \A r \in Ids : r # i => F.req[r] = engine.req[r]
    BY <1>1, <1>3, <1>4, <1>9, <2>5, AddFacts DEF F, i
  <2>7. engine.req[i].out = 0
    BY <1>3, <2>6 DEF TracesOK
  <2>8. hold = (0 + 1 < Turns(s))
    BY <1>5 DEF hold
  <2>9. Starts(engine, engine', i, n, 0 + 1 < Turns(s))
    BY <2>4, <2>6, <2>7, <2>8 DEF Starts
  <2>10. Occupied(ses[s], i) = [idx |-> 0, rid |-> i, thinks |-> FALSE, done |-> FALSE]
    <3>1. ses[s].done = FALSE
      BY <1>3, <1>4, <1>5 DEF States
    <3> QED
      BY <1>5, <3>1 DEF Occupied
  <2>11. ses' = [ses EXCEPT ![s] = [idx |-> 0, rid |-> i, thinks |-> FALSE, done |-> FALSE]]
    BY <2>4, <2>10 DEF S
  <2>12. trace' = Append(trace, AdmittedTrace(n, engine.req[i].out, FALSE))
    BY <2>4 DEF T
  <2>13. traceOf' = [traceOf EXCEPT ![i] = Len(trace) + 1]
    BY <2>4 DEF Z
  <2>14. count' = [offered |-> count.offered + 1, admitted |-> count.admitted + 1,
                   rejected |-> count.rejected, exhausted |-> count.exhausted]
    BY <2>4 DEF C
  <2>15. s <= s /\ s \in Nat /\ 0 < Turns(s) /\ 0 \in Nat
    BY <1>4, <1>6
  <2>16. UNCHANGED <<mode, policy>>
    BY <1>1
  <2> QED
    BY <1>4, <1>5, <1>7, <1>8, <1>9, <2>4, <2>6, <2>9, <2>11, <2>12, <2>13, <2>14, <2>15, <2>16,
       AdmittedKeeps
<1>10. CASE ~ok
  <2> DEFINE S == [ses EXCEPT ![s] = GivenUp(ses[s])]
             T == Append(trace, RefusedTrace(n, FALSE))
             C == [offered |-> count.offered + 1, admitted |-> count.admitted,
                   rejected |-> count.rejected + 1, exhausted |-> count.exhausted]
             H == [e |-> engine, next |-> next, ses |-> S, trace |-> T, of |-> traceOf, count |-> C]
  <2>1. StartSessionTurn(HarnessWith(ses), s, FALSE, ok, n) = HarnessRefusing(ses, s, FALSE, n)
    BY <1>3, <1>4, <1>10, RefusedFacts
  <2>2. HarnessWith(ses) = Harness /\ HarnessRefusing(ses, s, FALSE, n) = H
    BY DEF HarnessWith, Harness, HarnessRefusing
  <2>3. BecomeHarness([H EXCEPT !.next = s])
    <3> HIDE DEF H
    <3> QED
      BY <1>1, <2>1, <2>2
  <2> HIDE DEF S, T, C
  <2>4. engine' = engine /\ next' = s /\ ses' = S /\ trace' = T /\ traceOf' = traceOf /\ count' = C
    BY <2>3, TurnBegins
  <2>5. ses' = [ses EXCEPT ![s] = [idx |-> 0, rid |-> 0, thinks |-> FALSE, done |-> TRUE]]
    BY <1>5, <2>4 DEF S, GivenUp
  <2>6. trace' = Append(trace, RefusedTrace(n, FALSE))
    BY <2>4 DEF T
  <2>7. count' = [offered |-> count.offered + 1, admitted |-> count.admitted,
                  rejected |-> count.rejected + 1, exhausted |-> count.exhausted]
    BY <2>4 DEF C
  <2>8. s <= s /\ s \in Nat /\ 0 < Turns(s) /\ 0 \in Nat
    BY <1>4, <1>6
  <2>9. UNCHANGED <<engine, mode, policy, traceOf>>
    BY <1>1, <2>4
  <2> QED
    BY <1>4, <1>5, <1>7, <2>4, <2>5, <2>6, <2>7, <2>8, <2>9, RefusedKeeps
<1> QED
  BY <1>8, <1>9, <1>10

\* A session that has thought has its next turn admitted, or is given up.
LEMMA ResumeSessionKeeps ==
  ASSUME HarnessInv, NEW s \in 1..N, ResumeSession(s)
  PROVE  HarnessInv'
<1> DEFINE S == [ses EXCEPT ![s].idx = @ + 1]
           i == ses[s].rid
           k == ses[s].idx + 1
<1>1. PICK ok \in Decisions(engine, TRUE), n \in TurnLengths :
        /\ at = "resume" /\ s \in Thinking
        /\ BecomeHarness(StartSessionTurn([Harness EXCEPT !.ses[s].idx = @ + 1], s, TRUE, ok, n))
        /\ slept' = FALSE /\ UNCHANGED <<mode, policy, at>>
  BY DEF ResumeSession
<1>2. ~count.exhausted
  BY <1>1 DEF HarnessInv
<1>3. /\ HarnessTypeOK /\ Orderly(engine) /\ SessionsOK /\ TracesOK
      /\ ses \in [1..N -> States] /\ count \in Counts
      /\ policy \in {"always", "session_slo", "request_slo", "any"}
  BY <1>1, <1>2 DEF HarnessInv, HarnessTypeOK
<1>4. /\ ses[s] \in States /\ ses[s].thinks /\ ~ses[s].done /\ ses[s].done = FALSE
      /\ i # 0 /\ i \in Ids /\ engine.req[i].st = "paused" /\ ses[s].idx + 1 < Turns(s)
      /\ s <= next
  <2>1. ses[s].thinks /\ ~ses[s].done /\ ses[s] \in States
    BY <1>1, <1>3 DEF Thinking
  <2>2. SessionOK(s) /\ next \in Nat /\ s \in Nat
    BY <1>1, <1>2, <1>3, HoldersFacts DEF SessionsOK
  <2>3. i # 0
    BY <2>1, <2>2 DEF SessionOK
  <2>4. s <= next
    BY <2>2, <2>3 DEF SessionOK
  <2>5. i \in Ids /\ ses[s].done = FALSE
    BY <2>1, <2>3 DEF States
  <2> QED
    BY <2>1, <2>2, <2>3, <2>4, <2>5 DEF SessionOK
<1>5. k \in Nat /\ k < Turns(s)
  BY <1>4 DEF States
<1>6. S[s] = [idx |-> k, rid |-> i, thinks |-> ses[s].thinks, done |-> ses[s].done]
      /\ S = [ses EXCEPT ![s] = [idx |-> k, rid |-> i, thinks |-> ses[s].thinks, done |-> ses[s].done]]
  <2>1. ses[s] = [idx |-> ses[s].idx, rid |-> ses[s].rid, thinks |-> ses[s].thinks, done |-> ses[s].done]
    BY <1>4 DEF States
  <2>2. [ses[s] EXCEPT !.idx = @ + 1] =
          [idx |-> k, rid |-> i, thinks |-> ses[s].thinks, done |-> ses[s].done]
    BY <2>1
  <2>3. S = [ses EXCEPT ![s] = [ses[s] EXCEPT !.idx = @ + 1]]
    OBVIOUS
  <2> HIDE DEF S
  <2> QED
    BY <1>3, <2>2, <2>3
<1>7. S \in [1..N -> States]
  <2> DEFINE x == [idx |-> k, rid |-> i, thinks |-> ses[s].thinks, done |-> ses[s].done]
  <2>1. x \in States
    BY <1>4, <1>5 DEF States
  <2> HIDE DEF x
  <2> QED
    BY <1>3, <1>6, <2>1 DEF x
<1>8. [Harness EXCEPT !.ses[s].idx = @ + 1] = HarnessWith(S)
  BY DEF Harness, HarnessWith
<1> HIDE DEF S
<1>9. BecomeHarness(StartSessionTurn(HarnessWith(S), s, TRUE, ok, n))
  BY <1>1, <1>8
<1>10. ok \in BOOLEAN /\ (~ok => policy = "any")
  BY <1>3, DecisionsFacts
<1>11. /\ next \in Nat /\ next \in 0..N /\ next <= next /\ n \in Nat /\ mode = "sessions"
       /\ \A t \in 1..N : t # s /\ t > next => t > next
  <2>1. next \in Nat /\ next <= N /\ N \in Nat
    BY <1>1, <1>2, HoldersFacts
  <2>2. n \in Nat
    BY <1>1, StepEngineAssumption
  <2>3. mode = "sessions"
    BY <1>3, <1>4 DEF SessionsOK
  <2> QED
    BY <2>1, <2>2, <2>3
<1>12. s \in Holders
  BY <1>4 DEF Holders
<1>13. slept' \in BOOLEAN /\ at' \in {"top", "start", "resume", "serve"} /\ at \notin {"end", "raised"}
       /\ at = "resume"
  BY <1>1
<1>14. CASE ok
  <2> DEFINE hold == k < Turns(s)
             more == S[s].idx + 1 < Turns(s)
             F == ResumeRequest(engine, S[s].rid, n, 0, more)
             Q == [S EXCEPT ![s] = Occupied(S[s], S[s].rid)]
             T == Append(trace, AdmittedTrace(n, engine.req[S[s].rid].out, TRUE))
             Z == [traceOf EXCEPT ![S[s].rid] = Len(trace) + 1]
             C == [offered |-> count.offered + 1, admitted |-> count.admitted + 1,
                   rejected |-> count.rejected, exhausted |-> count.exhausted]
             H == [e |-> F, next |-> next, ses |-> Q, trace |-> T, of |-> Z, count |-> C]
  <2>1. StartSessionTurn(HarnessWith(S), s, TRUE, ok, n) = HarnessAdmitting(S, s, TRUE, n)
    BY <1>3, <1>7, <1>14, AdmittedFacts
  <2>2. HarnessAdmitting(S, s, TRUE, n) = H
    BY DEF HarnessAdmitting
  <2>3. BecomeHarness(H) /\ next = next
    <3> HIDE DEF H
    <3> QED
      BY <1>9, <2>1, <2>2
  <2> HIDE DEF F, Q, T, Z, C, hold, more
  <2>4. engine' = F /\ next' = next /\ ses' = Q /\ trace' = T /\ traceOf' = Z /\ count' = C
    BY <2>3, TurnBegins
  <2>5. S[s].rid = i /\ S[s].idx = k
    BY <1>6
  <2>6. more \in BOOLEAN /\ more = (k + 1 < Turns(s))
    BY <2>5 DEF more
  <2>7. i \in Paused(engine)
    BY <1>4 DEF Paused
  <2>8. /\ Orderly(F)
        /\ F.req[i].st = "active" /\ F.req[i].out = engine.req[i].out /\ F.req[i].left = n
        /\ F.req[i].hold = more
        /\ \A r \in Ids : r # i => F.req[r] = engine.req[r]
    <3>1. PICK b \in BOOLEAN : b = more
      BY <2>6
    <3>2. F = ResumeRequest(engine, i, n, 0, b)
      BY <2>5, <3>1 DEF F
    <3>3. 0 \in Nat /\ n \in Nat /\ Orderly(engine)
      BY <1>3, <1>11
    <3> HIDE DEF i, F
    <3>4. /\ Orderly(F)
          /\ F.req[i].st = "active" /\ F.req[i].out = engine.req[i].out /\ F.req[i].left = n
          /\ F.req[i].hold = b
          /\ \A r \in Ids : r # i => F.req[r] = engine.req[r]
      BY <2>7, <3>2, <3>3, ResumeFacts
    <3> QED
      BY <3>1, <3>4
  <2>9. Starts(engine, engine', i, n, k + 1 < Turns(s))
    BY <2>4, <2>6, <2>8 DEF Starts
  <2>10. ses' = [ses EXCEPT ![s] = [idx |-> k, rid |-> i, thinks |-> FALSE, done |-> FALSE]]
    <3>1. Occupied(S[s], S[s].rid) = [idx |-> k, rid |-> i, thinks |-> FALSE, done |-> FALSE]
      <4>1. S[s].done = ses[s].done
        BY <1>6
      <4>2. S[s].done = FALSE
        BY <1>4, <4>1
      <4> HIDE DEF k, i
      <4> QED
        BY <2>5, <4>2 DEF Occupied
    <3>2. Q = [S EXCEPT ![s] = [idx |-> k, rid |-> i, thinks |-> FALSE, done |-> FALSE]]
      BY <3>1 DEF Q
    <3>3. \A a, b : [[ses EXCEPT ![s] = a] EXCEPT ![s] = b] = [ses EXCEPT ![s] = b]
      BY <1>3
    <3> HIDE DEF k, i
    <3> QED
      BY <1>6, <2>4, <3>2, <3>3
  <2>11. trace' = Append(trace, AdmittedTrace(n, engine.req[i].out, TRUE))
    BY <2>4, <2>5 DEF T
  <2>12. traceOf' = [traceOf EXCEPT ![i] = Len(trace) + 1]
    BY <2>4, <2>5 DEF Z
  <2>13. count' = [offered |-> count.offered + 1, admitted |-> count.admitted + 1,
                   rejected |-> count.rejected, exhausted |-> count.exhausted]
    BY <2>4 DEF C
  <2>14. UNCHANGED <<mode, policy>>
    BY <1>1
  <2>15. EverySessionStarts => ComesOn'
    <3>1. s \in Holders'
      BY <1>3, <1>4, <2>10 DEF Holders, N
    <3>2. EverySessionStarts => next = N \/ policy # "any"
      BY <1>2, <1>11, <1>13 DEF HarnessInv, ComesOn
    <3> QED
      BY <1>1, <2>4, <3>1, <3>2 DEF ComesOn, N
  <2> QED
    BY <1>4, <1>5, <1>11, <1>13, <2>4, <2>9, <2>10, <2>11, <2>12, <2>13, <2>14, <2>15, AdmittedKeeps
<1>15. CASE ~ok
  <2> DEFINE Q == [S EXCEPT ![s] = GivenUp(S[s])]
             T == Append(trace, RefusedTrace(n, TRUE))
             C == [offered |-> count.offered + 1, admitted |-> count.admitted,
                   rejected |-> count.rejected + 1, exhausted |-> count.exhausted]
             H == [e |-> engine, next |-> next, ses |-> Q, trace |-> T, of |-> traceOf, count |-> C]
  <2>1. StartSessionTurn(HarnessWith(S), s, TRUE, ok, n) = HarnessRefusing(S, s, TRUE, n)
    BY <1>3, <1>7, <1>15, RefusedFacts
  <2>2. HarnessRefusing(S, s, TRUE, n) = H
    BY DEF HarnessRefusing
  <2>3. BecomeHarness(H) /\ next = next
    <3> HIDE DEF H
    <3> QED
      BY <1>9, <2>1, <2>2
  <2> HIDE DEF Q, T, C
  <2>4. engine' = engine /\ next' = next /\ ses' = Q /\ trace' = T /\ traceOf' = traceOf /\ count' = C
    BY <2>3, TurnBegins
  <2>5. ses' = [ses EXCEPT ![s] = [idx |-> k, rid |-> 0, thinks |-> FALSE, done |-> TRUE]]
    <3>1. GivenUp(S[s]) = [idx |-> k, rid |-> 0, thinks |-> FALSE, done |-> TRUE]
      BY <1>6 DEF GivenUp
    <3>2. Q = [S EXCEPT ![s] = [idx |-> k, rid |-> 0, thinks |-> FALSE, done |-> TRUE]]
      BY <3>1 DEF Q
    <3>3. \A a, b : [[ses EXCEPT ![s] = a] EXCEPT ![s] = b] = [ses EXCEPT ![s] = b]
      BY <1>3
    <3> HIDE DEF k, i
    <3> QED
      BY <1>6, <2>4, <3>2, <3>3
  <2>6. trace' = Append(trace, RefusedTrace(n, TRUE))
    BY <2>4 DEF T
  <2>7. count' = [offered |-> count.offered + 1, admitted |-> count.admitted,
                  rejected |-> count.rejected + 1, exhausted |-> count.exhausted]
    BY <2>4 DEF C
  <2>8. UNCHANGED <<engine, mode, policy, traceOf>>
    BY <1>1, <2>4
  <2>9. EverySessionStarts => ComesOn'
    <3>1. EverySessionStarts => next = N
      BY <1>2, <1>10, <1>11, <1>13, <1>15 DEF HarnessInv, ComesOn
    <3> QED
      BY <2>4, <3>1 DEF ComesOn, N
  <2> QED
    BY <1>4, <1>5, <1>10, <1>11, <1>13, <1>15, <2>4, <2>5, <2>6, <2>7, <2>8, <2>9, RefusedKeeps
<1> QED
  BY <1>10, <1>14, <1>15

---------------------------------------------------------------------------
(* Steps of the engine. *)

\* A step's tokens go to the traces that their requests have.
LEMMA RecordedFacts ==
  ASSUME TracesOK, trace \in Seq(Traces), NEW F, Orderly(F), trace' = RecordEmitted(F)
  PROVE  /\ trace' \in Seq(Traces) /\ DOMAIN trace' = DOMAIN trace /\ Len(trace') = Len(trace)
         /\ \A i \in DOMAIN trace : /\ trace'[i].admitted = trace[i].admitted
                                    /\ trace'[i].resumed = trace[i].resumed
                                    /\ trace'[i].from = trace[i].from /\ trace'[i].want = trace[i].want
         /\ \A r \in Ids : traceOf[r] # 0 =>
              trace'[traceOf[r]].toks = trace[traceOf[r]].toks \o F.last[r]
         /\ \A i \in DOMAIN trace : (\A r \in Ids : traceOf[r] # i) => trace'[i] = trace[i]
<1> DEFINE rids(i) == {r \in Ids : traceOf[r] = i}
           rec(i) == IF rids(i) = {} THEN trace[i]
                     ELSE [trace[i] EXCEPT !.toks = @ \o F.last[CHOOSE r \in rids(i) : TRUE]]
<1>1. trace' = [i \in DOMAIN trace |-> rec(i)]
  BY DEF RecordEmitted
<1>2. DOMAIN trace = 1..Len(trace) /\ Len(trace) \in Nat /\ \A i \in DOMAIN trace : trace[i] \in Traces
  BY LenProperties, ElementOfSeq
<1>3. ASSUME NEW i \in DOMAIN trace, \A r \in Ids : traceOf[r] # i
      PROVE  trace'[i] = trace[i]
  <2>1. rids(i) = {}
    BY <1>3
  <2> QED
    BY <1>1, <2>1
<1>4. ASSUME NEW r \in Ids, traceOf[r] # 0
      PROVE  LET i == traceOf[r]
             IN  /\ i \in DOMAIN trace /\ F.last[r] \in Seq(Nat)
                 /\ trace'[i] = [want |-> trace[i].want, toks |-> trace[i].toks \o F.last[r],
                                 admitted |-> trace[i].admitted, from |-> trace[i].from,
                                 resumed |-> trace[i].resumed]
  <2> DEFINE i == traceOf[r]
             x == trace[i]
             t == F.last[r]
  <2>1. i \in DOMAIN trace
    BY <1>4 DEF TracesOK
  <2>2. rids(i) = {r}
    BY <1>4 DEF TracesOK
  <2>3. (CHOOSE q \in rids(i) : TRUE) = r
    BY <2>2
  <2>4. trace'[i] = [x EXCEPT !.toks = @ \o t]
    <3>1. trace'[i] = rec(i)
      BY <1>1, <2>1
    <3>2. rids(i) # {}
      BY <2>2
    <3> HIDE DEF rids
    <3>3. rec(i) = [trace[i] EXCEPT !.toks = @ \o F.last[CHOOSE q \in rids(i) : TRUE]]
      BY <3>2
    <3> QED
      BY <2>3, <3>1, <3>3
  <2>5. x \in Traces
    BY <1>2, <2>1
  <2>6. x = [want |-> x.want, toks |-> x.toks, admitted |-> x.admitted, from |-> x.from, resumed |-> x.resumed]
    BY <2>5 DEF Traces
  <2>7. t \in Seq(Nat)
    BY EngineFacts
  <2> HIDE DEF x, t, i
  <2>8. [x EXCEPT !.toks = @ \o t]
          = [want |-> x.want, toks |-> x.toks \o t, admitted |-> x.admitted, from |-> x.from,
             resumed |-> x.resumed]
    <3> DEFINE e == x.toks \o t
    <3>1. [x EXCEPT !.toks = @ \o t] = [x EXCEPT !.toks = e]
      OBVIOUS
    <3> HIDE DEF e
    <3>2. [x EXCEPT !.toks = e]
            = [want |-> x.want, toks |-> e, admitted |-> x.admitted, from |-> x.from, resumed |-> x.resumed]
      BY <2>6
    <3> QED
      BY <3>1, <3>2 DEF e
  <2> QED
    BY <2>1, <2>4, <2>7, <2>8 DEF x, t, i
<1> HIDE DEF rec, rids
<1>5. ASSUME NEW i \in DOMAIN trace
      PROVE  /\ trace'[i] \in Traces
             /\ trace'[i].admitted = trace[i].admitted /\ trace'[i].resumed = trace[i].resumed
             /\ trace'[i].from = trace[i].from /\ trace'[i].want = trace[i].want
  <2>1. CASE \A r \in Ids : traceOf[r] # i
    BY <1>2, <1>3, <2>1
  <2>2. CASE \E r \in Ids : traceOf[r] = i
    <3>1. PICK r \in Ids : traceOf[r] = i
      BY <2>2
    <3>2. i # 0
      BY <1>2
    <3> DEFINE x == trace[i]
               t == F.last[r]
               y == [want |-> x.want, toks |-> x.toks \o t, admitted |-> x.admitted, from |-> x.from,
                     resumed |-> x.resumed]
    <3>3. trace'[i] = y /\ t \in Seq(Nat)
      BY <1>4, <3>1, <3>2
    <3>4. x \in Traces
      BY <1>2
    <3>5. x.want \in Nat /\ x.toks \in Seq(Nat) /\ x.admitted \in BOOLEAN /\ x.from \in Nat /\ x.resumed \in BOOLEAN
      BY <3>4 DEF Traces
    <3> HIDE DEF x, t
    <3>6. x.toks \o t \in Seq(Nat)
      BY <3>3, <3>5, ConcatProperties
    <3>7. y \in Traces
      BY <3>5, <3>6 DEF Traces
    <3>8. y.admitted = x.admitted /\ y.resumed = x.resumed /\ y.from = x.from /\ y.want = x.want
      OBVIOUS
    <3> HIDE DEF y
    <3> QED
      BY <3>3, <3>7, <3>8 DEF x
  <2> QED
    BY <2>1, <2>2
<1>6. DOMAIN trace' = DOMAIN trace
  BY <1>1
<1>7. trace' \in Seq(Traces) /\ Len(trace') = Len(trace)
  <2>1. trace' = [i \in 1..Len(trace) |-> rec(i)] /\ \A i \in 1..Len(trace) : rec(i) \in Traces
    BY <1>1, <1>2, <1>5
  <2>2. trace' \in [1..Len(trace) -> Traces]
    BY <2>1
  <2>3. trace' \in Seq(Traces)
    BY <1>2, <2>2, SeqDef
  <2> QED
    BY <1>2, <1>6, <2>3, LenProperties
<1>8. ASSUME NEW r \in Ids, traceOf[r] # 0
      PROVE  trace'[traceOf[r]].toks = trace[traceOf[r]].toks \o F.last[r]
  <2> DEFINE x == trace[traceOf[r]]
             t == F.last[r]
  <2>1. trace'[traceOf[r]] = [want |-> x.want, toks |-> x.toks \o t, admitted |-> x.admitted,
                              from |-> x.from, resumed |-> x.resumed]
    BY <1>4, <1>8
  <2> HIDE DEF x, t
  <2>2. trace'[traceOf[r]].toks = x.toks \o t
    BY <2>1
  <2> QED
    BY <2>2 DEF x, t
<1> QED
  BY <1>3, <1>5, <1>6, <1>7, <1>8

\* Each trace still has all its request has emitted in the turn, or the whole turn.
LEMMA TracesServed ==
  ASSUME TracesOK, trace \in Seq(Traces), Orderly(engine), Orderly(engine'), Served(engine, engine'),
         trace' = RecordEmitted(engine'), traceOf' = traceOf
  PROVE  TracesOK'
<1>1. /\ DOMAIN trace' = DOMAIN trace
      /\ \A i \in DOMAIN trace : /\ trace'[i].admitted = trace[i].admitted
                                 /\ trace'[i].from = trace[i].from /\ trace'[i].want = trace[i].want
      /\ \A r \in Ids : traceOf[r] # 0 =>
           trace'[traceOf[r]].toks = trace[traceOf[r]].toks \o engine'.last[r]
      /\ \A i \in DOMAIN trace : (\A r \in Ids : traceOf[r] # i) => trace'[i] = trace[i]
  BY RecordedFacts
<1>2. ASSUME NEW r \in Ids
      PROVE  /\ engine'.req[r].st = "unborn" <=> engine.req[r].st = "unborn"
             /\ engine'.req[r].st = "unborn" => engine'.req[r] = engine.req[r]
  BY DEF Served
<1>3. ASSUME NEW r \in Ids, traceOf[r] # 0
      PROVE  /\ traceOf[r] \in DOMAIN trace' /\ trace'[traceOf[r]].admitted
             /\ Owed(trace'[traceOf[r]], engine'.req[r], trace'[traceOf[r]].toks)
  <2> DEFINE x == trace[traceOf[r]]
             y == trace'[traceOf[r]]
  <2>1. traceOf[r] \in DOMAIN trace /\ x.admitted /\ Owed(x, engine.req[r], x.toks)
    BY <1>3 DEF TracesOK
  <2>2. x.from \in Nat /\ x.want \in Nat
    <3>1. x \in Traces
      BY <2>1, LenProperties, ElementOfSeq
    <3> HIDE DEF x
    <3> QED
      BY <3>1 DEF Traces
  <2>3. y.from = x.from /\ y.want = x.want /\ y.toks = x.toks \o engine'.last[r]
        /\ y.admitted = x.admitted
    BY <1>1, <1>3, <2>1
  <2> HIDE DEF x, y
  <2>4. Owed(x, engine'.req[r], y.toks)
    BY <2>1, <2>2, <2>3, OwedServed
  <2>5. Owed(y, engine'.req[r], y.toks)
    BY <2>3, <2>4 DEF Owed
  <2> QED
    BY <1>1, <2>1, <2>3, <2>5 DEF x, y
<1>4. ASSUME NEW i \in DOMAIN trace', trace'[i].admitted
      PROVE  \/ \E r \in Ids : traceOf[r] = i
             \/ trace'[i].toks = TokensFrom(trace'[i].from, trace'[i].want)
  BY <1>1, <1>4 DEF TracesOK
<1>5. ASSUME NEW r \in Ids
      PROVE  /\ traceOf[r] = 0 <=> engine'.req[r].st = "unborn"
             /\ engine'.req[r].st = "unborn" => engine'.req[r].out = 0
  BY <1>2 DEF TracesOK
<1>6. \A r, q \in Ids : traceOf[r] # 0 /\ traceOf[r] = traceOf[q] => r = q
  BY DEF TracesOK
<1> QED
  BY <1>3, <1>4, <1>5, <1>6 DEF TracesOK

\* The states of the sessions after a step, field by field.
LEMMA AfterStepFacts ==
  ASSUME ses \in [1..N -> States], NEW F, NEW s \in 1..N
  PROVE  LET x == AfterStep(F)[s]
         IN  /\ AfterStep(F) \in [1..N -> States] /\ x.idx = ses[s].idx
             /\ ~TurnOver(F, s) => x = ses[s]
             /\ TurnOver(F, s) /\ ses[s].idx = Turns(s) - 1 =>
                  x.rid = 0 /\ x.done /\ (x.thinks <=> ses[s].thinks)
             /\ TurnOver(F, s) /\ ses[s].idx # Turns(s) - 1 =>
                  x.rid = ses[s].rid /\ x.thinks /\ (x.done <=> ses[s].done)
<1> DEFINE over(t) == [ses[t] EXCEPT !.done = TRUE, !.rid = 0]
           waits(t) == [ses[t] EXCEPT !.thinks = TRUE]
           after(t) == IF ~TurnOver(F, t) THEN ses[t]
                       ELSE IF ses[t].idx = Turns(t) - 1 THEN over(t) ELSE waits(t)
<1>1. AfterStep(F) = [t \in 1..N |-> after(t)]
  BY DEF AfterStep
<1>2. ASSUME NEW t \in 1..N
      PROVE  /\ over(t) = [idx |-> ses[t].idx, rid |-> 0, thinks |-> ses[t].thinks, done |-> TRUE]
             /\ waits(t) = [idx |-> ses[t].idx, rid |-> ses[t].rid, thinks |-> TRUE, done |-> ses[t].done]
             /\ ses[t] \in States
  <2> DEFINE q == ses[t]
  <2>1. q \in States
    OBVIOUS
  <2> HIDE DEF q
  <2>2. q = [idx |-> q.idx, rid |-> q.rid, thinks |-> q.thinks, done |-> q.done]
    BY <2>1 DEF States
  <2>3. \A a, b : [q EXCEPT !.done = a, !.rid = b] = [idx |-> q.idx, rid |-> b, thinks |-> q.thinks, done |-> a]
    <3> TAKE a, b
    <3> DEFINE x == [q EXCEPT !.done = a]
    <3>1. x = [idx |-> q.idx, rid |-> q.rid, thinks |-> q.thinks, done |-> a]
      BY <2>2
    <3> HIDE DEF x
    <3>2. [x EXCEPT !.rid = b] = [idx |-> q.idx, rid |-> b, thinks |-> q.thinks, done |-> a]
      BY <3>1
    <3> QED
      BY <3>2 DEF x
  <2>4. \A a : [q EXCEPT !.thinks = a] = [idx |-> q.idx, rid |-> q.rid, thinks |-> a, done |-> q.done]
    BY <2>2
  <2> QED
    BY <2>1, <2>3, <2>4 DEF q
<1> HIDE DEF over, waits
<1>3. ASSUME NEW t \in 1..N
      PROVE  after(t) \in States
  <2>1. over(t) \in States /\ waits(t) \in States
    <3>1. ses[t].idx \in Nat /\ ses[t].rid \in Ids \union {0} /\ ses[t].thinks \in BOOLEAN
          /\ ses[t].done \in BOOLEAN
      BY <1>2 DEF States
    <3>2. \A a \in Nat, b \in Ids \union {0}, c \in BOOLEAN, d \in BOOLEAN :
            [idx |-> a, rid |-> b, thinks |-> c, done |-> d] \in States
      BY DEF States
    <3> QED
      BY <1>2, <3>1, <3>2
  <2> QED
    BY <1>2, <2>1
<1>4. AfterStep(F) \in [1..N -> States]
  BY <1>1, <1>3
<1>5. AfterStep(F)[s] = after(s)
  BY <1>1
<1>6. /\ over(s).idx = ses[s].idx /\ over(s).rid = 0 /\ over(s).done /\ over(s).thinks = ses[s].thinks
      /\ waits(s).idx = ses[s].idx /\ waits(s).rid = ses[s].rid /\ waits(s).thinks
      /\ waits(s).done = ses[s].done
  BY <1>2
<1> QED
  BY <1>4, <1>5, <1>6

\* A session whose turn is over thinks on its request, or has left with it.
LEMMA SessionsServed ==
  ASSUME SessionsOK, HarnessTypeOK, Orderly(engine), Orderly(engine'), Served(engine, engine'),
         UNCHANGED <<mode, next>>, ses' = AfterStep(engine'), RefusedBetween' = RefusedBetween
  PROVE  SessionsOK'
<1>1. ses \in [1..N -> States] /\ \A s \in 1..N : SessionOK(s)
  BY DEF HarnessTypeOK, SessionsOK
<1>2. ASSUME NEW s \in 1..N
      PROVE  /\ ses'[s].idx = ses[s].idx
             /\ ~TurnOver(engine', s) => ses'[s] = ses[s]
             /\ TurnOver(engine', s) /\ ses[s].idx = Turns(s) - 1 =>
                  ses'[s].rid = 0 /\ ses'[s].done /\ (ses'[s].thinks <=> ses[s].thinks)
             /\ TurnOver(engine', s) /\ ses[s].idx # Turns(s) - 1 =>
                  ses'[s].rid = ses[s].rid /\ ses'[s].thinks /\ (ses'[s].done <=> ses[s].done)
  BY <1>1, AfterStepFacts
\* A session either is as it was, with its request active or paused as before, or its turn is over.
<1>3. ASSUME NEW s \in Holders
      PROVE  LET r == ses[s].rid
             IN  /\ s \in 1..N /\ r \in Ids /\ r # 0 /\ ~ses[s].done
                 /\ \/ /\ ses'[s] = ses[s] /\ engine'.req[r].st = engine.req[r].st
                       /\ engine'.req[r].hold = engine.req[r].hold
                    \/ /\ ~ses[s].thinks /\ ses[s].idx = Turns(s) - 1 /\ engine'.req[r].st = "gone"
                       /\ ses'[s].rid = 0 /\ ses'[s].done /\ ~ses'[s].thinks
                    \/ /\ ses[s].idx + 1 < Turns(s) /\ engine'.req[r].st = "paused"
                       /\ ses'[s].rid = r /\ ses'[s].thinks /\ ~ses'[s].done
  <2> DEFINE r == ses[s].rid
  <2>1. s \in 1..N /\ r \in Ids /\ r # 0 /\ ~ses[s].done /\ SessionOK(s)
    BY <1>1 DEF Holders, SessionOK, States
  <2>2. PICK i \in Nat : i = ses[s].idx
    BY <1>1, <2>1 DEF States
  <2>3. PICK m \in Nat : m = Turns(s)
    BY <2>1, TurnsFacts
  <2>4. (i = m - 1 <=> ~(i + 1 < m)) /\ i < m
    <3>1. i < m
      BY <2>1, <2>2, <2>3 DEF SessionOK
    <3> QED
      BY <3>1
  <2>5. CASE ses[s].thinks
    <3>1. engine.req[r].st = "paused"
      BY <2>1, <2>5 DEF SessionOK
    <3>2. engine'.req[r] = engine.req[r] /\ ~TurnOver(engine', s)
      BY <2>1, <3>1 DEF Served, TurnOver
    <3> QED
      BY <1>2, <2>1, <3>2
  <2>6. CASE ~ses[s].thinks
    <3>1. engine.req[r].st = "active" /\ (engine.req[r].hold <=> i + 1 < m)
      BY <2>1, <2>2, <2>3, <2>6 DEF SessionOK
    <3>2. /\ engine'.req[r].st \in {"active", "paused", "gone"}
          /\ engine'.req[r].hold = engine.req[r].hold
          /\ engine'.req[r].st = "paused" => engine.req[r].hold
          /\ engine'.req[r].st = "gone" => ~engine.req[r].hold
      BY <2>1, <3>1 DEF Served
    <3>3. TurnOver(engine', s) <=> engine'.req[r].st # "active"
      BY <2>1, <3>1 DEF TurnOver
    <3>4. CASE engine'.req[r].st = "active"
      BY <1>2, <2>1, <3>1, <3>2, <3>3, <3>4
    <3>5. CASE engine'.req[r].st = "gone"
      BY <1>2, <2>1, <2>2, <2>3, <2>4, <2>6, <3>1, <3>2, <3>3, <3>5
    <3>6. CASE engine'.req[r].st = "paused"
      BY <1>2, <2>1, <2>2, <2>3, <2>4, <3>1, <3>2, <3>3, <3>6
    <3> QED
      BY <3>2, <3>4, <3>5, <3>6
  <2> QED
    BY <2>5, <2>6
<1>4. ASSUME NEW s \in 1..N, s \notin Holders
      PROVE  ses'[s] = ses[s]
  BY <1>2, <1>4 DEF Holders, TurnOver
<1>5. ASSUME NEW s \in 1..N
      PROVE  SessionOK(s)'
  <2>1. SessionOK(s)
    BY <1>1
  <2>2. CASE s \notin Holders
    <3>1. ses[s].rid = 0
      BY <2>2 DEF Holders
    <3> QED
      BY <1>4, <2>1, <2>2, <3>1 DEF SessionOK, Turns
  <2>3. CASE s \in Holders
    <3>1. ~(s > next)
      BY <2>1, <2>3 DEF Holders, SessionOK
    <3> DEFINE r == ses[s].rid
    <3>2. CASE ses'[s] = ses[s] /\ engine'.req[r].st = engine.req[r].st /\ engine'.req[r].hold = engine.req[r].hold
      BY <2>1, <3>2 DEF SessionOK, Turns
    <3>3. CASE ses'[s].rid = 0 /\ ses'[s].done /\ ~ses'[s].thinks
      BY <1>2, <2>1, <3>1, <3>3 DEF SessionOK, Turns
    <3>4. CASE /\ ses[s].idx + 1 < Turns(s) /\ engine'.req[r].st = "paused"
               /\ ses'[s].rid = r /\ ses'[s].thinks /\ ~ses'[s].done
      <4>1. r # 0
        BY <1>3, <2>3
      <4> QED
        BY <1>2, <2>1, <3>1, <3>4, <4>1 DEF SessionOK, Turns
    <3> QED
      BY <1>3, <2>3, <3>2, <3>3, <3>4
  <2> QED
    BY <2>2, <2>3
<1>6. \A s \in Holders' : s \in Holders /\ ses'[s].rid = ses[s].rid
  <2>1. ASSUME NEW s \in Holders'
        PROVE  s \in Holders /\ ses'[s].rid = ses[s].rid
    <3>1. s \in 1..N /\ ses'[s].rid # 0
      BY <2>1 DEF Holders, N
    <3>2. s \in Holders
      BY <1>4, <3>1 DEF Holders
    <3> QED
      BY <1>3, <3>1, <3>2
  <2> QED
    BY <2>1
<1>7. \A s, t \in Holders' : ses'[s].rid = ses'[t].rid => s = t
  BY <1>6 DEF SessionsOK
<1>8. ASSUME NEW r \in Ids, engine'.req[r].st = "active"
      PROVE  \E s \in Holders' : ses'[s].rid = r
  <2>1. engine.req[r].st = "active"
    BY <1>8 DEF Served
  <2>2. PICK s \in Holders : ses[s].rid = r
    BY <2>1 DEF SessionsOK
  <2>3. ses'[s] = ses[s] /\ s \in 1..N /\ r # 0
    BY <1>3, <1>8, <2>2
  <2>4. s \in Holders'
    BY <2>2, <2>3 DEF Holders, N
  <2> QED
    BY <2>2, <2>3, <2>4
<1>9. ASSUME mode' # "sessions", NEW r \in Ids
      PROVE  engine'.req[r].st # "paused"
  <2>1. engine.req[r].st # "paused"
    BY <1>9 DEF SessionsOK
  <2>2. CASE engine.req[r].st # "active"
    BY <2>1, <2>2 DEF Served
  <2>3. CASE engine.req[r].st = "active"
    <3>1. PICK s \in Holders : ses[s].rid = r
      BY <2>3 DEF SessionsOK
    <3>2. Turns(s) = 1 /\ ses[s].idx \in Nat
      BY <1>1, <1>3, <1>9, <3>1, TurnsFacts DEF States
    <3>3. ~(ses[s].idx + 1 < Turns(s))
      BY <3>2
    <3>4. ses'[s] = ses[s] => engine'.req[r].st = engine.req[r].st \/ engine'.req[r].st # "paused"
      BY <1>3, <3>1, <3>3
    <3> QED
      BY <1>3, <2>3, <3>1, <3>3
  <2> QED
    BY <2>2, <2>3
<1>10. Orphans' = Orphans
  <2>1. /\ Live(engine) = {r \in Ids : engine.req[r].st \in {"active", "paused"}}
        /\ Live(engine') = {r \in Ids : engine'.req[r].st \in {"active", "paused"}}
    BY LiveFinite
  <2> DEFINE R == {ses[t].rid : t \in Holders}
             Q == {ses'[t].rid : t \in Holders'}
  <2>2. Orphans = Live(engine) \ R /\ Orphans' = Live(engine') \ Q
    BY DEF Orphans, Live, Known
  <2>3. Q \subseteq R
    BY <1>6
  <2>4. ASSUME NEW r \in R, r \notin Q
        PROVE  r \notin Live(engine')
    <3>1. PICK s \in Holders : ses[s].rid = r
      OBVIOUS
    <3>2. s \notin Holders'
      BY <1>6, <2>4, <3>1
    <3>3. s \in 1..N /\ ses'[s].rid = 0
      <4>1. s \in 1..N
        BY DEF Holders
      <4> QED
        BY <3>2, <4>1 DEF Holders, N
    <3>4. engine'.req[r].st = "gone"
      BY <1>3, <3>1, <3>3
    <3> QED
      BY <2>1, <3>4
  <2>5. ASSUME NEW r \in Ids, r \notin R
        PROVE  engine'.req[r].st = engine.req[r].st
    <3>1. engine.req[r].st # "active"
      BY <2>5 DEF SessionsOK
    <3> QED
      BY <3>1 DEF Served
  <2>6. \A r \in R : r \in Q \/ r \notin Live(engine')
    BY <2>4
  <2> HIDE DEF R, Q
  <2>7. \A r \in Ids : r \notin R => (r \in Live(engine') <=> r \in Live(engine))
    BY <2>1, <2>5
  <2>8. Live(engine) \subseteq Ids /\ Live(engine') \subseteq Ids
    BY <2>1
  <2> QED
    BY <2>2, <2>3, <2>6, <2>7, <2>8
<1>11. Cardinality(Orphans)' = Cardinality(Orphans') /\ Cardinality(RefusedBetween)' = Cardinality(RefusedBetween')
  OBVIOUS
<1> QED
  BY <1>5, <1>7, <1>8, <1>9, <1>10, <1>11 DEF SessionsOK, N

\* A step, whether it returns or raises, starts no request and takes no slot.
LEMMA SlotsServed ==
  ASSUME SlotsOK, Orderly(engine), Orderly(engine'), Served(engine, engine'), policy' = policy,
         DOMAIN trace' = DOMAIN trace,
         \A i \in DOMAIN trace : trace'[i].admitted = trace[i].admitted /\ trace'[i].resumed = trace[i].resumed
  PROVE  SlotsOK'
<1>1. Cardinality(Live(engine')) <= Cardinality(Live(engine))
      /\ Cardinality(Live(engine')) \in Nat /\ Cardinality(Live(engine)) \in Nat
  BY LiveShrinks, LiveFinite
<1>2. MaxOccupancy \in Nat
  BY HarnessAssumption
<1>3. policy = "session_slo" => Cardinality(Live(engine')) <= MaxOccupancy
  BY <1>1, <1>2 DEF SlotsOK
<1>4. Live(engine)' = Live(engine')
  BY DEF Live, Known
<1> QED
  BY <1>3, <1>4 DEF SlotsOK

\* A step that returns.
LEMMA ServeStepKeeps ==
  ASSUME HarnessInv, ServeStep
  PROVE  HarnessInv'
<1>1. /\ at = "serve" /\ at' = "top" /\ engine' \in Steps(engine)
      /\ trace' = RecordEmitted(engine') /\ ses' = AfterStep(engine')
      /\ UNCHANGED <<mode, policy, slept, next, traceOf, count>>
  BY DEF ServeStep
<1>2. ~count.exhausted
  BY <1>1 DEF HarnessInv
<1>3. HarnessTypeOK /\ CountsAdd /\ SlotsOK /\ Orderly(engine) /\ SessionsOK /\ TracesOK
  BY <1>1, <1>2 DEF HarnessInv
<1>4. trace \in Seq(Traces) /\ ses \in [1..N -> States]
  BY <1>3 DEF HarnessTypeOK
<1>5. Orderly(engine') /\ Served(engine, engine')
  BY <1>1, <1>3, StepFacts
<1>6. /\ trace' \in Seq(Traces) /\ DOMAIN trace' = DOMAIN trace /\ Len(trace') = Len(trace)
      /\ \A i \in DOMAIN trace : /\ trace'[i].admitted = trace[i].admitted
                                 /\ trace'[i].resumed = trace[i].resumed
  BY <1>1, <1>3, <1>4, <1>5, RecordedFacts
<1>7. Refused' = Refused /\ RefusedBetween' = RefusedBetween
  BY <1>6 DEF Refused, RefusedBetween
<1>8. CountsAdd'
  BY <1>1, <1>2, <1>3, <1>6, <1>7 DEF CountsAdd
<1>9. ses' \in [1..N -> States]
  <2>1. CASE 1..N = {}
    BY <1>1, <2>1 DEF AfterStep
  <2>2. CASE 1..N # {}
    BY <1>1, <1>4, <2>2, AfterStepFacts
  <2> QED
    BY <2>1, <2>2
<1>10. HarnessTypeOK'
  BY <1>1, <1>3, <1>6, <1>9 DEF HarnessTypeOK, N
<1>11. SlotsOK'
  BY <1>1, <1>3, <1>5, <1>6, SlotsServed
<1>12. SessionsOK'
  BY <1>1, <1>3, <1>5, <1>7, SessionsServed
<1>13. TracesOK'
  BY <1>1, <1>3, <1>4, <1>5, TracesServed
<1>14. EndOK' /\ ComesOn' /\ Orderly(engine)'
  BY <1>1, <1>5 DEF EndOK, ComesOn, Orderly
<1> QED
  BY <1>1, <1>2, <1>8, <1>10, <1>11, <1>12, <1>13, <1>14 DEF HarnessInv

\* A step that raises: run_sessions takes it for the end, the other loops do not.
LEMMA ServeRaisesKeeps ==
  ASSUME HarnessInv, ServeRaises
  PROVE  HarnessInv'
<1>1. /\ at = "serve" /\ engine' \in FailedSteps(engine)
      /\ UNCHANGED <<mode, policy, slept, next, trace, traceOf>>
      /\ \/ /\ at' = "end" /\ count' = [count EXCEPT !.exhausted = TRUE]
            /\ ses' = [s \in 1..N |-> [ses[s] EXCEPT !.done = TRUE]]
         \/ at' = "raised" /\ UNCHANGED <<count, ses>>
  BY DEF ServeRaises
<1>2. ~count.exhausted
  BY <1>1 DEF HarnessInv
<1>3. HarnessTypeOK /\ CountsAdd /\ SlotsOK /\ Orderly(engine)
  BY DEF HarnessInv
<1>4. trace \in Seq(Traces) /\ ses \in [1..N -> States] /\ count \in Counts
  BY <1>3 DEF HarnessTypeOK
<1>5. Orderly(engine') /\ Served(engine, engine')
  BY <1>1, <1>3, StepFacts
<1>6. SlotsOK'
  BY <1>1, <1>3, <1>5, SlotsServed
<1>7. Refused' = Refused /\ Orderly(engine)'
  BY <1>1, <1>5 DEF Refused, Orderly
<1>8. CASE at' = "end" /\ count' = [count EXCEPT !.exhausted = TRUE]
           /\ ses' = [s \in 1..N |-> [ses[s] EXCEPT !.done = TRUE]]
  <2>1. /\ count'.offered = count.offered /\ count'.admitted = count.admitted
        /\ count'.rejected = count.rejected /\ count'.exhausted /\ count' \in Counts
    <3>1. count = [offered |-> count.offered, admitted |-> count.admitted, rejected |-> count.rejected,
                   exhausted |-> count.exhausted]
          /\ count.offered \in Nat /\ count.admitted \in Nat /\ count.rejected \in Nat
      BY <1>4 DEF Counts
    <3>2. count' = [offered |-> count.offered, admitted |-> count.admitted, rejected |-> count.rejected,
                    exhausted |-> TRUE]
      BY <1>8, <3>1
    <3> QED
      BY <3>1, <3>2 DEF Counts
  <2>2. ses' \in [1..N -> States]
    <3>1. ASSUME NEW s \in 1..N
          PROVE  [ses[s] EXCEPT !.done = TRUE] \in States
      <4>1. ses[s] \in States
        BY <1>4
      <4> QED
        BY <4>1 DEF States
    <3> QED
      BY <1>8, <3>1
  <2>3. HarnessTypeOK'
    BY <1>1, <1>3, <1>8, <2>1, <2>2 DEF HarnessTypeOK, N
  <2>4. CountsAdd'
    BY <1>1, <1>2, <1>3, <1>7, <2>1 DEF CountsAdd
  <2> QED
    BY <1>6, <1>7, <1>8, <2>1, <2>3, <2>4 DEF HarnessInv
<1>9. CASE at' = "raised" /\ UNCHANGED <<count, ses>>
  <2>1. HarnessTypeOK'
    BY <1>1, <1>3, <1>9 DEF HarnessTypeOK, N
  <2>2. CountsAdd'
    BY <1>1, <1>2, <1>3, <1>7, <1>9 DEF CountsAdd
  <2> QED
    BY <1>2, <1>6, <1>7, <1>9, <2>1, <2>2 DEF HarnessInv
<1> QED
  BY <1>1, <1>8, <1>9

\* The start of a turn that raises ends the loop, too.
LEMMA TurnStartRaisesKeeps ==
  ASSUME HarnessInv, at \in {"start", "resume"},
         NEW S \in [1..N -> States], NEW n \in 0..N, TurnStartRaises(S, n)
  PROVE  HarnessInv'
<1>1. /\ UNCHANGED <<engine, mode, policy, slept, trace, traceOf>> /\ next' = n
      /\ \/ /\ at' = "end" /\ count' = [count EXCEPT !.offered = @ + 1, !.exhausted = TRUE]
            /\ ses' = [s \in 1..N |-> [S[s] EXCEPT !.done = TRUE]]
         \/ at' = "raised" /\ count' = [count EXCEPT !.offered = @ + 1] /\ ses' = S
  BY DEF TurnStartRaises
<1>2. ~count.exhausted
  BY DEF HarnessInv
<1>3. HarnessTypeOK /\ CountsAdd /\ SlotsOK /\ Orderly(engine)
  BY DEF HarnessInv
<1>4. /\ count.offered \in Nat /\ count.admitted \in Nat /\ count.rejected \in Nat
      /\ count = [offered |-> count.offered, admitted |-> count.admitted, rejected |-> count.rejected,
                  exhausted |-> count.exhausted]
  BY <1>3 DEF HarnessTypeOK, Counts
<1>5. PICK a \in Nat : a = count.offered
  BY <1>4
<1>6. \/ /\ at' = "end"
         /\ count' = [offered |-> a + 1, admitted |-> count.admitted, rejected |-> count.rejected,
                      exhausted |-> TRUE]
      \/ /\ at' = "raised"
         /\ count' = [offered |-> a + 1, admitted |-> count.admitted, rejected |-> count.rejected,
                      exhausted |-> FALSE]
  <2>1. CASE at' = "end" /\ count' = [count EXCEPT !.offered = @ + 1, !.exhausted = TRUE]
    BY <1>4, <1>5, <2>1
  <2>2. CASE at' = "raised" /\ count' = [count EXCEPT !.offered = @ + 1]
    <3>1. count.exhausted = FALSE
      BY <1>2, <1>3 DEF HarnessTypeOK, Counts
    <3> QED
      BY <1>4, <1>5, <2>2, <3>1
  <2> QED
    BY <1>1, <2>1, <2>2
<1>7. count'.offered = a + 1 /\ count'.admitted = count.admitted /\ count'.rejected = count.rejected
      /\ count' \in Counts /\ (count'.exhausted \/ at' = "raised") /\ (count'.exhausted => at' = "end")
  <2>1. a + 1 \in Nat
    OBVIOUS
  <2>2. CASE at' = "end" /\ count' = [offered |-> a + 1, admitted |-> count.admitted,
                                     rejected |-> count.rejected, exhausted |-> TRUE]
    BY <1>4, <2>1, <2>2 DEF Counts
  <2>3. CASE at' = "raised" /\ count' = [offered |-> a + 1, admitted |-> count.admitted,
                                        rejected |-> count.rejected, exhausted |-> FALSE]
    BY <1>4, <2>1, <2>3 DEF Counts
  <2> QED
    BY <1>6, <2>2, <2>3
<1>8. ses' \in [1..N -> States]
  <2>1. ASSUME NEW s \in 1..N
        PROVE  [S[s] EXCEPT !.done = TRUE] \in States
    <3>1. S[s] \in States
      OBVIOUS
    <3> QED
      BY <3>1 DEF States
  <2> QED
    BY <1>1, <2>1
<1>9. HarnessTypeOK'
  BY <1>1, <1>3, <1>7, <1>8 DEF HarnessTypeOK, N
<1>10. CountsAdd'
  <2>1. a = Len(trace) /\ Refused' = Refused
    BY <1>1, <1>2, <1>3, <1>5 DEF CountsAdd, Refused
  <2> QED
    BY <1>1, <1>3, <1>7, <2>1 DEF CountsAdd
<1>11. SlotsOK' /\ Orderly(engine)'
  BY <1>1, <1>3 DEF SlotsOK, Live, Known, Orderly
<1> QED
  BY <1>1, <1>7, <1>9, <1>10, <1>11 DEF HarnessInv

LEMMA StartRaisesKeeps ==
  ASSUME HarnessInv, StartRaises
  PROVE  HarnessInv'
<1>1. ses \in [1..N -> States] /\ next \in 0..N /\ N \in Nat
  BY HarnessAssumption, LenProperties DEF HarnessInv, HarnessTypeOK, N
<1>2. next < N
  BY DEF StartRaises, MayStart, Harness
<1>3. (IF mode = "sessions" THEN next + 1 ELSE next) \in 0..N
  BY <1>1, <1>2
<1> QED
  BY <1>1, <1>3, TurnStartRaisesKeeps DEF StartRaises

LEMMA ResumeRaisesKeeps ==
  ASSUME HarnessInv, NEW s \in 1..N, ResumeRaises(s)
  PROVE  HarnessInv'
<1>1. ses \in [1..N -> States] /\ next \in 0..N
  BY DEF HarnessInv, HarnessTypeOK
<1>2. [ses[s] EXCEPT !.idx = @ + 1] \in States
  <2>1. ses[s] \in States /\ ses[s].idx \in Nat
    BY <1>1 DEF States
  <2>2. ses[s].idx + 1 \in Nat
    BY <2>1
  <2> QED
    BY <2>1, <2>2 DEF States
<1>3. [ses EXCEPT ![s].idx = @ + 1] \in [1..N -> States]
  BY <1>1, <1>2
<1> QED
  BY <1>1, <1>3, TurnStartRaisesKeeps DEF ResumeRaises

\* No step of a load loop breaks its invariant.
LEMMA HarnessKeeps ==
  ASSUME HarnessInv, HarnessNext
  PROVE  HarnessInv'
<1>1. CASE StartNext
  BY <1>1, StartNextKeeps
<1>2. CASE StartsDone
  BY <1>2, StartsDoneKeeps
<1>3. CASE ResumesDone
  BY <1>3, ResumesDoneKeeps
<1>4. CASE \E s \in 1..N : ResumeSession(s) \/ ResumeRaises(s)
  BY <1>4, ResumeSessionKeeps, ResumeRaisesKeeps
<1>5. CASE LoopTop
  BY <1>5, LoopTopKeeps
<1>6. CASE ServeStep
  BY <1>6, ServeStepKeeps
<1>7. CASE ServeRaises
  BY <1>7, ServeRaisesKeeps
<1>8. CASE ServeIdle
  BY <1>8, ServeIdleKeeps
<1>9. CASE StartRaises
  BY <1>9, StartRaisesKeeps
<1> QED
  BY <1>1, <1>2, <1>3, <1>4, <1>5, <1>6, <1>7, <1>8, <1>9 DEF HarnessNext

---------------------------------------------------------------------------
(* Every behaviour. *)

\* The invariant holds before a loop has started.
LEMMA RunInvHoldsInitially == Init => RunInv
<1> SUFFICES ASSUME Init
             PROVE  RunInv
  OBVIOUS
<1>1. /\ mode \in Modes /\ policy \in Policies
      /\ mode \in {"batch", "sequence"} => policy = "always"
      /\ at = "top" /\ slept = FALSE /\ next = 0
      /\ ses = [s \in 1..N |-> [idx |-> 0, rid |-> 0, thinks |-> FALSE, done |-> FALSE]]
      /\ trace = << >> /\ traceOf = [r \in Ids |-> 0]
      /\ count = [offered |-> 0, admitted |-> 0, rejected |-> 0, exhausted |-> FALSE]
      /\ front # "harness" => mode = "batch"
  BY DEF Init, HarnessInit
<1>2. Orderly(engine) /\ \A r \in Ids : engine.req[r].st = "unborn" /\ engine.req[r].out = 0
  <2>1. engine = [req |-> [r \in Ids |-> Unborn], order |-> << >>, last |-> NothingEmitted]
    BY DEF Init, EngineInit
  <2> QED
    BY <2>1, OrderlyInitially DEF Init, Unborn
<1>3. CASE front # "harness"
  BY <1>1, <1>3 DEF RunInv, HarnessIdle
<1>4. CASE front = "harness"
  <2>1. N \in Nat
    BY HarnessAssumption, LenProperties DEF N
  <2>2. \A s \in 1..N : /\ ses[s] \in States /\ ses[s].idx = 0 /\ ses[s].rid = 0
                        /\ ~ses[s].thinks /\ ~ses[s].done
    BY <1>1 DEF States
  <2>3. HarnessTypeOK
    <3>1. mode \in {"sessions", "poisson", "batch", "sequence"}
          /\ policy \in {"always", "session_slo", "request_slo", "any"}
      BY <1>1, HarnessAssumption
    <3>2. count \in Counts
      BY <1>1 DEF Counts
    <3>3. ses \in [1..N -> States]
      BY <1>1, <2>2
    <3>4. trace \in Seq(Traces) /\ traceOf \in [Ids -> Nat]
      BY <1>1
    <3>5. next \in 0..N
      BY <1>1, <2>1
    <3>6. slept \in BOOLEAN
      BY <1>1
    <3> QED
      BY <1>1, <3>1, <3>2, <3>3, <3>4, <3>5, <3>6 DEF HarnessTypeOK
  <2>4. Len(trace) = 0 /\ DOMAIN trace = {}
    BY <1>1
  <2>5. Refused = {} /\ RefusedBetween = {} /\ Cardinality(Refused) = 0 /\ Cardinality(RefusedBetween) = 0
    BY <2>4, FS_EmptySet DEF Refused, RefusedBetween
  <2>6. CountsAdd
    BY <1>1, <2>4, <2>5 DEF CountsAdd
  <2>7. Live(engine) = {} /\ Cardinality(Live(engine)) = 0
    BY <1>2, FS_EmptySet DEF Live, Known
  <2>8. SlotsOK
    BY <2>4, <2>7, HarnessAssumption DEF SlotsOK
  <2>9. Holders = {} /\ Orphans = {}
    BY <2>2, <2>7 DEF Holders, Orphans
  <2>10. SessionsOK
    <3>1. \A s \in 1..N : SessionOK(s)
      BY <1>1, <2>2, TurnsFacts DEF SessionOK
    <3>2. Cardinality(Orphans) = Cardinality(RefusedBetween)
      BY <2>5, <2>9
    <3> QED
      BY <1>2, <2>9, <3>1, <3>2 DEF SessionsOK
  <2>11. TracesOK
    BY <1>1, <1>2, <2>4 DEF TracesOK
  <2> QED
    BY <1>1, <1>2, <1>4, <2>3, <2>6, <2>8, <2>10, <2>11 DEF RunInv, HarnessInv, EndOK, ComesOn
<1> QED
  BY <1>3, <1>4

\* A step of the loop keeps it, and the other front ends leave the harness alone.
LEMMA RunInvIsInductive == RunInv /\ [Next]_vars => RunInv'
<1> SUFFICES ASSUME RunInv, [Next]_vars
             PROVE  RunInv'
  OBVIOUS
<1>1. front' = front
  BY FrontStays
<1>2. CASE front # "harness"
  <2>1. UNCHANGED harnessVars
    BY <1>2 DEF Next, vars
  <2> QED
    BY <1>1, <1>2, <2>1 DEF RunInv, HarnessIdle, harnessVars
<1>3. CASE front = "harness"
  <2>1. HarnessInv
    BY <1>3 DEF RunInv
  <2>2. CASE HarnessNext
    BY <1>1, <1>3, <2>1, <2>2, HarnessKeeps DEF RunInv
  <2>3. CASE UNCHANGED vars
    <3>1. UNCHANGED <<engine, mode, policy, at, slept, next, ses, trace, traceOf, count>>
      BY <2>3 DEF vars, harnessVars
    <3>2. HarnessTypeOK' /\ CountsAdd' /\ SlotsOK' /\ Orderly(engine)'
      BY <2>1, <3>1 DEF HarnessInv, HarnessTypeOK, CountsAdd, Refused, SlotsOK, Live, Known, Orderly, N
    <3>3. SessionsOK => SessionsOK'
      BY <3>1 DEF SessionsOK, SessionOK, Turns, Holders, Orphans, Live, Known, RefusedBetween
    <3>4. TracesOK => TracesOK'
      BY <3>1 DEF TracesOK, Owed
    <3>5. (EndOK => EndOK') /\ (ComesOn => ComesOn')
      BY <3>1 DEF EndOK, ComesOn, Holders, N, EverySessionStarts
    <3>6. HarnessInv'
      BY <2>1, <3>1, <3>2, <3>3, <3>4, <3>5 DEF HarnessInv, EverySessionStarts, N
    <3> QED
      BY <1>1, <1>3, <3>6 DEF RunInv
  <2> QED
    BY <1>3, <2>2, <2>3 DEF Next, Rollout
<1> QED
  BY <1>2, <1>3

\* RunInv holds in every reachable state of the front ends.
THEOREM RunInvariant == Spec => []RunInv
<1> QED
  BY RunInvHoldsInitially, RunInvIsInductive, PTL DEF Spec

\* session_slo_admit never lets more sessions in than the knee it was given, thinking ones counted,
\* and neither SLO policy turns a session away between two of its turns.
THEOREM SlotsAreKept == Spec => []SlotsKept
<1>1. RunInv => SlotsKept
  <2> SUFFICES ASSUME RunInv
               PROVE  SlotsKept
    OBVIOUS
  <2>1. CASE front = "harness"
    BY <2>1 DEF RunInv, HarnessInv, SlotsOK, SlotsKept
  <2>2. CASE front # "harness"
    BY <2>2 DEF RunInv, HarnessIdle, SlotsKept
  <2> QED
    BY <2>1, <2>2
<1> QED
  BY <1>1, RunInvariant, PTL

\* The counts of a ServeRun add up at every moment, but for the one turn whose start raised and
\* ended the run, and at an end without KV exhaustion every trace
\* that was admitted has the whole turn, every session is done and nothing stays in the engine but
\* the requests held for sessions refused between two turns.
THEOREM ServeRunIsExact ==
  ASSUME EverySessionStarts
  PROVE  Spec => []ServeRunExact
<1>1. RunInv => ServeRunExact
  <2> SUFFICES ASSUME RunInv
               PROVE  ServeRunExact
    OBVIOUS
  <2>1. CASE front # "harness"
    <3>1. Len(trace) = 0 /\ {i \in DOMAIN trace : ~trace[i].admitted} = {}
      BY <2>1 DEF RunInv, HarnessIdle
    <3>2. Cardinality({i \in DOMAIN trace : ~trace[i].admitted}) = 0
      BY <3>1, FS_EmptySet
    <3> QED
      BY <2>1, <3>1, <3>2 DEF RunInv, HarnessIdle, ServeRunExact
  <2>2. CASE front = "harness"
    <3>1. HarnessInv
      BY <2>2 DEF RunInv
    <3>2. /\ count.admitted + count.rejected = Len(trace)
          /\ count.rejected = Cardinality({i \in DOMAIN trace : ~trace[i].admitted})
          /\ \/ count.offered = Len(trace)
             \/ count.offered = Len(trace) + 1 /\ (count.exhausted \/ at = "raised")
      BY <3>1 DEF HarnessInv, CountsAdd, Refused
    <3>3. ASSUME at = "end", ~count.exhausted
          PROVE  /\ \A i \in DOMAIN trace : trace[i].admitted =>
                      trace[i].toks = TokensFrom(trace[i].from, trace[i].want)
                 /\ \A s \in 1..N : ses[s].done
                 /\ Cardinality(Live(engine)) = Cardinality(RefusedBetween)
      <4>1. SessionsOK /\ TracesOK /\ EndOK /\ HarnessTypeOK /\ Orderly(engine)
        BY <3>1, <3>3 DEF HarnessInv
      <4>2. \A s \in 1..N : ses[s].done
        BY <3>3, <4>1 DEF EndOK
      <4>3. Holders = {}
        BY <4>1, <4>2 DEF Holders, SessionsOK, SessionOK
      <4>4. Orphans = Live(engine)
        BY <4>3 DEF Orphans
      <4>5. Cardinality(Live(engine)) = Cardinality(RefusedBetween)
        BY <4>1, <4>4 DEF SessionsOK
      <4>6. ASSUME NEW i \in DOMAIN trace, trace[i].admitted, NEW r \in Ids, traceOf[r] = i
            PROVE  trace[i].toks = TokensFrom(trace[i].from, trace[i].want)
        <5>1. trace \in Seq(Traces)
          BY <4>1 DEF HarnessTypeOK
        <5>2. i # 0 /\ trace[i] \in Traces
          BY <5>1, LenProperties, ElementOfSeq
        <5>3. Owed(trace[i], engine.req[r], trace[i].toks) /\ engine.req[r].st # "active"
          BY <3>3, <4>1, <4>6, <5>2 DEF TracesOK, EndOK
        <5>4. PICK a \in Nat, b \in Nat, c \in Nat :
                 a = engine.req[r].out /\ b = trace[i].from /\ c = trace[i].want
          BY <4>1, <5>2, EngineFacts DEF Traces
        <5>5. a + 0 = b + c /\ trace[i].toks = TokensFrom(b, a - b)
          BY <5>3, <5>4 DEF Owed
        <5>6. a - b = c
          BY <5>5
        <5> QED
          BY <5>4, <5>5, <5>6
      <4>7. \A i \in DOMAIN trace : trace[i].admitted =>
              trace[i].toks = TokensFrom(trace[i].from, trace[i].want)
        BY <4>1, <4>6 DEF TracesOK
      <4> QED
        BY <4>2, <4>5, <4>7
    <3> QED
      BY <3>2, <3>3 DEF ServeRunExact, TokensFrom, RefusedBetween
  <2> QED
    BY <2>1, <2>2
<1> QED
  BY <1>1, RunInvariant, PTL
=============================================================================
