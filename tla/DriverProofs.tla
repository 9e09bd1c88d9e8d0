---------------------------- MODULE DriverProofs ----------------------------
(***************************************************************************)
(* The invariants of EngineDriver, for every number of turns, calls, stops *)
(* and sessions, with the CPU tier on or off and with everything that may  *)
(* fail failing: DriverInv is inductive.                                   *)
(***************************************************************************)
EXTENDS DriverInvariants, FiniteSetTheorems, SequenceTheorems, TLAPS

-----------------------------------------------------------------------------
(***************************************************************************)
(* Queues.                                                                 *)
(***************************************************************************)
\* What appending to a queue does to its elements.
LEMMA AppendFacts ==
  ASSUME NEW S, NEW s \in Seq(S), NEW x \in S
  PROVE  /\ Append(s, x) \in Seq(S)
         /\ Len(Append(s, x)) = Len(s) + 1
         /\ ToSet(Append(s, x)) = ToSet(s) \union {x}
         /\ IsInjective(s) /\ x \notin ToSet(s) => IsInjective(Append(s, x))
<1>1. /\ Append(s, x) \in Seq(S)
      /\ Len(Append(s, x)) = Len(s) + 1
      /\ \A i \in 1..Len(s) : Append(s, x)[i] = s[i]
      /\ Append(s, x)[Len(s) + 1] = x
  BY AppendProperties
<1>2. DOMAIN s = 1..Len(s) /\ DOMAIN Append(s, x) = 1..Len(s) + 1 /\ Len(s) \in Nat
  BY <1>1, LenProperties
<1>3. ToSet(Append(s, x)) = ToSet(s) \union {x}
  BY <1>1, <1>2 DEF ToSet
<1>4. IsInjective(s) /\ x \notin ToSet(s) => IsInjective(Append(s, x))
  BY <1>1, <1>2 DEF ToSet, IsInjective
<1> QED
  BY <1>1, <1>3, <1>4

\* Taking the head off a queue.
LEMMA TailFacts ==
  ASSUME NEW S, NEW s \in Seq(S), s # << >>
  PROVE  /\ Head(s) \in S
         /\ Head(s) \in ToSet(s)
         /\ Tail(s) \in Seq(S)
         /\ Len(Tail(s)) = Len(s) - 1
         /\ ToSet(s) = {Head(s)} \union ToSet(Tail(s))
         /\ IsInjective(s) => IsInjective(Tail(s)) /\ Head(s) \notin ToSet(Tail(s))
<1>1. /\ Head(s) = s[1] /\ Tail(s) \in Seq(S)
      /\ Len(Tail(s)) = Len(s) - 1
      /\ \A i \in 1..Len(Tail(s)) : Tail(s)[i] = s[i + 1]
  BY HeadTailProperties
<1>2. DOMAIN s = 1..Len(s) /\ DOMAIN Tail(s) = 1..Len(s) - 1 /\ Len(s) \in Nat /\ Len(s) > 0
  BY <1>1, LenProperties, EmptySeq
<1>3. \A i \in DOMAIN Tail(s) : Tail(s)[i] = s[i + 1] /\ i + 1 \in DOMAIN s /\ i + 1 # 1
  BY <1>1, <1>2
<1>4. 1 \in DOMAIN s /\ \A i \in DOMAIN s : i # 1 => i - 1 \in DOMAIN Tail(s) /\ s[i] = Tail(s)[i - 1]
  BY <1>1, <1>2
<1>5. ToSet(s) = {Head(s)} \union ToSet(Tail(s))
  BY <1>1, <1>3, <1>4 DEF ToSet
<1>6. IsInjective(s) => IsInjective(Tail(s)) /\ Head(s) \notin ToSet(Tail(s))
  BY <1>1, <1>2, <1>3, <1>4 DEF ToSet, IsInjective
<1>7. Head(s) \in S
  BY <1>1, <1>4, ElementOfSeq
<1> QED
  BY <1>1, <1>5, <1>6, <1>7

Callbacks == Turns \X {"result", "pool", "error"}
Keys(m) == {e[1] : e \in ToSet(m)}

\* Callbacks of different turns, one after the other.
LEMMA ConcatFacts ==
  ASSUME NEW m \in Seq(Callbacks), NEW n \in Seq(Callbacks)
  PROVE  /\ m \o n \in Seq(Callbacks)
         /\ ToSet(m \o n) = ToSet(m) \union ToSet(n)
         /\ Unambiguous(m) /\ Unambiguous(n) /\ Keys(m) \intersect Keys(n) = {} =>
              Unambiguous(m \o n)
<1>1. /\ m \o n \in Seq(Callbacks)
      /\ Len(m \o n) = Len(m) + Len(n)
      /\ \A i \in 1..Len(m) + Len(n) : (m \o n)[i] = IF i <= Len(m) THEN m[i] ELSE n[i - Len(m)]
  BY ConcatProperties
<1>2. /\ DOMAIN m = 1..Len(m) /\ DOMAIN n = 1..Len(n) /\ DOMAIN (m \o n) = 1..Len(m) + Len(n)
      /\ Len(m) \in Nat /\ Len(n) \in Nat
  BY <1>1, LenProperties
<1> DEFINE c == m \o n
<1>3. \A i \in DOMAIN c : \/ i \in DOMAIN m /\ c[i] = m[i]
                          \/ i - Len(m) \in DOMAIN n /\ i > Len(m) /\ c[i] = n[i - Len(m)]
  BY <1>1, <1>2
<1>4. /\ \A i \in DOMAIN m : i \in DOMAIN c /\ c[i] = m[i]
      /\ \A i \in DOMAIN n : i + Len(m) \in DOMAIN c /\ c[i + Len(m)] = n[i]
  BY <1>1, <1>2
<1> HIDE DEF c
<1>5. ToSet(c) = ToSet(m) \union ToSet(n)
  BY <1>3, <1>4 DEF ToSet
<1>6. ASSUME Unambiguous(m), Unambiguous(n), Keys(m) \intersect Keys(n) = {}
      PROVE  Unambiguous(c)
  <2>1. ASSUME NEW i \in DOMAIN m, NEW j \in DOMAIN n
        PROVE  m[i][1] # n[j][1]
    BY <1>6 DEF Keys, ToSet
  <2>2. DOMAIN c \subseteq Int /\ Len(m) \in Int
    BY <1>1, <1>2 DEF c
  <2>3. \A i, j \in DOMAIN m : m[i][1] = m[j][1] => i = j
    BY <1>6 DEF Unambiguous
  <2>4. \A i, j \in DOMAIN n : n[i][1] = n[j][1] => i = j
    BY <1>6 DEF Unambiguous
  <2>5. SUFFICES ASSUME NEW i \in DOMAIN c, NEW j \in DOMAIN c, c[i][1] = c[j][1]
                 PROVE  i = j
    BY DEF Unambiguous
  <2> QED
    BY <1>3, <2>1, <2>2, <2>3, <2>4, <2>5
<1> QED
  BY <1>1, <1>5, <1>6 DEF c

\* The callback that resolves a turn, if the turn is not done.
LEMMA ResolveFacts ==
  ASSUME NEW t \in Turns, NEW v \in {"result", "pool", "error"}
  PROVE  /\ Resolve(t, v) \in Seq(Callbacks)
         /\ Unambiguous(Resolve(t, v))
         /\ ToSet(Resolve(t, v)) = IF future[t] = "pending" THEN {<<t, v>>} ELSE {}
<1>1. <<t, v>> \in Callbacks
  BY DEF Callbacks
<1>2. <<<<t, v>>>> \in Seq(Callbacks) /\ ToSet(<<<<t, v>>>>) = {<<t, v>>}
  BY <1>1 DEF ToSet
<1>3. << >> \in Seq(Callbacks) /\ ToSet(<< >>) = {}
  BY DEF ToSet
<1>4. Unambiguous(<<<<t, v>>>>) /\ Unambiguous(<< >>)
  <2>1. DOMAIN <<<<t, v>>>> = {1} /\ DOMAIN << >> = {}
    OBVIOUS
  <2> QED
    BY <2>1 DEF Unambiguous
<1> QED
  BY <1>2, <1>3, <1>4 DEF Resolve

\* A finite set as a sequence.
LEMMA SetToSeqFacts ==
  ASSUME NEW S, IsFiniteSet(S)
  PROVE  SetToSeq(S) \in Seq(S) /\ ToSet(SetToSeq(S)) = S /\ IsInjective(SetToSeq(S))
<1> DEFINE n == Cardinality(S)
           s == SetToSeq(S)
<1>1. n \in Nat /\ \E f \in Bijection(1..n, S) : TRUE
  BY FS_CardinalityType DEF ExistsBijection
<1>2. PICK f \in Bijection(1..n, S) : TRUE
  BY <1>1
<1>3. f \in [1..n -> S] /\ IsInjective(f)
  BY <1>2 DEF Bijection, Injection
<1>4. s \in [1..n -> S] /\ IsInjective(s)
  BY <1>3 DEF SetToSeq
<1> HIDE DEF s, n
<1>5. s \in Injection(1..n, S)
  BY <1>4 DEF Injection
<1>6. IsFiniteSet(1..n) /\ Cardinality(1..n) = n
  BY <1>1, FS_Interval
<1>7. s \in Surjection(1..n, S)
  BY <1>5, <1>6, FS_Injection DEF n
<1>8. s \in Seq(S)
  BY <1>1, <1>4
<1>9. ToSet(s) = S
  BY <1>4, <1>7 DEF ToSet, Surjection
<1> QED
  BY <1>4, <1>8, <1>9 DEF s

\* The callbacks of everybody a stop strands.
LEMMA ResolveAllFacts ==
  ASSUME NEW S \in SUBSET Turns, NEW v \in {"result", "pool", "error"}
  PROVE  /\ ResolveAll(S, v) \in Seq(Callbacks)
         /\ Unambiguous(ResolveAll(S, v))
         /\ ToSet(ResolveAll(S, v)) = {<<t, v>> : t \in {u \in S : future[u] = "pending"}}
<1> DEFINE U == {u \in S : future[u] = "pending"}
           C == {<<t, v>> : t \in U}
           f == [t \in U |-> <<t, v>>]
<1>1. IsFiniteSet(U)
  BY TurnsAssumption, FS_Subset
<1>2. f \in Surjection(U, C)
  BY DEF Surjection
<1>3. IsFiniteSet(C)
  BY <1>1, <1>2, FS_Surjection
<1>4. SetToSeq(C) \in Seq(C) /\ ToSet(SetToSeq(C)) = C /\ IsInjective(SetToSeq(C))
  BY <1>3, SetToSeqFacts
<1>5. C \subseteq Callbacks
  BY DEF Callbacks
<1>6. SetToSeq(C) \in Seq(Callbacks)
  BY <1>4, <1>5, SeqMonotonic
<1>7. \A i \in DOMAIN SetToSeq(C) : SetToSeq(C)[i] \in C
  BY <1>4, LenProperties, ElementOfSeq
<1>8. \A c, d \in C : c[1] = d[1] => c = d
  OBVIOUS
<1> HIDE DEF C
<1>9. Unambiguous(SetToSeq(C))
  BY <1>4, <1>7, <1>8 DEF Unambiguous, IsInjective
<1> QED
  BY <1>4, <1>6, <1>9 DEF ResolveAll, C

-----------------------------------------------------------------------------
(***************************************************************************)
(* The rollout.  Every operation but the start of a turn, a step and the   *)
(* retirement of a turn only takes things away.                            *)
(***************************************************************************)
\* The states of the rollout, and those in which live requests have steps left
\* and no session is live.
Sane(p) ==
  /\ p \in Rollout
  /\ \A t \in Turns : p.req[t] = "live" => p.left[t] > 0
  /\ \A t \in p.sessions : p.req[t] # "live"

\* From p to q nothing starts or stops running, no request takes KV, and a
\* session that is forgotten gives its KV back.
Kept(p, q) ==
  /\ Sane(q)
  /\ \A t \in Turns :
       /\ q.req[t] = "live" <=> p.req[t] = "live"
       /\ q.req[t] = "held" => p.req[t] = "held"
       /\ q.req[t] = "held" /\ t \in p.sessions => t \in q.sessions
  /\ q.sessions \subseteq p.sessions
  /\ q.ledger = p.ledger

LEMMA KeptSame == \A p : Sane(p) => Kept(p, p)
BY DEF Kept, Sane, Rollout

LEMMA KeptTwice == \A p, q, r : Kept(p, q) /\ Kept(q, r) => Kept(p, r)
BY DEF Kept, Sane, Rollout

\* Only the requests in S change, and they are not stepped.
LEMMA SetReqFacts ==
  ASSUME NEW p \in Rollout, NEW S \in SUBSET Turns, NEW x \in {"none", "live", "held", "cold"}
  PROVE  /\ SetReq(p, S, x) \in Rollout
         /\ \A t \in Turns : /\ SetReq(p, S, x).req[t] = IF t \in S THEN x ELSE p.req[t]
                             /\ SetReq(p, S, x).left[t] = IF t \in S THEN 0 ELSE p.left[t]
         /\ SetReq(p, S, x).sessions = p.sessions
         /\ SetReq(p, S, x).ledger = p.ledger
         /\ SetReq(p, S, x).free = p.free
<1> DEFINE r == [t \in Turns |-> IF t \in S THEN x ELSE p.req[t]]
           l == [t \in Turns |-> IF t \in S THEN 0 ELSE p.left[t]]
<1>1. p.req \in [Turns -> {"none", "live", "held", "cold"}] /\ p.left \in [Turns -> 0..MaxSteps]
  BY DEF Rollout
<1>2. r \in [Turns -> {"none", "live", "held", "cold"}]
  BY <1>1
<1>3. l \in [Turns -> 0..MaxSteps]
  BY <1>1, TurnsAssumption
<1>4. SetReq(p, S, x) = [p EXCEPT !.req = r, !.left = l]
  BY DEF SetReq
<1>5. \A t \in Turns : /\ r[t] = IF t \in S THEN x ELSE p.req[t]
                       /\ l[t] = IF t \in S THEN 0 ELSE p.left[t]
  OBVIOUS
<1> HIDE DEF r, l
<1>6. /\ [p EXCEPT !.req = r, !.left = l] \in Rollout
      /\ [p EXCEPT !.req = r, !.left = l].req = r
      /\ [p EXCEPT !.req = r, !.left = l].left = l
      /\ [p EXCEPT !.req = r, !.left = l].sessions = p.sessions
      /\ [p EXCEPT !.req = r, !.left = l].ledger = p.ledger
      /\ [p EXCEPT !.req = r, !.left = l].free = p.free
  BY <1>2, <1>3 DEF Rollout
<1> QED
  BY <1>4, <1>5, <1>6

\* Forgetting the sessions in S.
Forget(p, S) == [p EXCEPT !.sessions = @ \ S]

LEMMA ForgetFacts ==
  ASSUME NEW p \in Rollout, NEW S
  PROVE  /\ Forget(p, S) \in Rollout
         /\ Forget(p, S).req = p.req /\ Forget(p, S).left = p.left
         /\ Forget(p, S).sessions = p.sessions \ S
         /\ Forget(p, S).ledger = p.ledger /\ Forget(p, S).free = p.free
BY DEF Forget, Rollout

\* Another number of free blocks.
LEMMA FreeFacts ==
  ASSUME NEW p \in Rollout, NEW f \in 0..MaxFree
  PROVE  /\ [p EXCEPT !.free = f] \in Rollout
         /\ [p EXCEPT !.free = f].req = p.req /\ [p EXCEPT !.free = f].left = p.left
         /\ [p EXCEPT !.free = f].sessions = p.sessions
         /\ [p EXCEPT !.free = f].ledger = p.ledger
         /\ [p EXCEPT !.free = f].free = f
BY DEF Rollout

LEMMA FreedKept ==
  ASSUME NEW p, Sane(p), NEW q \in Freed(p)
  PROVE  Kept(p, q)
<1>1. PICK f \in p.free..MaxFree : q = [p EXCEPT !.free = f]
  BY DEF Freed
<1>2. f \in 0..MaxFree /\ p \in Rollout
  BY TurnsAssumption DEF Sane, Rollout
<1> QED
  BY <1>1, <1>2, FreeFacts DEF Kept, Sane

\* Sessions that are forgotten and finished.
LEMMA DropKept ==
  ASSUME NEW p, Sane(p), NEW S \in SUBSET p.sessions
  PROVE  Kept(p, FinishRequests(Forget(p, S), S))
<1>1. p \in Rollout /\ S \subseteq Turns /\ Forget(p, S) \in Rollout
  BY ForgetFacts DEF Sane, Rollout
<1> DEFINE q == Forget(p, S)
           r == SetReq(q, S, "none")
<1>2. /\ q.req = p.req /\ q.left = p.left
      /\ q.sessions = p.sessions \ S /\ q.ledger = p.ledger
  BY <1>1, ForgetFacts
<1>3. /\ r \in Rollout
      /\ \A t \in Turns : /\ r.req[t] = IF t \in S THEN "none" ELSE q.req[t]
                          /\ r.left[t] = IF t \in S THEN 0 ELSE q.left[t]
      /\ r.sessions = q.sessions /\ r.ledger = q.ledger
  BY <1>1, SetReqFacts
<1> HIDE DEF q, r
<1>4. p.sessions \subseteq Turns /\ \A t \in p.sessions : p.req[t] # "live"
  BY <1>1 DEF Sane, Rollout
<1>5. Sane(r)
  BY <1>2, <1>3, <1>4 DEF Sane
<1> QED
  BY <1>2, <1>3, <1>4, <1>5 DEF FinishRequests, Kept, q, r

\* Sessions that give up their KV.
LEMMA EvictKept ==
  ASSUME NEW p, Sane(p), NEW S \in SUBSET p.sessions
  PROVE  Kept(p, Evict(p, S))
<1>1. p \in Rollout /\ S \subseteq Turns
  BY DEF Sane, Rollout
<1> DEFINE r == SetReq(p, S, "cold")
<1>2. Kept(p, r)
  <2>1. /\ r \in Rollout
        /\ \A t \in Turns : /\ r.req[t] = IF t \in S THEN "cold" ELSE p.req[t]
                            /\ r.left[t] = IF t \in S THEN 0 ELSE p.left[t]
        /\ r.sessions = p.sessions /\ r.ledger = p.ledger
    BY <1>1, SetReqFacts
  <2> HIDE DEF r
  <2>2. p.sessions \subseteq Turns /\ \A t \in p.sessions : p.req[t] # "live"
    BY <1>1 DEF Sane, Rollout
  <2>3. Sane(r)
    BY <2>1, <2>2 DEF Sane
  <2> QED
    BY <2>1, <2>2, <2>3 DEF Kept
<1> QED
  BY <1>2, DropKept DEF Evict, Forget

LEMMA ReclaimKept ==
  ASSUME NEW p, Sane(p), NEW q \in Reclaim(p)
  PROVE  Kept(p, q)
<1>1. PICK E \in SUBSET {u \in p.sessions : p.req[u] = "held"} : q \in Freed(Evict(p, E))
  BY DEF Reclaim
<1>2. Kept(p, Evict(p, E))
  BY <1>1, EvictKept
<1>3. Kept(Evict(p, E), q)
  BY <1>1, <1>2, FreedKept DEF Kept
<1> QED
  BY <1>2, <1>3, KeptTwice

LEMMA BeforeStepKept ==
  ASSUME NEW p, Sane(p), NEW q \in BeforeStep(p)
  PROVE  Kept(p, q)
BY ReclaimKept, KeptSame DEF BeforeStep

\* A claimed session is gone.
LEMMA ConsumeKept ==
  ASSUME NEW p, Sane(p), NEW t \in Turns
  PROVE  Kept(p, Consume(p, t))
BY DropKept DEF Consume, Claim, Forget

LEMMA ConsumedKept ==
  ASSUME NEW p, Sane(p), NEW t \in Turns, NEW q \in Consumed(p, t)
  PROVE  Kept(p, q)
<1>1. Kept(p, Consume(p, t))
  BY ConsumeKept
<1>2. CASE q = Consume(p, t)
  BY <1>1, <1>2
<1>3. CASE q \in Freed(Consume(p, t))
  <2>1. Kept(Consume(p, t), q)
    BY <1>1, <1>3, FreedKept DEF Kept
  <2> QED
    BY <1>1, <2>1, KeptTwice
<1> QED
  BY <1>2, <1>3 DEF Consumed

LEMMA DeferKept ==
  ASSUME NEW p, Sane(p), NEW t \in Turns, NEW q \in Defer(p, t)
  PROVE  Kept(p, q)
BY ReclaimKept, KeptSame DEF Defer

LEMMA RefuseKept ==
  ASSUME NEW p, Sane(p), NEW t \in Turns, NEW q \in Refuse(p, t)
  PROVE  Kept(p, q)
BY ConsumedKept, KeptSame DEF Refuse

LEMMA FinishSessionKept ==
  ASSUME NEW p, Sane(p), NEW q \in FinishSession(p)
  PROVE  Kept(p, q)
<1>1. q = p \/ \E u \in p.sessions : q \in Freed(FinishRequests(Forget(p, {u}), {u}))
  BY DEF FinishSession, Forget
<1>2. CASE q = p
  BY <1>2, KeptSame
<1>3. CASE q # p
  <2>1. PICK u \in p.sessions : q \in Freed(FinishRequests(Forget(p, {u}), {u}))
    BY <1>1, <1>3
  <2>2. Kept(p, FinishRequests(Forget(p, {u}), {u}))
    BY DropKept
  <2>3. Kept(FinishRequests(Forget(p, {u}), {u}), q)
    BY <2>1, <2>2, FreedKept DEF Kept
  <2> QED
    BY <2>2, <2>3, KeptTwice
<1> QED
  BY <1>2, <1>3

\* No session is left.
LEMMA DropSessionsKept ==
  ASSUME NEW p, Sane(p)
  PROVE  Kept(p, DropSessions(p)) /\ DropSessions(p).sessions = {}
<1>1. p \in Rollout /\ p.sessions \subseteq Turns
  BY DEF Sane, Rollout
<1>2. [p EXCEPT !.sessions = {}] = Forget(p, p.sessions)
  BY <1>1 DEF Forget, Rollout
<1>3. DropSessions(p) = FinishRequests(Forget(p, p.sessions), p.sessions)
  BY <1>2 DEF DropSessions
<1>4. DropSessions(p).sessions = p.sessions \ p.sessions
  BY <1>1, <1>3, ForgetFacts, SetReqFacts DEF FinishRequests
<1> QED
  BY <1>3, <1>4, DropKept

LEMMA DroppedKept ==
  ASSUME NEW p, Sane(p), NEW q \in Freed(DropSessions(p))
  PROVE  Kept(p, q)
<1>1. Kept(p, DropSessions(p))
  BY DropSessionsKept
<1>2. Kept(DropSessions(p), q)
  BY <1>1, FreedKept DEF Kept
<1> QED
  BY <1>1, <1>2, KeptTwice

\* Neither a session nor an entry of the ledger is left.
LEMMA ClearFacts ==
  ASSUME NEW p, Sane(p)
  PROVE  /\ Sane(Clear(p))
         /\ Clear(p).sessions = {} /\ Clear(p).ledger = {}
         /\ \A t \in Turns :
              /\ Clear(p).req[t] = "live" <=> p.req[t] = "live"
              /\ Clear(p).req[t] = "held" => p.req[t] = "held" /\ t \notin p.sessions
<1> DEFINE q == DropSessions(p)
<1>1. Kept(p, q) /\ q.sessions = {}
  BY DropSessionsKept
<1> HIDE DEF q
<1>2. /\ [q EXCEPT !.ledger = {}] \in Rollout
      /\ [q EXCEPT !.ledger = {}].req = q.req /\ [q EXCEPT !.ledger = {}].left = q.left
      /\ [q EXCEPT !.ledger = {}].sessions = q.sessions
      /\ [q EXCEPT !.ledger = {}].ledger = {}
  BY <1>1 DEF Kept, Sane, Rollout
<1> QED
  BY <1>1, <1>2 DEF Clear, q, Kept, Sane

\* Turn t starts.
Started(p, q, t) ==
  /\ Sane(q)
  /\ q.req[t] = "live"
  /\ \A u \in Turns \ {t} :
       /\ q.req[u] = "live" <=> p.req[u] = "live"
       /\ q.req[u] = "held" => p.req[u] = "held"
       /\ q.req[u] = "held" /\ u \in p.sessions => u \in q.sessions
  /\ q.sessions \subseteq p.sessions
  /\ q.ledger = p.ledger \union {t}

LEMMA EnterFacts ==
  ASSUME NEW p, Sane(p), NEW t \in Turns, t \notin p.sessions, NEW q \in Enter(p, t)
  PROVE  Started(p, q, t)
<1> DEFINE r == SetReq(p, {t}, "live")
<1>1. PICK f \in 0..p.free :
        q = [r EXCEPT !.left[t] = MaxSteps, !.ledger = @ \union {t}, !.free = f]
  BY DEF Enter
<1>2. p \in Rollout /\ f \in 0..MaxFree
  BY TurnsAssumption DEF Sane, Rollout
<1>3. /\ r \in Rollout
      /\ \A u \in Turns : /\ r.req[u] = IF u \in {t} THEN "live" ELSE p.req[u]
                          /\ r.left[u] = IF u \in {t} THEN 0 ELSE p.left[u]
      /\ r.sessions = p.sessions /\ r.ledger = p.ledger
  BY <1>2, SetReqFacts
<1> HIDE DEF r
<1>4. /\ q \in Rollout
      /\ q.req = r.req /\ q.left = [r.left EXCEPT ![t] = MaxSteps]
      /\ q.sessions = r.sessions /\ q.ledger = r.ledger \union {t}
  <2>1. [r.left EXCEPT ![t] = MaxSteps] \in [Turns -> 0..MaxSteps]
    BY <1>3, TurnsAssumption DEF Rollout
  <2> QED
    BY <1>1, <1>2, <1>3, <2>1 DEF Rollout
<1>5. \A u \in Turns : q.left[u] = IF u = t THEN MaxSteps ELSE r.left[u]
  BY <1>3, <1>4 DEF Rollout
<1>6. p.sessions \subseteq Turns
  BY <1>2 DEF Rollout
<1>7. Sane(q)
  BY <1>3, <1>4, <1>5, <1>6, TurnsAssumption DEF Sane
<1> QED
  BY <1>3, <1>4, <1>7 DEF Started

LEMMA AdmitFacts ==
  ASSUME NEW p, Sane(p), NEW t \in Turns, t \notin p.sessions, NEW q \in Admit(p, t)
  PROVE  Started(p, q, t)
<1>2. PICK c \in Consumed(p, t) : q \in Enter(c, t)
  BY DEF Admit
<1>1. Kept(p, c)
  BY ConsumedKept
<1>3. Started(c, q, t)
  BY <1>1, <1>2, EnterFacts DEF Kept
<1> QED
  BY <1>1, <1>3 DEF Kept, Started

\* A step: live requests run on or stop and keep their KV.
LEMMA AdvanceFacts ==
  ASSUME NEW p, Sane(p), NEW S \in SUBSET Active(p), NEW D \in SUBSET S, NEW q \in Advance(p, S, D)
  PROVE  /\ Sane(q)
         /\ q.sessions = p.sessions /\ q.ledger = p.ledger
         /\ \A t \in Turns : \/ q.req[t] = p.req[t]
                             \/ p.req[t] = "live" /\ q.req[t] = "held"
<1> DEFINE stop == D \union {t \in S : p.left[t] = 1}
           l == [t \in Turns |-> IF t \in S THEN p.left[t] - 1 ELSE p.left[t]]
           a == [p EXCEPT !.left = l]
           r == SetReq(a, stop, "held")
<1>1. PICK f \in 0..MaxFree : q = [r EXCEPT !.free = f]
  BY DEF Advance
<1>2. /\ p \in Rollout /\ p.left \in [Turns -> 0..MaxSteps]
      /\ S \subseteq Turns /\ stop \subseteq S
      /\ \A t \in S : p.req[t] = "live" /\ p.left[t] > 0
  BY DEF Sane, Rollout, Active
<1>3. l \in [Turns -> 0..MaxSteps]
  BY <1>2, TurnsAssumption
<1>4. \A t \in Turns : p.left[t] > 0 /\ t \notin stop => l[t] > 0
  BY <1>2
<1>5. a \in Rollout /\ a.req = p.req /\ a.left = l /\ a.sessions = p.sessions /\ a.ledger = p.ledger
  <2> HIDE DEF l
  <2> QED
    BY <1>2, <1>3 DEF Rollout
<1> HIDE DEF l, a, stop
<1>6. /\ r \in Rollout
      /\ \A t \in Turns : /\ r.req[t] = IF t \in stop THEN "held" ELSE a.req[t]
                          /\ r.left[t] = IF t \in stop THEN 0 ELSE a.left[t]
      /\ r.sessions = a.sessions /\ r.ledger = a.ledger
  BY <1>2, <1>5, SetReqFacts
<1> HIDE DEF r
<1>7. /\ q \in Rollout /\ q.req = r.req /\ q.left = r.left
      /\ q.sessions = r.sessions /\ q.ledger = r.ledger
  BY <1>1, <1>6, FreeFacts
<1>8. p.sessions \subseteq Turns /\ \A t \in p.sessions : p.req[t] # "live"
  BY DEF Sane, Rollout
<1>9. \A t \in Turns : p.req[t] = "live" => p.left[t] > 0
  BY DEF Sane
<1>10. Sane(q)
  BY <1>2, <1>4, <1>5, <1>6, <1>7, <1>8, <1>9 DEF Sane
<1> QED
  BY <1>2, <1>5, <1>6, <1>7, <1>10

\* A turn is retired: out of the ledger, parked if it was in it.
LEMMA ParkFacts ==
  ASSUME NEW p, Sane(p), NEW t \in Turns, p.req[t] # "live", NEW q \in Park(p, t)
  PROVE  /\ Sane(q)
         /\ q.sessions \subseteq p.sessions \union {t} /\ q.ledger = p.ledger
         /\ \A u \in Turns :
              /\ q.req[u] = "live" <=> p.req[u] = "live"
              /\ q.req[u] = "held" => p.req[u] = "held"
              /\ q.req[u] = "held" /\ u \in p.sessions \union {t} => u \in q.sessions
<1> DEFINE all == p.sessions \union {t}
           a == [p EXCEPT !.sessions = all]
<1>1. PICK E \in SUBSET all : q \in Freed(FinishRequests([p EXCEPT !.sessions = all \ E], E))
  BY DEF Park
<1>2. p \in Rollout /\ p.sessions \subseteq Turns /\ all \subseteq Turns
  BY DEF Sane, Rollout
<1>3. /\ a \in Rollout /\ a.req = p.req /\ a.left = p.left /\ a.sessions = all /\ a.ledger = p.ledger
      /\ Forget(a, E) = [p EXCEPT !.sessions = all \ E]
  <2> HIDE DEF all
  <2> QED
    BY <1>2 DEF Rollout, Forget
<1>4. Sane(a)
  BY <1>2, <1>3 DEF Sane
<1> HIDE DEF a
<1>5. Kept(a, FinishRequests(Forget(a, E), E))
  BY <1>3, <1>4, DropKept
<1>6. Kept(FinishRequests(Forget(a, E), E), q)
  BY <1>1, <1>3, <1>5, FreedKept DEF Kept
<1>7. Kept(a, q)
  BY <1>5, <1>6, KeptTwice
<1> QED
  BY <1>3, <1>7 DEF Kept

LEMMA ParkOrReleaseFacts ==
  ASSUME NEW p, Sane(p), NEW t \in Turns, p.req[t] # "live", NEW q \in ParkOrRelease(p, t)
  PROVE  /\ Sane(q)
         /\ q.sessions \subseteq p.sessions \union {t} /\ q.ledger = p.ledger \ {t}
         /\ \A u \in Turns :
              /\ q.req[u] = "live" <=> p.req[u] = "live"
              /\ q.req[u] = "held" => p.req[u] = "held"
              /\ q.req[u] = "held" /\ (u \in p.sessions \/ (u = t /\ t \in p.ledger)) =>
                   u \in q.sessions
<1> DEFINE a == [p EXCEPT !.ledger = @ \ {t}]
<1>1. /\ Sane(a) /\ a.req = p.req /\ a.left = p.left
      /\ a.sessions = p.sessions /\ a.ledger = p.ledger \ {t}
  BY DEF Sane, Rollout
<1>2. IF t \in p.ledger THEN \E b \in Park(a, t) : q \in Reclaim(b) ELSE q = a
  BY DEF ParkOrRelease
<1> HIDE DEF a
<1>3. CASE t \in p.ledger
  <2>1. PICK b \in Park(a, t) : q \in Reclaim(b)
    BY <1>2, <1>3
  <2>2. /\ Sane(b)
        /\ b.sessions \subseteq a.sessions \union {t} /\ b.ledger = a.ledger
        /\ \A u \in Turns :
             /\ b.req[u] = "live" <=> a.req[u] = "live"
             /\ b.req[u] = "held" => a.req[u] = "held"
             /\ b.req[u] = "held" /\ u \in a.sessions \union {t} => u \in b.sessions
    BY <1>1, <2>1, ParkFacts
  <2>3. Kept(b, q)
    BY <2>1, <2>2, ReclaimKept
  <2> QED
    BY <1>1, <1>3, <2>2, <2>3 DEF Kept
<1>4. CASE t \notin p.ledger
  BY <1>1, <1>2, <1>4
<1> QED
  BY <1>3, <1>4

\* Requests that are no sessions are finished.
LEMMA FinishFacts ==
  ASSUME NEW p, Sane(p), NEW S \in SUBSET Turns,
         NEW q \in Freed(FinishRequests(p, S))
  PROVE  /\ Sane(q)
         /\ q.sessions = p.sessions /\ q.ledger = p.ledger
         /\ \A u \in Turns : q.req[u] = IF u \in S THEN "none" ELSE p.req[u]
<1> DEFINE r == SetReq(p, S, "none")
<1>1. /\ r \in Rollout
      /\ \A t \in Turns : /\ r.req[t] = IF t \in S THEN "none" ELSE p.req[t]
                          /\ r.left[t] = IF t \in S THEN 0 ELSE p.left[t]
      /\ r.sessions = p.sessions /\ r.ledger = p.ledger
  BY SetReqFacts DEF Sane
<1>2. PICK f \in r.free..MaxFree : q = [r EXCEPT !.free = f]
  BY DEF Freed, FinishRequests
<1> HIDE DEF r
<1>3. f \in 0..MaxFree
  BY <1>1, <1>2, TurnsAssumption DEF Rollout
<1>4. /\ q \in Rollout /\ q.req = r.req /\ q.left = r.left
      /\ q.sessions = r.sessions /\ q.ledger = r.ledger
  BY <1>1, <1>2, <1>3, FreeFacts
<1>5. p.sessions \subseteq Turns
  BY DEF Sane, Rollout
<1> QED
  BY <1>1, <1>4, <1>5 DEF Sane

\* What a sleep, a weight update or an abort leaves: no sessions, and neither
\* running requests nor KV but for what an update that fails leaves running
\* and what an abort does not know.
Stopped(p, q) ==
  /\ Sane(q)
  /\ q.sessions = {} /\ q.ledger = {}
  /\ \A t \in Turns :
       /\ q.req[t] = "live" => p.req[t] = "live"
       /\ q.req[t] = "held" => p.req[t] = "held" /\ t \notin p.sessions

\* The KV of requests is dropped and the whole pool is free.
AllFree(p, S) == [SetReq(p, S, "cold") EXCEPT !.free = MaxFree]

LEMMA ColdFacts ==
  ASSUME NEW p, Sane(p), p.sessions = {}, p.ledger = {}, NEW S \in SUBSET Turns
  PROVE  /\ Sane(AllFree(p, S))
         /\ AllFree(p, S).sessions = {} /\ AllFree(p, S).ledger = {}
         /\ \A t \in Turns : AllFree(p, S).req[t] = IF t \in S THEN "cold" ELSE p.req[t]
<1> DEFINE r == SetReq(p, S, "cold")
           q == AllFree(p, S)
<1>1. /\ r \in Rollout
      /\ \A t \in Turns : /\ r.req[t] = IF t \in S THEN "cold" ELSE p.req[t]
                          /\ r.left[t] = IF t \in S THEN 0 ELSE p.left[t]
      /\ r.sessions = p.sessions /\ r.ledger = p.ledger
  BY SetReqFacts DEF Sane
<1> HIDE DEF r
<1>2. MaxFree \in 0..MaxFree
  BY TurnsAssumption
<1>3. /\ q \in Rollout /\ q.req = r.req /\ q.left = r.left
      /\ q.sessions = r.sessions /\ q.ledger = r.ledger
  BY <1>1, <1>2, FreeFacts DEF r, AllFree
<1> HIDE DEF q
<1>4. Sane(q)
  BY <1>1, <1>3 DEF Sane
<1> QED
  BY <1>1, <1>3, <1>4 DEF q

LEMMA SleepFacts ==
  ASSUME NEW p, Sane(p), NEW q \in SleepAll(p)
  PROVE  /\ Stopped(p, q)
         /\ \A t \in Turns : q.req[t] \in {"none", "cold"}
<1> DEFINE c == Clear(p)
           S == {t \in Turns : c.req[t] # "none"}
<1>1. /\ Sane(c) /\ c.sessions = {} /\ c.ledger = {}
      /\ q = AllFree(c, S)
  BY ClearFacts DEF SleepAll, AllFree
<1>2. \A t \in Turns : c.req[t] \in {"none", "live", "held", "cold"}
  BY <1>1 DEF Sane, Rollout
<1>3. /\ Sane(q) /\ q.sessions = {} /\ q.ledger = {}
      /\ \A t \in Turns : q.req[t] = IF t \in S THEN "cold" ELSE c.req[t]
  <2>1. S \in SUBSET Turns
    OBVIOUS
  <2> HIDE DEF c, S
  <2> QED
    BY <1>1, <2>1, ColdFacts
<1> QED
  BY <1>2, <1>3 DEF Stopped

LEMMA UpdateFacts ==
  ASSUME NEW p, Sane(p), NEW fails \in BOOLEAN, NEW q \in UpdateAll(p, fails)
  PROVE  /\ Stopped(p, q)
         /\ ~fails => \A t \in Turns : q.req[t] \in {"none", "cold"}
<1> DEFINE c == Clear(p)
           S == {t \in Turns : c.req[t] = "held" \/ (c.req[t] = "live" /\ ~fails)}
<1>1. /\ Sane(c) /\ c.sessions = {} /\ c.ledger = {}
      /\ q = AllFree(c, S)
      /\ \A t \in Turns : c.req[t] = "live" <=> p.req[t] = "live"
  BY ClearFacts DEF UpdateAll, AllFree
<1>2. \A t \in Turns : c.req[t] \in {"none", "live", "held", "cold"}
  BY <1>1 DEF Sane, Rollout
<1>3. /\ Sane(q) /\ q.sessions = {} /\ q.ledger = {}
      /\ \A t \in Turns : q.req[t] = IF t \in S THEN "cold" ELSE c.req[t]
  <2>1. S \in SUBSET Turns
    OBVIOUS
  <2> HIDE DEF c, S
  <2> QED
    BY <1>1, <2>1, ColdFacts
<1> QED
  BY <1>1, <1>2, <1>3 DEF Stopped

LEMMA AbortFacts ==
  ASSUME NEW p, Sane(p), NEW q \in Abort(p)
  PROVE  /\ Stopped(p, q)
         /\ \A t \in Turns : q.req[t] # "live"
<1> DEFINE S == p.ledger \union p.sessions \union Active(p)
           r == FinishRequests(p, S)
           a == [r EXCEPT !.sessions = {}, !.ledger = {}]
<1>1. p \in Rollout /\ S \subseteq Turns
  BY DEF Sane, Rollout, Active
<1>2. /\ r \in Rollout
      /\ \A t \in Turns : /\ r.req[t] = IF t \in S THEN "none" ELSE p.req[t]
                          /\ r.left[t] = IF t \in S THEN 0 ELSE p.left[t]
  BY <1>1, SetReqFacts DEF FinishRequests
<1>3. \A t \in Turns : t \notin S => p.req[t] # "live" /\ t \notin p.sessions
  BY DEF Active
<1> HIDE DEF r
<1>4. a \in Rollout /\ a.req = r.req /\ a.left = r.left /\ a.sessions = {} /\ a.ledger = {}
  BY <1>2 DEF Rollout
<1>5. q \in Freed(a)
  BY DEF Abort, r
<1> HIDE DEF a, S
<1>6. Sane(a)
  BY <1>2, <1>3, <1>4 DEF Sane
<1>7. Kept(a, q)
  BY <1>5, <1>6, FreedKept
<1> QED
  BY <1>2, <1>3, <1>4, <1>7 DEF Kept, Stopped

-----------------------------------------------------------------------------
(***************************************************************************)
(* The driver thread keeps the invariant.                                  *)
(***************************************************************************)
\* The rollout is sane in every state of the invariant.
LEMMA RolloutSane == DriverInv => Sane(o)
BY DEF DriverInv, DriverTypeOK, SessionsOK, Sane

\* The counters and the record of the event loop.
LEMMA Counts ==
  ASSUME DriverInv
  PROVE  generation \in Nat /\ stops \in Nat /\ stops <= MaxStops /\ MaxStops \in Nat
<1>1. generation \in Nat /\ stops \in 0..MaxStops
  BY DEF DriverInv, DriverTypeOK
<1> QED
  BY <1>1, DriverAssumption

LEMMA LoopFacts ==
  ASSUME DriverInv
  PROVE  /\ loop[1] = "free" => loop = <<"free", "idle">>
         /\ loop[1] \in {"retry", "blocked", "resubmit"} => loop[2] \in Turns
         /\ loop[1] \in {"join", "own"} => loop[2] \in Operations
<1>1. loop \in {<<"free", "idle">>} \union ({"retry", "blocked", "resubmit"} \X Turns)
                \union ({"join", "own"} \X Operations)
  BY DEF DriverInv, DriverTypeOK
<1> QED
  BY <1>1

\* A driver thread that is neither unborn nor dead is the one of the handle.
LEMMA OneThread ==
  ASSUME DriverInv, NEW g \in Threads, thread[g] \notin {"unborn", "dead"}
  PROVE  g = handle /\ handle # 0 /\ loop[1] # "own"
BY DEF DriverInv, ThreadsOK, Threads

\* ... and when it goes on, no other thread does.
LEMMA OneThreadMoves ==
  ASSUME DriverInv, NEW g \in Threads, thread[g] \notin {"unborn", "dead"},
         NEW x, x # "unborn", Goto(g, x)
  PROVE  /\ g = handle /\ handle # 0 /\ loop[1] # "own"
         /\ \A h \in Threads : thread'[h] = IF h = g THEN x ELSE thread[h]
         /\ Born' = Born
<1>1. \A h \in Threads : thread'[h] = IF h = g THEN x ELSE thread[h]
  BY DEF DriverInv, DriverTypeOK, Goto
<1> QED
  BY <1>1, OneThread DEF Born

LEMMA CheckStopStep ==
  ASSUME DriverInv, NEW g \in Threads, CheckStop(g)
  PROVE  DriverInv'
<1>1. DriverTypeOK'
  BY DEF DriverInv, DriverTypeOK, CheckStop, Goto, threadVars, queueVars, loopVars
<1>2. PICK x \in {"dead", "drain"} : Goto(g, x)
  BY DEF CheckStop
<1>3. /\ g = handle /\ handle # 0 /\ loop[1] # "own"
      /\ \A h \in Threads : thread'[h] = IF h = g THEN x ELSE thread[h]
      /\ Born' = Born
  BY <1>2, OneThreadMoves DEF CheckStop
<1>4. thread[g] = "top"
  BY DEF CheckStop
<1>5. ThreadsOK'
  BY <1>2, <1>3, <1>4 DEF DriverInv, ThreadsOK, CheckStop, threadVars, queueVars, loopVars
<1>6. PlacesOK'
  BY DEF DriverInv, PlacesOK, Queued, Hands, Mailed, CheckStop, threadVars, queueVars, loopVars
<1>7. SessionsOK'
  BY DEF DriverInv, SessionsOK, Queued, Hands, CheckStop, threadVars, queueVars, loopVars
<1>8. RetiredOK'
  BY <1>2, <1>3, <1>4 DEF DriverInv, RetiredOK, Hands, CheckStop, threadVars, queueVars, loopVars
<1>9. OwnedOK'
  BY DEF DriverInv, OwnedOK, HeldKVIsOwned, Hands, CheckStop, threadVars, queueVars, loopVars
<1> QED
  BY <1>1, <1>5, <1>6, <1>7, <1>8, <1>9 DEF DriverInv

\* What depends on neither thread nor rollout is kept with the rest.
LEMMA SameElsewhere ==
  ASSUME DriverInv, UNCHANGED <<admissions, waiters, hand, future, mail, loop, o>>
  PROVE  PlacesOK' /\ SessionsOK' /\ OwnedOK'
<1>1. PlacesOK'
  BY DEF DriverInv, PlacesOK, Queued, Hands, Mailed
<1>2. SessionsOK'
  BY DEF DriverInv, SessionsOK, Queued, Hands
<1>3. OwnedOK'
  BY DEF DriverInv, OwnedOK, HeldKVIsOwned, Hands
<1> QED
  BY <1>1, <1>2, <1>3

\* A step that takes sessions, KV and queued turns away, and answers nobody
\* but with an error.
LEMMA TakesAway ==
  ASSUME DriverInv, Kept(o, o'),
         Queued' \subseteq Queued,
         \A t \in Turns, v \in {"result", "pool"} :
           <<t, v>> \in ToSet(mail') => <<t, v>> \in ToSet(mail),
         loop'[1] = "own" <=> loop[1] = "own",
         UNCHANGED <<handle, thread, hand, waiters, future>>
  PROVE  SessionsOK' /\ RetiredOK' /\ OwnedOK'
<1>1. Sane(o')
  BY DEF Kept
<1>2. o.sessions \subseteq Turns /\ o'.sessions \subseteq o.sessions
  BY DEF DriverInv, DriverTypeOK, Rollout, Kept
<1>3. SessionsOK'
  <2>1. Hands' = Hands
    BY DEF Hands
  <2>2. \A t \in Turns : o'.req[t] = "live" => o'.left[t] > 0
    BY <1>1 DEF Sane
  <2>3. \A t \in o'.sessions :
          /\ o'.req[t] # "live"
          /\ t \notin Queued \union waiters \union Hands
          /\ future[t] \notin {"new", "retry"}
          /\ <<t, "pool">> \notin ToSet(mail)
          /\ t \in Turns
    BY <1>1, <1>2 DEF DriverInv, SessionsOK, Sane
  <2> QED
    BY <2>1, <2>2, <2>3 DEF SessionsOK
<1>4. RetiredOK'
  <2>1. \A t \in Turns : o'.req[t] = "live" <=> o.req[t] = "live"
    BY DEF Kept
  <2>2. waiters \subseteq Turns /\ \A h \in Threads : hand[h] \subseteq Turns
    BY DEF DriverInv, DriverTypeOK
  <2>3. o'.ledger = o.ledger
    BY DEF Kept
  <2>4. Hands' = Hands /\ \A h \in Threads : hand'[h] = hand[h]
    BY DEF Hands
  <2> QED
    BY <2>1, <2>2, <2>3, <2>4 DEF DriverInv, RetiredOK
<1>5. OwnedOK'
  BY DEF DriverInv, OwnedOK, HeldKVIsOwned, Hands, Kept
<1> QED
  BY <1>3, <1>4, <1>5

LEMMA DrainedStep ==
  ASSUME DriverInv, NEW g \in Threads, Drained(g)
  PROVE  DriverInv'
<1>1. Goto(g, "admit") /\ thread[g] = "drain" /\ todo' = Len(admissions)
  BY DEF Drained
<1>2. /\ g = handle /\ handle # 0 /\ loop[1] # "own"
      /\ \A h \in Threads : thread'[h] = IF h = g THEN "admit" ELSE thread[h]
      /\ Born' = Born
  BY <1>1, OneThreadMoves
<1>3. DriverTypeOK'
  <2>1. todo' \in 0..Len(admissions)
    <3>1. admissions \in Seq(Turns)
      BY DEF DriverInv, DriverTypeOK
    <3>2. Len(admissions) \in Nat
      BY <3>1, LenProperties
    <3> QED
      BY <1>1, <3>2
  <2>2. UNCHANGED <<handle, stopping, hand, pending, admissions, waiters, memo, generation,
                    future, mail, retried, loop, stops, call, o>>
    BY DEF Drained, threadVars, queueVars, loopVars
  <2>3. thread' \in [Threads -> {"unborn", "top", "drain", "admit", "idle", "step", "harvest",
                                 "done", "pool", "error", "dead"}]
    BY <1>1 DEF DriverInv, DriverTypeOK, Goto
  <2> QED
    BY <2>1, <2>2, <2>3 DEF DriverInv, DriverTypeOK
<1>4. ThreadsOK'
  BY <1>1, <1>2 DEF DriverInv, ThreadsOK, Drained, threadVars, queueVars, loopVars
<1>5. PlacesOK' /\ SessionsOK' /\ OwnedOK'
  BY SameElsewhere DEF Drained, queueVars, loopVars
<1>6. RetiredOK'
  BY <1>1, <1>2 DEF DriverInv, RetiredOK, Hands, Drained, threadVars, queueVars, loopVars
<1> QED
  BY <1>3, <1>4, <1>5, <1>6 DEF DriverInv

LEMMA AdmissionsDoneStep ==
  ASSUME DriverInv, NEW g \in Threads, AdmissionsDone(g)
  PROVE  DriverInv'
<1>1. PICK x \in {"idle", "step"} : Goto(g, x)
  BY DEF AdmissionsDone
<1>2. thread[g] = "admit" /\ todo' = 0
  BY DEF AdmissionsDone
<1>3. /\ g = handle /\ handle # 0 /\ loop[1] # "own"
      /\ \A h \in Threads : thread'[h] = IF h = g THEN x ELSE thread[h]
      /\ Born' = Born
  BY <1>1, <1>2, OneThreadMoves
<1>4. DriverTypeOK'
  <2>1. todo' \in 0..Len(admissions)
    <3>1. admissions \in Seq(Turns)
      BY DEF DriverInv, DriverTypeOK
    <3>2. Len(admissions) \in Nat
      BY <3>1, LenProperties
    <3> QED
      BY <1>2, <3>2
  <2>2. UNCHANGED <<handle, stopping, hand, pending, admissions, waiters, memo, generation,
                    future, mail, retried, loop, stops, call, o>>
    BY DEF AdmissionsDone, threadVars, queueVars, loopVars
  <2>3. thread' \in [Threads -> {"unborn", "top", "drain", "admit", "idle", "step", "harvest",
                                 "done", "pool", "error", "dead"}]
    BY <1>1 DEF DriverInv, DriverTypeOK, Goto
  <2> QED
    BY <2>1, <2>2, <2>3 DEF DriverInv, DriverTypeOK
<1>5. ThreadsOK'
  BY <1>1, <1>2, <1>3 DEF DriverInv, ThreadsOK, AdmissionsDone, threadVars, queueVars, loopVars
<1>6. PlacesOK' /\ SessionsOK' /\ OwnedOK'
  BY SameElsewhere DEF AdmissionsDone, queueVars, loopVars
<1>7. RetiredOK'
  BY <1>1, <1>2, <1>3 DEF DriverInv, RetiredOK, Hands, AdmissionsDone, threadVars, queueVars, loopVars
<1> QED
  BY <1>4, <1>5, <1>6, <1>7 DEF DriverInv

LEMMA WakeUpStep ==
  ASSUME DriverInv, NEW g \in Threads, WakeUp(g)
  PROVE  DriverInv'
<1>1. Goto(g, "top") /\ thread[g] = "idle"
  BY DEF WakeUp
<1>2. /\ g = handle /\ handle # 0 /\ loop[1] # "own"
      /\ \A h \in Threads : thread'[h] = IF h = g THEN "top" ELSE thread[h]
      /\ Born' = Born
  BY <1>1, OneThreadMoves
<1>3. DriverTypeOK'
  BY <1>1 DEF DriverInv, DriverTypeOK, WakeUp, Goto, threadVars, queueVars, loopVars
<1>4. ThreadsOK'
  BY <1>1, <1>2 DEF DriverInv, ThreadsOK, WakeUp, threadVars, queueVars, loopVars
<1>5. PlacesOK' /\ SessionsOK' /\ OwnedOK'
  BY SameElsewhere DEF WakeUp, queueVars, loopVars
<1>6. RetiredOK'
  BY <1>1, <1>2 DEF DriverInv, RetiredOK, Hands, WakeUp, threadVars, queueVars, loopVars
<1> QED
  BY <1>3, <1>4, <1>5, <1>6 DEF DriverInv

LEMMA HarvestRaisesStep ==
  ASSUME DriverInv, NEW g \in Threads, HarvestRaises(g)
  PROVE  DriverInv'
<1>1. Goto(g, "error") /\ thread[g] = "harvest"
  BY DEF HarvestRaises
<1>2. /\ g = handle /\ handle # 0 /\ loop[1] # "own"
      /\ \A h \in Threads : thread'[h] = IF h = g THEN "error" ELSE thread[h]
      /\ Born' = Born
  BY <1>1, OneThreadMoves
<1>3. DriverTypeOK'
  BY <1>1 DEF DriverInv, DriverTypeOK, HarvestRaises, Goto, threadVars, queueVars, loopVars
<1>4. ThreadsOK'
  BY <1>1, <1>2 DEF DriverInv, ThreadsOK, HarvestRaises, threadVars, queueVars, loopVars
<1>5. PlacesOK' /\ SessionsOK' /\ OwnedOK'
  BY SameElsewhere DEF HarvestRaises, queueVars, loopVars
<1>6. RetiredOK'
  BY <1>1, <1>2 DEF DriverInv, RetiredOK, Hands, HarvestRaises, threadVars, queueVars, loopVars
<1> QED
  BY <1>3, <1>4, <1>5, <1>6 DEF DriverInv

LEMMA RunPendingStep ==
  ASSUME DriverInv, NEW g \in Threads, RunPending(g)
  PROVE  DriverInv'
<1> DEFINE c == Head(pending)
<1>1. /\ c \in Calls \union Turns
      /\ pending' = Tail(pending) /\ pending' \in Seq(Calls \union Turns)
      /\ thread[g] = "drain"
  BY TailFacts DEF RunPending, DriverInv, DriverTypeOK
<1>2. Served(c)
  BY DEF RunPending
<1>3. UNCHANGED <<handle, stopping, thread, hand, todo, admissions, waiters, memo, generation,
                  future, mail, retried, stops>>
  BY DEF RunPending, threadVars
<1> HIDE DEF c
<1>4. Kept(o, o')
  <2>1. o' \in Freed(DropSessions(o)) \/ o' \in FinishSession(o)
    BY <1>2 DEF Served
  <2> QED
    BY <2>1, RolloutSane, DroppedKept, FinishSessionKept
<1>5. call' \in [Calls -> {"new", "direct", "posting", "posted", "done", "timed out"}]
  <2>1. call \in [Calls -> {"new", "direct", "posting", "posted", "done", "timed out"}]
    BY DEF DriverInv, DriverTypeOK
  <2>2. call' = call \/ call' = [call EXCEPT ![c] = IF @ = "posted" THEN "done" ELSE @]
    BY <1>2 DEF Served
  <2> QED
    BY <2>1, <2>2
<1>6. loop' = loop \/ (loop = <<"blocked", c>> /\ loop' = <<"resubmit", c>> /\ c \in Turns)
  BY <1>2 DEF Served
<1>7. \/ loop' = loop
      \/ /\ loop[1] = "blocked" /\ loop[2] = c
         /\ loop'[1] = "resubmit" /\ loop'[2] = c
         /\ loop' \in {"retry", "blocked", "resubmit"} \X Turns
  BY <1>6
<1>8. DriverTypeOK'
  BY <1>1, <1>3, <1>4, <1>5, <1>7 DEF DriverInv, DriverTypeOK, Kept, Sane
<1>9. ThreadsOK'
  <2>1. Born' = Born
    BY <1>3 DEF Born
  <2> QED
    BY <2>1, <1>3, <1>7 DEF DriverInv, ThreadsOK
<1>10. PlacesOK'
  BY <1>3, <1>7 DEF DriverInv, PlacesOK, Queued, Hands, Mailed
<1>11. SessionsOK' /\ RetiredOK' /\ OwnedOK'
  BY <1>3, <1>4, <1>7, TakesAway DEF Queued
<1> QED
  BY <1>8, <1>9, <1>10, <1>11 DEF DriverInv

\* What the step does to the rollout: live requests may stop with their KV,
\* and idle sessions may have to give theirs up.
Ran(p, q) ==
  /\ Sane(q)
  /\ q.sessions \subseteq p.sessions /\ q.ledger = p.ledger
  /\ \A t \in Turns :
       /\ q.req[t] = "live" => p.req[t] = "live"
       /\ q.req[t] = "held" =>
            p.req[t] = "live" \/ (p.req[t] = "held" /\ (t \in p.sessions => t \in q.sessions))

LEMMA RanFacts ==
  ASSUME NEW p, Sane(p), NEW b \in BeforeStep(p), NEW S \in SUBSET Active(p), NEW D \in SUBSET S,
         NEW q \in Advance(b, S, D)
  PROVE  Ran(p, q)
<1>1. Kept(p, b)
  BY BeforeStepKept
<1>2. Sane(b) /\ S \in SUBSET Active(b)
  BY <1>1 DEF Kept, Active
<1>3. /\ Sane(q)
      /\ q.sessions = b.sessions /\ q.ledger = b.ledger
      /\ \A t \in Turns : q.req[t] = b.req[t] \/ (b.req[t] = "live" /\ q.req[t] = "held")
  BY <1>2, AdvanceFacts
<1> QED
  BY <1>1, <1>3 DEF Kept, Ran

\* Whoever is in a local list is in the one of the thread at work.
LEMMA HandsOfOne ==
  ASSUME DriverInv, NEW g \in Threads, thread[g] \notin {"unborn", "dead"}
  PROVE  /\ Hands = hand[g]
         /\ \A h \in Threads : h # g => hand[h] = {}
<1>1. \A h \in Threads : h # g => thread[h] \in {"unborn", "dead"}
  BY OneThread DEF DriverInv, ThreadsOK
<1>2. \A h \in Threads : h # g => hand[h] = {}
  BY <1>1 DEF DriverInv, ThreadsOK
<1> QED
  BY <1>2 DEF Hands

\* A step or a failing one: where the thread goes is all that tells them apart.
LEMMA RanKeeps ==
  ASSUME DriverInv, NEW g \in Threads, thread[g] = "step", Ran(o, o'),
         NEW x \in {"harvest", "pool", "error"}, Goto(g, x),
         UNCHANGED <<threadVars, hand, todo, queueVars, loopVars, call>>
  PROVE  DriverInv'
<1>1. /\ g = handle /\ handle # 0 /\ loop[1] # "own"
      /\ \A h \in Threads : thread'[h] = IF h = g THEN x ELSE thread[h]
      /\ Born' = Born
  BY OneThreadMoves
<1>2. DriverTypeOK'
  BY DEF DriverInv, DriverTypeOK, Goto, Ran, Sane, threadVars, queueVars, loopVars
<1>3. ThreadsOK'
  BY <1>1 DEF DriverInv, ThreadsOK, threadVars, queueVars, loopVars
<1>4. PlacesOK'
  BY DEF DriverInv, PlacesOK, Queued, Hands, Mailed, queueVars, loopVars
<1>5. SessionsOK'
  <2>1. o.sessions \subseteq Turns /\ o'.sessions \subseteq o.sessions
    BY DEF DriverInv, DriverTypeOK, Rollout, Ran
  <2>2. Queued' = Queued /\ Hands' = Hands
    BY DEF Queued, Hands, queueVars
  <2> QED
    BY <2>1, <2>2 DEF DriverInv, SessionsOK, Ran, Sane, queueVars, loopVars
<1>6. RetiredOK'
  <2>1. \A h \in Threads : hand[h] # {} => h = g
    BY HandsOfOne
  <2>2. \A t \in Turns : o'.req[t] = "live" => o.req[t] = "live"
    BY DEF Ran
  <2>3. \A t \in Turns : future[t] = "result" \/ <<t, "result">> \in ToSet(mail) =>
          t \notin o.ledger /\ o.req[t] # "live"
    BY DEF DriverInv, RetiredOK
  <2>4. waiters' \union Hands' \subseteq o'.ledger
    BY DEF DriverInv, RetiredOK, Hands, Ran, queueVars
  <2> QED
    BY <1>1, <2>1, <2>2, <2>3, <2>4 DEF RetiredOK, Ran, threadVars, queueVars, loopVars
<1>7. OwnedOK'
  BY <1>1 DEF DriverInv, OwnedOK, HeldKVIsOwned, Hands, Ran, queueVars, loopVars
<1> QED
  BY <1>2, <1>3, <1>4, <1>5, <1>6, <1>7 DEF DriverInv

LEMMA StepStep ==
  ASSUME DriverInv, NEW g \in Threads, Step(g)
  PROVE  DriverInv'
<1>1. PICK p \in BeforeStep(o), S \in SUBSET Active(o) : \E D \in SUBSET S : o' \in Advance(p, S, D)
  BY DEF Step
<1>2. Ran(o, o')
  BY <1>1, RolloutSane, RanFacts
<1> QED
  BY <1>2, RanKeeps DEF Step

LEMMA StepRaisesStep ==
  ASSUME DriverInv, NEW g \in Threads, StepRaises(g)
  PROVE  DriverInv'
<1>1. PICK p \in BeforeStep(o), S \in SUBSET Active(o) : \E D \in SUBSET S : o' \in Advance(p, S, D)
  BY DEF StepRaises
<1>2. Ran(o, o')
  BY <1>1, RolloutSane, RanFacts
<1>3. \E x \in {"harvest", "pool", "error"} : Goto(g, x)
  BY DriverAssumption DEF StepRaises
<1> QED
  BY <1>2, <1>3, RanKeeps DEF StepRaises

\* What an admission round knows of the turn at the head of the queue, and what
\* the round leaves alone.
LEMMA HeadFacts ==
  ASSUME DriverInv, NEW g \in Threads, ConsiderTurn(g)
  PROVE  /\ g = handle /\ handle # 0 /\ loop[1] # "own" /\ Hands = {}
         /\ Head(admissions) \in Turns /\ Head(admissions) \in Queued
         /\ Head(admissions) \notin waiters \union Mailed \union o.sessions
         /\ Tail(admissions) \in Seq(Turns) /\ IsInjective(Tail(admissions))
         /\ ToSet(Tail(admissions)) = Queued \ {Head(admissions)}
         /\ Len(Tail(admissions)) \in Nat /\ todo' \in 0..Len(Tail(admissions))
         /\ Requeued(Head(admissions)) \in Seq(Turns)
         /\ IsInjective(Requeued(Head(admissions)))
         /\ ToSet(Requeued(Head(admissions))) = Queued
         /\ Len(Requeued(Head(admissions))) = Len(Tail(admissions)) + 1
         /\ UNCHANGED <<handle, stopping, thread, hand, pending, generation, future, retried,
                        loop, stops, call>>
         /\ ThreadsOK'
<1> DEFINE t == Head(admissions)
<1>1. thread[g] = "admit" /\ todo > 0 /\ todo' = todo - 1
  BY DEF ConsiderTurn
<1>2. g = handle /\ handle # 0 /\ loop[1] # "own" /\ Hands = hand[g]
  BY <1>1, OneThread, HandsOfOne
<1>3. hand[g] = {}
  BY <1>1 DEF DriverInv, ThreadsOK
<1>4. /\ admissions \in Seq(Turns) /\ todo \in 0..Len(admissions)
      /\ IsInjective(admissions)
  BY DEF DriverInv, DriverTypeOK, PlacesOK
<1>5. admissions # << >>
  BY <1>1, <1>4, EmptySeq
<1>6. /\ t \in Turns /\ t \in ToSet(admissions)
      /\ Tail(admissions) \in Seq(Turns) /\ Len(Tail(admissions)) = Len(admissions) - 1
      /\ ToSet(admissions) = {t} \union ToSet(Tail(admissions))
      /\ IsInjective(Tail(admissions)) /\ t \notin ToSet(Tail(admissions))
  BY <1>4, <1>5, TailFacts
<1>7. Len(Tail(admissions)) \in Nat /\ todo' \in 0..Len(Tail(admissions))
  <2>1. Len(Tail(admissions)) \in Nat /\ Len(admissions) \in Nat
    BY <1>4, <1>6, LenProperties
  <2> QED
    BY <1>1, <1>4, <1>6, <2>1
<1>8. t \notin waiters \union Mailed \union o.sessions
  BY <1>6 DEF DriverInv, PlacesOK, SessionsOK, Queued
<1> HIDE DEF t
<1> DEFINE q == Tail(admissions)
<1>9. /\ Requeued(t) \in Seq(Turns) /\ IsInjective(Requeued(t))
      /\ ToSet(Requeued(t)) = ToSet(q) \union {t}
      /\ Len(Requeued(t)) = Len(q) + 1
  <2>1. Requeued(t) = Append(q, t)
    BY DEF Requeued
  <2>2. t \in Turns /\ q \in Seq(Turns) /\ IsInjective(q) /\ t \notin ToSet(q)
    BY <1>6
  <2> HIDE DEF q
  <2> QED
    BY <2>1, <2>2, AppendFacts
<1>10. UNCHANGED <<handle, stopping, thread, hand, pending, generation, future, retried,
                   loop, stops, call>>
  BY DEF ConsiderTurn, threadVars
<1>11. ThreadsOK'
  <2>1. Born' = Born
    BY <1>10 DEF Born
  <2>2. \A h \in Threads : hand[h] = {}
    BY <1>2, <1>3 DEF Hands
  <2> QED
    BY <1>1, <1>2, <1>10, <2>1, <2>2 DEF DriverInv, ThreadsOK
<1> QED
  BY <1>2, <1>3, <1>6, <1>7, <1>8, <1>9, <1>10, <1>11 DEF Queued, t

\* A turn that goes back to the queue, or out of it because nobody waits for it
\* any more; an attempt may have taken sessions' KV.
LEMMA PutBackStep ==
  ASSUME DriverInv, NEW g \in Threads, ConsiderTurn(g), Kept(o, o'),
         memo' \in [Turns -> [active : SUBSET Turns, free : -1..MaxFree, generation : -1..generation]],
         \/ admissions' = Requeued(Head(admissions))
         \/ admissions' = Tail(admissions) /\ future[Head(admissions)] # "pending",
         UNCHANGED <<waiters, mail>>
  PROVE  DriverInv'
<1> DEFINE t == Head(admissions)
<1>1. /\ t \in Turns /\ t \in Queued
      /\ UNCHANGED <<handle, stopping, thread, hand, pending, generation, future, retried,
                     loop, stops, call>>
      /\ ThreadsOK'
  BY HeadFacts
<1>2. /\ admissions' \in Seq(Turns) /\ IsInjective(admissions')
      /\ todo' \in 0..Len(admissions')
      /\ Queued' \subseteq Queued
      /\ \A u \in Queued : u \in Queued' \/ (u = t /\ future[u] # "pending")
  <2> DEFINE q == Tail(admissions)
             r == Requeued(t)
  <2>1. /\ q \in Seq(Turns) /\ IsInjective(q) /\ ToSet(q) = Queued \ {t}
        /\ Len(q) \in Nat /\ todo' \in 0..Len(q)
        /\ r \in Seq(Turns) /\ IsInjective(r) /\ ToSet(r) = Queued /\ Len(r) = Len(q) + 1
    BY HeadFacts
  <2>2. admissions' = r \/ (admissions' = q /\ future[t] # "pending")
    OBVIOUS
  <2> HIDE DEF q, r, t
  <2> QED
    BY <2>1, <2>2 DEF Queued
<1> HIDE DEF t
<1>3. DriverTypeOK'
  BY <1>1, <1>2 DEF DriverInv, DriverTypeOK, Kept, Sane
<1>4. PlacesOK'
  <2>1. Hands' = Hands /\ Mailed' = Mailed
    BY <1>1 DEF Hands, Mailed
  <2> QED
    BY <1>1, <1>2, <2>1 DEF DriverInv, PlacesOK
<1>5. SessionsOK' /\ RetiredOK' /\ OwnedOK'
  BY <1>1, <1>2, TakesAway
<1> QED
  BY <1>1, <1>3, <1>4, <1>5 DEF DriverInv

\* A callback for turn t, which is taken from where it was.
LEMMA PostFacts ==
  ASSUME DriverInv, NEW t \in Turns, t \notin Mailed, NEW v \in {"result", "pool", "error"},
         mail' = mail \o Resolve(t, v)
  PROVE  /\ mail' \in Seq(Callbacks) /\ Unambiguous(mail')
         /\ ToSet(mail') = ToSet(mail) \union (IF future[t] = "pending" THEN {<<t, v>>} ELSE {})
         /\ Mailed' = Mailed \union (IF future[t] = "pending" THEN {t} ELSE {})
<1>1. mail \in Seq(Callbacks) /\ Unambiguous(mail)
  BY DEF DriverInv, DriverTypeOK, PlacesOK, Callbacks
<1>2. /\ Resolve(t, v) \in Seq(Callbacks) /\ Unambiguous(Resolve(t, v))
      /\ ToSet(Resolve(t, v)) = IF future[t] = "pending" THEN {<<t, v>>} ELSE {}
  BY ResolveFacts
<1>3. Keys(mail) \intersect Keys(Resolve(t, v)) = {}
  BY <1>2 DEF Mailed, Keys
<1>4. /\ mail' \in Seq(Callbacks)
      /\ ToSet(mail') = ToSet(mail) \union ToSet(Resolve(t, v))
      /\ Unambiguous(mail')
  BY <1>1, <1>2, <1>3, ConcatFacts
<1>5. Mailed' = Mailed \union (IF future[t] = "pending" THEN {t} ELSE {})
  <2>1. CASE future[t] = "pending"
    <3>1. ToSet(mail') = ToSet(mail) \union {<<t, v>>} /\ <<t, v>>[1] = t
      BY <1>2, <1>4, <2>1
    <3> QED
      BY <2>1, <3>1 DEF Mailed
  <2>2. CASE future[t] # "pending"
    BY <1>2, <1>4, <2>2 DEF Mailed
  <2> QED
    BY <2>1, <2>2
<1> QED
  BY <1>2, <1>4, <1>5

LEMMA RefuseStep ==
  ASSUME DriverInv, NEW g \in Threads, ConsiderTurn(g), future[Head(admissions)] = "pending",
         Kept(o, o'), mail' = mail \o Resolve(Head(admissions), "error"),
         admissions' = Tail(admissions), waiters' = waiters,
         memo' \in [Turns -> [active : SUBSET Turns, free : -1..MaxFree, generation : -1..generation]]
  PROVE  DriverInv'
<1> DEFINE t == Head(admissions)
<1>1. /\ t \in Turns /\ t \in Queued /\ t \notin waiters \union Mailed /\ Hands = {}
      /\ UNCHANGED <<handle, stopping, thread, hand, pending, generation, future, retried,
                     loop, stops, call>>
      /\ ThreadsOK'
  BY HeadFacts
<1>2. /\ admissions' \in Seq(Turns) /\ IsInjective(admissions')
      /\ todo' \in 0..Len(admissions')
      /\ Queued' = Queued \ {t}
  BY HeadFacts DEF Queued
<1> HIDE DEF t
<1>3. /\ mail' \in Seq(Callbacks) /\ Unambiguous(mail')
      /\ ToSet(mail') = ToSet(mail) \union {<<t, "error">>}
      /\ Mailed' = Mailed \union {t}
  BY <1>1, PostFacts DEF t
<1>4. DriverTypeOK'
  BY <1>1, <1>2, <1>3 DEF DriverInv, DriverTypeOK, Kept, Sane, Callbacks
<1>5. PlacesOK'
  <2>1. Hands' = Hands
    BY <1>1 DEF Hands
  <2>2. future[t] = "pending"
    BY DEF t
  <2> QED
    BY <1>1, <1>2, <1>3, <2>1, <2>2 DEF DriverInv, PlacesOK
<1>6. SessionsOK' /\ RetiredOK' /\ OwnedOK'
  BY <1>1, <1>2, <1>3, TakesAway
<1> QED
  BY <1>1, <1>4, <1>5, <1>6 DEF DriverInv

LEMMA AdmitStep ==
  ASSUME DriverInv, NEW g \in Threads, ConsiderTurn(g), future[Head(admissions)] = "pending",
         o' \in Admit(o, Head(admissions)), waiters' = waiters \union {Head(admissions)},
         admissions' = Tail(admissions), mail' = mail,
         memo' \in [Turns -> [active : SUBSET Turns, free : -1..MaxFree, generation : -1..generation]]
  PROVE  DriverInv'
<1> DEFINE t == Head(admissions)
<1>1. /\ t \in Turns /\ t \in Queued /\ t \notin waiters \union Mailed \union o.sessions
      /\ Hands = {} /\ handle # 0
      /\ UNCHANGED <<handle, stopping, thread, hand, pending, generation, future, retried,
                     loop, stops, call>>
      /\ ThreadsOK'
  BY HeadFacts
<1>2. /\ admissions' \in Seq(Turns) /\ IsInjective(admissions')
      /\ todo' \in 0..Len(admissions')
      /\ Queued' = Queued \ {t}
  BY HeadFacts DEF Queued
<1>3. Started(o, o', t)
  BY <1>1, RolloutSane, AdmitFacts
<1>4. waiters' = waiters \union {t} /\ future[t] = "pending"
  OBVIOUS
<1> HIDE DEF t
<1>5. DriverTypeOK'
  BY <1>1, <1>2, <1>3, <1>4 DEF DriverInv, DriverTypeOK, Started, Sane
<1>6. Hands' = {} /\ Mailed' = Mailed
  BY <1>1 DEF Hands, Mailed
<1>7. PlacesOK'
  BY <1>1, <1>2, <1>4, <1>6 DEF DriverInv, PlacesOK
<1>8. SessionsOK'
  <2>1. o.sessions \subseteq Turns /\ o'.sessions \subseteq o.sessions
    BY <1>3 DEF DriverInv, DriverTypeOK, Rollout, Started
  <2> QED
    BY <1>1, <1>2, <1>3, <1>4, <1>6, <2>1 DEF DriverInv, SessionsOK, Started, Sane
<1>9. RetiredOK'
  <2>1. \A h \in Threads : hand[h] = {}
    BY <1>1 DEF Hands
  <2>2. future[t] # "result" /\ <<t, "result">> \notin ToSet(mail)
    <3>1. \A e \in ToSet(mail) : e[1] \in Mailed
      BY DEF Mailed
    <3> QED
      BY <1>1, <1>4, <3>1
  <2>3. \A u \in Turns \ {t} : (o'.req[u] = "live" <=> o.req[u] = "live")
    BY <1>3 DEF Started
  <2>4. o'.ledger = o.ledger \union {t} /\ o'.req[t] = "live"
    BY <1>3 DEF Started
  <2>5. waiters \subseteq Turns
    BY DEF DriverInv, DriverTypeOK
  <2>6. waiters' \union Hands' \subseteq o'.ledger
    BY <1>4, <1>6, <2>4 DEF DriverInv, RetiredOK
  <2>7. \A u \in Turns : future[u] = "result" \/ <<u, "result">> \in ToSet(mail) =>
          u \notin o'.ledger /\ o'.req[u] # "live"
    BY <2>2, <2>3, <2>4 DEF DriverInv, RetiredOK
  <2>8. \A u \in waiters' : o'.req[u] = "live" \/ thread[handle] \in {"harvest", "pool", "error"}
    BY <1>4, <2>3, <2>4, <2>5 DEF DriverInv, RetiredOK
  <2> QED
    BY <1>1, <2>1, <2>6, <2>7, <2>8 DEF RetiredOK
<1>10. OwnedOK'
  BY <1>1, <1>3, <1>4, <1>6 DEF DriverInv, OwnedOK, HeldKVIsOwned, Started, Hands
<1> QED
  BY <1>1, <1>5, <1>7, <1>8, <1>9, <1>10 DEF DriverInv

LEMMA ConsiderTurnStep ==
  ASSUME DriverInv, NEW g \in Threads, ConsiderTurn(g)
  PROVE  DriverInv'
<1> DEFINE t == Head(admissions)
           Memos == [active : SUBSET Turns, free : -1..MaxFree, generation : -1..generation]
<1>1. t \in Turns
  BY HeadFacts
<1>. UNCHANGED memo => memo' \in [Turns -> Memos]
  BY DEF DriverInv, DriverTypeOK
<1>. UNCHANGED o => Kept(o, o')
  BY RolloutSane, KeptSame
<1>5. ForgetMemo(t) => memo' \in [Turns -> Memos]
  <2>1. generation \in Nat /\ MaxFree \in Nat /\ memo \in [Turns -> Memos]
    BY TurnsAssumption DEF DriverInv, DriverTypeOK
  <2>2. -1 \in -1..MaxFree /\ -1 \in -1..generation
    BY <2>1
  <2>3. NoMemo \in Memos
    BY <2>2 DEF NoMemo
  <2> HIDE DEF Memos
  <2> QED
    BY <2>1, <2>3 DEF ForgetMemo
<1>2. CASE future[t] # "pending"
  <2>1. admissions' = Tail(admissions) /\ UNCHANGED <<waiters, memo, mail, o>>
    BY <1>2 DEF ConsiderTurn
  <2> QED
    BY <1>2, <2>1, PutBackStep
<1>3. CASE future[t] = "pending" /\ StillBlocked(t)
  <2>1. admissions' = Requeued(t) /\ UNCHANGED <<waiters, memo, mail, o>>
    BY <1>3 DEF ConsiderTurn
  <2> QED
    BY <2>1, PutBackStep
<1>4. CASE future[t] = "pending" /\ ~StillBlocked(t)
  <2>1. Begin(t)
    BY <1>4 DEF ConsiderTurn
  <2>2. CASE o' \in Admit(o, t) /\ waiters' = waiters \union {t}
             /\ admissions' = Tail(admissions) /\ ForgetMemo(t) /\ mail' = mail
    BY <1>4, <1>5, <2>2, AdmitStep
  <2>3. CASE o' \in Defer(o, t) /\ Remember(t) /\ admissions' = Requeued(t)
             /\ UNCHANGED <<waiters, mail>>
    <3>1. Kept(o, o')
      BY <1>1, <2>3, RolloutSane, DeferKept, HeadFacts
    <3>2. Seen \in Memos
      <4>1. o.free \in -1..MaxFree /\ generation \in -1..generation /\ Active(o) \subseteq Turns
        <5>1. o.free \in 0..MaxFree /\ generation \in Nat /\ MaxFree \in Nat
          BY TurnsAssumption DEF DriverInv, DriverTypeOK, Rollout
        <5> QED
          BY <5>1 DEF Active
      <4> QED
        BY <4>1 DEF Seen
    <3>3. memo' \in [Turns -> Memos]
      BY <2>3, <3>2 DEF Remember, DriverInv, DriverTypeOK
    <3> QED
      BY <2>3, <3>1, <3>3, PutBackStep
  <2>4. CASE o' \in Refuse(o, t) /\ mail' = mail \o Resolve(t, "error")
             /\ admissions' = Tail(admissions) /\ ForgetMemo(t) /\ waiters' = waiters
    <3>1. Kept(o, o')
      BY <2>4, RolloutSane, RefuseKept, HeadFacts
    <3> QED
      BY <1>4, <1>5, <2>4, <3>1, RefuseStep
  <2> QED
    BY <2>1, <2>2, <2>3, <2>4 DEF Begin
<1> QED
  BY <1>2, <1>3, <1>4

LEMMA HarvestStep ==
  ASSUME DriverInv, NEW g \in Threads, Harvest(g)
  PROVE  DriverInv'
<1> DEFINE S == {t \in waiters : o.req[t] # "live"}
<1>1. /\ Goto(g, "done") /\ thread[g] = "harvest"
      /\ hand' = [hand EXCEPT ![g] = S] /\ waiters' = waiters \ hand'[g]
      /\ generation' = generation + Cardinality(hand'[g])
      /\ UNCHANGED <<handle, stopping, todo, pending, admissions, memo, future, mail, retried,
                     loop, stops, call, o>>
  BY DEF Harvest, threadVars, loopVars
<1>2. /\ g = handle /\ handle # 0 /\ loop[1] # "own"
      /\ \A h \in Threads : thread'[h] = IF h = g THEN "done" ELSE thread[h]
      /\ Born' = Born
  BY <1>1, OneThreadMoves
<1>3. /\ Hands = {} /\ \A h \in Threads : hand[h] = {}
  BY <1>1, HandsOfOne DEF DriverInv, ThreadsOK
<1>4. /\ waiters \subseteq Turns /\ S \subseteq waiters
      /\ \A h \in Threads : hand'[h] = IF h = g THEN S ELSE {}
  BY <1>1, <1>3 DEF DriverInv, DriverTypeOK
<1>5. waiters' = waiters \ S /\ Hands' = S
  BY <1>1, <1>4 DEF Hands
<1>6. generation' \in Nat /\ generation <= generation'
  <2>1. generation \in Nat /\ IsFiniteSet(S)
    BY <1>4, TurnsAssumption, FS_Subset DEF DriverInv, DriverTypeOK
  <2>2. generation' = generation + Cardinality(S)
    BY <1>1, <1>4
  <2> QED
    BY <2>1, <2>2, FS_CardinalityType
<1>7. \A t \in S : o.req[t] # "live"
  OBVIOUS
<1>8. \A t \in waiters \ S : o.req[t] = "live"
  OBVIOUS
<1> HIDE DEF S
<1>9. DriverTypeOK'
  <2>1. memo' \in [Turns -> [active : SUBSET Turns, free : -1..MaxFree,
                             generation : -1..generation']]
    <3>1. (-1..generation) \subseteq (-1..generation')
      BY <1>6, Counts
    <3>2. memo' = memo
          /\ memo \in [Turns -> [active : SUBSET Turns, free : -1..MaxFree, generation : -1..generation]]
      BY <1>1 DEF DriverInv, DriverTypeOK
    <3> DEFINE Memos(n) == [active : SUBSET Turns, free : -1..MaxFree, generation : -1..n]
    <3>3. Memos(generation) \subseteq Memos(generation')
      BY <3>1
    <3> HIDE DEF Memos
    <3>4. memo \in [Turns -> Memos(generation)] => memo \in [Turns -> Memos(generation')]
      BY <3>3
    <3> QED
      BY <3>2, <3>4 DEF Memos
  <2>2. thread' \in [Threads -> {"unborn", "top", "drain", "admit", "idle", "step", "harvest",
                                 "done", "pool", "error", "dead"}]
    BY <1>1 DEF DriverInv, DriverTypeOK, Goto
  <2>3. hand' \in [Threads -> SUBSET Turns]
    BY <1>1, <1>4 DEF DriverInv, DriverTypeOK
  <2> QED
    BY <1>1, <1>4, <1>5, <1>6, <2>1, <2>2, <2>3 DEF DriverInv, DriverTypeOK
<1>10. ThreadsOK'
  BY <1>1, <1>2, <1>4, <1>5 DEF DriverInv, ThreadsOK
<1>11. Queued' = Queued /\ Mailed' = Mailed
  BY <1>1 DEF Queued, Mailed
<1>12. PlacesOK'
  BY <1>1, <1>3, <1>4, <1>5, <1>11 DEF DriverInv, PlacesOK
<1>13. SessionsOK'
  <2>1. o.sessions \subseteq Turns
    BY DEF DriverInv, DriverTypeOK, Rollout
  <2> QED
    BY <1>1, <1>3, <1>4, <1>5, <1>11, <2>1 DEF DriverInv, SessionsOK
<1>14. RetiredOK'
  BY <1>1, <1>2, <1>3, <1>4, <1>5, <1>7, <1>8 DEF DriverInv, RetiredOK
<1>15. OwnedOK'
  <2>1. \A t \in Turns : t \in waiters \union Hands => t \in waiters' \union Hands'
    BY <1>3, <1>4, <1>5
  <2>2. \A t \in Turns : t \in waiters \union Hands <=>
          t \in waiters \/ \E h \in Threads : t \in hand[h]
    BY DEF Hands
  <2>3. \A t \in Turns : t \in waiters' \union Hands' =>
          t \in waiters' \/ \E h \in Threads : t \in hand'[h]
    BY DEF Hands
  <2> QED
    BY <1>1, <2>1, <2>2, <2>3 DEF DriverInv, OwnedOK, HeldKVIsOwned
<1> QED
  BY <1>9, <1>10, <1>12, <1>13, <1>14, <1>15 DEF DriverInv

\* The turn goes back to the top of its loop.
LEMMA BackToTopStep ==
  ASSUME DriverInv, NEW g \in Threads, thread[g] \in {"done", "pool", "error"}, hand[g] = {},
         thread[g] \in {"pool", "error"} => waiters = {},
         Goto(g, "top"), UNCHANGED <<handle, stopping, hand, todo, queueVars, loopVars, call, o>>
  PROVE  DriverInv'
<1>1. /\ g = handle /\ handle # 0 /\ loop[1] # "own"
      /\ \A h \in Threads : thread'[h] = IF h = g THEN "top" ELSE thread[h]
      /\ Born' = Born
  BY OneThreadMoves
<1>2. DriverTypeOK'
  BY DEF DriverInv, DriverTypeOK, Goto, queueVars, loopVars
<1>3. ThreadsOK'
  BY <1>1 DEF DriverInv, ThreadsOK, queueVars, loopVars
<1>4. PlacesOK' /\ SessionsOK' /\ OwnedOK'
  BY SameElsewhere DEF queueVars, loopVars
<1>5. RetiredOK'
  <2>1. Hands' = Hands
    BY DEF Hands
  <2> QED
    BY <1>1, <2>1 DEF DriverInv, RetiredOK, queueVars, loopVars
<1> QED
  BY <1>2, <1>3, <1>4, <1>5 DEF DriverInv

\* A turn leaves a driver thread's local list: it is answered with v unless its
\* caller is gone, and q says what becomes of its request.
HandedOver(g, t, v) ==
  /\ t \in hand[g]
  /\ mail' = mail \o Resolve(t, v)
  /\ hand' = [hand EXCEPT ![g] = @ \ {t}]
  /\ UNCHANGED <<handle, stopping, thread, todo, queueVars, future, retried, loop, stops, call>>

\* The places after it.
LEMMA HandedFacts ==
  ASSUME DriverInv, NEW g \in Threads, thread[g] \in {"done", "pool", "error"},
         NEW t, NEW v \in {"result", "pool", "error"}, HandedOver(g, t, v)
  PROVE  /\ g = handle /\ handle # 0 /\ loop[1] # "own"
         /\ t \in Turns /\ t \in Hands /\ Hands' = Hands \ {t}
         /\ \A h \in Threads : hand'[h] = hand[h] \ {t}
         /\ t \in o.ledger /\ t \notin o.sessions /\ t \notin Mailed
         /\ ToSet(mail') = ToSet(mail) \union (IF future[t] = "pending" THEN {<<t, v>>} ELSE {})
         /\ (o' \in Rollout => DriverTypeOK') /\ ThreadsOK' /\ PlacesOK'
<1>1. /\ t \in hand[g] /\ hand' = [hand EXCEPT ![g] = @ \ {t}]
      /\ mail' = mail \o Resolve(t, v)
      /\ UNCHANGED <<handle, stopping, thread, todo, pending, admissions, waiters, memo, generation,
                     future, retried, loop, stops, call>>
  BY DEF HandedOver, queueVars
<1>2. g = handle /\ handle # 0 /\ loop[1] # "own"
  BY OneThread
<1>3. /\ Hands = hand[g]
      /\ \A h \in Threads : h # g => hand[h] = {}
  BY HandsOfOne
<1>4. t \in Hands /\ t \in Turns /\ hand \in [Threads -> SUBSET Turns]
  BY <1>1, <1>3 DEF DriverInv, DriverTypeOK
<1>5. \A h \in Threads : hand'[h] = hand[h] \ {t}
  BY <1>1, <1>3, <1>4
<1>6. Hands' = Hands \ {t}
  BY <1>5 DEF Hands
<1>7. t \notin Mailed /\ t \notin Queued /\ t \notin waiters
  BY <1>4 DEF DriverInv, PlacesOK
<1>8. t \in o.ledger /\ t \notin o.sessions
  BY <1>4 DEF DriverInv, RetiredOK, SessionsOK
<1>9. /\ mail' \in Seq(Callbacks) /\ Unambiguous(mail')
      /\ ToSet(mail') = ToSet(mail) \union (IF future[t] = "pending" THEN {<<t, v>>} ELSE {})
      /\ Mailed' = Mailed \union (IF future[t] = "pending" THEN {t} ELSE {})
  BY <1>1, <1>4, <1>7, PostFacts
<1>10. o' \in Rollout => DriverTypeOK'
  <2>1. hand' \in [Threads -> SUBSET Turns]
    BY <1>1, <1>4
  <2> QED
    BY <1>1, <1>9, <2>1 DEF DriverInv, DriverTypeOK, Callbacks
<1>11. ThreadsOK'
  <2>1. Born' = Born
    BY <1>1 DEF Born
  <2> QED
    BY <1>1, <1>5, <2>1 DEF DriverInv, ThreadsOK
<1>12. PlacesOK'
  <2>1. Queued' = Queued
    BY <1>1 DEF Queued
  <2> QED
    BY <1>1, <1>4, <1>6, <1>7, <1>9, <2>1 DEF DriverInv, PlacesOK
<1> QED
  BY <1>2, <1>4, <1>5, <1>6, <1>7, <1>8, <1>9, <1>10, <1>11, <1>12

LEMMA AnswerStep ==
  ASSUME DriverInv, NEW g \in Threads, Answer(g)
  PROVE  DriverInv'
<1>1. thread[g] = "done"
  BY DEF Answer
<1>2. CASE hand[g] = {}
  <2>1. Goto(g, "top") /\ UNCHANGED <<handle, stopping, hand, todo, queueVars, loopVars, call, o>>
    BY <1>2 DEF Answer, threadVars, loopVars
  <2> QED
    BY <1>1, <1>2, <2>1, BackToTopStep
<1>3. CASE hand[g] # {}
  <2>1. PICK t \in hand[g] :
          /\ Retire(t, {"result"} \union (StepErrors \intersect {"error"}))
          /\ hand' = [hand EXCEPT ![g] = @ \ {t}]
          /\ UNCHANGED thread
    BY <1>3 DEF Answer
  <2>2. PICK v \in {"result", "error"} : mail' = mail \o Resolve(t, v)
    BY <2>1 DEF Retire
  <2>3. HandedOver(g, t, v)
    BY <2>1, <2>2 DEF HandedOver, Answer, threadVars
  <2>4. /\ t \in Turns /\ t \in Hands /\ Hands' = Hands \ {t}
        /\ g = handle
        /\ \A h \in Threads : hand'[h] = hand[h] \ {t}
        /\ t \in o.ledger /\ t \notin o.sessions /\ t \notin Mailed
        /\ ToSet(mail') = ToSet(mail) \union (IF future[t] = "pending" THEN {<<t, v>>} ELSE {})
        /\ (o' \in Rollout => DriverTypeOK') /\ ThreadsOK' /\ PlacesOK'
    BY <1>1, <2>3, HandedFacts
  <2>5. UNCHANGED <<handle, thread, admissions, waiters, future, loop>>
    BY <2>3 DEF HandedOver, queueVars
  <2>6. o.req[t] # "live"
    BY <1>1, <2>1 DEF DriverInv, RetiredOK
  <2>7. /\ Sane(o')
        /\ o'.sessions \subseteq o.sessions \union {t} /\ o'.ledger = o.ledger \ {t}
        /\ \A u \in Turns :
             /\ o'.req[u] = "live" <=> o.req[u] = "live"
             /\ o'.req[u] = "held" => o.req[u] = "held"
             /\ o'.req[u] = "held" /\ (u \in o.sessions \/ u = t) => u \in o'.sessions
    BY <2>1, <2>4, <2>6, RolloutSane, ParkOrReleaseFacts DEF Retire
  <2>8. \A e \in ToSet(mail) : e[1] # t
    BY <2>4 DEF Mailed
  <2>9. Queued' = Queued /\ t \notin Queued /\ t \notin waiters /\ future[t] \notin {"new", "retry"}
    BY <2>4, <2>5 DEF DriverInv, PlacesOK, Queued
  <2>10. DriverTypeOK'
    BY <2>4, <2>7 DEF Sane
  <2>11. SessionsOK'
    <3>1. \A u \in Turns : o'.req[u] = "live" => o'.left[u] > 0
      BY <2>7 DEF Sane
    <3>2. ASSUME NEW u \in o'.sessions
          PROVE  /\ o'.req[u] # "live"
                 /\ u \notin Queued \union waiters \union Hands'
                 /\ future[u] \notin {"new", "retry"}
                 /\ <<u, "pool">> \notin ToSet(mail')
      <4>1. o'.req[u] # "live"
        BY <2>7 DEF Sane
      <4>2. CASE u = t
        <5>1. <<t, "pool">> \notin ToSet(mail) /\ <<t, "pool">> # <<t, v>>
          BY <2>2, <2>8
        <5> QED
          BY <4>1, <4>2, <2>4, <2>9, <5>1
      <4>3. CASE u # t
        <5>1. u \in o.sessions /\ <<u, "pool">> # <<t, v>>
          BY <2>7, <4>3
        <5> QED
          BY <4>1, <4>3, <5>1, <2>4 DEF DriverInv, SessionsOK
      <4> QED
        BY <4>2, <4>3
    <3> QED
      BY <2>5, <2>9, <3>1, <3>2 DEF SessionsOK
  <2>12. RetiredOK'
    <3>1. ASSUME NEW u \in Turns, future[u] = "result" \/ <<u, "result">> \in ToSet(mail')
          PROVE  u \notin o'.ledger /\ o'.req[u] # "live"
      <4>1. CASE u = t
        BY <4>1, <2>6, <2>7
      <4>2. CASE u # t
        <5>1. <<u, "result">> # <<t, v>>
          BY <4>2
        <5>2. u \notin o.ledger /\ o.req[u] # "live"
          BY <3>1, <5>1, <2>4 DEF DriverInv, RetiredOK
        <5> QED
          BY <5>2, <2>7
      <4> QED
        BY <4>1, <4>2
    <3>2. waiters \union Hands' \subseteq o'.ledger
      BY <2>4, <2>7, <2>9 DEF DriverInv, RetiredOK
    <3>3. waiters \subseteq Turns /\ \A h \in Threads : hand[h] \subseteq Turns
      BY DEF DriverInv, DriverTypeOK
    <3>4. \A h \in Threads : thread[h] = "done" => \A u \in hand'[h] : o'.req[u] # "live"
      BY <2>4, <2>7, <3>3 DEF DriverInv, RetiredOK
    <3>5. \A u \in waiters : o'.req[u] = "live" \/ thread[handle] \in {"harvest", "pool", "error"}
      BY <2>7, <3>3 DEF DriverInv, RetiredOK
    <3> QED
      BY <2>5, <3>1, <3>2, <3>4, <3>5 DEF DriverInv, RetiredOK
  <2>13. OwnedOK'
    <3>1. \A u \in Turns : u \in waiters \union Hands => u = t \/ u \in waiters \union Hands'
      BY <2>4
    <3>2. \A u \in Turns : u \in Hands <=> \E h \in Threads : u \in hand[h]
      BY DEF Hands
    <3>3. \A u \in Turns : u \in Hands' => \E h \in Threads : u \in hand'[h]
      BY DEF Hands
    <3> QED
      BY <2>5, <2>6, <2>7, <3>1, <3>2, <3>3 DEF DriverInv, OwnedOK, HeldKVIsOwned
  <2> QED
    BY <2>4, <2>10, <2>11, <2>12, <2>13 DEF DriverInv
<1> QED
  BY <1>2, <1>3

LEMMA TakeAllStep ==
  ASSUME DriverInv, NEW g \in Threads, TakeAll(g)
  PROVE  DriverInv'
<1>1. /\ thread[g] \in {"pool", "error"} /\ waiters # {}
      /\ hand' = [hand EXCEPT ![g] = waiters] /\ waiters' = {}
      /\ UNCHANGED <<handle, stopping, thread, todo, pending, admissions, memo, generation,
                     future, mail, retried, loop, stops, call, o>>
  BY DriverAssumption DEF TakeAll, threadVars, loopVars
<1>2. g = handle /\ handle # 0 /\ loop[1] # "own"
  BY <1>1, OneThread
<1>3. \A h \in Threads : hand[h] = {}
  BY <1>1, HandsOfOne DEF DriverInv, ThreadsOK
<1>4. /\ waiters \subseteq Turns
      /\ \A h \in Threads : hand'[h] = IF h = g THEN waiters ELSE {}
  BY <1>1, <1>3 DEF DriverInv, DriverTypeOK
<1>5. Hands = {} /\ Hands' = waiters
  BY <1>3, <1>4 DEF Hands
<1>6. DriverTypeOK'
  BY <1>1, <1>4 DEF DriverInv, DriverTypeOK
<1>7. ThreadsOK'
  <2>1. Born' = Born
    BY <1>1 DEF Born
  <2> QED
    BY <1>1, <1>2, <1>4, <2>1 DEF DriverInv, ThreadsOK
<1>8. Queued' = Queued /\ Mailed' = Mailed
  BY <1>1 DEF Queued, Mailed
<1>9. PlacesOK'
  BY <1>1, <1>5, <1>8 DEF DriverInv, PlacesOK
<1>10. SessionsOK'
  BY <1>1, <1>5, <1>8 DEF DriverInv, SessionsOK
<1>11. RetiredOK'
  BY <1>1, <1>2, <1>4, <1>5 DEF DriverInv, RetiredOK
<1>12. OwnedOK'
  <2>1. \A t \in waiters : \E h \in Threads : t \in hand'[h]
    BY <1>4
  <2> QED
    BY <1>1, <1>3, <1>5, <2>1 DEF DriverInv, OwnedOK, HeldKVIsOwned
<1> QED
  BY <1>6, <1>7, <1>9, <1>10, <1>11, <1>12 DEF DriverInv

LEMMA FailOneStep ==
  ASSUME DriverInv, NEW g \in Threads, FailOne(g)
  PROVE  DriverInv'
<1>1. thread[g] \in {"pool", "error"} /\ waiters = {}
  BY DriverAssumption DEF FailOne
<1>2. CASE hand[g] = {}
  <2>1. Goto(g, "top") /\ UNCHANGED <<handle, stopping, hand, todo, queueVars, loopVars, call, o>>
    BY <1>2 DEF FailOne, threadVars, loopVars
  <2> QED
    BY <1>1, <1>2, <2>1, BackToTopStep
<1>3. CASE hand[g] # {}
  <2>1. PICK t \in hand[g] :
          /\ o' \in Fail(t)
          /\ mail' = mail \o Resolve(t, thread[g])
          /\ hand' = [hand EXCEPT ![g] = @ \ {t}]
          /\ UNCHANGED thread
    BY <1>3 DEF FailOne
  <2>2. PICK v \in {"pool", "error"} : v = thread[g]
    BY <1>1
  <2>3. HandedOver(g, t, v)
    BY <2>1, <2>2 DEF HandedOver, FailOne, threadVars
  <2>4. /\ t \in Turns /\ t \in Hands /\ Hands' = Hands \ {t}
        /\ g = handle
        /\ \A h \in Threads : hand'[h] = hand[h] \ {t}
        /\ t \notin o.sessions /\ t \notin Mailed
        /\ ToSet(mail') = ToSet(mail) \union (IF future[t] = "pending" THEN {<<t, v>>} ELSE {})
        /\ (o' \in Rollout => DriverTypeOK') /\ ThreadsOK' /\ PlacesOK'
    BY <1>1, <2>3, HandedFacts
  <2>5. UNCHANGED <<handle, thread, admissions, waiters, future, loop>>
    BY <2>3 DEF HandedOver, queueVars
  <2>6. /\ Sane(o') /\ o'.sessions = o.sessions /\ o'.ledger = o.ledger
        /\ \A u \in Turns : o'.req[u] = IF u \in {t} THEN "none" ELSE o.req[u]
    BY <2>1, <2>4, RolloutSane, FinishFacts DEF Fail
  <2>7. DriverTypeOK'
    BY <2>4, <2>6 DEF Sane
  <2>8. o.sessions \subseteq Turns /\ \A h \in Threads : hand[h] \subseteq Turns
    BY DEF DriverInv, DriverTypeOK, Rollout
  <2>9. SessionsOK'
    <3>1. \A u \in o.sessions : u # t /\ <<u, "pool">> # <<t, v>>
      BY <2>4
    <3>2. \A u \in o.sessions : /\ u \notin Queued \union waiters \union Hands'
                                /\ future[u] \notin {"new", "retry"}
                                /\ <<u, "pool">> \notin ToSet(mail')
      BY <2>4, <3>1 DEF DriverInv, SessionsOK
    <3>3. Queued' = Queued
      BY <2>5 DEF Queued
    <3> QED
      BY <2>5, <2>6, <3>2, <3>3 DEF SessionsOK, Sane
  <2>10. RetiredOK'
    <3>1. \A u \in Turns : <<u, "result">> # <<t, v>>
      BY <2>2
    <3>2. \A u \in Turns : future[u] = "result" \/ <<u, "result">> \in ToSet(mail') =>
            u \notin o.ledger /\ o'.req[u] # "live"
      BY <2>4, <2>6, <3>1 DEF DriverInv, RetiredOK
    <3>3. \A h \in Threads : thread[h] = "done" => \A u \in hand'[h] : o'.req[u] # "live"
      BY <2>4, <2>6, <2>8 DEF DriverInv, RetiredOK
    <3>4. waiters \union Hands' \subseteq o.ledger
      BY <2>4 DEF DriverInv, RetiredOK
    <3> QED
      BY <1>1, <2>5, <2>6, <3>2, <3>3, <3>4 DEF RetiredOK
  <2>11. OwnedOK'
    <3>1. \A u \in Turns : u \in waiters \union Hands => u = t \/ u \in waiters \union Hands'
      BY <2>4
    <3>2. \A u \in Turns : u \in Hands <=> \E h \in Threads : u \in hand[h]
      BY DEF Hands
    <3>3. \A u \in Turns : u \in Hands' => \E h \in Threads : u \in hand'[h]
      BY DEF Hands
    <3> QED
      BY <2>5, <2>6, <3>1, <3>2, <3>3 DEF DriverInv, OwnedOK, HeldKVIsOwned
  <2> QED
    BY <2>4, <2>7, <2>9, <2>10, <2>11 DEF DriverInv
<1> QED
  BY <1>2, <1>3

-----------------------------------------------------------------------------
(***************************************************************************)
(* The event loop keeps it.                                                *)
(***************************************************************************)
\* start() finds room for the thread it makes.
LEMMA StartFacts ==
  ASSUME DriverInv, Start, loop[1] # "join", loop'[1] \notin {"join", "own"},
         UNCHANGED <<hand, todo, waiters, stops>>
  PROVE  /\ handle' \in Threads /\ stopping' \in BOOLEAN
         /\ thread' \in [Threads -> {"unborn", "top", "drain", "admit", "idle", "step", "harvest",
                                     "done", "pool", "error", "dead"}]
         /\ ThreadsOK'
         /\ \A h \in Threads : thread'[h] = "done" => thread[h] = "done"
         /\ waiters # {} => thread'[handle'] = thread[handle] /\ handle # 0
<1>1. /\ handle \in {0} \union Threads /\ stopping \in BOOLEAN
      /\ thread \in [Threads -> {"unborn", "top", "drain", "admit", "idle", "step", "harvest",
                                 "done", "pool", "error", "dead"}]
      /\ stops \in Nat /\ stops <= MaxStops /\ MaxStops \in Nat
  BY Counts DEF DriverInv, DriverTypeOK
<1>2. CASE handle # 0
  <2>1. UNCHANGED <<handle, stopping, thread>>
    BY <1>2 DEF Start
  <2>2. Born' = Born
    BY <2>1 DEF Born
  <2> QED
    BY <1>1, <1>2, <2>1, <2>2 DEF DriverInv, ThreadsOK
<1>3. CASE handle = 0
  <2>1. PICK n \in 0..MaxStops + 1 : Born = 1..n /\ n <= stops
    BY <1>1, <1>3 DEF DriverInv, ThreadsOK
  <2> DEFINE g == Cardinality(Born) + 1
  <2>2. g = n + 1 /\ n \in Nat
    <3>1. n \in Nat /\ 1 \in Int /\ n \in Int
      BY <1>1, <2>1
    <3>2. Cardinality(1..n) = n
      BY <3>1, FS_Interval
    <3> QED
      BY <2>1, <3>1, <3>2
  <2>3. handle' = g /\ stopping' = FALSE /\ Goto(g, "top")
    BY <1>3 DEF Start, Born
  <2> HIDE DEF g
  <2>4. g \in Threads /\ g # 0 /\ g \notin Born
    BY <1>1, <2>1, <2>2 DEF Threads
  <2>5. \A h \in Threads : thread'[h] = IF h = g THEN "top" ELSE thread[h]
    BY <1>1, <2>3 DEF Goto
  <2>6. Born' = 1..n + 1
    <3>1. Born' = Born \union {g}
      BY <2>4, <2>5 DEF Born
    <3> QED
      BY <2>1, <2>2, <3>1
  <2>7. thread' \in [Threads -> {"unborn", "top", "drain", "admit", "idle", "step", "harvest",
                                 "done", "pool", "error", "dead"}]
    BY <1>1, <2>3 DEF Goto
  <2>8. /\ waiters = {} /\ ~(todo > 0)
        /\ \A h \in Threads : thread[h] \in {"unborn", "dead"} /\ hand[h] = {}
    <3>1. \A h \in Threads : h # 0
      BY DEF Threads
    <3>2. \A h \in Threads : thread[h] \in {"unborn", "dead"}
      BY <1>3, <3>1 DEF DriverInv, ThreadsOK
    <3>3. \A h \in Threads : hand[h] = {}
      BY <3>2 DEF DriverInv, ThreadsOK
    <3> QED
      BY <1>3, <3>2, <3>3 DEF DriverInv, ThreadsOK, RetiredOK
  <2>9. n + 1 \in 0..MaxStops + 1 /\ n + 1 <= stops + 1
    BY <1>1, <2>1
  <2>10. ThreadsOK'
    <3>1. \E m \in 0..MaxStops + 1 :
            /\ Born' = 1..m
            /\ m <= stops' + (IF handle' # 0 /\ loop'[1] # "join" THEN 1 ELSE 0)
      BY <2>3, <2>4, <2>6, <2>9
    <3>2. \A h \in Threads :
            /\ h # handle' => thread'[h] \in {"unborn", "dead"}
            /\ hand'[h] # {} => thread'[h] \in {"done", "pool", "error"}
            /\ thread'[h] \in {"pool", "error"} => hand'[h] = {} \/ waiters' = {}
      BY <2>3, <2>5, <2>8
    <3>3. handle' # 0 => thread'[handle'] # "unborn"
      BY <2>3, <2>4, <2>5
    <3> QED
      BY <2>8, <3>1, <3>2, <3>3 DEF ThreadsOK
  <2> QED
    BY <2>3, <2>4, <2>5, <2>7, <2>8, <2>10
<1> QED
  BY <1>2, <1>3

\* A turn is submitted, for the first or the second time.
LEMMA EnqueueStep ==
  ASSUME DriverInv, NEW t \in Turns, Enqueue(t), future[t] \in {"new", "retry"},
         future' = [future EXCEPT ![t] = "pending"],
         loop[1] \in {"free", "resubmit"}, loop' = <<"free", "idle">>,
         UNCHANGED <<mail, retried>>
  PROVE  DriverInv'
<1>1. /\ Start /\ admissions' = Append(admissions, t) /\ memo' = [memo EXCEPT ![t] = NoMemo]
      /\ UNCHANGED <<hand, todo, pending, waiters, generation, stops, call, o>>
  BY DEF Enqueue
<1>2. /\ handle' \in Threads /\ stopping' \in BOOLEAN
      /\ thread' \in [Threads -> {"unborn", "top", "drain", "admit", "idle", "step", "harvest",
                                  "done", "pool", "error", "dead"}]
      /\ ThreadsOK'
      /\ \A h \in Threads : thread'[h] = "done" => thread[h] = "done"
      /\ waiters # {} => thread'[handle'] = thread[handle] /\ handle # 0
  BY <1>1, StartFacts
<1>3. /\ t \notin Queued \union waiters \union Hands \union Mailed
      /\ t \notin o.sessions
  BY DEF DriverInv, PlacesOK, SessionsOK
<1>4. /\ admissions' \in Seq(Turns) /\ Queued' = Queued \union {t}
      /\ IsInjective(admissions') /\ todo \in 0..Len(admissions')
  <2>1. admissions \in Seq(Turns) /\ IsInjective(admissions) /\ todo \in 0..Len(admissions)
    BY DEF DriverInv, DriverTypeOK, PlacesOK
  <2>2. /\ admissions' \in Seq(Turns) /\ ToSet(admissions') = ToSet(admissions) \union {t}
        /\ IsInjective(admissions') /\ Len(admissions') = Len(admissions) + 1
    BY <1>1, <1>3, <2>1, AppendFacts DEF Queued
  <2>3. Len(admissions) \in Nat
    BY <2>1, LenProperties
  <2> QED
    BY <2>1, <2>2, <2>3 DEF Queued
<1>5. \A u \in Turns : future'[u] = IF u = t THEN "pending" ELSE future[u]
  BY DEF DriverInv, DriverTypeOK
<1>6. Hands' = Hands /\ Mailed' = Mailed
  BY <1>1 DEF Hands, Mailed
<1>7. DriverTypeOK'
  <2> DEFINE Memos == [active : SUBSET Turns, free : -1..MaxFree, generation : -1..generation]
  <2>1. NoMemo \in Memos
    <3>1. -1 \in -1..MaxFree /\ -1 \in -1..generation
      BY TurnsAssumption, Counts
    <3> QED
      BY <3>1 DEF NoMemo
  <2>2. memo' \in [Turns -> Memos]
    BY <1>1, <2>1 DEF DriverInv, DriverTypeOK
  <2>3. future' \in [Turns -> {"new", "pending", "retry", "result", "error", "cancelled"}]
    BY DEF DriverInv, DriverTypeOK
  <2> QED
    BY <1>1, <1>2, <1>4, <2>2, <2>3 DEF DriverInv, DriverTypeOK
<1>8. PlacesOK'
  BY <1>1, <1>3, <1>4, <1>5, <1>6 DEF DriverInv, PlacesOK
<1>9. SessionsOK'
  <2>1. o.sessions \subseteq Turns
    BY DEF DriverInv, DriverTypeOK, Rollout
  <2> QED
    BY <1>1, <1>3, <1>4, <1>5, <1>6, <2>1 DEF DriverInv, SessionsOK
<1>10. RetiredOK'
  BY <1>1, <1>2, <1>5, <1>6 DEF DriverInv, RetiredOK, Threads
<1>11. OwnedOK'
  BY <1>1, <1>6 DEF DriverInv, OwnedOK, HeldKVIsOwned
<1> QED
  BY <1>2, <1>7, <1>8, <1>9, <1>10, <1>11 DEF DriverInv

LEMMA RunTurnStep ==
  ASSUME DriverInv, NEW t \in Turns, RunTurn(t)
  PROVE  DriverInv'
<1>1. loop[1] = "free" /\ loop = <<"free", "idle">>
  BY LoopFacts DEF RunTurn, Free
<1> QED
  BY <1>1, EnqueueStep DEF RunTurn

LEMMA ResubmitStep ==
  ASSUME DriverInv, Resubmit
  PROVE  DriverInv'
<1>1. loop[1] = "resubmit" /\ loop[2] \in Turns /\ future[loop[2]] = "retry"
  BY LoopFacts DEF Resubmit, DriverInv, PlacesOK
<1> QED
  BY <1>1, EnqueueStep DEF Resubmit

\* Taking the first callback.
LEMMA MailFacts ==
  ASSUME DriverInv, mail # << >>
  PROVE  /\ Head(mail) \in Callbacks /\ Head(mail) \in ToSet(mail)
         /\ Tail(mail) \in Seq(Callbacks) /\ Unambiguous(Tail(mail))
         /\ ToSet(mail) = {Head(mail)} \union ToSet(Tail(mail))
         /\ Mailed = {Head(mail)[1]} \union Keys(Tail(mail))
         /\ Head(mail)[1] \notin Keys(Tail(mail))
<1>1. mail \in Seq(Callbacks) /\ Unambiguous(mail)
  BY DEF DriverInv, DriverTypeOK, PlacesOK, Callbacks
<1>2. /\ Head(mail) \in Callbacks /\ Head(mail) \in ToSet(mail)
      /\ Tail(mail) \in Seq(Callbacks)
      /\ ToSet(mail) = {Head(mail)} \union ToSet(Tail(mail))
  BY <1>1, TailFacts
<1>3. /\ Head(mail) = mail[1] /\ Len(Tail(mail)) = Len(mail) - 1
      /\ \A i \in 1..Len(Tail(mail)) : Tail(mail)[i] = mail[i + 1]
  BY <1>1, HeadTailProperties
<1>4. /\ DOMAIN mail = 1..Len(mail) /\ DOMAIN Tail(mail) = 1..Len(mail) - 1
      /\ Len(mail) \in Nat /\ Len(mail) > 0
  BY <1>1, <1>2, <1>3, LenProperties, EmptySeq
<1>5. \A i \in DOMAIN Tail(mail) : Tail(mail)[i] = mail[i + 1] /\ i + 1 \in DOMAIN mail /\ i + 1 # 1
  BY <1>3, <1>4
<1>6. 1 \in DOMAIN mail /\ DOMAIN Tail(mail) \subseteq Int
  BY <1>4
<1>7. \A i, j \in DOMAIN mail : mail[i][1] = mail[j][1] => i = j
  BY <1>1 DEF Unambiguous
<1>8. Unambiguous(Tail(mail))
  BY <1>5, <1>6, <1>7 DEF Unambiguous
<1>9. Head(mail)[1] \notin Keys(Tail(mail))
  BY <1>3, <1>5, <1>6, <1>7 DEF Keys, ToSet
<1>10. Mailed = {Head(mail)[1]} \union Keys(Tail(mail))
  BY <1>2 DEF Mailed, Keys
<1> QED
  BY <1>2, <1>8, <1>9, <1>10

LEMMA DeliverStep ==
  ASSUME DriverInv, Deliver
  PROVE  DriverInv'
<1> DEFINE t == Head(mail)[1]
           v == Head(mail)[2]
           retry == future[t] = "pending" /\ v = "pool" /\ t \notin retried
<1>1. /\ mail' = Tail(mail) /\ mail # << >> /\ loop[1] = "free"
      /\ future' = [future EXCEPT ![t] = CASE @ # "pending" -> @
                                           [] v = "result" -> "result"
                                           [] retry -> "retry"
                                           [] OTHER -> "error"]
      /\ retried' = (IF retry THEN retried \union {t} ELSE retried)
      /\ loop' = (IF retry THEN <<"retry", t>> ELSE loop)
      /\ UNCHANGED <<handle, stopping, thread, hand, todo, pending, admissions, waiters, memo,
                     generation, stops, call, o>>
  BY DEF Deliver, Free, threadVars, queueVars
<1>2. /\ t \in Turns /\ v \in {"result", "pool", "error"} /\ <<t, v>> \in ToSet(mail)
      /\ mail' \in Seq(Callbacks) /\ Unambiguous(mail')
      /\ ToSet(mail') \subseteq ToSet(mail)
      /\ Mailed' = Mailed \ {t} /\ t \in Mailed
  <2>1. /\ Head(mail) \in Callbacks /\ Head(mail) \in ToSet(mail)
        /\ mail' \in Seq(Callbacks) /\ Unambiguous(mail')
        /\ ToSet(mail') \subseteq ToSet(mail)
        /\ Mailed = {t} \union Keys(mail') /\ t \notin Keys(mail')
    BY <1>1, MailFacts
  <2>2. t \in Turns /\ v \in {"result", "pool", "error"} /\ Head(mail) = <<t, v>>
    BY <2>1 DEF Callbacks
  <2>3. Mailed' = Keys(mail')
    BY DEF Mailed, Keys
  <2> QED
    BY <2>1, <2>2, <2>3
<1>3. t \notin Queued \union waiters \union Hands
  BY <1>2 DEF DriverInv, PlacesOK
<1> DEFINE x == CASE future[t] # "pending" -> future[t]
                  [] v = "result" -> "result"
                  [] retry -> "retry"
                  [] OTHER -> "error"
<1>4. /\ future' = [future EXCEPT ![t] = x]
      /\ \A u \in Turns : future'[u] = IF u = t THEN x ELSE future[u]
  <2>1. future \in [Turns -> {"new", "pending", "retry", "result", "error", "cancelled"}]
    BY DEF DriverInv, DriverTypeOK
  <2>2. future' = [future EXCEPT ![t] = x]
    BY <1>1, <1>2, <2>1
  <2> HIDE DEF t, x
  <2> QED
    BY <2>1, <2>2
<1>5. /\ x \in {"new", "retry", "result", "error", "cancelled"}
      /\ x = "result" => future[t] = "result" \/ v = "result"
      /\ x \in {"new", "retry"} => future[t] = x \/ (retry /\ v = "pool")
      /\ retry => x = "retry"
  BY <1>2 DEF DriverInv, DriverTypeOK
<1>6. loop' = loop \/ (retry /\ loop' = <<"retry", t>>)
  BY <1>1
<1>7. retried' \subseteq Turns
  BY <1>1, <1>2 DEF DriverInv, DriverTypeOK
<1> HIDE DEF t, v, retry, x
<1>8. \/ loop' = loop /\ loop'[1] = "free"
      \/ /\ retry /\ loop'[1] = "retry" /\ loop'[2] = t
         /\ loop' \in {"retry", "blocked", "resubmit"} \X Turns
  BY <1>1, <1>2, <1>6
<1>9. DriverTypeOK'
  <2>1. future' \in [Turns -> {"new", "pending", "retry", "result", "error", "cancelled"}]
    BY <1>4, <1>5 DEF DriverInv, DriverTypeOK
  <2> QED
    BY <1>1, <1>2, <1>7, <1>8, <2>1 DEF DriverInv, DriverTypeOK, Callbacks
<1>10. ThreadsOK'
  <2>1. Born' = Born
    BY <1>1 DEF Born
  <2> QED
    BY <1>1, <1>8, <2>1 DEF DriverInv, ThreadsOK
<1>11. Queued' = Queued /\ Hands' = Hands
  BY <1>1 DEF Queued, Hands
<1>12. PlacesOK'
  BY <1>1, <1>2, <1>3, <1>4, <1>5, <1>8, <1>11 DEF DriverInv, PlacesOK
<1>13. SessionsOK'
  <2>1. o.sessions \subseteq Turns
    BY DEF DriverInv, DriverTypeOK, Rollout
  <2>2. t \in o.sessions => v # "pool"
    BY <1>2 DEF DriverInv, SessionsOK
  <2> QED
    BY <1>1, <1>2, <1>4, <1>5, <1>11, <2>1, <2>2 DEF DriverInv, SessionsOK
<1>14. RetiredOK'
  <2>1. \A u \in Turns : future'[u] = "result" \/ <<u, "result">> \in ToSet(mail') =>
          u \notin o.ledger /\ o.req[u] # "live"
    BY <1>2, <1>4, <1>5 DEF DriverInv, RetiredOK
  <2> QED
    BY <1>1, <1>11, <2>1 DEF DriverInv, RetiredOK
<1>15. OwnedOK'
  BY <1>1, <1>8, <1>11 DEF DriverInv, OwnedOK, HeldKVIsOwned
<1> QED
  BY <1>9, <1>10, <1>12, <1>13, <1>14, <1>15 DEF DriverInv

LEMMA RetryStep ==
  ASSUME DriverInv, Retry
  PROVE  DriverInv'
<1> DEFINE t == loop[2]
<1>1. /\ loop[1] = "retry" /\ t \in Turns
      /\ UNCHANGED <<handle, stopping, thread, hand, todo, admissions, waiters, memo, generation,
                     future, mail, retried, stops, call>>
  BY LoopFacts DEF Retry, threadVars
<1>2. \/ o' \in Freed(DropSessions(o)) /\ loop' = <<"resubmit", t>> /\ pending' = pending
      \/ o' = o /\ loop' = <<"blocked", t>> /\ pending' = Append(pending, t)
  BY DEF Retry
<1> HIDE DEF t
<1>3. Kept(o, o')
  BY <1>2, RolloutSane, KeptSame, DroppedKept
<1>4. /\ loop'[1] \in {"resubmit", "blocked"} /\ loop'[2] = t
      /\ loop' \in {"retry", "blocked", "resubmit"} \X Turns
  BY <1>1, <1>2
<1>5. pending' \in Seq(Calls \union Turns)
  <2>1. pending \in Seq(Calls \union Turns) /\ t \in Calls \union Turns
    BY <1>1 DEF DriverInv, DriverTypeOK
  <2> QED
    BY <1>2, <2>1, AppendFacts
<1>6. DriverTypeOK'
  BY <1>1, <1>3, <1>4, <1>5 DEF DriverInv, DriverTypeOK, Kept, Sane
<1>7. ThreadsOK'
  <2>1. Born' = Born
    BY <1>1 DEF Born
  <2> QED
    BY <1>1, <1>4, <2>1 DEF DriverInv, ThreadsOK
<1>8. PlacesOK'
  BY <1>1, <1>4 DEF DriverInv, PlacesOK, Queued, Hands, Mailed, t
<1>9. SessionsOK' /\ RetiredOK' /\ OwnedOK'
  BY <1>1, <1>3, <1>4, TakesAway DEF Queued
<1> QED
  BY <1>6, <1>7, <1>8, <1>9 DEF DriverInv

\* A future that nobody answers any more.
LEMMA GivenUp ==
  ASSUME DriverInv, NEW t \in Turns, NEW x \in {"error", "cancelled"},
         x = "error" => future[t] = "retry",
         future' = [future EXCEPT ![t] = x], future[t] \in {"pending", "retry"},
         loop[1] \in {"free", "blocked"}, loop' = <<"free", "idle">>,
         UNCHANGED <<handle, stopping, thread, hand, todo, queueVars, mail, retried, stops, call, o>>
  PROVE  DriverInv'
<1>1. \A u \in Turns : future'[u] = IF u = t THEN x ELSE future[u]
  BY DEF DriverInv, DriverTypeOK
<1>2. DriverTypeOK'
  BY DEF DriverInv, DriverTypeOK, queueVars
<1>3. loop'[1] = "free" /\ Born' = Born /\ Queued' = Queued /\ Hands' = Hands /\ Mailed' = Mailed
  BY DEF Born, Queued, Hands, Mailed, queueVars
<1>4. ThreadsOK'
  BY <1>3 DEF DriverInv, ThreadsOK, queueVars
<1>5. PlacesOK'
  BY <1>1, <1>3 DEF DriverInv, PlacesOK, queueVars
<1>6. SessionsOK'
  <2>1. o.sessions \subseteq Turns
    BY DEF DriverInv, DriverTypeOK, Rollout
  <2> QED
    BY <1>1, <1>3, <2>1 DEF DriverInv, SessionsOK, queueVars
<1>7. RetiredOK'
  BY <1>1, <1>3 DEF DriverInv, RetiredOK, queueVars
<1>8. OwnedOK'
  BY <1>3 DEF DriverInv, OwnedOK, HeldKVIsOwned, queueVars
<1> QED
  BY <1>2, <1>4, <1>5, <1>6, <1>7, <1>8 DEF DriverInv

LEMMA RetryTimesOutStep ==
  ASSUME DriverInv, RetryTimesOut
  PROVE  DriverInv'
<1>1. loop[1] = "blocked" /\ loop[2] \in Turns /\ future[loop[2]] = "retry"
  BY LoopFacts DEF RetryTimesOut, DriverInv, PlacesOK
<1> QED
  BY <1>1, GivenUp DEF RetryTimesOut, threadVars

LEMMA CancelStep ==
  ASSUME DriverInv, NEW t \in Turns, Cancel(t)
  PROVE  DriverInv'
<1>1. loop[1] = "free" /\ loop = <<"free", "idle">>
  BY LoopFacts DEF Cancel, Free
<1> QED
  BY <1>1, GivenUp DEF Cancel, threadVars

LEMMA StopStep ==
  ASSUME DriverInv, NEW op \in Operations, Stop(op)
  PROVE  DriverInv'
<1>1. /\ loop[1] = "free" /\ stops < MaxStops /\ stops' = stops + 1 /\ stopping' \in BOOLEAN
      /\ UNCHANGED <<handle, thread, hand, todo, pending, admissions, waiters, memo, generation,
                     future, mail, retried, call, o>>
  BY DEF Stop, Free, queueVars, DriverInv, DriverTypeOK
<1>2. IF handle = 0 THEN loop' = <<"own", op>> ELSE loop' = <<"join", op>>
  BY DEF Stop
<1>3. /\ loop'[1] = IF handle = 0 THEN "own" ELSE "join"
      /\ loop' \in {"join", "own"} \X Operations
  BY <1>2
<1>4. stops' \in 0..MaxStops
  BY <1>1, Counts
<1>5. DriverTypeOK'
  BY <1>1, <1>3, <1>4 DEF DriverInv, DriverTypeOK
<1>6. Born' = Born /\ Queued' = Queued /\ Hands' = Hands /\ Mailed' = Mailed
  BY <1>1 DEF Born, Queued, Hands, Mailed
<1>7. ThreadsOK'
  <2>1. PICK n \in 0..MaxStops + 1 :
          Born = 1..n /\ n <= stops + (IF handle # 0 /\ loop[1] # "join" THEN 1 ELSE 0)
    BY DEF DriverInv, ThreadsOK
  <2>2. n <= stops' + (IF handle' # 0 /\ loop'[1] # "join" THEN 1 ELSE 0)
    BY <1>1, <1>3, <2>1, Counts
  <2> QED
    BY <1>1, <1>3, <1>6, <2>1, <2>2 DEF DriverInv, ThreadsOK
<1>8. PlacesOK'
  BY <1>1, <1>3, <1>6 DEF DriverInv, PlacesOK
<1>9. SessionsOK'
  BY <1>1, <1>6 DEF DriverInv, SessionsOK
<1>10. RetiredOK'
  BY <1>1, <1>6 DEF DriverInv, RetiredOK
<1>11. OwnedOK'
  BY <1>1, <1>3, <1>6 DEF DriverInv, OwnedOK, HeldKVIsOwned
<1> QED
  BY <1>5, <1>7, <1>8, <1>9, <1>10, <1>11 DEF DriverInv

LEMMA JoinTimesOutStep ==
  ASSUME DriverInv, JoinTimesOut
  PROVE  DriverInv'
<1>1. /\ loop[1] = "join" /\ loop' = <<"free", "idle">> /\ loop'[1] = "free"
      /\ UNCHANGED <<handle, stopping, thread, hand, todo, pending, admissions, waiters, memo,
                     generation, future, mail, retried, stops, call, o>>
  BY DEF JoinTimesOut, HandleKept, queueVars
<1>2. Born' = Born /\ Queued' = Queued /\ Hands' = Hands /\ Mailed' = Mailed
  BY <1>1 DEF Born, Queued, Hands, Mailed
<1>3. DriverTypeOK'
  BY <1>1 DEF DriverInv, DriverTypeOK
<1>4. ThreadsOK'
  <2>1. PICK n \in 0..MaxStops + 1 : Born = 1..n /\ n <= stops
    BY <1>1, Counts DEF DriverInv, ThreadsOK
  <2>2. n <= stops' + (IF handle' # 0 /\ loop'[1] # "join" THEN 1 ELSE 0)
    BY <1>1, <2>1, Counts
  <2> QED
    BY <1>1, <1>2, <2>1, <2>2 DEF DriverInv, ThreadsOK
<1>5. PlacesOK' /\ SessionsOK' /\ RetiredOK' /\ OwnedOK'
  BY <1>1, <1>2 DEF DriverInv, PlacesOK, SessionsOK, RetiredOK, OwnedOK, HeldKVIsOwned
<1> QED
  BY <1>3, <1>4, <1>5 DEF DriverInv

\* Without a driver nobody is in _waiters or in a local list.
LEMMA NoDriver ==
  ASSUME DriverInv, handle = 0
  PROVE  /\ waiters = {} /\ Hands = {}
         /\ \A h \in Threads : hand[h] = {}
<1>1. \A h \in Threads : h # 0
  BY DEF Threads
<1>2. \A h \in Threads : thread[h] \in {"unborn", "dead"}
  BY <1>1 DEF DriverInv, ThreadsOK
<1>3. \A h \in Threads : hand[h] = {}
  BY <1>2 DEF DriverInv, ThreadsOK
<1> QED
  BY <1>3 DEF DriverInv, RetiredOK, Hands

LEMMA JoinedStep ==
  ASSUME DriverInv, Joined
  PROVE  DriverInv'
<1> DEFINE S == waiters \union Queued
<1>1. /\ loop[1] = "join" /\ handle # 0 /\ thread[handle] = "dead"
      /\ handle' = 0 /\ mail' = mail \o ResolveAll(S, "error")
      /\ waiters' = {} /\ admissions' = << >>
      /\ loop' = <<"own", loop[2]>>
      /\ UNCHANGED <<stopping, thread, hand, todo, pending, memo, generation,
                     future, retried, stops, call, o>>
  BY DEF Joined, Stranded, Queued, DriverInv, ThreadsOK
<1>2. /\ \A h \in Threads : thread[h] \in {"unborn", "dead"} /\ hand[h] = {}
      /\ Hands = {} /\ ~(todo > 0)
  <2>1. \A h \in Threads : thread[h] \in {"unborn", "dead"}
    BY <1>1 DEF DriverInv, ThreadsOK
  <2>2. \A h \in Threads : hand[h] = {}
    BY <2>1 DEF DriverInv, ThreadsOK
  <2> QED
    BY <1>1, <2>1, <2>2 DEF DriverInv, ThreadsOK, Hands
<1>3. admissions \in Seq(Turns) /\ Queued \subseteq Turns /\ S \subseteq Turns
  <2>1. admissions \in Seq(Turns) /\ waiters \subseteq Turns
    BY DEF DriverInv, DriverTypeOK
  <2>2. \A i \in DOMAIN admissions : admissions[i] \in Turns
    BY <2>1, LenProperties, ElementOfSeq
  <2> QED
    BY <2>1, <2>2 DEF Queued, ToSet
<1>4. /\ admissions' \in Seq(Turns) /\ Queued' = {} /\ IsInjective(admissions')
      /\ Len(admissions') = 0
  <2>1. DOMAIN << >> = {}
    OBVIOUS
  <2> QED
    BY <1>1, <2>1 DEF Queued, ToSet, IsInjective
<1>5. todo \in Nat /\ todo' = 0
  <2>1. todo \in 0..Len(admissions)
    BY DEF DriverInv, DriverTypeOK
  <2>2. Len(admissions) \in Nat
    BY <1>3, LenProperties
  <2> QED
    BY <1>1, <1>2, <2>1, <2>2
<1>6. S \intersect Mailed = {}
  BY DEF DriverInv, PlacesOK
<1> DEFINE n == ResolveAll(S, "error")
           C == {<<t, "error">> : t \in {u \in S : future[u] = "pending"}}
<1>7. n \in Seq(Callbacks) /\ Unambiguous(n) /\ ToSet(n) = C
  BY <1>3, ResolveAllFacts
<1>8. \A c \in C : c[1] \in S /\ future[c[1]] = "pending" /\ c = <<c[1], "error">>
  OBVIOUS
<1>9. \A t \in S : future[t] = "pending" => \E c \in C : c[1] = t
  <2>1. \A t \in S : future[t] = "pending" => <<t, "error">> \in C
    OBVIOUS
  <2>2. \A t : <<t, "error">>[1] = t
    OBVIOUS
  <2> HIDE DEF S, C
  <2> QED
    BY <2>1, <2>2
<1>10. \A t \in Turns : <<t, "result">> \notin C /\ <<t, "pool">> \notin C
  OBVIOUS
<1> HIDE DEF S, C, n
<1>11. /\ mail' \in Seq(Callbacks) /\ Unambiguous(mail')
       /\ ToSet(mail') = ToSet(mail) \union C
  <2>1. mail \in Seq(Callbacks) /\ Unambiguous(mail)
    BY DEF DriverInv, DriverTypeOK, PlacesOK, Callbacks
  <2>2. Keys(mail) \intersect Keys(n) = {}
    BY <1>6, <1>7, <1>8 DEF Keys, Mailed
  <2> QED
    BY <1>1, <1>7, <2>1, <2>2, ConcatFacts DEF n
<1>12. /\ \A t \in Mailed' : t \in Mailed \/ t \in S
       /\ \A t \in Mailed : t \in Mailed'
       /\ \A t \in S : future[t] = "pending" => t \in Mailed'
       /\ \A t \in S : t \in Mailed' => future[t] = "pending" \/ t \in Mailed
  BY <1>8, <1>9, <1>11 DEF Mailed
<1>13. loop[2] \in Operations /\ loop'[1] = "own" /\ loop' \in {"join", "own"} \X Operations
  BY <1>1, LoopFacts
<1>14. DriverTypeOK'
  <2>1. todo' \in 0..Len(admissions')
    BY <1>4, <1>5
  <2> QED
    BY <1>1, <1>4, <1>11, <1>13, <2>1 DEF DriverInv, DriverTypeOK, Callbacks
<1>15. ThreadsOK'
  <2>1. Born' = Born
    BY <1>1 DEF Born
  <2>2. PICK k \in 0..MaxStops + 1 : Born = 1..k /\ k <= stops
    BY <1>1, Counts DEF DriverInv, ThreadsOK
  <2>3. k <= stops' + (IF handle' # 0 /\ loop'[1] # "join" THEN 1 ELSE 0)
    BY <1>1, <2>2, Counts
  <2> QED
    BY <1>1, <1>2, <1>13, <2>1, <2>2, <2>3 DEF ThreadsOK
<1>16. Hands' = Hands
  BY <1>1 DEF Hands
<1>17. PlacesOK'
  BY <1>1, <1>2, <1>4, <1>11, <1>12, <1>13, <1>16 DEF DriverInv, PlacesOK, S
<1>18. SessionsOK'
  <2>1. o.sessions \subseteq Turns
    BY DEF DriverInv, DriverTypeOK, Rollout
  <2> QED
    BY <1>1, <1>2, <1>4, <1>10, <1>11, <1>16, <2>1 DEF DriverInv, SessionsOK
<1>19. RetiredOK'
  BY <1>1, <1>2, <1>10, <1>11, <1>16 DEF DriverInv, RetiredOK
<1>20. OwnedOK'
  <2>1. \A t \in waiters : o.req[t] = "live"
    BY <1>1 DEF DriverInv, RetiredOK
  <2> QED
    BY <1>1, <1>13, <1>16, <2>1 DEF DriverInv, OwnedOK, HeldKVIsOwned
<1> QED
  BY <1>14, <1>15, <1>17, <1>18, <1>19, <1>20 DEF DriverInv

LEMMA OperateStep ==
  ASSUME DriverInv, Operate
  PROVE  DriverInv'
<1>1. /\ loop[1] = "own" /\ handle = 0 /\ loop' = <<"free", "idle">> /\ loop'[1] = "free"
      /\ UNCHANGED <<handle, stopping, thread, hand, todo, pending, admissions, waiters, memo,
                     generation, future, mail, retried, stops, call>>
  BY DEF Operate, threadVars, queueVars, DriverInv, ThreadsOK
<1>2. loop[2] \in {"sleep", "update", "abort"}
  BY <1>1, LoopFacts, DriverAssumption
<1>3. /\ Stopped(o, o')
      /\ ~UpdateMayFail => \A t \in Turns : o'.req[t] # "live"
  <2>1. CASE loop[2] = "sleep"
    BY <2>1, RolloutSane, SleepFacts DEF Operate
  <2>2. CASE loop[2] = "update"
    <3>1. \/ o' \in UpdateAll(o, FALSE)
          \/ UpdateMayFail /\ o' \in UpdateAll(o, TRUE)
      BY <2>2 DEF Operate
    <3> QED
      BY <3>1, RolloutSane, UpdateFacts
  <2>3. CASE loop[2] = "abort"
    BY <2>3, RolloutSane, AbortFacts DEF Operate
  <2> QED
    BY <1>2, <2>1, <2>2, <2>3
<1>4. waiters = {} /\ Hands = {} /\ \A h \in Threads : hand[h] = {}
  BY <1>1, NoDriver
<1>5. Born' = Born /\ Queued' = Queued /\ Hands' = Hands /\ Mailed' = Mailed
  BY <1>1 DEF Born, Queued, Hands, Mailed
<1>6. DriverTypeOK'
  BY <1>1, <1>3 DEF DriverInv, DriverTypeOK, Stopped, Sane
<1>7. ThreadsOK'
  BY <1>1, <1>5 DEF DriverInv, ThreadsOK
<1>8. PlacesOK'
  BY <1>1, <1>5 DEF DriverInv, PlacesOK
<1>9. SessionsOK'
  BY <1>3 DEF SessionsOK, Stopped, Sane
<1>10. RetiredOK'
  BY <1>1, <1>3, <1>4, <1>5 DEF DriverInv, RetiredOK, Stopped
<1>11. OwnedOK'
  <2>1. SUFFICES ASSUME ~UpdateMayFail
                 PROVE  /\ \A t \in Turns : o'.req[t] # "live"
                        /\ \A t \in Turns : o'.req[t] # "held"
    BY DEF OwnedOK, HeldKVIsOwned
  <2>2. \A t \in Turns : o.req[t] = "held" => t \in o.sessions
    BY <1>4, <2>1 DEF DriverInv, OwnedOK, HeldKVIsOwned
  <2> QED
    BY <1>3, <2>1, <2>2 DEF Stopped
<1> QED
  BY <1>6, <1>7, <1>8, <1>9, <1>10, <1>11 DEF DriverInv

-----------------------------------------------------------------------------
(***************************************************************************)
(* The workers keep it.                                                    *)
(***************************************************************************)
\* A call that goes on, and may run its callable on the rollout.
LEMMA CallStep ==
  ASSUME DriverInv, NEW w \in Calls,
         NEW x \in {"new", "direct", "posting", "posted", "done", "timed out"},
         call' = [call EXCEPT ![w] = x], Kept(o, o'),
         pending' = pending \/ pending' = Append(pending, w),
         UNCHANGED <<handle, stopping, thread, hand, todo, admissions, waiters, memo, generation,
                     loopVars>>
  PROVE  DriverInv'
<1>1. pending' \in Seq(Calls \union Turns)
  <2>1. pending \in Seq(Calls \union Turns) /\ w \in Calls \union Turns
    BY DEF DriverInv, DriverTypeOK
  <2>2. Append(pending, w) \in Seq(Calls \union Turns)
    BY <2>1, AppendFacts
  <2> QED
    BY <2>1, <2>2
<1>2. DriverTypeOK'
  BY <1>1 DEF DriverInv, DriverTypeOK, Kept, Sane, loopVars
<1>3. Born' = Born /\ Queued' = Queued /\ Hands' = Hands /\ Mailed' = Mailed
  BY DEF Born, Queued, Hands, Mailed, loopVars
<1>4. ThreadsOK'
  BY <1>3 DEF DriverInv, ThreadsOK, loopVars
<1>5. PlacesOK'
  BY <1>3 DEF DriverInv, PlacesOK, loopVars
<1>6. SessionsOK' /\ RetiredOK' /\ OwnedOK'
  BY <1>3, TakesAway DEF loopVars
<1> QED
  BY <1>2, <1>4, <1>5, <1>6 DEF DriverInv

LEMMA WorkerStep ==
  ASSUME DriverInv, NEW w \in Calls,
         CheckThread(w) \/ CallDirectly(w) \/ Post(w) \/ CallTimesOut(w)
  PROVE  DriverInv'
<1>1. CASE CheckThread(w)
  BY <1>1, CallStep, RolloutSane, KeptSame DEF CheckThread, threadVars, queueVars
<1>2. CASE CallDirectly(w)
  BY <1>2, CallStep, RolloutSane, FinishSessionKept DEF CallDirectly, threadVars, queueVars
<1>3. CASE Post(w)
  BY <1>3, CallStep, RolloutSane, KeptSame DEF Post, threadVars
<1>4. CASE CallTimesOut(w)
  BY <1>4, CallStep, RolloutSane, KeptSame DEF CallTimesOut, threadVars, queueVars
<1> QED
  BY <1>1, <1>2, <1>3, <1>4

-----------------------------------------------------------------------------
(***************************************************************************)
(* The invariant and what follows from it.                                 *)
(***************************************************************************)
LEMMA InitEstablishes == Init => DriverInv
<1> SUFFICES ASSUME Init PROVE DriverInv
  OBVIOUS
<1>1. Queued = {} /\ Hands = {} /\ Mailed = {} /\ Born = {}
  BY DEF Init, Queued, Hands, Mailed, Born, ToSet
<1>2. DriverTypeOK
  <2>1. o \in Rollout
    BY TurnsAssumption DEF Init, NoRollout, Rollout
  <2>2. memo \in [Turns -> [active : SUBSET Turns, free : -1..MaxFree, generation : -1..generation]]
    BY TurnsAssumption DEF Init, NoMemo
  <2>3. stops \in 0..MaxStops /\ todo \in 0..Len(admissions)
    BY DriverAssumption DEF Init
  <2>4. loop \in {<<"free", "idle">>} \union ({"retry", "blocked", "resubmit"} \X Turns)
                   \union ({"join", "own"} \X Operations)
    BY DEF Init
  <2>5. /\ admissions \in Seq(Turns) /\ pending \in Seq(Calls \union Turns)
        /\ mail \in Seq(Turns \X {"result", "pool", "error"})
    BY DEF Init
  <2>6. /\ handle \in {0} \union Threads /\ stopping \in BOOLEAN
        /\ thread \in [Threads -> {"unborn"}] /\ hand \in [Threads -> SUBSET Turns]
        /\ generation \in Nat /\ future \in [Turns -> {"new"}] /\ call \in [Calls -> {"new"}]
        /\ waiters \subseteq Turns /\ retried \subseteq Turns
    BY DEF Init
  <2> QED
    BY <2>1, <2>2, <2>3, <2>4, <2>5, <2>6 DEF DriverTypeOK
<1>3. ThreadsOK
  <2>1. 0 \in 0..MaxStops + 1 /\ Born = 1..0 /\ 0 <= stops + 0
    BY <1>1, DriverAssumption DEF Init
  <2> QED
    BY <1>1, <2>1 DEF Init, ThreadsOK
<1>4. PlacesOK
  <2>1. DOMAIN << >> = {}
    OBVIOUS
  <2> QED
    BY <1>1, <2>1 DEF Init, PlacesOK, IsInjective, Unambiguous
<1>5. SessionsOK
  BY DEF Init, SessionsOK, NoRollout
<1>6. RetiredOK
  BY <1>1 DEF Init, RetiredOK, NoRollout, ToSet
<1>7. OwnedOK
  BY DEF Init, OwnedOK, HeldKVIsOwned, NoRollout
<1> QED
  BY <1>2, <1>3, <1>4, <1>5, <1>6, <1>7 DEF DriverInv

LEMMA StutterKeeps == DriverInv /\ UNCHANGED vars => DriverInv'
<1> SUFFICES ASSUME DriverInv, UNCHANGED vars PROVE DriverInv'
  OBVIOUS
<1>1. UNCHANGED <<handle, stopping, thread, hand, todo, pending, admissions, waiters, memo,
                  generation, future, mail, retried, loop, stops, call, o>>
  BY DEF vars
<1>2. DriverTypeOK'
  BY <1>1 DEF DriverInv, DriverTypeOK
<1>3. ThreadsOK'
  BY <1>1 DEF DriverInv, ThreadsOK, Born
<1>4. PlacesOK' /\ SessionsOK' /\ OwnedOK'
  BY <1>1, SameElsewhere
<1>5. RetiredOK'
  BY <1>1 DEF DriverInv, RetiredOK, Hands
<1> QED
  BY <1>2, <1>3, <1>4, <1>5 DEF DriverInv

LEMMA NextKeeps == DriverInv /\ [Next]_vars => DriverInv'
<1> SUFFICES ASSUME DriverInv, [Next]_vars PROVE DriverInv'
  OBVIOUS
<1>1. ASSUME NEW g \in Threads,
             \/ CheckStop(g) \/ RunPending(g) \/ Drained(g) \/ ConsiderTurn(g) \/ AdmissionsDone(g)
             \/ WakeUp(g) \/ Step(g) \/ StepRaises(g) \/ Harvest(g) \/ HarvestRaises(g)
             \/ Answer(g) \/ TakeAll(g) \/ FailOne(g)
      PROVE  DriverInv'
  BY <1>1, CheckStopStep, RunPendingStep, DrainedStep, ConsiderTurnStep, AdmissionsDoneStep,
     WakeUpStep, StepStep, StepRaisesStep, HarvestStep, HarvestRaisesStep,
     AnswerStep, TakeAllStep, FailOneStep
<1>2. CASE DriverStep
  BY <1>1, <1>2 DEF DriverStep
<1>3. CASE LoopStep
  BY <1>3, DeliverStep, RetryStep, ResubmitStep, JoinedStep, OperateStep DEF LoopStep
<1>4. CASE RetryTimesOut
  BY <1>4, RetryTimesOutStep
<1>5. CASE JoinTimesOut
  BY <1>5, JoinTimesOutStep
<1>6. CASE \E t \in Turns : RunTurn(t) \/ Cancel(t)
  BY <1>6, RunTurnStep, CancelStep
<1>7. CASE \E op \in Operations : Stop(op)
  BY <1>7, StopStep
<1>8. CASE \E w \in Calls : CheckThread(w) \/ CallDirectly(w) \/ Post(w) \/ CallTimesOut(w)
  BY <1>8, WorkerStep
<1>9. CASE UNCHANGED vars
  BY <1>9, StutterKeeps
<1> QED
  BY <1>2, <1>3, <1>4, <1>5, <1>6, <1>7, <1>8, <1>9 DEF Next

\* Between any two steps of the driver threads, the event loop and the workers
\* everything DriverInv says of threads, queues, futures, sessions and requests
\* holds, whichever of them fails, times out or is cancelled on the way.
THEOREM DriverInvariant == Spec => []DriverInv
<1>1. Init => DriverInv
  BY InitEstablishes
<1>2. DriverInv /\ [Next]_vars => DriverInv'
  BY NextKeeps
<1> QED
  BY <1>1, <1>2, PTL DEF Spec

\* At most one driver thread is at work, and none while the event loop sleeps,
\* updates weights or aborts: not after a join that timed out, because the
\* handle is kept, and not after a restart, because start() then does nothing.
THEOREM OperationsAreExclusive == Spec => []OperationsExclusive
<1>1. ASSUME DriverInv PROVE OperationsExclusive
  <2>1. Busy \subseteq {handle} /\ (Busy # {} => loop[1] # "own")
    BY <1>1, OneThread DEF Busy
  <2>2. CASE Busy = {}
    BY <2>2, FS_EmptySet DEF OperationsExclusive
  <2>3. CASE Busy = {handle}
    <3>1. Cardinality(Busy) = 1
      BY <2>3, FS_Singleton
    <3> QED
      BY <2>1, <2>3, <3>1 DEF OperationsExclusive
  <2> QED
    BY <2>1, <2>2, <2>3
<1> QED
  BY <1>1, DriverInvariant, PTL

\* A turn that somebody waits for is in exactly one of _admissions, _waiters, a
\* driver thread's local list and the callbacks to the event loop, and there
\* once: no stop, failure, deferral, cancellation or retry loses it or has it
\* answered twice.
THEOREM TurnsAreTracked == Spec => []TurnsTracked
<1>1. ASSUME DriverInv PROVE TurnsTracked
  <2>1. SUFFICES ASSUME NEW t \in Turns, future[t] = "pending"
                 PROVE  Places(t) = 1
    BY DEF TurnsTracked
  <2> DEFINE A == {i \in DOMAIN admissions : admissions[i] = t}
             H == {g \in Threads : t \in hand[g]}
             M == {i \in DOMAIN mail : mail[i][1] = t}
             w == IF t \in waiters THEN 1 ELSE 0
  <2>2. Cardinality(A) = IF t \in Queued THEN 1 ELSE 0
    <3>1. CASE t \in Queued
      <4>1. PICK i \in DOMAIN admissions : admissions[i] = t
        BY <3>1 DEF Queued, ToSet
      <4>2. A = {i}
        BY <1>1, <4>1 DEF DriverInv, PlacesOK, IsInjective
      <4> QED
        BY <3>1, <4>2, FS_Singleton
    <3>2. CASE t \notin Queued
      <4>1. A = {}
        BY <3>2 DEF Queued, ToSet
      <4> QED
        BY <3>2, <4>1, FS_EmptySet
    <3> QED
      BY <3>1, <3>2
  <2>3. Cardinality(H) = IF t \in Hands THEN 1 ELSE 0
    <3>1. CASE t \in Hands
      <4>1. PICK g \in Threads : t \in hand[g]
        BY <3>1 DEF Hands
      <4>2. thread[g] \in {"done", "pool", "error"}
        BY <1>1, <4>1 DEF DriverInv, ThreadsOK
      <4>3. \A h \in Threads : h # g => hand[h] = {}
        BY <1>1, <4>2, HandsOfOne
      <4>4. H = {g}
        BY <4>1, <4>3
      <4> QED
        BY <3>1, <4>4, FS_Singleton
    <3>2. CASE t \notin Hands
      <4>1. H = {}
        BY <3>2 DEF Hands
      <4> QED
        BY <3>2, <4>1, FS_EmptySet
    <3> QED
      BY <3>1, <3>2
  <2>4. Cardinality(M) = IF t \in Mailed THEN 1 ELSE 0
    <3>1. CASE t \in Mailed
      <4>1. PICK i \in DOMAIN mail : mail[i][1] = t
        BY <3>1 DEF Mailed, ToSet
      <4>2. M = {i}
        BY <1>1, <4>1 DEF DriverInv, PlacesOK, Unambiguous
      <4> QED
        BY <3>1, <4>2, FS_Singleton
    <3>2. CASE t \notin Mailed
      <4>1. M = {}
        BY <3>2 DEF Mailed, ToSet
      <4> QED
        BY <3>2, <4>1, FS_EmptySet
    <3> QED
      BY <3>1, <3>2
  <2>5. Places(t) = Cardinality(A) + w + Cardinality(H) + Cardinality(M)
    BY DEF Places
  <2> HIDE DEF A, H, M
  <2>6. t \in Queued \union waiters \union Hands \union Mailed
    BY <1>1, <2>1 DEF DriverInv, PlacesOK
  <2> QED
    BY <1>1, <2>2, <2>3, <2>4, <2>5, <2>6 DEF DriverInv, PlacesOK
<1> QED
  BY <1>1, DriverInvariant, PTL

\* A turn has its result only once it is retired: out of the ledger and not
\* running, so that its continuation finds it parked or not at all.
THEOREM ResultsAreAllRetired == Spec => []ResultsAreRetired
<1>1. DriverInv => ResultsAreRetired
  BY DEF DriverInv, RetiredOK, ResultsAreRetired
<1> QED
  BY <1>1, DriverInvariant, PTL

\* KV of a stopped request belongs to a parked session or to a turn on its way
\* there, whatever a step, a harvest, a callback or an admission raises, as
\* long as no weight copy does: one that raises in apply_named_weights leaves
\* live requests nobody waits for.
THEOREM HeldKVIsAllOwned == ~UpdateMayFail => (Spec => []HeldKVIsOwned)
<1> SUFFICES ASSUME ~UpdateMayFail PROVE Spec => []HeldKVIsOwned
  OBVIOUS
<1>1. DriverInv => HeldKVIsOwned
  BY DEF DriverInv, OwnedOK
<1> QED
  BY <1>1, DriverInvariant, PTL
=============================================================================
