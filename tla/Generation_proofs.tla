-------------------------- MODULE Generation_proofs --------------------------
(****************************************************************************)
(* What an answer rests on, for every retrieval, every likeness of texts and *)
(* every budget: the context is exact, and the answer is grounded in it.    *)
(*                                                                          *)
(* AnswerIsGrounded is about the calls of the provider (IInv); what the     *)
(* context assembly returns is not looked into.  ContextIsExact is about    *)
(* nothing else: by induction along the results, Unique keeps the first of  *)
(* its like; by the invariant of the binary search, Truncation keeps as much *)
(* as the budget allows.                                                    *)
(****************************************************************************)
EXTENDS Generation, SequenceTheorems, WellFoundedInduction, TLAPS

(* Calls are made only with a context, and fewer than the limit before the  *)
(* next one; the calls that ended sent at most MaxAttempts requests each,   *)
(* and the present one those that its attempts say.                        *)
IInv ==
  /\ calls \in Nat /\ requests \in Nat /\ attempt \in Nat
  /\ pc \in {"route", "retrieve", "generate", "backoff", "done"}
  /\ pc \in {"route", "retrieve"} =>
       calls = 0 /\ requests = 0 /\ attempt = 0 /\ outcome = "none"
  /\ pc \in {"generate", "backoff"} =>
       /\ calls <= MaxRepairAttempts /\ attempt < MaxAttempts
       /\ Assemble(results) # <<>>
       /\ outcome = "none"
  /\ pc = "generate" => requests <= calls * MaxAttempts + attempt
  /\ pc = "backoff" =>
       attempt + 1 < MaxAttempts /\ requests <= calls * MaxAttempts + attempt + 1
  /\ AnswerIsGrounded

(* Another call has room for all its attempts below the product.            *)
LEMMA Product ==
  ASSUME NEW n \in Nat, NEW m \in Nat, NEW k \in Nat, n <= m
  PROVE  /\ n * k \in Nat /\ (m + 1) * k \in Nat
         /\ (n + 1) * k = n * k + k
         /\ n * k + k <= (m + 1) * k
<1>1. PICK d \in Nat : m = n + d
  <2>1. m - n \in Nat /\ m = n + (m - n)
    OBVIOUS
  <2> QED
    BY <2>1
<1>2. (n + 1) * k = n * k + k /\ (m + 1) * k = n * k + d * k + k
  BY <1>1
<1>3. n * k \in Nat /\ d * k \in Nat
  OBVIOUS
<1>4. (m + 1) * k \in Nat
  BY <1>2, <1>3
<1> QED
  BY <1>2, <1>3, <1>4

(* A request of a call, whatever becomes of it, stays below the product.    *)
LEMMA OneMore ==
  ASSUME IInv, pc = "generate"
  PROVE  /\ requests + 1 <= calls * MaxAttempts + attempt + 1
         /\ requests + 1 <= (calls + 1) * MaxAttempts
         /\ requests + 1 <= (MaxRepairAttempts + 1) * MaxAttempts
<1>1. /\ calls * MaxAttempts \in Nat /\ (MaxRepairAttempts + 1) * MaxAttempts \in Nat
      /\ (calls + 1) * MaxAttempts = calls * MaxAttempts + MaxAttempts
      /\ calls * MaxAttempts + MaxAttempts <= (MaxRepairAttempts + 1) * MaxAttempts
  BY Product, BudgetAssumption DEF IInv
<1> DEFINE x == calls * MaxAttempts
           y == (MaxRepairAttempts + 1) * MaxAttempts
<1>2. /\ requests <= x + attempt /\ attempt < MaxAttempts
      /\ requests \in Nat /\ attempt \in Nat /\ x \in Nat /\ y \in Nat
      /\ x + MaxAttempts <= y
  BY <1>1 DEF IInv
<1> HIDE DEF x, y
<1>3. requests + 1 <= x + attempt + 1 /\ requests + 1 <= x + MaxAttempts /\ requests + 1 <= y
  BY <1>2, BudgetAssumption
<1> QED
  BY <1>1, <1>3 DEF x, y

LEMMA InitIInv == Init => IInv
<1>1. 0 <= (MaxRepairAttempts + 1) * MaxAttempts
  BY Product, BudgetAssumption
<1> QED
  BY <1>1, BudgetAssumption DEF Init, IInv, AnswerIsGrounded

LEMMA NextIInv == IInv /\ [Next]_vars => IInv'
<1> SUFFICES ASSUME IInv, [Next]_vars PROVE IInv'
  OBVIOUS
<1>0. 0 <= (MaxRepairAttempts + 1) * MaxAttempts
  BY Product, BudgetAssumption
<1> USE BudgetAssumption DEF IInv, AnswerIsGrounded, End
<1>1. CASE Route
  BY <1>0, <1>1 DEF Route
<1>2. CASE Retrieve
  <2>1. calls' * MaxAttempts + attempt' = 0
    BY <1>2 DEF Retrieve
  <2> QED
    BY <1>0, <1>2, <2>1 DEF Retrieve
<1>3. CASE RetrieveFails
  BY <1>0, <1>3 DEF RetrieveFails
<1>4. CASE Generate
  <2>1. PICK r \in Replies :
          /\ reply' = r
          /\ IF Valid(r) THEN End("answered")
             ELSE IF calls >= MaxRepairAttempts THEN End("failed")
             ELSE UNCHANGED <<pc, outcome>>
    BY <1>4 DEF Generate
  <2>2. /\ pc = "generate" /\ calls' = calls + 1 /\ results' = results
        /\ attempt' = 0 /\ requests' = requests + 1
    BY <1>4 DEF Generate
  <2>3. Valid(r) =>
          /\ r.cites \subseteq Ids(Assemble(results))
          /\ r.insufficient <=> r.refuses
          /\ RequireCitations => (r.refuses <=> r.cites = {})
    BY DEF Valid, Replies
  <2>4. /\ requests' <= (MaxRepairAttempts + 1) * MaxAttempts
        /\ requests' <= calls' * MaxAttempts + attempt'
    <3>1. (calls + 1) * MaxAttempts + 0 = (calls + 1) * MaxAttempts
      BY Product
    <3> QED
      BY <2>2, <3>1, OneMore
  <2>5. CASE Valid(r)
    BY <2>1, <2>2, <2>3, <2>4, <2>5
  <2>6. CASE ~Valid(r) /\ calls >= MaxRepairAttempts
    BY <2>1, <2>2, <2>4, <2>6
  <2>7. CASE ~Valid(r) /\ ~(calls >= MaxRepairAttempts)
    BY <2>1, <2>2, <2>4, <2>7
  <2> QED
    BY <2>5, <2>6, <2>7
<1>5. CASE GenerateFails
  BY <1>5, OneMore DEF GenerateFails
<1>6. CASE Retry
  BY <1>6, OneMore DEF Retry
<1>7. CASE BackoffEnds
  <2>1. requests <= calls * MaxAttempts + attempt + 1 /\ calls * MaxAttempts \in Nat
    BY <1>7, Product DEF BackoffEnds
  <2>2. calls * MaxAttempts + attempt + 1 = calls * MaxAttempts + (attempt + 1)
    BY <2>1
  <2> QED
    BY <1>7, <2>1, <2>2 DEF BackoffEnds
<1>8. CASE Cancel
  BY <1>8 DEF Cancel
<1>9. CASE UNCHANGED vars
  BY <1>9 DEF vars
<1> QED
  BY <1>1, <1>2, <1>3, <1>4, <1>5, <1>6, <1>7, <1>8, <1>9 DEF Next

(* Whatever the provider replies, an answer cites only what its prompt      *)
(* showed, either cites or refuses, and comes from a bounded number of      *)
(* calls and of requests (generation/engine.py and providers.py, generate). *)
THEOREM Grounded == Spec => []AnswerIsGrounded
<1>1. IInv => AnswerIsGrounded
  BY DEF IInv
<1> QED
  BY <1>1, InitIInv, NextIInv, PTL DEF Spec

------------------------------------------------------------------------------
(* Recursion along the numbers up to n.                                     *)

(* Induction up to n, for a set in place of a predicate.                    *)
LEMMA Induction ==
  ASSUME NEW n \in Nat, NEW S, 0 \in S,
         \A k \in 0..n : k # 0 /\ k - 1 \in S => k \in S
  PROVE  \A k \in 0..n : k \in S
<1> SUFFICES ASSUME \E k \in 0..n : k \notin S PROVE FALSE
  OBVIOUS
<1> DEFINE Bad == {k \in 0..n : k \notin S}
<1>1. Bad \subseteq Nat /\ Bad # {}
  OBVIOUS
<1> HIDE DEF Bad
<1>2. PICK k \in Bad : \A i \in Bad : ~(<<i, k>> \in OpToRel(<, Nat))
  BY <1>1, NatLessThanWellFounded, WFMin
<1>3. k \in 0..n /\ k \notin S /\ k # 0
  BY <1>2 DEF Bad
<1>4. k - 1 \in 0..n /\ k - 1 \notin S
  BY <1>3
<1>5. k - 1 \in Bad
  BY <1>4 DEF Bad
<1>6. <<k - 1, k>> \in OpToRel(<, Nat)
  BY <1>3 DEF OpToRel
<1> QED
  BY <1>2, <1>5, <1>6

(* A recursion along 0..n over values of S has a value at every place, and  *)
(* only one.                                                               *)
Recursion(g, n, start, step) ==
  \A i \in 0..n : g[i] = IF i = 0 THEN start ELSE step[i][g[i - 1]]

LEMMA RecursionExists ==
  ASSUME NEW n \in Nat, NEW S, NEW start \in S, NEW step \in [1..n -> [S -> S]]
  PROVE  \E g \in [0..n -> S] : Recursion(g, n, start, step)
<1> DEFINE Good == {k \in 0..n : \E g \in [0..k -> S] : Recursion(g, k, start, step)}
<1>1. 0 \in Good
  <2> DEFINE g == [i \in 0..0 |-> start]
  <2>1. g \in [0..0 -> S] /\ Recursion(g, 0, start, step)
    BY DEF Recursion
  <2> QED
    BY <2>1
<1>2. ASSUME NEW k \in 0..n, k # 0, k - 1 \in Good
      PROVE  k \in Good
  <2>1. PICK g \in [0..(k - 1) -> S] : Recursion(g, k - 1, start, step)
    BY <1>2
  <2> DEFINE h == [i \in 0..k |-> IF i = k THEN step[k][g[k - 1]] ELSE g[i]]
  <2>2. k \in 1..n /\ k - 1 \in 0..(k - 1)
    BY <1>2
  <2>3. step[k][g[k - 1]] \in S
    BY <2>1, <2>2
  <2>4. h \in [0..k -> S]
    BY <2>1, <2>2, <2>3
  <2>5. ASSUME NEW i \in 0..k
        PROVE  h[i] = IF i = 0 THEN start ELSE step[i][h[i - 1]]
    <3>1. CASE i = k
      <4>1. h[i] = step[k][g[k - 1]] /\ h[i - 1] = g[k - 1] /\ i # 0
        BY <2>2, <3>1
      <4> QED
        BY <3>1, <4>1
    <3>2. CASE i # k
      <4>1. i \in 0..(k - 1) /\ h[i] = g[i] /\ (i # 0 => h[i - 1] = g[i - 1])
        BY <2>2, <3>2
      <4> QED
        BY <2>1, <4>1 DEF Recursion
    <3> QED
      BY <3>1, <3>2
  <2>6. Recursion(h, k, start, step)
    BY <2>5 DEF Recursion
  <2> QED
    BY <1>2, <2>4, <2>6
<1> HIDE DEF Good
<1>3. \A k \in 0..n : k \in Good
  BY <1>1, <1>2, Induction
<1>4. n \in 0..n
  OBVIOUS
<1> QED
  BY <1>3, <1>4 DEF Good

LEMMA RecursionAgrees ==
  ASSUME NEW n \in Nat, NEW start, NEW step, NEW g, NEW h,
         Recursion(g, n, start, step), Recursion(h, n, start, step)
  PROVE  \A i \in 0..n : g[i] = h[i]
<1> DEFINE Good == {i \in 0..n : g[i] = h[i]}
<1>1. 0 \in Good
  BY DEF Recursion
<1>2. ASSUME NEW k \in 0..n, k # 0, k - 1 \in Good PROVE k \in Good
  BY <1>2 DEF Recursion
<1> HIDE DEF Good
<1>3. \A i \in 0..n : i \in Good
  BY <1>1, <1>2, Induction
<1> QED
  BY <1>3 DEF Good

(* A list with one more item.                                              *)
LEMMA AppendIs ==
  ASSUME NEW T, NEW s \in Seq(T), NEW e \in T
  PROVE  /\ Append(s, e) \in Seq(T) /\ Len(Append(s, e)) = Len(s) + 1
         /\ Len(s) \in Nat /\ DOMAIN s = 1..Len(s)
         /\ DOMAIN Append(s, e) = 1..(Len(s) + 1)
         /\ \A i \in 1..Len(s) : Append(s, e)[i] = s[i]
         /\ Append(s, e)[Len(s) + 1] = e
         /\ ToSet(Append(s, e)) = ToSet(s) \cup {e}
<1>1. /\ Append(s, e) \in Seq(T) /\ Len(Append(s, e)) = Len(s) + 1
      /\ Len(s) \in Nat /\ DOMAIN s = 1..Len(s)
      /\ DOMAIN Append(s, e) = 1..(Len(s) + 1)
      /\ \A i \in 1..Len(s) : Append(s, e)[i] = s[i]
      /\ Append(s, e)[Len(s) + 1] = e
  BY AppendProperties, LenProperties
<1> DEFINE a == Append(s, e)
<1>2. ToSet(a) = {a[i] : i \in 1..(Len(s) + 1)} /\ ToSet(s) = {s[i] : i \in 1..Len(s)}
  BY <1>1 DEF ToSet
<1>3. \A i : i \in 1..(Len(s) + 1) <=> i \in 1..Len(s) \/ i = Len(s) + 1
  BY <1>1
<1> HIDE DEF a
<1>4. ToSet(a) = ToSet(s) \cup {e}
  BY <1>1, <1>2, <1>3 DEF a
<1> QED
  BY <1>1, <1>4 DEF a

------------------------------------------------------------------------------
(* Unique.                                                                  *)

(* Unique, by places: a result that is kept comes from a place of its own,  *)
(* in order; two that are kept are not alike; one that is not is like one   *)
(* kept before it.                                                         *)
Kept(kept, place, rs, m) ==
  /\ kept \in Seq(Result) /\ place \in [1..Len(kept) -> 1..m]
  /\ \A i \in 1..Len(kept) : kept[i] = rs[place[i]]
  /\ \A i, j \in 1..Len(kept) : i < j =>
       place[i] < place[j] /\ ~NearDuplicate(kept[i], kept[j])
  /\ \A n \in 1..m : \/ \E i \in 1..Len(kept) : place[i] = n
                     \/ \E i \in 1..Len(kept) : place[i] < n /\ NearDuplicate(rs[n], kept[i])

(* One result more.                                                         *)
LEMMA KeepIs ==
  ASSUME NEW rs \in Seq(Result), NEW m \in 1..Len(rs), NEW kept, NEW place,
         Kept(kept, place, rs, m - 1)
  PROVE  \E q : Kept(Keep(kept, rs[m]), q, rs, m)
<1>0. /\ Len(rs) \in Nat /\ m \in Nat /\ rs[m] \in Result
      /\ kept \in Seq(Result) /\ Len(kept) \in Nat /\ DOMAIN kept = 1..Len(kept)
      /\ ToSet(kept) = {kept[i] : i \in 1..Len(kept)}
      /\ place \in [1..Len(kept) -> 1..(m - 1)]
      /\ \A i \in 1..Len(kept) : kept[i] = rs[place[i]]
      /\ \A i, j \in 1..Len(kept) : i < j =>
           place[i] < place[j] /\ ~NearDuplicate(kept[i], kept[j])
      /\ \A n \in 1..(m - 1) :
           \/ \E i \in 1..Len(kept) : place[i] = n
           \/ \E i \in 1..Len(kept) : place[i] < n /\ NearDuplicate(rs[n], kept[i])
  <2>1. /\ Len(rs) \in Nat /\ m \in Nat /\ rs[m] \in Result
        /\ kept \in Seq(Result) /\ Len(kept) \in Nat /\ DOMAIN kept = 1..Len(kept)
    BY LenProperties, ElementOfSeq DEF Kept
  <2>2. ToSet(kept) = {kept[i] : i \in DOMAIN kept}
    BY DEF ToSet
  <2>3. ToSet(kept) = {kept[i] : i \in 1..Len(kept)}
    BY <2>1, <2>2
  <2> QED
    BY <2>1, <2>3 DEF Kept
<1>1. CASE \E k \in ToSet(kept) : NearDuplicate(rs[m], k)
  <2>1. Keep(kept, rs[m]) = kept
    BY <1>1 DEF Keep
  <2>2. PICK i \in 1..Len(kept) : NearDuplicate(rs[m], kept[i])
    BY <1>0, <1>1
  <2>3. place[i] < m
    BY <1>0
  <2>4. place \in [1..Len(kept) -> 1..m]
    BY <1>0
  <2>5. \A n \in 1..m : \/ \E j \in 1..Len(kept) : place[j] = n
                        \/ \E j \in 1..Len(kept) :
                             place[j] < n /\ NearDuplicate(rs[n], kept[j])
    <3> TAKE n \in 1..m
    <3>1. n \in 1..(m - 1) \/ n = m
      BY <1>0
    <3> QED
      BY <1>0, <2>2, <2>3, <3>1
  <2>6. Kept(kept, place, rs, m)
    BY <1>0, <2>4, <2>5 DEF Kept
  <2> QED
    BY <2>1, <2>6
<1>2. CASE ~ \E k \in ToSet(kept) : NearDuplicate(rs[m], k)
  <2> DEFINE l == Len(kept)
             new == Append(kept, rs[m])
             q == [i \in 1..(l + 1) |-> IF i = l + 1 THEN m ELSE place[i]]
  <2>1. Keep(kept, rs[m]) = new
    BY <1>2 DEF Keep
  <2>2. /\ new \in Seq(Result) /\ Len(new) = l + 1
        /\ \A i \in 1..l : new[i] = kept[i]
        /\ new[l + 1] = rs[m]
    BY <1>0, AppendIs
  <2>3. /\ l \in Nat /\ q \in [1..(l + 1) -> 1..m]
        /\ \A i \in 1..l : q[i] = place[i]
        /\ q[l + 1] = m
    BY <1>0
  <2> HIDE DEF new, q
  <2>4. \A i \in 1..(l + 1) : i = l + 1 \/ i \in 1..l
    BY <2>3
  <2>5. \A i \in 1..(l + 1) : new[i] = rs[q[i]]
    BY <1>0, <2>2, <2>3, <2>4
  <2>6. ASSUME NEW i \in 1..(l + 1), NEW j \in 1..(l + 1), i < j
        PROVE  q[i] < q[j] /\ ~NearDuplicate(new[i], new[j])
    <3>1. i \in 1..l
      BY <2>3, <2>6
    <3>2. CASE j = l + 1
      <4>1. kept[i] \in ToSet(kept)
        BY <1>0, <3>1
      <4>2. ~NearDuplicate(rs[m], kept[i])
        BY <1>2, <4>1
      <4>3. ~NearDuplicate(kept[i], rs[m])
        BY <4>2 DEF NearDuplicate
      <4>4. q[i] < m
        <5>1. q[i] = place[i] /\ place[i] \in 1..(m - 1)
          BY <1>0, <2>3, <3>1
        <5> QED
          BY <1>0, <5>1
      <4> QED
        BY <2>2, <2>3, <3>1, <3>2, <4>3, <4>4
    <3>3. CASE j \in 1..l
      BY <1>0, <2>2, <2>3, <2>6, <3>1, <3>3
    <3> QED
      BY <2>4, <3>2, <3>3
  <2>7. ASSUME NEW n \in 1..m
        PROVE  \/ \E i \in 1..(l + 1) : q[i] = n
               \/ \E i \in 1..(l + 1) : q[i] < n /\ NearDuplicate(rs[n], new[i])
    <3>0. \A i \in 1..l : i \in 1..(l + 1)
      BY <2>3
    <3>1. CASE n = m
      <4>1. l + 1 \in 1..(l + 1)
        BY <2>3
      <4> QED
        BY <2>3, <3>1, <4>1
    <3>2. CASE n # m
      <4>1. n \in 1..(m - 1)
        BY <1>0, <3>2
      <4>2. CASE \E i \in 1..l : place[i] = n
        BY <2>3, <3>0, <4>2
      <4>3. CASE \E i \in 1..l : place[i] < n /\ NearDuplicate(rs[n], kept[i])
        BY <2>2, <2>3, <3>0, <4>3
      <4> QED
        BY <1>0, <4>1, <4>2, <4>3
    <3> QED
      BY <3>1, <3>2
  <2>8. Kept(new, q, rs, m)
    BY <2>2, <2>3, <2>5, <2>6, <2>7 DEF Kept
  <2> QED
    BY <2>1, <2>8
<1> QED
  BY <1>1, <1>2

(* What Unique returns, for every list of results.                          *)
LEMMA UniqueIs ==
  ASSUME NEW rs \in Seq(Result)
  PROVE  \E place : Kept(Unique(rs), place, rs, Len(rs))
<1> DEFINE N == Len(rs)
           Eq(f) == f = [n \in 0..N |-> IF n = 0 THEN <<>> ELSE Keep(f[n - 1], rs[n])]
           kept == CHOOSE f : Eq(f)
           step == [n \in 1..N |-> [s \in Seq(Result) |-> Keep(s, rs[n])]]
<1>1. N \in Nat /\ \A n \in 1..N : rs[n] \in Result
  BY LenProperties, ElementOfSeq
<1>2. Unique(rs) = kept[N]
  BY Zenon DEF Unique
<1>3. \E f : Eq(f)
  <2>1. ASSUME NEW n \in 1..N, NEW s \in Seq(Result) PROVE Keep(s, rs[n]) \in Seq(Result)
    BY <1>1, AppendIs DEF Keep
  <2>2. step \in [1..N -> [Seq(Result) -> Seq(Result)]]
    BY <2>1
  <2>3. \A n \in 1..N : \A s \in Seq(Result) : step[n][s] = Keep(s, rs[n])
    OBVIOUS
  <2> HIDE DEF step
  <2>4. <<>> \in Seq(Result)
    BY EmptySeq
  <2>5. PICK g \in [0..N -> Seq(Result)] : Recursion(g, N, <<>>, step)
    BY <1>1, <2>2, <2>4, RecursionExists
  <2>6. ASSUME NEW n \in 0..N PROVE g[n] = IF n = 0 THEN <<>> ELSE Keep(g[n - 1], rs[n])
    <3>1. CASE n = 0
      BY <2>5, <3>1 DEF Recursion
    <3>2. CASE n # 0
      <4>1. n \in 1..N /\ n - 1 \in 0..N
        BY <1>1, <3>2
      <4>2. g[n] = step[n][g[n - 1]] /\ g[n - 1] \in Seq(Result)
        BY <2>5, <3>2, <4>1 DEF Recursion
      <4> QED
        BY <2>3, <3>2, <4>1, <4>2
    <3> QED
      BY <3>1, <3>2
  <2>7. Eq(g)
    BY <2>5, <2>6
  <2> QED
    BY <2>7
<1>4. Eq(kept)
  BY <1>3
<1>5. \A n \in 0..N : kept[n] = IF n = 0 THEN <<>> ELSE Keep(kept[n - 1], rs[n])
  BY <1>4
<1> HIDE DEF kept, step
<1> DEFINE Good == {n \in 0..N : \E place : Kept(kept[n], place, rs, n)}
<1>6. 0 \in Good
  <2>1. kept[0] = <<>> /\ Len(<<>>) = 0 /\ <<>> \in Seq(Result) /\ 1..0 = {}
    BY <1>1, <1>5, EmptySeq
  <2>2. <<>> \in [1..0 -> 1..0]
    BY <2>1
  <2>3. Kept(kept[0], <<>>, rs, 0)
    BY <2>1, <2>2 DEF Kept
  <2> QED
    BY <1>1, <2>3
<1>7. ASSUME NEW n \in 0..N, n # 0, n - 1 \in Good PROVE n \in Good
  <2>1. PICK place : Kept(kept[n - 1], place, rs, n - 1)
    BY <1>7
  <2>2. n \in 1..Len(rs) /\ kept[n] = Keep(kept[n - 1], rs[n])
    BY <1>1, <1>5, <1>7
  <2>3. \E q : Kept(Keep(kept[n - 1], rs[n]), q, rs, n)
    BY <2>1, <2>2, KeepIs
  <2> QED
    BY <2>2, <2>3
<1> HIDE DEF Good
<1>8. \A n \in 0..N : n \in Good
  BY <1>1, <1>6, <1>7, Induction
<1>9. N \in 0..N
  BY <1>1
<1>10. N \in Good
  BY <1>8, <1>9
<1> QED
  BY <1>2, <1>10 DEF Good

------------------------------------------------------------------------------
(* RenderedTokens.                                                          *)

(* What a block adds to the tokens of those before it.                      *)
Adds(b, first) == b.tokens + b.overhead + (IF first THEN 0 ELSE 1)

(* g has the tokens of the first n blocks, for every n.                     *)
SumOf(g, blocks) ==
  /\ g \in [0..Len(blocks) -> Nat]
  /\ \A n \in 0..Len(blocks) :
       g[n] = IF n = 0 THEN 0 ELSE g[n - 1] + Adds(blocks[n], n = 1)

(* RenderedTokens is such a sum.                                            *)
LEMMA TokensAre ==
  ASSUME NEW blocks \in Seq(Result)
  PROVE  \E g : SumOf(g, blocks) /\ RenderedTokens(blocks) = g[Len(blocks)]
<1> DEFINE N == Len(blocks)
           Eq(f) == f = [n \in 0..N |->
                           IF n = 0 THEN 0
                           ELSE f[n - 1] + blocks[n].tokens + blocks[n].overhead
                                + (IF n = 1 THEN 0 ELSE 1)]
           sum == CHOOSE f : Eq(f)
           step == [n \in 1..N |-> [s \in Nat |-> s + Adds(blocks[n], n = 1)]]
<1>1. /\ N \in Nat
      /\ \A n \in 1..N : blocks[n].tokens \in Nat /\ blocks[n].overhead \in Nat
  <2>1. N \in Nat /\ \A n \in 1..N : blocks[n] \in Result
    BY LenProperties, ElementOfSeq
  <2>2. \A b \in Result : b.tokens \in Nat /\ b.overhead \in Nat
    BY DEF Result
  <2> QED
    BY <2>1, <2>2
<1>2. RenderedTokens(blocks) = sum[N]
  BY Zenon DEF RenderedTokens
<1>3. \A n \in 1..N : \A s \in Nat :
        /\ s + Adds(blocks[n], n = 1) \in Nat
        /\ s + Adds(blocks[n], n = 1)
             = s + blocks[n].tokens + blocks[n].overhead + (IF n = 1 THEN 0 ELSE 1)
  BY <1>1 DEF Adds
<1>4. PICK g \in [0..N -> Nat] : Recursion(g, N, 0, step)
  <2>1. step \in [1..N -> [Nat -> Nat]]
    BY <1>3
  <2> HIDE DEF step
  <2> QED
    BY <1>1, <2>1, RecursionExists
<1>5. ASSUME NEW n \in 0..N
      PROVE  /\ g[n] = IF n = 0 THEN 0 ELSE g[n - 1] + Adds(blocks[n], n = 1)
             /\ g[n] = IF n = 0 THEN 0
                       ELSE g[n - 1] + blocks[n].tokens + blocks[n].overhead
                            + (IF n = 1 THEN 0 ELSE 1)
  <2>1. CASE n = 0
    BY <1>4, <2>1 DEF Recursion
  <2>2. CASE n # 0
    <3>1. n \in 1..N /\ n - 1 \in 0..N
      BY <1>1, <2>2
    <3>2. g[n - 1] \in Nat /\ g[n] = step[n][g[n - 1]]
      BY <1>4, <2>2, <3>1 DEF Recursion
    <3>3. g[n] = g[n - 1] + Adds(blocks[n], n = 1)
      BY <3>1, <3>2
    <3> QED
      BY <1>3, <2>2, <3>1, <3>2, <3>3
  <2> QED
    BY <2>1, <2>2
<1>6. SumOf(g, blocks)
  BY <1>5, Zenon DEF SumOf
<1>7. Eq(g)
  BY <1>5
<1>8. Eq(sum)
  BY <1>7
<1>9. SumOf(sum, blocks)
  <2>1. \A n \in 0..N : sum[n] = IF n = 0 THEN 0
                                 ELSE sum[n - 1] + blocks[n].tokens + blocks[n].overhead
                                      + (IF n = 1 THEN 0 ELSE 1)
    BY <1>8
  <2> HIDE DEF sum
  <2> DEFINE Good == {n \in 0..N : sum[n] = g[n]}
  <2>2. 0 \in Good
    BY <1>1, <1>5, <2>1
  <2>3. ASSUME NEW n \in 0..N, n # 0, n - 1 \in Good PROVE n \in Good
    BY <1>5, <2>1, <2>3
  <2> HIDE DEF Good
  <2>4. \A n \in 0..N : n \in Good
    BY <1>1, <2>2, <2>3, Induction
  <2>5. \A n \in 0..N : sum[n] = g[n]
    BY <2>4 DEF Good
  <2>6. sum = g
    BY <1>8, <1>4, <2>5 DEF sum
  <2> QED
    BY <1>6, <2>6
<1> QED
  BY <1>2, <1>9

(* Lists that begin alike have the same sums so far.                        *)
LEMMA SumAgrees ==
  ASSUME NEW blocks \in Seq(Result), NEW more \in Seq(Result), NEW n \in 0..Len(blocks),
         n <= Len(more), \A i \in 1..n : blocks[i] = more[i],
         NEW g, SumOf(g, blocks), NEW h, SumOf(h, more)
  PROVE  g[n] = h[n]
<1>1. n \in Nat /\ Len(blocks) \in Nat /\ Len(more) \in Nat
  BY LenProperties
<1> DEFINE Good == {i \in 0..n : g[i] = h[i]}
<1>2. 0 \in Good
  BY <1>1 DEF SumOf
<1>3. ASSUME NEW k \in 0..n, k # 0, k - 1 \in Good PROVE k \in Good
  <2>1. /\ k \in 0..Len(blocks) /\ k \in 0..Len(more) /\ blocks[k] = more[k]
        /\ g[k - 1] = h[k - 1]
    BY <1>1, <1>3
  <2>2. g[k] = g[k - 1] + Adds(blocks[k], k = 1) /\ h[k] = h[k - 1] + Adds(more[k], k = 1)
    BY <1>3, <2>1 DEF SumOf
  <2> QED
    BY <2>1, <2>2
<1> HIDE DEF Good
<1>4. \A k \in 0..n : k \in Good
  BY <1>1, <1>2, <1>3, Induction
<1>5. n \in 0..n
  BY <1>1
<1>6. n \in Good
  BY <1>4, <1>5
<1> QED
  BY <1>6 DEF Good

(* The tokens of a list with one block more.                                *)
LEMMA TokensOfAppend ==
  ASSUME NEW blocks \in Seq(Result), NEW b \in Result
  PROVE  /\ RenderedTokens(blocks) \in Nat
         /\ RenderedTokens(Append(blocks, b))
              = RenderedTokens(blocks) + Adds(b, Len(blocks) = 0)
<1> DEFINE new == Append(blocks, b)
           l == Len(blocks)
<1>1. /\ new \in Seq(Result) /\ Len(new) = l + 1 /\ l \in Nat
      /\ \A i \in 1..l : new[i] = blocks[i]
      /\ new[l + 1] = b
  BY AppendIs
<1>2. PICK g : SumOf(g, blocks) /\ RenderedTokens(blocks) = g[l]
  BY TokensAre
<1> HIDE DEF new
<1>3. PICK h : SumOf(h, new) /\ RenderedTokens(new) = h[l + 1]
  BY <1>1, TokensAre
<1>4. g[l] = h[l]
  <2>1. l \in 0..l /\ l <= Len(new)
    BY <1>1
  <2> QED
    BY <1>1, <1>2, <1>3, <2>1, SumAgrees
<1>5. h[l + 1] = h[l] + Adds(b, l + 1 = 1)
  BY <1>1, <1>3 DEF SumOf
<1>6. (l + 1 = 1) <=> (l = 0)
  BY <1>1
<1>7. Adds(b, l + 1 = 1) = Adds(b, l = 0)
  BY <1>6 DEF Adds
<1>8. g[l] \in Nat
  BY <1>1, <1>2 DEF SumOf
<1> QED
  BY <1>2, <1>3, <1>4, <1>5, <1>7, <1>8 DEF new

(* Nothing has no tokens.                                                   *)
LEMMA NoTokens == RenderedTokens(<<>>) = 0
<1>1. <<>> \in Seq(Result) /\ Len(<<>>) = 0
  BY EmptySeq
<1>2. PICK g : SumOf(g, <<>>) /\ RenderedTokens(<<>>) = g[Len(<<>>)]
  BY <1>1, TokensAre
<1> QED
  BY <1>1, <1>2 DEF SumOf

------------------------------------------------------------------------------
(* Truncation.                                                              *)

(* A block of which n tokens are kept.                                      *)
LEMMA CutFields ==
  ASSUME NEW r \in Result
  PROVE  /\ \A n \in Nat : /\ Cut(r, n) \in Result /\ Cut(r, n).tokens = n
                           /\ Cut(r, n).chunk = r.chunk /\ Cut(r, n).text = r.text
                           /\ Cut(r, n).overhead = r.overhead
         /\ \A n \in Nat, m \in Nat : Cut(Cut(r, n), m) = Cut(r, m)
         /\ Cut(r, r.tokens) = r /\ r.tokens \in Nat /\ r.overhead \in Nat
  BY DEF Cut, Result

(* What a block costs behind the accepted ones, when n tokens of it are kept. *)
LEMMA CutIs ==
  ASSUME NEW accepted \in Seq(Result), NEW r \in Result
  PROVE  \E c \in Nat : \A n \in Nat :
           Fits(Append(accepted, Cut(r, n))) <=> c + n <= MaxContextTokens
<1>1. \A n \in Nat : /\ Cut(r, n) \in Result /\ Cut(r, n).tokens = n
                     /\ Cut(r, n).overhead = r.overhead
  BY CutFields
<1>2. r.tokens \in Nat /\ r.overhead \in Nat
  BY CutFields
<1> DEFINE sep == IF Len(accepted) = 0 THEN 0 ELSE 1
           c == RenderedTokens(accepted) + r.overhead + sep
<1>4. c \in Nat
  BY <1>2, TokensOfAppend
<1>5. ASSUME NEW n \in Nat
      PROVE  Fits(Append(accepted, Cut(r, n))) <=> c + n <= MaxContextTokens
  <2>1. /\ RenderedTokens(accepted) \in Nat
        /\ RenderedTokens(Append(accepted, Cut(r, n)))
             = RenderedTokens(accepted) + Adds(Cut(r, n), Len(accepted) = 0)
    BY <1>1, TokensOfAppend
  <2>2. Adds(Cut(r, n), Len(accepted) = 0) = n + r.overhead + sep
    BY <1>1 DEF Adds
  <2>3. RenderedTokens(accepted) + (n + r.overhead + sep) = c + n
    BY <1>2, <2>1
  <2> QED
    BY <2>1, <2>2, <2>3 DEF Fits
<1> QED
  BY <1>4, <1>5

(* The state of the search.                                                 *)
Search == [low : Int, high : Int, best : Int]

(* The search between rounds: what is below low fits, best being the last   *)
(* of it, and what is above high does not.                                 *)
Searching(s, c, tokens, round) ==
  /\ s \in Search
  /\ s.low \in MinTruncated..(tokens + 1) /\ s.high \in (MinTruncated - 1)..tokens
  /\ \/ s.best = 0 /\ s.low = MinTruncated
     \/ s.best = s.low - 1 /\ s.best >= MinTruncated /\ c + s.best <= MaxContextTokens
  /\ \A k \in (s.high + 1)..tokens : ~(c + k <= MaxContextTokens)
  /\ s.low > s.high \/ s.high - s.low + 1 <= tokens - round

(* The middle lies between its ends.                                        *)
LEMMA Middle ==
  ASSUME NEW low \in Nat, NEW high \in Nat, low <= high
  PROVE  /\ (low + high) \div 2 \in Nat
         /\ low <= (low + high) \div 2 /\ (low + high) \div 2 <= high
  OBVIOUS

(* What a round makes of the state.                                         *)
LEMMA Moved ==
  ASSUME NEW s \in Search, NEW m \in Int
  PROVE  /\ [s EXCEPT !.low = m + 1, !.best = m] \in Search
         /\ [s EXCEPT !.low = m + 1, !.best = m].low = m + 1
         /\ [s EXCEPT !.low = m + 1, !.best = m].high = s.high
         /\ [s EXCEPT !.low = m + 1, !.best = m].best = m
         /\ [s EXCEPT !.high = m - 1] \in Search
         /\ [s EXCEPT !.high = m - 1].low = s.low
         /\ [s EXCEPT !.high = m - 1].high = m - 1
         /\ [s EXCEPT !.high = m - 1].best = s.best
<1>1. \A u \in Search, n \in Int :
        /\ [u EXCEPT !.low = n] \in Search /\ [u EXCEPT !.high = n] \in Search
        /\ [u EXCEPT !.best = n] \in Search
  BY DEF Search
<1>2. [s EXCEPT !.low = m + 1, !.best = m] = [[s EXCEPT !.low = m + 1] EXCEPT !.best = m]
  OBVIOUS
<1>3. m + 1 \in Int /\ m - 1 \in Int
  OBVIOUS
<1>4. [s EXCEPT !.low = m + 1, !.best = m] \in Search
  BY <1>1, <1>2, <1>3
<1> QED
  BY <1>1, <1>3, <1>4 DEF Search

(* A round keeps that, and rules a number out.                              *)
LEMMA NarrowIs ==
  ASSUME NEW accepted \in Seq(Result), NEW r \in Result, NEW c \in Nat,
         \A n \in Nat : Fits(Append(accepted, Cut(r, n))) <=> c + n <= MaxContextTokens,
         NEW s, NEW round \in Nat, Searching(s, c, r.tokens, round)
  PROVE  Searching(Narrow(s, accepted, r), c, r.tokens, round + 1)
<1> DEFINE t == r.tokens
           m == (s.low + s.high) \div 2
<1>0. /\ t \in Nat /\ MinTruncated \in Nat /\ MinTruncated >= 1 /\ MaxContextTokens \in Nat
  BY BudgetAssumption DEF Result
<1>1. /\ s \in Search
      /\ s.low \in MinTruncated..(t + 1) /\ s.high \in (MinTruncated - 1)..t
      /\ \/ s.best = 0 /\ s.low = MinTruncated
         \/ s.best = s.low - 1 /\ s.best >= MinTruncated /\ c + s.best <= MaxContextTokens
      /\ \A k \in (s.high + 1)..t : ~(c + k <= MaxContextTokens)
      /\ s.low > s.high \/ s.high - s.low + 1 <= t - round
  BY DEF Searching
<1>2. s.low \in Int /\ s.high \in Int /\ s.best \in Int
  BY <1>1 DEF Search
<1>a. /\ MinTruncated <= s.low /\ s.low <= t + 1
      /\ MinTruncated - 1 <= s.high /\ s.high <= t
  BY <1>0, <1>1, <1>2
<1>b. s.low > s.high \/ s.high - s.low + 1 <= t - round
  BY <1>1
<1>3. CASE s.low > s.high
  <2>1. Narrow(s, accepted, r) = s
    BY <1>3 DEF Narrow
  <2> QED
    BY <1>3, <2>1 DEF Searching
<1>4. CASE ~(s.low > s.high)
  <2>1. /\ m \in Nat /\ s.low <= m /\ m <= s.high
    <3>1. s.low \in Nat /\ s.high \in Nat /\ s.low <= s.high
      BY <1>0, <1>1, <1>2, <1>4
    <3> QED
      BY <3>1, Middle
  <2>2. CASE Fits(Append(accepted, Cut(r, m)))
    <3> HIDE DEF m
    <3> DEFINE n == [s EXCEPT !.low = m + 1, !.best = m]
    <3>1. Narrow(s, accepted, r) = n
      BY <1>4, <2>2 DEF Narrow, m
    <3>2. /\ n \in Search
          /\ n.low = m + 1 /\ n.high = s.high /\ n.best = m
      <4>1. s \in Search /\ m \in Int
        BY <1>1, <2>1
      <4> QED
        BY <4>1, Moved
    <3>3. c + m <= MaxContextTokens
      BY <2>1, <2>2
    <3> HIDE DEF n, m
    <3>4. /\ n.low \in MinTruncated..(t + 1) /\ n.high \in (MinTruncated - 1)..t
          /\ n.best = n.low - 1 /\ n.best >= MinTruncated /\ c + n.best <= MaxContextTokens
          /\ n.low > n.high \/ n.high - n.low + 1 <= t - (round + 1)
      <4>1. /\ n.low \in Int /\ n.high \in Int
            /\ MinTruncated <= n.low /\ n.low <= t + 1
            /\ MinTruncated - 1 <= n.high /\ n.high <= t
        BY <1>0, <1>2, <1>a, <2>1, <3>2
      <4>2. n.best = n.low - 1 /\ n.best >= MinTruncated /\ c + n.best <= MaxContextTokens
        BY <1>0, <1>2, <1>a, <2>1, <3>2, <3>3
      <4>3. n.low > n.high \/ n.high - n.low + 1 <= t - (round + 1)
        BY <1>0, <1>2, <1>b, <1>4, <2>1, <3>2
      <4> QED
        BY <1>0, <4>1, <4>2, <4>3
    <3>5. \A k \in (n.high + 1)..t : ~(c + k <= MaxContextTokens)
      BY <1>1, <3>2
    <3>6. Searching(n, c, t, round + 1)
      BY <3>2, <3>4, <3>5 DEF Searching
    <3> QED
      BY <3>1, <3>6
  <2>3. CASE ~Fits(Append(accepted, Cut(r, m)))
    <3> HIDE DEF m
    <3> DEFINE n == [s EXCEPT !.high = m - 1]
    <3>1. Narrow(s, accepted, r) = n
      BY <1>4, <2>3 DEF Narrow, m
    <3>2. /\ n \in Search
          /\ n.low = s.low /\ n.high = m - 1 /\ n.best = s.best
      <4>1. s \in Search /\ m \in Int
        BY <1>1, <2>1
      <4> QED
        BY <4>1, Moved
    <3>3. ~(c + m <= MaxContextTokens)
      BY <2>1, <2>3
    <3> HIDE DEF n, m
    <3>4. /\ n.low \in MinTruncated..(t + 1) /\ n.high \in (MinTruncated - 1)..t
          /\ \/ n.best = 0 /\ n.low = MinTruncated
             \/ n.best = n.low - 1 /\ n.best >= MinTruncated /\ c + n.best <= MaxContextTokens
          /\ n.low > n.high \/ n.high - n.low + 1 <= t - (round + 1)
      BY <1>0, <1>1, <1>2, <1>4, <2>1, <3>2, SMTT(60)
    <3>5. \A k \in (n.high + 1)..t : ~(c + k <= MaxContextTokens)
      BY <1>0, <2>1, <3>2, <3>3
    <3>6. Searching(n, c, t, round + 1)
      BY <3>2, <3>4, <3>5 DEF Searching
    <3> QED
      BY <3>1, <3>6
  <2> QED
    BY <2>2, <2>3
<1> QED
  BY <1>3, <1>4

(* _truncate_to_budget keeps as much as fits, or finds that not even the    *)
(* least does.                                                             *)
LEMMA TruncationIs ==
  ASSUME NEW accepted \in Seq(Result), NEW r \in Result, ~Fits(Append(accepted, r))
  PROVE  \/ /\ Truncation(accepted, r) = 0
            /\ \/ r.tokens < MinTruncated
               \/ ~Fits(Append(accepted, Cut(r, MinTruncated)))
         \/ /\ Truncation(accepted, r) \in Nat
            /\ MinTruncated <= Truncation(accepted, r) /\ Truncation(accepted, r) < r.tokens
            /\ Fits(Append(accepted, Cut(r, Truncation(accepted, r))))
            /\ ~Fits(Append(accepted, Cut(r, Truncation(accepted, r) + 1)))
<1> DEFINE N == r.tokens
           Start == [low |-> MinTruncated, high |-> N, best |-> 0]
           Eq(f) == f = [n \in 0..N |-> IF n = 0 THEN Start ELSE Narrow(f[n - 1], accepted, r)]
           search == CHOOSE f : Eq(f)
<1>1. PICK c \in Nat : \A n \in Nat :
        Fits(Append(accepted, Cut(r, n))) <=> c + n <= MaxContextTokens
  BY CutIs
<1>2. /\ N \in Nat /\ MinTruncated \in Nat /\ MinTruncated >= 1 /\ MaxContextTokens \in Nat
  BY BudgetAssumption DEF Result
<1>3. ~(c + N <= MaxContextTokens)
  BY <1>1, <1>2, CutFields
<1>4. CASE N < MinTruncated
  BY <1>4, Zenon DEF Truncation
<1>5. CASE ~(N < MinTruncated)
  <2>1. Truncation(accepted, r) = search[N].best
    BY <1>5, Zenon DEF Truncation
  <2>2. \E f : Eq(f)
    <3> DEFINE step == [n \in 1..N |-> [s \in Search |-> Narrow(s, accepted, r)]]
    <3>1. ASSUME NEW s \in Search PROVE Narrow(s, accepted, r) \in Search
      <4>1. (s.low + s.high) \div 2 \in Int
        BY DEF Search
      <4> QED
        BY <4>1, Moved DEF Narrow
    <3>2. step \in [1..N -> [Search -> Search]] /\ Start \in Search
      BY <1>2, <3>1 DEF Search
    <3>3. \A n \in 1..N : \A s \in Search : step[n][s] = Narrow(s, accepted, r)
      OBVIOUS
    <3> HIDE DEF step, Start
    <3>4. PICK g \in [0..N -> Search] : Recursion(g, N, Start, step)
      BY <1>2, <3>2, RecursionExists
    <3>5. ASSUME NEW n \in 0..N
          PROVE  g[n] = IF n = 0 THEN Start ELSE Narrow(g[n - 1], accepted, r)
      <4>1. CASE n = 0
        BY <3>4, <4>1 DEF Recursion
      <4>2. CASE n # 0
        <5>1. n \in 1..N /\ n - 1 \in 0..N
          BY <1>2, <4>2
        <5>2. g[n] = step[n][g[n - 1]] /\ g[n - 1] \in Search
          BY <3>4, <4>2, <5>1 DEF Recursion
        <5> QED
          BY <3>3, <4>2, <5>1, <5>2
      <4> QED
        BY <4>1, <4>2
    <3>6. Eq(g)
      BY <3>4, <3>5
    <3> QED
      BY <3>6
  <2>3. Eq(search)
    BY <2>2
  <2>4. \A n \in 0..N : search[n] = IF n = 0 THEN Start ELSE Narrow(search[n - 1], accepted, r)
    BY <2>3
  <2> HIDE DEF search
  <2> DEFINE Good == {n \in 0..N : Searching(search[n], c, N, n)}
  <2>5. 0 \in Good
    <3>1. search[0] = Start
      BY <1>2, <2>4
    <3>2. Searching(Start, c, N, 0)
      BY <1>2, <1>5 DEF Searching, Search
    <3> QED
      BY <1>2, <3>1, <3>2
  <2>6. ASSUME NEW n \in 0..N, n # 0, n - 1 \in Good PROVE n \in Good
    <3>1. n - 1 \in Nat /\ (n - 1) + 1 = n /\ search[n] = Narrow(search[n - 1], accepted, r)
      BY <1>2, <2>4, <2>6
    <3>2. Searching(search[n - 1], c, N, n - 1)
      BY <2>6
    <3>3. Searching(Narrow(search[n - 1], accepted, r), c, N, (n - 1) + 1)
      BY <1>1, <3>1, <3>2, NarrowIs
    <3> QED
      BY <3>1, <3>3
  <2> HIDE DEF Good
  <2>7. \A n \in 0..N : n \in Good
    BY <1>2, <2>5, <2>6, Induction
  <2>8. N \in Good
    BY <1>2, <2>7
  <2> DEFINE s == search[N]
             k == s.best
  <2>9. Searching(s, c, N, N)
    BY <2>8 DEF Good
  <2> HIDE DEF s
  <2>10. s.low > s.high /\ s.low \in Int /\ s.high \in Int
    BY <1>2, <2>9 DEF Searching, Search
  <2>11. CASE k = 0 /\ s.low = MinTruncated
    <3>1. s.high + 1 <= MinTruncated /\ MinTruncated <= N
      BY <1>2, <1>5, <2>10, <2>11
    <3>2. MinTruncated \in (s.high + 1)..N
      BY <1>2, <2>10, <3>1
    <3>3. ~(c + MinTruncated <= MaxContextTokens)
      BY <2>9, <3>2 DEF Searching
    <3> QED
      BY <1>1, <1>2, <2>1, <2>11, <3>3 DEF s
  <2>12. CASE k = s.low - 1 /\ k >= MinTruncated /\ c + k <= MaxContextTokens
    <3>1. k \in Nat /\ s.high + 1 <= k + 1 /\ k <= N
      BY <1>2, <2>9, <2>10, <2>12 DEF Searching
    <3>2. k < N
      BY <1>2, <1>3, <2>12, <3>1
    <3>3. k + 1 \in (s.high + 1)..N
      BY <1>2, <2>10, <3>1, <3>2
    <3>4. ~(c + (k + 1) <= MaxContextTokens)
      BY <2>9, <3>3 DEF Searching
    <3>5. Fits(Append(accepted, Cut(r, k))) /\ ~Fits(Append(accepted, Cut(r, k + 1)))
      BY <1>1, <2>12, <3>1, <3>4, SMTT(60)
    <3> QED
      BY <2>1, <2>12, <3>1, <3>2, <3>5 DEF s
  <2> QED
    BY <2>9, <2>11, <2>12 DEF Searching
<1> QED
  BY <1>4, <1>5

------------------------------------------------------------------------------
(* Assemble.                                                                *)

(* The greatest of some numbers up to n.                                    *)
LEMMA MaxIs ==
  ASSUME NEW n \in Nat, NEW S \in SUBSET (0..n), S # {}
  PROVE  Max(S) \in S /\ \A y \in S : Max(S) >= y
<1> DEFINE Top(k) == \E x \in S : x <= k /\ \A y \in S : y <= k => x >= y
           Good == {k \in 0..n : (\E x \in S : x <= k) => Top(k)}
<1>1. 0 \in Good
  OBVIOUS
<1>2. ASSUME NEW k \in 0..n, k # 0, k - 1 \in Good PROVE k \in Good
  <2>1. CASE k \in S
    BY <2>1
  <2>2. CASE k \notin S
    <3>1. \A x \in S : x <= k <=> x <= k - 1
      BY <2>2
    <3> QED
      BY <1>2, <3>1
  <2> QED
    BY <2>1, <2>2
<1> HIDE DEF Good
<1>3. \A k \in 0..n : k \in Good
  BY <1>1, <1>2, Induction
<1>4. n \in Good
  BY <1>3
<1>5. \A x \in S : x <= n
  OBVIOUS
<1>6. \E x \in S : \A y \in S : x >= y
  BY <1>4, <1>5 DEF Good
<1> QED
  BY <1>6 DEF Max

(* The beginning of a list.                                                 *)
LEMMA BeginningIs ==
  ASSUME NEW T, NEW s \in Seq(T), NEW n \in 0..Len(s)
  PROVE  /\ SubSeq(s, 1, n) \in Seq(T) /\ Len(SubSeq(s, 1, n)) = n
         /\ \A i \in 1..n : SubSeq(s, 1, n)[i] = s[i]
         /\ n < Len(s) => SubSeq(s, 1, n + 1) = Append(SubSeq(s, 1, n), s[n + 1])
         /\ n = Len(s) => SubSeq(s, 1, n) = s
<1>1. Len(s) \in Nat /\ \A i \in 1..Len(s) : s[i] \in T
  BY LenProperties, ElementOfSeq
<1>2. ASSUME NEW m \in 0..Len(s)
      PROVE  /\ SubSeq(s, 1, m) \in Seq(T) /\ Len(SubSeq(s, 1, m)) = m
             /\ \A i \in 1..m : SubSeq(s, 1, m)[i] = s[i]
  BY <1>1, SubSeqProperties
<1>3. ASSUME n < Len(s) PROVE SubSeq(s, 1, n + 1) = Append(SubSeq(s, 1, n), s[n + 1])
  <2> DEFINE a == SubSeq(s, 1, n + 1)
             b == Append(SubSeq(s, 1, n), s[n + 1])
  <2>1. /\ a \in Seq(T) /\ Len(a) = n + 1 /\ \A i \in 1..(n + 1) : a[i] = s[i]
    BY <1>1, <1>2, <1>3
  <2>2. s[n + 1] \in T
    BY <1>1, <1>3
  <2>3. /\ b \in Seq(T) /\ Len(b) = n + 1
        /\ \A i \in 1..n : b[i] = s[i]
        /\ b[n + 1] = s[n + 1]
    BY <1>2, <2>2, AppendIs
  <2> HIDE DEF a, b
  <2>4. \A i \in 1..(n + 1) : a[i] = b[i]
    BY <2>1, <2>3
  <2>5. a = b
    BY <2>1, <2>3, <2>4, SeqEqual
  <2> QED
    BY <2>5 DEF a, b
<1>4. ASSUME n = Len(s) PROVE SubSeq(s, 1, n) = s
  <2> DEFINE a == SubSeq(s, 1, n)
  <2>1. a \in Seq(T) /\ Len(a) = Len(s) /\ \A i \in 1..Len(s) : a[i] = s[i]
    BY <1>2, <1>4
  <2> HIDE DEF a
  <2>2. a = s
    BY <2>1, SeqEqual
  <2> QED
    BY <2>2 DEF a
<1> QED
  BY <1>2, <1>3, <1>4

(* A list without the item it ends in.                                      *)
LEMMA FrontIs ==
  ASSUME NEW T, NEW s \in Seq(T), NEW e \in T
  PROVE  Front(Append(s, e)) = s
<1> DEFINE a == Append(s, e)
           f == Front(a)
<1>1. /\ a \in Seq(T) /\ Len(a) = Len(s) + 1 /\ Len(s) \in Nat
      /\ \A i \in 1..Len(s) : a[i] = s[i]
  BY AppendIs
<1> HIDE DEF a
<1>2. f = SubSeq(a, 1, Len(s))
  BY <1>1 DEF Front
<1>3. Len(s) \in 0..Len(a)
  BY <1>1
<1>4. f \in Seq(T) /\ Len(f) = Len(s) /\ \A i \in 1..Len(s) : f[i] = a[i]
  BY <1>1, <1>2, <1>3, BeginningIs
<1> HIDE DEF f
<1>5. f = s
  BY <1>1, <1>4, SeqEqual
<1> QED
  BY <1>5 DEF f, a

(* What is shown of the unique results: the first w, and k tokens of the    *)
(* one behind them unless k is 0.                                          *)
Shown(shown, u, w, k) ==
  /\ shown \in Seq(Result) /\ w \in 0..Len(u)
  /\ \A i \in 1..w : shown[i] = u[i]
  /\ Fits(shown)
  /\ \/ /\ k = 0 /\ Len(shown) = w
        /\ w < Len(u) => \/ u[w + 1].tokens < MinTruncated
                         \/ ~Fits(Append(shown, Cut(u[w + 1], MinTruncated)))
     \/ /\ w < Len(u) /\ Len(shown) = w + 1 /\ shown[w + 1] = Cut(u[w + 1], k)
        /\ k \in Nat /\ MinTruncated <= k /\ k < u[w + 1].tokens
        /\ ~Fits(Append(Front(shown), Cut(u[w + 1], k + 1)))

(* What Assemble returns, for every list of results.                        *)
LEMMA AssembleIs ==
  ASSUME NEW rs \in Seq(Result)
  PROVE  \E w, k : Shown(Assemble(rs), Unique(rs), w, k)
<1> DEFINE u == Unique(rs)
           F == {n \in 0..Len(u) : Fits(SubSeq(u, 1, n))}
           w == Max(F)
           whole == SubSeq(u, 1, w)
           next == u[Len(whole) + 1]
           k == IF Len(whole) = Len(u) THEN 0 ELSE Truncation(whole, next)
<1>1. Assemble(rs) = IF k = 0 THEN whole ELSE Append(whole, Cut(next, k))
  BY Zenon DEF Assemble
<1>2. u \in Seq(Result) /\ Len(u) \in Nat /\ \A i \in 1..Len(u) : u[i] \in Result
  BY UniqueIs, LenProperties, ElementOfSeq DEF Kept
<1>3. MinTruncated \in Nat /\ MinTruncated >= 1 /\ MaxContextTokens \in Nat
  BY BudgetAssumption
<1> HIDE DEF u
<1>4. w \in F /\ \A n \in F : w >= n
  <2>1. SubSeq(u, 1, 0) = <<>>
    BY <1>2, BeginningIs, EmptySeq
  <2>2. Fits(SubSeq(u, 1, 0))
    <3>1. RenderedTokens(SubSeq(u, 1, 0)) = 0
      BY <2>1, NoTokens
    <3> QED
      BY <1>3, <3>1 DEF Fits
  <2>3. F \in SUBSET (0..Len(u)) /\ F # {}
    BY <1>2, <2>2
  <2> HIDE DEF F
  <2> QED
    BY <1>2, <2>3, MaxIs
<1>5. w \in 0..Len(u) /\ Fits(whole)
  BY <1>4
<1> HIDE DEF w
<1>6. /\ whole \in Seq(Result) /\ Len(whole) = w /\ \A i \in 1..w : whole[i] = u[i]
  BY <1>2, <1>5, BeginningIs
<1>7. CASE w = Len(u)
  <2>1. Assemble(rs) = whole /\ k = 0
    BY <1>1, <1>6, <1>7
  <2>2. Shown(whole, u, w, 0)
    BY <1>2, <1>5, <1>6, <1>7 DEF Shown
  <2> QED
    BY <2>1, <2>2 DEF u
<1>8. CASE w # Len(u)
  <2>1. w + 1 \in 1..Len(u) /\ w + 1 \in 0..Len(u) /\ w < Len(u) /\ w \in Nat
    BY <1>2, <1>5, <1>8
  <2>2. next = u[w + 1] /\ next \in Result /\ k = Truncation(whole, next)
    BY <1>2, <1>6, <1>8, <2>1
  <2>3. ~Fits(Append(whole, next))
    <3>1. SubSeq(u, 1, w + 1) = Append(whole, next)
      BY <1>2, <1>5, <2>1, <2>2, BeginningIs
    <3>2. w + 1 \notin F
      BY <1>4, <2>1
    <3> QED
      BY <2>1, <3>1, <3>2
  <2> HIDE DEF whole, next, k, F
  <2>4. \/ /\ k = 0
           /\ \/ next.tokens < MinTruncated
              \/ ~Fits(Append(whole, Cut(next, MinTruncated)))
        \/ /\ k \in Nat /\ MinTruncated <= k /\ k < next.tokens
           /\ Fits(Append(whole, Cut(next, k)))
           /\ ~Fits(Append(whole, Cut(next, k + 1)))
    BY <1>6, <2>2, <2>3, TruncationIs
  <2>5. CASE k = 0
    <3>1. Assemble(rs) = whole
      BY <1>1, <2>5
    <3>2. \/ next.tokens < MinTruncated
          \/ ~Fits(Append(whole, Cut(next, MinTruncated)))
      BY <1>3, <2>4, <2>5
    <3>3. Shown(whole, u, w, k)
      BY <1>5, <1>6, <2>2, <2>5, <3>2 DEF Shown
    <3> QED
      BY <3>1, <3>3 DEF u
  <2>6. CASE k # 0
    <3> DEFINE last == Cut(next, k)
               shown == Append(whole, last)
    <3>1. Assemble(rs) = shown
      BY <1>1, <2>6
    <3>2. last \in Result
      BY <2>2, <2>4, <2>6, CutFields
    <3>3. /\ shown \in Seq(Result) /\ Len(shown) = w + 1
          /\ \A i \in 1..w : shown[i] = whole[i]
          /\ shown[w + 1] = last
          /\ Front(shown) = whole
      BY <1>6, <3>2, AppendIs, FrontIs
    <3>4. Fits(shown)
      BY <2>4, <2>6
    <3> HIDE DEF last, shown
    <3>5. Shown(shown, u, w, k)
      BY <1>5, <1>6, <2>1, <2>2, <2>4, <2>6, <3>3, <3>4 DEF Shown, last
    <3> QED
      BY <3>1, <3>5 DEF u
  <2> QED
    BY <2>5, <2>6
<1> QED
  BY <1>7, <1>8

------------------------------------------------------------------------------
(* The context.                                                             *)

(* What the property asks of the context of a list of results.              *)
LEMMA ContextOf ==
  ASSUME Ranking(results)
  PROVE  ContextIsExact
<1> DEFINE rs == results
           u == Unique(rs)
           shown == Assemble(rs)
           At(b) == CHOOSE n \in DOMAIN rs : rs[n].chunk = b.chunk
           Whole(b) == b = rs[At(b)]
           cut == {b \in ToSet(shown) : ~Whole(b)}
           omitted == {n \in DOMAIN rs :
                         /\ rs[n].chunk \notin Ids(shown)
                         /\ ~\E b \in ToSet(shown) :
                              At(b) < n /\ NearDuplicate(rs[n], b)}
<1>1. /\ rs \in Seq(Result) /\ Len(rs) \in Nat /\ DOMAIN rs = 1..Len(rs)
      /\ \A n \in 1..Len(rs) : rs[n] \in Result
      /\ \A i, j \in 1..Len(rs) : rs[i].chunk = rs[j].chunk => i = j
  BY LenProperties, ElementOfSeq DEF Ranking
<1>2. PICK place : Kept(u, place, rs, Len(rs))
  BY <1>1, UniqueIs
<1>3. PICK w, k : Shown(shown, u, w, k)
  BY <1>1, AssembleIs
<1>4. MinTruncated \in Nat
  BY BudgetAssumption
<1> HIDE DEF u, shown, rs
<1>5. /\ u \in Seq(Result) /\ Len(u) \in Nat /\ place \in [1..Len(u) -> 1..Len(rs)]
      /\ \A i \in 1..Len(u) : u[i] = rs[place[i]] /\ u[i] \in Result
      /\ \A i, j \in 1..Len(u) : i < j => place[i] < place[j] /\ ~NearDuplicate(u[i], u[j])
      /\ \A n \in 1..Len(rs) :
           \/ \E i \in 1..Len(u) : place[i] = n
           \/ \E i \in 1..Len(u) : place[i] < n /\ NearDuplicate(rs[n], u[i])
  BY <1>2, LenProperties, ElementOfSeq DEF Kept
<1>6. /\ shown \in Seq(Result) /\ w \in 0..Len(u) /\ Fits(shown)
      /\ Len(shown) \in Nat /\ DOMAIN shown = 1..Len(shown) /\ Len(shown) <= Len(u)
      /\ w <= Len(shown) /\ Len(shown) <= w + 1
      /\ \A i \in 1..w : shown[i] = u[i]
  BY <1>3, <1>5, LenProperties DEF Shown
<1>7. \/ /\ k = 0 /\ Len(shown) = w
         /\ w < Len(u) => \/ u[w + 1].tokens < MinTruncated
                          \/ ~Fits(Append(shown, Cut(u[w + 1], MinTruncated)))
      \/ /\ w < Len(u) /\ Len(shown) = w + 1 /\ shown[w + 1] = Cut(u[w + 1], k)
         /\ k \in Nat /\ MinTruncated <= k /\ k < u[w + 1].tokens
         /\ ~Fits(Append(Front(shown), Cut(u[w + 1], k + 1)))
  BY <1>3 DEF Shown
<1>8. \A i \in 1..Len(shown) : i \in 1..Len(u) /\ (i \in 1..w \/ i = w + 1)
  BY <1>5, <1>6
<1>9. ASSUME NEW i \in 1..Len(shown)
      PROVE  shown[i].chunk = u[i].chunk /\ shown[i].text = u[i].text
  <2>1. CASE i \in 1..w
    BY <1>6, <2>1
  <2>2. CASE i \notin 1..w
    <3>1. i = w + 1 /\ u[i] \in Result
      BY <1>5, <1>8, <2>2
    <3>2. shown[i] = Cut(u[i], k) /\ k \in Nat
      BY <1>6, <1>7, <2>2, <3>1
    <3> QED
      BY <1>5, <3>1, <3>2, CutFields
  <2> QED
    BY <2>1, <2>2
<1>10. \A i \in 1..Len(u) : place[i] \in 1..Len(rs)
  BY <1>5
<1>11. ASSUME NEW i \in 1..Len(shown) PROVE At(shown[i]) = place[i]
  <2>1. i \in 1..Len(u) /\ place[i] \in DOMAIN rs /\ rs[place[i]].chunk = shown[i].chunk
    BY <1>1, <1>5, <1>8, <1>9, <1>10
  <2>2. \A n \in DOMAIN rs : rs[n].chunk = shown[i].chunk => n = place[i]
    BY <1>1, <2>1
  <2> QED
    BY <2>1, <2>2
<1> HIDE DEF At
<1>12. ASSUME NEW i \in 1..Len(shown)
       PROVE  /\ i \in 1..w => Whole(shown[i])
              /\ i \notin 1..w => ~Whole(shown[i])
  <2>1. i \in 1..Len(u) /\ rs[At(shown[i])] = u[i]
    BY <1>5, <1>8, <1>11
  <2>2. CASE i \in 1..w
    BY <1>6, <2>1, <2>2
  <2>3. CASE i \notin 1..w
    <3>1. i = w + 1 /\ Len(shown) # w
      BY <1>6, <1>8, <2>3
    <3>2. shown[i] = Cut(u[i], k) /\ k \in Nat /\ k < u[i].tokens /\ u[i] \in Result
      BY <1>5, <1>7, <2>1, <3>1
    <3>3. shown[i].tokens = k
      BY <1>5, <3>2, CutFields
    <3>4. u[i].tokens \in Nat
      BY <3>2 DEF Result
    <3>5. shown[i] # u[i]
      BY <3>2, <3>3, <3>4
    <3> QED
      BY <2>1, <2>3, <3>5
  <2> QED
    BY <2>2, <2>3
<1> HIDE DEF Whole
<1>13. \A b : b \in ToSet(shown) <=> \E i \in 1..Len(shown) : b = shown[i]
  BY <1>6 DEF ToSet
<1>14. ASSUME NEW i \in DOMAIN shown, NEW j \in DOMAIN shown, i < j
       PROVE  /\ At(shown[i]) < At(shown[j])
              /\ ~NearDuplicate(shown[i], shown[j])
              /\ Whole(shown[i])
  <2>1. i \in 1..Len(shown) /\ j \in 1..Len(shown) /\ i \in 1..Len(u) /\ j \in 1..Len(u)
    BY <1>6, <1>8
  <2>2. place[i] < place[j] /\ ~NearDuplicate(u[i], u[j])
    BY <1>5, <1>14, <2>1
  <2>3. i \in 1..w
    BY <1>6, <1>14, <2>1
  <2>4. ~NearDuplicate(shown[i], shown[j])
    BY <1>9, <2>1, <2>2 DEF NearDuplicate
  <2> QED
    BY <1>11, <1>12, <2>1, <2>2, <2>3, <2>4
<1>15. ASSUME NEW b \in cut
       PROVE  /\ b.tokens >= MinTruncated
              /\ ~Fits(Append(Front(shown), Cut(b, b.tokens + 1)))
              /\ Len(shown) # w
  <2>1. PICK i \in 1..Len(shown) : b = shown[i] /\ ~Whole(shown[i])
    BY <1>13, <1>15
  <2>2. i \notin 1..w /\ i = w + 1 /\ Len(shown) # w
    BY <1>6, <1>8, <1>12, <2>1
  <2>3. /\ b = Cut(u[i], k) /\ k \in Nat /\ MinTruncated <= k /\ u[i] \in Result
        /\ ~Fits(Append(Front(shown), Cut(u[i], k + 1)))
    BY <1>5, <1>7, <1>8, <2>1, <2>2
  <2>4. b.tokens = k /\ Cut(b, k + 1) = Cut(u[i], k + 1)
    <3>1. k + 1 \in Nat
      BY <2>3
    <3> QED
      BY <1>5, <2>3, <3>1, CutFields
  <2> QED
    BY <1>4, <2>2, <2>3, <2>4
<1>16. ASSUME NEW n \in omitted
       PROVE  /\ n \in 1..Len(rs)
              /\ \E i \in 1..Len(u) : Len(shown) < i /\ place[i] <= n
  <2>1. /\ n \in 1..Len(rs) /\ rs[n].chunk \notin Ids(shown)
        /\ ~\E b \in ToSet(shown) : At(b) < n /\ NearDuplicate(rs[n], b)
    BY <1>1, <1>16
  <2>2. ASSUME NEW i \in 1..Len(u), place[i] = n PROVE Len(shown) < i
    <3> SUFFICES ASSUME i \in 1..Len(shown) PROVE FALSE
      BY <1>5, <1>6
    <3>1. shown[i].chunk = rs[n].chunk /\ shown[i] \in ToSet(shown)
      BY <1>5, <1>9, <1>13, <2>2
    <3> QED
      BY <2>1, <3>1 DEF Ids
  <2>3. ASSUME NEW i \in 1..Len(u), place[i] < n, NearDuplicate(rs[n], u[i])
        PROVE  Len(shown) < i
    <3> SUFFICES ASSUME i \in 1..Len(shown) PROVE FALSE
      BY <1>5, <1>6
    <3>1. shown[i] \in ToSet(shown) /\ At(shown[i]) < n
      BY <1>11, <1>13, <2>3
    <3>2. NearDuplicate(rs[n], shown[i])
      BY <1>9, <2>3 DEF NearDuplicate
    <3> QED
      BY <2>1, <3>1, <3>2
  <2>4. \E i \in 1..Len(u) : place[i] = n \/ (place[i] < n /\ NearDuplicate(rs[n], u[i]))
    BY <1>5, <2>1
  <2>5. PICK i \in 1..Len(u) : place[i] = n \/ (place[i] < n /\ NearDuplicate(rs[n], u[i]))
    BY <2>4
  <2>6. Len(shown) < i /\ place[i] <= n
    <3>1. place[i] \in Nat /\ n \in Nat
      BY <1>10, <2>1
    <3> QED
      BY <2>2, <2>3, <2>5, <3>1
  <2> QED
    BY <2>1, <2>6
<1>17. ASSUME NEW n \in omitted, NEW b \in ToSet(shown) PROVE At(b) < n
  <2>1. PICK i \in 1..Len(u) : Len(shown) < i /\ place[i] <= n
    BY <1>16
  <2>2. PICK j \in 1..Len(shown) : b = shown[j]
    BY <1>13
  <2>3. j \in 1..Len(u) /\ j < i
    BY <1>6, <1>8, <2>1
  <2>4. place[j] < place[i] /\ At(b) = place[j]
    BY <1>5, <1>11, <2>2, <2>3
  <2>5. n \in Nat /\ place[i] \in Nat /\ place[j] \in Nat
    BY <1>10, <1>16, <2>3
  <2> QED
    BY <2>1, <2>4, <2>5
<1>18. ASSUME omitted # {}, cut = {}
       PROVE  \/ rs[Min(omitted)].tokens < MinTruncated
              \/ ~Fits(Append(shown, Cut(rs[Min(omitted)], MinTruncated)))
  <2>1. Len(shown) = w
    <3> SUFFICES ASSUME Len(shown) # w PROVE FALSE
      OBVIOUS
    <3>1. w + 1 \in 1..Len(shown) /\ w + 1 \notin 1..w
      BY <1>5, <1>6
    <3>2. ~Whole(shown[w + 1]) /\ shown[w + 1] \in ToSet(shown)
      BY <1>12, <1>13, <3>1
    <3> QED
      BY <1>18, <3>2
  <2>2. \A n \in omitted : \E i \in 1..Len(u) : w < i /\ place[i] <= n
    BY <1>16, <2>1
  <2> DEFINE v == w + 1
             first == place[v]
  <2>3. /\ w < Len(u) /\ v \in 1..Len(u)
        /\ \A n \in omitted : first <= n
    <3>1. w < Len(u) /\ v \in 1..Len(u)
      BY <1>5, <1>6, <1>18, <2>2
    <3>2. ASSUME NEW n \in omitted PROVE first <= n
      <4>1. PICK i \in 1..Len(u) : w < i /\ place[i] <= n
        BY <2>2
      <4>2. i = v \/ v < i
        BY <1>6, <4>1
      <4>3. first = place[i] \/ first < place[i]
        BY <1>5, <3>1, <4>2
      <4>4. n \in Nat /\ place[i] \in Nat /\ first \in Nat
        BY <1>10, <1>16, <3>1
      <4> QED
        BY <4>1, <4>3, <4>4
    <3> QED
      BY <3>1, <3>2
  <2>4. first \in 1..Len(rs) /\ rs[first] = u[v]
    BY <1>5, <1>10, <2>3
  <2>5. \A j \in 1..Len(shown) : j \in 1..Len(u) /\ j < v
    BY <1>6, <1>8, <2>1
  <2>6. first \in omitted
    <3>1. rs[first].chunk \notin Ids(shown)
      <4> SUFFICES ASSUME rs[first].chunk \in Ids(shown) PROVE FALSE
        OBVIOUS
      <4>1. PICK j \in 1..Len(shown) : rs[first].chunk = shown[j].chunk
        BY <1>13 DEF Ids
      <4>2. rs[first].chunk = rs[place[j]].chunk /\ place[j] \in 1..Len(rs)
        BY <1>5, <1>9, <1>10, <2>5, <4>1
      <4>3. first = place[j] /\ place[j] < first
        BY <1>1, <1>5, <2>3, <2>4, <2>5, <4>2
      <4> QED
        BY <2>4, <4>3
    <3>2. ASSUME NEW b \in ToSet(shown), NearDuplicate(rs[first], b) PROVE FALSE
      <4>1. PICK j \in 1..Len(shown) : b = shown[j]
        BY <1>13
      <4>2. ~NearDuplicate(u[j], u[v])
        BY <1>5, <2>3, <2>5
      <4> QED
        BY <1>9, <2>4, <3>2, <4>1, <4>2 DEF NearDuplicate
    <3> QED
      BY <1>1, <2>4, <3>1, <3>2
  <2>7. Min(omitted) = first
    <3> HIDE DEF omitted, first
    <3>1. \A n \in omitted : n \in Nat
      BY <1>16
    <3> QED
      BY <2>3, <2>6, <3>1 DEF Min
  <2> QED
    BY <1>7, <2>1, <2>3, <2>4, <2>7
<1>19. /\ Fits(shown)
       /\ \A i, j \in DOMAIN shown : i < j =>
            /\ At(shown[i]) < At(shown[j])
            /\ ~NearDuplicate(shown[i], shown[j])
            /\ Whole(shown[i])
       /\ \A b \in cut :
            /\ b.tokens >= MinTruncated
            /\ ~Fits(Append(Front(shown), Cut(b, b.tokens + 1)))
       /\ \A n \in omitted, b \in ToSet(shown) : At(b) < n
       /\ omitted # {} =>
            \/ cut # {}
            \/ rs[Min(omitted)].tokens < MinTruncated
            \/ ~Fits(Append(shown, Cut(rs[Min(omitted)], MinTruncated)))
  BY <1>6, <1>14, <1>15, <1>17, <1>18
<1> QED
  BY <1>19, Zenon DEF ContextIsExact, At, Whole, shown, rs

(* ContextAssembler.assemble (generation/context.py), for every ranking of  *)
(* results, likeness, budget and least size of a cut chunk: what the model  *)
(* is shown fits, repeats nothing, keeps the order of the ranks, and leaves *)
(* out no more than it must.                                               *)
THEOREM ContextsAreExact == Spec => []ContextIsExact
<1>1. Init => Ranking(results)
  BY EmptySeq DEF Init, Ranking
<1>2. Ranking(results) /\ [Next]_vars => Ranking(results)'
  <2> SUFFICES ASSUME Ranking(results), [Next]_vars PROVE Ranking(results)'
    OBVIOUS
  <2>1. results' = results \/ results' \in Retrieved
    BY DEF Next, vars, Route, Retrieve, RetrieveFails, Generate, Retry, BackoffEnds,
           GenerateFails, Cancel
  <2>2. CASE results' = results
    BY <2>2 DEF Ranking
  <2>3. CASE results' \in Retrieved
    BY <2>3, RetrievalAssumption DEF Ranking
  <2> QED
    BY <2>1, <2>2, <2>3
<1>3. Ranking(results) => ContextIsExact
  BY ContextOf
<1> QED
  BY <1>1, <1>2, <1>3, PTL DEF Spec

==============================================================================
