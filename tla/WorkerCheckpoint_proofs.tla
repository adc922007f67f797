----------------------- MODULE WorkerCheckpoint_proofs -----------------------
(***************************************************************************)
(* Proofs about WorkerCheckpoint, for any size of parts and of the file,   *)
(* any number of failing calls and a crash at any moment, when a flush     *)
(* ends before the encoder has been drained (Prompt).                      *)
(*                                                                         *)
(* Then one coroutine at most waits for S3, and one upload at most is ever *)
(* created.  What S3 has stored for it is what the worker knows, and       *)
(* perhaps the one part whose answer is missing; either way it is the      *)
(* beginning of the file in full parts numbered from one.                  *)
(***************************************************************************)
EXTENDS WorkerCheckpoint, FiniteSetTheorems, TLAPS

\* Ranges that follow each other from a position, in a file of this size.
Chained(q, from, top) ==
    \A i \in 1..Len(q) :
        /\ q[i].lo = (IF i = 1 THEN from ELSE q[i - 1].hi)
        /\ q[i].lo < q[i].hi /\ q[i].hi <= top

EndOf(q, from) == IF q = <<>> THEN from ELSE q[Len(q)].hi

IsFull(r) == r.hi - r.lo = PartSize
AllFull(q) == \A i \in 1..Len(q) : IsFull(q[i])
FullButLast(q) == \A i \in 1..(Len(q) - 1) : IsFull(q[i])

\* The beginning of a file, in parts numbered from one.
PartSeq(q, top) ==
    /\ q \in Seq(Part) /\ Chained(q, 0, top) /\ FullButLast(q)
    /\ \A i \in 1..Len(q) : q[i].n = i

Elements(q) == {q[i] : i \in 1..Len(q)}

-----------------------------------------------------------------------------
(* The invariant.                                                          *)

Before == {"recording", "draining", "failing"}
After == {"finalize", "fallback", "cleanup"}

\* Who waits for S3, and for what.
Control ==
    /\ phase \in Working => (cp.flushing <=> up["tick"].op # "none")
    /\ phase \in Before => up["fin"].op = "none"
    /\ phase \in After => up["tick"].op = "none"
    /\ phase \notin Working => \A w \in Coroutines : up[w].op = "none"
    /\ phase = "finalize" => up["fin"].op \in {"create", "part", "complete"} /\ ~cp.disabled
    /\ phase = "fallback" => up["fin"].op \in {"abort", "put"}
    /\ phase = "cleanup" => up["fin"].op = "abort"
    /\ up["tick"].op \in {"none", "create", "part", "abort"}
    /\ up["tick"].op \in {"create", "part"} => ~cp.disabled
    /\ up["tick"].op = "abort" => cp.disabled
    /\ phase \in {"finalize", "fallback"} => size > 0

\* What the worker has been told is the beginning of the file.
Known ==
    /\ cp.id \in {0, 1} /\ PartSeq(cp.parts, size) /\ cp.offset = EndOf(cp.parts, 0)
    /\ cp.id = 1 => Len(uploads) = 1

\* The rest of a plan continues where the worker is.
PlanOK(w, plan) ==
    /\ plan \in Seq(Bytes) /\ Chained(plan, cp.offset, size)
    /\ AllFull(cp.parts) /\ FullButLast(plan)
    /\ w = "tick" => AllFull(plan)
    /\ w = "fin" => EndOf(plan, cp.offset) = size

\* The upload of the worker is open and has these parts.
Stored(parts) ==
    /\ Len(uploads) = 1 /\ uploads[1].open /\ uploads[1].parts = parts

CreateOK(w) ==
    LET call == up[w] IN call.op = "create" =>
        /\ cp.id = 0 /\ cp.parts = <<>> /\ cp.next = 1 /\ object = <<>>
        /\ call.plan # <<>> /\ PlanOK(w, call.plan)
        /\ call.st = "sent" => uploads = <<>>
        /\ call.st = "ok" => call.id = 1 /\ Stored({})
        /\ call.st = "error" => uploads = <<>> \/ Stored({})

PartCallOK(w) ==
    LET call == up[w] IN call.op = "part" =>
        /\ cp.id = 1 /\ call.id = 1 /\ object = <<>>
        /\ call.n = Len(cp.parts) + 1 /\ cp.next = call.n + 1
        /\ call.plan # <<>> /\ PlanOK(w, call.plan)
        /\ call.st = "sent" => Stored(Elements(cp.parts))
        /\ call.st = "ok" => Stored(Elements(cp.parts) \cup {PartOf(call)})
        /\ call.st = "error" => \/ Stored(Elements(cp.parts))
                                \/ Stored(Elements(cp.parts) \cup {PartOf(call)})

CompleteOK ==
    LET call == up["fin"] IN call.op = "complete" =>
        /\ cp.id = 1 /\ call.id = 1 /\ cp.parts # <<>> /\ cp.offset = size
        /\ call.st = "sent" => object = <<>>
        /\ call.st = "ok" => object # <<>>
        /\ object = <<>> => Stored(Elements(cp.parts))

AbortOK ==
    /\ \A w \in Coroutines : up[w].op = "abort" => cp.id = 1 /\ up[w].id = 1
    /\ up["fin"].op = "put" => (up["fin"].st = "ok" => object # <<>>)

\* Between flushes, before anything went wrong.
RestOK ==
    phase \in Before /\ ~cp.disabled /\ ~cp.flushing =>
        /\ cp.next = Len(cp.parts) + 1 /\ AllFull(cp.parts)
        /\ cp.id = 0 => uploads = <<>> /\ cp.parts = <<>>
        /\ cp.id = 1 => Stored(Elements(cp.parts))

\* Whatever went wrong, S3 has the beginning of the file.
StoreOK ==
    /\ Len(uploads) <= 1
    /\ Len(uploads) = 1 =>
        PartSeq(Listed(1), size) /\ uploads[1].parts = Elements(Listed(1))

ObjectOK ==
    /\ object # <<>> =>
        /\ phase \notin Before \cup {"cleanup"}
        /\ Gapless(object) /\ object[Len(object)].hi \in 1..size
        /\ phase # "recovered" => object[Len(object)].hi = size
    /\ phase \in {"finalized", "recovered"} => object # <<>>

IInv ==
    /\ TypeOK /\ Control /\ Known
    /\ \A w \in Coroutines : CreateOK(w) /\ PartCallOK(w)
    /\ CompleteOK /\ AbortOK /\ RestOK /\ StoreOK /\ ObjectOK

-----------------------------------------------------------------------------
(* Sequences of parts.                                                     *)

\* Every set of natural numbers has a least element.
LEMMA LeastElement ==
  ASSUME NEW S \in SUBSET Nat, S # {}
  PROVE  \E m \in S : \A n \in S : m <= n
<1>1. IsWellFoundedOn(OpToRel(<, Nat), Nat)
  BY NatLessThanWellFounded
<1>2. PICK m \in S : \A n \in Nat : <<n, m>> \in OpToRel(<, Nat) => n \notin S
  BY <1>1, WFMin
<1>3. ASSUME NEW n \in S
      PROVE  m <= n
  <2>1. n \in Nat /\ m \in Nat
    OBVIOUS
  <2>2. n < m => <<n, m>> \in OpToRel(<, Nat)
    BY <2>1, Zenon DEF OpToRel
  <2>3. ~(n < m)
    BY <1>2, <2>1, <2>2
  <2> QED BY <2>1, <2>3
<1> QED BY <1>3

\* Ranges and parts lie between positions of the file.
LEMMA Positions ==
  /\ \A r \in Bytes : r.lo \in Int /\ r.hi \in Int
  /\ \A p \in Part : p.lo \in Int /\ p.hi \in Int /\ p.n \in Nat
  BY ConstantsAssumption DEF Bytes, Part

\* The end of a sequence of parts is a position of the file.
LEMMA EndOfParts ==
  ASSUME NEW top \in 0..MaxSize, NEW q, PartSeq(q, top)
  PROVE  /\ EndOf(q, 0) \in 0..top
         /\ q # <<>> => EndOf(q, 0) \in 1..top /\ EndOf(q, 0) = q[Len(q)].hi
<1>1. q \in Seq(Part) /\ Len(q) \in Nat /\ (q # <<>> => Len(q) \in 1..Len(q))
  BY DEF PartSeq
<1>2. CASE q = <<>>
  BY <1>2, ConstantsAssumption DEF EndOf
<1>3. CASE q # <<>>
  <2>1. /\ q[Len(q)] \in Part /\ q[Len(q)].lo < q[Len(q)].hi /\ q[Len(q)].hi <= top
    BY <1>1, <1>3 DEF PartSeq, Chained
  <2>2. q[Len(q)].lo \in Nat /\ q[Len(q)].hi \in Nat
    BY <2>1, ConstantsAssumption DEF Part
  <2> QED BY <1>3, <2>1, <2>2, ConstantsAssumption DEF EndOf
<1> QED BY <1>2, <1>3

\* A file that grows keeps its beginning.
LEMMA PartsOfMore ==
  ASSUME NEW top \in 0..MaxSize, NEW more \in 0..MaxSize, top <= more,
         NEW q, PartSeq(q, top)
  PROVE  PartSeq(q, more)
<1>1. \A i \in 1..Len(q) : q[i] \in Part
  BY DEF PartSeq
<1>2. \A i \in 1..Len(q) : q[i].hi \in Int
  BY <1>1, Positions
<1> QED BY <1>2 DEF PartSeq, Chained

\* Ranges of a file are ranges of the file that has grown.
LEMMA ChainedInMore ==
  ASSUME NEW top \in 0..MaxSize, NEW more \in 0..MaxSize, top <= more,
         NEW from, NEW q \in Seq(Bytes), Chained(q, from, top)
  PROVE  Chained(q, from, more)
<1>1. \A i \in 1..Len(q) : q[i] \in Bytes
  OBVIOUS
<1>2. \A i \in 1..Len(q) : q[i].hi \in Int
  BY <1>1, Positions
<1> QED BY <1>2 DEF Chained

\* The empty sequence of parts.
LEMMA NoParts ==
  ASSUME NEW top \in 0..MaxSize
  PROVE  /\ PartSeq(<<>>, top) /\ EndOf(<<>>, 0) = 0 /\ AllFull(<<>>)
         /\ Elements(<<>>) = {}
  BY DEF PartSeq, Chained, EndOf, AllFull, FullButLast, Elements

\* Full parts, and the one that follows them.
LEMMA NextPart ==
  ASSUME NEW top \in 0..MaxSize, NEW q, PartSeq(q, top), AllFull(q),
         NEW p \in Part, p.n = Len(q) + 1, p.lo = EndOf(q, 0), p.lo < p.hi, p.hi <= top
  PROVE  /\ PartSeq(Append(q, p), top) /\ EndOf(Append(q, p), 0) = p.hi
         /\ Append(q, p) # <<>> /\ Len(Append(q, p)) = Len(q) + 1
         /\ Elements(Append(q, p)) = Elements(q) \cup {p}
         /\ IsFull(p) => AllFull(Append(q, p))
<1> DEFINE s == Append(q, p)
           k == Len(q)
<1>1. /\ q \in Seq(Part) /\ k \in Nat /\ s \in Seq(Part) /\ Len(s) = k + 1
      /\ \A i \in 1..k : s[i] = q[i]
      /\ s[k + 1] = p /\ s # <<>>
  BY DEF PartSeq
<1> HIDE DEF s
<1>2. \A i \in 1..Len(s) : s[i].n = i
  BY <1>1 DEF PartSeq
<1>3. FullButLast(s)
  BY <1>1 DEF FullButLast, AllFull
<1>4. Chained(s, 0, top)
  <2> SUFFICES ASSUME NEW i \in 1..(k + 1)
               PROVE  /\ s[i].lo = (IF i = 1 THEN 0 ELSE s[i - 1].hi)
                      /\ s[i].lo < s[i].hi /\ s[i].hi <= top
    BY <1>1 DEF Chained
  <2>1. CASE i \in 1..k
    <3>1. s[i] = q[i] /\ (i # 1 => s[i - 1] = q[i - 1])
      BY <1>1, <2>1
    <3> QED BY <1>1, <2>1, <3>1 DEF PartSeq, Chained
  <2>2. CASE i = k + 1
    <3>1. s[i] = p
      BY <1>1, <2>2
    <3>2. CASE k = 0
      <4>1. q = <<>>
        BY <1>1, <3>2
      <4> QED BY <2>2, <3>1, <3>2, <4>1 DEF EndOf
    <3>3. CASE k # 0
      <4>1. q # <<>> /\ s[i - 1] = q[k]
        BY <1>1, <2>2, <3>3
      <4> QED BY <1>1, <2>2, <3>1, <3>3, <4>1 DEF EndOf
    <3> QED BY <3>2, <3>3
  <2> QED BY <1>1, <2>1, <2>2
<1>5. Elements(s) = Elements(q) \cup {p}
  <2>1. 1..Len(s) = (1..k) \cup {k + 1}
    BY <1>1
  <2> QED BY <1>1, <2>1 DEF Elements
<1>6. IsFull(p) => AllFull(s)
  BY <1>1 DEF AllFull
<1>7. EndOf(s, 0) = p.hi
  BY <1>1 DEF EndOf
<1> QED BY <1>1, <1>2, <1>3, <1>4, <1>5, <1>6, <1>7 DEF PartSeq, s

\* The first range of a plan, and what is left of it.
LEMMA RestOfPlan ==
  ASSUME NEW top \in 0..MaxSize, NEW plan \in Seq(Bytes), plan # <<>>,
         NEW from, Chained(plan, from, top), FullButLast(plan)
  PROVE  /\ plan[1] \in Bytes /\ plan[1].lo = from
         /\ plan[1].lo < plan[1].hi /\ plan[1].hi <= top
         /\ Tail(plan) \in Seq(Bytes) /\ Chained(Tail(plan), plan[1].hi, top)
         /\ FullButLast(Tail(plan))
         /\ AllFull(plan) => IsFull(plan[1]) /\ AllFull(Tail(plan))
         /\ Tail(plan) # <<>> => IsFull(plan[1])
         /\ EndOf(Tail(plan), plan[1].hi) = EndOf(plan, from)
<1> DEFINE t == Tail(plan)
           k == Len(plan)
<1>1. /\ k \in Nat /\ k >= 1 /\ t \in Seq(Bytes) /\ Len(t) = k - 1
      /\ \A i \in 1..(k - 1) : t[i] = plan[i + 1]
      /\ t # <<>> <=> k > 1
  <2>1. k \in Nat /\ k >= 1
    OBVIOUS
  <2>2. t \in Seq(Bytes) /\ Len(t) = k - 1 /\ \A i \in 1..(k - 1) : t[i] = plan[i + 1]
    OBVIOUS
  <2>3. t = <<>> <=> Len(t) = 0
    BY <2>2
  <2> QED BY <2>1, <2>2, <2>3
<1> HIDE DEF t
<1>2. plan[1] \in Bytes /\ plan[1].lo = from /\ plan[1].lo < plan[1].hi /\ plan[1].hi <= top
  BY <1>1 DEF Chained
<1>3. Chained(t, plan[1].hi, top)
  <2> SUFFICES ASSUME NEW i \in 1..(k - 1)
               PROVE  /\ t[i].lo = (IF i = 1 THEN plan[1].hi ELSE t[i - 1].hi)
                      /\ t[i].lo < t[i].hi /\ t[i].hi <= top
    BY <1>1 DEF Chained
  <2>1. t[i] = plan[i + 1] /\ i + 1 \in 1..k /\ i + 1 # 1 /\ (i + 1) - 1 = i
    BY <1>1
  <2>2. i # 1 => t[i - 1] = plan[i]
    BY <1>1
  <2> QED BY <2>1, <2>2 DEF Chained
<1>4. FullButLast(t) /\ (t # <<>> => IsFull(plan[1]))
  <2>1. \A i \in 1..(k - 1) : IsFull(plan[i])
    BY DEF FullButLast
  <2>2. ASSUME NEW i \in 1..(Len(t) - 1)
        PROVE  IsFull(t[i])
    <3>1. i \in 1..(k - 1) /\ i + 1 \in 1..(k - 1)
      BY <1>1
    <3> QED BY <1>1, <2>1, <3>1
  <2>3. t # <<>> => 1 \in 1..(k - 1)
    BY <1>1
  <2> QED BY <2>1, <2>2, <2>3 DEF FullButLast
<1>5. AllFull(plan) => IsFull(plan[1]) /\ AllFull(t)
  BY <1>1 DEF AllFull
<1>6. EndOf(t, plan[1].hi) = EndOf(plan, from)
  BY <1>1 DEF EndOf
<1> QED BY <1>1, <1>2, <1>3, <1>4, <1>5, <1>6 DEF t

-----------------------------------------------------------------------------
(* What S3 lists.                                                          *)

\* A function that climbs from 1..k into 1..k has no room to leave out a value.
LEMMA Climbing ==
  ASSUME NEW k \in Nat, NEW f \in [1..k -> 1..k],
         \A i, j \in 1..k : i < j => f[i] < f[j]
  PROVE  \A i \in 1..k : f[i] = i
<1>0. \A i \in 1..k : f[i] \in Int /\ f[i] >= 1 /\ f[i] <= k
  OBVIOUS
<1>1. \A i \in 1..k : ~(f[i] < i)
  <2> DEFINE S == {i \in 1..k : f[i] < i}
  <2> SUFFICES ASSUME S # {} PROVE FALSE
    OBVIOUS
  <2>1. PICK m \in S : \A n \in S : m <= n
    <3>1. S \in SUBSET Nat
      OBVIOUS
    <3> HIDE DEF S
    <3> QED BY <3>1, LeastElement
  <2>2. m \in 1..k /\ f[m] < m
    OBVIOUS
  <2>3. m # 1
    BY <1>0, <2>2
  <2>4. m - 1 \in 1..k /\ m - 1 < m
    BY <2>2, <2>3
  <2>5. m - 1 \notin S
    <3>1. m \in Int /\ ~(m <= m - 1)
      BY <2>2
    <3> HIDE DEF S
    <3> QED BY <2>1, <3>1
  <2>6. ~(f[m - 1] < m - 1) /\ f[m - 1] < f[m]
    BY <2>2, <2>4, <2>5
  <2> QED BY <1>0, <2>2, <2>4, <2>6
<1>2. \A i \in 1..k : ~(f[i] > i)
  <2> DEFINE S == {d \in 0..(k - 1) : f[k - d] > k - d}
  <2>0. SUFFICES ASSUME S # {} PROVE FALSE
    <3> SUFFICES ASSUME NEW i \in 1..k, f[i] > i PROVE S # {}
      OBVIOUS
    <3>1. k - i \in 0..(k - 1) /\ k - (k - i) = i
      OBVIOUS
    <3>2. k - i \in S
      BY <3>1
    <3> QED BY <3>2
  <2>1. PICK d \in S : \A n \in S : d <= n
    <3>1. S \in SUBSET Nat
      OBVIOUS
    <3> HIDE DEF S
    <3> QED BY <2>0, <3>1, LeastElement
  <2>2. d \in 0..(k - 1) /\ f[k - d] > k - d /\ k - d \in 1..k
    OBVIOUS
  <2>3. d # 0
    BY <1>0, <2>2
  <2>4. /\ d - 1 \in 0..(k - 1) /\ d - 1 < d
        /\ k - (d - 1) \in 1..k /\ k - d < k - (d - 1)
    BY <2>2, <2>3
  <2>5. d - 1 \notin S
    <3>1. d \in Int /\ ~(d <= d - 1)
      BY <2>2
    <3> HIDE DEF S
    <3> QED BY <2>1, <3>1
  <2>6. ~(f[k - (d - 1)] > k - (d - 1)) /\ f[k - d] < f[k - (d - 1)]
    BY <2>2, <2>4, <2>5
  <2>7. f[k - (d - 1)] \in Int /\ f[k - d] \in Int /\ d \in Int
    BY <1>0, <2>2, <2>4
  <2> QED BY <2>2, <2>6, <2>7
<1> QED BY <1>0, <1>1, <1>2

\* The order in which S3 lists a set of parts.
ListOf(ps) ==
    CHOOSE s \in [1..Cardinality(ps) -> ps] :
        \A i, j \in 1..Cardinality(ps) : i < j => s[i].n < s[j].n

\* Listed is ListOf of the stored parts, before a step and after it.
LEMMA ListedParts ==
  \A id : Listed(id) = ListOf(uploads[id].parts) /\ Listed(id)' = ListOf(uploads'[id].parts)
  BY DEF Listed, ListOf

\* S3 lists the parts of an upload in the order in which they are the
\* beginning of the file.
LEMMA ListOfParts ==
  ASSUME NEW top, NEW q, PartSeq(q, top)
  PROVE  ListOf(Elements(q)) = q
<1> DEFINE k == Len(q)
           E == Elements(q)
           Sorted(s) == \A i, j \in 1..k : i < j => s[i].n < s[j].n
<1>1. k \in Nat /\ (\A i \in 1..k : q[i] \in E /\ q[i].n = i)
  BY DEF PartSeq, Elements
<1>2. \A p \in E : p.n \in 1..k /\ p = q[p.n]
  BY <1>1 DEF Elements
<1>3. q \in [1..k -> E]
  <2>1. q = [i \in 1..k |-> q[i]]
    BY DEF PartSeq
  <2> QED BY <1>1, <2>1
<1>4. Sorted(q)
  BY <1>1
<1>5. Cardinality(E) = k
  <2>1. q \in Injection(1..k, E)
    BY <1>1, <1>3 DEF Injection, IsInjective
  <2>2. q \in Surjection(1..k, E)
    BY <1>2, <1>3 DEF Surjection
  <2>3. ExistsBijection(1..k, E)
    BY <2>1, <2>2 DEF ExistsBijection, Bijection
  <2> QED BY <1>1, <2>3, FS_CountingElements
<1>6. ASSUME NEW s \in [1..k -> E], Sorted(s)
      PROVE  s = q
  <2> DEFINE f == [i \in 1..k |-> s[i].n]
  <2>1. f \in [1..k -> 1..k]
    BY <1>2, <1>6
  <2>2. \A i, j \in 1..k : i < j => f[i] < f[j]
    BY <1>6
  <2>3. \A i \in 1..k : f[i] = i
    <3> HIDE DEF f
    <3> QED BY <1>1, <2>1, <2>2, Climbing
  <2>4. \A i \in 1..k : s[i] = q[i]
    BY <1>2, <1>6, <2>3
  <2> QED BY <1>3, <1>6, <2>4
<1>7. ListOf(E) = CHOOSE s \in [1..k -> E] : Sorted(s)
  BY <1>5 DEF ListOf
<1>8. ListOf(E) = q
  <2> HIDE DEF Sorted, E
  <2> QED BY <1>3, <1>4, <1>6, <1>7
<1> QED BY <1>8

-----------------------------------------------------------------------------
(* The plan.                                                               *)

\* Facts of multiplication the provers need to be told.
LEMMA Products ==
  ASSUME NEW d \in Nat, NEW c \in Nat
  PROVE  /\ c * d \in Nat /\ (c - 1) * d = c * d - d /\ (c + 1) * d = c * d + d
         /\ \A k \in 0..c : k * d \in Nat /\ k * d <= c * d
<1>1. c * d \in Nat /\ (c - 1) * d = c * d - d /\ (c + 1) * d = c * d + d
  OBVIOUS
<1>2. ASSUME NEW k \in 0..c
      PROVE  k * d \in Nat /\ k * d <= c * d
  <2>1. PICK e \in Nat : c = k + e
    <3>1. c - k \in Nat /\ c = k + (c - k)
      OBVIOUS
    <3> QED BY <3>1
  <2>2. k \in Nat /\ c * d = k * d + e * d /\ e * d \in Nat /\ k * d \in Nat
    BY <2>1
  <2> QED BY <2>2
<1> QED BY <1>1, <1>2

\* What integer division gives.
LEMMA Division ==
  ASSUME NEW n \in Nat, NEW d \in Nat \ {0}
  PROVE  /\ n \div d \in Nat
         /\ (n \div d) * d <= n /\ n < (n \div d) * d + d
  OBVIOUS

\* Min of two numbers.
LEMMA MinOfTwo ==
  ASSUME NEW a \in Int, NEW b \in Int
  PROVE  Min({a, b}) = IF a <= b THEN a ELSE b
  BY DEF Min

\* computePartPlan cuts what is left of the file into ranges that follow each
\* other, all full but perhaps the last one of the final plan, which ends
\* where the file ends.
LEMMA PlanOf ==
  ASSUME size \in 0..MaxSize, NEW offset \in 0..size, NEW final \in BOOLEAN
  PROVE  LET plan == ComputePartPlan(offset, final) IN
         /\ plan \in Seq(Bytes) /\ Chained(plan, offset, size) /\ FullButLast(plan)
         /\ ~final => AllFull(plan)
         /\ final => EndOf(plan, offset) = size
<1> DEFINE left == size - offset
           total == IF final THEN left + PartSize - 1 ELSE left
           c == IF left > 0 THEN total \div PartSize ELSE 0
           r(k) == [lo |-> offset + (k - 1) * PartSize,
                    hi |-> Min({offset + k * PartSize, size})]
           plan == [k \in 1..c |-> r(k)]
<1>0. /\ size \in Nat /\ MaxSize \in Nat /\ size <= MaxSize /\ offset \in Nat
      /\ offset <= size /\ PartSize \in Nat \ {0} /\ left \in Nat /\ total \in Nat
  BY ConstantsAssumption
<1>1. ComputePartPlan(offset, final) = plan
  BY DEF ComputePartPlan
<1>2. /\ c \in Nat /\ c * PartSize \in Nat
      /\ ~final => c * PartSize <= left
      /\ final => (c - 1) * PartSize < left \/ c = 0
      /\ final => left <= c * PartSize
  <2>1. CASE left > 0
    <3> DEFINE e == total \div PartSize
    <3>1. e \in Nat /\ e * PartSize <= total /\ total < e * PartSize + PartSize
      BY <1>0, Division
    <3>2. c = e
      BY <2>1
    <3> HIDE DEF e, c
    <3>3. e * PartSize \in Nat /\ (e - 1) * PartSize = e * PartSize - PartSize
      BY <1>0, <3>1, Products
    <3> QED BY <1>0, <3>1, <3>2, <3>3
  <2>2. CASE left = 0
    <3>1. c = 0
      BY <2>2
    <3> HIDE DEF c
    <3> QED BY <1>0, <2>2, <3>1
  <2> QED BY <1>0, <2>1, <2>2
<1> HIDE DEF c
<1>3. /\ (c - 1) * PartSize = c * PartSize - PartSize
      /\ \A k \in 0..c : k * PartSize \in Nat /\ k * PartSize <= c * PartSize
  BY <1>0, <1>2, Products
<1>4. ASSUME NEW k \in 1..c
      PROVE  /\ r(k).lo = offset + (k - 1) * PartSize /\ r(k).lo \in Nat
             /\ r(k).hi \in Nat /\ r(k).lo < r(k).hi /\ r(k).hi <= size
             /\ (~final \/ k # c) => r(k).hi = offset + k * PartSize
             /\ (final /\ k = c) => r(k).hi = size
             /\ r(k).hi = offset + k * PartSize => IsFull(r(k))
  <2> DEFINE a == k * PartSize
             b == (k - 1) * PartSize
             m == Min({offset + a, size})
  <2>1. /\ a \in Nat /\ a <= c * PartSize /\ b \in Nat /\ b = a - PartSize
        /\ k \in Nat /\ (k # c => k \in 0..(c - 1))
    <3>1. k \in 0..c /\ k - 1 \in 0..c /\ k \in Nat /\ (k # c => k \in 0..(c - 1))
      BY <1>2
    <3>2. b = a - PartSize
      BY <1>0, <3>1, Products
    <3> QED BY <1>3, <3>1, <3>2
  <2>2. k # c => a <= (c - 1) * PartSize
    <3> SUFFICES ASSUME k # c PROVE a <= (c - 1) * PartSize
      OBVIOUS
    <3>1. c - 1 \in Nat /\ k \in 0..(c - 1)
      BY <1>2, <2>1
    <3> QED BY <1>0, <3>1, Products
  <2>3. b <= (c - 1) * PartSize
    BY <1>0, <1>2, <1>3, <2>1
  <2>4. c # 0
    BY <1>2
  <2> HIDE DEF a, b
  <2>5. offset + b < size
    BY <1>0, <1>2, <1>3, <2>1, <2>3, <2>4
  <2>6. (~final \/ k # c) => offset + a <= size
    BY <1>0, <1>2, <1>3, <2>1, <2>2, <2>4
  <2>7. (final /\ k = c) => offset + a >= size
    BY <1>0, <1>2 DEF a
  <2>8. m = IF offset + a <= size THEN offset + a ELSE size
    BY <1>0, <2>1, MinOfTwo
  <2>9. r(k).lo = offset + b /\ r(k).hi = m
    BY DEF a, b
  <2> HIDE DEF m, r
  <2>10. m \in Nat /\ offset + b < m /\ m <= size
    BY <1>0, <2>1, <2>5, <2>8
  <2>11. r(k).hi = offset + a => IsFull(r(k))
    BY <1>0, <2>1, <2>9 DEF IsFull
  <2>12. (~final \/ k # c) => m = offset + a
    BY <2>6, <2>8
  <2>13. (final /\ k = c) => m = size
    BY <1>0, <2>1, <2>7, <2>8
  <2>14. offset + b \in Nat
    BY <1>0, <2>1
  <2> QED BY <2>9, <2>10, <2>11, <2>12, <2>13, <2>14 DEF a, b
<1>5. /\ Len(plan) = c /\ (\A k \in 1..c : plan[k] = r(k))
      /\ plan = <<>> <=> c = 0
  BY <1>2
<1>6. plan \in Seq(Bytes)
  <2>1. \A k \in 1..c : r(k) \in Bytes
    <3> SUFFICES ASSUME NEW k \in 1..c PROVE r(k) \in Bytes
      OBVIOUS
    <3> DEFINE lo == offset + (k - 1) * PartSize
               hi == Min({offset + k * PartSize, size})
    <3>1. lo \in 0..MaxSize /\ hi \in 0..MaxSize
      <4>1. r(k).lo = lo /\ r(k).hi = hi
        OBVIOUS
      <4> HIDE DEF r, lo, hi
      <4> QED BY <1>0, <1>4, <4>1
    <3> HIDE DEF lo, hi
    <3>2. r(k) = [lo |-> lo, hi |-> hi]
      BY DEF lo, hi
    <3> QED BY <3>1, <3>2 DEF Bytes
  <2> HIDE DEF r
  <2> QED BY <1>2, <2>1
<1> HIDE DEF r, plan
<1>7. Chained(plan, offset, size)
  <2> SUFFICES ASSUME NEW i \in 1..c
               PROVE  /\ r(i).lo = (IF i = 1 THEN offset ELSE plan[i - 1].hi)
                      /\ r(i).lo < r(i).hi /\ r(i).hi <= size
    BY <1>5 DEF Chained
  <2>1. CASE i = 1
    <3>1. (i - 1) * PartSize = 0
      BY <1>0, <2>1
    <3> QED BY <1>0, <1>4, <2>1, <3>1
  <2>2. CASE i # 1
    <3>1. i - 1 \in 1..c /\ i - 1 # c
      BY <1>2, <2>2
    <3>2. r(i - 1).hi = offset + (i - 1) * PartSize
      BY <1>4, <3>1
    <3> QED BY <1>4, <1>5, <2>2, <3>1, <3>2
  <2> QED BY <2>1, <2>2
<1>8. FullButLast(plan)
  <2> SUFFICES ASSUME NEW i \in 1..(c - 1) PROVE IsFull(r(i))
    BY <1>2, <1>5 DEF FullButLast
  <2>1. i \in 1..c /\ i # c
    BY <1>2
  <2> QED BY <1>4, <2>1
<1>9. ~final => AllFull(plan)
  BY <1>4, <1>5 DEF AllFull
<1>10. final => EndOf(plan, offset) = size
  <2>1. CASE c = 0
    <3>1. final => left = 0
      BY <1>0, <1>2, <2>1
    <3> QED BY <1>0, <1>5, <2>1, <3>1 DEF EndOf
  <2>2. CASE c # 0
    <3>1. c \in 1..c
      BY <1>2, <2>2
    <3> QED BY <1>4, <1>5, <2>2, <3>1 DEF EndOf
  <2> QED BY <2>1, <2>2
<1> QED BY <1>1, <1>6, <1>7, <1>8, <1>9, <1>10

-----------------------------------------------------------------------------
(* Objects and uploads.                                                    *)

\* The object that is made of the beginning of the file.
LEMMA ObjectOf ==
  ASSUME NEW top \in 0..MaxSize, NEW q, PartSeq(q, top), q # <<>>,
         NEW o, o = [i \in 1..Len(q) |-> [lo |-> q[i].lo, hi |-> q[i].hi]]
  PROVE  /\ o \in Seq(Bytes) /\ o # <<>> /\ Gapless(o)
         /\ o[Len(o)].hi = EndOf(q, 0) /\ EndOf(q, 0) \in 1..top
<1>1. Len(q) \in Nat /\ Len(q) >= 1 /\ \A i \in 1..Len(q) : q[i] \in Part
  BY DEF PartSeq
<1>2. \A i \in 1..Len(q) : [lo |-> q[i].lo, hi |-> q[i].hi] \in Bytes
  BY <1>1 DEF Part, Bytes
<1>3. /\ o \in Seq(Bytes) /\ Len(o) = Len(q) /\ o # <<>>
      /\ \A i \in 1..Len(q) : o[i] = [lo |-> q[i].lo, hi |-> q[i].hi]
  BY <1>1, <1>2
<1>4. \A i \in 1..Len(q) : o[i].lo = q[i].lo /\ o[i].hi = q[i].hi
  BY <1>3
<1>5. Gapless(o)
  <2> SUFFICES ASSUME NEW i \in 1..Len(q)
               PROVE  o[i].lo = (IF i = 1 THEN 0 ELSE o[i - 1].hi)
    BY <1>3 DEF Gapless
  <2>1. q[i].lo = (IF i = 1 THEN 0 ELSE q[i - 1].hi)
    BY DEF PartSeq, Chained
  <2>2. i # 1 => i - 1 \in 1..Len(q)
    BY <1>1
  <2> QED BY <1>4, <2>1, <2>2
<1> QED BY <1>1, <1>3, <1>4, <1>5, EndOfParts

\* Parts that are the beginning of the file hold it up to their end.
LEMMA HeldParts ==
  ASSUME NEW q, PartSeq(q, size)
  PROVE  Held(q) = EndOf(q, 0)
  BY DEF PartSeq, Chained, Held, Gapless, EndOf

\* Recovery takes the only upload there is, when it is open.
LEMMA OneOrphan ==
  ASSUME uploads \in Seq([open : BOOLEAN, parts : SUBSET Part]), Len(uploads) <= 1
  PROVE  Orphan = IF Len(uploads) = 1 /\ uploads[1].open THEN 1 ELSE 0
<1> DEFINE S == {0} \cup {id \in 1..Len(uploads) : uploads[id].open}
<1>1. CASE Len(uploads) = 1 /\ uploads[1].open
  <2>1. S = {0, 1}
    BY <1>1
  <2>2. Max({0, 1}) = 1
    BY DEF Max
  <2> QED BY <1>1, <2>1, <2>2 DEF Orphan
<1>2. CASE ~(Len(uploads) = 1 /\ uploads[1].open)
  <2>1. S = {0}
    <3>1. Len(uploads) \in Nat
      OBVIOUS
    <3> HIDE DEF S
    <3>2. ASSUME NEW id \in 1..Len(uploads)
          PROVE  id = 1 /\ Len(uploads) = 1
      <4> DEFINE l == Len(uploads)
      <4>1. l \in Nat /\ l <= 1 /\ id \in 1..l
        BY <3>1
      <4> HIDE DEF l
      <4>2. id = 1 /\ l = 1
        BY <4>1
      <4> QED BY <4>2 DEF l
    <3>3. \A id \in 1..Len(uploads) : ~uploads[id].open
      BY <1>2, <3>2
    <3> QED BY <3>3, Zenon DEF S
  <2>2. Max({0}) = 0
    BY DEF Max
  <2> QED BY <1>2, <2>1, <2>2 DEF Orphan
<1> QED BY <1>1, <1>2

\* What is stored is the beginning of the file when it is the set of a
\* sequence of parts.
LEMMA StoreHolds ==
  ASSUME NEW q, PartSeq(q, size'), uploads'[1].parts = Elements(q), Len(uploads') <= 1
  PROVE  StoreOK'
<1>1. Listed(1)' = q
  BY ListOfParts, ListedParts
<1>2. (PartSeq(Listed(1), size) /\ uploads[1].parts = Elements(Listed(1)))'
  BY <1>1
<1> QED BY <1>2 DEF StoreOK

\* What S3 stores stays the beginning of a file that only grows.
LEMMA StoreStays ==
  ASSUME TypeOK, StoreOK, size' \in size..MaxSize, Len(uploads') = Len(uploads),
         Len(uploads) = 1 => uploads'[1].parts = uploads[1].parts
  PROVE  StoreOK'
<1>1. CASE Len(uploads) = 1
  <2>2. size \in 0..MaxSize /\ size' \in 0..MaxSize /\ size <= size'
    BY ConstantsAssumption DEF TypeOK
  <2>3. PartSeq(Listed(1), size) /\ uploads[1].parts = Elements(Listed(1))
    BY <1>1 DEF StoreOK
  <2>4. PartSeq(Listed(1), size')
    BY <2>2, <2>3, PartsOfMore
  <2> QED BY <1>1, <2>3, <2>4, StoreHolds
<1>2. CASE Len(uploads) # 1
  BY <1>2 DEF StoreOK
<1> QED BY <1>1, <1>2

-----------------------------------------------------------------------------
(* What the coroutines do between their calls.                             *)

\* A coroutine is about to follow a plan from where the worker is.
Planned(w, c, ph, plan) ==
    /\ c \in Checkpointer /\ c.next = Len(c.parts) + 1 /\ ~c.disabled
    /\ PartSeq(c.parts, size) /\ c.offset = EndOf(c.parts, 0) /\ object = <<>>
    /\ plan \in Seq(Bytes) /\ Chained(plan, c.offset, size) /\ FullButLast(plan)
    /\ plan # <<>> => AllFull(c.parts)
    /\ w = "tick" => /\ AllFull(c.parts) /\ AllFull(plan) /\ c.flushing
                     /\ ph \in Before /\ up["fin"].op = "none"
    /\ w = "fin" => /\ EndOf(plan, c.offset) = size /\ ~c.flushing
                    /\ ph = "finalize" /\ up["tick"].op = "none" /\ size > 0

\* S3 has what the worker knows.
Ready(w, c, ph, plan) ==
    Planned(w, c, ph, plan) /\ c.id = 1 /\ Stored(Elements(c.parts))

\* The calls of the worker are well-typed.
LEMMA CallTypes ==
  /\ NoCall \in Call /\ NoCall.op = "none" /\ NoCall.st = "sent"
  /\ \A op \in {"complete", "abort", "put"}, id \in Nat :
        /\ Request(op, id) \in Call /\ Request(op, id).op = op
        /\ Request(op, id).st = "sent" /\ Request(op, id).id = id
  BY DEF NoCall, Request, Call

\* What Await does to the coroutines.
LEMMA Sent ==
  ASSUME TypeOK, NEW w \in Coroutines, NEW call \in Call, NEW c, NEW ph,
         Await(w, c, ph, call)
  PROVE  /\ up' \in [Coroutines -> Call] /\ up'[w] = call /\ cp' = c /\ phase' = ph
         /\ \A v \in Coroutines : v # w => up'[v] = up[v]
  BY DEF TypeOK, Await

\* uploadRange goes out, or the flush is over, or finalize completes.
LEMMA UploadNextKeeps ==
  ASSUME TypeOK, StoreOK, NEW w \in Coroutines, NEW c, NEW ph, NEW plan,
         Ready(w, c, ph, plan), UploadNext(w, c, ph, plan),
         UNCHANGED <<size, s3Vars, faults>>
  PROVE  IInv'
<1>0. /\ size' = size /\ uploads' = uploads /\ object' = object /\ faults' = faults
      /\ object' = <<>> /\ c.parts \in Seq(Part) /\ size \in 0..MaxSize
      /\ w = "tick" \/ w = "fin"
  BY DEF s3Vars, Ready, Planned, PartSeq, TypeOK, Coroutines
<1>1. StoreOK'
  BY <1>0, StoreStays DEF TypeOK
<1>2. CASE plan # <<>>
  <2> DEFINE call == [op |-> "part", st |-> "sent", plan |-> plan, id |-> c.id, n |-> c.next]
             d == [c EXCEPT !.next = @ + 1]
  <2>1. Await(w, d, ph, call)
    BY <1>2 DEF UploadNext
  <2>2. /\ call \in Call /\ call.op = "part" /\ call.st = "sent" /\ call.plan = plan
        /\ call.id = 1 /\ call.n = c.next
    BY DEF Call, Ready, Planned, Checkpointer
  <2>3. /\ d \in Checkpointer /\ d.next = c.next + 1 /\ d.id = c.id /\ d.parts = c.parts
        /\ d.offset = c.offset /\ d.flushing = c.flushing /\ d.disabled = c.disabled
    BY DEF Ready, Planned, Checkpointer
  <2> HIDE DEF call, d
  <2>4. /\ up' \in [Coroutines -> Call] /\ up'[w] = call /\ cp' = d /\ phase' = ph
        /\ \A v \in Coroutines : v # w => up'[v] = up[v]
    BY <2>1, <2>2, Sent
  <2>5. \A v \in Coroutines : v # w => up'[v].op = "none"
    BY <2>4 DEF Ready, Planned, Coroutines
  <2>6. ph \in Before \cup {"finalize"}
    BY <1>0 DEF Ready, Planned
  <2>7. TypeOK'
    BY <1>0, <2>3, <2>4, <2>6 DEF TypeOK, Before, Working
  <2>8. Control'
    BY <1>0, <2>2, <2>3, <2>4, <2>5, <2>6 DEF Control, Ready, Planned, Before, After, Working, Coroutines
  <2>9. Known'
    BY <1>0, <2>3, <2>4 DEF Known, Ready, Planned, Stored
  <2>10. PlanOK(w, plan)'
    BY <1>0, <1>2, <2>3, <2>4 DEF PlanOK, Ready, Planned, Chained, AllFull, FullButLast, IsFull, EndOf
  <2>11. PartCallOK(w)'
    BY <1>0, <1>2, <2>2, <2>3, <2>4, <2>10 DEF PartCallOK, Ready, Planned, Stored
  <2>12. \A v \in Coroutines : CreateOK(v)' /\ PartCallOK(v)'
    BY <2>2, <2>4, <2>5, <2>11 DEF CreateOK, PartCallOK
  <2>13. CompleteOK' /\ AbortOK'
    BY <2>2, <2>4, <2>5 DEF CompleteOK, AbortOK, Coroutines
  <2>14. RestOK'
    BY <1>0, <2>3, <2>4, <2>6 DEF RestOK, Ready, Planned, Before
  <2>15. ObjectOK'
    BY <1>0, <2>4, <2>6 DEF ObjectOK, Before
  <2> QED BY <1>1, <2>7, <2>8, <2>9, <2>12, <2>13, <2>14, <2>15 DEF IInv
<1>3. CASE plan = <<>> /\ w = "tick"
  <2> DEFINE d == [c EXCEPT !.flushing = FALSE]
  <2>1. Await(w, d, ph, NoCall)
    BY <1>3 DEF UploadNext
  <2>3. /\ d \in Checkpointer /\ d.next = c.next /\ d.id = c.id /\ d.parts = c.parts
        /\ d.offset = c.offset /\ ~d.flushing /\ d.disabled = c.disabled
    BY DEF Ready, Planned, Checkpointer
  <2> HIDE DEF d
  <2>4. /\ up' \in [Coroutines -> Call] /\ up'[w] = NoCall /\ cp' = d /\ phase' = ph
        /\ \A v \in Coroutines : v # w => up'[v] = up[v]
    BY <2>1, CallTypes, Sent
  <2>5. \A v \in Coroutines : up'[v].op = "none"
    BY <1>3, <2>4, CallTypes DEF Ready, Planned, Coroutines
  <2>6. ph \in Before
    BY <1>3 DEF Ready, Planned
  <2>7. TypeOK'
    BY <1>0, <2>3, <2>4, <2>6 DEF TypeOK, Before, Working
  <2>8. Control'
    BY <1>0, <2>3, <2>4, <2>5, <2>6 DEF Control, Ready, Planned, Before, After, Working, Coroutines
  <2>9. Known'
    BY <1>0, <2>3, <2>4 DEF Known, Ready, Planned, Stored
  <2>12. \A v \in Coroutines : CreateOK(v)' /\ PartCallOK(v)'
    BY <2>5 DEF CreateOK, PartCallOK
  <2>13. CompleteOK' /\ AbortOK'
    BY <2>5 DEF CompleteOK, AbortOK, Coroutines
  <2>14. RestOK'
    BY <1>0, <1>3, <2>3, <2>4, <2>6 DEF RestOK, Ready, Planned, Stored, Elements, AllFull, IsFull
  <2>15. ObjectOK'
    BY <1>0, <2>4, <2>6 DEF ObjectOK, Before
  <2> QED BY <1>1, <2>7, <2>8, <2>9, <2>12, <2>13, <2>14, <2>15 DEF IInv
<1>4. CASE plan = <<>> /\ w = "fin"
  <2>1. c.offset = size /\ c.parts # <<>>
    BY <1>4 DEF Ready, Planned, EndOf
  <2>2. Await(w, c, ph, Request("complete", c.id)) /\ c.id = 1 /\ ph = "finalize"
    BY <1>4, <2>1 DEF UploadNext, Ready, Planned
  <2> DEFINE call == Request("complete", c.id)
  <2>3. call \in Call /\ call.op = "complete" /\ call.st = "sent" /\ call.id = 1
    BY <2>2, CallTypes
  <2> HIDE DEF call
  <2>4. /\ up' \in [Coroutines -> Call] /\ up'["fin"] = call /\ cp' = c /\ phase' = ph
        /\ up'["tick"].op = "none"
    BY <1>4, <2>2, <2>3, Sent DEF Ready, Planned, Coroutines, call
  <2>7. TypeOK'
    BY <1>0, <2>2, <2>4 DEF TypeOK, Working, Ready, Planned
  <2>8. Control'
    BY <1>0, <1>4, <2>2, <2>3, <2>4 DEF Control, Ready, Planned, Before, After, Working
  <2>9. Known'
    BY <1>0, <2>4 DEF Known, Ready, Planned, Stored, PartSeq, Chained, FullButLast, IsFull, EndOf
  <2>12. \A v \in Coroutines : CreateOK(v)' /\ PartCallOK(v)'
    BY <2>3, <2>4 DEF CreateOK, PartCallOK, Coroutines
  <2>13. CompleteOK' /\ AbortOK'
    BY <1>0, <2>1, <2>2, <2>3, <2>4 DEF CompleteOK, AbortOK, Coroutines, Ready, Planned, Stored, Elements
  <2>14. RestOK' /\ ObjectOK'
    BY <1>0, <2>2, <2>4 DEF RestOK, Before, ObjectOK
  <2> QED BY <1>1, <2>7, <2>8, <2>9, <2>12, <2>13, <2>14 DEF IInv
<1> QED BY <1>0, <1>2, <1>3, <1>4

\* ensureStarted creates the upload before the first part.
LEMMA BeginKeeps ==
  ASSUME TypeOK, StoreOK, NEW w \in Coroutines, NEW c, NEW ph, NEW plan,
         Planned(w, c, ph, plan), Begin(w, c, ph, plan),
         \/ c.id = 1 /\ Stored(Elements(c.parts))
         \/ c.id = 0 /\ uploads = <<>> /\ c.parts = <<>> /\ plan # <<>>,
         UNCHANGED <<size, s3Vars, faults>>
  PROVE  IInv'
<1>1. CASE c.id = 1 /\ Stored(Elements(c.parts))
  <2>1. Ready(w, c, ph, plan) /\ UploadNext(w, c, ph, plan)
    BY <1>1 DEF Ready, Begin
  <2> QED BY <2>1, UploadNextKeeps
<1>2. CASE c.id = 0 /\ uploads = <<>> /\ c.parts = <<>> /\ plan # <<>>
  <2>0. /\ size' = size /\ uploads' = uploads /\ object' = object /\ faults' = faults
        /\ object' = <<>> /\ size \in 0..MaxSize /\ (w = "tick" \/ w = "fin")
    BY DEF s3Vars, Planned, TypeOK, Coroutines
  <2> DEFINE call == [Request("create", 0) EXCEPT !.plan = plan]
  <2>1. Await(w, c, ph, call)
    BY <1>2 DEF Begin
  <2>2. call \in Call /\ call.op = "create" /\ call.st = "sent" /\ call.plan = plan
    BY DEF Request, Call, Planned
  <2> HIDE DEF call
  <2>4. /\ up' \in [Coroutines -> Call] /\ up'[w] = call /\ cp' = c /\ phase' = ph
        /\ \A v \in Coroutines : v # w => up'[v] = up[v]
    BY <2>1, <2>2, Sent
  <2>5. \A v \in Coroutines : v # w => up'[v].op = "none"
    BY <2>4 DEF Planned, Coroutines
  <2>6. ph \in Before \cup {"finalize"}
    BY <2>0 DEF Planned
  <2>7. TypeOK'
    BY <2>0, <2>4, <2>6 DEF TypeOK, Before, Working, Planned
  <2>8. Control'
    BY <2>0, <2>2, <2>4, <2>5, <2>6 DEF Control, Planned, Before, After, Working, Coroutines
  <2>9. Known'
    BY <1>2, <2>0, <2>4 DEF Known, Planned
  <2>10. PlanOK(w, plan)'
    BY <1>2, <2>0, <2>4 DEF PlanOK, Planned
  <2>11. CreateOK(w)'
    BY <1>2, <2>0, <2>2, <2>4, <2>10 DEF CreateOK, Planned
  <2>12. \A v \in Coroutines : CreateOK(v)' /\ PartCallOK(v)'
    BY <2>2, <2>4, <2>5, <2>11 DEF CreateOK, PartCallOK
  <2>13. CompleteOK' /\ AbortOK'
    BY <2>2, <2>4, <2>5 DEF CompleteOK, AbortOK, Coroutines
  <2>14. RestOK'
    BY <2>0, <2>4, <2>6 DEF RestOK, Planned, Before
  <2>15. ObjectOK'
    BY <2>0, <2>4, <2>6 DEF ObjectOK, Before
  <2>16. StoreOK'
    BY <2>0, StoreStays
  <2> QED BY <2>7, <2>8, <2>9, <2>12, <2>13, <2>14, <2>15, <2>16 DEF IInv
<1> QED BY <1>1, <1>2

\* shutdown's way out of a finalize that failed.
LEMMA FallbackKeeps ==
  ASSUME TypeOK, StoreOK, NEW c \in Checkpointer, Fallback(c), size > 0,
         c.id \in {0, 1}, c.id = 1 => Len(uploads) = 1, ~c.flushing,
         PartSeq(c.parts, size), c.offset = EndOf(c.parts, 0), up["tick"].op = "none",
         object # <<>> => Gapless(object) /\ object[Len(object)].hi = size,
         UNCHANGED <<size, s3Vars, faults>>
  PROVE  IInv'
<1>0. /\ size' = size /\ uploads' = uploads /\ object' = object /\ faults' = faults
      /\ size \in 0..MaxSize
  BY DEF s3Vars, TypeOK
<1> DEFINE call == IF c.id # 0 THEN Request("abort", c.id) ELSE Request("put", 0)
<1>1. Await("fin", c, "fallback", call)
  BY DEF Fallback
<1>2. /\ call \in Call /\ call.op \in {"abort", "put"} /\ call.st = "sent"
      /\ call.op = "abort" => c.id = 1 /\ call.id = 1
  BY CallTypes
<1> HIDE DEF call
<1>3. /\ up' \in [Coroutines -> Call] /\ up'["fin"] = call /\ cp' = c
      /\ phase' = "fallback" /\ up'["tick"].op = "none"
  BY <1>1, <1>2, Sent DEF Coroutines
<1>4. TypeOK'
  BY <1>0, <1>3 DEF TypeOK, Working
<1>5. Control'
  BY <1>0, <1>2, <1>3 DEF Control, Before, After, Working
<1>6. Known'
  BY <1>0, <1>3 DEF Known
<1>7. \A v \in Coroutines : CreateOK(v)' /\ PartCallOK(v)'
  BY <1>2, <1>3 DEF CreateOK, PartCallOK, Coroutines
<1>8. CompleteOK' /\ AbortOK'
  BY <1>2, <1>3 DEF CompleteOK, AbortOK, Coroutines
<1>9. RestOK'
  BY <1>3 DEF RestOK, Before
<1>10. ObjectOK'
  BY <1>0, <1>3, ConstantsAssumption DEF ObjectOK, Before
<1>11. StoreOK'
  BY <1>0, StoreStays
<1> QED BY <1>4, <1>5, <1>6, <1>7, <1>8, <1>9, <1>10, <1>11 DEF IInv

\* The flush waits while the file grows, shutdown only after it.
LEMMA FlushWaits ==
  ASSUME Control, phase \in Working, up["tick"].op # "none"
  PROVE  phase \in Before /\ up["fin"].op = "none" /\ cp.flushing
  BY DEF Control, Before, After, Working

\* While shutdown waits for S3 no flush is under way.
LEMMA ShutdownWaits ==
  ASSUME Control, phase \in Working, up["fin"].op # "none"
  PROVE  phase \in After /\ up["tick"].op = "none" /\ ~cp.flushing
  BY DEF Control, Before, After, Working

-----------------------------------------------------------------------------
(* The worker's steps.                                                     *)

LEMMA EncodeKeeps == ASSUME IInv, Encode PROVE IInv'
<1>0. /\ phase \in {"recording", "draining"} /\ size' = size + 1 /\ phase' = phase
      /\ cp' = cp /\ up' = up /\ uploads' = uploads /\ object' = object
      /\ faults' = faults /\ size \in 0..MaxSize /\ size' \in 0..MaxSize /\ size <= size'
  BY ConstantsAssumption DEF Encode, s3Vars, IInv, TypeOK
<1>1. TypeOK /\ Control /\ Known /\ RestOK /\ StoreOK /\ ObjectOK
  BY DEF IInv
<1>2. TypeOK'
  BY <1>0, <1>1 DEF TypeOK
<1>3. Control'
  BY <1>0, <1>1 DEF Control
<1>4. Known'
  BY <1>0, <1>1, PartsOfMore DEF Known
<1>5. up'["fin"].op = "none" /\ object' = <<>> /\ phase \in Before
  BY <1>0, <1>1 DEF Control, ObjectOK, Before
<1>6. ASSUME NEW plan, PlanOK("tick", plan) PROVE Chained(plan, cp.offset, size')
  BY <1>0, <1>6, ChainedInMore DEF PlanOK
<1>7. CreateOK("tick")'
  <2>1. CreateOK("tick")
    BY DEF IInv, Coroutines
  <2>2. up["tick"].op = "create" => Chained(up["tick"].plan, cp.offset, size')
    BY <1>6, <2>1 DEF CreateOK
  <2> QED BY <1>0, <2>1, <2>2 DEF CreateOK, PlanOK, Stored
<1>8. PartCallOK("tick")'
  <2>1. PartCallOK("tick")
    BY DEF IInv, Coroutines
  <2>2. up["tick"].op = "part" => Chained(up["tick"].plan, cp.offset, size')
    BY <1>6, <2>1 DEF PartCallOK
  <2> QED BY <1>0, <2>1, <2>2 DEF PartCallOK, PlanOK, Stored
<1>9. \A w \in Coroutines : CreateOK(w)' /\ PartCallOK(w)'
  BY <1>5, <1>7, <1>8 DEF CreateOK, PartCallOK, Coroutines
<1>10. CompleteOK' /\ AbortOK'
  BY <1>0, <1>5 DEF CompleteOK, AbortOK, IInv, Coroutines
<1>11. RestOK'
  BY <1>0, <1>1 DEF RestOK, Stored
<1>12. StoreOK'
  <2>1. size' \in size..MaxSize
    BY <1>0, ConstantsAssumption
  <2> QED BY <1>0, <1>1, <2>1, StoreStays
<1>13. ObjectOK'
  BY <1>0, <1>5 DEF ObjectOK
<1> QED BY <1>2, <1>3, <1>4, <1>9, <1>10, <1>11, <1>12, <1>13 DEF IInv

LEMMA TickKeeps == ASSUME IInv, Tick PROVE IInv'
<1> DEFINE plan == ComputePartPlan(cp.offset, FALSE)
           c == [cp EXCEPT !.flushing = TRUE]
<1>0. /\ phase = "recording" /\ ~cp.disabled /\ ~cp.flushing /\ plan # <<>>
      /\ Begin("tick", c, phase, plan) /\ UNCHANGED <<size, s3Vars, faults>>
  BY DEF Tick
<1>1. TypeOK /\ StoreOK /\ cp \in Checkpointer /\ size \in 0..MaxSize
  BY DEF IInv, TypeOK
<1>2. /\ up["fin"].op = "none" /\ object = <<>> /\ PartSeq(cp.parts, size)
      /\ cp.offset = EndOf(cp.parts, 0) /\ cp.id \in {0, 1}
      /\ cp.next = Len(cp.parts) + 1 /\ AllFull(cp.parts)
      /\ cp.id = 0 => uploads = <<>> /\ cp.parts = <<>>
      /\ cp.id = 1 => Stored(Elements(cp.parts))
  BY <1>0 DEF IInv, Control, ObjectOK, RestOK, Known, Before
<1>3. /\ c \in Checkpointer /\ c.next = cp.next /\ c.id = cp.id /\ c.parts = cp.parts
      /\ c.offset = cp.offset /\ c.flushing /\ c.disabled = cp.disabled
  BY <1>1 DEF Checkpointer
<1>4. cp.offset \in 0..size
  BY <1>1, <1>2, EndOfParts
<1>5. /\ plan \in Seq(Bytes) /\ Chained(plan, cp.offset, size) /\ FullButLast(plan)
      /\ AllFull(plan)
  BY <1>1, <1>4, PlanOf
<1> HIDE DEF plan, c
<1>6. Planned("tick", c, phase, plan)
  BY <1>0, <1>2, <1>3, <1>5 DEF Planned, Before
<1> QED BY <1>0, <1>1, <1>2, <1>3, <1>6, BeginKeeps DEF Coroutines

LEMMA ShutdownKeeps == ASSUME IInv, Shutdown PROVE IInv'
<1>0. /\ phase = "recording" /\ phase' \in {"draining", "failing"} /\ size' = size
      /\ cp' = cp /\ up' = up /\ uploads' = uploads /\ object' = object /\ faults' = faults
  BY DEF Shutdown, s3Vars
<1>1. TypeOK' /\ Control'
  BY <1>0 DEF IInv, TypeOK, Control, Working, Before, After
<1>2. Known' /\ RestOK'
  BY <1>0 DEF IInv, Known, RestOK, Stored, Before
<1>3. \A w \in Coroutines : CreateOK(w)' /\ PartCallOK(w)'
  BY <1>0 DEF IInv, CreateOK, PartCallOK, PlanOK, Stored, PartOf
<1>4. CompleteOK' /\ AbortOK'
  BY <1>0 DEF IInv, CompleteOK, AbortOK, Stored
<1>5. StoreOK'
  BY <1>0, StoreStays, ConstantsAssumption DEF IInv, TypeOK
<1>6. ObjectOK'
  BY <1>0 DEF IInv, ObjectOK, Before
<1> QED BY <1>1, <1>2, <1>3, <1>4, <1>5, <1>6 DEF IInv

\* The worker is gone.
LEMMA GoneKeeps ==
  ASSUME TypeOK, StoreOK, cp' \in Checkpointer, cp'.id \in {0, 1},
         cp'.id = 1 => Len(uploads) = 1, PartSeq(cp'.parts, size),
         cp'.offset = EndOf(cp'.parts, 0),
         up' \in [Coroutines -> Call], \A w \in Coroutines : up'[w].op = "none",
         phase' \in {"finalized", "failed", "crashed"},
         object # <<>> => Gapless(object) /\ object[Len(object)].hi = size /\ size > 0,
         phase' = "finalized" => object # <<>>,
         UNCHANGED <<size, s3Vars, faults>>
  PROVE  IInv'
<1>0. /\ size' = size /\ uploads' = uploads /\ object' = object /\ faults' = faults
      /\ size \in 0..MaxSize /\ phase' \notin Working /\ phase' \notin Before
      /\ phase' \notin After /\ phase' \notin {"recovered", "cleanup", "finalize", "fallback"}
  BY DEF s3Vars, TypeOK, Working, Before, After
<1>1. TypeOK'
  BY <1>0 DEF TypeOK
<1>2. Control'
  BY <1>0 DEF Control, Coroutines
<1>3. Known' /\ RestOK'
  BY <1>0 DEF Known, RestOK
<1>4. \A w \in Coroutines : CreateOK(w)' /\ PartCallOK(w)'
  BY DEF CreateOK, PartCallOK
<1>5. CompleteOK' /\ AbortOK'
  BY DEF CompleteOK, AbortOK, Coroutines
<1>6. StoreOK'
  BY <1>0, StoreStays, ConstantsAssumption
<1>7. ObjectOK'
  BY <1>0, ConstantsAssumption DEF ObjectOK
<1> QED BY <1>1, <1>2, <1>3, <1>4, <1>5, <1>6, <1>7 DEF IInv

LEMMA FinalizeKeeps == ASSUME Prompt, IInv, Finalize PROVE IInv'
<1> DEFINE plan == ComputePartPlan(cp.offset, TRUE)
<1>0. phase = "draining" /\ ~cp.flushing /\ UNCHANGED <<size, s3Vars, faults>>
  BY DEF Finalize
<1>1. TypeOK /\ StoreOK /\ cp \in Checkpointer /\ size \in 0..MaxSize
  BY DEF IInv, TypeOK
<1>2. /\ up["fin"].op = "none" /\ up["tick"].op = "none" /\ object = <<>>
      /\ PartSeq(cp.parts, size) /\ cp.offset = EndOf(cp.parts, 0) /\ cp.id \in {0, 1}
      /\ cp.id = 1 => Len(uploads) = 1
  BY <1>0 DEF IInv, Control, ObjectOK, Known, Before, Working
<1>3. CASE size = 0 /\ phase' = "failed" /\ UNCHANGED <<cp, up>>
  <2>1. cp' = cp /\ up' = up /\ up' \in [Coroutines -> Call]
    BY <1>1, <1>3 DEF TypeOK
  <2>2. \A w \in Coroutines : up'[w].op = "none"
    BY <1>2, <2>1 DEF Coroutines
  <2> QED BY <1>0, <1>1, <1>2, <1>3, <2>1, <2>2, GoneKeeps
<1>4. CASE size > 0 /\ Fallback(cp)
  BY <1>0, <1>1, <1>2, <1>4, FallbackKeeps
<1>5. CASE size > 0 /\ ~cp.disabled /\ (cp.id # 0 \/ Len(plan) > 1)
           /\ Begin("fin", cp, "finalize", plan)
  <2>1. /\ cp.next = Len(cp.parts) + 1 /\ AllFull(cp.parts)
        /\ cp.id = 0 => uploads = <<>> /\ cp.parts = <<>>
        /\ cp.id = 1 => Stored(Elements(cp.parts))
    BY <1>0, <1>2, <1>5 DEF IInv, RestOK, Before
  <2>2. cp.offset \in 0..size
    BY <1>1, <1>2, EndOfParts
  <2>3. /\ plan \in Seq(Bytes) /\ Chained(plan, cp.offset, size) /\ FullButLast(plan)
        /\ EndOf(plan, cp.offset) = size
    BY <1>1, <2>2, PlanOf
  <2> HIDE DEF plan
  <2>4. Planned("fin", cp, "finalize", plan)
    BY <1>0, <1>1, <1>2, <1>5, <2>1, <2>3 DEF Planned
  <2>5. cp.id = 0 => plan # <<>>
    BY <1>5
  <2> QED BY <1>0, <1>1, <1>2, <1>5, <2>1, <2>4, <2>5, BeginKeeps DEF Coroutines
<1> QED BY <1>3, <1>4, <1>5 DEF Finalize

LEMMA CleanUpKeeps == ASSUME Prompt, IInv, CleanUp PROVE IInv'
<1>0. phase = "failing" /\ ~cp.flushing /\ UNCHANGED <<size, s3Vars, faults>>
  BY DEF CleanUp
<1>1. TypeOK /\ StoreOK /\ cp \in Checkpointer /\ size \in 0..MaxSize
  BY DEF IInv, TypeOK
<1>2. /\ up["fin"].op = "none" /\ up["tick"].op = "none" /\ object = <<>>
      /\ PartSeq(cp.parts, size) /\ cp.offset = EndOf(cp.parts, 0) /\ cp.id \in {0, 1}
      /\ cp.id = 1 => Len(uploads) = 1
  BY <1>0 DEF IInv, Control, ObjectOK, Known, Before, Working
<1>3. CASE cp.id # 0
  <2>0. /\ size' = size /\ uploads' = uploads /\ object' = object /\ faults' = faults
        /\ cp.id = 1 /\ Await("fin", cp, "cleanup", Request("abort", 1))
    BY <1>0, <1>2, <1>3 DEF CleanUp, s3Vars
  <2> DEFINE call == Request("abort", 1)
  <2>1. call \in Call /\ call.op = "abort" /\ call.st = "sent" /\ call.id = 1
    BY CallTypes
  <2> HIDE DEF call
  <2>2. /\ up' \in [Coroutines -> Call] /\ up'["fin"] = call /\ cp' = cp
        /\ phase' = "cleanup" /\ up'["tick"].op = "none"
    BY <1>1, <1>2, <2>0, <2>1, Sent DEF Coroutines, call
  <2>3. TypeOK'
    BY <1>1, <2>0, <2>2 DEF TypeOK, Working
  <2>4. Control'
    BY <1>0, <2>0, <2>1, <2>2 DEF Control, Before, After, Working
  <2>5. Known' /\ RestOK'
    BY <1>2, <2>0, <2>2 DEF Known, RestOK, Before
  <2>6. \A v \in Coroutines : CreateOK(v)' /\ PartCallOK(v)'
    BY <2>1, <2>2 DEF CreateOK, PartCallOK, Coroutines
  <2>7. CompleteOK' /\ AbortOK'
    BY <2>0, <2>1, <2>2 DEF CompleteOK, AbortOK, Coroutines
  <2>8. StoreOK'
    BY <1>1, <2>0, StoreStays
  <2>9. ObjectOK'
    BY <1>2, <2>0, <2>2 DEF ObjectOK
  <2> QED BY <2>3, <2>4, <2>5, <2>6, <2>7, <2>8, <2>9 DEF IInv
<1>4. CASE cp.id = 0
  <2>1. cp' = cp /\ up' = up /\ up' \in [Coroutines -> Call] /\ phase' = "failed"
    BY <1>1, <1>4 DEF TypeOK, CleanUp
  <2>2. \A w \in Coroutines : up'[w].op = "none"
    BY <1>2, <2>1 DEF Coroutines
  <2> QED BY <1>0, <1>1, <1>2, <2>1, <2>2, GoneKeeps
<1> QED BY <1>3, <1>4

-----------------------------------------------------------------------------
(* The answers.                                                            *)

\* A coroutine that waits for a create or a part is where its plan is followed.
LEMMA FollowsPlan ==
  ASSUME IInv, phase \in Working, NEW w \in Coroutines, up[w].op \in {"create", "part"}
  PROVE  /\ ~cp.disabled
         /\ w = "tick" => phase \in Before /\ up["fin"].op = "none" /\ cp.flushing
         /\ w = "fin" => /\ phase = "finalize" /\ up["tick"].op = "none"
                         /\ ~cp.flushing /\ size > 0
<1>1. CASE w = "tick"
  BY <1>1, FlushWaits DEF IInv, Control
<1>2. CASE w = "fin"
  BY <1>2, ShutdownWaits DEF IInv, Control, After
<1> QED BY <1>1, <1>2 DEF Coroutines

LEMMA CreatedKeeps == ASSUME IInv, NEW w \in Coroutines, Created(w) PROVE IInv'
<1> DEFINE c == [cp EXCEPT !.id = up[w].id]
           plan == up[w].plan
<1>0. /\ phase \in Working /\ up[w].op = "create" /\ up[w].st = "ok"
      /\ UploadNext(w, c, phase, plan) /\ UNCHANGED <<size, s3Vars, faults>>
  BY DEF Created, Answered
<1>1. TypeOK /\ StoreOK /\ cp \in Checkpointer /\ size \in 0..MaxSize
  BY DEF IInv, TypeOK
<1>2. /\ up[w].id = 1 /\ cp.parts = <<>> /\ cp.next = 1 /\ object = <<>>
      /\ PlanOK(w, plan) /\ Stored({}) /\ Known
  BY <1>0 DEF IInv, CreateOK
<1>3. /\ c \in Checkpointer /\ c.next = 1 /\ c.id = 1 /\ c.parts = <<>>
      /\ c.offset = cp.offset /\ c.flushing = cp.flushing /\ c.disabled = cp.disabled
  BY <1>1, <1>2 DEF Checkpointer
<1> HIDE DEF c, plan
<1>4. PartSeq(<<>>, size) /\ Elements(<<>>) = {} /\ Len(<<>>) = 0
  BY <1>1, NoParts
<1>5. Planned(w, c, phase, plan)
  BY <1>0, <1>2, <1>3, <1>4, FollowsPlan DEF Planned, PlanOK, Known
<1>6. Ready(w, c, phase, plan)
  BY <1>2, <1>3, <1>4, <1>5 DEF Ready
<1> QED BY <1>0, <1>1, <1>6, UploadNextKeeps

\* The part at the head of a plan continues what the worker knows.
LEMMA PartOfPlan ==
  ASSUME IInv, NEW w \in Coroutines, up[w].op = "part"
  PROVE  LET p == PartOf(up[w]) IN
         /\ p \in Part /\ p.n = Len(cp.parts) + 1 /\ p.lo = EndOf(cp.parts, 0)
         /\ p.hi = up[w].plan[1].hi /\ p.lo < p.hi /\ p.hi <= size
         /\ IsFull(up[w].plan[1]) => IsFull(p)
<1>1. /\ up[w].plan \in Seq(Bytes) /\ up[w].plan # <<>> /\ size \in 0..MaxSize
      /\ Chained(up[w].plan, cp.offset, size) /\ FullButLast(up[w].plan)
      /\ up[w].n = Len(cp.parts) + 1 /\ cp.parts \in Seq(Part)
      /\ cp.offset = EndOf(cp.parts, 0)
  BY DEF IInv, PartCallOK, PlanOK, TypeOK, Known, PartSeq
<1> DEFINE r == up[w].plan[1]
<1>2. r \in Bytes /\ r.lo = cp.offset /\ r.lo < r.hi /\ r.hi <= size
  BY <1>1, RestOfPlan
<1>3. PartOf(up[w]) = [lo |-> r.lo, hi |-> r.hi, n |-> up[w].n]
  BY DEF PartOf
<1> HIDE DEF r
<1>4. up[w].n \in Nat
  BY <1>1
<1> DEFINE pt == PartOf(up[w])
<1>5. pt \in Part /\ pt.lo = r.lo /\ pt.hi = r.hi /\ pt.n = up[w].n
  BY <1>2, <1>3, <1>4 DEF Part, Bytes
<1> HIDE DEF pt
<1>6. pt.hi = up[w].plan[1].hi /\ (IsFull(up[w].plan[1]) => IsFull(pt))
  BY <1>5 DEF IsFull, r
<1>7. pt.n = Len(cp.parts) + 1 /\ pt.lo = EndOf(cp.parts, 0)
  BY <1>1, <1>2, <1>5
<1>8. pt.lo < pt.hi /\ pt.hi <= size
  BY <1>2, <1>5
<1> QED BY <1>5, <1>6, <1>7, <1>8, Zenon DEF pt

LEMMA PartUploadedKeeps == ASSUME IInv, NEW w \in Coroutines, PartUploaded(w) PROVE IInv'
<1> DEFINE p == PartOf(up[w])
           plan == up[w].plan
           q == Append(cp.parts, p)
           c == [cp EXCEPT !.parts = Append(@, p), !.offset = plan[1].hi]
<1>0. /\ phase \in Working /\ up[w].op = "part" /\ up[w].st = "ok"
      /\ UploadNext(w, c, phase, Tail(plan)) /\ UNCHANGED <<size, s3Vars, faults>>
  BY DEF PartUploaded, Answered
<1>1. TypeOK /\ StoreOK /\ cp \in Checkpointer /\ size \in 0..MaxSize /\ Known
  BY DEF IInv, TypeOK
<1>2. /\ cp.id = 1 /\ object = <<>> /\ cp.next = Len(cp.parts) + 2 /\ PlanOK(w, plan)
      /\ plan # <<>> /\ Stored(Elements(cp.parts) \cup {p})
  <2>1. Len(cp.parts) \in Nat
    BY <1>1 DEF Known, PartSeq
  <2>2. PartCallOK(w)
    BY DEF IInv
  <2>3. up[w].n = Len(cp.parts) + 1 /\ cp.next = up[w].n + 1
    BY <1>0, <2>2 DEF PartCallOK
  <2>4. cp.next = Len(cp.parts) + 2
    BY <2>1, <2>3
  <2> QED BY <1>0, <2>2, <2>4 DEF PartCallOK
<1>3. /\ p \in Part /\ p.n = Len(cp.parts) + 1 /\ p.lo = EndOf(cp.parts, 0)
      /\ p.hi = plan[1].hi /\ p.lo < p.hi /\ p.hi <= size
      /\ IsFull(plan[1]) => IsFull(p)
  BY <1>0, PartOfPlan
<1>4. /\ PartSeq(cp.parts, size) /\ AllFull(cp.parts) /\ plan \in Seq(Bytes)
      /\ Chained(plan, cp.offset, size) /\ FullButLast(plan)
      /\ w = "tick" => AllFull(plan)
      /\ w = "fin" => EndOf(plan, cp.offset) = size
  BY <1>1, <1>2 DEF PlanOK, Known
<1> HIDE DEF p, plan
<1>5. /\ PartSeq(q, size) /\ EndOf(q, 0) = p.hi /\ Len(q) = Len(cp.parts) + 1
      /\ Elements(q) = Elements(cp.parts) \cup {p} /\ (IsFull(p) => AllFull(q))
  BY <1>1, <1>3, <1>4, NextPart
<1>6. /\ Tail(plan) \in Seq(Bytes) /\ Chained(Tail(plan), plan[1].hi, size)
      /\ FullButLast(Tail(plan)) /\ (Tail(plan) # <<>> => IsFull(plan[1]))
      /\ w = "tick" => IsFull(plan[1]) /\ AllFull(Tail(plan))
      /\ w = "fin" => EndOf(Tail(plan), plan[1].hi) = size
  BY <1>1, <1>2, <1>4, RestOfPlan
<1>7. /\ c \in Checkpointer /\ c.next = cp.next /\ c.id = 1 /\ c.parts = q
      /\ c.offset = plan[1].hi /\ c.flushing = cp.flushing /\ c.disabled = cp.disabled
  <2>1. q \in Seq(Part) /\ plan[1].hi \in 0..MaxSize
    BY <1>3, <1>5 DEF PartSeq, Part
  <2> HIDE DEF q
  <2>2. c = [cp EXCEPT !.parts = q, !.offset = plan[1].hi]
    BY <1>1 DEF q, Checkpointer
  <2> QED BY <1>1, <1>2, <2>1, <2>2 DEF Checkpointer
<1> HIDE DEF q, c
<1>8. Planned(w, c, phase, Tail(plan))
  <2>1. c.next = Len(c.parts) + 1 /\ c.offset = EndOf(c.parts, 0)
    <3>1. Len(cp.parts) \in Nat
      BY <1>4 DEF PartSeq
    <3> QED BY <1>2, <1>3, <1>5, <1>7, <3>1
  <2> QED BY <1>0, <1>2, <1>3, <1>5, <1>6, <1>7, <2>1, FollowsPlan DEF Planned
<1>9. Ready(w, c, phase, Tail(plan))
  BY <1>2, <1>5, <1>7, <1>8 DEF Ready
<1> QED BY <1>0, <1>1, <1>9, UploadNextKeeps

LEMMA PersistedKeeps == ASSUME IInv, Persisted PROVE IInv'
<1> DEFINE c == [cp EXCEPT !.id = 0]
<1>0. /\ phase \in Working /\ up["fin"].op \in {"complete", "put"} /\ up["fin"].st = "ok"
      /\ UNCHANGED <<size, s3Vars, faults>> /\ Await("fin", c, "finalized", NoCall)
  BY DEF Persisted, Answered
<1>1. TypeOK /\ StoreOK /\ cp \in Checkpointer /\ size \in 0..MaxSize /\ Known /\ Control
  BY DEF IInv, TypeOK
<1>2. /\ c \in Checkpointer /\ c.id = 0 /\ c.parts = cp.parts /\ c.offset = cp.offset
  BY <1>1 DEF Checkpointer
<1> HIDE DEF c
<1>3. up["tick"].op = "none"
  BY <1>0, <1>1, ShutdownWaits
<1>4. object # <<>> /\ Gapless(object) /\ object[Len(object)].hi = size /\ size > 0
  BY <1>0, <1>1 DEF IInv, CompleteOK, AbortOK, ObjectOK, Working
<1>5. /\ up' \in [Coroutines -> Call] /\ cp' = c /\ phase' = "finalized"
      /\ \A w \in Coroutines : up'[w].op = "none"
  BY <1>0, <1>1, <1>3, Sent, CallTypes DEF Coroutines
<1> QED BY <1>0, <1>1, <1>2, <1>4, <1>5, GoneKeeps DEF Known

\* The object of a worker that still runs is the whole file.
LEMMA WholeObject ==
  ASSUME IInv, phase \in Working \cup {"finalized", "failed", "crashed"}, object # <<>>
  PROVE  Gapless(object) /\ object[Len(object)].hi = size /\ size > 0
<1>1. phase # "recovered"
  BY DEF Working
<1>2. size \in Nat
  BY ConstantsAssumption DEF IInv, TypeOK
<1> QED BY <1>1, <1>2 DEF IInv, ObjectOK

LEMMA PutFailsKeeps == ASSUME IInv, PutFails PROVE IInv'
<1>0. /\ phase \in Working /\ up["fin"].op = "put"
      /\ UNCHANGED <<size, s3Vars, faults>> /\ Await("fin", cp, "failed", NoCall)
  BY DEF PutFails, Answered
<1>1. TypeOK /\ StoreOK /\ cp \in Checkpointer /\ Known /\ Control
  BY DEF IInv, TypeOK
<1>3. up["tick"].op = "none"
  BY <1>0, <1>1, ShutdownWaits
<1>5. /\ up' \in [Coroutines -> Call] /\ cp' = cp /\ phase' = "failed"
      /\ \A w \in Coroutines : up'[w].op = "none"
  BY <1>0, <1>1, <1>3, Sent, CallTypes DEF Coroutines
<1> QED BY <1>0, <1>1, <1>5, WholeObject, GoneKeeps DEF Known

LEMMA CrashKeeps == ASSUME IInv, Crash PROVE IInv'
<1>0. /\ phase \in Working /\ phase' = "crashed" /\ cp' = cp
      /\ up' = [w \in Coroutines |-> NoCall] /\ UNCHANGED <<size, s3Vars, faults>>
  BY DEF Crash
<1>1. TypeOK /\ StoreOK /\ cp \in Checkpointer /\ Known
  BY DEF IInv, TypeOK
<1>2. up' \in [Coroutines -> Call] /\ \A w \in Coroutines : up'[w].op = "none"
  BY <1>0, CallTypes
<1> QED BY <1>0, <1>1, <1>2, WholeObject, GoneKeeps DEF Known

LEMMA FinalizeFailsKeeps == ASSUME IInv, FinalizeFails PROVE IInv'
<1>0. /\ phase \in Working /\ up["fin"].op \in {"create", "part", "complete"}
      /\ UNCHANGED <<size, s3Vars, faults>> /\ Fallback(cp)
  BY DEF FinalizeFails, Answered
<1>1. TypeOK /\ StoreOK /\ cp \in Checkpointer /\ Known /\ Control
  BY DEF IInv, TypeOK
<1>2. up["tick"].op = "none" /\ ~cp.flushing /\ phase \in After
  BY <1>0, <1>1, ShutdownWaits
<1>3. size > 0
  BY <1>0, <1>1, <1>2 DEF Control, After
<1> QED BY <1>0, <1>1, <1>2, <1>3, WholeObject, FallbackKeeps DEF Known

LEMMA FlushFailsKeeps == ASSUME IInv, FlushFails PROVE IInv'
<1>0. /\ phase \in Working /\ up["tick"].op \in {"create", "part"}
      /\ size' = size /\ uploads' = uploads /\ object' = object /\ faults' = faults
  BY DEF FlushFails, Answered, s3Vars
<1>1. TypeOK /\ StoreOK /\ cp \in Checkpointer /\ Known /\ Control
  BY DEF IInv, TypeOK
<1>2. phase \in Before /\ up["fin"].op = "none" /\ cp.flushing
  BY <1>0, <1>1, FlushWaits
<1>3. object = <<>>
  BY <1>2 DEF IInv, ObjectOK
<1>4. StoreOK'
  BY <1>0, <1>1, StoreStays, ConstantsAssumption DEF TypeOK
<1>5. \E d \in Checkpointer, call \in Call :
          /\ Await("tick", d, phase, call) /\ d.disabled /\ d.id = cp.id
          /\ d.parts = cp.parts /\ d.offset = cp.offset
          /\ \/ call.op = "abort" /\ call.id = 1 /\ cp.id = 1 /\ d.flushing
             \/ call.op = "none" /\ ~d.flushing
  <2>1. CASE cp.id # 0
    <3> DEFINE d == [cp EXCEPT !.disabled = TRUE]
    <3>1. Await("tick", d, phase, Request("abort", 1)) /\ cp.id = 1
      BY <1>1, <2>1 DEF FlushFails, Known
    <3>2. /\ d \in Checkpointer /\ d.disabled /\ d.id = cp.id /\ d.parts = cp.parts
          /\ d.offset = cp.offset /\ d.flushing
      BY <1>1, <1>2 DEF Checkpointer
    <3> HIDE DEF d
    <3> QED BY <3>1, <3>2, CallTypes
  <2>2. CASE cp.id = 0
    <3> DEFINE d == [cp EXCEPT !.disabled = TRUE, !.flushing = FALSE]
    <3>1. Await("tick", d, phase, NoCall)
      BY <2>2 DEF FlushFails
    <3>2. /\ d \in Checkpointer /\ d.disabled /\ d.id = cp.id /\ d.parts = cp.parts
          /\ d.offset = cp.offset /\ ~d.flushing
      BY <1>1 DEF Checkpointer
    <3> HIDE DEF d
    <3> QED BY <3>1, <3>2, CallTypes
  <2> QED BY <2>1, <2>2
<1>6. PICK d \in Checkpointer, call \in Call :
          /\ Await("tick", d, phase, call) /\ d.disabled /\ d.id = cp.id
          /\ d.parts = cp.parts /\ d.offset = cp.offset
          /\ \/ call.op = "abort" /\ call.id = 1 /\ cp.id = 1 /\ d.flushing
             \/ call.op = "none" /\ ~d.flushing
  BY <1>5
<1>7. /\ up' \in [Coroutines -> Call] /\ up'["tick"] = call /\ up'["fin"].op = "none"
      /\ cp' = d /\ phase' = phase
  BY <1>1, <1>2, <1>6, Sent DEF Coroutines
<1>8. TypeOK'
  BY <1>0, <1>1, <1>7 DEF TypeOK
<1>9. Control'
  BY <1>0, <1>1, <1>2, <1>6, <1>7 DEF Control, Before, After, Working
<1>10. Known' /\ RestOK'
  BY <1>0, <1>1, <1>6, <1>7 DEF Known, RestOK
<1>11. \A v \in Coroutines : CreateOK(v)' /\ PartCallOK(v)'
  BY <1>6, <1>7 DEF CreateOK, PartCallOK, Coroutines
<1>12. CompleteOK' /\ AbortOK'
  BY <1>6, <1>7 DEF CompleteOK, AbortOK, Coroutines
<1>13. ObjectOK'
  BY <1>0, <1>2, <1>3, <1>7 DEF ObjectOK, Before
<1> QED BY <1>4, <1>8, <1>9, <1>10, <1>11, <1>12, <1>13 DEF IInv

LEMMA AbortedKeeps == ASSUME IInv, NEW w \in Coroutines, Aborted(w) PROVE IInv'
<1> DEFINE c == [cp EXCEPT !.id = 0]
<1>0. /\ phase \in Working /\ up[w].op = "abort" /\ UNCHANGED <<size, s3Vars, faults>>
      /\ \/ w = "tick" /\ Await(w, [c EXCEPT !.flushing = FALSE], phase, NoCall)
         \/ w = "fin" /\ phase = "fallback" /\ Fallback(c)
         \/ w = "fin" /\ phase = "cleanup" /\ Await(w, c, "failed", NoCall)
  BY DEF Aborted, Answered
<1>1. TypeOK /\ StoreOK /\ cp \in Checkpointer /\ Known /\ Control
  BY DEF IInv, TypeOK
<1>2. /\ c \in Checkpointer /\ c.id = 0 /\ c.parts = cp.parts /\ c.offset = cp.offset
      /\ c.flushing = cp.flushing /\ c.disabled = cp.disabled
  BY <1>1 DEF Checkpointer
<1> HIDE DEF c
<1>3. CASE w = "tick" /\ Await(w, [c EXCEPT !.flushing = FALSE], phase, NoCall)
  <2> DEFINE d == [c EXCEPT !.flushing = FALSE]
  <2>0. size' = size /\ uploads' = uploads /\ object' = object /\ faults' = faults
    BY <1>0 DEF s3Vars
  <2>1. phase \in Before /\ up["fin"].op = "none" /\ cp.disabled
    BY <1>0, <1>1, <1>3, FlushWaits DEF Control
  <2>2. object = <<>>
    BY <2>1 DEF IInv, ObjectOK
  <2>3. /\ d \in Checkpointer /\ d.id = 0 /\ d.parts = cp.parts /\ d.offset = cp.offset
        /\ ~d.flushing /\ d.disabled
    BY <1>2, <2>1 DEF Checkpointer
  <2> HIDE DEF d
  <2>4. /\ up' \in [Coroutines -> Call] /\ (\A v \in Coroutines : up'[v].op = "none")
        /\ cp' = d /\ phase' = phase
    BY <1>1, <1>3, <2>1, CallTypes, Sent DEF Coroutines, d
  <2>5. TypeOK'
    BY <1>1, <2>0, <2>3, <2>4 DEF TypeOK
  <2>6. Control'
    BY <1>1, <2>0, <2>1, <2>3, <2>4 DEF Control, Before, After, Working, Coroutines
  <2>7. Known' /\ RestOK'
    BY <1>1, <2>0, <2>3, <2>4 DEF Known, RestOK
  <2>8. \A v \in Coroutines : CreateOK(v)' /\ PartCallOK(v)'
    BY <2>4 DEF CreateOK, PartCallOK
  <2>9. CompleteOK' /\ AbortOK'
    BY <2>4 DEF CompleteOK, AbortOK, Coroutines
  <2>10. ObjectOK'
    BY <2>0, <2>1, <2>2, <2>4 DEF ObjectOK, Before
  <2>11. StoreOK'
    BY <1>1, <2>0, StoreStays, ConstantsAssumption DEF TypeOK
  <2> QED BY <2>5, <2>6, <2>7, <2>8, <2>9, <2>10, <2>11 DEF IInv
<1>4. CASE w = "fin" /\ phase = "fallback" /\ Fallback(c)
  <2>1. up["tick"].op = "none" /\ ~cp.flushing /\ size > 0
    BY <1>0, <1>1, <1>4, ShutdownWaits DEF Control
  <2> QED BY <1>0, <1>1, <1>2, <1>4, <2>1, WholeObject, FallbackKeeps DEF Known
<1>5. CASE w = "fin" /\ phase = "cleanup" /\ Await(w, c, "failed", NoCall)
  <2>1. up["tick"].op = "none"
    BY <1>0, <1>1, <1>5, ShutdownWaits
  <2>2. /\ up' \in [Coroutines -> Call] /\ (\A v \in Coroutines : up'[v].op = "none")
        /\ cp' = c /\ phase' = "failed"
    BY <1>1, <1>5, <2>1, CallTypes, Sent DEF Coroutines
  <2> QED BY <1>0, <1>1, <1>2, <2>2, WholeObject, GoneKeeps DEF Known
<1> QED BY <1>0, <1>3, <1>4, <1>5

-----------------------------------------------------------------------------
(* S3.                                                                     *)

\* A call that is refused, or that is lost on either way.
LEMMA ErrorKeeps ==
  ASSUME IInv, NEW w \in Coroutines, up[w].op # "none",
         up' = [up EXCEPT ![w].st = "error"], faults' \in 0..MaxFaults,
         UNCHANGED <<size, phase, cp, s3Vars>>
  PROVE  IInv'
<1>0. /\ size' = size /\ phase' = phase /\ cp' = cp /\ uploads' = uploads
      /\ object' = object /\ TypeOK /\ StoreOK /\ Control
  BY DEF s3Vars, IInv
<1>1. up \in [Coroutines -> Call]
  BY <1>0 DEF TypeOK
<1>2. /\ up' \in [Coroutines -> Call] /\ (\A v \in Coroutines : v # w => up'[v] = up[v])
      /\ up'[w].op = up[w].op /\ up'[w].st = "error" /\ up'[w].plan = up[w].plan
      /\ up'[w].id = up[w].id /\ up'[w].n = up[w].n
  BY <1>1 DEF Call
<1>3. /\ \A v \in Coroutines : up'[v].op = up[v].op
      /\ up'["tick"].op = up["tick"].op /\ up'["fin"].op = up["fin"].op
  BY <1>2 DEF Coroutines
<1>4. TypeOK'
  BY <1>0, <1>2 DEF TypeOK
<1>5. Control'
  BY <1>0, <1>3 DEF Control
<1>6. Known' /\ RestOK'
  BY <1>0 DEF IInv, Known, RestOK, Stored
<1>7. ASSUME NEW v \in Coroutines PROVE CreateOK(v)' /\ PartCallOK(v)'
  <2>1. CreateOK(v) /\ PartCallOK(v)
    BY DEF IInv
  <2>2. CASE v # w
    BY <1>0, <1>2, <2>1, <2>2 DEF CreateOK, PartCallOK, PlanOK, Stored, PartOf
  <2>3. CASE v = w
    <3>1. PartOf(up[v])' = PartOf(up[v])
      BY <1>2, <2>3 DEF PartOf
    <3>2. up[v].st \in {"sent", "ok", "error"}
      BY <1>1 DEF Call
    <3>3. CreateOK(v)'
      BY <1>0, <1>2, <2>1, <2>3, <3>2 DEF CreateOK, PlanOK, Stored
    <3>4. PartCallOK(v)'
      BY <1>0, <1>2, <2>1, <2>3, <3>1, <3>2 DEF PartCallOK, PlanOK, Stored
    <3> QED BY <3>3, <3>4
  <2> QED BY <2>2, <2>3
<1>8. CompleteOK' /\ AbortOK'
  <2>1. up'["fin"].id = up["fin"].id /\ up'["tick"].id = up["tick"].id
    BY <1>2 DEF Coroutines
  <2>2. up'["fin"].st = "error" \/ up'["fin"].st = up["fin"].st
    BY <1>2 DEF Coroutines
  <2> QED BY <1>0, <1>3, <2>1, <2>2 DEF IInv, CompleteOK, AbortOK, Stored, Coroutines
<1>9. StoreOK'
  BY <1>0, StoreStays, ConstantsAssumption DEF TypeOK
<1>10. ObjectOK'
  BY <1>0 DEF IInv, ObjectOK
<1> QED BY <1>4, <1>5, <1>6, <1>7, <1>8, <1>9, <1>10 DEF IInv

LEMMA RefusedKeeps == ASSUME IInv, NEW w \in Coroutines, S3Refuses(w) PROVE IInv'
  BY ErrorKeeps DEF S3Refuses, IInv, TypeOK

LEMMA CallFailsKeeps == ASSUME IInv, NEW w \in Coroutines, CallFails(w) PROVE IInv'
<1>1. faults' \in 0..MaxFaults
  BY ConstantsAssumption DEF CallFails, IInv, TypeOK
<1> QED BY <1>1, ErrorKeeps DEF CallFails

\* An upload in S3.
Upload == [open : BOOLEAN, parts : SUBSET Part]

\* The only upload is replaced by another.
LEMMA Replaced ==
  ASSUME NEW U, NEW us \in Seq(U), Len(us) = 1, NEW u \in U
  PROVE  LET vs == [us EXCEPT ![1] = u] IN vs \in Seq(U) /\ Len(vs) = 1 /\ vs[1] = u
<1>1. 1 \in 1..Len(us)
  OBVIOUS
<1> QED BY <1>1

\* The only element of a sequence.
LEMMA OnlyOne ==
  ASSUME NEW U, NEW us \in Seq(U), Len(us) = 1
  PROVE  us[1] \in U
  OBVIOUS

\* What updates of an upload give.
LEMMA UploadTypes ==
  ASSUME NEW u \in Upload, NEW ps \in SUBSET Part
  PROVE  /\ [u EXCEPT !.parts = ps] \in Upload /\ [u EXCEPT !.parts = ps].parts = ps
         /\ [u EXCEPT !.parts = ps].open = u.open
         /\ [u EXCEPT !.open = FALSE] \in Upload /\ [u EXCEPT !.open = FALSE].parts = u.parts
         /\ ~[u EXCEPT !.open = FALSE].open
         /\ \A b \in BOOLEAN : [open |-> b, parts |-> ps] \in Upload
  BY DEF Upload

\* What an answer on its way leaves alone: everything but the upload or the
\* object that it is about.
LEMMA Served ==
  ASSUME IInv, NEW w \in Coroutines, S3Serves(w)
  PROVE  /\ TypeOK /\ StoreOK /\ Control /\ Known /\ phase \in Working
         /\ size' = size /\ phase' = phase /\ cp' = cp /\ faults' = faults
         /\ size \in 0..MaxSize /\ up[w].op # "none" /\ up[w].st = "sent" /\ Possible(up[w])
         /\ uploads \in Seq(Upload) /\ object \in Seq(Bytes)
         /\ \A v \in Coroutines : v # w => up'[v] = up[v] /\ up[v].op = "none"
         /\ \A v \in Coroutines : up'[v].op = up[v].op
         /\ up'["tick"].op = up["tick"].op /\ up'["fin"].op = up["fin"].op
         /\ up'[w].st = "ok" /\ up'[w].plan = up[w].plan /\ up'[w].n = up[w].n
         /\ up'[w].id = IF up[w].op = "create" THEN Len(uploads) + 1 ELSE up[w].id
         /\ up' \in [Coroutines -> Call] /\ Control'
<1>0. /\ TypeOK /\ StoreOK /\ Control /\ Known /\ phase \in Working
      /\ size' = size /\ phase' = phase /\ cp' = cp /\ faults' = faults
      /\ size \in 0..MaxSize /\ up[w].op # "none" /\ up[w].st = "sent" /\ Possible(up[w])
      /\ uploads \in Seq(Upload) /\ object \in Seq(Bytes)
  BY DEF S3Serves, IInv, TypeOK, Upload
<1>1. up \in [Coroutines -> Call] /\ Len(uploads) + 1 \in Nat
  BY <1>0 DEF TypeOK
<1>2. \A v \in Coroutines : v # w => up[v].op = "none"
  BY <1>0, FlushWaits, ShutdownWaits DEF Coroutines
<1> DEFINE id == IF up[w].op = "create" THEN Len(uploads) + 1 ELSE up[w].id
           call == [up[w] EXCEPT !.st = "ok", !.id = id]
<1>3. /\ call \in Call /\ call.op = up[w].op /\ call.st = "ok" /\ call.plan = up[w].plan
      /\ call.n = up[w].n /\ call.id = id
  <2>1. up[w] \in Call /\ up[w].id \in Nat
    BY <1>1 DEF Call
  <2>2. id \in Nat
    BY <1>1, <2>1
  <2> HIDE DEF id
  <2> QED BY <2>1, <2>2 DEF Call
<1>4. up' = [up EXCEPT ![w] = call]
  <2>1. up' = [up EXCEPT ![w].st = "ok",
                         ![w].id = IF up[w].op = "create" THEN Len(uploads) + 1 ELSE @]
    BY DEF S3Serves
  <2>2. up[w] \in Call
    BY <1>1
  <2> QED BY <1>1, <2>1, <2>2 DEF Call
<1> HIDE DEF call
<1>5. up' \in [Coroutines -> Call] /\ up'[w] = call
      /\ \A v \in Coroutines : v # w => up'[v] = up[v]
  BY <1>1, <1>3, <1>4
<1>6. /\ \A v \in Coroutines : up'[v].op = up[v].op
      /\ up'["tick"].op = up["tick"].op /\ up'["fin"].op = up["fin"].op
  BY <1>3, <1>5 DEF Coroutines
<1>7. Control'
  BY <1>0, <1>6 DEF Control
<1> QED BY <1>0, <1>2, <1>3, <1>5, <1>6, <1>7

LEMMA CreateServed ==
  ASSUME IInv, NEW w \in Coroutines, S3Serves(w), up[w].op = "create" PROVE IInv'
<1> DEFINE new == [open |-> TRUE, parts |-> {}]
<1>0. CreateOK(w) /\ uploads = <<>> /\ object = <<>> /\ cp.id = 0 /\ phase # "recovered"
  BY Served DEF IInv, CreateOK, Working
<1>1. uploads' = Append(uploads, new) /\ object' = object
  BY DEF S3Serves
<1>2. /\ uploads' \in Seq(Upload)
      /\ Len(uploads') = 1 /\ uploads'[1] = new /\ Len(uploads) = 0
  <2>1. new \in Upload
    BY DEF Upload
  <2> HIDE DEF new
  <2> QED BY <1>0, <1>1, <2>1
<1>3. uploads'[1].open /\ uploads'[1].parts = {}
  BY <1>2
<1>4. TypeOK'
  BY <1>1, <1>2, Served DEF TypeOK, Upload
<1>5. Known'
  BY <1>0, Served DEF Known
<1>6. CreateOK(w)'
  BY <1>0, <1>1, <1>2, <1>3, Served DEF CreateOK, Stored, PlanOK
<1>7. \A v \in Coroutines : CreateOK(v)' /\ PartCallOK(v)'
  BY <1>6, Served DEF CreateOK, PartCallOK
<1>8. CompleteOK' /\ AbortOK'
  BY Served DEF CompleteOK, AbortOK, Coroutines
<1>9. RestOK'
  <2>1. phase \in Before => cp.flushing
    BY Served DEF Control, Before, Working, Coroutines
  <2> QED BY <2>1, Served DEF RestOK
<1>10. StoreOK'
  <2>1. PartSeq(<<>>, size') /\ Elements(<<>>) = {}
    BY NoParts, Served
  <2> QED BY <1>2, <1>3, <2>1, StoreHolds
<1>11. ObjectOK'
  BY <1>0, <1>1, Served DEF ObjectOK, IInv
<1> QED BY <1>4, <1>5, <1>7, <1>8, <1>9, <1>10, <1>11, Served DEF IInv

LEMMA PartServed ==
  ASSUME IInv, NEW w \in Coroutines, S3Serves(w), up[w].op = "part" PROVE IInv'
<1> DEFINE p == PartOf(up[w])
           ps == {x \in uploads[1].parts : x.n # up[w].n} \cup {p}
<1>0. /\ PartCallOK(w) /\ object = <<>> /\ up[w].id = 1 /\ cp.id = 1
      /\ up[w].n = Len(cp.parts) + 1 /\ PlanOK(w, up[w].plan)
      /\ Stored(Elements(cp.parts)) /\ PartSeq(cp.parts, size)
  BY Served DEF IInv, PartCallOK, Known
<1>1. uploads' = [uploads EXCEPT ![1].parts = ps] /\ object' = object
  BY <1>0 DEF S3Serves
<1>2. /\ p \in Part /\ p.n = Len(cp.parts) + 1 /\ p.lo = EndOf(cp.parts, 0)
      /\ p.lo < p.hi /\ p.hi <= size
  BY PartOfPlan
<1> HIDE DEF p
<1>3. ps = Elements(cp.parts) \cup {p}
  <2>1. Len(cp.parts) \in Nat /\ \A i \in 1..Len(cp.parts) : cp.parts[i].n = i
    BY <1>0 DEF PartSeq
  <2>2. \A x \in Elements(cp.parts) : x.n # up[w].n
    BY <1>0, <2>1 DEF Elements
  <2> QED BY <1>0, <2>2 DEF Stored
<1>4. ps \in SUBSET Part
  <2>1. Elements(cp.parts) \in SUBSET Part
    BY <1>0 DEF PartSeq, Elements
  <2> QED BY <1>2, <1>3, <2>1
<1> HIDE DEF ps
<1>5. /\ uploads' \in Seq(Upload) /\ Len(uploads') = 1
      /\ uploads'[1].parts = ps /\ uploads'[1].open
  <2>1. uploads \in Seq(Upload) /\ Len(uploads) = 1 /\ uploads[1].open
    BY <1>0, Served DEF Stored
  <2>2. uploads[1] \in Upload
    BY <2>1, OnlyOne
  <2> DEFINE new == [uploads[1] EXCEPT !.parts = ps]
  <2>3. new \in Upload /\ new.parts = ps /\ new.open
    BY <1>4, <2>1, <2>2, UploadTypes
  <2>4. uploads' = [uploads EXCEPT ![1] = new]
    BY <1>1
  <2> HIDE DEF new
  <2> QED BY <2>1, <2>3, <2>4, Replaced
<1>6. TypeOK'
  BY <1>1, <1>5, Served DEF TypeOK, Upload
<1>7. Known'
  BY <1>5, Served DEF Known
<1>8. PartCallOK(w)'
  <2>1. PartOf(up[w])' = p
    BY Served DEF PartOf, p
  <2> QED BY <1>0, <1>1, <1>3, <1>5, <2>1, Served DEF PartCallOK, Stored, PlanOK
<1>9. \A v \in Coroutines : CreateOK(v)' /\ PartCallOK(v)'
  BY <1>8, Served DEF CreateOK, PartCallOK
<1>10. CompleteOK' /\ AbortOK'
  BY Served DEF CompleteOK, AbortOK, Coroutines
<1>11. RestOK'
  <2>1. phase \in Before => cp.flushing
    BY Served DEF Control, Before, Working, Coroutines
  <2> QED BY <2>1, Served DEF RestOK
<1>12. StoreOK'
  <2> DEFINE q == Append(cp.parts, p)
  <2>1. AllFull(cp.parts)
    BY <1>0 DEF PlanOK
  <2>2. PartSeq(q, size) /\ Elements(q) = Elements(cp.parts) \cup {p}
    BY <1>0, <1>2, <2>1, NextPart, Served
  <2> HIDE DEF q
  <2> QED BY <1>3, <1>5, <2>2, StoreHolds, Served
<1>13. ObjectOK'
  BY <1>0, <1>1, Served DEF ObjectOK, IInv
<1> QED BY <1>6, <1>7, <1>9, <1>10, <1>11, <1>12, <1>13, Served DEF IInv

LEMMA AbortServed ==
  ASSUME IInv, NEW w \in Coroutines, S3Serves(w), up[w].op = "abort" PROVE IInv'
<1> DEFINE new == [open |-> FALSE, parts |-> {}]
<1>0. up[w].id = 1 /\ cp.id = 1 /\ Len(uploads) = 1
  BY DEF IInv, AbortOK, Known
<1>1. uploads' = [uploads EXCEPT ![1] = new] /\ object' = object
  BY <1>0 DEF S3Serves
<1>2. /\ uploads' \in Seq(Upload)
      /\ Len(uploads') = 1 /\ uploads'[1] = new
  <2>1. new \in Upload
    BY DEF Upload
  <2> HIDE DEF new
  <2> QED BY <1>0, <1>1, <2>1, Replaced, Served
<1>3. uploads'[1].parts = {}
  BY <1>2
<1>4. TypeOK'
  BY <1>1, <1>2, Served DEF TypeOK, Upload
<1>5. Known'
  BY <1>2, Served DEF Known
<1>7. \A v \in Coroutines : CreateOK(v)' /\ PartCallOK(v)'
  BY Served DEF CreateOK, PartCallOK
<1>8. CompleteOK' /\ AbortOK'
  <2>1. \A v \in Coroutines : up[v].op \in {"none", "abort"} /\ up'[v].op = up[v].op
    BY Served
  <2>2. \A v \in Coroutines : up[v].op = "abort" => up'[v].id = 1
    BY <1>0, Served
  <2> QED BY <1>0, <2>1, <2>2, Served DEF CompleteOK, AbortOK, Coroutines
<1>9. RestOK'
  <2>1. phase \in Before => cp.flushing
    BY Served DEF Control, Before, Working, Coroutines
  <2> QED BY <2>1, Served DEF RestOK
<1>10. StoreOK'
  <2>1. PartSeq(<<>>, size') /\ Elements(<<>>) = {}
    BY NoParts, Served
  <2> QED BY <1>2, <1>3, <2>1, StoreHolds
<1>11. ObjectOK'
  BY <1>1, Served DEF ObjectOK, IInv
<1> QED BY <1>4, <1>5, <1>7, <1>8, <1>9, <1>10, <1>11, Served DEF IInv

LEMMA CompleteServed ==
  ASSUME IInv, NEW w \in Coroutines, S3Serves(w), up[w].op = "complete" PROVE IInv'
<1>0. w = "fin"
  BY Served DEF Control, Coroutines
<1>1. /\ up["fin"].op = "complete" /\ up["fin"].id = 1 /\ cp.id = 1 /\ cp.parts # <<>>
      /\ cp.offset = size /\ PartSeq(cp.parts, size) /\ cp.offset = EndOf(cp.parts, 0)
      /\ Len(uploads) = 1 /\ phase = "finalize"
  BY <1>0, ShutdownWaits, Served DEF IInv, CompleteOK, Known, Control, After
<1>2. /\ uploads' = [uploads EXCEPT ![1].open = FALSE]
      /\ object' = [i \in 1..Len(cp.parts) |-> [lo |-> cp.parts[i].lo, hi |-> cp.parts[i].hi]]
  BY <1>0, <1>1 DEF S3Serves, Complete
<1>3. /\ object' \in Seq(Bytes) /\ object' # <<>> /\ Gapless(object')
      /\ object'[Len(object')].hi = size /\ size \in 1..size
  <2>1. size \in 0..MaxSize
    BY Served
  <2> HIDE DEF Gapless
  <2> QED BY <1>1, <1>2, <2>1, ObjectOf
<1>4. /\ uploads' \in Seq(Upload) /\ Len(uploads') = 1
      /\ uploads'[1].parts = uploads[1].parts
  <2>1. uploads \in Seq(Upload) /\ Len(uploads) = 1
    BY <1>1, Served
  <2>2. uploads[1] \in Upload
    BY <2>1, OnlyOne
  <2> DEFINE new == [uploads[1] EXCEPT !.open = FALSE]
  <2>3. new \in Upload /\ new.parts = uploads[1].parts
    BY <2>2, UploadTypes
  <2>4. uploads' = [uploads EXCEPT ![1] = new]
    BY <1>2
  <2> HIDE DEF new
  <2> QED BY <2>1, <2>3, <2>4, Replaced
<1>5. TypeOK'
  BY <1>3, <1>4, Served DEF TypeOK, Upload
<1>6. Known' /\ RestOK'
  BY <1>1, <1>4, Served DEF Known, RestOK, Before
<1>7. \A v \in Coroutines : CreateOK(v)' /\ PartCallOK(v)'
  BY Served DEF CreateOK, PartCallOK
<1>8. CompleteOK' /\ AbortOK'
  <2>1. /\ up'["fin"].op = "complete" /\ up'["fin"].st = "ok" /\ up'["fin"].id = 1
        /\ up'["tick"].op = "none"
    BY <1>0, <1>1, Served DEF Coroutines
  <2> QED BY <1>1, <1>3, <2>1, Served DEF CompleteOK, AbortOK, Coroutines
<1>9. StoreOK'
  BY <1>1, <1>4, StoreStays, Served, ConstantsAssumption
<1>10. ObjectOK'
  BY <1>1, <1>3, Served DEF ObjectOK, Before
<1> QED BY <1>5, <1>6, <1>7, <1>8, <1>9, <1>10, Served DEF IInv

LEMMA PutServed ==
  ASSUME IInv, NEW w \in Coroutines, S3Serves(w), up[w].op = "put" PROVE IInv'
<1>0. w = "fin" /\ up["fin"].op = "put"
  BY Served DEF Control, Coroutines
<1>1. phase = "fallback" /\ size > 0
  BY <1>0, ShutdownWaits, Served DEF Control, After
<1>2. uploads' = uploads /\ object' = <<[lo |-> 0, hi |-> size]>>
  BY <1>0 DEF S3Serves
<1>3. /\ object' \in Seq(Bytes) /\ object' # <<>> /\ Gapless(object')
      /\ object'[Len(object')].hi = size /\ size \in 1..size
  <2> DEFINE r == [lo |-> 0, hi |-> size]
  <2>1. r \in Bytes /\ r.lo = 0 /\ r.hi = size /\ size \in 1..size
    BY <1>1, Served, ConstantsAssumption DEF Bytes
  <2> HIDE DEF r
  <2>2. object' = <<r>>
    BY <1>2 DEF r
  <2>3. object' \in Seq(Bytes) /\ object' # <<>> /\ Len(object') = 1 /\ object'[1] = r
    BY <2>1, <2>2
  <2>4. \A i \in 1..Len(object') : i = 1
    BY <2>3
  <2> QED BY <2>1, <2>3, <2>4 DEF Gapless
<1>5. TypeOK'
  BY <1>2, <1>3, Served DEF TypeOK
<1>6. Known' /\ RestOK'
  BY <1>1, <1>2, Served DEF Known, RestOK, Before
<1>7. \A v \in Coroutines : CreateOK(v)' /\ PartCallOK(v)'
  BY Served DEF CreateOK, PartCallOK
<1>8. CompleteOK' /\ AbortOK'
  BY <1>0, <1>3, Served DEF CompleteOK, AbortOK, Coroutines
<1>9. StoreOK'
  BY <1>2, StoreStays, Served, ConstantsAssumption
<1>10. ObjectOK'
  BY <1>1, <1>3, Served DEF ObjectOK, Before
<1> QED BY <1>5, <1>6, <1>7, <1>8, <1>9, <1>10, Served DEF IInv

LEMMA ServedKeeps == ASSUME IInv, NEW w \in Coroutines, S3Serves(w) PROVE IInv'
<1>1. up[w].op \in {"create", "part", "abort", "complete", "put"}
  BY DEF S3Serves
<1> QED BY <1>1, CreateServed, PartServed, AbortServed, CompleteServed, PutServed

\* The backend completes what the worker left.
LEMMA RecoverKeeps == ASSUME IInv, Recover PROVE IInv'
<1>0. /\ phase \in {"failed", "crashed"} /\ object = <<>> /\ Orphan # 0
      /\ size' = size /\ cp' = cp /\ up' = up /\ faults' = faults
      /\ size \in 0..MaxSize /\ phase' \in {phase, "recovered"} /\ TypeOK /\ Known
      /\ uploads \in Seq(Upload) /\ object \in Seq(Bytes) /\ Len(uploads) <= 1
  BY DEF Recover, IInv, TypeOK, StoreOK, Upload
<1>1. Orphan = 1 /\ Len(uploads) = 1 /\ uploads[1].open
  BY <1>0, OneOrphan DEF TypeOK
<1>2. \A w \in Coroutines : up'[w].op = "none"
  BY <1>0 DEF IInv, Control, Working
<1>3. /\ uploads' = [uploads EXCEPT ![1].open = FALSE]
      /\ \/ phase' = phase /\ object' = object
         \/ /\ phase' = "recovered" /\ uploads[1].parts # {}
            /\ object' = [i \in 1..Len(Listed(1)) |->
                             [lo |-> Listed(1)[i].lo, hi |-> Listed(1)[i].hi]]
  BY <1>1 DEF Recover, Complete
<1>4. /\ uploads' \in Seq(Upload) /\ Len(uploads') = 1
      /\ uploads'[1].parts = uploads[1].parts
  <2>1. uploads[1] \in Upload
    BY <1>0, <1>1, OnlyOne
  <2> DEFINE new == [uploads[1] EXCEPT !.open = FALSE]
  <2>2. new \in Upload /\ new.parts = uploads[1].parts
    BY <2>1, UploadTypes
  <2>3. uploads' = [uploads EXCEPT ![1] = new]
    BY <1>3
  <2> HIDE DEF new
  <2> QED BY <1>0, <1>1, <2>2, <2>3, Replaced
<1>5. /\ object' # <<>> => /\ phase' = "recovered" /\ Gapless(object')
                           /\ object'[Len(object')].hi \in 1..size
      /\ phase' = "recovered" => object' # <<>>
      /\ object' \in Seq(Bytes)
  <2>1. CASE phase' = phase /\ object' = object
    BY <1>0, <2>1
  <2>2. CASE /\ phase' = "recovered" /\ uploads[1].parts # {}
             /\ object' = [i \in 1..Len(Listed(1)) |->
                              [lo |-> Listed(1)[i].lo, hi |-> Listed(1)[i].hi]]
    <3> DEFINE q == Listed(1)
    <3>1. PartSeq(q, size) /\ uploads[1].parts = Elements(q)
      BY <1>1 DEF IInv, StoreOK
    <3> HIDE DEF q
    <3>2. q # <<>>
      BY <1>0, <2>2, <3>1, NoParts
    <3>3. object' = [i \in 1..Len(q) |-> [lo |-> q[i].lo, hi |-> q[i].hi]]
      BY <2>2 DEF q
    <3>4. /\ object' \in Seq(Bytes) /\ object' # <<>> /\ Gapless(object')
          /\ object'[Len(object')].hi = EndOf(q, 0) /\ EndOf(q, 0) \in 1..size
      BY <1>0, <3>1, <3>2, <3>3, ObjectOf
    <3> QED BY <2>2, <3>4
  <2> QED BY <1>3, <2>1, <2>2
<1>6. /\ phase' \notin Working /\ phase' \notin Before /\ phase' \notin After
      /\ phase' \notin {"cleanup", "finalize", "fallback", "finalized"}
  BY <1>0 DEF Working, Before, After
<1>7. TypeOK'
  BY <1>0, <1>4, <1>5 DEF TypeOK, Upload
<1>8. Control'
  BY <1>0, <1>2, <1>6 DEF Control, Coroutines
<1>9. Known' /\ RestOK'
  BY <1>0, <1>4, <1>6 DEF Known, RestOK
<1>10. \A w \in Coroutines : CreateOK(w)' /\ PartCallOK(w)'
  BY <1>2 DEF CreateOK, PartCallOK
<1>11. CompleteOK' /\ AbortOK'
  BY <1>2 DEF CompleteOK, AbortOK, Coroutines
<1>12. StoreOK'
  BY <1>0, <1>1, <1>4, StoreStays, ConstantsAssumption DEF IInv
<1>13. ObjectOK'
  BY <1>0, <1>5, <1>6 DEF ObjectOK
<1> QED BY <1>7, <1>8, <1>9, <1>10, <1>11, <1>12, <1>13 DEF IInv

-----------------------------------------------------------------------------
(* The theorems.                                                           *)

LEMMA InitHolds == Init => IInv
<1> SUFFICES ASSUME Init PROVE IInv
  OBVIOUS
<1>0. /\ size = 0 /\ phase = "recording" /\ uploads = <<>> /\ object = <<>> /\ faults = 0
      /\ cp = [id |-> 0, next |-> 1, offset |-> 0, parts |-> <<>>,
               disabled |-> FALSE, flushing |-> FALSE]
      /\ up = [w \in Coroutines |-> NoCall]
  BY DEF Init
<1>1. up \in [Coroutines -> Call] /\ \A w \in Coroutines : up[w].op = "none"
  BY <1>0, CallTypes
<1>2. /\ cp \in Checkpointer /\ cp.id = 0 /\ cp.next = 1 /\ cp.offset = 0
      /\ cp.parts = <<>> /\ ~cp.disabled /\ ~cp.flushing
  BY <1>0, ConstantsAssumption DEF Checkpointer
<1>3. /\ size \in 0..MaxSize /\ PartSeq(<<>>, size) /\ EndOf(<<>>, 0) = 0
      /\ AllFull(<<>>) /\ Len(<<>>) = 0 /\ Len(uploads) = 0
  BY <1>0, NoParts, ConstantsAssumption
<1>4. TypeOK
  BY <1>0, <1>1, <1>2, <1>3, ConstantsAssumption DEF TypeOK, Working
<1>5. Control
  BY <1>0, <1>1, <1>2 DEF Control, Working, Before, After, Coroutines
<1>6. Known /\ RestOK /\ StoreOK /\ ObjectOK
  BY <1>0, <1>2, <1>3 DEF Known, RestOK, StoreOK, ObjectOK
<1>7. (\A w \in Coroutines : CreateOK(w) /\ PartCallOK(w)) /\ CompleteOK /\ AbortOK
  BY <1>1 DEF CreateOK, PartCallOK, CompleteOK, AbortOK, Coroutines
<1> QED BY <1>4, <1>5, <1>6, <1>7 DEF IInv

LEMMA StutterKeeps == ASSUME IInv, UNCHANGED vars PROVE IInv'
<1>0. /\ size' = size /\ phase' = phase /\ cp' = cp /\ up' = up /\ uploads' = uploads
      /\ object' = object /\ faults' = faults
  BY DEF vars
<1>1. TypeOK' /\ Control' /\ Known'
  BY <1>0 DEF IInv, TypeOK, Control, Known
<1>2. \A w \in Coroutines : CreateOK(w)' /\ PartCallOK(w)'
  BY <1>0 DEF IInv, CreateOK, PartCallOK, PlanOK, Stored, PartOf
<1>3. CompleteOK' /\ AbortOK' /\ RestOK' /\ ObjectOK'
  BY <1>0 DEF IInv, CompleteOK, AbortOK, RestOK, ObjectOK, Stored
<1>4. StoreOK'
  BY <1>0, StoreStays, ConstantsAssumption DEF IInv, TypeOK
<1> QED BY <1>1, <1>2, <1>3, <1>4 DEF IInv

LEMMA NextKeeps == ASSUME Prompt, IInv, [Next]_vars PROVE IInv'
<1>1. CASE WorkerStep
  BY <1>1, FinalizeKeeps, CleanUpKeeps, PersistedKeeps, FlushFailsKeeps,
     FinalizeFailsKeeps, PutFailsKeeps, ServedKeeps, RefusedKeeps, CreatedKeeps,
     PartUploadedKeeps, AbortedKeeps DEF WorkerStep
<1>2. CASE Encode \/ Tick \/ Shutdown \/ Crash \/ Recover
  BY <1>2, EncodeKeeps, TickKeeps, ShutdownKeeps, CrashKeeps, RecoverKeeps
<1>3. CASE \E w \in Coroutines : CallFails(w)
  BY <1>3, CallFailsKeeps
<1>4. CASE UNCHANGED vars
  BY <1>4, StutterKeeps
<1> QED BY <1>1, <1>2, <1>3, <1>4 DEF Next

\* Every reachable state of a prompt worker, S3 and the recovery satisfies IInv.
THEOREM InductiveInvariant ==
  ASSUME Prompt
  PROVE  Spec => []IInv
<1>1. Init => IInv
  BY InitHolds
<1>2. IInv /\ [Next]_vars => IInv'
  BY NextKeeps
<1> QED BY <1>1, <1>2, PTL DEF Spec

\* Variables of the worker, S3 and the object keep their types: no part, range
\* or offset ever lies outside the file.
THEOREM TypeCorrect ==
  ASSUME Prompt
  PROVE  Spec => []TypeOK
<1>1. IInv => TypeOK
  BY DEF IInv
<1> QED BY <1>1, InductiveInvariant, PTL

\* What an object holds, when it is the beginning of the recording.
LEMMA HeldObject ==
  ASSUME ObjectOK, TypeOK
  PROVE  /\ object = <<>> => Held(object) = 0
         /\ object # <<>> => Held(object) = object[Len(object)].hi /\ Held(object) \in 1..size
  BY DEF ObjectOK, Held

\* How much of the recording the object holds after a step.
LEMMA HeldObjectNext ==
  ASSUME ObjectOK', TypeOK'
  PROVE  /\ object' = <<>> => Held(object)' = 0
         /\ object' # <<>> => /\ Held(object)' = object'[Len(object')].hi
                              /\ Held(object)' \in 1..size'
  BY DEF ObjectOK, Held

\* S3 has at least what the worker has been told, until a failure.
LEMMA StoredEnough ==
  ASSUME IInv, phase \in {"recording", "draining", "failing", "finalize"}, ~cp.disabled,
         object = <<>>
  PROVE  \/ uploads = <<>> /\ cp.offset = 0
         \/ \E q : PartSeq(q, size) /\ Stored(Elements(q)) /\ EndOf(q, 0) \in cp.offset..size
<1>0. /\ PartSeq(cp.parts, size) /\ cp.offset = EndOf(cp.parts, 0) /\ size \in 0..MaxSize
      /\ Control /\ cp.id \in {0, 1} /\ phase \in Working
  BY DEF IInv, Known, TypeOK, Working
<1>1. cp.offset \in 0..size /\ EndOf(cp.parts, 0) \in cp.offset..size
  BY <1>0, EndOfParts, ConstantsAssumption
<1>2. cp.parts = <<>> => cp.offset = 0 /\ Elements(cp.parts) = {}
  BY <1>0, NoParts
<1>3. ASSUME NEW w \in Coroutines, up[w].op = "create"
      PROVE  \/ uploads = <<>> /\ cp.offset = 0
             \/ Stored(Elements(cp.parts))
  <2>1. up[w].st \in {"sent", "ok", "error"}
    BY DEF IInv, TypeOK, Call
  <2> QED BY <1>2, <1>3, <2>1 DEF IInv, CreateOK
<1>4. ASSUME NEW w \in Coroutines, up[w].op = "part"
      PROVE  \/ Stored(Elements(cp.parts))
             \/ \E q : PartSeq(q, size) /\ Stored(Elements(q)) /\ EndOf(q, 0) \in cp.offset..size
  <2> DEFINE p == PartOf(up[w])
             q == Append(cp.parts, p)
  <2>1. /\ Stored(Elements(cp.parts)) \/ Stored(Elements(cp.parts) \cup {p})
        /\ AllFull(cp.parts)
    <3>1. up[w].st \in {"sent", "ok", "error"}
      BY DEF IInv, TypeOK, Call
    <3> QED BY <1>4, <3>1 DEF IInv, PartCallOK, PlanOK
  <2>2. /\ p \in Part /\ p.n = Len(cp.parts) + 1 /\ p.lo = EndOf(cp.parts, 0)
        /\ p.lo < p.hi /\ p.hi <= size
    BY <1>4, PartOfPlan
  <2> HIDE DEF p
  <2>3. /\ PartSeq(q, size) /\ Elements(q) = Elements(cp.parts) \cup {p}
        /\ EndOf(q, 0) = p.hi
    BY <1>0, <2>1, <2>2, NextPart
  <2> HIDE DEF q
  <2>4. EndOf(q, 0) \in cp.offset..size
    BY <1>0, <1>1, <2>2, <2>3, Positions
  <2> QED BY <2>1, <2>3, <2>4
<1>5. CASE phase \in Before /\ ~cp.flushing
  <2>1. (uploads = <<>> /\ cp.parts = <<>>) \/ Stored(Elements(cp.parts))
    BY <1>0, <1>5 DEF IInv, RestOK
  <2> QED BY <1>0, <1>1, <1>2, <2>1
<1>6. CASE phase \in Before /\ cp.flushing
  <2>1. up["tick"].op \in {"create", "part"} /\ "tick" \in Coroutines
    BY <1>0, <1>6 DEF Control, Coroutines
  <2> QED BY <1>0, <1>1, <1>3, <1>4, <2>1
<1>7. CASE phase = "finalize"
  <2>1. up["fin"].op \in {"create", "part", "complete"} /\ "fin" \in Coroutines
    BY <1>0, <1>7 DEF Control, Coroutines
  <2>2. up["fin"].op = "complete" => Stored(Elements(cp.parts))
    BY DEF IInv, CompleteOK
  <2> QED BY <1>0, <1>1, <1>3, <1>4, <2>1, <2>2
<1> QED BY <1>5, <1>6, <1>7 DEF Before

\* Until a failure makes the worker give its upload up, a crash at any moment
\* costs no more than what was encoded since the last flushed part.
THEOREM CrashInsured ==
  ASSUME Prompt
  PROVE  Spec => []Insured
<1>1. IInv => Insured
  <2> SUFFICES ASSUME IInv, phase \in {"recording", "draining", "failing", "finalize"},
                      ~cp.disabled
               PROVE  Recoverable \in cp.offset..size
    BY DEF Insured
  <2>0. /\ TypeOK /\ ObjectOK /\ size \in 0..MaxSize /\ PartSeq(cp.parts, size)
        /\ cp.offset = EndOf(cp.parts, 0) /\ Len(uploads) <= 1
        /\ uploads \in Seq([open : BOOLEAN, parts : SUBSET Part])
    BY DEF IInv, TypeOK, Known, StoreOK
  <2>1. cp.offset \in 0..size
    BY <2>0, EndOfParts
  <2>2. CASE object # <<>>
    <3>1. Held(object) = size
      BY <2>0, <2>2, HeldObject DEF ObjectOK
    <3> QED BY <2>0, <2>1, <2>2, <3>1, ConstantsAssumption DEF Recoverable
  <2>3. CASE object = <<>> /\ uploads = <<>> /\ cp.offset = 0
    <3>1. Orphan = 0
      BY <2>0, <2>3, OneOrphan
    <3> QED BY <2>0, <2>3, <3>1, ConstantsAssumption DEF Recoverable
  <2>4. ASSUME object = <<>>, NEW q, PartSeq(q, size), Stored(Elements(q)),
               EndOf(q, 0) \in cp.offset..size
        PROVE  Recoverable \in cp.offset..size
    <3>1. Orphan = 1
      BY <2>0, <2>4, OneOrphan DEF Stored
    <3>2. Listed(1) = q
      BY <2>4, ListOfParts, ListedParts DEF Stored
    <3>3. Held(q) = EndOf(q, 0)
      BY <2>4, HeldParts
    <3> QED BY <2>4, <3>1, <3>2, <3>3 DEF Recoverable
  <2> QED BY <2>2, <2>3, <2>4, StoredEnough
<1> QED BY <1>1, InductiveInvariant, PTL

\* A worker that reports "finalized" left the whole recording at the key,
\* whichever way it took and whatever failed before.
THEOREM FinalizedWhole ==
  ASSUME Prompt
  PROVE  Spec => []FinalizedIsComplete
<1>1. IInv => FinalizedIsComplete
  <2> SUFFICES ASSUME IInv, phase = "finalized" PROVE Held(object) = size
    BY DEF FinalizedIsComplete
  <2>1. TypeOK /\ ObjectOK
    BY DEF IInv
  <2> QED BY <2>1, HeldObject DEF ObjectOK
<1> QED BY <1>1, InductiveInvariant, PTL

\* How a step changes the file and the object.
LEMMA ObjectSteps ==
  ASSUME IInv, IInv', [Next]_vars
  PROVE  \/ size' = size + 1 /\ object = <<>> /\ object' = <<>>
         \/ /\ size' = size
            /\ \/ object' = object
               \/ object = <<>>
               \/ phase \in Working /\ phase' = phase /\ object' # <<>>
<1>1. CASE Encode
  <2>1. size' = size + 1 /\ object' = object /\ phase \in Before
    BY <1>1 DEF Encode, s3Vars, Before
  <2> QED BY <2>1 DEF IInv, ObjectOK
<1>2. ASSUME NEW w \in Coroutines, S3Serves(w)
      PROVE  size' = size /\ (object' = object \/ (phase \in Working /\ phase' = phase /\ object' # <<>>))
  <2>1. size' = size /\ phase' = phase /\ phase \in Working
    BY <1>2, Served
  <2>2. CASE up[w].op \in {"complete", "put"}
    <3>1. w = "fin" /\ up'["fin"].op \in {"complete", "put"} /\ up'["fin"].st = "ok"
      BY <1>2, <2>2, Served DEF Control, Coroutines
    <3>2. CompleteOK' /\ AbortOK'
      BY DEF IInv
    <3>3. object' # <<>>
      BY <3>1, <3>2 DEF CompleteOK, AbortOK
    <3> QED BY <2>1, <3>3
  <2>3. CASE up[w].op \notin {"complete", "put"}
    <3>1. object' = object
      BY <1>2, <2>3 DEF S3Serves
    <3> QED BY <2>1, <3>1
  <2> QED BY <2>2, <2>3
<1>3. CASE Recover
  BY <1>3 DEF Recover
<1>4. CASE Tick \/ Shutdown \/ Crash \/ Finalize \/ CleanUp \/ UNCHANGED vars
           \/ \E w \in Coroutines : CallFails(w) \/ S3Refuses(w)
  BY <1>4 DEF Tick, Shutdown, Crash, Finalize, CleanUp, CallFails, S3Refuses, vars, s3Vars
<1>5. CASE Persisted \/ FlushFails \/ FinalizeFails \/ PutFails
           \/ \E w \in Coroutines : Created(w) \/ PartUploaded(w) \/ Aborted(w)
  BY <1>5 DEF Persisted, FlushFails, FinalizeFails, PutFails, Created, PartUploaded,
              Aborted, Answered, s3Vars
<1> QED BY <1>1, <1>2, <1>3, <1>4, <1>5 DEF Next, WorkerStep

\* Worker, S3 and recovery together publish the object at most once, and it is
\* the beginning of the recording: what RecordingObject promises the backend.
THEOREM RecordingImplemented ==
  ASSUME Prompt
  PROVE  Spec => ImplementsRecording
<1>1. Init => Abstract!Init
  BY DEF Init, Abstract!Init, Held
<1>2. IInv /\ IInv' /\ [Next]_vars => [Abstract!Next]_<<size, Held(object)>>
  <2> SUFFICES ASSUME IInv, IInv', [Next]_vars
               PROVE  Abstract!Next \/ (size' = size /\ Held(object)' = Held(object))
    BY DEF Abstract!Next
  <2>0. /\ TypeOK /\ ObjectOK /\ TypeOK' /\ ObjectOK' /\ size \in Nat
    BY ConstantsAssumption DEF IInv, TypeOK
  <2>1. CASE size' = size + 1 /\ object = <<>> /\ object' = <<>>
    <3>1. Held(object) = 0 /\ Held(object)' = 0 /\ size' > size
      BY <2>0, <2>1, HeldObject, HeldObjectNext
    <3> QED BY <3>1 DEF Abstract!Next, Abstract!Record
  <2>2. CASE size' = size /\ object' = object
    BY <2>2 DEF Held, Gapless
  <2>3. CASE size' = size /\ object = <<>>
    <3>1. Held(object) = 0 /\ (Held(object)' = 0 \/ Held(object)' \in 1..size)
      BY <2>0, <2>3, HeldObject, HeldObjectNext
    <3> QED BY <2>3, <3>1 DEF Abstract!Next, Abstract!Publish
  <2>4. CASE size' = size /\ object # <<>> /\ phase \in Working /\ phase' = phase /\ object' # <<>>
    <3>1. phase # "recovered" /\ phase' # "recovered"
      BY <2>4 DEF Working
    <3>2. object[Len(object)].hi = size /\ object'[Len(object')].hi = size'
      BY <2>0, <2>4, <3>1 DEF ObjectOK
    <3> QED BY <2>0, <2>4, <3>2, HeldObject, HeldObjectNext
  <2> QED BY <2>1, <2>2, <2>3, <2>4, ObjectSteps
<1> QED BY <1>1, <1>2, InductiveInvariant, PTL DEF Spec, ImplementsRecording, Abstract!Spec

=============================================================================
