------------------------ MODULE MergeSchedulerProofs ------------------------
(***************************************************************************)
(* Proofs about MergeScheduler for every set of requests and every number  *)
(* of jobs.  The inductive invariant is IInv: the counters, the reverse    *)
(* edges and the ready queue are exact about the set of completed nodes;   *)
(* OrderRespected alone is not inductive, since a step consults only the   *)
(* queue and the counters, never the graph.                                *)
(***************************************************************************)
EXTENDS MergeScheduler, SequenceTheorems, FiniteSetTheorems, WellFoundedInduction, TLAPS

LEMMA LeastExists ==
    ASSUME NEW S \in SUBSET Nat, S # {}
    PROVE  \E x \in S : \A y \in S : x <= y
<1>1. PICK x \in S : \A y \in S : ~(<<y, x>> \in OpToRel(<, Nat))
    BY NatLessThanWellFounded, WFMin
<1>2. ASSUME NEW y \in S PROVE x <= y
  <2>1. ~(y < x)
      BY <1>1 DEF OpToRel
  <2> QED BY <2>1
<1> QED BY <1>2

(* The extended blockers have no cycle: in any set of nodes there is one   *)
(* that no other of them blocks.  Strong victims come first, then the      *)
(* entries in plan order, then the weak victims.                           *)
LEMMA NoCycle ==
    ASSUME NEW r, WellFormed(r), NEW S \in SUBSET Nodes(r), S # {}
    PROVE  \E i \in S : Extended(r)[i] \cap S = {}
<1> DEFINE rank(i) == IF i \in Entries(r) THEN i + 1
                      ELSE IF i \in Weak(r) THEN r.entries + 1 ELSE 0
<1> DEFINE T == {rank(i) : i \in S}
<1>1. r.entries \in Nat /\ Entries(r) \subseteq Nat
    BY DEF WellFormed, Entries
<1>2. T \in SUBSET Nat /\ T # {}
    BY <1>1
<1>3. PICK t \in T : \A u \in T : t <= u
    BY <1>2, LeastExists
<1>4. PICK i \in S : t = rank(i)
    OBVIOUS
<1>5. ASSUME NEW j \in Extended(r)[i] PROVE rank(j) < rank(i)
  <2>1. CASE i \in Entries(r)
    <3>1. j \in r.blockers[i] \/ j \in Strong(r)
        BY <2>1, <1>5 DEF Extended
    <3>2. CASE j \in r.blockers[i]
      <4>1. j \in Entries(r) /\ j < i
          BY <3>2, <2>1 DEF WellFormed
      <4> QED BY <4>1, <2>1, <1>1
    <3>3. CASE j \in Strong(r)
      <4>1. j \notin Entries(r) /\ j \notin Weak(r)
          BY <3>3, <1>1 DEF Strong, Weak, Unmerges, Entries
      <4> QED BY <4>1, <2>1, <1>1
    <3> QED BY <3>1, <3>2, <3>3
  <2>2. CASE i \in Weak(r)
    <3>1. i \notin Entries(r) /\ i \in Unmerges(r)
        BY <2>2, <1>1 DEF Weak, Unmerges, Entries
    <3>2. j \in r.owners[i]
        BY <2>2, <3>1, <1>5 DEF Extended
    <3>3. j \in Entries(r)
        BY <3>1, <3>2 DEF WellFormed
    <3> QED BY <3>1, <3>3, <2>2, <1>1 DEF Entries
  <2>3. CASE i \notin Entries(r) /\ i \notin Weak(r)
      BY <2>3, <1>5 DEF Extended
  <2> QED BY <2>1, <2>2, <2>3
<1>6. ASSUME NEW j \in Extended(r)[i], j \in S PROVE FALSE
  <2>1. rank(j) \in T /\ rank(j) \in Nat /\ rank(i) \in Nat
      BY <1>6, <1>1
  <2> QED BY <2>1, <1>3, <1>4, <1>5, <1>6
<1> QED BY <1>6

(* Once the loop awaits with nothing in flight, nothing is queued, unless  *)
(* it was told to stop.                                                    *)
Drained ==
    (pc \in {"await", "done"} /\ Inflight = {} /\ ~stop_new /\ ~interrupted)
        => ready = << >>

(* Nothing is in flight once the loop has returned.                        *)
Quiescent == pc = "done" => Inflight = {}

(* Only plan entries are ever skipped.                                     *)
SkippedAreEntries ==
    \A i \in Nodes(run) : status[i] = "skipped" => i \in Entries(run)

(* An unmerge that removed nothing ended after the signal, and before any  *)
(* of its dependents was started.                                          *)
UnremovedLate ==
    \A u \in unremoved :
        /\ interrupted
        /\ \A i \in Nodes(run) : u \in Extended(run)[i] => status[i] = "waiting"

IInv == /\ TypeOK
        /\ SkippedAreEntries
        /\ Bookkeeping
        /\ OrderRespected
        /\ QueueExact
        /\ WorkdirsExclusive
        /\ Drained
        /\ Quiescent
        /\ UnremovedLate

(***************************************************************************)
(* Facts about the request.                                                *)
(***************************************************************************)

(* The extended blockers of a well-formed request are a graph over its     *)
(* finitely many nodes.                                                    *)
LEMMA ExtendedType ==
    ASSUME NEW r \in Requests
    PROVE  /\ Extended(r) \in [Nodes(r) -> SUBSET Nodes(r)]
           /\ IsFiniteSet(Nodes(r))
           /\ Entries(r) \cap Unmerges(r) = {}
           /\ Nodes(r) = Entries(r) \cup Unmerges(r)
  <1>1. WellFormed(r)
    BY RequestsAssumption
  <1>2. r.entries \in Nat /\ r.unmerges \in Nat
    BY <1>1 DEF WellFormed
  <1>3. /\ Entries(r) \cap Unmerges(r) = {}
        /\ Nodes(r) = Entries(r) \cup Unmerges(r)
    BY <1>2 DEF Entries, Unmerges, Nodes
  <1>4. IsFiniteSet(Nodes(r))
    <2>1. 0 \in Int /\ r.entries + r.unmerges - 1 \in Int
      BY <1>2
    <2>2. IsFiniteSet(0 .. (r.entries + r.unmerges - 1))
      BY <2>1, FS_Interval
    <2>3. QED
      BY <2>2 DEF Nodes
  <1>5. \A i \in Nodes(r) : Extended(r)[i] \subseteq Nodes(r)
    <2>1. SUFFICES ASSUME NEW i \in Nodes(r)
                   PROVE  Extended(r)[i] \subseteq Nodes(r)
      OBVIOUS
    <2>2. CASE i \in Entries(r)
      <3>1. r.blockers[i] \subseteq Entries(r)
        BY <1>1, <2>2 DEF WellFormed
      <3>2. Strong(r) \subseteq Unmerges(r)
        BY DEF Strong
      <3>3. QED
        BY <1>3, <2>2, <3>1, <3>2 DEF Extended
    <2>3. CASE i \notin Entries(r) /\ i \in Weak(r)
      <3>1. r.owners[i] \subseteq Entries(r)
        BY <1>1, <2>3 DEF WellFormed, Weak
      <3>2. QED
        BY <1>3, <2>3, <3>1 DEF Extended
    <2>4. CASE i \notin Entries(r) /\ i \notin Weak(r)
      BY <2>4 DEF Extended
    <2>5. QED
      BY <2>2, <2>3, <2>4
  <1>6. QED
    BY <1>3, <1>4, <1>5 DEF Extended

(***************************************************************************)
(* Facts about the queue.                                                  *)
(***************************************************************************)

NoRepeat(s) == \A j, k \in DOMAIN s : s[j] = s[k] => j = k

(* The ascending listing of a set of nodes is a sequence without repeats.  *)
LEMMA AscendingSeq ==
    ASSUME NEW S \in SUBSET Int, IsFiniteSet(S), NEW s \in Ascending(S)
    PROVE  s \in Seq(S) /\ NoRepeat(s) /\ Range(s) = S
  <1>1. Cardinality(S) \in Nat
    BY FS_CardinalityType
  <1>2. /\ s \in [1 .. Cardinality(S) -> S]
        /\ \A j, k \in DOMAIN s : j < k => s[j] < s[k]
        /\ Range(s) = S
    BY DEF Ascending
  <1>3. s \in Seq(S)
    BY <1>1, <1>2, SeqDef
  <1>4. NoRepeat(s)
    <2>1. SUFFICES ASSUME NEW j \in DOMAIN s, NEW k \in DOMAIN s, s[j] = s[k]
                   PROVE  j = k
      BY DEF NoRepeat
    <2>2. j \in Int /\ k \in Int /\ s[j] \in Int
      <3>1. DOMAIN s = 1 .. Cardinality(S)
        BY <1>2
      <3>2. s[j] \in S
        BY <1>2, <2>1, <3>1
      <3>3. s[j] \in Int
        BY <3>2
      <3>4. j \in Int /\ k \in Int
        BY <1>1, <2>1, <3>1
      <3>5. QED
        BY <3>3, <3>4
    <2>3. ~(j < k) /\ ~(k < j)
      BY <1>2, <2>1, <2>2
    <2>4. QED
      BY <2>2, <2>3
  <1>5. QED
    BY <1>2, <1>3, <1>4

(* Concatenating two queues without a common node repeats nothing.         *)
LEMMA ConcatNoRepeat ==
    ASSUME NEW S, NEW s \in Seq(S), NEW t \in Seq(S),
           NoRepeat(s), NoRepeat(t), Range(s) \cap Range(t) = {}
    PROVE  /\ s \o t \in Seq(S)
           /\ NoRepeat(s \o t)
           /\ Range(s \o t) = Range(s) \cup Range(t)
  <1>1. /\ s \o t \in Seq(S)
        /\ Len(s \o t) = Len(s) + Len(t)
        /\ \A i \in 1 .. Len(s) + Len(t) :
              (s \o t)[i] = IF i <= Len(s) THEN s[i] ELSE t[i - Len(s)]
    BY ConcatProperties
  <1>2. /\ Len(s) \in Nat /\ DOMAIN s = 1 .. Len(s)
        /\ Len(t) \in Nat /\ DOMAIN t = 1 .. Len(t)
        /\ DOMAIN (s \o t) = 1 .. Len(s) + Len(t)
    BY <1>1, LenProperties
  <1>3. ASSUME NEW j \in 1 .. Len(s) + Len(t), NEW k \in 1 .. Len(s) + Len(t),
               (s \o t)[j] = (s \o t)[k]
        PROVE  j = k
    <2>1. CASE j <= Len(s) /\ k <= Len(s)
      BY <1>1, <1>2, <1>3, <2>1 DEF NoRepeat
    <2>2. CASE j > Len(s) /\ k > Len(s)
      <3>1. /\ j - Len(s) \in DOMAIN t /\ k - Len(s) \in DOMAIN t
            /\ t[j - Len(s)] = t[k - Len(s)]
        BY <1>1, <1>2, <1>3, <2>2
      <3>2. j - Len(s) = k - Len(s)
        BY <3>1 DEF NoRepeat
      <3>3. QED
        BY <1>2, <3>2
    <2>3. CASE j <= Len(s) /\ k > Len(s)
      <3>1. s[j] \in Range(s) /\ t[k - Len(s)] \in Range(t)
        BY <1>2, <2>3 DEF Range
      <3>2. QED
        BY <1>1, <1>2, <1>3, <2>3, <3>1
    <2>4. CASE j > Len(s) /\ k <= Len(s)
      <3>1. s[k] \in Range(s) /\ t[j - Len(s)] \in Range(t)
        BY <1>2, <2>4 DEF Range
      <3>2. QED
        BY <1>1, <1>2, <1>3, <2>4, <3>1
    <2>5. QED
      BY <1>2, <2>1, <2>2, <2>3, <2>4
  <1>4. NoRepeat(s \o t)
    BY <1>2, <1>3 DEF NoRepeat
  <1>5. QED
    BY <1>1, <1>4, RangeConcatenation

(* Popping position k of a queue without repeats removes that node only.   *)
LEMMA PopQueue ==
    ASSUME NEW S, NEW q \in Seq(S), NoRepeat(q), NEW k \in 1 .. Len(q),
           NEW p, p = SubSeq(q, k + 1, Len(q)) \o SubSeq(q, 1, k - 1)
    PROVE  p \in Seq(S) /\ NoRepeat(p) /\ Range(p) = Range(q) \ {q[k]}
  <1> DEFINE a == SubSeq(q, k + 1, Len(q))
             b == SubSeq(q, 1, k - 1)
  <1>1. /\ Len(q) \in Nat /\ DOMAIN q = 1 .. Len(q)
        /\ \A i \in 1 .. Len(q) : q[i] \in S
    BY LenProperties, ElementOfSeq
  <1>2. /\ a \in Seq(S)
        /\ Len(a) = Len(q) - k
        /\ \A i \in 1 .. Len(q) - k : a[i] = q[k + i]
    <2>1. /\ SubSeq(q, k + 1, Len(q)) \in Seq(S)
          /\ Len(SubSeq(q, k + 1, Len(q))) =
                IF k + 1 <= Len(q) THEN Len(q) - (k + 1) + 1 ELSE 0
          /\ \A i \in 1 .. Len(q) - (k + 1) + 1 :
                SubSeq(q, k + 1, Len(q))[i] = q[(k + 1) + i - 1]
      <3>1. k + 1 \in Int /\ Len(q) \in Int /\ \A i \in (k + 1) .. Len(q) : q[i] \in S
        BY <1>1
      <3>2. QED
        BY <3>1, SubSeqProperties
    <2>2. k \in Nat /\ Len(q) - (k + 1) + 1 = Len(q) - k
      BY <1>1
    <2>3. \A i \in 1 .. Len(q) - k :
              SubSeq(q, k + 1, Len(q))[i] = q[(k + 1) + i - 1] /\ (k + 1) + i - 1 = k + i
      BY <1>1, <2>1, <2>2
    <2>4. Len(SubSeq(q, k + 1, Len(q))) = Len(q) - k
      <3>1. CASE k + 1 <= Len(q)
        BY <2>1, <2>2, <3>1
      <3>2. CASE ~(k + 1 <= Len(q))
        <4>1. Len(q) \in Nat /\ k \in Nat /\ k <= Len(q)
          BY <1>1
        <4>2. Len(q) - k = 0
          BY <3>2, <4>1
        <4>3. QED
          BY <2>1, <3>2, <4>2
      <3>3. QED
        BY <3>1, <3>2
    <2>5. QED
      BY <2>1, <2>3, <2>4
  <1>3. /\ b \in Seq(S)
        /\ Len(b) = k - 1
        /\ \A i \in 1 .. k - 1 : b[i] = q[i]
    <2>1. /\ SubSeq(q, 1, k - 1) \in Seq(S)
          /\ Len(SubSeq(q, 1, k - 1)) = IF 1 <= k - 1 THEN (k - 1) - 1 + 1 ELSE 0
          /\ \A i \in 1 .. (k - 1) - 1 + 1 : SubSeq(q, 1, k - 1)[i] = q[1 + i - 1]
      <3>1. 1 \in Int /\ k - 1 \in Int /\ \A i \in 1 .. (k - 1) : q[i] \in S
        BY <1>1
      <3>2. QED
        BY <3>1, SubSeqProperties
    <2>2. k \in Nat /\ (k - 1) - 1 + 1 = k - 1
      BY <1>1
    <2>3. \A i \in 1 .. k - 1 : SubSeq(q, 1, k - 1)[i] = q[1 + i - 1] /\ 1 + i - 1 = i
      BY <2>1, <2>2
    <2>4. Len(SubSeq(q, 1, k - 1)) = k - 1
      BY <2>1, <2>2
    <2>5. QED
      BY <2>1, <2>3, <2>4
  <1> HIDE DEF a, b
  <1>4. /\ DOMAIN a = 1 .. Len(q) - k
        /\ DOMAIN b = 1 .. k - 1
    BY <1>2, <1>3, LenProperties
  <1>5. NoRepeat(a) /\ NoRepeat(b)
    <2>1. ASSUME NEW i \in 1 .. Len(q) - k, NEW j \in 1 .. Len(q) - k, a[i] = a[j]
          PROVE  i = j
      <3>1. k + i \in DOMAIN q /\ k + j \in DOMAIN q /\ q[k + i] = q[k + j]
        BY <1>1, <1>2, <2>1
      <3>2. k + i = k + j
        BY <3>1 DEF NoRepeat
      <3>3. QED
        BY <1>1, <3>2
    <2>2. ASSUME NEW i \in 1 .. k - 1, NEW j \in 1 .. k - 1, b[i] = b[j]
          PROVE  i = j
      <3>1. i \in DOMAIN q /\ j \in DOMAIN q /\ q[i] = q[j]
        BY <1>1, <1>3, <2>2
      <3>2. QED
        BY <3>1 DEF NoRepeat
    <2>3. QED
      BY <1>4, <2>1, <2>2 DEF NoRepeat
  <1>6. Range(a) \cap Range(b) = {}
    <2>1. ASSUME NEW i \in 1 .. Len(q) - k, NEW j \in 1 .. k - 1, a[i] = b[j]
          PROVE  FALSE
      <3>1. k + i \in DOMAIN q /\ j \in DOMAIN q /\ q[k + i] = q[j]
        BY <1>1, <1>2, <1>3, <2>1
      <3>2. k + i = j
        BY <3>1 DEF NoRepeat
      <3>3. QED
        BY <1>1, <3>2
    <2>2. QED
      BY <1>4, <2>1 DEF Range
  <1>7. Range(a) \cup Range(b) = Range(q) \ {q[k]}
    <2>1. ASSUME NEW i \in 1 .. Len(q), i # k
          PROVE  q[i] \in Range(a) \cup Range(b)
      <3>1. CASE i < k
        BY <1>1, <1>3, <1>4, <2>1, <3>1 DEF Range
      <3>2. CASE i > k
        <4>1. i - k \in 1 .. Len(q) - k /\ a[i - k] = q[i]
          BY <1>1, <1>2, <2>1, <3>2
        <4>2. QED
          BY <1>4, <4>1 DEF Range
      <3>3. QED
        BY <1>1, <2>1, <3>1, <3>2
    <2>2. ASSUME NEW i \in 1 .. Len(q) - k
          PROVE  a[i] \in Range(q) \ {q[k]}
      <3>1. a[i] = q[k + i]
        BY <1>2
      <3>2. k + i \in DOMAIN q /\ k \in DOMAIN q /\ k + i # k
        BY <1>1
      <3>3. q[k + i] # q[k]
        BY <3>2 DEF NoRepeat
      <3>4. QED
        BY <3>1, <3>2, <3>3 DEF Range
    <2>3. ASSUME NEW i \in 1 .. k - 1
          PROVE  b[i] \in Range(q) \ {q[k]}
      <3>1. b[i] = q[i]
        BY <1>3
      <3>2. i \in DOMAIN q /\ k \in DOMAIN q /\ i # k
        BY <1>1
      <3>3. q[i] # q[k]
        BY <3>2 DEF NoRepeat
      <3>4. QED
        BY <3>1, <3>2, <3>3 DEF Range
    <2>4. QED
      BY <1>1, <1>4, <2>1, <2>2, <2>3 DEF Range
  <1>8. p = a \o b
    BY DEF a, b
  <1>9. /\ a \o b \in Seq(S)
        /\ NoRepeat(a \o b)
        /\ Range(a \o b) = Range(a) \cup Range(b)
    <2>1. a \in Seq(S) /\ b \in Seq(S)
      BY <1>2, <1>3
    <2>2. QED
      BY <2>1, <1>5, <1>6, ConcatNoRepeat
  <1>10. QED
    BY <1>7, <1>8, <1>9

(***************************************************************************)
(* Scheduler::complete.                                                    *)
(***************************************************************************)

(* The nodes that may be started now: what the queue should hold.          *)
StartableNodes == {n \in Nodes(run) : /\ status[n] = "waiting"
                                      /\ Extended(run)[n] \subseteq Completed}

(* Completing a node keeps the counters, the edges and the queue exact, if *)
(* the queue it pushes to held every other startable node.                 *)
LEMMA CompleteExact ==
    ASSUME TypeOK, Bookkeeping, OrderRespected,
           NEW i \in Nodes(run), status[i] \in {"waiting", "inflight"},
           Extended(run)[i] \subseteq Completed,
           NEW q \in Seq(Nodes(run)), NoRepeat(q),
           Range(q) = StartableNodes \ {i},
           NEW o \in {"ok", "skipped"},
           status' = [status EXCEPT ![i] = o],
           Complete(i, q), run' = run
    PROVE  /\ outstanding' \in [Nodes(run) -> Nat]
           /\ dependents' \in [Nodes(run) -> SUBSET Nodes(run)]
           /\ ready' \in Seq(Nodes(run))
           /\ Bookkeeping' /\ OrderRespected' /\ QueueExact'
  <1> DEFINE Ext == Extended(run)
  <1>0. /\ Ext \in [Nodes(run) -> SUBSET Nodes(run)]
        /\ IsFiniteSet(Nodes(run))
        /\ Nodes(run) \subseteq Int
    BY ExtendedType DEF TypeOK, Nodes
  <1>1. /\ Completed' = Completed \cup {i}
        /\ i \notin Completed
        /\ i \notin Ext[i]
    BY DEF TypeOK, Completed
  <1>2. dependents[i] = {d \in Nodes(run) : i \in Ext[d]}
    BY <1>1 DEF Bookkeeping
  <1>3. /\ dependents' = [dependents EXCEPT ![i] = {}]
        /\ outstanding' = [d \in Nodes(run) |-> IF d \in dependents[i]
                                                THEN outstanding[d] - 1
                                                ELSE outstanding[d]]
        /\ \E pushed \in Ascending({d \in dependents[i] : outstanding[d] = 1}) :
               ready' = q \o pushed
    BY DEF Complete
  <1> HIDE DEF Ext
  <1>4. \A n \in Nodes(run) : /\ IsFiniteSet(Ext[n] \ Completed)
                              /\ outstanding[n] = Cardinality(Ext[n] \ Completed)
                              /\ outstanding[n] \in Nat
    <2>1. SUFFICES ASSUME NEW n \in Nodes(run)
                   PROVE  /\ IsFiniteSet(Ext[n] \ Completed)
                          /\ outstanding[n] = Cardinality(Ext[n] \ Completed)
                          /\ outstanding[n] \in Nat
      OBVIOUS
    <2>2. Ext[n] \ Completed \in SUBSET Nodes(run)
      BY <1>0
    <2>3. IsFiniteSet(Ext[n] \ Completed)
      BY <1>0, <2>2, FS_Subset
    <2>4. QED
      BY <2>3 DEF Bookkeeping, TypeOK, Ext
  <1>5. ASSUME NEW n \in Nodes(run)
        PROVE  /\ outstanding'[n] \in Nat
               /\ outstanding'[n] = Cardinality(Ext[n] \ Completed')
               /\ n \in dependents[i] =>
                     (outstanding[n] = 1 <=> Ext[n] \subseteq Completed')
    <2>1. CASE n \in dependents[i]
      <3>1. /\ i \in Ext[n] \ Completed
            /\ Ext[n] \ Completed' = (Ext[n] \ Completed) \ {i}
        BY <1>1, <1>2, <2>1
      <3>2. /\ IsFiniteSet((Ext[n] \ Completed) \ {i})
            /\ Cardinality((Ext[n] \ Completed) \ {i}) =
                  Cardinality(Ext[n] \ Completed) - 1
        BY <1>4, <3>1, FS_RemoveElement
      <3>3. Cardinality((Ext[n] \ Completed) \ {i}) \in Nat
        BY <3>2, FS_CardinalityType
      <3>4. outstanding'[n] = outstanding[n] - 1
        BY <1>3, <2>1
      <3>5. outstanding'[n] \in Nat /\ outstanding'[n] = Cardinality(Ext[n] \ Completed')
        BY <1>4, <3>1, <3>2, <3>3, <3>4
      <3>6. Cardinality(Ext[n] \ Completed') = 0 <=> Ext[n] \ Completed' = {}
        BY <3>1, <3>2, FS_EmptySet
      <3>7. outstanding[n] = 1 <=> outstanding'[n] = 0
        BY <1>4, <3>4
      <3>8. Ext[n] \ Completed' = {} <=> Ext[n] \subseteq Completed'
        OBVIOUS
      <3>9. QED
        BY <3>5, <3>6, <3>7, <3>8
    <2>2. CASE n \notin dependents[i]
      <3>1. Ext[n] \ Completed' = Ext[n] \ Completed
        BY <1>1, <1>2, <2>2
      <3>2. QED
        BY <1>3, <1>4, <2>2, <3>1
    <2>3. QED
      BY <2>1, <2>2
  <1>6. outstanding' \in [Nodes(run) -> Nat]
    <2>1. outstanding' = [d \in Nodes(run) |-> outstanding'[d]]
      BY <1>3
    <2>2. QED
      BY <1>5, <2>1
  <1>7. dependents' \in [Nodes(run) -> SUBSET Nodes(run)]
    BY <1>3 DEF TypeOK
  <1>8. Bookkeeping'
    <2>1. \A n \in Nodes(run) :
             dependents'[n] = IF n \in Completed' THEN {}
                              ELSE {d \in Nodes(run) : n \in Ext[d]}
      BY <1>1, <1>3 DEF Bookkeeping, TypeOK, Ext
    <2>2. QED
      BY <1>5, <2>1 DEF Bookkeeping, Ext
  <1> DEFINE P == {d \in dependents[i] : outstanding[d] = 1}
  <1>9. /\ P \in SUBSET Int /\ P \subseteq Nodes(run) /\ IsFiniteSet(P)
        /\ Range(q) \cap P = {}
    <2>1. P \subseteq Nodes(run)
      BY <1>2
    <2>2. IsFiniteSet(P)
      BY <1>0, <2>1, FS_Subset
    <2>3. \A d \in P : ~(Ext[d] \subseteq Completed)
      BY <1>1, <1>2
    <2>4. QED
      BY <1>0, <2>1, <2>2, <2>3 DEF StartableNodes, Ext
  <1>10. PICK pushed \in Ascending(P) : ready' = q \o pushed
    BY <1>3
  <1> HIDE DEF P
  <1>11. pushed \in Seq(P) /\ NoRepeat(pushed) /\ Range(pushed) = P
    BY <1>9, <1>10, AscendingSeq
  <1>12. pushed \in Seq(Nodes(run))
    BY <1>9, <1>11, SeqMonotonic
  <1>13. /\ ready' \in Seq(Nodes(run))
         /\ NoRepeat(ready')
         /\ Range(ready') = Range(q) \cup P
    BY <1>9, <1>10, <1>11, <1>12, ConcatNoRepeat
  <1>14. StartableNodes' = Range(q) \cup P
    <2>1. ASSUME NEW n \in Nodes(run), status'[n] = "waiting",
                 Ext[n] \subseteq Completed'
          PROVE  n \in Range(q) \cup P
      <3>1. n # i /\ status[n] = "waiting"
        BY <2>1 DEF TypeOK
      <3>2. CASE Ext[n] \subseteq Completed
        BY <3>1, <3>2 DEF StartableNodes, Ext
      <3>3. CASE ~(Ext[n] \subseteq Completed)
        <4>1. n \in dependents[i]
          BY <1>1, <1>2, <2>1, <3>3
        <4>2. QED
          BY <1>5, <2>1, <4>1 DEF P
      <3>4. QED
        BY <3>2, <3>3
    <2>2. ASSUME NEW n \in Range(q)
          PROVE  n \in Nodes(run) /\ status'[n] = "waiting" /\ Ext[n] \subseteq Completed'
      BY <1>1 DEF StartableNodes, TypeOK, Ext
    <2>3. ASSUME NEW n \in P
          PROVE  n \in Nodes(run) /\ status'[n] = "waiting" /\ Ext[n] \subseteq Completed'
      <3>1. /\ n \in Nodes(run) /\ i \in Ext[n] /\ n \in dependents[i]
            /\ outstanding[n] = 1
        BY <1>2 DEF P
      <3>2. Ext[n] \subseteq Completed'
        BY <1>5, <3>1
      <3>3. status[n] = "waiting"
        BY <1>1, <3>1 DEF OrderRespected, Ext
      <3>4. QED
        BY <1>1, <3>1, <3>2, <3>3 DEF TypeOK
    <2>4. QED
      BY <2>1, <2>2, <2>3 DEF StartableNodes, Ext
  <1>15. QueueExact'
    BY <1>13, <1>14 DEF QueueExact, NoRepeat, StartableNodes
  <1>16. OrderRespected'
    BY <1>1 DEF OrderRespected, TypeOK, Ext
  <1>17. QED
    BY <1>6, <1>7, <1>8, <1>13, <1>15, <1>16

(***************************************************************************)
(* The invariant.                                                          *)
(***************************************************************************)

(* What popping a free node from an exact queue gives a start action.      *)
LEMMA PopExact ==
    ASSUME TypeOK, QueueExact, NEW k \in 1 .. Len(ready)
    PROVE  /\ AfterPop(k) \in Seq(Nodes(run))
           /\ NoRepeat(AfterPop(k))
           /\ Range(AfterPop(k)) = StartableNodes \ {ready[k]}
           /\ ready[k] \in StartableNodes
  <1>1. ready \in Seq(Nodes(run)) /\ NoRepeat(ready) /\ Range(ready) = StartableNodes
    BY DEF TypeOK, QueueExact, NoRepeat, StartableNodes
  <1>2. ready[k] \in Range(ready)
    BY <1>1, LenProperties DEF Range
  <1>3. QED
    BY <1>1, <1>2, PopQueue DEF AfterPop

(* A startable node that goes in flight leaves the bookkeeping exact.      *)
LEMMA StartExact ==
    ASSUME TypeOK, Bookkeeping, OrderRespected, QueueExact,
           NEW k \in 1 .. Len(ready), ready' = AfterPop(k),
           status' = [status EXCEPT ![ready[k]] = "inflight"],
           UNCHANGED <<run, outstanding, dependents>>
    PROVE  /\ ready' \in Seq(Nodes(run))
           /\ Completed' = Completed
           /\ Bookkeeping' /\ OrderRespected' /\ QueueExact'
  <1> DEFINE i == ready[k]
  <1>1. /\ ready' \in Seq(Nodes(run)) /\ NoRepeat(ready')
        /\ Range(ready') = StartableNodes \ {i}
        /\ i \in StartableNodes
    BY PopExact
  <1> HIDE DEF i
  <1>2. i \in Nodes(run) /\ status[i] = "waiting" /\ Extended(run)[i] \subseteq Completed
    BY <1>1 DEF StartableNodes
  <1>3. \A n \in Nodes(run) : status'[n] = IF n = i THEN "inflight" ELSE status[n]
    BY DEF TypeOK, i
  <1>4. Completed' = Completed
    BY <1>2, <1>3 DEF Completed
  <1>5. Bookkeeping'
    BY <1>4 DEF Bookkeeping
  <1>6. OrderRespected'
    BY <1>2, <1>3, <1>4 DEF OrderRespected
  <1>7. StartableNodes' = StartableNodes \ {i}
    BY <1>2, <1>3, <1>4 DEF StartableNodes
  <1>8. QueueExact'
    BY <1>1, <1>7 DEF QueueExact, NoRepeat, StartableNodes
  <1>9. QED
    BY <1>1, <1>4, <1>5, <1>6, <1>8

LEMMA InitInvariant == Init => IInv
  <1> SUFFICES ASSUME Init PROVE IInv
    OBVIOUS
  <1>0. /\ Extended(run) \in [Nodes(run) -> SUBSET Nodes(run)]
        /\ IsFiniteSet(Nodes(run))
        /\ Nodes(run) \subseteq Int
    BY ExtendedType DEF Init, Nodes
  <1>1. Completed = {} /\ Inflight = {}
    BY DEF Init, Completed, Inflight
  <1>2. \A i \in Nodes(run) : /\ IsFiniteSet(Extended(run)[i])
                              /\ Cardinality(Extended(run)[i]) \in Nat
    BY <1>0, FS_Subset, FS_CardinalityType
  <1>3. Bookkeeping
    BY <1>1 DEF Init, Bookkeeping
  <1>4. /\ OrderRespected /\ WorkdirsExclusive /\ Drained /\ Quiescent
        /\ SkippedAreEntries /\ UnremovedLate
    BY <1>1 DEF Init, OrderRespected, WorkdirsExclusive, Drained, Quiescent,
                SkippedAreEntries, UnremovedLate
  <1> DEFINE Z == {i \in Nodes(run) : outstanding[i] = 0}
  <1>5. Z \in SUBSET Int /\ IsFiniteSet(Z) /\ ready \in Ascending(Z)
    BY <1>0, FS_Subset DEF Init
  <1>6. \A i \in Nodes(run) : outstanding[i] = 0 <=> Extended(run)[i] \subseteq Completed
    BY <1>1, <1>2, FS_EmptySet DEF Init
  <1>7. Z = StartableNodes
    BY <1>6 DEF Init, StartableNodes
  <1> HIDE DEF Z
  <1>8. ready \in Seq(Z) /\ NoRepeat(ready) /\ Range(ready) = Z
    BY <1>5, AscendingSeq
  <1>9. Z \subseteq Nodes(run)
    BY DEF Z
  <1>10. ready \in Seq(Nodes(run))
    BY <1>8, <1>9, SeqMonotonic
  <1>11. QueueExact
    BY <1>7, <1>8 DEF QueueExact, NoRepeat, StartableNodes
  <1>12. TypeOK
    BY <1>2, <1>10 DEF Init, TypeOK
  <1>13. QED
    BY <1>3, <1>4, <1>11, <1>12 DEF IInv

(* A node ends: its work directory is given back and no other is.          *)
LEMMA ReleaseExact ==
    ASSUME TypeOK, WorkdirsExclusive, NEW i \in Inflight,
           NEW o \in {"ok", "failed"}, status' = [status EXCEPT ![i] = o],
           ReleaseWorkdir(i), run' = run
    PROVE  WorkdirsExclusive' /\ inflight_workdirs' \subseteq Range(run.work_key)
  <1>1. Inflight' = Inflight \ {i} /\ i \in Nodes(run)
    BY DEF Inflight, TypeOK
  <1>2. CASE i \in Entries(run)
    <2>1. inflight_workdirs' = inflight_workdirs \ {run.work_key[i]}
      BY <1>2 DEF ReleaseWorkdir
    <2>2. QED
      BY <1>1, <1>2, <2>1 DEF WorkdirsExclusive, TypeOK
  <1>3. CASE i \notin Entries(run)
    <2>1. inflight_workdirs' = inflight_workdirs
      BY <1>3 DEF ReleaseWorkdir
    <2>2. QED
      BY <1>1, <1>3, <2>1 DEF WorkdirsExclusive, TypeOK
  <1>4. QED
    BY <1>2, <1>3

(* A step of the loop alone keeps what is said of the nodes.               *)
LEMMA FrameExact ==
    ASSUME TypeOK, Bookkeeping, OrderRespected, QueueExact, WorkdirsExclusive,
           UNCHANGED <<run, outstanding, dependents, ready, status, inflight_workdirs>>
    PROVE  /\ Inflight' = Inflight
           /\ Completed' = Completed
           /\ Bookkeeping' /\ OrderRespected' /\ QueueExact' /\ WorkdirsExclusive'
  <1>1. /\ Inflight' = Inflight
        /\ Completed' = Completed
    BY DEF Inflight, Completed
  <1>2. Bookkeeping'
    BY <1>1 DEF Bookkeeping
  <1>3. OrderRespected'
    BY <1>1 DEF OrderRespected
  <1>4. QueueExact'
    BY <1>1 DEF QueueExact
  <1>5. WorkdirsExclusive'
    BY <1>1 DEF WorkdirsExclusive
  <1>6. QED
    BY <1>1, <1>2, <1>3, <1>4, <1>5

LEMMA NextInvariant == IInv /\ [Next]_vars => IInv'
  <1> SUFFICES ASSUME IInv, [Next]_vars PROVE IInv'
    OBVIOUS
  <1> USE DEF IInv
  <1>0. run \in Requests /\ Entries(run) \cap Unmerges(run) = {}
    BY ExtendedType DEF TypeOK
  <1>a. SkippedAreEntries'
    <2>1. \A i \in Nodes(run) : status'[i] = "skipped" /\ status[i] # "skipped"
                                   => i \in run.skippable
      BY DEF Next, vars, TypeOK, StartMerge, SkipInstalled, StartUnmerge, StopFilling,
             FinishOk, FinishErr, Finish, Interrupt, Terminated
    <2>2. run' = run
      BY DEF Next, vars, StartMerge, SkipInstalled, StartUnmerge, StopFilling,
             FinishOk, FinishErr, Finish, Interrupt, Terminated
    <2>3. run.skippable \subseteq Entries(run)
      BY <1>0, RequestsAssumption DEF WellFormed
    <2>4. QED
      BY <2>1, <2>2, <2>3 DEF SkippedAreEntries
  <1>b. UnremovedLate'
    <2>1. run' = run /\ (interrupted => interrupted')
      BY DEF Next, vars, StartMerge, SkipInstalled, StartUnmerge, StopFilling,
             FinishOk, FinishErr, Finish, Interrupt, Terminated
    <2>2. CASE StartMerge \/ SkipInstalled \/ StartUnmerge
      <3>1. ~interrupted /\ unremoved' = unremoved
        BY <2>2 DEF StartMerge, SkipInstalled, StartUnmerge, MayStart
      <3>2. QED
        BY <3>1 DEF UnremovedLate
    <2>3. ASSUME NEW n \in Nodes(run), FinishOk(n)
          PROVE  UnremovedLate'
      <3>1. /\ n \in Inflight
            /\ \A i \in Nodes(run) : status[i] = "waiting" => status'[i] = "waiting"
        BY <2>3 DEF FinishOk, Inflight, TypeOK
      <3>2. \A i \in Nodes(run) : n \in Extended(run)[i] => status[i] = "waiting"
        BY <3>1 DEF Inflight, Completed, OrderRespected
      <3>3. \A u \in unremoved' : u \in unremoved \/ (u = n /\ interrupted)
        BY <2>3 DEF FinishOk, MaybeUnremoved
      <3>4. QED
        BY <2>1, <3>1, <3>2, <3>3 DEF UnremovedLate
    <2>4. ASSUME NEW n \in Nodes(run), FinishErr(n)
          PROVE  UnremovedLate'
      <3>1. /\ unremoved' = unremoved
            /\ \A i \in Nodes(run) : status[i] = "waiting" => status'[i] = "waiting"
        BY <2>4 DEF FinishErr, Inflight, TypeOK
      <3>2. QED
        BY <2>1, <3>1 DEF UnremovedLate
    <2>5. CASE StopFilling \/ Finish \/ Interrupt \/ UNCHANGED vars
      <3>1. unremoved' = unremoved /\ status' = status
        BY <2>5 DEF StopFilling, Finish, Interrupt, vars
      <3>2. QED
        BY <2>1, <3>1 DEF UnremovedLate
    <2>6. QED
      BY <2>2, <2>3, <2>4, <2>5 DEF Next, Terminated
  <1>1. CASE StartMerge
    <2>1. PICK k \in 1 .. Len(ready) :
             /\ NextReadyFree(k)
             /\ ready[k] \in Entries(run)
             /\ ready' = AfterPop(k)
             /\ status' = [status EXCEPT ![ready[k]] = "inflight"]
             /\ inflight_workdirs' = inflight_workdirs \cup {run.work_key[ready[k]]}
      BY <1>1 DEF StartMerge
    <2>2. /\ UNCHANGED <<run, outstanding, dependents, stop_new, interrupted,
                         unremoved, flush_failed, pc>>
          /\ pc = "fill"
      BY <1>1 DEF StartMerge, MayStart
    <2>3. /\ ready' \in Seq(Nodes(run))
          /\ Bookkeeping' /\ OrderRespected' /\ QueueExact'
      BY <2>1, <2>2, StartExact
    <2>4. ready[k] \in Nodes(run) /\ status[ready[k]] = "waiting"
      BY <2>1, PopExact DEF StartableNodes
    <2>5. Inflight' = Inflight \cup {ready[k]}
      BY <2>1, <2>2, <2>4 DEF Inflight, TypeOK
    <2>6. WorkdirsExclusive'
      <3>1. run.work_key[ready[k]] \notin inflight_workdirs
        BY <2>1 DEF NextReadyFree, PathFree
      <3>2. QED
        BY <2>1, <2>2, <2>5, <3>1 DEF WorkdirsExclusive
    <2>7. TypeOK'
      <3>1. run.work_key[ready[k]] \in Range(run.work_key)
        BY <1>0, <2>1, RequestsAssumption DEF WellFormed, Range
      <3>2. status' \in [Nodes(run) -> {"waiting", "inflight", "ok", "skipped", "failed"}]
        BY <2>1 DEF TypeOK
      <3>3. QED
        BY <2>1, <2>2, <2>3, <3>1, <3>2 DEF TypeOK
    <2>8. QED
      BY <1>a, <1>b, <2>2, <2>3, <2>6, <2>7 DEF Drained, Quiescent
  <1>2. CASE SkipInstalled
    <2>1. PICK k \in 1 .. Len(ready) :
             /\ NextReadyFree(k)
             /\ ready[k] \in run.skippable
             /\ Complete(ready[k], AfterPop(k))
             /\ status' = [status EXCEPT ![ready[k]] = "skipped"]
      BY <1>2 DEF SkipInstalled
    <2>2. /\ UNCHANGED <<run, inflight_workdirs, stop_new, interrupted,
                         unremoved, flush_failed, pc>>
          /\ pc = "fill"
      BY <1>2 DEF SkipInstalled, MayStart
    <2>3. /\ AfterPop(k) \in Seq(Nodes(run))
          /\ NoRepeat(AfterPop(k))
          /\ Range(AfterPop(k)) = StartableNodes \ {ready[k]}
          /\ ready[k] \in Nodes(run)
          /\ status[ready[k]] = "waiting"
          /\ Extended(run)[ready[k]] \subseteq Completed
      BY PopExact DEF StartableNodes
    <2>4. /\ outstanding' \in [Nodes(run) -> Nat]
          /\ dependents' \in [Nodes(run) -> SUBSET Nodes(run)]
          /\ ready' \in Seq(Nodes(run))
          /\ Bookkeeping' /\ OrderRespected' /\ QueueExact'
      BY <2>1, <2>2, <2>3, CompleteExact
    <2>5. Inflight' = Inflight
      BY <2>1, <2>2, <2>3 DEF Inflight, TypeOK
    <2>6. WorkdirsExclusive'
      BY <2>2, <2>5 DEF WorkdirsExclusive
    <2>7. TypeOK'
      BY <2>1, <2>2, <2>4 DEF TypeOK
    <2>8. QED
      BY <1>a, <1>b, <2>2, <2>4, <2>6, <2>7 DEF Drained, Quiescent
  <1>3. CASE StartUnmerge
    <2>1. PICK k \in 1 .. Len(ready) :
             /\ NextReadyFree(k)
             /\ ready[k] \in Unmerges(run)
             /\ ready' = AfterPop(k)
             /\ status' = [status EXCEPT ![ready[k]] = "inflight"]
      BY <1>3 DEF StartUnmerge
    <2>2. /\ UNCHANGED <<run, outstanding, dependents, inflight_workdirs, stop_new,
                         interrupted, unremoved, flush_failed, pc>>
          /\ pc = "fill"
      BY <1>3 DEF StartUnmerge, MayStart
    <2>3. /\ ready' \in Seq(Nodes(run))
          /\ Bookkeeping' /\ OrderRespected' /\ QueueExact'
      BY <2>1, <2>2, StartExact
    <2>4. ready[k] \in Nodes(run) /\ status[ready[k]] = "waiting"
      BY <2>1, PopExact DEF StartableNodes
    <2>5. Inflight' = Inflight \cup {ready[k]}
      BY <2>1, <2>2, <2>4 DEF Inflight, TypeOK
    <2>6. WorkdirsExclusive'
      <3>1. Inflight' \cap Entries(run) = Inflight \cap Entries(run)
        BY <1>0, <2>1, <2>5
      <3>2. QED
        BY <2>2, <3>1 DEF WorkdirsExclusive
    <2>7. TypeOK'
      BY <2>1, <2>2, <2>3 DEF TypeOK
    <2>8. QED
      BY <1>a, <1>b, <2>2, <2>3, <2>6, <2>7 DEF Drained, Quiescent
  <1>4. CASE StopFilling
    <2>1. /\ UNCHANGED <<run, outstanding, dependents, ready, status, inflight_workdirs, stop_new,
                         interrupted, unremoved, flush_failed>>
          /\ pc' = "await"
      BY <1>4 DEF StopFilling, sched
    <2>2. /\ Inflight' = Inflight
          /\ Bookkeeping' /\ OrderRespected' /\ QueueExact' /\ WorkdirsExclusive'
      BY <2>1, FrameExact
    <2>3. TypeOK'
      BY <2>1 DEF TypeOK
    <2>4. ASSUME Inflight = {}, ~stop_new, ~interrupted
          PROVE  ready = << >>
      <3>1. inflight_workdirs = {}
        BY <2>4 DEF WorkdirsExclusive
      <3>2. \A k \in 1 .. Len(ready) : PathFree(ready[k])
        BY <3>1 DEF PathFree
      <3>3. ~(Cardinality(Inflight) >= Jobs)
        BY <2>4, FS_EmptySet, JobsAssumption
      <3>4. \A k \in 1 .. Len(ready) : ~PathFree(ready[k])
        BY <1>4, <2>4, <3>3 DEF StopFilling
      <3>5. Len(ready) = 0
        BY <3>2, <3>4, LenProperties DEF TypeOK
      <3>6. QED
        BY <3>5, EmptySeq DEF TypeOK
    <2>5. Drained' /\ Quiescent'
      BY <2>1, <2>2, <2>4 DEF Drained, Quiescent
    <2>6. QED
      BY <1>a, <1>b, <2>2, <2>3, <2>5
  <1>5. ASSUME NEW i \in Nodes(run), FinishOk(i)
        PROVE  IInv'
    <2>1. /\ pc = "await" /\ i \in Inflight
          /\ Complete(i, ready)
          /\ status' = [status EXCEPT ![i] = "ok"]
          /\ ReleaseWorkdir(i)
          /\ pc' = "fill"
          /\ unremoved' \subseteq unremoved \cup (Unmerges(run) \cap {i})
          /\ UNCHANGED <<run, stop_new, interrupted, flush_failed>>
      BY <1>5 DEF FinishOk, MaybeUnremoved
    <2>2. /\ status[i] = "inflight"
          /\ Extended(run)[i] \subseteq Completed
      BY <2>1 DEF Inflight, OrderRespected
    <2>3. /\ ready \in Seq(Nodes(run))
          /\ NoRepeat(ready)
          /\ Range(ready) = StartableNodes \ {i}
      BY <2>2 DEF TypeOK, QueueExact, NoRepeat, StartableNodes
    <2>4. /\ outstanding' \in [Nodes(run) -> Nat]
          /\ dependents' \in [Nodes(run) -> SUBSET Nodes(run)]
          /\ ready' \in Seq(Nodes(run))
          /\ Bookkeeping' /\ OrderRespected' /\ QueueExact'
      BY <2>1, <2>2, <2>3, CompleteExact
    <2>5. WorkdirsExclusive' /\ inflight_workdirs' \subseteq Range(run.work_key)
      BY <2>1, ReleaseExact
    <2>6. TypeOK'
      BY <2>1, <2>4, <2>5 DEF TypeOK
    <2>7. QED
      BY <1>a, <1>b, <2>1, <2>4, <2>5, <2>6 DEF Drained, Quiescent
  <1>6. ASSUME NEW i \in Nodes(run), FinishErr(i)
        PROVE  IInv'
    <2>1. /\ pc = "await" /\ i \in Inflight
          /\ status' = [status EXCEPT ![i] = "failed"]
          /\ ReleaseWorkdir(i)
          /\ stop_new' = (stop_new \/ (i \in Entries(run) /\ ~run.keep_going))
          /\ pc' = "fill"
          /\ UNCHANGED <<run, outstanding, dependents, ready, interrupted, unremoved, flush_failed>>
      BY <1>6 DEF FinishErr, sched
    <2>2. /\ status[i] = "inflight"
          /\ Extended(run)[i] \subseteq Completed
      BY <2>1 DEF Inflight, OrderRespected
    <2>3. \A n \in Nodes(run) : status'[n] = IF n = i THEN "failed" ELSE status[n]
      BY <2>1 DEF TypeOK
    <2>4. Completed' = Completed
      BY <2>1, <2>2, <2>3 DEF Completed
    <2>5. Bookkeeping' /\ OrderRespected' /\ QueueExact'
      <3>1. Bookkeeping'
        BY <2>1, <2>4 DEF Bookkeeping
      <3>2. OrderRespected'
        BY <2>1, <2>2, <2>3, <2>4 DEF OrderRespected
      <3>3. StartableNodes' = StartableNodes
        BY <2>1, <2>2, <2>3, <2>4 DEF StartableNodes
      <3>4. QueueExact'
        BY <2>1, <3>3 DEF QueueExact, StartableNodes
      <3>5. QED
        BY <3>1, <3>2, <3>4
    <2>6. WorkdirsExclusive' /\ inflight_workdirs' \subseteq Range(run.work_key)
      BY <2>1, ReleaseExact
    <2>7. TypeOK'
      BY <2>1, <2>6, <1>0 DEF TypeOK
    <2>8. QED
      BY <1>a, <1>b, <2>1, <2>5, <2>6, <2>7 DEF Drained, Quiescent
  <1>7. CASE Finish
    <2>1. /\ UNCHANGED <<run, outstanding, dependents, ready, status, inflight_workdirs, stop_new, interrupted, unremoved>>
          /\ pc = "await" /\ pc' = "done" /\ Inflight = {} /\ flush_failed' \in BOOLEAN
      BY <1>7 DEF Finish, sched
    <2>2. /\ Inflight' = Inflight
          /\ Bookkeeping' /\ OrderRespected' /\ QueueExact' /\ WorkdirsExclusive'
      BY <2>1, FrameExact
    <2>3. TypeOK'
      BY <2>1 DEF TypeOK
    <2>4. Drained' /\ Quiescent'
      BY <2>1, <2>2 DEF Drained, Quiescent
    <2>5. QED
      BY <1>a, <1>b, <2>2, <2>3, <2>4
  <1>8. CASE Interrupt
    <2>1. /\ UNCHANGED <<run, outstanding, dependents, ready, status, inflight_workdirs, stop_new,
                         unremoved, flush_failed, pc>>
          /\ interrupted' = TRUE
      BY <1>8 DEF Interrupt, sched
    <2>2. /\ Inflight' = Inflight
          /\ Bookkeeping' /\ OrderRespected' /\ QueueExact' /\ WorkdirsExclusive'
      BY <2>1, FrameExact
    <2>3. TypeOK'
      BY <2>1 DEF TypeOK
    <2>4. Drained' /\ Quiescent'
      BY <2>1, <2>2 DEF Drained, Quiescent
    <2>5. QED
      BY <1>a, <1>b, <2>2, <2>3, <2>4
  <1>9. CASE UNCHANGED vars
    <2>1. UNCHANGED <<run, outstanding, dependents, ready, status, inflight_workdirs,
                      stop_new, interrupted, unremoved, flush_failed, pc>>
      BY <1>9 DEF vars, sched
    <2>2. /\ Inflight' = Inflight
          /\ Bookkeeping' /\ OrderRespected' /\ QueueExact' /\ WorkdirsExclusive'
      BY <2>1, FrameExact
    <2>3. TypeOK' /\ Drained' /\ Quiescent'
      BY <2>1, <2>2 DEF TypeOK, Drained, Quiescent
    <2>4. QED
      BY <1>a, <1>b, <2>2, <2>3
  <1>10. QED
    BY <1>1, <1>2, <1>3, <1>4, <1>5, <1>6, <1>7, <1>8, <1>9 DEF Next, Terminated

(* The bookkeeping of the scheduler is exact in every reachable state of   *)
(* every run: the invariant of this module is inductive.                   *)
THEOREM Invariant == Spec => []IInv
  <1>1. QED
    BY InitInvariant, NextInvariant, PTL DEF Spec

(* Every variable of the `--jobs N` loop keeps its type.                   *)
THEOREM TypeCorrect == Spec => []TypeOK
  <1>1. IInv => TypeOK
    BY DEF IInv
  <1>2. QED
    BY <1>1, Invariant, PTL

(* For every plan, number of jobs, failure and interrupt, no node is       *)
(* started before all that blocks it completed.                            *)
THEOREM DependencyOrder == Spec => []OrderRespected
  <1>1. IInv => OrderRespected
    BY DEF IInv
  <1>2. QED
    BY <1>1, Invariant, PTL

(* No node is lost from the ready queue, and none is queued twice.         *)
THEOREM ReadyQueueExact == Spec => []QueueExact
  <1>1. IInv => QueueExact
    BY DEF IInv
  <1>2. QED
    BY <1>1, Invariant, PTL

(* The counters and reverse edges of Scheduler agree with the graph and    *)
(* the completed nodes, so counting to zero is the test it stands for.     *)
THEOREM BookkeepingExact == Spec => []Bookkeeping
  <1>1. IInv => Bookkeeping
    BY DEF IInv
  <1>2. QED
    BY <1>1, Invariant, PTL

(* Two merges in flight never share a work directory, and none leaks.      *)
THEOREM NoSharedWorkdir == Spec => []WorkdirsExclusive
  <1>1. IInv => WorkdirsExclusive
    BY DEF IInv
  <1>2. QED
    BY <1>1, Invariant, PTL

(* PMS 8.3.2: a `!!` victim is gone before its owners start, even when the *)
(* signal makes its unmerge return early; a `!` victim stays until all its *)
(* owners are in.                                                          *)
THEOREM BlockerOrder == Spec => []VictimOrder
  <1>1. IInv => VictimOrder
    <2> SUFFICES ASSUME IInv PROVE VictimOrder
      OBVIOUS
    <2>0. /\ run \in Requests /\ WellFormed(run)
          /\ Entries(run) \cap Unmerges(run) = {}
          /\ Nodes(run) = Entries(run) \cup Unmerges(run)
      BY ExtendedType, RequestsAssumption DEF IInv, TypeOK
    <2>1. ASSUME NEW u \in Strong(run), NEW i \in run.owners[u], status[i] # "waiting"
          PROVE  status[u] = "ok" /\ u \notin unremoved
      <3>1. u \in Unmerges(run) /\ u \in Nodes(run)
        BY <2>0 DEF Strong
      <3>2. i \in Entries(run) /\ i \in Nodes(run)
        BY <2>0, <3>1 DEF WellFormed
      <3>3. u \in Extended(run)[i]
        BY <2>1, <3>2 DEF Extended
      <3>4. u \in Completed
        BY <2>1, <3>2, <3>3 DEF IInv, OrderRespected
      <3>5. status[u] # "skipped"
        BY <2>0, <3>1 DEF IInv, SkippedAreEntries
      <3>6. u \notin unremoved
        BY <2>1, <3>2, <3>3 DEF IInv, UnremovedLate
      <3>7. QED
        BY <3>4, <3>5, <3>6 DEF Completed
    <2>2. ASSUME NEW u \in Weak(run), status[u] # "waiting"
          PROVE  run.owners[u] \subseteq Completed
      <3>1. u \in Unmerges(run) /\ u \in Nodes(run) /\ u \notin Entries(run)
        BY <2>0 DEF Weak
      <3>2. Extended(run)[u] = run.owners[u]
        BY <2>2, <3>1 DEF Extended
      <3>3. QED
        BY <2>2, <3>1, <3>2 DEF IInv, OrderRespected
    <2>3. QED
      BY <2>1, <2>2 DEF VictimOrder
  <1>2. QED
    BY <1>1, Invariant, PTL

(* A run neither stopped nor interrupted leaves nothing startable behind.  *)
THEOREM RunDrains == Spec => []NothingRunnableLeft
  <1>1. IInv => NothingRunnableLeft
    <2> SUFFICES ASSUME IInv, pc = "done", ~stop_new, ~interrupted,
                        NEW i \in Nodes(run), status[i] = "waiting"
                 PROVE  \E j \in Extended(run)[i] : status[j] \in {"waiting", "failed"}
      BY DEF NothingRunnableLeft
    <2>1. Inflight = {} /\ ready = << >>
      BY DEF IInv, Quiescent, Drained
    <2>2. Range(ready) = {}
      BY <2>1 DEF Range
    <2>3. ~(Extended(run)[i] \subseteq Completed)
      BY <2>2 DEF IInv, QueueExact
    <2>4. Extended(run)[i] \subseteq Nodes(run)
      BY ExtendedType DEF IInv, TypeOK
    <2>5. QED
      BY <2>1, <2>3, <2>4 DEF IInv, TypeOK, Completed, Inflight
  <1>2. QED
    BY <1>1, Invariant, PTL

(* The loop stops by itself only after a failure.                          *)
StoppedByFailure == stop_new => Failed # {}

LEMMA StoppedStep ==
    ASSUME IInv, StoppedByFailure, [Next]_vars
    PROVE  StoppedByFailure'
  <1> USE DEF IInv
  <1>0. run' = run
    BY DEF Next, vars, StartMerge, SkipInstalled, StartUnmerge, StopFilling, FinishOk,
           FinishErr, Finish, Interrupt, Terminated
  <1>1. ASSUME NEW i \in Nodes(run), status[i] # "failed", NEW s,
               status' = [status EXCEPT ![i] = s], stop_new' = stop_new
        PROVE  StoppedByFailure'
    BY <1>0, <1>1 DEF StoppedByFailure, Failed, TypeOK
  <1>2. CASE StartMerge
    <2>1. PICK k \in 1 .. Len(ready) : status' = [status EXCEPT ![ready[k]] = "inflight"]
      BY <1>2 DEF StartMerge
    <2>2. ready[k] \in Nodes(run) /\ status[ready[k]] = "waiting"
      BY PopExact DEF StartableNodes
    <2> QED BY <1>1, <1>2, <2>1, <2>2 DEF StartMerge
  <1>3. CASE SkipInstalled
    <2>1. PICK k \in 1 .. Len(ready) : status' = [status EXCEPT ![ready[k]] = "skipped"]
      BY <1>3 DEF SkipInstalled
    <2>2. ready[k] \in Nodes(run) /\ status[ready[k]] = "waiting"
      BY PopExact DEF StartableNodes
    <2> QED BY <1>1, <1>3, <2>1, <2>2 DEF SkipInstalled
  <1>4. CASE StartUnmerge
    <2>1. PICK k \in 1 .. Len(ready) : status' = [status EXCEPT ![ready[k]] = "inflight"]
      BY <1>4 DEF StartUnmerge
    <2>2. ready[k] \in Nodes(run) /\ status[ready[k]] = "waiting"
      BY PopExact DEF StartableNodes
    <2> QED BY <1>1, <1>4, <2>1, <2>2 DEF StartUnmerge
  <1>5. ASSUME NEW i \in Nodes(run), FinishOk(i)
        PROVE  StoppedByFailure'
    <2>1. status[i] # "failed"
      BY <1>5 DEF FinishOk, Inflight
    <2> QED BY <1>1, <1>5, <2>1 DEF FinishOk
  <1>6. ASSUME NEW i \in Nodes(run), FinishErr(i)
        PROVE  StoppedByFailure'
    BY <1>0, <1>6 DEF FinishErr, StoppedByFailure, Failed, TypeOK
  <1>7. CASE StopFilling \/ Finish \/ Interrupt \/ UNCHANGED vars
    BY <1>0, <1>7 DEF StopFilling, Finish, Interrupt, vars, StoppedByFailure, Failed
  <1> QED BY <1>2, <1>3, <1>4, <1>5, <1>6, <1>7 DEF Next, Terminated

(* A run that reports no failure and was not interrupted did everything:   *)
(* whatever the blockers and victims, no node waits for ever on another    *)
(* (of those left over, the one NoCycle gives waits on nothing).           *)
THEOREM CleanExitComplete == Spec => []CleanExit
  <1>1. Init => StoppedByFailure
    BY DEF Init, StoppedByFailure
  <1>2. IInv /\ StoppedByFailure /\ [Next]_vars => StoppedByFailure'
    BY StoppedStep
  <1>3. IInv /\ StoppedByFailure => CleanExit
    <2> SUFFICES ASSUME IInv, StoppedByFailure, pc = "done", Failed = {}, ~interrupted
                 PROVE  Completed = Nodes(run)
      BY DEF CleanExit
    <2> DEFINE left == {i \in Nodes(run) : status[i] = "waiting"}
    <2>1. ~stop_new /\ Inflight = {} /\ ready = << >>
      BY DEF StoppedByFailure, IInv, Quiescent, Drained
    <2>2. Range(ready) = {}
      BY <2>1 DEF Range
    <2>3. \A i \in left : Extended(run)[i] \cap left # {}
      <3> SUFFICES ASSUME NEW i \in left PROVE Extended(run)[i] \cap left # {}
        OBVIOUS
      <3>1. ~(Extended(run)[i] \subseteq Completed)
        BY <2>2 DEF IInv, QueueExact
      <3>2. Extended(run)[i] \subseteq Nodes(run)
        BY ExtendedType DEF IInv, TypeOK
      <3> QED BY <2>1, <3>1, <3>2 DEF IInv, TypeOK, Completed, Inflight, Failed
    <2>4. left = {}
      BY <2>3, NoCycle, RequestsAssumption DEF IInv, TypeOK
    <2> QED BY <2>1, <2>4 DEF IInv, TypeOK, Completed, Inflight, Failed
  <1> QED BY <1>1, <1>2, <1>3, Invariant, PTL DEF Spec

(* A step of the loop is a step of the abstract run, or leaves it alone.   *)
LEMMA StepSimulation ==
    ASSUME IInv, IInv', [Next]_vars
    PROVE  [Order!BNext]_(Order!bvars)
  <1> USE DEF IInv
  <1>a. Order!Nodes(run) = Nodes(run) /\ Order!Extended(run) = Extended(run)
    BY DEF Nodes, Extended, Entries, Unmerges, Strong, Weak,
           Order!Nodes, Order!Extended, Order!Entries, Order!Unmerges, Order!Strong,
           Order!Weak
  <1>0. /\ run' = run
        /\ run.skippable \subseteq Entries(run)
        /\ Entries(run) \cap Unmerges(run) = {}
    BY ExtendedType, RequestsAssumption
       DEF TypeOK, WellFormed, Next, vars, StartMerge, SkipInstalled, StartUnmerge,
           StopFilling, FinishOk, FinishErr, Finish, Interrupt, Terminated
  <1>1. ASSUME NEW i \in Nodes(run), status[i] = "waiting",
               Extended(run)[i] \subseteq Completed
        PROVE  Order!Startable(i)
    BY <1>a, <1>1 DEF Order!Startable, Order!Passed, Completed, Inflight, Failed
  <1>2. ASSUME NEW i \in Nodes(run), status[i] = "waiting",
               Extended(run)[i] \subseteq Completed, MayStart,
               status' = [status EXCEPT ![i] = "inflight"]
        PROVE  Order!BNext
    <2>1. \A n \in Nodes(run) : status'[n] = IF n = i THEN "inflight" ELSE status[n]
      BY <1>2 DEF TypeOK
    <2>2. /\ Inflight' = Inflight \cup {i}
          /\ Completed' = Completed
          /\ Failed' = Failed
      BY <1>0, <1>2, <2>1 DEF Inflight, Completed, Failed
    <2>3. Order!BStart(i)
      <3>1. Order!Cardinality(Inflight) = Cardinality(Inflight)
        BY DEF Cardinality, Order!Cardinality
      <3>2. QED
        BY <1>0, <1>1, <1>2, <2>2, <3>1 DEF Order!BStart, MayStart
    <2>4. QED
      BY <1>a, <2>3 DEF Order!BNext
  <1>3. CASE StartMerge
    <2>1. PICK k \in 1 .. Len(ready) : status' = [status EXCEPT ![ready[k]] = "inflight"]
      BY <1>3 DEF StartMerge
    <2>2. QED
      BY <1>2, <1>3, <2>1, PopExact DEF StartMerge, StartableNodes
  <1>4. CASE StartUnmerge
    <2>1. PICK k \in 1 .. Len(ready) : status' = [status EXCEPT ![ready[k]] = "inflight"]
      BY <1>4 DEF StartUnmerge
    <2>2. QED
      BY <1>2, <1>4, <2>1, PopExact DEF StartUnmerge, StartableNodes
  <1>5. CASE SkipInstalled
    <2>1. PICK k \in 1 .. Len(ready) :
             /\ ready[k] \in run.skippable
             /\ status' = [status EXCEPT ![ready[k]] = "skipped"]
      BY <1>5 DEF SkipInstalled
    <2> DEFINE i == ready[k]
    <2>2. /\ i \in Nodes(run) /\ status[i] = "waiting"
          /\ Extended(run)[i] \subseteq Completed
      BY PopExact DEF StartableNodes
    <2>3. \A n \in Nodes(run) : status'[n] = IF n = i THEN "skipped" ELSE status[n]
      BY <2>1 DEF TypeOK
    <2> HIDE DEF i
    <2>4. /\ Inflight' = Inflight
          /\ Completed' = Completed \cup {i}
          /\ Failed' = Failed
      BY <1>0, <2>2, <2>3 DEF Inflight, Completed, Failed
    <2>5. Order!BSkip(i)
      BY <1>0, <1>1, <2>1, <2>2, <2>4 DEF Order!BSkip, i
    <2>6. QED
      BY <1>a, <2>2, <2>5 DEF Order!BNext
  <1>6. ASSUME NEW i \in Nodes(run), FinishOk(i)
        PROVE  Order!BNext
    <2>1. i \in Inflight /\ status[i] = "inflight"
      BY <1>6 DEF FinishOk, Inflight
    <2>2. \A n \in Nodes(run) : status'[n] = IF n = i THEN "ok" ELSE status[n]
      BY <1>6 DEF FinishOk, TypeOK
    <2>3. /\ Inflight' = Inflight \ {i}
          /\ Completed' = Completed \cup {i}
          /\ Failed' = Failed
      BY <1>0, <2>1, <2>2 DEF Inflight, Completed, Failed
    <2>4. Order!BEnd(i)
      BY <1>0, <2>1, <2>3 DEF Order!BEnd
    <2>5. QED
      BY <1>a, <2>4 DEF Order!BNext
  <1>7. ASSUME NEW i \in Nodes(run), FinishErr(i)
        PROVE  Order!BNext
    <2>1. i \in Inflight /\ status[i] = "inflight"
      BY <1>7 DEF FinishErr, Inflight
    <2>2. \A n \in Nodes(run) : status'[n] = IF n = i THEN "failed" ELSE status[n]
      BY <1>7 DEF FinishErr, TypeOK
    <2>3. /\ Inflight' = Inflight \ {i}
          /\ Completed' = Completed
          /\ Failed' = Failed \cup {i}
      BY <1>0, <2>1, <2>2 DEF Inflight, Completed, Failed
    <2>4. Order!BEnd(i)
      BY <1>0, <2>1, <2>3 DEF Order!BEnd
    <2>5. QED
      BY <1>a, <2>4 DEF Order!BNext
  <1>8. CASE StopFilling \/ Finish \/ Interrupt \/ UNCHANGED vars
    <2>1. status' = status
      BY <1>8 DEF StopFilling, Finish, Interrupt, vars
    <2>2. Inflight' = Inflight /\ Completed' = Completed /\ Failed' = Failed
      BY <1>0, <2>1 DEF Inflight, Completed, Failed
    <2>3. QED
      BY <1>0, <2>2 DEF Order!bvars
  <1>9. QED
    BY <1>3, <1>4, <1>5, <1>6, <1>7, <1>8 DEF Next, Terminated

(* The `--jobs N` loop, with its counters, reverse edges, FIFO and         *)
(* rotation, implements the abstract dependency-ordered run: each node at  *)
(* most once, at most N at a time, each only after what blocks it.         *)
THEOREM Refinement == Spec => ImplementsBuildOrder
  <1>1. Init => Order!BInit
    BY DEF Init, Order!BInit, Completed, Inflight, Failed
  <1>2. IInv /\ IInv' /\ [Next]_vars => [Order!BNext]_(Order!bvars)
    BY StepSimulation
  <1>3. QED
    BY <1>1, <1>2, Invariant, PTL DEF Spec, ImplementsBuildOrder, Order!BSpec

-----------------------------------------------------------------------------
(* Termination.  Terminates is beyond the prover, but that the loop cannot *)
(* go round for ever is not: a count of what is left goes down.            *)
Waiting == {i \in Nodes(run) : status[i] = "waiting"}

StepsLeft ==
    4 * Cardinality(Waiting) + 2 * Cardinality(Inflight)
        + (CASE pc = "fill" -> 2 [] pc = "await" -> 1 [] pc = "done" -> 0)
        + (IF interrupted THEN 0 ELSE 1)

LEMMA FiniteNodes ==
    ASSUME TypeOK
    PROVE  /\ IsFiniteSet(Waiting) /\ IsFiniteSet(Inflight)
           /\ Cardinality(Waiting) \in Nat /\ Cardinality(Inflight) \in Nat
<1>1. IsFiniteSet(Nodes(run))
  <2>1. run.entries + run.unmerges - 1 \in Int
      BY RequestsAssumption DEF TypeOK, WellFormed
  <2> QED BY <2>1, FS_Interval DEF Nodes
<1>2. IsFiniteSet(Waiting) /\ IsFiniteSet(Inflight)
  <2>1. Waiting \in SUBSET Nodes(run) /\ Inflight \in SUBSET Nodes(run)
      BY DEF Waiting, Inflight
  <2> QED BY <1>1, <2>1, FS_Subset
<1> QED BY <1>2, FS_CardinalityType

(* One node's new status, in the two counts.                               *)
LEMMA CountsAfter ==
    ASSUME TypeOK, run' = run, NEW i \in Nodes(run),
           NEW s \in {"inflight", "ok", "skipped", "failed"},
           status' = [status EXCEPT ![i] = s],
           status[i] = "waiting" \/ (status[i] = "inflight" /\ s # "inflight")
    PROVE  /\ Cardinality(Waiting)' = IF status[i] = "waiting" THEN Cardinality(Waiting) - 1
                                      ELSE Cardinality(Waiting)
           /\ Cardinality(Inflight)' =
                IF status[i] = "inflight" THEN Cardinality(Inflight) - 1
                ELSE IF s = "inflight" THEN Cardinality(Inflight) + 1
                ELSE Cardinality(Inflight)
<1>1. \A n \in Nodes(run) : status'[n] = IF n = i THEN s ELSE status[n]
    BY DEF TypeOK
<1>2. Nodes(run)' = Nodes(run)
    OBVIOUS
<1>3. Waiting' = Waiting \ {i}
    BY <1>1, <1>2 DEF Waiting
<1>4. Inflight' = IF s = "inflight" THEN Inflight \cup {i} ELSE Inflight \ {i}
    BY <1>1, <1>2 DEF Inflight
<1>5. /\ i \in Waiting <=> status[i] = "waiting"
      /\ i \in Inflight <=> status[i] = "inflight"
    BY DEF Waiting, Inflight
<1>6. Cardinality(Waiting)' = Cardinality(Waiting')  /\ Cardinality(Inflight)' = Cardinality(Inflight')
    OBVIOUS
<1>7. /\ Cardinality(Waiting \ {i}) = IF i \in Waiting THEN Cardinality(Waiting) - 1
                                      ELSE Cardinality(Waiting)
      /\ Cardinality(Inflight \ {i}) = IF i \in Inflight THEN Cardinality(Inflight) - 1
                                       ELSE Cardinality(Inflight)
      /\ Cardinality(Inflight \cup {i}) = IF i \in Inflight THEN Cardinality(Inflight)
                                          ELSE Cardinality(Inflight) + 1
    BY FiniteNodes, FS_RemoveElement, FS_AddElement
<1> QED BY <1>3, <1>4, <1>5, <1>6, <1>7

LEMMA CountsDown ==
    ASSUME IInv, [Next]_vars
    PROVE  StepsLeft \in Nat /\ (StepsLeft' < StepsLeft \/ UNCHANGED vars)
<1> USE DEF IInv
<1> DEFINE w == Cardinality(Waiting)
           f == Cardinality(Inflight)
<1>0. /\ w \in Nat /\ f \in Nat
      /\ pc \in {"fill", "await", "done"} /\ interrupted \in BOOLEAN
      /\ run.skippable \subseteq Nodes(run)
  <2>1. run.skippable \subseteq Nodes(run)
      BY ExtendedType, RequestsAssumption DEF TypeOK, WellFormed
  <2> QED BY <2>1, FiniteNodes DEF TypeOK
<1> HIDE DEF w, f
<1>1. StepsLeft = 4 * w + 2 * f + (CASE pc = "fill" -> 2 [] pc = "await" -> 1 [] pc = "done" -> 0)
                    + (IF interrupted THEN 0 ELSE 1)
    BY DEF StepsLeft, w, f
<1>2. StepsLeft' = 4 * w' + 2 * f' + (CASE pc' = "fill" -> 2 [] pc' = "await" -> 1 [] pc' = "done" -> 0)
                    + (IF interrupted' THEN 0 ELSE 1)
    BY DEF StepsLeft, w, f
<1>3. CASE StartMerge \/ StartUnmerge
  <2>1. PICK k \in 1 .. Len(ready) : status' = [status EXCEPT ![ready[k]] = "inflight"]
      BY <1>3 DEF StartMerge, StartUnmerge
  <2>2. ready[k] \in Nodes(run) /\ status[ready[k]] = "waiting"
      BY PopExact DEF StartableNodes
  <2>3. run' = run /\ pc = "fill" /\ pc' = "fill" /\ interrupted' = interrupted
      BY <1>3 DEF StartMerge, StartUnmerge, MayStart
  <2>4. w' = w - 1 /\ f' = f + 1
    <3> DEFINE i == ready[k]
    <3>1. i \in Nodes(run) /\ status[i] = "waiting" /\ status' = [status EXCEPT ![i] = "inflight"]
        BY <2>1, <2>2
    <3> HIDE DEF i
    <3> QED BY <2>3, <3>1, CountsAfter DEF w, f
  <2> QED BY <1>0, <1>1, <1>2, <2>3, <2>4
<1>4. CASE SkipInstalled
  <2>1. PICK k \in 1 .. Len(ready) : status' = [status EXCEPT ![ready[k]] = "skipped"]
      BY <1>4 DEF SkipInstalled
  <2>2. ready[k] \in Nodes(run) /\ status[ready[k]] = "waiting"
      BY PopExact DEF StartableNodes
  <2>3. run' = run /\ pc = "fill" /\ pc' = "fill" /\ interrupted' = interrupted
      BY <1>4 DEF SkipInstalled, MayStart
  <2>4. w' = w - 1 /\ f' = f
      BY <2>1, <2>2, <2>3, CountsAfter DEF w, f
  <2> QED BY <1>0, <1>1, <1>2, <2>3, <2>4
<1>5. ASSUME NEW i \in Nodes(run), FinishOk(i) \/ FinishErr(i)
      PROVE  StepsLeft \in Nat /\ StepsLeft' < StepsLeft
  <2>1. PICK s \in {"ok", "failed"} : status' = [status EXCEPT ![i] = s]
      BY <1>5 DEF FinishOk, FinishErr
  <2>2. status[i] = "inflight"
      BY <1>5 DEF FinishOk, FinishErr, Inflight
  <2>3. run' = run /\ pc = "await" /\ pc' = "fill" /\ interrupted' = interrupted
      BY <1>5 DEF FinishOk, FinishErr
  <2>4. w' = w /\ f' = f - 1
      BY <2>1, <2>2, <2>3, CountsAfter DEF w, f
  <2> QED BY <1>0, <1>1, <1>2, <2>3, <2>4
<1>6. CASE StopFilling \/ Finish \/ Interrupt
  <2>1. run' = run /\ status' = status
      BY <1>6 DEF StopFilling, Finish, Interrupt
  <2>2. w' = w /\ f' = f
      BY <2>1 DEF w, f, Waiting, Inflight
  <2> QED BY <1>0, <1>1, <1>2, <1>6, <2>2 DEF StopFilling, Finish, Interrupt
<1>7. StepsLeft \in Nat
    BY <1>0, <1>1
<1> QED BY <1>3, <1>4, <1>5, <1>6, <1>7 DEF Next, Terminated

(* The loop does not go round for ever: every step it takes, a start, a    *)
(* skip, an end, a stop or the signal, counts down to its return.  What    *)
(* Terminates adds, that it always has a step to take, TLC checks.         *)
THEOREM RunIsFinite == Spec => [][StepsLeft' < StepsLeft /\ StepsLeft \in Nat]_vars
<1>1. IInv /\ [Next]_vars => [StepsLeft' < StepsLeft /\ StepsLeft \in Nat]_vars
    BY CountsDown
<1> QED BY <1>1, Invariant, PTL DEF Spec
=============================================================================
