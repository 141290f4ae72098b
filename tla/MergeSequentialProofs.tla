------------------------ MODULE MergeSequentialProofs ------------------------
(***************************************************************************)
(* Proofs about MergeSequential for every set of requests.  The loop has   *)
(* no counters: that the right things happened before an entry is built is *)
(* all in its position.  IInv says what the position means for the entries *)
(* before, at and after it, and for the victims of each side.              *)
(***************************************************************************)
EXTENDS MergeSequential, WellFoundedInduction, FiniteSetTheorems, TLAPS

LEMMA LeastExists ==
    ASSUME NEW S \in SUBSET Nat, S # {}
    PROVE  \E x \in S : \A y \in S : x <= y
<1>1. PICK x \in S : \A y \in S : ~(<<y, x>> \in OpToRel(<, Nat))
    BY NatLessThanWellFounded, WFMin
<1>2. ASSUME NEW y \in S PROVE x <= y
  <2>1. ~(y < x)
      BY <1>1 DEF OpToRel
  <2> QED BY <2>1
<1> QED BY <1>2

LEMMA GreatestExists ==
    ASSUME NEW n \in Nat, NEW S \in SUBSET (0 .. n), S # {}
    PROVE  \E x \in S : \A y \in S : y <= x
<1> DEFINE T == {n - x : x \in S}
<1>1. T \in SUBSET Nat /\ T # {}
  <2>1. \A x \in S : n - x \in Nat
      OBVIOUS
  <2> QED BY <2>1
<1>2. PICK t \in T : \A u \in T : t <= u
    BY <1>1, LeastExists
<1>3. PICK x \in S : t = n - x
    OBVIOUS
<1>4. ASSUME NEW y \in S PROVE y <= x
    BY <1>2, <1>3
<1> QED BY <1>4

(* Requests are well formed in every run.                                  *)
LEMMA EarliestOwner ==
    ASSUME NEW r, WellFormed(r), NEW u \in Unmerges(r)
    PROVE  /\ Earliest(r.owners[u]) \in r.owners[u]
           /\ \A i \in r.owners[u] : Earliest(r.owners[u]) <= i
<1>1. r.owners[u] \subseteq Nat /\ r.owners[u] # {}
    BY DEF WellFormed, Entries
<1>2. \E x \in r.owners[u] : \A y \in r.owners[u] : x <= y
    BY <1>1, LeastExists
<1> QED BY <1>2 DEF Earliest

LEMMA LatestOwner ==
    ASSUME NEW r, WellFormed(r), NEW u \in Unmerges(r)
    PROVE  /\ Latest(r.owners[u]) \in r.owners[u]
           /\ \A i \in r.owners[u] : i <= Latest(r.owners[u])
<1>1. r.owners[u] \in SUBSET (0 .. r.entries) /\ r.owners[u] # {} /\ r.entries \in Nat
    BY DEF WellFormed, Entries
<1>2. \E x \in r.owners[u] : \A y \in r.owners[u] : y <= x
    BY <1>1, GreatestExists
<1> QED BY <1>2 DEF Latest

First(u) == Earliest(run.owners[u])
Final(u) == Latest(run.owners[u])

(* The entries before the position had their turn, those after it not.     *)
Turns ==
    \A j \in Entries(run) :
        /\ j < pos => status[j] \in {"ok", "skipped", "failed"}
        /\ j > pos => status[j] = "waiting"

(* Where the entry at the position is.                                     *)
Current ==
    /\ pc \in {"before", "package", "building", "after"} => pos \in Entries(run)
    /\ pos \in Entries(run) =>
         /\ pc \in {"head", "before", "package"} => status[pos] = "waiting"
         /\ pc = "building" => status[pos] = "inflight"
         /\ pc = "after" => status[pos] = "ok"
         /\ pc \in {"flush", "done"} => status[pos] \in {"waiting", "failed"}

DueHere ==
    /\ pc = "before" => due \subseteq BeforeUnmerges(run, pos)
    /\ pc = "after" => due \subseteq AfterUnmerges(run, pos)
    /\ pc \notin {"before", "after"} => due = {}

(* A strong victim is gone once its first owner's turn is past its         *)
(* unmerges.                                                               *)
StrongTurn ==
    \A u \in Strong(run) :
        /\ First(u) < pos => status[u] = "ok"
        /\ First(u) = pos =>
             /\ pc = "before" => u \in due \/ status[u] \in {"ok", "failed"}
             /\ (pc = "package" \/ status[pos] # "waiting") => status[u] = "ok"

(* A weak victim is tried after its last owner merged, and only then.      *)
WeakTurn ==
    \A u \in Weak(run) :
        /\ status[u] # "waiting" => status[Final(u)] = "ok"
        /\ (Final(u) < pos /\ status[Final(u)] = "ok") => status[u] \in {"ok", "failed"}
        /\ (Final(u) = pos /\ pc = "after") => u \in due \/ status[u] \in {"ok", "failed"}

UnmergesEnd ==
    \A u \in Unmerges(run) : status[u] \in {"waiting", "ok", "failed"}

(* A strong victim that an unmerge left behind after the signal: the loop  *)
(* gets no further than the entry whose turn it was.                       *)
Signalled ==
    \A u \in unremoved : u \in Strong(run) =>
        /\ interrupted
        /\ First(u) < pos => pc \in {"head", "flush", "done"}
        /\ \A j \in Entries(run) : j > First(u) => status[j] = "waiting"

(* Without --keep-going nothing before the position failed.                *)
NoFailureBehind ==
    ~run.keep_going =>
        \A j \in Entries(run) : j < pos => status[j] \in {"ok", "skipped"}

(* The loop is left early only for a failure or the signal.                *)
ExitEarly ==
    (pc \in {"flush", "done"} /\ Failed = {} /\ ~interrupted) => pos = run.entries

IInv ==
    /\ TypeOK /\ Turns /\ Current /\ DueHere /\ StrongTurn /\ WeakTurn
    /\ UnmergesEnd /\ Signalled /\ NoFailureBehind /\ ExitEarly

(* What is known of the request in hand.                                   *)
LEMMA Request ==
    ASSUME TypeOK
    PROVE  /\ run \in Requests /\ WellFormed(run)
           /\ run.entries \in Nat /\ pos \in Nat /\ pos <= run.entries
           /\ Entries(run) = 0 .. run.entries - 1
           /\ Nodes(run) = Entries(run) \cup Unmerges(run)
           /\ Entries(run) \cap Unmerges(run) = {}
           /\ Strong(run) \subseteq Unmerges(run) /\ Weak(run) \subseteq Unmerges(run)
           /\ Strong(run) \cap Weak(run) = {}
           /\ run.skippable \subseteq Entries(run)
<1>1. run \in Requests /\ WellFormed(run)
    BY RequestsAssumption DEF TypeOK
<1>2. run.entries \in Nat /\ run.unmerges \in Nat /\ run.skippable \subseteq Entries(run)
    BY <1>1 DEF WellFormed
<1>3. pos \in Nat /\ pos <= run.entries
    BY <1>2 DEF TypeOK
<1>4. /\ Nodes(run) = Entries(run) \cup Unmerges(run)
      /\ Entries(run) \cap Unmerges(run) = {}
    BY <1>2 DEF Entries, Unmerges, Nodes
<1> QED BY <1>1, <1>2, <1>3, <1>4 DEF Entries, Strong, Weak

LEMMA Owners ==
    ASSUME TypeOK, NEW u \in Unmerges(run)
    PROVE  /\ run.owners[u] \subseteq Entries(run)
           /\ First(u) \in run.owners[u] /\ Final(u) \in run.owners[u]
           /\ First(u) \in Int /\ Final(u) \in Int
           /\ \A i \in run.owners[u] : First(u) <= i /\ i <= Final(u)
<1>1. run.owners[u] \subseteq Entries(run)
    BY Request DEF WellFormed
<1>2. /\ First(u) \in run.owners[u] /\ Final(u) \in run.owners[u]
      /\ \A i \in run.owners[u] : First(u) <= i /\ i <= Final(u)
    BY Request, EarliestOwner, LatestOwner DEF First, Final
<1> QED BY <1>1, <1>2, Request

LEMMA InitInv == Init => IInv
<1> SUFFICES ASSUME Init PROVE IInv
    OBVIOUS
<1>1. TypeOK
  <2>1. WellFormed(run)
      BY RequestsAssumption DEF Init
  <2>2. run.entries \in Nat
      BY <2>1 DEF WellFormed
  <2>3. status \in [Nodes(run) -> {"waiting", "inflight", "ok", "skipped", "failed"}]
      BY DEF Init
  <2>4. pos \in 0 .. run.entries
      BY <2>2 DEF Init
  <2>5. run \in Requests /\ due = {} /\ unremoved = {} /\ pc = "head"
      BY DEF Init
  <2>6. interrupted \in BOOLEAN /\ flush_failed \in BOOLEAN
      BY DEF Init
  <2> QED BY <2>3, <2>4, <2>5, <2>6 DEF TypeOK
<1>2. \A n \in Nodes(run) : status[n] = "waiting"
    BY DEF Init
<1>3. \A u \in Unmerges(run) : First(u) \in Nat /\ Final(u) \in Nat
    BY <1>1, Owners, Request
<1>4. Turns /\ Current /\ DueHere /\ UnmergesEnd /\ Signalled /\ NoFailureBehind /\ ExitEarly
    BY <1>1, <1>2, Request
       DEF Init, Turns, Current, DueHere, UnmergesEnd, Signalled, NoFailureBehind, ExitEarly
<1>5. StrongTurn /\ WeakTurn
  <2>1. \A u \in Strong(run) : First(u) \in Nodes(run)
      BY <1>1, Owners, Request
  <2> QED BY <1>1, <1>2, <1>3, <2>1, Request DEF Init, StrongTurn, WeakTurn
<1> QED BY <1>1, <1>4, <1>5 DEF IInv

(* One lemma per action.                                                   *)
LEMMA HeadStep == ASSUME IInv, LoopHead PROVE IInv'
<1> USE Request, Owners DEF IInv
<1>1. /\ run' = run /\ pos' = pos /\ status' = status /\ interrupted' = interrupted
      /\ unremoved' = unremoved /\ flush_failed' = flush_failed /\ pc = "head"
    BY DEF LoopHead
<1>2. \A u \in Nodes(run) : First(u)' = First(u) /\ Final(u)' = Final(u)
    BY <1>1 DEF First, Final
<1>3. CASE interrupted \/ pos = run.entries
  <2>1. pc' = "flush" /\ due' = due
      BY <1>3 DEF LoopHead
  <2>2. TypeOK' /\ Turns' /\ Current' /\ DueHere' /\ UnmergesEnd' /\ NoFailureBehind'
      BY <1>1, <2>1 DEF TypeOK, Turns, Current, DueHere, UnmergesEnd, NoFailureBehind
  <2>3. StrongTurn' /\ WeakTurn'
      BY <1>1, <1>2, <2>1 DEF StrongTurn, WeakTurn
  <2>4. Signalled' /\ ExitEarly'
      BY <1>1, <1>2, <1>3, <2>1 DEF Signalled, ExitEarly
  <2> QED BY <2>2, <2>3, <2>4
<1>4. CASE ~(interrupted \/ pos = run.entries)
  <2>1. pc' = "before" /\ due' = BeforeUnmerges(run, pos) /\ pos \in Entries(run)
      BY <1>4 DEF LoopHead
  <2>2. TypeOK' /\ Turns' /\ Current' /\ DueHere' /\ UnmergesEnd' /\ NoFailureBehind'
      BY <1>1, <2>1
         DEF TypeOK, Turns, Current, DueHere, UnmergesEnd, NoFailureBehind, BeforeUnmerges
  <2>3. StrongTurn' /\ WeakTurn'
      BY <1>1, <1>2, <2>1 DEF StrongTurn, WeakTurn, BeforeUnmerges, First, Current
  <2>4. Signalled' /\ ExitEarly'
      BY <1>1, <1>2, <1>4, <2>1 DEF Signalled, ExitEarly
  <2> QED BY <2>2, <2>3, <2>4
<1> QED BY <1>3, <1>4

(* A strong victim's unmerge is its first owner's, a weak one's its last   *)
(* owner's.                                                                *)
LEMMA UnmergeStep == ASSUME IInv, UnmergeDue PROVE IInv'
<1> USE Request, Owners DEF IInv
<1> DEFINE u == Earliest(due)
<1>1. /\ run' = run /\ pos' = pos /\ interrupted' = interrupted /\ pc' = pc
      /\ flush_failed' = flush_failed /\ due' = due \ {u} /\ pc \in {"before", "after"}
    BY DEF UnmergeDue
<1>2. u \in due /\ due \subseteq Unmerges(run) /\ due \subseteq Nat
  <2>1. due \subseteq Unmerges(run) /\ due # {}
      BY DEF TypeOK, UnmergeDue
  <2>2. due \in SUBSET Nat
      BY <2>1 DEF Unmerges
  <2>3. \E x \in due : \A y \in due : x <= y
      BY <2>1, <2>2, LeastExists
  <2> QED BY <2>1, <2>2, <2>3 DEF Earliest
<1> HIDE DEF u
<1>3. PICK outcome \in {"ok", "failed"} :
         /\ status' = [status EXCEPT ![u] = outcome]
         /\ \/ unremoved' = unremoved
            \/ interrupted /\ outcome = "ok" /\ unremoved' = unremoved \cup {u}
    BY DEF UnmergeDue, u
<1>4. \A n \in Nodes(run) : status'[n] = IF n = u THEN outcome ELSE status[n]
    BY <1>2, <1>3 DEF TypeOK
<1>5. \A j \in Entries(run) : j \in Nodes(run) /\ status'[j] = status[j]
    BY <1>2, <1>4
<1>6. \A v \in Nodes(run) : First(v)' = First(v) /\ Final(v)' = Final(v)
    BY <1>1 DEF First, Final
<1>7. TypeOK'
    BY <1>1, <1>2, <1>3 DEF TypeOK
<1>8. Turns' /\ Current' /\ NoFailureBehind'
    BY <1>1, <1>5 DEF Turns, Current, NoFailureBehind
<1>9. DueHere' /\ UnmergesEnd' /\ ExitEarly'
    BY <1>1, <1>2, <1>4 DEF DueHere, UnmergesEnd, ExitEarly
<1>10. /\ \A v \in Strong(run) : First(v) \in Entries(run)
       /\ \A v \in Weak(run) : Final(v) \in Entries(run)
       /\ pc = "before" => pos \in Entries(run) /\ status[pos] = "waiting"
       /\ pc = "after" => pos \in Entries(run) /\ status[pos] = "ok"
    BY DEF Current
<1>11. /\ u \in Strong(run) => pc = "before" /\ First(u) = pos
       /\ u \in Weak(run) => pc = "after" /\ Final(u) = pos
    BY <1>1, <1>2 DEF DueHere, BeforeUnmerges, AfterUnmerges, First, Final
<1>12. StrongTurn'
  <2> SUFFICES ASSUME NEW v \in Strong(run)
               PROVE  /\ First(v) < pos => status'[v] = "ok"
                      /\ First(v) = pos =>
                           /\ pc = "before" => v \in due' \/ status'[v] \in {"ok", "failed"}
                           /\ (pc = "package" \/ status'[pos] # "waiting") => status'[v] = "ok"
      BY <1>1, <1>6 DEF StrongTurn
  <2>1. CASE v = u
      BY <2>1, <1>1, <1>4, <1>5, <1>10, <1>11
  <2>2. CASE v # u
      BY <2>2, <1>1, <1>4, <1>5, <1>10 DEF StrongTurn
  <2> QED BY <2>1, <2>2
<1>13. WeakTurn'
  <2> SUFFICES ASSUME NEW v \in Weak(run)
               PROVE  /\ status'[v] # "waiting" => status'[Final(v)] = "ok"
                      /\ (Final(v) < pos /\ status'[Final(v)] = "ok") => status'[v] \in {"ok", "failed"}
                      /\ (Final(v) = pos /\ pc = "after") => v \in due' \/ status'[v] \in {"ok", "failed"}
      BY <1>1, <1>6 DEF WeakTurn
  <2>1. CASE v = u
      BY <2>1, <1>1, <1>4, <1>5, <1>10, <1>11
  <2>2. CASE v # u
      BY <2>2, <1>1, <1>4, <1>5, <1>10 DEF WeakTurn
  <2> QED BY <2>1, <2>2
<1>14. Signalled'
  <2> SUFFICES ASSUME NEW v \in unremoved', v \in Strong(run)
               PROVE  /\ interrupted
                      /\ First(v) < pos => pc \in {"head", "flush", "done"}
                      /\ \A j \in Entries(run) : j > First(v) => status[j] = "waiting"
      BY <1>1, <1>5, <1>6 DEF Signalled
  <2>1. CASE v \in unremoved
      BY <2>1 DEF Signalled
  <2>2. CASE v \notin unremoved
    <3>1. v = u /\ interrupted /\ First(v) = pos
        BY <2>2, <1>3, <1>11
    <3> QED BY <3>1 DEF Turns
  <2> QED BY <2>1, <2>2
<1> QED BY <1>7, <1>8, <1>9, <1>12, <1>13, <1>14

LEMMA BeforeStep == ASSUME IInv, BeforeDone PROVE IInv'
<1> USE Request, Owners DEF IInv
<1>1. /\ run' = run /\ pos' = pos /\ status' = status /\ interrupted' = interrupted
      /\ unremoved' = unremoved /\ flush_failed' = flush_failed /\ due' = due
      /\ pc = "before" /\ due = {} /\ pc' \in {"flush", "package"}
    BY DEF BeforeDone
<1>2. \A u \in Nodes(run) : First(u)' = First(u) /\ Final(u)' = Final(u)
    BY <1>1 DEF First, Final
<1>3. TypeOK' /\ Turns' /\ Current' /\ DueHere' /\ UnmergesEnd' /\ NoFailureBehind'
    BY <1>1 DEF TypeOK, Turns, Current, DueHere, UnmergesEnd, NoFailureBehind
<1>4. ASSUME pc' = "package", NEW u \in Strong(run), First(u) = pos PROVE status[u] = "ok"
  <2>1. u \in BeforeUnmerges(run, pos) /\ u \in Nodes(run)
      BY <1>4 DEF BeforeUnmerges, First
  <2>2. u \notin Failed
      BY <1>4, <2>1 DEF BeforeDone
  <2> QED BY <1>1, <1>4, <2>1, <2>2 DEF StrongTurn, Failed
<1>5. StrongTurn' /\ WeakTurn'
    BY <1>1, <1>2, <1>4 DEF StrongTurn, WeakTurn, Current
<1>6. Signalled' /\ ExitEarly'
    BY <1>1, <1>2 DEF Signalled, ExitEarly, BeforeDone, Failed
<1> QED BY <1>3, <1>5, <1>6

(* The entry at the position gets a status, and the position may move on.  *)
LEMMA EntryStep ==
    ASSUME IInv, SkipInstalled \/ StartPackage \/ PackageOk \/ PackageErr
    PROVE  IInv'
<1> USE Request, Owners DEF IInv
<1>1. /\ run' = run /\ interrupted' = interrupted /\ unremoved' = unremoved
      /\ flush_failed' = flush_failed /\ pc \in {"package", "building"} /\ due = {}
      /\ pos \in Entries(run)
    BY DEF SkipInstalled, StartPackage, PackageOk, PackageErr, Current, DueHere
<1>2. PICK s \in {"skipped", "inflight", "ok", "failed"} :
        /\ status' = [status EXCEPT ![pos] = s]
        /\ \/ s = "skipped" /\ pc = "package" /\ pos' = pos + 1 /\ pc' = "head" /\ due' = {}
           \/ s = "inflight" /\ pc = "package" /\ pos' = pos /\ pc' = "building" /\ due' = {}
           \/ /\ s = "ok" /\ pc = "building" /\ pos' = pos /\ pc' = "after"
              /\ due' = AfterUnmerges(run, pos)
           \/ /\ s = "failed" /\ pc = "building" /\ due' = {}
              /\ \/ run.keep_going /\ pos' = pos + 1 /\ pc' = "head"
                 \/ pos' = pos /\ pc' = "flush"
    BY <1>1 DEF SkipInstalled, StartPackage, PackageOk, PackageErr
<1>3. \A n \in Nodes(run) : status'[n] = IF n = pos THEN s ELSE status[n]
    BY <1>1, <1>2 DEF TypeOK
<1>4. \A u \in Unmerges(run) : status'[u] = status[u]
    BY <1>1, <1>3
<1>5. \A u \in Nodes(run) : First(u)' = First(u) /\ Final(u)' = Final(u)
    BY <1>1 DEF First, Final
<1>6. TypeOK'
  <2>1. AfterUnmerges(run, pos) \subseteq Unmerges(run)
      BY DEF AfterUnmerges
  <2> QED BY <1>1, <1>2, <2>1 DEF TypeOK
<1>7. \A j \in Entries(run) : status'[j] = IF j = pos THEN s ELSE status[j]
    BY <1>3
<1>8. Turns'
    BY <1>1, <1>2, <1>7 DEF Turns
<1>9. Current' /\ DueHere' /\ UnmergesEnd'
  <2>1. pos + 1 \in Entries(run) => status'[pos + 1] = "waiting"
      BY <1>7 DEF Turns
  <2>2. Current'
      BY <1>1, <1>2, <1>7, <2>1 DEF Current
  <2> QED BY <1>1, <1>2, <1>4, <2>2 DEF DueHere, UnmergesEnd
<1>10. StrongTurn'
  <2> SUFFICES ASSUME NEW v \in Strong(run)
               PROVE  /\ First(v) < pos' => status[v] = "ok"
                      /\ First(v) = pos' =>
                           /\ pc' = "before" => v \in due' \/ status[v] \in {"ok", "failed"}
                           /\ (pc' = "package" \/ status'[pos'] # "waiting") => status[v] = "ok"
      BY <1>1, <1>4, <1>5 DEF StrongTurn
  <2>1. First(v) \in Entries(run) /\ First(v) \in Int
      OBVIOUS
  <2>2. First(v) <= pos => status[v] = "ok"
      BY <1>1, <2>1 DEF StrongTurn, Current
  <2>3. First(v) > pos => status'[First(v)] = "waiting"
      BY <1>7, <2>1 DEF Turns
  <2> QED BY <1>1, <1>2, <2>1, <2>2, <2>3
<1>11. WeakTurn'
  <2> SUFFICES ASSUME NEW v \in Weak(run)
               PROVE  /\ status[v] # "waiting" => status'[Final(v)] = "ok"
                      /\ (Final(v) < pos' /\ status'[Final(v)] = "ok") => status[v] \in {"ok", "failed"}
                      /\ (Final(v) = pos' /\ pc' = "after") => v \in due' \/ status[v] \in {"ok", "failed"}
      BY <1>1, <1>4, <1>5 DEF WeakTurn
  <2>1. Final(v) \in Entries(run) /\ Final(v) \in Int
      OBVIOUS
  <2>2. status[pos] # "ok"
      BY <1>1 DEF Current
  <2>3. status[v] # "waiting" => Final(v) # pos /\ status'[Final(v)] = "ok"
      BY <1>7, <2>1, <2>2 DEF WeakTurn
  <2>4. (Final(v) < pos /\ status'[Final(v)] = "ok") => status[v] \in {"ok", "failed"}
      BY <1>1, <1>7, <2>1 DEF WeakTurn
  <2>5. pos' = pos + 1 => s # "ok"
      BY <1>1, <1>2
  <2>6. (Final(v) < pos' /\ status'[Final(v)] = "ok") => status[v] \in {"ok", "failed"}
      BY <1>1, <1>2, <1>7, <2>1, <2>4, <2>5
  <2>7. (Final(v) = pos' /\ pc' = "after") => v \in due'
      BY <1>1, <1>2 DEF AfterUnmerges, Final
  <2> QED BY <2>3, <2>6, <2>7
<1>12. Signalled'
  <2> SUFFICES ASSUME NEW v \in unremoved, v \in Strong(run)
               PROVE  /\ interrupted
                      /\ First(v) < pos' => pc' \in {"head", "flush", "done"}
                      /\ \A j \in Entries(run) : j > First(v) => status'[j] = "waiting"
      BY <1>1, <1>5 DEF Signalled
  <2>1. First(v) >= pos
      BY <1>1 DEF Signalled
  <2>2. \A j \in Entries(run) : j > First(v) => j # pos /\ status[j] = "waiting"
      BY <1>1, <2>1 DEF Signalled
  <2> QED BY <1>1, <1>2, <1>7, <2>1, <2>2 DEF Signalled
<1>13. NoFailureBehind'
    BY <1>1, <1>2, <1>7 DEF NoFailureBehind
<1>14. ExitEarly'
  <2>1. s = "failed" => Failed' # {}
      BY <1>1, <1>3 DEF Failed
  <2> QED BY <1>1, <1>2, <2>1 DEF ExitEarly
<1> QED BY <1>6, <1>8, <1>9, <1>10, <1>11, <1>12, <1>13, <1>14

LEMMA AfterStep == ASSUME IInv, AfterDone PROVE IInv'
<1> USE Request, Owners DEF IInv
<1>1. /\ run' = run /\ pos' = pos + 1 /\ status' = status /\ interrupted' = interrupted
      /\ unremoved' = unremoved /\ flush_failed' = flush_failed /\ due' = due
      /\ pc = "after" /\ due = {} /\ pc' = "head" /\ pos \in Entries(run)
      /\ status[pos] = "ok"
    BY DEF AfterDone, Current
<1>2. \A u \in Nodes(run) : First(u)' = First(u) /\ Final(u)' = Final(u)
    BY <1>1 DEF First, Final
<1>3. TypeOK' /\ Turns' /\ DueHere' /\ UnmergesEnd' /\ NoFailureBehind'
    BY <1>1 DEF TypeOK, Turns, DueHere, UnmergesEnd, NoFailureBehind
<1>4. Current'
    BY <1>1 DEF Current, Turns
<1>5. StrongTurn'
  <2> SUFFICES ASSUME NEW v \in Strong(run)
               PROVE  /\ First(v) < pos + 1 => status[v] = "ok"
                      /\ First(v) = pos + 1 => status[pos + 1] = "waiting"
      BY <1>1, <1>2 DEF StrongTurn
  <2>1. First(v) \in Entries(run) /\ First(v) \in Int
      OBVIOUS
  <2> QED BY <1>1, <2>1 DEF StrongTurn, Turns
<1>6. WeakTurn'
    BY <1>1, <1>2 DEF WeakTurn
<1>7. Signalled' /\ ExitEarly'
    BY <1>1, <1>2 DEF Signalled, ExitEarly
<1> QED BY <1>3, <1>4, <1>5, <1>6, <1>7

LEMMA RestStep ==
    ASSUME IInv, Finish \/ Interrupt \/ UNCHANGED vars
    PROVE  IInv'
<1> USE Request, Owners DEF IInv
<1>1. /\ run' = run /\ pos' = pos /\ status' = status /\ due' = due
      /\ unremoved' = unremoved /\ flush_failed' \in BOOLEAN
      /\ interrupted' \in BOOLEAN /\ (interrupted => interrupted')
      /\ pc' = pc \/ (pc = "flush" /\ pc' = "done")
    BY DEF Finish, Interrupt, vars, TypeOK
<1>2. \A u \in Nodes(run) : First(u)' = First(u) /\ Final(u)' = Final(u)
    BY <1>1 DEF First, Final
<1>3. TypeOK' /\ Turns' /\ Current' /\ DueHere' /\ UnmergesEnd' /\ NoFailureBehind'
    BY <1>1 DEF TypeOK, Turns, Current, DueHere, UnmergesEnd, NoFailureBehind
<1>4. StrongTurn' /\ WeakTurn'
    BY <1>1, <1>2 DEF StrongTurn, WeakTurn
<1>5. Signalled' /\ ExitEarly'
    BY <1>1, <1>2 DEF Signalled, ExitEarly, Failed
<1> QED BY <1>3, <1>4, <1>5

(* What the position means holds in every state of every run.              *)
THEOREM PositionMeaning == Spec => []IInv
<1>1. IInv /\ [Next]_vars => IInv'
    BY HeadStep, UnmergeStep, BeforeStep, EntryStep, AfterStep, RestStep
       DEF Next, Loop, Terminated
<1> QED BY InitInv, <1>1, PTL DEF Spec

(* Every variable of the sequential loop keeps its type.                   *)
THEOREM SequentialTypes == Spec => []TypeOK
<1>1. IInv => TypeOK
    BY DEF IInv
<1> QED BY <1>1, PositionMeaning, PTL

LEMMA StrongOk ==
    ASSUME IInv, NEW u \in Strong(run), NEW i \in run.owners[u], status[i] # "waiting"
    PROVE  status[u] = "ok"
<1> USE Request, Owners DEF IInv
<1>1. i \in Entries(run) /\ i <= pos /\ First(u) <= i /\ First(u) \in Int
    BY DEF Turns
<1> QED BY <1>1 DEF StrongTurn

(* PMS 8.3.2 `!!` in the default loop, for every plan: an owner is built   *)
(* only when the unmerge of its victim returned well, and, if the signal   *)
(* had made that unmerge do nothing, it is the last thing built.           *)
THEOREM StrongVictimsFirst == Spec => []StrongVictimGone
<1>1. IInv => StrongVictimGone
  <2> SUFFICES ASSUME IInv, NEW u \in Strong(run), NEW i \in run.owners[u], Started(i)
               PROVE  /\ status[u] = "ok"
                      /\ u \in unremoved => interrupted /\ \A j \in Entries(run) :
                                                j > i => ~Started(j)
      BY DEF StrongVictimGone
  <2> USE Request, Owners DEF IInv
  <2>1. status[u] = "ok"
      BY StrongOk DEF Started
  <2>2. ASSUME u \in unremoved, NEW j \in Entries(run), j > i PROVE ~Started(j)
    <3>1. j > First(u)
        BY <2>2
    <3> QED BY <2>2, <3>1 DEF Signalled, Started
  <2> QED BY <2>1, <2>2 DEF Signalled
<1> QED BY <1>1, PositionMeaning, PTL

(* PMS 8.3.2 `!` in the default loop: no weak victim goes before its       *)
(* latest owner merged, nor while the turn of another one is not over.     *)
THEOREM WeakVictimsLast == Spec => []WeakVictimKept
<1>1. IInv => WeakVictimKept
  <2> SUFFICES ASSUME IInv, NEW u \in Weak(run), status[u] # "waiting"
               PROVE  /\ status[Latest(run.owners[u])] = "ok"
                      /\ \A i \in run.owners[u] : status[i] \notin {"waiting", "inflight"}
      BY DEF WeakVictimKept
  <2> USE Request, Owners DEF IInv
  <2>1. Final(u) \in run.owners[u] /\ status[Final(u)] = "ok" /\ Final(u) <= pos
      BY DEF WeakTurn, Turns
  <2>2. ASSUME NEW i \in run.owners[u] PROVE status[i] \notin {"waiting", "inflight"}
    <3>1. i \in Entries(run) /\ i <= Final(u)
        OBVIOUS
    <3>2. CASE i = Final(u)
        BY <3>2, <2>1
    <3>3. CASE i # Final(u)
        BY <3>1, <3>3, <2>1 DEF Turns
    <3> QED BY <3>2, <3>3
  <2> QED BY <2>1, <2>2 DEF Final
<1> QED BY <1>1, PositionMeaning, PTL

(* The order of the plan is enough: without --keep-going whatever is       *)
(* started has all that blocks it done.                                    *)
THEOREM PlanOrderSuffices == Spec => []OrderRespected
<1>1. IInv => OrderRespected
  <2> SUFFICES ASSUME IInv, ~run.keep_going, NEW i \in Nodes(run), status[i] # "waiting",
                      NEW j \in Extended(run)[i]
               PROVE  j \in Completed
      BY DEF OrderRespected
  <2> USE Request, Owners DEF IInv
  <2>1. CASE i \in Entries(run)
    <3>1. i <= pos
        BY <2>1 DEF Turns
    <3>2. j \in run.blockers[i] \/ (j \in Strong(run) /\ i \in run.owners[j])
        BY <2>1 DEF Extended
    <3>3. CASE j \in run.blockers[i]
      <4>1. j \in Entries(run) /\ j < i
          BY <2>1, <3>3 DEF WellFormed
      <4>2. i \in Int /\ j < pos /\ j \in Nodes(run)
          BY <2>1, <3>1, <4>1
      <4> QED BY <4>1, <4>2 DEF NoFailureBehind, Completed
    <3>4. CASE j \in Strong(run) /\ i \in run.owners[j]
        BY <3>4, StrongOk DEF Completed
    <3> QED BY <3>2, <3>3, <3>4
  <2>2. CASE i \in Weak(run)
    <3>1. i \notin Entries(run) /\ j \in run.owners[i] /\ j \in Entries(run) /\ j <= Final(i)
        BY <2>2 DEF Extended
    <3>2. status[Final(i)] = "ok" /\ Final(i) <= pos /\ Final(i) \in Entries(run)
        BY <2>2 DEF WeakTurn, Turns
    <3>3. CASE j = Final(i)
        BY <3>1, <3>2, <3>3 DEF Completed
    <3>4. CASE j # Final(i)
        BY <3>1, <3>2, <3>4 DEF NoFailureBehind, Completed
    <3> QED BY <3>3, <3>4
  <2>3. CASE i \notin Entries(run) /\ i \notin Weak(run)
      BY <2>3 DEF Extended
  <2> QED BY <2>1, <2>2, <2>3
<1> QED BY <1>1, PositionMeaning, PTL

(* A clean and uninterrupted exit did all of the plan, but for weak        *)
(* victims whose latest owner was found installed.                         *)
THEOREM CleanExitSequential == Spec => []CleanExit
<1>1. IInv => CleanExit
  <2> SUFFICES ASSUME IInv, pc = "done", Failed = {}, ~interrupted,
                      NEW i \in Nodes(run), i \notin Completed
               PROVE  i \in Weak(run) /\ status[Latest(run.owners[i])] = "skipped"
      BY DEF CleanExit
  <2> USE Request, Owners DEF IInv
  <2>1. pos = run.entries
      BY DEF ExitEarly
  <2>2. \A j \in Entries(run) : status[j] \in {"ok", "skipped"}
      BY <2>1 DEF Turns, Failed
  <2>3. i \in Unmerges(run) /\ status[i] = "waiting"
      BY <2>2 DEF Completed, UnmergesEnd, Failed
  <2>4. i \notin Strong(run)
      BY <2>1, <2>3 DEF StrongTurn
  <2>5. i \in Weak(run)
      BY <2>3, <2>4 DEF WellFormed, Strong, Weak
  <2>6. status[Final(i)] = "skipped"
      BY <2>1, <2>2, <2>3, <2>5 DEF WeakTurn
  <2> QED BY <2>5, <2>6 DEF Final
<1> QED BY <1>1, PositionMeaning, PTL

-----------------------------------------------------------------------------
(* The refinement.  An unmerge is tried once: the ones due have not been,  *)
(* nor has a strong victim before its first owner's turn.                  *)
TriedOnce ==
    \A u \in Unmerges(run) : status[u] # "waiting" =>
        /\ u \notin due
        /\ u \in Strong(run) => First(u) < pos \/ (First(u) = pos /\ pc # "head")

(* The unmerge run next, and what it leaves.                               *)
LEMMA DueOne ==
    ASSUME IInv, UnmergeDue
    PROVE  \E u \in due : \E outcome \in {"ok", "failed"} :
              /\ u \in Unmerges(run) /\ due' = due \ {u}
              /\ status' = [status EXCEPT ![u] = outcome]
              /\ u \in Strong(run) => pc = "before" /\ First(u) = pos
              /\ u \in Weak(run) => pc = "after" /\ Final(u) = pos
<1> DEFINE u == Earliest(due)
<1>1. u \in due /\ u \in Unmerges(run)
  <2>1. due \subseteq Unmerges(run) /\ due # {}
      BY DEF IInv, TypeOK, UnmergeDue
  <2>2. due \in SUBSET Nat
      BY <2>1, Request DEF IInv, Unmerges
  <2>3. \E x \in due : \A y \in due : x <= y
      BY <2>1, <2>2, LeastExists
  <2> QED BY <2>1, <2>3 DEF Earliest
<1>2. due' = due \ {u} /\ \E outcome \in {"ok", "failed"} : status' = [status EXCEPT ![u] = outcome]
    BY DEF UnmergeDue
<1> HIDE DEF u
<1>3. /\ u \in Strong(run) => pc = "before" /\ First(u) = pos
      /\ u \in Weak(run) => pc = "after" /\ Final(u) = pos
    BY <1>1, Request DEF IInv, UnmergeDue, DueHere, BeforeUnmerges, AfterUnmerges, First, Final
<1> QED BY <1>1, <1>2, <1>3

LEMMA TriedStep == ASSUME IInv, TriedOnce, [Next]_vars PROVE TriedOnce'
<1> USE Request, Owners DEF IInv
<1>0. run' = run
    BY DEF Next, Loop, LoopHead, UnmergeDue, BeforeDone, SkipInstalled, StartPackage,
           PackageOk, PackageErr, AfterDone, Finish, Interrupt, Terminated, vars
<1>1. \A u \in Nodes(run) : First(u)' = First(u) /\ Final(u)' = Final(u)
    BY <1>0 DEF First, Final
<1>2. CASE LoopHead
  <2>1. \A u \in due' : status[u] = "waiting"
    <3>1. \A u \in due : status[u] = "waiting"
        BY DEF TriedOnce, TypeOK
    <3>2. ASSUME NEW u \in BeforeUnmerges(run, pos) PROVE status[u] = "waiting"
      <4>1. u \in Strong(run) /\ First(u) = pos /\ pc = "head"
          BY <1>2, <3>2 DEF LoopHead, BeforeUnmerges, First
      <4> QED BY <4>1 DEF TriedOnce
    <3> QED BY <1>2, <3>1, <3>2 DEF LoopHead
  <2> QED BY <1>0, <1>1, <1>2, <2>1 DEF LoopHead, TriedOnce
<1>3. CASE UnmergeDue
  <2>1. PICK v \in due, outcome \in {"ok", "failed"} :
              /\ v \in Unmerges(run) /\ due' = due \ {v}
              /\ status' = [status EXCEPT ![v] = outcome]
              /\ v \in Strong(run) => pc = "before" /\ First(v) = pos
      BY <1>3, DueOne
  <2>2. \A u \in Unmerges(run) : status'[u] = IF u = v THEN outcome ELSE status[u]
      BY <2>1 DEF TypeOK
  <2> QED BY <1>0, <1>1, <1>3, <2>1, <2>2 DEF UnmergeDue, TriedOnce
<1>4. CASE SkipInstalled \/ StartPackage \/ PackageOk \/ PackageErr
  <2>1. pos \in Entries(run) /\ status[pos] # "ok"
      BY <1>4 DEF SkipInstalled, StartPackage, PackageOk, PackageErr, Current
  <2>2. \A u \in Unmerges(run) : status'[u] = status[u]
      BY <1>4, <2>1 DEF SkipInstalled, StartPackage, PackageOk, PackageErr, TypeOK
  <2>3. \A u \in due' : status[u] = "waiting"
    <3>1. due' = due \/ due' = AfterUnmerges(run, pos)
        BY <1>4 DEF SkipInstalled, StartPackage, PackageOk, PackageErr
    <3>2. \A u \in AfterUnmerges(run, pos) : status[u] = "waiting"
        BY <2>1 DEF AfterUnmerges, WeakTurn, Final
    <3> QED BY <3>1, <3>2 DEF TriedOnce, TypeOK
  <2>4. pos' = pos + 1 \/ (pos' = pos /\ pc' # "head")
      BY <1>4 DEF SkipInstalled, StartPackage, PackageOk, PackageErr
  <2>5. \A u \in Strong(run) : First(u) < pos' \/ (First(u) = pos' /\ pc' # "head")
                              \/ status[u] = "waiting"
      BY <2>4 DEF TriedOnce
  <2> QED BY <1>0, <1>1, <2>2, <2>3, <2>5 DEF TriedOnce
<1>5. CASE AfterDone
  <2>1. pos' = pos + 1 /\ status' = status /\ due' = due
      BY <1>5 DEF AfterDone
  <2>2. \A u \in Strong(run) : status[u] # "waiting" => First(u) < pos'
      BY <2>1 DEF TriedOnce
  <2> QED BY <1>0, <1>1, <2>1, <2>2 DEF TriedOnce
<1>6. CASE BeforeDone \/ Finish \/ Interrupt \/ UNCHANGED vars
  <2>1. /\ pos' = pos /\ status' = status /\ due' = due
        /\ pc' = pc \/ pc' # "head"
      BY <1>6 DEF BeforeDone, Finish, Interrupt, vars
  <2> QED BY <1>0, <1>1, <2>1 DEF TriedOnce
<1> QED BY <1>2, <1>3, <1>4, <1>5, <1>6 DEF Next, Loop, Terminated

(* What blocks the entry whose turn it is, or the unmerge run next, has    *)
(* been passed.                                                            *)
LEMMA TurnComes ==
    ASSUME IInv, TriedOnce, NEW i \in Nodes(run),
           \/ i = pos /\ pc = "package"
           \/ i \in due /\ i \in Strong(run)
           \/ i \in due /\ i \in Weak(run) /\ pc = "after" /\ Final(i) = pos
    PROVE  Order!Startable(i) /\ Order!Nodes(run) = Nodes(run)
<1> USE Request, Owners DEF IInv
<1>1. /\ Order!Nodes(run) = Nodes(run) /\ Order!Extended(run) = Extended(run)
      /\ Order!Entries(run) = Entries(run)
    BY DEF Nodes, Extended, Entries, Unmerges, Strong, Weak,
           Order!Nodes, Order!Extended, Order!Entries, Order!Unmerges, Order!Strong,
           Order!Weak
<1>2. \A j \in Entries(run) : j < pos => j \in Order!Passed
  <2>1. ASSUME NEW j \in Entries(run), j < pos PROVE j \in Order!Passed
    <3>1. status[j] \in {"ok", "skipped"} \/ (run.keep_going /\ status[j] = "failed")
        BY <2>1 DEF Turns, NoFailureBehind
    <3> QED BY <1>1, <3>1 DEF Order!Passed, Completed, Failed
  <2> QED BY <2>1
<1>3. \A j \in Nodes(run) : status[j] = "ok" => j \in Order!Passed
    BY DEF Order!Passed, Completed
<1>4. status[i] = "waiting"
  <2>1. CASE i = pos /\ pc = "package"
      BY <2>1 DEF Current
  <2>2. CASE i \in due
      BY <2>2 DEF TriedOnce, TypeOK
  <2> QED BY <2>1, <2>2
<1>5. Extended(run)[i] \subseteq Order!Passed
  <2> SUFFICES ASSUME NEW j \in Extended(run)[i] PROVE j \in Order!Passed
      OBVIOUS
  <2>1. CASE i = pos /\ pc = "package"
    <3>1. i \in Entries(run)
        BY <2>1 DEF Current
    <3>2. j \in run.blockers[i] \/ (j \in Strong(run) /\ i \in run.owners[j])
        BY <3>1 DEF Extended
    <3>3. CASE j \in run.blockers[i]
        BY <1>2, <2>1, <3>1, <3>3 DEF WellFormed
    <3>4. CASE j \in Strong(run) /\ i \in run.owners[j]
      <4>1. First(j) <= pos
          BY <2>1, <3>4
      <4>2. status[j] = "ok"
          BY <2>1, <3>4, <4>1 DEF StrongTurn
      <4> QED BY <1>3, <3>4, <4>2
    <3> QED BY <3>2, <3>3, <3>4
  <2>2. CASE i \in Strong(run)
      BY <2>2 DEF Extended
  <2>3. CASE i \in Weak(run) /\ pc = "after" /\ Final(i) = pos
    <3>1. i \notin Entries(run) /\ j \in run.owners[i]
        BY <2>3 DEF Extended
    <3>2. j \in Entries(run) /\ j <= pos /\ j \in Nodes(run)
        BY <2>3, <3>1
    <3>3. CASE j = pos
        BY <1>3, <2>3, <3>2, <3>3 DEF Current
    <3>4. CASE j # pos
        BY <1>2, <3>2, <3>4
    <3> QED BY <3>3, <3>4
  <2> QED BY <2>1, <2>2, <2>3
<1> QED BY <1>1, <1>4, <1>5 DEF Order!Startable, Completed, Inflight, Failed

(* Only the entry at the position is ever in flight.                       *)
LEMMA OneInflight ==
    ASSUME IInv
    PROVE  Inflight = IF pc = "building" THEN {pos} ELSE {}
<1> USE Request DEF IInv
<1>1. \A n \in Nodes(run) : status[n] = "inflight" => n = pos /\ pc = "building"
  <2>1. \A n \in Entries(run) : status[n] = "inflight" => n = pos /\ pc = "building"
      BY DEF Turns, Current, TypeOK
  <2> QED BY <2>1 DEF UnmergesEnd
<1>2. pc = "building" => pos \in Nodes(run) /\ status[pos] = "inflight"
    BY DEF Current
<1> QED BY <1>1, <1>2 DEF Inflight

(* How one node's new status shows in the sets of the abstract run.        *)
LEMMA SetsAfter ==
    ASSUME TypeOK, run' = run, NEW i \in Nodes(run),
           NEW s \in {"inflight", "ok", "skipped", "failed"},
           status' = [status EXCEPT ![i] = s]
    PROVE  /\ Inflight' = IF s = "inflight" THEN Inflight \cup {i} ELSE Inflight \ {i}
           /\ Completed' = IF s \in {"ok", "skipped"} THEN Completed \cup {i} ELSE Completed \ {i}
           /\ Failed' = IF s = "failed" THEN Failed \cup {i} ELSE Failed \ {i}
<1>1. \A n \in Nodes(run) : status'[n] = IF n = i THEN s ELSE status[n]
    BY DEF TypeOK
<1>2. Nodes(run)' = Nodes(run)
    OBVIOUS
<1> QED BY <1>1, <1>2 DEF Inflight, Completed, Failed

LEMMA StepSimulation ==
    ASSUME IInv, TriedOnce, [Next]_vars
    PROVE  [Order!BNext]_(Order!bvars)
<1> USE Request DEF IInv
<1>1. run' = run
    BY DEF Next, Loop, LoopHead, UnmergeDue, BeforeDone, SkipInstalled, StartPackage,
           PackageOk, PackageErr, AfterDone, Finish, Interrupt, Terminated, vars
<1>2. CASE UnmergeDue
  <2>1. PICK u \in due, outcome \in {"ok", "failed"} :
              /\ u \in Unmerges(run) /\ status' = [status EXCEPT ![u] = outcome]
              /\ u \in Strong(run) => pc = "before" /\ First(u) = pos
              /\ u \in Weak(run) => pc = "after" /\ Final(u) = pos
      BY <1>2, DueOne
  <2>2. u \in Nodes(run) /\ u \in Strong(run) \cup Weak(run)
      BY <2>1 DEF WellFormed, Strong, Weak
  <2>3. Order!Startable(u) /\ Order!Nodes(run) = Nodes(run)
      BY <2>1, <2>2, TurnComes
  <2>4. Inflight = {} /\ status[u] = "waiting"
      BY <1>2, <2>1, OneInflight DEF UnmergeDue, TriedOnce
  <2>5. /\ Inflight' = Inflight
        /\ \/ Completed' = Completed \cup {u} /\ Failed' = Failed
           \/ Failed' = Failed \cup {u} /\ Completed' = Completed
    <3>1. u \notin Completed /\ u \notin Failed
        BY <2>4 DEF Completed, Failed
    <3>2. /\ Inflight' = Inflight \ {u}
          /\ Completed' = IF outcome = "ok" THEN Completed \cup {u} ELSE Completed \ {u}
          /\ Failed' = IF outcome = "failed" THEN Failed \cup {u} ELSE Failed \ {u}
        BY <1>1, <2>1, <2>2, SetsAfter
    <3> QED BY <2>4, <3>1, <3>2
  <2>6. Order!BAlone(u)
      BY <1>1, <2>3, <2>4, <2>5 DEF Order!BAlone
  <2> QED BY <2>2, <2>3, <2>6 DEF Order!BNext
<1>3. CASE SkipInstalled \/ StartPackage
  <2>1. pos \in Entries(run) /\ pos \in Nodes(run) /\ pc = "package" /\ status[pos] = "waiting"
      BY <1>3 DEF SkipInstalled, StartPackage, Current
  <2>2. Order!Startable(pos) /\ Order!Nodes(run) = Nodes(run)
      BY <2>1, TurnComes
  <2>3. Inflight = {} /\ pos \notin Completed /\ pos \notin Failed
      BY <2>1, OneInflight DEF Completed, Failed
  <2>4. CASE SkipInstalled
    <3>1. Completed' = Completed \cup {pos} /\ Inflight' = Inflight /\ Failed' = Failed
      <4>1. status' = [status EXCEPT ![pos] = "skipped"]
          BY <2>4 DEF SkipInstalled
      <4>2. /\ Inflight' = Inflight \ {pos}
            /\ Completed' = Completed \cup {pos}
            /\ Failed' = Failed \ {pos}
          BY <1>1, <2>1, <4>1, SetsAfter
      <4> QED BY <2>3, <4>2
    <3>2. Order!BSkip(pos)
        BY <1>1, <2>2, <2>4, <3>1 DEF SkipInstalled, Order!BSkip
    <3> QED BY <2>1, <2>2, <3>2 DEF Order!BNext
  <2>5. CASE StartPackage
    <3>1. Inflight' = Inflight \cup {pos} /\ Completed' = Completed /\ Failed' = Failed
      <4>1. status' = [status EXCEPT ![pos] = "inflight"]
          BY <2>5 DEF StartPackage
      <4>2. /\ Inflight' = Inflight \cup {pos}
            /\ Completed' = Completed \ {pos}
            /\ Failed' = Failed \ {pos}
          BY <1>1, <2>1, <4>1, SetsAfter
      <4> QED BY <2>3, <4>2
    <3>2. Order!Cardinality(Inflight) < 1
      <4>1. Cardinality(Inflight) = 0
          BY <2>3, FS_EmptySet
      <4> QED BY <4>1 DEF Cardinality, Order!Cardinality
    <3>3. Order!BStart(pos)
        BY <1>1, <2>2, <3>1, <3>2 DEF Order!BStart
    <3> QED BY <2>1, <2>2, <3>3 DEF Order!BNext
  <2> QED BY <1>3, <2>4, <2>5
<1>4. CASE PackageOk \/ PackageErr
  <2>1. pos \in Entries(run) /\ pos \in Nodes(run) /\ status[pos] = "inflight"
      BY <1>4 DEF PackageOk, PackageErr, Current
  <2>2. PICK s \in {"ok", "failed"} : status' = [status EXCEPT ![pos] = s]
      BY <1>4 DEF PackageOk, PackageErr
  <2>3. pos \in Inflight /\ pos \notin Completed /\ pos \notin Failed
      BY <2>1 DEF Inflight, Completed, Failed
  <2>4. Order!BEnd(pos)
    <3>1. /\ Inflight' = Inflight \ {pos}
          /\ Completed' = IF s = "ok" THEN Completed \cup {pos} ELSE Completed \ {pos}
          /\ Failed' = IF s = "failed" THEN Failed \cup {pos} ELSE Failed \ {pos}
        BY <1>1, <2>1, <2>2, SetsAfter
    <3> QED BY <1>1, <2>2, <2>3, <3>1 DEF Order!BEnd
  <2>5. Order!Nodes(run) = Nodes(run)
      BY DEF Nodes, Order!Nodes
  <2> QED BY <2>1, <2>4, <2>5 DEF Order!BNext
<1>5. CASE LoopHead \/ BeforeDone \/ AfterDone \/ Finish \/ Interrupt \/ UNCHANGED vars
  <2>1. status' = status
      BY <1>5 DEF LoopHead, BeforeDone, AfterDone, Finish, Interrupt, vars
  <2> QED BY <1>1, <2>1 DEF Order!bvars, Inflight, Completed, Failed
<1> QED BY <1>2, <1>3, <1>4, <1>5 DEF Next, Loop, Terminated

LEMMA Tried == Spec => [](IInv /\ TriedOnce)
<1>1. Init => IInv /\ TriedOnce
  <2>1. Init => TriedOnce
    <3> SUFFICES ASSUME Init PROVE TriedOnce
        OBVIOUS
    <3>1. \A u \in Unmerges(run) : u \in Nodes(run)
        BY InitInv, Request DEF IInv
    <3> QED BY <3>1 DEF Init, TriedOnce
  <2> QED BY <2>1, InitInv
<1>2. IInv /\ TriedOnce /\ [Next]_vars => (IInv /\ TriedOnce)'
  <2>1. IInv /\ [Next]_vars => IInv'
      BY HeadStep, UnmergeStep, BeforeStep, EntryStep, AfterStep, RestStep
         DEF Next, Loop, Terminated
  <2> QED BY <2>1, TriedStep
<1> QED BY <1>1, <1>2, PTL DEF Spec

(* The default loop, which has no dependency graph to go by, implements    *)
(* the same dependency-ordered run as the `--jobs N` loop, with one job:   *)
(* its position stands in for the graph.  With --keep-going it goes past   *)
(* entries that failed, and past nothing else.                             *)
THEOREM SequentialRefinement == Spec => ImplementsBuildOrder
<1>1. Init => Order!BInit
    BY DEF Init, Order!BInit, Completed, Inflight, Failed
<1>2. IInv /\ TriedOnce /\ [Next]_vars => [Order!BNext]_(Order!bvars)
    BY StepSimulation
<1> QED BY <1>1, <1>2, Tried, PTL DEF Spec, ImplementsBuildOrder, Order!BSpec

-----------------------------------------------------------------------------
(* Termination: what is left of the plan, and of the turn it is at.        *)
Waiting == {i \in Nodes(run) : status[i] = "waiting"}

Rank == [head |-> 6, before |-> 5, package |-> 4, building |-> 3, after |-> 2,
         flush |-> 1, done |-> 0]

StepsLeft ==
    Cardinality(Waiting) + 7 * (run.entries - pos) + Rank[pc]
        + (IF interrupted THEN 0 ELSE 1)

LEMMA WaitingCount ==
    ASSUME TypeOK
    PROVE  IsFiniteSet(Waiting) /\ Cardinality(Waiting) \in Nat
<1>1. IsFiniteSet(Nodes(run))
  <2>1. run.entries + run.unmerges - 1 \in Int
      BY RequestsAssumption DEF TypeOK, WellFormed
  <2> QED BY <2>1, FS_Interval DEF Nodes
<1>2. Waiting \in SUBSET Nodes(run)
    BY DEF Waiting
<1>3. IsFiniteSet(Waiting)
    BY <1>1, <1>2, FS_Subset
<1> QED BY <1>3, FS_CardinalityType

LEMMA WaitingAfter ==
    ASSUME TypeOK, run' = run, NEW i \in Nodes(run),
           NEW s \in {"inflight", "ok", "skipped", "failed"},
           status' = [status EXCEPT ![i] = s]
    PROVE  Cardinality(Waiting)' = IF status[i] = "waiting" THEN Cardinality(Waiting) - 1
                                   ELSE Cardinality(Waiting)
<1>1. \A n \in Nodes(run) : status'[n] = IF n = i THEN s ELSE status[n]
    BY DEF TypeOK
<1>2. Nodes(run)' = Nodes(run)
    OBVIOUS
<1>3. Waiting' = Waiting \ {i} /\ (i \in Waiting <=> status[i] = "waiting")
    BY <1>1, <1>2 DEF Waiting
<1>4. Cardinality(Waiting \ {i}) = IF i \in Waiting THEN Cardinality(Waiting) - 1
                                   ELSE Cardinality(Waiting)
    BY WaitingCount, FS_RemoveElement
<1>5. Cardinality(Waiting)' = Cardinality(Waiting')
    OBVIOUS
<1> QED BY <1>3, <1>4, <1>5

LEMMA CountsDown ==
    ASSUME IInv, TriedOnce, [Next]_vars
    PROVE  StepsLeft \in Nat /\ (StepsLeft' < StepsLeft \/ UNCHANGED vars)
<1> USE Request DEF IInv
<1> DEFINE w == Cardinality(Waiting)
           n == run.entries - pos
           r == Rank[pc]
           b == IF interrupted THEN 0 ELSE 1
<1>1. StepsLeft = w + 7 * n + r + b /\ StepsLeft' = w' + 7 * n' + r' + b'
    BY DEF StepsLeft
<1>2. /\ w \in Nat /\ n \in Nat /\ r \in Nat /\ b \in {0, 1}
      /\ pc \in {"head", "before", "package", "building", "after", "flush", "done"}
    BY WaitingCount DEF TypeOK, Rank
<1>3. run' = run
    BY DEF Next, Loop, LoopHead, UnmergeDue, BeforeDone, SkipInstalled, StartPackage,
           PackageOk, PackageErr, AfterDone, Finish, Interrupt, Terminated, vars
<1>4. status' = status => w' = w
    BY <1>3 DEF Waiting
<1>5. /\ pos' = pos => n' = n
      /\ pos' = pos + 1 => n' = n - 1
    BY <1>3
<1> HIDE DEF w, n, r, b
<1>6. CASE UnmergeDue
  <2>1. PICK u \in due, outcome \in {"ok", "failed"} :
           u \in Unmerges(run) /\ status' = [status EXCEPT ![u] = outcome]
      BY <1>6, DueOne
  <2>2. w' = w - 1
      BY <1>3, <2>1, WaitingAfter DEF TriedOnce, w
  <2>3. pos' = pos /\ r' = r /\ b' = b
      BY <1>6 DEF UnmergeDue, r, b
  <2> QED BY <1>1, <1>2, <1>5, <2>2, <2>3
<1>7. CASE SkipInstalled \/ StartPackage \/ PackageOk \/ PackageErr
  <2>1. PICK s \in {"inflight", "ok", "skipped", "failed"} : status' = [status EXCEPT ![pos] = s]
      BY <1>7 DEF SkipInstalled, StartPackage, PackageOk, PackageErr
  <2>2. pos \in Nodes(run)
      BY <1>7 DEF SkipInstalled, StartPackage, PackageOk, PackageErr, Current
  <2>3. w' = w \/ w' = w - 1
      BY <1>3, <2>1, <2>2, WaitingAfter DEF w
  <2>4. b' = b /\ (\/ pos' = pos /\ r' < r /\ r' \in Nat
                   \/ pos' = pos + 1 /\ r' = 6 /\ r \in {3, 4})
      BY <1>7 DEF SkipInstalled, StartPackage, PackageOk, PackageErr, Rank, r, b
  <2>5. CASE pos' = pos /\ r' < r /\ r' \in Nat
    <3>1. n' = n
        BY <1>5, <2>5
    <3> QED BY <1>1, <1>2, <2>3, <2>4, <2>5, <3>1
  <2>6. CASE pos' = pos + 1 /\ r' = 6 /\ r \in {3, 4}
    <3>1. n' = n - 1
        BY <1>5, <2>6
    <3> QED BY <1>1, <1>2, <2>3, <2>4, <2>6, <3>1
  <2> QED BY <2>4, <2>5, <2>6
<1>8. CASE LoopHead \/ BeforeDone \/ AfterDone \/ Finish \/ Interrupt
  <2>1. status' = status
      BY <1>8 DEF LoopHead, BeforeDone, AfterDone, Finish, Interrupt
  <2>2. \/ pos' = pos /\ b' = b /\ r' < r /\ r' \in Nat
        \/ pos' = pos + 1 /\ b' = b /\ r' = 6 /\ r = 2
        \/ pos' = pos /\ b = 1 /\ b' = 0 /\ r' = r
      BY <1>8 DEF LoopHead, BeforeDone, AfterDone, Finish, Interrupt, Rank, r, b
  <2>3. w' = w
      BY <1>4, <2>1
  <2>4. CASE pos' = pos /\ b' = b /\ r' < r /\ r' \in Nat
    <3>1. n' = n
        BY <1>5, <2>4
    <3> QED BY <1>1, <1>2, <2>3, <2>4, <3>1
  <2>5. CASE pos' = pos + 1 /\ b' = b /\ r' = 6 /\ r = 2
    <3>1. n' = n - 1
        BY <1>5, <2>5
    <3> QED BY <1>1, <1>2, <2>3, <2>5, <3>1
  <2>6. CASE pos' = pos /\ b = 1 /\ b' = 0 /\ r' = r
    <3>1. n' = n
        BY <1>5, <2>6
    <3> QED BY <1>1, <1>2, <2>3, <2>6, <3>1
  <2> QED BY <2>2, <2>4, <2>5, <2>6
<1>9. StepsLeft \in Nat
    BY <1>1, <1>2
<1> QED BY <1>6, <1>7, <1>8, <1>9 DEF Next, Loop, Terminated

(* The loop does not go round for ever: every step counts down to its      *)
(* return.  That it always has one to take, TLC checks (no deadlock).      *)
THEOREM RunIsFinite == Spec => [][StepsLeft' < StepsLeft /\ StepsLeft \in Nat]_vars
<1>1. IInv /\ TriedOnce /\ [Next]_vars
         => [StepsLeft' < StepsLeft /\ StepsLeft \in Nat]_vars
    BY CountsDown
<1>2. Spec => [](IInv /\ TriedOnce)
    BY Tried
<1> QED BY <1>1, <1>2, PTL DEF Spec
=============================================================================
