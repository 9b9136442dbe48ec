--------------------------- MODULE RegistersProofs ---------------------------
(***************************************************************************)
(* Proofs about Registers, for any number of calls in flight, any width of *)
(* a reference and any length of a spreadsheet.                            *)
(***************************************************************************)
EXTENDS Registers, FiniteSetTheorems, TLAPS

untouched == <<table, rows, deleted>>

\* The number of rows is a number, and one row more makes it one more.
LEMMA Counting ==
  ASSUME TypeOK
  PROVE  /\ IsFiniteSet(rows) /\ Cardinality(rows) \in Nat
         /\ \A r: Cardinality(rows \cup {r}) = IF r \in rows THEN Cardinality(rows)
                                               ELSE Cardinality(rows) + 1
<1>1. IsFiniteSet(Refs)
  BY RegistersAssumption, FS_Interval DEF Refs
<1>2. IsFiniteSet(rows)
  BY <1>1, FS_Subset DEF TypeOK
<1>3. QED
  BY <1>2, FS_CardinalityType, FS_AddElement

\* A call that has come to its next row is a call, and knows where it stands.
LEMMA NextRowType ==
  ASSUME NEW k \in Call, k.left \in Nat \ {0}, NEW ok \in BOOLEAN, NEW e \in SUBSET Excuses
  PROVE  /\ NextRow(k, ok, e) \in Call
         /\ NextRow(k, ok, e).excuse = k.excuse \cup e
         /\ NextRow(k, ok, e).failed = (k.failed \/ ~ok)
         /\ k.left = 1 => NextRow(k, ok, e).at = "done"
         /\ k.left > 1 => /\ NextRow(k, ok, e).at = "insert"
                          /\ NextRow(k, ok, e).left = k.left - 1
                          /\ NextRow(k, ok, e).base = k.base
                          /\ NextRow(k, ok, e).imported = k.imported + (IF ok THEN 1 ELSE 0)
                          /\ NextRow(k, ok, e).ref = k.base + NextRow(k, ok, e).imported + 1
<1> DEFINE f == k.failed \/ ~ok
           x == k.excuse \cup e
           n == k.imported + (IF ok THEN 1 ELSE 0)
<1>1. /\ k.left \in Nat /\ k.base \in Nat /\ k.imported \in Nat /\ k.failed \in BOOLEAN
      /\ k.excuse \in SUBSET Excuses
  BY DEF Call
<1>2. f \in BOOLEAN /\ x \in SUBSET Excuses
  BY <1>1
<1>3. n \in Nat /\ k.base + n + 1 \in Nat
  BY <1>1
<1> DEFINE m == [k EXCEPT !.failed = f, !.excuse = x]
<1>4. NextRow(k, ok, e) =
        IF k.left = 1 THEN [Idle EXCEPT !.at = "done", !.failed = m.failed, !.excuse = m.excuse]
        ELSE [m EXCEPT !.at = "insert", !.left = k.left - 1, !.imported = n,
                       !.ref = k.base + n + 1]
  BY Zenon DEF NextRow
<1> HIDE DEF f, x, n
<1>m. m = [k EXCEPT !.failed = f, !.excuse = x]
  OBVIOUS
<1> HIDE DEF m
<1>5. m = [at |-> k.at, ref |-> k.ref, base |-> k.base, imported |-> k.imported,
           left |-> k.left, failed |-> f, excuse |-> x]
  BY <1>m DEF Call
<1>6. CASE k.left = 1
  <2>1. NextRow(k, ok, e) = [at |-> "done", ref |-> 0, base |-> 0, imported |-> 0, left |-> 0,
                             failed |-> f, excuse |-> x]
    BY <1>4, <1>5, <1>6 DEF Idle
  <2>2. NextRow(k, ok, e) \in Call
    BY <1>2, <2>1 DEF Call
  <2>3. QED
    BY <1>6, <2>1, <2>2 DEF f, x
<1>7. CASE k.left # 1
  <2>1. k.left - 1 \in Nat
    BY <1>1, <1>7
  <2>2. NextRow(k, ok, e) = [at |-> "insert", ref |-> k.base + n + 1, base |-> k.base,
                             imported |-> n, left |-> k.left - 1, failed |-> f, excuse |-> x]
    BY <1>4, <1>5, <1>7
  <2>3. NextRow(k, ok, e) \in Call
    BY <1>1, <1>2, <1>3, <2>1, <2>2 DEF Call
  <2>4. QED
    BY <1>1, <1>7, <2>2, <2>3 DEF f, x, n
<1>8. QED
  BY <1>6, <1>7

\* A step of one call that leaves the rows alone keeps the invariant if it leaves the
\* call where a call may stand.
LEMMA OneCall ==
  ASSUME IInv, NEW c \in Calls, NEW k \in Call, CallInv(k),
         call' = [call EXCEPT ![c] = k], UNCHANGED untouched,
         switch' \in [Refs -> {"none", "on", "off"}]
  PROVE  IInv'
<1>1. TypeOK'
  BY DEF IInv, TypeOK, untouched
<1>2. RefsAreDense' /\ (table = "detections" => ~deleted)'
  BY DEF IInv, RefsAreDense, untouched
<1>3. ASSUME NEW d \in Calls PROVE CallInv(call[d])'
  <2>1. call'[d] = IF d = c THEN k ELSE call[d]
    BY DEF IInv, TypeOK
  <2>2. CallInv(call'[d])
    BY <2>1 DEF IInv
  <2>3. QED
    BY <2>2 DEF CallInv, untouched
<1>4. QED
  BY <1>1, <1>2, <1>3 DEF IInv

\* A call that comes to its next row, or to its end, stands where a call may stand.
LEMMA NextRowInv ==
  ASSUME IInv, NEW c \in Calls, Underway(c), NEW ok \in BOOLEAN, NEW e \in SUBSET Excuses,
         ok => call[c].at = "switch", ~ok => call[c].excuse \cup e # {},
         NEW m, m = NextRow(call[c], ok, e)
  PROVE  m \in Call /\ CallInv(m)
<1> DEFINE k == call[c]
<1>1. k \in Call /\ CallInv(k) /\ k.left \in Nat \ {0} /\ k.ref \in Nat \ {0}
  BY DEF IInv, TypeOK, CallInv, Underway
<1>3. k.base \in Nat /\ k.imported \in Nat /\ k.left \in Nat /\ k.excuse \subseteq Excuses
  BY <1>1 DEF Call
<1>4. /\ m \in Call /\ m.excuse = k.excuse \cup e /\ m.failed = (k.failed \/ ~ok)
      /\ k.left = 1 => m.at = "done"
      /\ k.left > 1 => /\ m.at = "insert" /\ m.left = k.left - 1 /\ m.base = k.base
                       /\ m.imported = k.imported + (IF ok THEN 1 ELSE 0)
                       /\ m.ref = k.base + m.imported + 1
  BY <1>1, NextRowType
<1>5. m.failed => m.excuse # {}
  <2>1. k.failed => k.excuse # {}
    BY <1>1 DEF CallInv
  <2>2. QED
    BY <2>1, <1>4 DEF k
<1>6. CASE k.left = 1
  <2>1. m.at = "done"
    BY <1>4, <1>6
  <2>2. QED
    BY <2>1, <1>4, <1>5 DEF CallInv
<1>7. CASE k.left > 1
  <2>1. table = "detections" /\ ~deleted /\ k.ref = k.base + k.imported + 1
    BY <1>1, <1>7 DEF IInv, CallInv, Underway
  <2>2. Cardinality(rows) \in Nat /\ rows = 1..Cardinality(rows)
    BY <2>1, Counting DEF IInv, RefsAreDense, Counted
  <2>3. k.ref <= Cardinality(rows) + 1
    BY <1>1, <2>1, <2>2 DEF CallInv, Underway, Counted
  <2>4. CASE ok
    <3>0. k.at = "switch" /\ m.imported = k.imported + 1 /\ m.ref = k.base + m.imported + 1
      BY <1>4, <1>7, <2>4
    <3>1. m.ref = k.ref + 1 /\ k.ref \in rows
      BY <1>1, <1>3, <2>1, <3>0 DEF CallInv
    <3>2. m.ref <= Cardinality(rows) + 1
      BY <1>1, <3>1, <2>2
    <3>3. m.excuse = {} => m.ref \notin rows
      BY <1>1, <1>4, <2>2, <3>0, <3>1 DEF CallInv
    <3>4. m.at = "insert" /\ m.left \in Nat \ {0} /\ m.ref \in Nat \ {0}
      BY <1>1, <1>3, <1>4, <1>7, <3>1
    <3>5. m.ref = m.base + m.imported + 1
      BY <1>4, <1>7
    <3>6. QED
      BY <1>4, <1>5, <2>1, <3>2, <3>3, <3>4, <3>5 DEF CallInv
  <2>5. CASE ~ok
    <3>1. m.ref = k.ref
      BY <1>3, <1>4, <1>7, <2>1, <2>5
    <3>2. m.excuse # {}
      BY <1>4, <2>5
    <3>3. m.at = "insert" /\ m.left \in Nat \ {0} /\ m.ref \in Nat \ {0}
      BY <1>1, <1>3, <1>4, <1>7, <3>1
    <3>4. m.ref = m.base + m.imported + 1
      BY <1>4, <1>7
    <3>5. QED
      BY <1>4, <2>1, <2>3, <3>1, <3>2, <3>3, <3>4 DEF CallInv
  <2>6. QED
    BY <2>4, <2>5
<1>8. QED
  BY <1>1, <1>4, <1>6, <1>7

\* A new row keeps the invariant: it is the next number of a counted table, and the
\* other calls under way are excused from then on.
LEMMA InsertInv ==
  ASSUME IInv, NEW c \in Calls, Insert(c)
  PROVE  IInv'
<1> DEFINE k == call[c]
           n == Cardinality(rows)
<1>1. /\ k \in Call /\ CallInv(k) /\ k.at = "insert" /\ k.ref \notin rows
      /\ k.ref \in Refs /\ k.left \in Nat \ {0} /\ rows' = rows \cup {k.ref}
      /\ table' = table /\ switch' = switch /\ deleted' = deleted
  BY DEF IInv, TypeOK, CallInv, Insert, Refs
<1>2. n \in Nat /\ Cardinality(rows') = n + 1
  BY <1>1, Counting DEF IInv
<1>3. ASSUME table \in Counted, ~deleted PROVE k.ref = n + 1 /\ rows' = 1..(n + 1)
  <2>1. rows = 1..n /\ k.ref <= n + 1 /\ k.ref \in Nat \ {0}
    BY <1>1, <1>3 DEF IInv, RefsAreDense, CallInv, Refs
  <2>2. k.ref = n + 1
    BY <1>1, <1>2, <2>1
  <2>3. QED
    BY <1>1, <1>2, <2>1, <2>2
<1>4. call' = [d \in Calls |->
                 IF d = c THEN IF table = "detections" THEN [k EXCEPT !.at = "switch"]
                               ELSE NextRow(k, TRUE, {})
                 ELSE IF Underway(d) THEN [call[d] EXCEPT !.excuse = @ \cup {"raced"}]
                 ELSE call[d]]
  BY DEF Insert, OtherwiseRaced
<1>5. call'[c] \in Call /\ CallInv(call[c])'
  <2>1. CASE table = "detections"
    <3>1. call'[c] = [k EXCEPT !.at = "switch"]
      BY <1>4, <2>1
    <3>2. /\ call'[c] \in Call /\ call'[c].at = "switch" /\ call'[c].ref = k.ref
          /\ call'[c].base = k.base /\ call'[c].imported = k.imported
          /\ call'[c].left = k.left /\ call'[c].failed = k.failed /\ call'[c].excuse = k.excuse
      BY <1>1, <3>1 DEF Call
    <3>3. k.ref = n + 1
      BY <1>3, <2>1 DEF IInv, Counted
    <3>4. k.failed => k.excuse # {}
      BY <1>1 DEF CallInv
    <3>5. /\ k.left \in Nat \ {0} /\ k.ref \in Nat \ {0}
          /\ k.left > 1 => k.ref = k.base + k.imported + 1
      BY <1>1 DEF CallInv
    <3>6. QED
      BY <1>1, <1>2, <2>1, <3>2, <3>3, <3>4, <3>5 DEF CallInv
  <2>2. CASE table # "detections"
    <3>1. call'[c] = NextRow(k, TRUE, {})
      BY <1>4, <2>2
    <3>2. k.left = 1
      BY <1>1, <2>2 DEF CallInv
    <3>3. /\ call'[c] \in Call /\ call'[c].at = "done" /\ call'[c].excuse = k.excuse
          /\ call'[c].failed = (k.failed \/ ~TRUE)
      <4>1. TRUE \in BOOLEAN /\ {} \in SUBSET Excuses /\ k.excuse \cup {} = k.excuse
        OBVIOUS
      <4>2. ASSUME NEW ok \in BOOLEAN, NEW e \in SUBSET Excuses
            PROVE  /\ NextRow(k, ok, e) \in Call /\ NextRow(k, ok, e).excuse = k.excuse \cup e
                   /\ NextRow(k, ok, e).failed = (k.failed \/ ~ok)
                   /\ NextRow(k, ok, e).at = "done"
        BY <1>1, <3>2, NextRowType
      <4>3. QED
        BY <3>1, <4>1, <4>2, Zenon
    <3>4. call'[c].failed => call'[c].excuse # {}
      BY <1>1, <3>3 DEF CallInv
    <3>5. QED
      BY <3>3, <3>4 DEF CallInv
  <2>3. QED
    BY <2>1, <2>2
<1>6. ASSUME NEW d \in Calls, d # c PROVE call'[d] \in Call /\ CallInv(call[d])'
  <2>1. call[d] \in Call /\ CallInv(call[d])
    BY DEF IInv, TypeOK
  <2>2. CASE Underway(d)
    <3> DEFINE j == call[d]
    <3>1. call'[d] = [j EXCEPT !.excuse = @ \cup {"raced"}]
      BY <1>4, <1>6, <2>2
    <3>2. /\ call'[d] \in Call /\ call'[d].at = j.at /\ call'[d].ref = j.ref
          /\ call'[d].base = j.base /\ call'[d].imported = j.imported
          /\ call'[d].left = j.left /\ call'[d].excuse # {}
      BY <2>1, <3>1 DEF Call, Excuses
    <3>3. /\ j.left \in Nat \ {0} /\ j.ref \in Nat \ {0}
          /\ j.left > 1 => table = "detections" /\ j.ref = j.base + j.imported + 1
      BY <2>1, <2>2 DEF CallInv, Underway
    <3>4. j.at = "insert" /\ table \in Counted /\ ~deleted => j.ref <= n + 1 + 1
      BY <1>2, <2>1, <3>3 DEF CallInv
    <3>5. j.at = "switch" => table = "detections" /\ j.ref \in rows'
      BY <1>1, <2>1 DEF CallInv
    <3>6. QED
      BY <1>1, <1>2, <3>2, <3>3, <3>4, <3>5 DEF CallInv
  <2>3. CASE ~Underway(d)
    <3>1. call'[d] = call[d] /\ call[d].at \notin {"insert", "switch"}
      BY <1>4, <1>6, <2>3 DEF Underway
    <3>2. call[d].failed => call[d].excuse # {}
      BY <2>1 DEF CallInv
    <3>3. QED
      BY <2>1, <3>1, <3>2 DEF CallInv
  <2>4. QED
    BY <2>2, <2>3
<1>7. call' \in [Calls -> Call] /\ \A d \in Calls: CallInv(call[d])'
  <2>1. call' = [d \in Calls |-> call'[d]]
    BY <1>4, Zenon
  <2>2. QED
    BY <1>5, <1>6, <2>1
<1>8. TypeOK'
  BY <1>1, <1>7 DEF IInv, TypeOK
<1>9. RefsAreDense'
  BY <1>1, <1>2, <1>3 DEF RefsAreDense
<1>10. QED
  BY <1>1, <1>7, <1>8, <1>9 DEF IInv

\* The inductive invariant holds in every reachable state: where each call stands among
\* the numbers the code has given, whatever fails, races or is deleted.
THEOREM Invariance == Spec => []IInv
<1>1. Init => IInv
  <2> SUFFICES ASSUME Init PROVE IInv
    OBVIOUS
  <2>1. Idle \in Call /\ CallInv(Idle)
    BY DEF Idle, Call, CallInv
  <2>2. TypeOK
    BY <2>1 DEF Init, TypeOK, Refs
  <2>3. rows = 1..Cardinality(rows)
    <3>1. 1..0 = {}
      OBVIOUS
    <3>2. QED
      BY <3>1, FS_EmptySet DEF Init
  <2>4. QED
    BY <2>1, <2>2, <2>3 DEF Init, IInv, RefsAreDense
<1>2. IInv /\ [Next]_vars => IInv'
  <2> SUFFICES ASSUME IInv, [Next]_vars PROVE IInv'
    OBVIOUS
  <2>t. /\ switch \in [Refs -> {"none", "on", "off"}]
        /\ \A c \in Calls: call[c] \in Call /\ CallInv(call[c])
    BY DEF IInv, TypeOK
  <2>1. ASSUME NEW c \in Calls, NEW r \in NextRefs, Read(c, r) PROVE IInv'
    <3> DEFINE k == [Idle EXCEPT !.at = "insert", !.ref = r, !.left = 1, !.excuse = Taken(r)]
    <3>0. k = [Idle EXCEPT !.at = "insert", !.ref = r, !.left = 1, !.excuse = Taken(r)]
      OBVIOUS
    <3>1. k = [at |-> "insert", ref |-> r, base |-> 0, imported |-> 0, left |-> 1,
               failed |-> FALSE, excuse |-> Taken(r)]
      <4> HIDE DEF k
      <4> QED BY <3>0 DEF Idle
    <3>2. call' = [call EXCEPT ![c] = k] /\ UNCHANGED untouched /\ switch' = switch
      BY <2>1 DEF Read, untouched
    <3>3. r \in Nat \ {0} /\ (table \in Counted => r <= Cardinality(rows) + 1)
      BY Counting, RegistersAssumption
      DEF IInv, TypeOK, NextRefs, CountNext, OrderNext, Greatest, Refs
    <3>4. Taken(r) \in SUBSET Excuses /\ (Taken(r) = {} => r \notin rows)
      BY DEF Taken, Excuses
    <3> HIDE DEF k
    <3>5. k \in Call
      BY <3>1, <3>3, <3>4 DEF Call
    <3>6. CallInv(k)
      BY <3>1, <3>3, <3>4 DEF CallInv
    <3>7. QED
      BY <2>t, <3>2, <3>5, <3>6, OneCall
  <2>2. ASSUME NEW c \in Calls, NEW n \in 1..Lot, ImportRead(c, n) PROVE IInv'
    <3>1. Cardinality(rows) \in Nat
      BY Counting DEF IInv
    <3> DEFINE r == Cardinality(rows) + 1
               k == [Idle EXCEPT !.at = "insert", !.ref = r, !.base = r - 1, !.left = n,
                                 !.excuse = Taken(r)]
    <3>0. k = [Idle EXCEPT !.at = "insert", !.ref = r, !.base = r - 1, !.left = n,
                           !.excuse = Taken(r)]
      OBVIOUS
    <3>2. k = [at |-> "insert", ref |-> r, base |-> r - 1, imported |-> 0, left |-> n,
               failed |-> FALSE, excuse |-> Taken(r)]
      <4> HIDE DEF k, r
      <4> QED BY <3>0 DEF Idle
    <3>3. /\ call' = [call EXCEPT ![c] = k] /\ UNCHANGED untouched /\ switch' = switch
          /\ table = "detections"
      BY <2>2 DEF ImportRead, CountNext, untouched
    <3>4. Taken(r) \in SUBSET Excuses /\ (Taken(r) = {} => r \notin rows)
      BY DEF Taken, Excuses
    <3>5. n \in Nat \ {0} /\ r \in Nat \ {0} /\ r - 1 \in Nat /\ r <= Cardinality(rows) + 1
          /\ r = (r - 1) + 0 + 1
      BY <3>1, RegistersAssumption
    <3> HIDE DEF k, r
    <3>6. k \in Call
      BY <3>2, <3>4, <3>5 DEF Call
    <3>7. CallInv(k)
      BY <3>2, <3>3, <3>4, <3>5 DEF CallInv
    <3>8. QED
      BY <2>t, <3>3, <3>6, <3>7, OneCall
  <2>3. ASSUME NEW c \in Calls, ImportSkips(c) PROVE IInv'
    <3> DEFINE k == [call[c] EXCEPT !.left = @ - 1]
    <3>1. call' = [call EXCEPT ![c] = k] /\ UNCHANGED untouched /\ switch' = switch
      BY <2>3, <2>t DEF ImportSkips, untouched
    <3>2. k = [call[c] EXCEPT !.left = call[c].left - 1]
      OBVIOUS
    <3> HIDE DEF k
    <3>3. /\ call[c].at = "insert" /\ call[c].left > 1 /\ call[c].left \in Nat
      BY <2>3, <2>t DEF ImportSkips, Call
    <3>4. /\ k \in Call /\ k.at = "insert" /\ k.left = call[c].left - 1 /\ k.ref = call[c].ref
          /\ k.base = call[c].base /\ k.imported = call[c].imported
          /\ k.failed = call[c].failed /\ k.excuse = call[c].excuse
      BY <2>t, <3>2, <3>3 DEF Call
    <3>5. k.failed => k.excuse # {}
      BY <2>t, <3>4 DEF CallInv
    <3>6. CallInv(k)
      BY <2>t, <3>3, <3>4, <3>5 DEF CallInv
    <3>7. QED
      BY <2>t, <3>1, <3>4, <3>6, OneCall
  <2>4. ASSUME NEW c \in Calls, Insert(c) PROVE IInv'
    BY <2>4, InsertInv
  <2>5. ASSUME NEW c \in Calls, Collides(c) PROVE IInv'
    <3> DEFINE k == NextRow(call[c], FALSE, {})
    <3>1. call' = [call EXCEPT ![c] = k] /\ UNCHANGED untouched /\ switch' = switch
      BY <2>5 DEF Collides, untouched
    <3>2. Underway(c) /\ call[c].excuse \cup {} # {}
      BY <2>5, <2>t DEF Collides, CallInv, Underway
    <3>3. k \in Call /\ CallInv(k)
      BY <3>2, NextRowInv
    <3>4. QED
      BY <2>t, <3>1, <3>3, OneCall
  <2>6. ASSUME NEW c \in Calls, SwitchOn(c) PROVE IInv'
    <3> DEFINE k == NextRow(call[c], TRUE, {})
    <3>1. call' = [call EXCEPT ![c] = k] /\ UNCHANGED untouched
      BY <2>6 DEF SwitchOn, untouched
    <3>2. switch' \in [Refs -> {"none", "on", "off"}]
      BY <2>6, <2>t DEF SwitchOn
    <3>3. Underway(c) /\ call[c].at = "switch"
      BY <2>6 DEF SwitchOn, Underway
    <3>4. k \in Call /\ CallInv(k)
      BY <3>3, NextRowInv
    <3>5. QED
      BY <3>1, <3>2, <3>4, OneCall
  <2>7. ASSUME NEW c \in Calls, SwitchCollides(c) PROVE IInv'
    <3> DEFINE k == NextRow(call[c], FALSE, {"raced"})
    <3>1. call' = [call EXCEPT ![c] = k] /\ UNCHANGED untouched /\ switch' = switch
      BY <2>7 DEF SwitchCollides, untouched
    <3>2. Underway(c) /\ {"raced"} \in SUBSET Excuses
      BY <2>7 DEF SwitchCollides, Underway, Excuses
    <3>3. k \in Call /\ CallInv(k)
      BY <3>2, NextRowInv
    <3>4. QED
      BY <2>t, <3>1, <3>3, OneCall
  <2>8. ASSUME NEW c \in Calls, Throws(c) PROVE IInv'
    <3> DEFINE k == NextRow(call[c], FALSE, {"fault"})
    <3>1. call' = [call EXCEPT ![c] = k] /\ UNCHANGED untouched /\ switch' = switch
      BY <2>8 DEF Throws, untouched
    <3>2. Underway(c) /\ {"fault"} \in SUBSET Excuses
      BY <2>8 DEF Throws, Excuses
    <3>3. k \in Call /\ CallInv(k)
      BY <3>2, NextRowInv
    <3>4. QED
      BY <2>t, <3>1, <3>3, OneCall
  <2>9. ASSUME NEW c \in Calls, Dies(c) PROVE IInv'
    <3>1. Idle \in Call /\ CallInv(Idle)
      BY DEF Idle, Call, CallInv
    <3>2. call' = [call EXCEPT ![c] = Idle] /\ UNCHANGED untouched /\ switch' = switch
      BY <2>9 DEF Dies, untouched
    <3>3. QED
      BY <2>t, <3>1, <3>2, OneCall
  <2>10. ASSUME NEW r \in Refs, Delete(r) PROVE IInv'
    <3>1. /\ table # "detections" /\ rows' \subseteq rows /\ deleted' = TRUE
          /\ table' = table /\ switch' = switch /\ call' = call
      BY <2>10 DEF Delete, Deletable
    <3>2. \A c \in Calls: CallInv(call[c])'
      BY <2>t, <3>1 DEF CallInv
    <3>3. QED
      BY <3>1, <3>2 DEF IInv, TypeOK, RefsAreDense
  <2>11. ASSUME NEW r \in Refs, NEW v \in {"on", "off"}, Toggle(r, v) PROVE IInv'
    <3>1. switch' \in [Refs -> {"none", "on", "off"}] /\ UNCHANGED <<table, rows, call, deleted>>
      BY <2>11, <2>t DEF Toggle
    <3>2. QED
      BY <3>1 DEF IInv, TypeOK, RefsAreDense, CallInv
  <2>12. CASE UNCHANGED vars
    BY <2>12 DEF vars, IInv, TypeOK, RefsAreDense, CallInv
  <2>13. QED
    BY <2>1, <2>2, <2>3, <2>4, <2>5, <2>6, <2>7, <2>8, <2>9, <2>10, <2>11, <2>12 DEF Next
<1>3. QED
  BY <1>1, <1>2, PTL DEF Spec

\* Every number given stays within the numbers of the table, every switch and every
\* call within its values, for any number of calls, rows and deletions.
THEOREM TypeCorrectness == Spec => []TypeOK
<1>1. IInv => TypeOK
  BY DEF IInv
<1>2. QED
  BY <1>1, Invariance, PTL

\* changes, requests, incidents and custom detections: without a deletion there is no
\* gap in the numbers that counting gives.
THEOREM Density == Spec => []RefsAreDense
<1>1. IInv => RefsAreDense
  BY DEF IInv
<1>2. QED
  BY <1>1, Invariance, PTL

\* A row is refused only if its number was taken when it was made, the database failed
\* or another call came between: an import counts its own rows right.
THEOREM Success == Spec => []CreationSucceeds
<1>1. IInv => CreationSucceeds
  BY DEF IInv, CallInv, CreationSucceeds
<1>2. QED
  BY <1>1, Invariance, PTL

\* If q + 1 is a row as well, though no row comes after q, then q is the last number
\* that fits the padding.
LEMMA OnlyAtTheLimit ==
  ASSUME NEW q \in Nat \ {0}, ~After(q + 1, q)
  PROVE  q + 1 = Limit
<1>1. Limit \in Nat /\ Base \in Nat /\ Base > 1
  BY RegistersAssumption
<1>2. CASE q + 1 < Limit
  BY <1>1, <1>2 DEF After
<1>3. CASE q >= Limit
  BY <1>1, <1>3 DEF After
<1>4. QED
  BY <1>1, <1>2, <1>3

\* The next reference is free but for the two known ways a table gets stuck: a count
\* that a deletion made too small, and string order beyond the padding.
THEOREM NextFree == Spec => []NextRefFree
<1>1. IInv => NextRefFree
  <2> SUFFICES ASSUME IInv, NEW r \in NextRefs, r \in rows
               PROVE  IF table \in Counted THEN deleted ELSE Limit \in rows
    BY DEF NextRefFree
  <2>1. Cardinality(rows) \in Nat /\ rows \subseteq Refs
    BY Counting DEF IInv, TypeOK
  <2>2. CASE table \in Counted
    <3>1. r = Cardinality(rows) + 1
      BY <2>2 DEF NextRefs, CountNext
    <3>2. r \notin 1..Cardinality(rows)
      BY <2>1, <3>1
    <3>3. QED
      BY <2>2, <3>2 DEF IInv, RefsAreDense
  <2>3. CASE table \notin Counted
    <3>1. PICK q \in Greatest: r = q + 1
      BY <2>3 DEF NextRefs, OrderNext
    <3>2. q \in Nat \ {0} /\ ~After(r, q)
      BY <2>1, <3>1 DEF Greatest, Refs
    <3>3. r = Limit
      BY <3>1, <3>2, OnlyAtTheLimit
    <3>4. QED
      BY <2>3, <3>3
  <2>4. QED
    BY <2>2, <2>3
<1>2. QED
  BY <1>1, Invariance, PTL
=============================================================================
