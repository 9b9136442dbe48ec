------------------------------ MODULE Registers ------------------------------
(***************************************************************************)
(* The tables of a tenant whose rows carry a reference made by the code:   *)
(* changes, requests and incidents of soc/soc.service, custom detections   *)
(* of detections/detections.service, and missions, playbooks and schedules *)
(* of hunts/hunts.service.                                                 *)
(*                                                                         *)
(* A creation reads the table, makes the next reference and inserts; a     *)
(* custom detection is then switched on by a second insert.  Each of these *)
(* is one action, and a call that throws or dies does no more of them.     *)
(* References are unique within the tenant.  A behaviour is about one      *)
(* table.                                                                  *)
(***************************************************************************)
EXTENDS Naturals, FiniteSets

CONSTANTS
  Tables,  \* tables the instance looks at
  Calls,   \* requests in flight at once
  Base,    \* 10 in the code
  Limit,   \* the first number with more digits than padStart fills, 10000 in the code
  First,   \* the first playbook, 100 in the code
  Lot,     \* rows of a spreadsheet, at most 500 in the code
  MaxRef   \* bound: numbers given

Counted   == {"changes", "requests", "incidents", "detections"}
Ordered   == {"missions", "playbooks", "schedules"}
Deletable == {"requests", "incidents", "missions", "playbooks", "schedules"}

ASSUME RegistersAssumption ==
  /\ Tables \subseteq Counted \cup Ordered
  /\ Base \in Nat \ {0, 1} /\ Limit \in Nat \ {0} /\ First \in Nat \ {0}
  /\ Lot \in Nat \ {0} /\ MaxRef \in Nat

VARIABLES
  table,    \* the table of this behaviour
  rows,     \* the numbers of its rows
  switch,   \* detections: the tenant_detections row of each
  call,     \* where each creation stands, with what it read and how it ended
  deleted   \* history: a row was deleted

vars == <<table, rows, switch, call, deleted>>

-----------------------------------------------------------------------------
Refs == 1..MaxRef

\* "base", "left", "imported": of an import; "failed": some row was not created
\* "excuse" is history: why a row may fail
Excuses == {"taken", "raced", "fault"}
Call == [at: {"idle", "insert", "switch", "done"}, ref: Nat, base: Nat, imported: Nat, left: Nat,
         failed: BOOLEAN, excuse: SUBSET Excuses]

Idle == [at |-> "idle", ref |-> 0, base |-> 0, imported |-> 0, left |-> 0, failed |-> FALSE,
         excuse |-> {}]

Init ==
  /\ table \in Tables
  /\ rows = {} /\ switch = [r \in Refs |-> "none"]
  /\ call = [c \in Calls |-> Idle]
  /\ deleted = FALSE

Underway(c) == call[c].at \in {"insert", "switch"}

-----------------------------------------------------------------------------
(* The next reference.                                                     *)

\* the string of q comes after that of r: both are padded up to Limit, then longer
After(q, r) ==
  CASE q < Limit /\ r >= Limit  -> q > r \div Base
    [] q >= Limit /\ r < Limit  -> q \div Base >= r
    [] OTHER                    -> q > r

Greatest == {r \in rows: \A q \in rows: ~After(q, r)}

CountNextMutUncounted == {Cardinality(rows)}       \* mutant of CountNext: counts from zero
CountNext == {Cardinality(rows) + 1}

\* mutant of OrderNext: the reference itself
OrderNextMutLast == IF rows = {} THEN {First} ELSE Greatest
OrderNext ==
  IF rows = {} THEN {IF table = "playbooks" THEN First ELSE 1} ELSE {r + 1: r \in Greatest}

NextRefs == IF table \in Counted THEN CountNext ELSE OrderNext

-----------------------------------------------------------------------------
(* create, duplicate and launch; the rows of a spreadsheet.                *)

Taken(r) == IF r \in rows THEN {"taken"} ELSE {}

Read(c, r) ==
  /\ ~Underway(c)
  /\ call' = [call EXCEPT ![c] = [Idle EXCEPT !.at = "insert", !.ref = r, !.left = 1,
                                              !.excuse = Taken(r)]]
  /\ UNCHANGED <<table, rows, switch, deleted>>

ImportRead(c, n) ==
  /\ ~Underway(c) /\ table = "detections"
  /\ \E r \in CountNext:
       call' = [call EXCEPT ![c] = [Idle EXCEPT !.at = "insert", !.ref = r, !.base = r - 1,
                                                !.left = n, !.excuse = Taken(r)]]
  /\ UNCHANGED <<table, rows, switch, deleted>>

\* the call after a row that was created or not, with what excuses it
NextRow(k, ok, why) ==
  LET n == k.imported + (IF ok THEN 1 ELSE 0)
      m == [k EXCEPT !.failed = @ \/ ~ok, !.excuse = @ \cup why]
  IN  IF k.left = 1 THEN [Idle EXCEPT !.at = "done", !.failed = m.failed, !.excuse = m.excuse]
      ELSE [m EXCEPT !.at = "insert", !.left = k.left - 1, !.imported = n,
                     !.ref = k.base + n + 1]

\* mutant of ImportSkips: the number follows the row of the spreadsheet
ImportSkipsMutNumbersRows(c) ==
  /\ call[c].at = "insert" /\ call[c].left > 1
  /\ call' = [call EXCEPT ![c].left = @ - 1, ![c].base = @ + 1, ![c].ref = @ + 1]
  /\ UNCHANGED <<table, rows, switch, deleted>>

\* a row that lacks a field or has an unknown value; the last one may not be
ImportSkips(c) ==
  /\ call[c].at = "insert" /\ call[c].left > 1
  /\ call' = [call EXCEPT ![c].left = @ - 1]
  /\ UNCHANGED <<table, rows, switch, deleted>>

\* the call of c moves on to k; the others were overtaken by it
OtherwiseRaced(c, k) ==
  call' = [d \in Calls |-> IF d = c THEN k
                           ELSE IF Underway(d) THEN [call[d] EXCEPT !.excuse = @ \cup {"raced"}]
                           ELSE call[d]]

Insert(c) ==
  /\ call[c].at = "insert" /\ call[c].ref \notin rows /\ call[c].ref <= MaxRef
  /\ rows' = rows \cup {call[c].ref}
  /\ OtherwiseRaced(c, IF table = "detections" THEN [call[c] EXCEPT !.at = "switch"]
                       ELSE NextRow(call[c], TRUE, {}))
  /\ UNCHANGED <<table, switch, deleted>>

\* the unique index refuses the row
Collides(c) ==
  /\ call[c].at = "insert" /\ call[c].ref \in rows
  /\ call' = [call EXCEPT ![c] = NextRow(@, FALSE, {})]
  /\ UNCHANGED <<table, rows, switch, deleted>>

\* mutant of SwitchOn: a row that went well is not counted
SwitchOnMutUncounted(c) ==
  /\ call[c].at = "switch" /\ switch[call[c].ref] = "none"
  /\ switch' = [switch EXCEPT ![call[c].ref] = "on"]
  /\ call' = [call EXCEPT ![c] = [NextRow(@, FALSE, {}) EXCEPT !.failed = call[c].failed]]
  /\ UNCHANGED <<table, rows, deleted>>

SwitchOn(c) ==
  /\ call[c].at = "switch" /\ switch[call[c].ref] = "none"
  /\ switch' = [switch EXCEPT ![call[c].ref] = "on"]
  /\ call' = [call EXCEPT ![c] = NextRow(@, TRUE, {})]
  /\ UNCHANGED <<table, rows, deleted>>

\* somebody switched the new detection in between: the second insert is refused
SwitchCollides(c) ==
  /\ call[c].at = "switch" /\ switch[call[c].ref] # "none"
  /\ call' = [call EXCEPT ![c] = NextRow(@, FALSE, {"raced"})]
  /\ UNCHANGED <<table, rows, switch, deleted>>

\* the database throws: an import goes on with its next row
Throws(c) ==
  /\ Underway(c)
  /\ call' = [call EXCEPT ![c] = NextRow(@, FALSE, {"fault"})]
  /\ UNCHANGED <<table, rows, switch, deleted>>

\* the process ends
Dies(c) ==
  /\ Underway(c)
  /\ call' = [call EXCEPT ![c] = Idle]
  /\ UNCHANGED <<table, rows, switch, deleted>>

-----------------------------------------------------------------------------
(* The other operations that write the table.                              *)

Delete(r) ==
  /\ table \in Deletable /\ r \in rows
  /\ rows' = rows \ {r} /\ deleted' = TRUE
  /\ UNCHANGED <<table, switch, call>>

\* toggleDetection, and each upsert of bulkToggleDetections
Toggle(r, v) ==
  /\ table = "detections" /\ r \in rows
  /\ switch' = [switch EXCEPT ![r] = v]
  /\ UNCHANGED <<table, rows, call, deleted>>

Next ==
  \/ \E c \in Calls:
       \/ \E r \in NextRefs: Read(c, r)
       \/ \E n \in 1..Lot: ImportRead(c, n)
       \/ ImportSkips(c) \/ Insert(c) \/ Collides(c)
       \/ SwitchOn(c) \/ SwitchCollides(c) \/ Throws(c) \/ Dies(c)
  \/ \E r \in Refs: Delete(r) \/ (\E v \in {"on", "off"}: Toggle(r, v))

Spec == Init /\ [][Next]_vars

-----------------------------------------------------------------------------
TypeOK ==
  /\ table \in Tables /\ rows \subseteq Refs
  /\ switch \in [Refs -> {"none", "on", "off"}]
  /\ call \in [Calls -> Call] /\ deleted \in BOOLEAN

\* While nothing was deleted, a table that numbers by counting has the numbers from
\* one up without a gap, however creations and imports race, fail and skip rows: a
\* gap would make the count a number that is taken, for ever.
RefsAreDense ==
  table \in Counted /\ ~deleted => rows = 1..Cardinality(rows)

\* The next reference is free, so that the next creation can succeed.  The code does
\* not always keep this: a count falls short after a deletion, and the greatest
\* string stays below the limit once a longer number exists.  Nothing else breaks it.
NextRefFree ==
  \A r \in NextRefs \cap rows: IF table \in Counted THEN deleted ELSE Limit \in rows

\* The strengthening that is inductive: where a call stands among the numbers.
CallInv(k) ==
  /\ k.at \in {"insert", "switch"} => k.left \in Nat \ {0} /\ k.ref \in Nat \ {0}
  /\ k.at \in {"insert", "switch"} /\ k.left > 1
       => table = "detections" /\ k.ref = k.base + k.imported + 1
  /\ k.at = "insert" /\ table \in Counted /\ ~deleted => k.ref <= Cardinality(rows) + 1
  /\ k.at = "insert" /\ k.excuse = {} => k.ref \notin rows
  /\ k.at = "switch" => table = "detections" /\ k.ref \in rows
  /\ k.at = "switch" /\ k.excuse = {} => k.ref = Cardinality(rows)
  /\ k.failed => k.excuse # {}

IInv ==
  /\ TypeOK
  /\ table = "detections" => ~deleted
  /\ RefsAreDense
  /\ \A c \in Calls: CallInv(call[c])

\* A creation, and every valid row of an import, succeeds unless its reference was
\* taken when it was made, the database failed it, or another call came between.
CreationSucceeds ==
  \A c \in Calls: call[c].at = "done" /\ call[c].failed => call[c].excuse # {}
=============================================================================
