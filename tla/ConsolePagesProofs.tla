-------------------------- MODULE ConsolePagesProofs --------------------------
(***************************************************************************)
(* Proofs about ConsolePages, for any number of rows and handlers in       *)
(* flight.                                                                 *)
(***************************************************************************)
EXTENDS ConsolePages, WellFoundedInduction, TLAPS

(* Induction.  The theorems of the library take a predicate, which no      *)
(* prover here instantiates; these take the set where it holds.            *)

Less == {p \in Nat \X Nat: p[1] < p[2]}

\* The order of the naturals has no infinite descent.
LEMMA NatWF == IsWellFoundedOn(Less, Nat)
<1>1. OpToRel(<, Nat) = Less
  BY DEF OpToRel, Less
<1>2. QED
  BY <1>1, NatLessThanWellFounded

\* A set with 0 and the successors of its members has every natural.
LEMMA SetInduction ==
  ASSUME NEW T, 0 \in T, \A n \in Nat: n \in T => n + 1 \in T
  PROVE  \A n \in Nat: n \in T
<1> DEFINE S == {n \in Nat: n \notin T}
<1>1. SUFFICES ASSUME S # {} PROVE FALSE
  OBVIOUS
<1>2. PICK x \in S: \A y \in S: ~(<<y, x>> \in Less)
  <2>1. S \subseteq Nat
    OBVIOUS
  <2> HIDE DEF S
  <2>2. QED
    BY <1>1, <2>1, NatWF, WFMin
<1>3. x # 0 /\ x - 1 \in Nat
  OBVIOUS
<1>4. x - 1 \notin S
  <2>1. ASSUME x - 1 \in S PROVE FALSE
    <3>1. <<x - 1, x>> \in Less
      BY <1>3 DEF Less
    <3>2. QED
      BY <1>2, <2>1, <3>1
  <2>2. QED
    BY <2>1
<1>5. QED
  BY <1>3, <1>4

------------------------------------------------------------------------------
(* The steps of a run, one after the other.                                *)

Trace(u, k, run, i, done, n) ==
  done = [j \in 0 .. n |-> IF j < i THEN u ELSE Do(run[j], done[j - 1], k)]

\* The steps up to any of them can be taken.
LEMMA TraceExists ==
  ASSUME NEW u, NEW k, NEW run, NEW i \in Nat \ {0}
  PROVE  \A n \in Nat: \E done: Trace(u, k, run, i, done, n)
<1> DEFINE T == {n \in Nat: \E done: Trace(u, k, run, i, done, n)}
<1>1. 0 \in T
  <2>1. Trace(u, k, run, i, [j \in 0 .. 0 |-> u], 0)
    BY DEF Trace
  <2>2. QED
    BY <2>1
<1>2. ASSUME NEW n \in Nat, n \in T PROVE n + 1 \in T
  <2>1. PICK done: Trace(u, k, run, i, done, n)
    BY <1>2
  <2> DEFINE more == [j \in 0 .. (n + 1) |-> IF j = n + 1 THEN IF j < i THEN u ELSE Do(run[j], done[n], k)
                                             ELSE done[j]]
  <2>2. \A j \in 0 .. (n + 1): more[j] = IF j < i THEN u ELSE Do(run[j], more[j - 1], k)
    BY <2>1 DEF Trace
  <2>3. Trace(u, k, run, i, more, n + 1)
    BY <2>2 DEF Trace
  <2>4. QED
    BY <2>3
<1>3. QED
  <2> HIDE DEF T
  <2>1. \A n \in Nat: n \in T
    BY <1>1, <1>2, SetInduction
  <2>2. QED
    BY <2>1 DEF T

\* They can be taken in one way.
LEMMA TraceUnique ==
  ASSUME NEW u, NEW k, NEW run, NEW i \in Nat \ {0},
         NEW m \in Nat, NEW n \in Nat, NEW f, NEW g,
         Trace(u, k, run, i, f, m), Trace(u, k, run, i, g, n)
  PROVE  \A j \in Nat: j <= m /\ j <= n => f[j] = g[j]
<1> DEFINE T == {j \in Nat: j <= m /\ j <= n => f[j] = g[j]}
<1>1. 0 \in T
  BY DEF Trace
<1>2. ASSUME NEW j \in Nat, j \in T PROVE j + 1 \in T
  <2>1. SUFFICES ASSUME j + 1 <= m, j + 1 <= n PROVE f[j + 1] = g[j + 1]
    OBVIOUS
  <2>2. f[j] = g[j] /\ j + 1 \in 0 .. m /\ j + 1 \in 0 .. n /\ (j + 1) - 1 = j
    BY <1>2, <2>1
  <2>3. f[j + 1] = IF j + 1 < i THEN u ELSE Do(run[j + 1], f[j], k)
    BY <2>2 DEF Trace
  <2>4. g[j + 1] = IF j + 1 < i THEN u ELSE Do(run[j + 1], g[j], k)
    BY <2>2 DEF Trace
  <2>5. QED
    BY <2>2, <2>3, <2>4
<1>3. QED
  <2> HIDE DEF T
  <2>1. \A j \in Nat: j \in T
    BY <1>1, <1>2, SetInduction
  <2>2. QED
    BY <2>1 DEF T

\* Steps does what it says: each step is done on what the one before left.
LEMMA StepsDef ==
  ASSUME NEW u, NEW k, NEW run, NEW i \in Nat \ {0}
  PROVE  \A n \in Nat: Steps(u, k, run, i, n) = IF n < i THEN u ELSE Do(run[n], Steps(u, k, run, i, n - 1), k)
<1> DEFINE trace(n) == CHOOSE done: Trace(u, k, run, i, done, n)
           f == [n \in Nat |-> trace(n)[n]]
           IsDone(g) == g = [j \in Nat |-> IF j < i THEN u ELSE Do(run[j], g[j - 1], k)]
<1>1. \A n \in Nat: Trace(u, k, run, i, trace(n), n)
  BY TraceExists
<1>2. ASSUME NEW n \in Nat PROVE f[n] = IF n < i THEN u ELSE Do(run[n], f[n - 1], k)
  <2> HIDE DEF trace
  <2>1. trace(n)[n] = IF n < i THEN u ELSE Do(run[n], trace(n)[n - 1], k)
    BY <1>1 DEF Trace
  <2>2. CASE n < i
    BY <2>1, <2>2
  <2>3. CASE ~(n < i)
    <3>1. n - 1 \in Nat /\ n - 1 <= n
      BY <2>3
    <3>2. trace(n)[n - 1] = trace(n - 1)[n - 1]
      BY <1>1, <3>1, TraceUnique
    <3>3. QED
      BY <2>1, <2>3, <3>1, <3>2
  <2>4. QED
    BY <2>2, <2>3
<1>3. \E g: IsDone(g)
  <2>1. f = [j \in Nat |-> f[j]]
    OBVIOUS
  <2> HIDE DEF f
  <2>2. IsDone(f)
    BY <1>2, <2>1
  <2>3. QED
    BY <2>2
<1>4. IsDone(CHOOSE g: IsDone(g))
  BY <1>3
<1>5. \A n: Steps(u, k, run, i, n) = (CHOOSE g: IsDone(g))[n]
  BY DEF Steps
<1>6. QED
  <2> DEFINE h == CHOOSE g: IsDone(g)
  <2>1. h = [j \in Nat |-> IF j < i THEN u ELSE Do(run[j], h[j - 1], k)]
    BY <1>4
  <2> HIDE DEF h
  <2>2. ASSUME NEW n \in Nat PROVE h[n] = IF n < i THEN u ELSE Do(run[n], h[n - 1], k)
    BY <2>1
  <2>3. QED
    BY <1>5, <2>2 DEF h
\* The same, from one step to the next.
LEMMA StepsNext ==
  ASSUME NEW u, NEW k, NEW run, NEW i \in Nat \ {0}, NEW n \in Nat
  PROVE  Steps(u, k, run, i, n + 1)
           = IF n + 1 < i THEN u ELSE Do(run[n + 1], Steps(u, k, run, i, n), k)
<1>1. n + 1 \in Nat /\ (n + 1) - 1 = n
  OBVIOUS
<1>2. Steps(u, k, run, i, n + 1)
        = IF n + 1 < i THEN u ELSE Do(run[n + 1], Steps(u, k, run, i, (n + 1) - 1), k)
  BY <1>1, StepsDef
<1>3. QED
  BY <1>1, <1>2

\* Before the first step the page is as it was.
LEMMA StepsNone ==
  ASSUME NEW u, NEW k, NEW run, NEW i \in Nat \ {0}, NEW n \in Nat, n < i
  PROVE  Steps(u, k, run, i, n) = u
BY StepsDef

------------------------------------------------------------------------------
(* What the steps of a run do to each part of the page.                    *)

\* A page with some of its parts replaced.
LEMMA Replaced ==
  ASSUME NEW u, FormedUi(u), NEW list, NEW sel, NEW busy, NEW form, NEW edit, NEW here
  PROVE  [u EXCEPT !.list = list, !.sel = sel, !.busy = busy, !.form = form, !.edit = edit, !.here = here]
           = [list |-> list, filter |-> u.filter, sel |-> sel, form |-> form, edit |-> edit,
              shown |-> u.shown, busy |-> busy, here |-> here]
<1> DEFINE v == [u EXCEPT !.list = list, !.sel = sel, !.busy = busy, !.form = form, !.edit = edit, !.here = here]
<1>1. v \in [list: {list}, filter: {u.filter}, sel: {sel}, form: {form}, edit: {edit},
             shown: {u.shown}, busy: {busy}, here: {here}]
  BY DEF FormedUi
<1>2. QED
  <2> HIDE DEF v
  <2>1. v = [list |-> list, filter |-> u.filter, sel |-> sel, form |-> form, edit |-> edit,
             shown |-> u.shown, busy |-> busy, here |-> here]
    BY <1>1
  <2>2. QED
    BY <2>1 DEF v

\* One step.
LEMMA DoFields ==
  ASSUME NEW s, NEW u, NEW k, FormedUi(u)
  PROVE  LET v == Do(s, u, k)
         IN  /\ FormedUi(v) /\ v.filter = u.filter /\ v.shown = u.shown
             /\ v.list = ListAfter(s, u.list, k) /\ v.sel = SelAfter(s, u.sel, k)
             /\ v.busy = BusyAfter(s, u.busy, k) /\ v.edit = EditAfter(s, u.edit, k)
             /\ v.here = (u.here /\ s # "leave")
<1> DEFINE v == Do(s, u, k)
<1>1. v = [list |-> ListAfter(s, u.list, k), filter |-> u.filter, sel |-> SelAfter(s, u.sel, k),
           form |-> FormAfter(s, u.form, k), edit |-> EditAfter(s, u.edit, k), shown |-> u.shown,
           busy |-> BusyAfter(s, u.busy, k), here |-> (u.here /\ s # "leave")]
  <2>1. PICK list: list = ListAfter(s, u.list, k)
    OBVIOUS
  <2>2. PICK sel: sel = SelAfter(s, u.sel, k)
    OBVIOUS
  <2>3. PICK busy: busy = BusyAfter(s, u.busy, k)
    OBVIOUS
  <2>4. PICK form: form = FormAfter(s, u.form, k)
    OBVIOUS
  <2>5. PICK edit: edit = EditAfter(s, u.edit, k)
    OBVIOUS
  <2>6. PICK here: here = (u.here /\ s # "leave")
    OBVIOUS
  <2>7. v = [u EXCEPT !.list = list, !.sel = sel, !.busy = busy, !.form = form, !.edit = edit, !.here = here]
    BY <2>1, <2>2, <2>3, <2>4, <2>5, <2>6 DEF Do
  <2>8. v = [list |-> list, filter |-> u.filter, sel |-> sel, form |-> form, edit |-> edit,
             shown |-> u.shown, busy |-> busy, here |-> here]
    BY <2>7, Replaced
  <2>9. QED
    BY <2>1, <2>2, <2>3, <2>4, <2>5, <2>6, <2>8
<1> HIDE DEF v
<1>a. v.list = ListAfter(s, u.list, k) /\ v.sel = SelAfter(s, u.sel, k) /\ v.filter = u.filter /\ v.shown = u.shown
  BY <1>1
<1>b. v.busy = BusyAfter(s, u.busy, k) /\ v.edit = EditAfter(s, u.edit, k) /\ v.form = FormAfter(s, u.form, k)
  BY <1>1
<1>c. v.here = (u.here /\ s # "leave")
  BY <1>1
<1>d. FormedUi(v)
  BY <1>1 DEF FormedUi
<1>2. QED
  BY <1>a, <1>b, <1>c, <1>d DEF v

\* Locks are only given back, and the one of the handler is by its free.
LEMMA BusyShrinks ==
  ASSUME NEW s, NEW busy, NEW k
  PROVE  BusyAfter(s, busy, k) \subseteq busy /\ (s = "free" => k.lock \notin BusyAfter(s, busy, k))
BY DEF BusyAfter, Freed, Unmounts

\* A list stays a list of the rows there may be.
LEMMA ListStays ==
  ASSUME NEW s, NEW list, NEW k, IsList(list)
  PROVE  IsList(ListAfter(s, list, k))
<1>1. CASE s \in {"flipRow", "putRow", "putNew", "dropRow"}
  BY <1>1 DEF ListAfter, IsList
<1>2. CASE s = "setAll"
  BY <1>2 DEF ListAfter, IsList
<1>3. CASE s \notin ListSteps
  BY <1>3 DEF ListAfter, IsList, ListSteps
<1>4. QED
  BY <1>1, <1>2, <1>3 DEF ListSteps

\* The panel shows a row there may be, or none.
LEMMA SelStays ==
  ASSUME NEW s, NEW sel, NEW k, OpenRow(sel), s \in SelSteps \ {"close", "closeIf"} => k.id \in Ids
  PROVE  OpenRow(SelAfter(s, sel, k))
<1>1. CASE s \in {"select", "selectNew", "putIf"}
  BY <1>1 DEF SelAfter, OpenRow, Open, SelSteps
<1>2. CASE s \in {"patchIf", "flipIf"}
  BY <1>2 DEF SelAfter, OpenRow, Open, SelSteps
<1>3. CASE s \in {"close", "closeIf"}
  BY <1>3 DEF SelAfter, OpenRow, Open, SelSteps, Unmounts
<1>4. CASE s \notin SelSteps
  BY <1>4 DEF SelAfter, OpenRow, Open, SelSteps, Unmounts
<1>5. QED
  BY <1>1, <1>2, <1>3, <1>4 DEF SelSteps

\* What no step changes, or changes in one way only.
Leads(u, v) == /\ FormedUi(v) /\ v.filter = u.filter /\ v.busy \subseteq u.busy /\ (v.here => u.here)
               /\ IsList(u.list) => IsList(v.list)

\* Any number of steps.
LEMMA StepsLead ==
  ASSUME NEW u, NEW k, NEW run, NEW i \in Nat \ {0}, NEW n \in Nat, FormedUi(u)
  PROVE  Leads(u, Steps(u, k, run, i, n))
<1> DEFINE T == {m \in Nat: Leads(u, Steps(u, k, run, i, m))}
<1>1. Leads(u, u)
  BY DEF Leads
<1>2. ASSUME NEW v, NEW s, Leads(u, v) PROVE Leads(u, Do(s, v, k))
  <2>1. FormedUi(v)
    BY <1>2 DEF Leads
  <2>2. /\ FormedUi(Do(s, v, k)) /\ Do(s, v, k).filter = v.filter
        /\ Do(s, v, k).list = ListAfter(s, v.list, k) /\ Do(s, v, k).busy = BusyAfter(s, v.busy, k)
        /\ Do(s, v, k).here = (v.here /\ s # "leave")
    BY <2>1, DoFields
  <2>3. Do(s, v, k).busy \subseteq v.busy
    BY <2>2, BusyShrinks
  <2>4. IsList(v.list) => IsList(Do(s, v, k).list)
    BY <2>2, ListStays
  <2>5. QED
    BY <1>2, <2>2, <2>3, <2>4 DEF Leads
<1>3. 0 \in T
  BY <1>1, StepsDef
<1>4. ASSUME NEW m \in Nat, m \in T PROVE m + 1 \in T
  <2>1. Steps(u, k, run, i, m + 1)
          = IF m + 1 < i THEN u ELSE Do(run[m + 1], Steps(u, k, run, i, m), k)
    BY StepsNext
  <2>2. QED
    BY <1>1, <1>2, <1>4, <2>1
<1>5. QED
  <2> HIDE DEF T
  <2>1. \A m \in Nat: m \in T
    BY <1>3, <1>4, SetInduction
  <2>2. QED
    BY <2>1 DEF T

\* The page stays a page.
LEMMA StepsFormed ==
  ASSUME NEW u, NEW k, NEW run, NEW i \in Nat \ {0}, NEW n \in Nat, FormedUi(u)
  PROVE  FormedUi(Steps(u, k, run, i, n))
BY StepsLead DEF Leads
\* A step of another kind leaves the list.
LEMMA ListOther ==
  ASSUME NEW s, NEW list, NEW k, s \notin ListSteps
  PROVE  ListAfter(s, list, k) = list
BY DEF ListAfter, ListSteps

\* A step of another kind leaves the panel.
LEMMA SelOther ==
  ASSUME NEW s, NEW sel, NEW k, s \notin SelSteps
  PROVE  SelAfter(s, sel, k) = sel
BY DEF SelAfter, SelSteps, Unmounts

\* The j-th alone, of the steps from the i-th to the n-th, is one of these.
Once(run, i, n, S, j) == \A h \in i .. n: run[h] \in S => h = j

\* Of steps of which at most one patches the list, the list is what that one makes of it.
LEMMA StepsList ==
  ASSUME NEW u, NEW k, NEW run, NEW i \in Nat \ {0}, NEW n \in Nat, FormedUi(u), NEW j \in Nat,
         Once(run, i, n, ListSteps, j)
  PROVE  Steps(u, k, run, i, n).list
           = IF i <= j /\ j <= n THEN ListAfter(run[j], u.list, k) ELSE u.list
<1> DEFINE T == {m \in Nat: m <= n => Steps(u, k, run, i, m).list
                               = IF i <= j /\ j <= m THEN ListAfter(run[j], u.list, k) ELSE u.list}
<1>1. 0 \in T
  <2>1. Steps(u, k, run, i, 0) = u
    BY StepsNone
  <2>2. ~(i <= j /\ j <= 0)
    OBVIOUS
  <2>3. QED
    BY <2>1, <2>2
<1>2. ASSUME NEW m \in Nat, m \in T PROVE m + 1 \in T
  <2> SUFFICES ASSUME m + 1 <= n
               PROVE  Steps(u, k, run, i, m + 1).list
                        = IF i <= j /\ j <= m + 1 THEN ListAfter(run[j], u.list, k) ELSE u.list
    OBVIOUS
  <2>1. Steps(u, k, run, i, m).list
          = IF i <= j /\ j <= m THEN ListAfter(run[j], u.list, k) ELSE u.list
    BY <1>2
  <2>2. Steps(u, k, run, i, m + 1)
          = IF m + 1 < i THEN u ELSE Do(run[m + 1], Steps(u, k, run, i, m), k)
    BY StepsNext
  <2>3. FormedUi(Steps(u, k, run, i, m))
    BY StepsFormed
  <2>4. CASE m + 1 < i
    BY <2>2, <2>4
  <2>5. CASE ~(m + 1 < i)
    <3>1. Steps(u, k, run, i, m + 1).list = ListAfter(run[m + 1], Steps(u, k, run, i, m).list, k)
      BY <2>2, <2>3, <2>5, DoFields
    <3>2. CASE m + 1 = j
      <4>1. Steps(u, k, run, i, m).list = u.list
        BY <2>1, <3>2
      <4>2. QED
        BY <2>5, <3>1, <3>2, <4>1
    <3>3. CASE m + 1 # j
      <4>1. run[m + 1] \notin ListSteps
        BY <2>5, <3>3 DEF Once
      <4>2. Steps(u, k, run, i, m + 1).list = Steps(u, k, run, i, m).list
        BY <3>1, <4>1, ListOther
      <4>3. QED
        BY <2>1, <3>3, <4>2
    <3>4. QED
      BY <3>2, <3>3
  <2>6. QED
    BY <2>4, <2>5
<1>3. QED
  <2> HIDE DEF T
  <2>1. \A m \in Nat: m \in T
    BY <1>1, <1>2, SetInduction
  <2>2. QED
    BY <2>1 DEF T

\* Of steps of which at most one touches the panel, the panel is what that one makes of it.
LEMMA StepsSel ==
  ASSUME NEW u, NEW k, NEW run, NEW i \in Nat \ {0}, NEW n \in Nat, FormedUi(u), NEW j \in Nat,
         Once(run, i, n, SelSteps, j)
  PROVE  Steps(u, k, run, i, n).sel
           = IF i <= j /\ j <= n THEN SelAfter(run[j], u.sel, k) ELSE u.sel
<1> DEFINE T == {m \in Nat: m <= n => Steps(u, k, run, i, m).sel
                               = IF i <= j /\ j <= m THEN SelAfter(run[j], u.sel, k) ELSE u.sel}
<1>1. 0 \in T
  <2>1. Steps(u, k, run, i, 0) = u
    BY StepsNone
  <2>2. ~(i <= j /\ j <= 0)
    OBVIOUS
  <2>3. QED
    BY <2>1, <2>2
<1>2. ASSUME NEW m \in Nat, m \in T PROVE m + 1 \in T
  <2> SUFFICES ASSUME m + 1 <= n
               PROVE  Steps(u, k, run, i, m + 1).sel
                        = IF i <= j /\ j <= m + 1 THEN SelAfter(run[j], u.sel, k) ELSE u.sel
    OBVIOUS
  <2>1. Steps(u, k, run, i, m).sel
          = IF i <= j /\ j <= m THEN SelAfter(run[j], u.sel, k) ELSE u.sel
    BY <1>2
  <2>2. Steps(u, k, run, i, m + 1)
          = IF m + 1 < i THEN u ELSE Do(run[m + 1], Steps(u, k, run, i, m), k)
    BY StepsNext
  <2>3. FormedUi(Steps(u, k, run, i, m))
    BY StepsFormed
  <2>4. CASE m + 1 < i
    BY <2>2, <2>4
  <2>5. CASE ~(m + 1 < i)
    <3>1. Steps(u, k, run, i, m + 1).sel = SelAfter(run[m + 1], Steps(u, k, run, i, m).sel, k)
      BY <2>2, <2>3, <2>5, DoFields
    <3>2. CASE m + 1 = j
      <4>1. Steps(u, k, run, i, m).sel = u.sel
        BY <2>1, <3>2
      <4>2. QED
        BY <2>5, <3>1, <3>2, <4>1
    <3>3. CASE m + 1 # j
      <4>1. run[m + 1] \notin SelSteps
        BY <2>5, <3>3 DEF Once
      <4>2. Steps(u, k, run, i, m + 1).sel = Steps(u, k, run, i, m).sel
        BY <3>1, <4>1, SelOther
      <4>3. QED
        BY <2>1, <3>3, <4>2
    <3>4. QED
      BY <3>2, <3>3
  <2>6. QED
    BY <2>4, <2>5
<1>3. QED
  <2> HIDE DEF T
  <2>1. \A m \in Nat: m \in T
    BY <1>1, <1>2, SetInduction
  <2>2. QED
    BY <2>1 DEF T

\* Whoever is among the steps has been done: the lock is given back.
LEMMA StepsFree ==
  ASSUME NEW u, NEW k, NEW run, NEW i \in Nat \ {0}, NEW n \in Nat, FormedUi(u),
         NEW j \in i .. n, run[j] = "free"
  PROVE  k.lock \notin Steps(u, k, run, i, n).busy
<1> DEFINE T == {m \in Nat: j <= m => k.lock \notin Steps(u, k, run, i, m).busy}
<1>1. 0 \in T
  OBVIOUS
<1>2. ASSUME NEW m \in Nat, m \in T PROVE m + 1 \in T
  <2> SUFFICES ASSUME j <= m + 1 PROVE k.lock \notin Steps(u, k, run, i, m + 1).busy
    OBVIOUS
  <2>1. Steps(u, k, run, i, m + 1) = Do(run[m + 1], Steps(u, k, run, i, m), k)
    BY StepsNext
  <2>2. FormedUi(Steps(u, k, run, i, m))
    BY StepsFormed
  <2>3. Steps(u, k, run, i, m + 1).busy = BusyAfter(run[m + 1], Steps(u, k, run, i, m).busy, k)
    BY <2>1, <2>2, DoFields
  <2>4. CASE j = m + 1
    BY <2>3, <2>4, BusyShrinks
  <2>5. CASE j <= m
    BY <1>2, <2>3, <2>5, BusyShrinks
  <2>6. QED
    BY <2>4, <2>5
<1>3. QED
  <2> HIDE DEF T
  <2>1. \A m \in Nat: m \in T
    BY <1>1, <1>2, SetInduction
  <2>2. QED
    BY <2>1 DEF T

\* Who leaves the page has left it.
LEMMA StepsLeave ==
  ASSUME NEW u, NEW k, NEW run, NEW i \in Nat \ {0}, NEW n \in Nat, FormedUi(u),
         NEW j \in i .. n, run[j] = "leave"
  PROVE  ~Steps(u, k, run, i, n).here
<1> DEFINE T == {m \in Nat: j <= m => ~Steps(u, k, run, i, m).here}
<1>1. 0 \in T
  OBVIOUS
<1>2. ASSUME NEW m \in Nat, m \in T PROVE m + 1 \in T
  <2> SUFFICES ASSUME j <= m + 1 PROVE ~Steps(u, k, run, i, m + 1).here
    OBVIOUS
  <2>1. Steps(u, k, run, i, m + 1) = Do(run[m + 1], Steps(u, k, run, i, m), k)
    BY StepsNext
  <2>2. FormedUi(Steps(u, k, run, i, m))
    BY StepsFormed
  <2>3. Steps(u, k, run, i, m + 1).here = (Steps(u, k, run, i, m).here /\ run[m + 1] # "leave")
    BY <2>1, <2>2, DoFields
  <2>4. CASE j = m + 1
    BY <2>3, <2>4
  <2>5. CASE j <= m
    BY <1>2, <2>3, <2>5
  <2>6. QED
    BY <2>4, <2>5
<1>3. QED
  <2> HIDE DEF T
  <2>1. \A m \in Nat: m \in T
    BY <1>1, <1>2, SetInduction
  <2>2. QED
    BY <2>1 DEF T

\* What the panel and the form show after the steps are rows there may be.
LEMMA StepsRows ==
  ASSUME NEW u, NEW k, NEW run, NEW i \in Nat \ {0}, NEW n \in Nat, FormedUi(u),
         OpenRow(u.sel), OpenRow(u.edit),
         k.id \notin Ids => \A h \in i .. n: run[h] \notin (SelSteps \ {"close", "closeIf"}) \cup {"edit"}
  PROVE  OpenRow(Steps(u, k, run, i, n).sel) /\ OpenRow(Steps(u, k, run, i, n).edit)
<1> DEFINE T == {m \in Nat: m <= n => OpenRow(Steps(u, k, run, i, m).sel) /\ OpenRow(Steps(u, k, run, i, m).edit)}
<1>1. 0 \in T
  BY StepsDef
<1>2. ASSUME NEW m \in Nat, m \in T PROVE m + 1 \in T
  <2> SUFFICES ASSUME m + 1 <= n
               PROVE  OpenRow(Steps(u, k, run, i, m + 1).sel) /\ OpenRow(Steps(u, k, run, i, m + 1).edit)
    OBVIOUS
  <2>1. Steps(u, k, run, i, m + 1)
          = IF m + 1 < i THEN u ELSE Do(run[m + 1], Steps(u, k, run, i, m), k)
    BY StepsNext
  <2>2. CASE m + 1 < i
    BY <2>1, <2>2
  <2>3. CASE ~(m + 1 < i)
    <3>1. FormedUi(Steps(u, k, run, i, m))
      BY StepsFormed
    <3>2. /\ Steps(u, k, run, i, m + 1).sel = SelAfter(run[m + 1], Steps(u, k, run, i, m).sel, k)
          /\ Steps(u, k, run, i, m + 1).edit = EditAfter(run[m + 1], Steps(u, k, run, i, m).edit, k)
      BY <2>1, <2>3, <3>1, DoFields
    <3>3. k.id \notin Ids => run[m + 1] \notin (SelSteps \ {"close", "closeIf"}) \cup {"edit"}
      BY <2>3
    <3>4. OpenRow(Steps(u, k, run, i, m).sel) /\ OpenRow(Steps(u, k, run, i, m).edit)
      BY <1>2
    <3>5. OpenRow(SelAfter(run[m + 1], Steps(u, k, run, i, m).sel, k))
      BY <3>3, <3>4, SelStays
    <3>6. OpenRow(EditAfter(run[m + 1], Steps(u, k, run, i, m).edit, k))
      BY <3>3, <3>4 DEF EditAfter, OpenRow, Open
    <3>7. QED
      BY <3>2, <3>5, <3>6
  <2>4. QED
    BY <2>2, <2>3
<1>3. QED
  <2> HIDE DEF T
  <2>1. \A m \in Nat: m \in T
    BY <1>1, <1>2, SetInduction
  <2>2. QED
    BY <2>1 DEF T

\* Where a run waits next.
LEMMA NextAwaitIs ==
  ASSUME NEW run, Script(run), NEW i \in Nat \ {0}, i <= Len(run) + 1
  PROVE  /\ NextAwait(run, i) \in i .. (Len(run) + 1)
         /\ NextAwait(run, i) \in DOMAIN run => run[NextAwait(run, i)] \in Async
         /\ \A h \in i .. (NextAwait(run, i) - 1): run[h] \notin Async
<1> DEFINE S == {j \in i .. (Len(run) + 1): j \in DOMAIN run => run[j] \in Async}
           IsNext(j) == /\ j \in DOMAIN run => run[j] \in Async
                        /\ \A h \in i .. (j - 1): run[h] \notin Async
<1>1. Len(run) \in Nat /\ DOMAIN run = 1 .. Len(run)
  BY DEF Script
<1>2. S \subseteq Nat /\ Len(run) + 1 \in S
  BY <1>1
<1>3. PICK x \in S: \A y \in S: ~(<<y, x>> \in Less)
  <2> HIDE DEF S
  <2>1. QED
    BY <1>2, NatWF, WFMin
<1>4. \A h \in i .. (x - 1): run[h] \notin Async
  <2> SUFFICES ASSUME NEW h \in i .. (x - 1), run[h] \in Async PROVE FALSE
    OBVIOUS
  <2>1. h \in S /\ h < x
    BY <1>1
  <2>2. <<h, x>> \in Less
    BY <1>2, <2>1 DEF Less
  <2>3. QED
    BY <1>3, <2>1, <2>2
<1>5. \E j \in i .. (Len(run) + 1): IsNext(j)
  BY <1>4
<1>6. NextAwait(run, i) \in i .. (Len(run) + 1) /\ IsNext(NextAwait(run, i))
  BY <1>5 DEF NextAwait
<1>7. QED
  BY <1>6

\* The start of a load is told from the list it is to show.
LEMMA LoadFields ==
  ASSUME NEW u, FormedUi(u)
  PROVE  LET v == StartLoad(u)
         IN  /\ FormedUi(v) /\ v.list = u.list /\ v.filter = u.filter /\ v.sel = u.sel /\ v.edit = u.edit
             /\ v.here = u.here /\ v.busy \subseteq u.busy
<1>1. PICK busy, shown: busy \subseteq u.busy /\ StartLoad(u) = [u EXCEPT !.shown = shown, !.busy = busy]
  <2>1. CASE This.spins
    <3>1. PICK busy: busy = {l \in u.busy: l.kind # "card"}
      OBVIOUS
    <3>2. StartLoad(u) = [u EXCEPT !.shown = FALSE, !.busy = busy]
      BY <2>1, <3>1 DEF StartLoad
    <3>3. QED
      BY <3>1, <3>2
  <2>2. CASE ~This.spins
    <3>1. StartLoad(u) = [u EXCEPT !.shown = TRUE]
      BY <2>2 DEF StartLoad
    <3>2. [u EXCEPT !.shown = TRUE] = [u EXCEPT !.shown = TRUE, !.busy = u.busy]
      BY DEF FormedUi
    <3>3. QED
      BY <3>1, <3>2
  <2>3. QED
    BY <2>1, <2>2
<1> DEFINE v == [u EXCEPT !.shown = shown, !.busy = busy]
<1>2. v \in [list: {u.list}, filter: {u.filter}, sel: {u.sel}, form: {u.form}, edit: {u.edit},
             shown: {shown}, busy: {busy}, here: {u.here}]
  BY DEF FormedUi
<1>3. QED
  <2> HIDE DEF v
  <2>1. v = [list |-> u.list, filter |-> u.filter, sel |-> u.sel, form |-> u.form, edit |-> u.edit,
             shown |-> shown, busy |-> busy, here |-> u.here]
    BY <1>2
  <2>2. FormedUi(v) /\ v.list = u.list /\ v.filter = u.filter /\ v.sel = u.sel /\ v.edit = u.edit
    BY <2>1 DEF FormedUi
  <2>3. v.here = u.here /\ v.busy = busy
    BY <2>1
  <2>4. QED
    BY <1>1, <2>2, <2>3 DEF v

\* Up to the next await.
LEMMA AfterFields ==
  ASSUME NEW u, NEW k, NEW run, Script(run), NEW i \in Nat \ {0}, i <= Len(run) + 1, FormedUi(u)
  PROVE  LET n == NextAwait(run, i) - 1
             v == After(u, k, run, i)
             d == Steps(u, k, run, i, n)
         IN  /\ n \in Nat /\ FormedUi(v) /\ v.filter = u.filter /\ v.list = d.list /\ v.sel = d.sel
             /\ v.edit = d.edit /\ v.here = d.here /\ v.busy \subseteq d.busy
<1>1. PICK n: n = NextAwait(run, i) - 1
  OBVIOUS
<1>2. n \in Nat
  BY <1>1, NextAwaitIs DEF Script
<1>3. PICK d: d = Steps(u, k, run, i, n)
  OBVIOUS
<1>4. FormedUi(d) /\ d.filter = u.filter
  <2>1. Leads(u, Steps(u, k, run, i, n))
    BY <1>2, StepsLead
  <2>2. QED
    BY <1>3, <2>1 DEF Leads
<1>5. After(u, k, run, i) = d \/ After(u, k, run, i) = StartLoad(d)
  BY <1>1, <1>3 DEF After
<1>6. QED
  BY <1>1, <1>2, <1>3, <1>4, <1>5, LoadFields

\* What the page is after the steps of a run up to its next await.
Gone(u, k, run, i) ==
  LET stop == NextAwait(run, i)
      v == After(u, k, run, i)
  IN  /\ Leads(u, v) /\ stop \in i .. (Len(run) + 1)
      /\ \A j \in i .. (stop - 1): /\ run[j] \notin Async
                                   /\ run[j] = "free" => k.lock \notin v.busy
                                   /\ run[j] = "leave" => ~v.here
      /\ \A j \in Nat: Once(run, i, stop - 1, ListSteps, j) =>
           v.list = IF i <= j /\ j < stop THEN ListAfter(run[j], u.list, k) ELSE u.list
      /\ \A j \in Nat: Once(run, i, stop - 1, SelSteps, j) =>
           v.sel = IF i <= j /\ j < stop THEN SelAfter(run[j], u.sel, k) ELSE u.sel
      /\ /\ OpenRow(u.sel) /\ OpenRow(u.edit)
         /\ k.id \notin Ids => \A h \in i .. (stop - 1): run[h] \notin (SelSteps \ {"close", "closeIf"}) \cup {"edit"}
         => OpenRow(v.sel) /\ OpenRow(v.edit)

\* A run goes on so from anywhere.
LEMMA AfterIs ==
  ASSUME NEW u, NEW k, NEW run, Script(run), NEW i \in Nat \ {0}, i <= Len(run) + 1, FormedUi(u)
  PROVE  Gone(u, k, run, i)
<1> DEFINE stop == NextAwait(run, i)
           v == After(u, k, run, i)
           d == Steps(u, k, run, i, stop - 1)
<1>1. /\ stop - 1 \in Nat /\ FormedUi(v) /\ v.filter = u.filter /\ v.list = d.list /\ v.sel = d.sel
      /\ v.edit = d.edit /\ v.here = d.here /\ v.busy \subseteq d.busy
  BY AfterFields
<1>2. stop \in i .. (Len(run) + 1) /\ stop \in Nat /\ \A j \in i .. (stop - 1): run[j] \notin Async
  <2>1. stop \in i .. (Len(run) + 1) /\ \A j \in i .. (stop - 1): run[j] \notin Async
    BY NextAwaitIs
  <2>2. QED
    BY <2>1 DEF Script
<1> HIDE DEF v
<1>3. Leads(u, d)
  BY <1>1, StepsLead
<1>l. Leads(u, v)
  BY <1>1, <1>3 DEF Leads
<1>4. ASSUME NEW j \in i .. (stop - 1)
      PROVE  (run[j] = "free" => k.lock \notin v.busy) /\ (run[j] = "leave" => ~v.here)
  BY <1>1, StepsFree, StepsLeave
<1>5. ASSUME NEW j \in Nat, Once(run, i, stop - 1, ListSteps, j)
      PROVE  d.list = IF i <= j /\ j < stop THEN ListAfter(run[j], u.list, k) ELSE u.list
  <2>1. d.list = IF i <= j /\ j <= stop - 1 THEN ListAfter(run[j], u.list, k) ELSE u.list
    BY <1>1, <1>5, StepsList
  <2>2. j <= stop - 1 <=> j < stop
    BY <1>2
  <2>3. QED
    BY <2>1, <2>2
<1>6. ASSUME NEW j \in Nat, Once(run, i, stop - 1, SelSteps, j)
      PROVE  d.sel = IF i <= j /\ j < stop THEN SelAfter(run[j], u.sel, k) ELSE u.sel
  <2>1. d.sel = IF i <= j /\ j <= stop - 1 THEN SelAfter(run[j], u.sel, k) ELSE u.sel
    BY <1>1, <1>6, StepsSel
  <2>2. j <= stop - 1 <=> j < stop
    BY <1>2
  <2>3. QED
    BY <2>1, <2>2
<1>7. ASSUME OpenRow(u.sel), OpenRow(u.edit),
             k.id \notin Ids => \A h \in i .. (stop - 1): run[h] \notin (SelSteps \ {"close", "closeIf"}) \cup {"edit"}
      PROVE  OpenRow(d.sel) /\ OpenRow(d.edit)
  BY <1>1, <1>7, StepsRows
<1>8. QED
  <2> HIDE DEF d, stop
  <2>1. /\ Leads(u, v) /\ stop \in i .. (Len(run) + 1)
        /\ \A j \in i .. (stop - 1): run[j] \notin Async /\ (run[j] = "free" => k.lock \notin v.busy)
                                     /\ (run[j] = "leave" => ~v.here)
    BY <1>2, <1>l, <1>4
  <2>2. \A j \in Nat: Once(run, i, stop - 1, ListSteps, j) =>
           v.list = IF i <= j /\ j < stop THEN ListAfter(run[j], u.list, k) ELSE u.list
    BY <1>1, <1>5
  <2>3. \A j \in Nat: Once(run, i, stop - 1, SelSteps, j) =>
           v.sel = IF i <= j /\ j < stop THEN SelAfter(run[j], u.sel, k) ELSE u.sel
    BY <1>1, <1>6
  <2>4. /\ OpenRow(u.sel) /\ OpenRow(u.edit)
        /\ k.id \notin Ids => \A h \in i .. (stop - 1): run[h] \notin (SelSteps \ {"close", "closeIf"}) \cup {"edit"}
        => OpenRow(v.sel) /\ OpenRow(v.edit)
    BY <1>1, <1>7
  <2>5. QED
    BY <2>1, <2>2, <2>3, <2>4 DEF Gone, v, stop

\* A call that waits is not idle.
LEMMA IdleFields == Idle.at = 0 /\ Idle.ans = "none" /\ Idle.run = <<>>
BY DEF Idle

\* What a handler began with it keeps.
SameOf(w, k) ==
  /\ w.id = k.id /\ w.from = k.from /\ w.to = k.to /\ w.filter = k.filter /\ w.sel = k.sel
  /\ w.catch = k.catch /\ w.panel = k.panel /\ w.all = k.all /\ w.lock = k.lock

\* The call that waits next, or none.
Waits(w, k, run, stop) ==
  IF stop \in DOMAIN run
  THEN /\ Formed(w) /\ w # Idle /\ w.run = run /\ w.at = stop /\ w.ans = "none" /\ SameOf(w, k)
       /\ Awaits(w) = run[stop] /\ Awaits(w) \in Async
  ELSE stop = Len(run) + 1 /\ w = Idle

\* A call waits so.
LEMMA WaitingIs ==
  ASSUME NEW k, Formed(k), NEW run, Script(run), NEW i \in Nat \ {0}, i <= Len(run) + 1
  PROVE  Waits(Waiting(k, run, i), k, run, NextAwait(run, i))
<1> DEFINE stop == NextAwait(run, i)
           w == [k EXCEPT !.run = run, !.at = stop, !.ans = "none", !.got = None]
<1>1. stop \in i .. (Len(run) + 1) /\ (stop \in DOMAIN run => run[stop] \in Async)
  BY NextAwaitIs
<1>2. CASE stop \notin DOMAIN run
  <2>1. stop = Len(run) + 1
    BY <1>1, <1>2 DEF Script
  <2>2. QED
    BY <1>2, <2>1 DEF Waiting, Waits
<1>3. CASE stop \in DOMAIN run
  <2>1. Waiting(k, run, i) = w /\ stop # 0
    BY <1>3, <1>1 DEF Waiting, Script
  <2> HIDE DEF stop
  <2>2. w \in [run: {run}, at: {stop}, id: {k.id}, from: {k.from}, to: {k.to}, filter: {k.filter}, sel: {k.sel},
               form: {k.form}, n: {k.n}, catch: {k.catch}, panel: {k.panel}, all: {k.all}, lock: {k.lock},
               ans: {"none"}, got: {None}]
    BY DEF Formed
  <2> HIDE DEF w
  <2>3. w = [run |-> run, at |-> stop, id |-> k.id, from |-> k.from, to |-> k.to, filter |-> k.filter, sel |-> k.sel,
             form |-> k.form, n |-> k.n, catch |-> k.catch, panel |-> k.panel, all |-> k.all, lock |-> k.lock,
             ans |-> "none", got |-> None]
    BY <2>2
  <2>4. w.run = run /\ w.at = stop /\ w.ans = "none"
    BY <2>3
  <2>5. Formed(w)
    BY <2>3 DEF Formed
  <2>6. SameOf(w, k)
    BY <2>3 DEF SameOf
  <2>7. w # Idle
    BY <2>1, <2>4, IdleFields
  <2>8. Awaits(w) = run[stop] /\ Awaits(w) \in Async
    BY <1>1, <1>3, <2>4 DEF Awaits, stop
  <2>9. Waits(w, k, run, stop)
    BY <1>3, <2>4, <2>5, <2>6, <2>7, <2>8 DEF Waits
  <2>10. QED
    BY <2>1, <2>9 DEF stop
<1>4. QED
  BY <1>2, <1>3

------------------------------------------------------------------------------
(* Every page keeps to the discipline.  A script is known by its first     *)
(* step and by the steps that follow, of which none is done twice.         *)

Then(run, w, S) ==
  /\ Script(run) /\ 1 \in DOMAIN run /\ run[1] = w /\ w \notin S
  /\ \A j \in DOMAIN run: j # 1 => j > 1 /\ run[j] \in S
  /\ \A s \in S: \E j \in DOMAIN run: j > 1 /\ run[j] = s
  /\ \A i, j \in DOMAIN run: run[i] = run[j] => i = j

\* What the discipline asks of a script, asked of its steps.
LEMMA ThenSteps ==
  ASSUME NEW run, NEW w, NEW S, Then(run, w, S)
  PROVE  /\ \A T: Lacks(run, T) <=> (w \notin T /\ S \cap T = {})
         /\ \A s: Has(run, s) <=> (s = w \/ s \in S)
         /\ \A T: Later(run, 1, T) <=> S \cap T # {}
         /\ \A T: \A j \in DOMAIN run: run[j] \in T =>
              \/ run[j] = w
              \/ j > 1 /\ run[j] \in S \cap T
         /\ \A T: \A j \in DOMAIN run: (w \notin T /\ S \cap T = {run[j]}) => Only(run, j, T)
         /\ \A T: {run[j]: j \in DOMAIN run} \cap T = ({w} \cup S) \cap T
         /\ \A i, j \in DOMAIN run: run[i] = run[j] => i = j
<1>1. \A T: Lacks(run, T) <=> (w \notin T /\ S \cap T = {})
  BY DEF Then, Lacks
<1>2. \A s: Has(run, s) <=> (s = w \/ s \in S)
  BY DEF Then, Has
<1>3. \A T: Later(run, 1, T) <=> S \cap T # {}
  BY DEF Then, Later, Script
<1>4. \A T: \A j \in DOMAIN run: run[j] \in T => run[j] = w \/ (j > 1 /\ run[j] \in S \cap T)
  BY DEF Then
<1>5. \A T: \A j \in DOMAIN run: (w \notin T /\ S \cap T = {run[j]}) => Only(run, j, T)
  BY DEF Then, Only
<1>6. {run[j]: j \in DOMAIN run} = {w} \cup S
  BY DEF Then
<1>7. \A i, j \in DOMAIN run: run[i] = run[j] => i = j
  BY DEF Then
<1>. QED
  BY <1>1, <1>2, <1>3, <1>4, <1>5, <1>6, <1>7

\* A lock taken is given back at the end of the handler and of its catch.
Lockless(b) == b.lock.name = ""
Released(b, S) ==
  /\ b.catch \in {<<>>, <<"free">>, <<"free", "reload">>}
  /\ Lockless(b) \/ ("free" \in S /\ b.catch # <<>>)
\* The states a button asks for are states of its page.
Asks(p, b, w) ==
  /\ w \in Writes \ {"addMany", "touch", "post", "remove"} => \A m \in b.moves: m[2] \in p.states
  /\ w = "addMany" => Switched \subseteq p.states
\* A handler reloads the list, patches it, leaves the page, or has nothing to show in it.
Refreshes(n, p, b, w, S) ==
  \/ "reload" \in S /\ S \cap ListSteps = {} /\ "leave" \notin S
  \/ /\ "reload" \notin S
     /\ \E s \in ListSteps: S \cap ListSteps = {s} /\ ("leave" \in S \/ Patches(n, p, b.moves, w, s))
  \/ "reload" \notin S /\ S \cap ListSteps = {} /\ (w \in {"enable", "touch", "post", "swap"} \/ "leave" \in S)
\* It changes the panel by one step at most, and by one that fits the write.
Repanels(n, p, b, w, S) ==
  /\ \A s, t \in S \cap SelSteps: s = t
  /\ "select" \notin S
  /\ n \notin WithPanel \cup {"docs"} => S \cap SelSteps = {} /\ p.panel = {}
  /\ n \in WithPanel => Mends(p, b, w)

\* The catch of a handler gives its lock back.
LEMMA CatchRecovers ==
  \A catch \in {<<>>, <<"free">>, <<"free", "reload">>}:
    Recovers(catch) /\ (catch # <<>> => Has(catch, "free"))
<1>1. Recovers(<<>>)
  BY DEF Recovers, Script
<1>2. Recovers(<<"free">>) /\ Has(<<"free">>, "free")
  BY DEF Recovers, Script, Has
<1>3. Recovers(<<"free", "reload">>) /\ Has(<<"free", "reload">>, "free")
  BY DEF Recovers, Script, Has, Only
<1>. QED
  BY <1>1, <1>2, <1>3

\* A handler whose only calls are a write and a reload after it keeps to the discipline.
LEMMA WriterDisciplined ==
  ASSUME NEW n, NEW p, NEW b, NEW w \in Writes, NEW S, Then(b.run, w, S), S \cap Awaited \subseteq {"reload"},
         Released(b, S), Asks(p, b, w), Refreshes(n, p, b, w, S), Repanels(n, p, b, w, S)
  PROVE  Disciplined(n, p, b)
<1> DEFINE run == b.run
<1>1. Script(run) /\ 1 \in DOMAIN run /\ run[1] = w /\ DOMAIN run \subseteq Nat
  BY DEF Then, Script
<1> HIDE DEF run
<1>2. /\ w \in Async
      /\ w \notin Fetches \cup SelSteps \cup ListSteps \cup {"reload", "debounce", "leave", "select"}
  BY DEF Async, Writes, Fetches, SelSteps, ListSteps
<1>3. /\ Writes \subseteq Awaited /\ "reload" \in Async /\ "reload" \notin Writes \cup Fetches
      /\ Fetches \subseteq Awaited /\ Async \subseteq Awaited /\ "debounce" \in Async
  BY DEF Awaited, Async, Writes, Fetches
<1>4. \A j \in DOMAIN run: j # 1 => j > 1 /\ run[j] \in S
  BY DEF Then, run
<1>5. \A j \in DOMAIN run: run[j] \in Awaited => j = 1 \/ run[j] = "reload"
  BY <1>4
<1>6. Ordered(run)
  <2>1. ~Has(run, "debounce") /\ \A j \in DOMAIN run: run[j] \in Writes => j = 1
    BY <1>1, <1>2, <1>3, <1>5 DEF Has
  <2>2. \A j \in DOMAIN run: run[j] = "reload" => ~Later(run, j, Async \ {"fetch"})
    BY <1>1, <1>2, <1>3, <1>5, ThenSteps DEF Later, run
  <2>3. \A j \in DOMAIN run: run[j] \notin Fetches
    BY <1>1, <1>2, <1>3, <1>5
  <2>. QED
    BY <1>1, <1>2, <2>1, <2>2, <2>3 DEF Ordered
<1>7. Recovers(b.catch) /\ (~Lockless(b) => Has(run, "free") /\ Has(b.catch, "free"))
  BY CatchRecovers, ThenSteps DEF Released, run
<1>8. ~Lacks(run, Writes \ {"addMany", "touch", "post", "remove"}) => \A m \in b.moves: m[2] \in p.states
  <2>1. S \cap (Writes \ {"addMany", "touch", "post", "remove"}) = {}
    BY <1>3
  <2>. QED
    BY <2>1, ThenSteps DEF Asks, run
<1>m. Has(run, "addMany") => Switched \subseteq p.states
  <2>1. "addMany" \notin S
    BY <1>3 DEF Writes
  <2>. QED
    BY <2>1, ThenSteps DEF Asks, run
<1>9. KeepsList(n, p, b)
  <2>1. Has(run, "leave") => ~Later(run, 1, Awaited)
    BY <1>2, ThenSteps DEF Refreshes, run
  <2>2. \A j \in DOMAIN run: run[j] \in ListSteps =>
       /\ j > 1 /\ Only(run, j, ListSteps) /\ run[1] \in Writes /\ ~Later(run, 1, Awaited)
       /\ Has(run, "leave") \/ Patches(n, p, b.moves, run[1], run[j])
    <3> SUFFICES ASSUME NEW j \in DOMAIN run, run[j] \in ListSteps
                 PROVE  /\ j > 1 /\ Only(run, j, ListSteps) /\ run[1] \in Writes /\ ~Later(run, 1, Awaited)
                        /\ Has(run, "leave") \/ Patches(n, p, b.moves, run[1], run[j])
      OBVIOUS
    <3>1. j > 1 /\ run[j] \in S \cap ListSteps
      BY <1>1, <1>2, <1>4
    <3>2. PICK s \in ListSteps: /\ "reload" \notin S /\ S \cap ListSteps = {s}
                                /\ "leave" \in S \/ Patches(n, p, b.moves, w, s)
      BY <3>1 DEF Refreshes
    <3>3. run[j] = s /\ S \cap ListSteps = {run[j]} /\ S \cap Awaited = {}
      BY <3>1, <3>2
    <3>4. Only(run, j, ListSteps) /\ ~Later(run, 1, Awaited)
      BY <1>2, <3>3, ThenSteps DEF run
    <3>5. Has(run, "leave") \/ Patches(n, p, b.moves, run[1], run[j])
      BY <1>1, <3>2, <3>3, ThenSteps DEF run
    <3>. QED
      BY <1>1, <3>1, <3>4, <3>5
  <2>3. w \in Writes \ {"enable", "touch", "post", "swap"} => Has(run, "reload") \/ Has(run, "leave") \/ ~Lacks(run, ListSteps)
    BY ThenSteps DEF Refreshes, run
  <2>4. \A j \in DOMAIN run: run[j] \in Writes => run[j] = w
    BY <1>1, <1>3, <1>5
  <2>. QED
    BY <2>1, <2>2, <2>3, <2>4 DEF KeepsList, run
<1>10. KeepsPanel(n, p, b)
  <2>1. Lacks(run, Fetches) /\ ~Lacks(run, Writes)
    BY <1>1, <1>2, <1>3, <1>5 DEF Lacks
  <2>2. \A j \in DOMAIN run: run[j] # "select"
    BY <1>1, <1>2, <1>4 DEF Repanels
  <2>3. \A j \in DOMAIN run: run[j] \in SelSteps => Only(run, j, SelSteps)
    <3> SUFFICES ASSUME NEW j \in DOMAIN run, run[j] \in SelSteps PROVE Only(run, j, SelSteps)
      OBVIOUS
    <3>1. S \cap SelSteps = {run[j]}
      BY <1>1, <1>2, <1>4 DEF Repanels
    <3>. QED
      BY <1>2, <3>1, ThenSteps DEF run
  <2>4. n \notin WithPanel \cup {"docs"} => Lacks(run, SelSteps) /\ p.panel = {}
    BY <1>2, ThenSteps DEF Repanels, run
  <2>5. n \in WithPanel => \A j \in DOMAIN run: run[j] \in Writes => Mends(p, b, run[j])
    BY <1>1, <1>3, <1>5 DEF Repanels
  <2>. QED
    BY <2>1, <2>2, <2>3, <2>4, <2>5 DEF KeepsPanel, run
<1>. QED
  BY <1>6, <1>7, <1>8, <1>m, <1>9, <1>10 DEF Disciplined, Lockless, run

\* Selecting, opening and closing make no call; a page may also offer a load of its own.
LEMMA StillDisciplined ==
  ASSUME NEW n, NEW p, NEW b, NEW w, NEW S, Then(b.run, w, S),
         w = "reload" \/ w \notin Awaited, w \notin ListSteps \cup {"leave"},
         S \cap (Awaited \cup ListSteps \cup SelSteps \cup {"leave"}) = {},
         b.catch = <<>>, Lockless(b),
         IF n \in WithPanel \cup {"docs"} THEN w \in {"select", "close"} \/ w \notin SelSteps
                                          ELSE w \notin SelSteps /\ p.panel = {}
  PROVE  Disciplined(n, p, b)
<1> DEFINE run == b.run
<1>1. Script(run) /\ 1 \in DOMAIN run /\ run[1] = w /\ DOMAIN run \subseteq Nat
  BY DEF Then, Script
<1> HIDE DEF run
<1>2. "reload" \in Async /\ "reload" \notin Writes \cup Fetches \cup SelSteps /\ "debounce" \in Awaited
      /\ Awaited = Async \cup Fetches /\ Writes \subseteq Async
  BY DEF Awaited, Async, Writes, Fetches, SelSteps
<1>3. \A j \in DOMAIN run: j # 1 => j > 1 /\ run[j] \in S
  BY DEF Then, run
<1>4. \A j \in DOMAIN run: /\ run[j] \notin Writes \cup Fetches \cup ListSteps \cup {"leave", "debounce"}
                           /\ run[j] \in Awaited \cup SelSteps => j = 1
  BY <1>1, <1>2, <1>3 DEF Async, Fetches, Writes
<1>5. Lacks(run, Writes) /\ Lacks(run, Fetches) /\ Lacks(run, Writes \ {"addMany", "touch", "post", "remove"})
  BY <1>4 DEF Lacks
<1>6. Ordered(run)
  <2>1. \A j \in DOMAIN run: run[j] = "reload" => ~Later(run, j, Async \ {"fetch"})
    BY <1>1, <1>2, <1>4 DEF Later
  <2>2. run[1] \in Async \/ Lacks(run, Awaited)
    BY <1>1, <1>2, <1>4 DEF Lacks
  <2>. QED
    BY <1>1, <1>4, <2>1, <2>2 DEF Ordered, Has
<1>7. KeepsList(n, p, b)
  BY <1>4 DEF KeepsList, Has, run
<1>8. KeepsPanel(n, p, b)
  <2>1. \A j \in DOMAIN run: run[j] \in SelSteps => Only(run, j, SelSteps)
    BY <1>4 DEF Only
  <2>2. n \notin WithPanel \cup {"docs"} => Lacks(run, SelSteps) /\ p.panel = {}
    BY <1>1, <1>2, <1>4 DEF Lacks
  <2>3. n \in WithPanel => Lacks(run, Fetches \cup (SelSteps \ {"select", "close"}))
    BY <1>1, <1>2, <1>4 DEF Lacks
  <2>4. Has(run, "reload") => Lacks(run, SelSteps)
    BY <1>1, <1>2, <1>3, <1>4 DEF Has, Lacks
  <2>5. \A j \in DOMAIN run: run[j] = "select" => j = 1
    BY <1>4 DEF SelSteps
  <2>6. \A j \in DOMAIN run: run[j] \notin Writes
    BY <1>4
  <2>. QED
    BY <1>5, <2>1, <2>2, <2>3, <2>4, <2>5, <2>6 DEF KeepsPanel, run
<1>9. Recovers(b.catch)
  <2>1. b.catch \in {<<>>, <<"free">>, <<"free", "reload">>}
    OBVIOUS
  <2>. QED
    BY <2>1, CatchRecovers
<1>m. ~Has(run, "addMany")
  BY <1>4 DEF Has, Writes
<1>. QED
  BY <1>5, <1>6, <1>7, <1>8, <1>9, <1>m DEF Disciplined, Lockless, run

\* What a write does to the panel, asked of the steps that follow it.
MendsBy(p, b, w, S, by) ==
  \/ w = "save"   /\ by \in {{"patchIf"}, {"closeIf"}, {"fetchIf"}}
  \/ w = "save"   /\ by = {"flipIf"} /\ b \in p.panel /\ "flipRow" \in S /\ \A m \in b.moves: m[2] = Flip(m[1])
  \/ w = "remove" /\ by = {"closeIf"}
  \/ w = "touch"  /\ by \in {{}, {"fetch"}}
  \/ w = "touch"  /\ by = {"putIf"} /\ S \cap Awaited = {}
  \/ w = "add"    /\ by \in {{}, {"selectNew"}, {"selectNew", "fetch"}}
  \/ w \in {"addMany", "saveAll", "enable", "post"} /\ by = {}

\* One of these ways is a way to mend the panel.
LEMMA MendsThen ==
  ASSUME NEW p, NEW b, NEW w \in Writes, NEW S, Then(b.run, w, S), NEW by,
         by = S \cap (SelSteps \cup Fetches), MendsBy(p, b, w, S, by)
  PROVE  Mends(p, b, w)
<1>1. w \notin SelSteps \cup Fetches
  BY DEF Writes, SelSteps, Fetches
<1>2. {b.run[j]: j \in DOMAIN b.run} \cap (SelSteps \cup Fetches) = by
  BY <1>1, ThenSteps
<1>3. S \cap Awaited = {} => ~Later(b.run, 1, Awaited)
  BY ThenSteps
<1>4. "flipRow" \in S => Has(b.run, "flipRow")
  BY ThenSteps
<1>. QED
  BY <1>2, <1>3, <1>4 DEF Mends, MendsBy

\* The states a button decides from and asks for.
LEMMA MovesKnown ==
  /\ \A states: \A m \in New(states): m[2] \in states
  /\ \A states: \A m \in Stay(states): m[1] \in states /\ m[2] = m[1]
  /\ \A states, t: \A m \in To(states, t): m[1] \in states /\ m[2] = t
  /\ \A states: \A m \in Change(states): m[1] \in states /\ m[2] \in states /\ m[1] # m[2]
<1>1. ASSUME NEW states, NEW m \in New(states) PROVE m[2] \in states
  <2> DEFINE none == ""
  <2>1. PICK s \in states: m = <<none, s>>
    BY DEF New
  <2> HIDE DEF none
  <2>. QED
    BY <2>1
<1>2. ASSUME NEW states, NEW m \in Stay(states) PROVE m[1] \in states /\ m[2] = m[1]
  <2>1. PICK s \in states: m = <<s, s>>
    BY DEF Stay
  <2>. QED
    BY <2>1
<1>3. ASSUME NEW states, NEW t, NEW m \in To(states, t) PROVE m[1] \in states /\ m[2] = t
  <2>1. PICK s \in states: m = <<s, t>>
    BY DEF To
  <2>. QED
    BY <2>1
<1>4. \A states: \A m \in Change(states): m[1] \in states /\ m[2] \in states /\ m[1] # m[2]
  BY DEF Change
<1>. QED
  BY <1>1, <1>2, <1>3, <1>4

\* What the parts of a page ask of the buttons they hold.
InBar(b)      == (Adds(b.run) \/ Rowless(b.run)) /\ Lacks(b.run, {"select", "edit", "save", "settle"})
InEdit(b)     == Lacks(b.run, {"select", "edit", "save", "settle"})
InPanel(n, b) == Lacks(b.run, {"select"}) /\ (n = "missions" => Lacks(b.run, {"save", "settle"}))
InList(p, b)  == \A m \in b.moves: m[1] \in p.states

\* A page is disciplined when each of its parts is, where each button has its place.
LEMMA PartsDisciplined ==
  ASSUME NEW n, NEW p,
         \A b \in p.bar \cup p.form: Disciplined(n, p, b) /\ InBar(b),
         \A b \in p.edit \cup p.props: Disciplined(n, p, b) /\ InEdit(b),
         \A b \in p.panel: Disciplined(n, p, b) /\ InPanel(n, b),
         \A b \in p.list: Disciplined(n, p, b) /\ InList(p, b),
         p.refilter \in {<<"reload">>, <<"debounce", "reload">>},
         p.first \subseteq p.states, \A f \in p.filters: f \subseteq p.states,
         {None, Deleted} \cap p.states = {}
  PROVE  Disciplines(n, p)
BY DEF Disciplines, ButtonsOf, InBar, InEdit, InPanel, InList

\* A page without a panel selects nothing.
Rests(n, p) == n \in WithPanel \cup {"docs"} \/ p.panel = {}

\* Where a handler that starts with a write may be offered.
RowSteps == RowCalls \cup {"fetchIf", "edit"} \cup (SelSteps \ {"close"})
Placed(n, b, w) ==
  /\ w \notin RowCalls => InBar(b)
  /\ w \notin {"save", "settle"} => InEdit(b)
  /\ w \notin {"save", "settle"} \/ n # "missions" => InPanel(n, b)

\* A button that writes, and opens nothing, stands where it may.
LEMMA WriterPlaced ==
  ASSUME NEW n, NEW b, NEW w \in Writes, NEW S, Then(b.run, w, S),
         S \cap ({"select", "edit"} \cup Writes) = {},
         w \notin RowCalls => S \cap RowSteps = {} \/ w \in {"add", "addHere"}
  PROVE  Placed(n, b, w)
<1>1. /\ w \notin {"select", "edit"} /\ {"save", "settle"} \subseteq Writes
      /\ RowSteps \cap (Writes \ RowCalls) = {}
  BY DEF Writes, RowSteps, RowCalls, SelSteps
<1>2. Lacks(b.run, {"select"})
  BY <1>1, ThenSteps
<1>3. w \notin {"save", "settle"} =>
        Lacks(b.run, {"select", "edit", "save", "settle"}) /\ Lacks(b.run, {"save", "settle"})
  <2>1. S \cap {"select", "edit", "save", "settle"} = {} /\ S \cap {"save", "settle"} = {}
    BY <1>1
  <2>. QED
    BY <1>1, <2>1, ThenSteps
<1>4. w \notin RowCalls /\ S \cap RowSteps = {} => Rowless(b.run)
  BY <1>1, ThenSteps DEF Rowless, RowSteps
<1>5. w \in {"add", "addHere"} => Adds(b.run)
  BY DEF Adds, Then
<1>6. w \notin RowCalls => w \notin {"save", "settle"}
  BY DEF RowCalls
<1>. QED
  BY <1>2, <1>3, <1>4, <1>5, <1>6 DEF Placed, InBar, InEdit, InPanel

Writer(p, b, w, S) == Then(b.run, w, S) /\ Released(b, S) /\ Asks(p, b, w)

\* A handler that writes, reloads, and leaves the panel alone.
LEMMA Reloader ==
  ASSUME NEW n, NEW p, NEW b, NEW w \in Writes, NEW S, Writer(p, b, w, S),
         "reload" \in S, S \subseteq {"reload", "shut", "free"},
         Rests(n, p), n \in WithPanel => w \in {"touch", "add", "addMany", "post"}
  PROVE  Disciplined(n, p, b) /\ Placed(n, b, w)
<1>1. /\ S \cap Awaited \subseteq {"reload"}
      /\ S \cap ListSteps = {}
      /\ "leave" \notin S
      /\ S \cap SelSteps = {}
      /\ S \cap Fetches = {}
      /\ "select" \notin S
      /\ S \cap ({"select", "edit"} \cup Writes) = {}
      /\ S \cap RowSteps = {}
  BY DEF ListSteps, SelSteps, Fetches, Awaited, Async, Writes, RowSteps, RowCalls
<1>2. Refreshes(n, p, b, w, S)
  BY <1>1 DEF Refreshes
<1>3. n \in WithPanel => Mends(p, b, w)
  <2>1. S \cap (SelSteps \cup Fetches) = {} /\ (n \in WithPanel => MendsBy(p, b, w, S, {}))
    BY <1>1 DEF MendsBy
  <2>. QED
    BY <2>1, MendsThen DEF Writer
<1>4. Repanels(n, p, b, w, S)
  BY <1>1, <1>3 DEF Repanels, Rests
<1>. QED
  BY <1>1, <1>2, <1>4, WriterDisciplined, WriterPlaced DEF Writer

\* A handler that writes, reloads, and has the panel show the write.
LEMMA Mender ==
  ASSUME NEW n \in WithPanel \cup {"docs"}, NEW p, NEW b, NEW w \in {"save", "remove"}, NEW S,
         Writer(p, b, w, S), NEW t \in {"patchIf", "closeIf"}, w = "save" \/ t = "closeIf",
         {"reload", t} \subseteq S, S \subseteq {"reload", "free", t}
  PROVE  Disciplined(n, p, b) /\ Placed(n, b, w)
<1>1. /\ S \cap Awaited \subseteq {"reload"}
      /\ S \cap ListSteps = {}
      /\ "leave" \notin S
      /\ S \cap SelSteps = {t}
      /\ S \cap (SelSteps \cup Fetches) = {t}
      /\ "select" \notin S
      /\ S \cap ({"select", "edit"} \cup Writes) = {}
      /\ w \in Writes /\ w \in RowCalls
  BY DEF ListSteps, SelSteps, Fetches, Awaited, Async, Writes, RowCalls
<1>2. Refreshes(n, p, b, w, S)
  BY <1>1 DEF Refreshes
<1>3. MendsBy(p, b, w, S, {t})
  BY DEF MendsBy
<1>4. Repanels(n, p, b, w, S)
  BY <1>1, <1>3, MendsThen DEF Repanels, Writer
<1>. QED
  BY <1>1, <1>2, <1>4, WriterDisciplined, WriterPlaced DEF Writer

\* A handler that writes and patches the list by hand, on a page without a panel.
LEMMA Patcher ==
  ASSUME NEW n, n \notin WithPanel \cup {"docs"}, NEW p, p.panel = {}, NEW b, NEW w \in Writes,
         NEW S, Writer(p, b, w, S), NEW s \in ListSteps, s \in S, S \subseteq {"shut", "free", "leave", s},
         "leave" \in S \/ Patches(n, p, b.moves, w, s)
  PROVE  Disciplined(n, p, b) /\ Placed(n, b, w)
<1>1. /\ S \cap Awaited = {} /\ S \cap ListSteps = {s} /\ "reload" \notin S /\ S \cap SelSteps = {}
      /\ "select" \notin S /\ S \cap ({"select", "edit"} \cup Writes) = {} /\ S \cap RowSteps = {}
  BY DEF ListSteps, SelSteps, Fetches, Awaited, Async, Writes, RowSteps, RowCalls
<1>2. Refreshes(n, p, b, w, S)
  BY <1>1 DEF Refreshes
<1>3. Repanels(n, p, b, w, S)
  BY <1>1 DEF Repanels
<1>. QED
  BY <1>1, <1>2, <1>3, WriterDisciplined, WriterPlaced DEF Writer

\* A handler that has nothing to show in the list, or leaves the page.
LEMMA Leaver ==
  ASSUME NEW n, NEW p, NEW b, NEW w \in {"enable", "touch", "post", "swap", "add"}, NEW S, Writer(p, b, w, S),
         S \subseteq {"shut", "free", "leave"}, w # "add" \/ "leave" \in S, Rests(n, p),
         n \in WithPanel => w # "swap"
  PROVE  Disciplined(n, p, b) /\ Placed(n, b, w)
<1>1. /\ S \cap Awaited = {}
      /\ S \cap ListSteps = {}
      /\ "reload" \notin S
      /\ S \cap SelSteps = {}
      /\ w \in Writes
      /\ S \cap Fetches = {}
      /\ "select" \notin S
      /\ S \cap ({"select", "edit"} \cup Writes) = {}
      /\ S \cap RowSteps = {}
  BY DEF ListSteps, SelSteps, Fetches, Awaited, Async, Writes, RowSteps, RowCalls
<1>2. Refreshes(n, p, b, w, S)
  BY <1>1 DEF Refreshes
<1>3. w # "swap" => Mends(p, b, w)
  BY <1>1, MendsThen DEF MendsBy, Writer
<1>4. Repanels(n, p, b, w, S)
  BY <1>1, <1>3 DEF Repanels, Rests
<1>. QED
  BY <1>1, <1>2, <1>4, WriterDisciplined, WriterPlaced DEF Writer

\* Opening and shutting a dialog, and loading once more.
LEMMA DialogsDisciplined ==
  ASSUME NEW n, NEW p, Rests(n, p)
  PROVE  /\ Disciplined(n, p, Opens) /\ InBar(Opens)
         /\ Disciplined(n, p, Shuts) /\ InBar(Shuts)
         /\ \A states: Disciplined(n, p, Edits(states)) /\ InPanel(n, Edits(states))
         /\ \A states: Disciplined(n, p, ShutsEdit(states)) /\ InEdit(ShutsEdit(states))
         /\ \A b: b.run = <<"reload">> /\ b.catch = <<>> /\ Lockless(b) => Disciplined(n, p, b) /\ InBar(b)
<1>1. ASSUME NEW b, NEW w \in {"form", "shut", "edit", "reload"}, Then(b.run, w, {}),
             b.catch = <<>>, Lockless(b)
      PROVE  /\ Disciplined(n, p, b) /\ InPanel(n, b)
             /\ w # "edit" => InEdit(b) /\ InBar(b)
  <2>1. \/ w = "edit"
        \/ w \notin SelSteps \cup ListSteps \cup RowSteps \cup {"leave"} \cup (Awaited \ {"reload"})
    BY DEF SelSteps, ListSteps, RowSteps, RowCalls, Awaited, Async, Fetches
  <2>2. w \notin SelSteps \cup ListSteps \cup {"leave"} \cup (Awaited \ {"reload"})
    BY DEF SelSteps, ListSteps, Awaited, Async, Fetches
  <2>3. Disciplined(n, p, b)
    BY <1>1, <2>2, StillDisciplined DEF Rests
  <2>4. InPanel(n, b) /\ (w # "edit" => Lacks(b.run, {"select", "edit", "save", "settle"}))
    BY <1>1, ThenSteps DEF InPanel
  <2>5. w # "edit" => Rowless(b.run)
    BY <1>1, <2>1, ThenSteps DEF Rowless, RowSteps
  <2>. QED
    BY <2>3, <2>4, <2>5 DEF InEdit, InBar
<1>2. Then(Opens.run, "form", {}) /\ Then(Shuts.run, "shut", {}) /\ Then(<<"reload">>, "reload", {})
  BY DEF Then, Script, Opens, Shuts, Button
<1>3. Opens.catch = <<>> /\ Shuts.catch = <<>> /\ Lockless(Opens) /\ Lockless(Shuts)
  BY DEF Lockless, Opens, Shuts, Button, NoLock, Lock
<1>4. \A states: Then(Edits(states).run, "edit", {}) /\ Then(ShutsEdit(states).run, "shut", {})
  BY DEF Then, Script, Edits, ShutsEdit, Button
<1>5. \A states: /\ Edits(states).catch = <<>> /\ ShutsEdit(states).catch = <<>>
                 /\ Lockless(Edits(states)) /\ Lockless(ShutsEdit(states))
  BY DEF Lockless, Edits, ShutsEdit, Button, NoLock, Lock
<1>. QED
  BY <1>1, <1>2, <1>3, <1>4, <1>5

\* Selecting a row and closing the panel.
LEMMA PanelsDisciplined ==
  ASSUME NEW n \in WithPanel \cup {"docs"}, NEW p
  PROVE  \A states: /\ Disciplined(n, p, Selects(states))
                    /\ Disciplined(n, p, Closes(states)) /\ InPanel(n, Closes(states))
<1> TAKE states
<1>1. Then(Selects(states).run, "select", {}) /\ Then(Closes(states).run, "close", {})
  BY DEF Then, Script, Selects, Closes, Button
<1>2. /\ Selects(states).catch = <<>> /\ Closes(states).catch = <<>>
      /\ Lockless(Selects(states)) /\ Lockless(Closes(states))
  BY DEF Lockless, Selects, Closes, Button, NoLock, Lock
<1>3. {"select", "close"} \cap (ListSteps \cup Awaited \cup {"leave"}) = {}
  BY DEF ListSteps, Awaited, Async, Fetches
<1>4. InPanel(n, Closes(states))
  BY <1>1, ThenSteps DEF InPanel
<1>. QED
  BY <1>1, <1>2, <1>3, <1>4, StillDisciplined

\* The filters a page offers.
LEMMA FiltersKnown ==
  ASSUME NEW states
  PROVE  /\ \A f \in AllOrOne(states) \cup OneOf(states): f \subseteq states
         /\ \A s \in states: \A f \in AllOr(states, s): f \subseteq states
BY DEF AllOrOne, OneOf, AllOr

\* A row is selected or edited in the state it is shown in.
LEMMA MovesListed ==
  ASSUME NEW p
  PROVE  InList(p, Selects(p.states)) /\ InList(p, Edits(p.states))
BY MovesKnown DEF InList, Selects, Edits, Button

------------------------------------------------------------------------------
(* The pages, each with the buttons of its parts.                          *)

\* Change requests.
LEMMA ChangesDisciplined == None \notin ChangesPage.states => Disciplines("changes", ChangesPage)
<1> DEFINE p == ChangesPage
<1>1. /\ p.states = ChangeStates
      /\ p.first = ChangeStates
      /\ p.filters = AllOr(ChangeStates, "REVIEW")
      /\ p.refilter = <<"reload">>
      /\ p.props = {}
      /\ p.bar = ChangesBar /\ p.form = ChangesForm /\ p.edit = {}
      /\ p.list = ChangesList /\ p.panel = ChangesPanel
  BY DEF ChangesPage, Page
<1> HIDE DEF p
<1>2. Rests("changes", p)
  BY <1>1 DEF Rests, WithPanel
<1>3. Disciplined("changes", p, ChangesCreate) /\ Placed("changes", ChangesCreate, "add")
  <2> DEFINE S == {"shut", "reload", "free"}
  <2>1. Then(ChangesCreate.run, "add", S)
    BY DEF Then, Script, ChangesCreate, Button
  <2>2. Released(ChangesCreate, S)
    BY DEF Released, ChangesCreate, Button
  <2>3. Asks(p, ChangesCreate, "add")
    BY <1>1, MovesKnown DEF Asks, ChangesCreate, Button, ChangeStates
  <2>. QED
    BY <1>2, <2>1, <2>2, <2>3, Reloader DEF Writer, WithPanel, Writes
<1>4. Disciplined("changes", p, ChangesAdvance) /\ Placed("changes", ChangesAdvance, "save")
  <2> DEFINE S == {"reload", "patchIf"}
  <2>1. Then(ChangesAdvance.run, "save", S)
    BY DEF Then, Script, ChangesAdvance, Button
  <2>2. Released(ChangesAdvance, S)
    BY DEF Released, Lockless, NoLock, Lock, ChangesAdvance, Button
  <2>3. Asks(p, ChangesAdvance, "save")
    BY <1>1 DEF Asks, ChangesAdvance, Button, ChangeNext, ChangeStates
  <2>. QED
    BY <2>1, <2>2, <2>3, Mender DEF Writer, WithPanel
<1>5. Disciplined("changes", p, ChangesReject) /\ Placed("changes", ChangesReject, "save")
  <2> DEFINE S == {"reload", "closeIf"}
  <2>1. Then(ChangesReject.run, "save", S)
    BY DEF Then, Script, ChangesReject, Button
  <2>2. Released(ChangesReject, S)
    BY DEF Released, Lockless, NoLock, Lock, ChangesReject, Button
  <2>3. Asks(p, ChangesReject, "save")
    BY <1>1, MovesKnown DEF Asks, ChangesReject, Button, ChangeStates
  <2>. QED
    BY <2>1, <2>2, <2>3, Mender DEF Writer, WithPanel
<1>6. \A b \in p.bar \cup p.form: Disciplined("changes", p, b) /\ InBar(b)
  BY <1>1, <1>3, <1>2, DialogsDisciplined DEF ChangesBar, ChangesForm, Placed, RowCalls
<1>7. \A b \in p.edit \cup p.props: Disciplined("changes", p, b) /\ InEdit(b)
  BY <1>1
<1>8. \A b \in p.panel: Disciplined("changes", p, b) /\ InPanel("changes", b)
  BY <1>1, <1>4, <1>5, PanelsDisciplined DEF ChangesPanel, Placed, WithPanel
<1>9. \A b \in p.list: Disciplined("changes", p, b) /\ InList(p, b)
  BY <1>1, PanelsDisciplined, MovesListed DEF ChangesList, WithPanel
<1>10. p.first \subseteq p.states /\ (\A f \in p.filters: f \subseteq p.states) /\ Deleted \notin p.states
  BY <1>1, FiltersKnown DEF ChangeStates, Deleted
<1>11. p.refilter \in {<<"reload">>, <<"debounce", "reload">>}
  BY <1>1
<1>. QED
  BY <1>6, <1>7, <1>8, <1>9, <1>10, <1>11, PartsDisciplined DEF p

\* Service requests.
LEMMA RequestsDisciplined == None \notin RequestsPage.states => Disciplines("requests", RequestsPage)
<1> DEFINE p == RequestsPage
<1>1. /\ p.states = RequestStates
      /\ p.first = RequestStates
      /\ p.filters = AllOr(RequestStates, "IN_PROGRESS")
      /\ p.refilter = <<"reload">>
      /\ p.props = {}
      /\ p.bar = RequestsBar /\ p.form = RequestsForm /\ p.edit = {}
      /\ p.list = RequestsList /\ p.panel = RequestsPanel \cup RequestsDialogs
  BY DEF RequestsPage, Page
<1> HIDE DEF p
<1>2. Rests("requests", p)
  BY <1>1 DEF Rests, WithPanel
<1>3. Disciplined("requests", p, RequestsCreate) /\ Placed("requests", RequestsCreate, "add")
  <2> DEFINE S == {"shut", "reload", "free"}
  <2>1. Then(RequestsCreate.run, "add", S)
    BY DEF Then, Script, RequestsCreate, Button
  <2>2. Released(RequestsCreate, S)
    BY DEF Released, RequestsCreate, Button
  <2>3. Asks(p, RequestsCreate, "add")
    BY <1>1, MovesKnown DEF Asks, RequestsCreate, Button, RequestStates
  <2>. QED
    BY <1>2, <2>1, <2>2, <2>3, Reloader DEF Writer, WithPanel, Writes
<1>4. Disciplined("requests", p, RequestsAdvance) /\ Placed("requests", RequestsAdvance, "save")
  <2> DEFINE S == {"reload", "patchIf"}
  <2>1. Then(RequestsAdvance.run, "save", S)
    BY DEF Then, Script, RequestsAdvance, Button
  <2>2. Released(RequestsAdvance, S)
    BY DEF Released, Lockless, NoLock, Lock, RequestsAdvance, Button
  <2>3. Asks(p, RequestsAdvance, "save")
    BY <1>1 DEF Asks, RequestsAdvance, Button, RequestNext, RequestStates
  <2>. QED
    BY <2>1, <2>2, <2>3, Mender DEF Writer, WithPanel
<1>5. Disciplined("requests", p, RequestsCancel) /\ Placed("requests", RequestsCancel, "save")
  <2> DEFINE S == {"reload", "closeIf"}
  <2>1. Then(RequestsCancel.run, "save", S)
    BY DEF Then, Script, RequestsCancel, Button
  <2>2. Released(RequestsCancel, S)
    BY DEF Released, Lockless, NoLock, Lock, RequestsCancel, Button
  <2>3. Asks(p, RequestsCancel, "save")
    BY <1>1, MovesKnown DEF Asks, RequestsCancel, Button, RequestStates
  <2>. QED
    BY <2>1, <2>2, <2>3, Mender DEF Writer, WithPanel
<1>6. /\ Disciplined("requests", p, RequestsDelete)
      /\ Placed("requests", RequestsDelete, "remove")
      /\ InList(p, RequestsDelete)
  <2> DEFINE S == {"closeIf", "reload", "free"}
  <2>1. Then(RequestsDelete.run, "remove", S)
    BY DEF Then, Script, RequestsDelete, Button
  <2>2. Released(RequestsDelete, S)
    BY DEF Released, RequestsDelete, Button
  <2>3. Asks(p, RequestsDelete, "remove")
    BY DEF Asks
  <2>4. InList(p, RequestsDelete)
    BY <1>1, MovesKnown DEF InList, RequestsDelete, Button
  <2>. QED
    BY <2>1, <2>2, <2>3, <2>4, Mender DEF Writer, WithPanel
<1>7. Disciplined("requests", p, RequestsResolve) /\ Placed("requests", RequestsResolve, "save")
  <2> DEFINE S == {"reload", "closeIf"}
  <2>1. Then(RequestsResolve.run, "save", S)
    BY DEF Then, Script, RequestsResolve, Button
  <2>2. Released(RequestsResolve, S)
    BY DEF Released, Lockless, NoLock, Lock, RequestsResolve, Button
  <2>3. Asks(p, RequestsResolve, "save")
    BY <1>1 DEF Asks, RequestsResolve, Button, RequestStates
  <2>. QED
    BY <2>1, <2>2, <2>3, Mender DEF Writer, WithPanel
<1>8. \A b \in p.bar \cup p.form: Disciplined("requests", p, b) /\ InBar(b)
  BY <1>1, <1>3, <1>2, DialogsDisciplined DEF RequestsBar, RequestsForm, Placed, RowCalls
<1>9. \A b \in p.edit \cup p.props: Disciplined("requests", p, b) /\ InEdit(b)
  BY <1>1
<1>10. \A b \in p.panel: Disciplined("requests", p, b) /\ InPanel("requests", b)
  BY <1>1, <1>4, <1>5, <1>6, <1>7, PanelsDisciplined
    DEF RequestsPanel, RequestsDialogs, Placed, WithPanel
<1>11. \A b \in p.list: Disciplined("requests", p, b) /\ InList(p, b)
  BY <1>1, <1>6, PanelsDisciplined, MovesListed DEF RequestsList, WithPanel
<1>12. p.first \subseteq p.states /\ (\A f \in p.filters: f \subseteq p.states) /\ Deleted \notin p.states
  BY <1>1, FiltersKnown DEF RequestStates, Deleted
<1>13. p.refilter \in {<<"reload">>, <<"debounce", "reload">>}
  BY <1>1
<1>. QED
  BY <1>8, <1>9, <1>10, <1>11, <1>12, <1>13, PartsDisciplined DEF p

\* Incidents.
LEMMA IncidentsDisciplined == None \notin IncidentsPage.states => Disciplines("incidents", IncidentsPage)
<1> DEFINE p == IncidentsPage
<1>1. /\ p.states = IncidentStates
      /\ p.first = IncidentStates
      /\ p.filters = {}
      /\ p.refilter = <<"reload">>
      /\ p.props = {}
      /\ p.bar = IncidentsBar /\ p.form = IncidentsForm /\ p.edit = {}
      /\ p.list = IncidentsList /\ p.panel = {}
  BY DEF IncidentsPage, Page
<1> HIDE DEF p
<1>2. Rests("incidents", p)
  BY <1>1 DEF Rests, WithPanel
<1>3. Disciplined("incidents", p, IncidentsCreate) /\ Placed("incidents", IncidentsCreate, "add")
  <2> DEFINE S == {"reload", "shut", "free"}
  <2>1. Then(IncidentsCreate.run, "add", S)
    BY DEF Then, Script, IncidentsCreate, Button
  <2>2. Released(IncidentsCreate, S)
    BY DEF Released, IncidentsCreate, Button
  <2>3. Asks(p, IncidentsCreate, "add")
    BY <1>1, MovesKnown DEF Asks, IncidentsCreate, Button, IncidentStates
  <2>. QED
    BY <1>2, <2>1, <2>2, <2>3, Reloader DEF Writer, WithPanel, Writes
<1>4. /\ Disciplined("incidents", p, IncidentsAdvance)
      /\ Placed("incidents", IncidentsAdvance, "save")
      /\ InList(p, IncidentsAdvance)
  <2> DEFINE S == {"reload"}
  <2>1. Then(IncidentsAdvance.run, "save", S)
    BY DEF Then, Script, IncidentsAdvance, Button
  <2>2. Released(IncidentsAdvance, S)
    BY DEF Released, Lockless, NoLock, Lock, IncidentsAdvance, Button
  <2>3. Asks(p, IncidentsAdvance, "save")
    BY <1>1 DEF Asks, IncidentsAdvance, Button, IncidentNext, IncidentStates
  <2>4. InList(p, IncidentsAdvance)
    BY <1>1 DEF InList, IncidentsAdvance, Button, IncidentNext, IncidentStates
  <2>. QED
    BY <1>2, <2>1, <2>2, <2>3, <2>4, Reloader DEF Writer, WithPanel, Writes
<1>5. \A b \in p.bar \cup p.form: Disciplined("incidents", p, b) /\ InBar(b)
  BY <1>1, <1>3, <1>2, DialogsDisciplined DEF IncidentsBar, IncidentsForm, Placed, RowCalls
<1>6. \A b \in p.edit \cup p.props: Disciplined("incidents", p, b) /\ InEdit(b)
  BY <1>1
<1>7. \A b \in p.panel: Disciplined("incidents", p, b) /\ InPanel("incidents", b)
  BY <1>1
<1>8. \A b \in p.list: Disciplined("incidents", p, b) /\ InList(p, b)
  BY <1>1, <1>4 DEF IncidentsList
<1>9. p.first \subseteq p.states /\ (\A f \in p.filters: f \subseteq p.states) /\ Deleted \notin p.states
  BY <1>1 DEF IncidentStates, Deleted
<1>10. p.refilter \in {<<"reload">>, <<"debounce", "reload">>}
  BY <1>1
<1>. QED
  BY <1>5, <1>6, <1>7, <1>8, <1>9, <1>10, PartsDisciplined DEF p

\* Documents.
LEMMA DocsDisciplined == None \notin DocsPage.states => Disciplines("docs", DocsPage)
<1> DEFINE p == DocsPage
<1>1. /\ p.states = DocStates /\ p.first = DocStates /\ p.filters = {} /\ p.refilter = <<"reload">>
      /\ p.props = {}
      /\ p.bar = DocsBar /\ p.form = DocsForm /\ p.edit = DocsEditor
      /\ p.list = DocsList /\ p.panel = DocsPanel
  BY DEF DocsPage, Page
<1> HIDE DEF p
<1>2. Rests("docs", p)
  BY <1>1 DEF Rests, WithPanel
<1>3. Disciplined("docs", p, DocsOpenNew) /\ InBar(DocsOpenNew)
  <2>1. Then(DocsOpenNew.run, "close", {"form"}) /\ DocsOpenNew.catch = <<>>
    BY DEF Then, Script, DocsOpenNew, Button
  <2>2. Lockless(DocsOpenNew)
    BY DEF Lockless, DocsOpenNew, Button, NoLock, Lock
  <2>3. /\ {"close", "form"} \cap (Awaited \cup ListSteps \cup {"leave"}) = {}
        /\ {"form"} \cap SelSteps = {}
    BY DEF Awaited, Async, Fetches, ListSteps, SelSteps
  <2>4. Disciplined("docs", p, DocsOpenNew)
    BY <2>1, <2>2, <2>3, StillDisciplined DEF WithPanel
  <2>5. InBar(DocsOpenNew)
    BY <2>1, ThenSteps DEF InBar, Rowless, RowCalls, SelSteps
  <2>. QED
    BY <2>4, <2>5
<1>4. Disciplined("docs", p, DocsCreate) /\ Placed("docs", DocsCreate, "add")
  <2> DEFINE S == {"shut", "reload", "free"}
  <2>1. Then(DocsCreate.run, "add", S)
    BY DEF Then, Script, DocsCreate, Button
  <2>2. Released(DocsCreate, S)
    BY DEF Released, DocsCreate, Button
  <2>3. Asks(p, DocsCreate, "add")
    BY <1>1, MovesKnown DEF Asks, DocsCreate, Button, DocStates
  <2>. QED
    BY <1>2, <2>1, <2>2, <2>3, Reloader DEF Writer, WithPanel, Writes
<1>5. Disciplined("docs", p, DocsUpdate) /\ Placed("docs", DocsUpdate, "touch")
  <2> DEFINE S == {"shut", "reload", "free"}
  <2>1. Then(DocsUpdate.run, "touch", S)
    BY DEF Then, Script, DocsUpdate, Button
  <2>2. Released(DocsUpdate, S)
    BY DEF Released, DocsUpdate, Button
  <2>3. Asks(p, DocsUpdate, "touch")
    BY DEF Asks
  <2>. QED
    BY <1>2, <2>1, <2>2, <2>3, Reloader DEF Writer, WithPanel, Writes
<1>6. Disciplined("docs", p, DocsPin) /\ Placed("docs", DocsPin, "save") /\ InList(p, DocsPin)
  <2> DEFINE S == {"reload"}
  <2>1. Then(DocsPin.run, "save", S)
    BY DEF Then, Script, DocsPin, Button
  <2>2. Released(DocsPin, S)
    BY DEF Released, Lockless, NoLock, Lock, DocsPin, Button
  <2>3. Asks(p, DocsPin, "save")
    BY <1>1, MovesKnown DEF Asks, DocsPin, Button
  <2>4. InList(p, DocsPin)
    BY <1>1, MovesKnown DEF InList, DocsPin, Button
  <2>. QED
    BY <1>2, <2>1, <2>2, <2>3, <2>4, Reloader DEF Writer, WithPanel, Writes
<1>7. /\ Disciplined("docs", p, DocsOpenEdit)
      /\ InPanel("docs", DocsOpenEdit)
      /\ InList(p, DocsOpenEdit)
  <2>1. Then(DocsOpenEdit.run, "close", {"edit"}) /\ DocsOpenEdit.catch = <<>>
    BY DEF Then, Script, DocsOpenEdit, Button
  <2>2. Lockless(DocsOpenEdit)
    BY DEF Lockless, DocsOpenEdit, Button, NoLock, Lock
  <2>3. /\ {"close", "edit"} \cap (Awaited \cup ListSteps \cup {"leave"}) = {}
        /\ {"edit"} \cap SelSteps = {}
    BY DEF Awaited, Async, Fetches, ListSteps, SelSteps
  <2>4. Disciplined("docs", p, DocsOpenEdit)
    BY <2>1, <2>2, <2>3, StillDisciplined DEF WithPanel
  <2>5. InPanel("docs", DocsOpenEdit)
    BY <2>1, ThenSteps DEF InPanel
  <2>6. InList(p, DocsOpenEdit)
    BY <1>1, MovesKnown DEF InList, DocsOpenEdit, Button
  <2>. QED
    BY <2>4, <2>5, <2>6
<1>8. /\ Disciplined("docs", p, DocsDelete)
      /\ Placed("docs", DocsDelete, "remove")
      /\ InList(p, DocsDelete)
  <2> DEFINE S == {"closeIf", "reload"}
  <2>1. Then(DocsDelete.run, "remove", S)
    BY DEF Then, Script, DocsDelete, Button
  <2>2. Released(DocsDelete, S)
    BY DEF Released, Lockless, NoLock, Lock, DocsDelete, Button
  <2>3. Asks(p, DocsDelete, "remove")
    BY DEF Asks
  <2>4. InList(p, DocsDelete)
    BY <1>1, MovesKnown DEF InList, DocsDelete, Button
  <2>. QED
    BY <2>1, <2>2, <2>3, <2>4, Mender DEF Writer, WithPanel
<1>9. \A b \in p.bar \cup p.form: Disciplined("docs", p, b) /\ InBar(b)
  BY <1>1, <1>3, <1>4, <1>2, DialogsDisciplined DEF DocsBar, DocsForm, Placed, RowCalls
<1>10. \A b \in p.edit \cup p.props: Disciplined("docs", p, b) /\ InEdit(b)
  BY <1>1, <1>5, <1>2, DialogsDisciplined DEF DocsEditor, Placed
<1>11. \A b \in p.panel: Disciplined("docs", p, b) /\ InPanel("docs", b)
  BY <1>1, <1>6, <1>7, <1>8, PanelsDisciplined DEF DocsPanel, Placed, WithPanel
<1>12. \A b \in p.list: Disciplined("docs", p, b) /\ InList(p, b)
  BY <1>1, <1>6, <1>7, <1>8, PanelsDisciplined, MovesListed DEF DocsList, WithPanel
<1>13. p.first \subseteq p.states /\ (\A f \in p.filters: f \subseteq p.states) /\ Deleted \notin p.states
  BY <1>1 DEF DocStates, Deleted
<1>14. p.refilter \in {<<"reload">>, <<"debounce", "reload">>}
  BY <1>1
<1>. QED
  BY <1>9, <1>10, <1>11, <1>12, <1>13, <1>14, PartsDisciplined DEF p

\* Shared secrets.
LEMMA SecretsDisciplined == None \notin SecretsPage.states => Disciplines("secrets", SecretsPage)
<1> DEFINE p == SecretsPage
<1>1. /\ p.states = SecretStates
      /\ p.first = SecretStates
      /\ p.filters = {}
      /\ p.refilter = <<"reload">>
      /\ p.props = {}
      /\ p.bar = SecretsBar /\ p.form = {} /\ p.edit = {}
      /\ p.list = SecretsList /\ p.panel = {}
  BY DEF SecretsPage, Page
<1> HIDE DEF p
<1>2. Disciplined("secrets", p, SecretsCreate) /\ Placed("secrets", SecretsCreate, "add")
  <2> DEFINE S == {"free", "reload"}
  <2>1. Then(SecretsCreate.run, "add", S)
    BY DEF Then, Script, SecretsCreate, Button
  <2>2. Released(SecretsCreate, S)
    BY DEF Released, SecretsCreate, Button
  <2>3. Asks(p, SecretsCreate, "add")
    BY <1>1, MovesKnown DEF Asks, SecretsCreate, Button, SecretStates
  <2>. QED
    BY <1>1, <2>1, <2>2, <2>3, Reloader DEF Writer, Rests, WithPanel, Writes
<1>3. /\ Disciplined("secrets", p, SecretsRevoke)
      /\ Placed("secrets", SecretsRevoke, "save")
      /\ InList(p, SecretsRevoke)
  <2> DEFINE S == {"reload"}
  <2>1. Then(SecretsRevoke.run, "save", S)
    BY DEF Then, Script, SecretsRevoke, Button
  <2>2. Released(SecretsRevoke, S)
    BY DEF Released, Lockless, NoLock, Lock, SecretsRevoke, Button
  <2>3. Asks(p, SecretsRevoke, "save")
    BY <1>1, MovesKnown DEF Asks, SecretsRevoke, Button, SecretStates
  <2>4. InList(p, SecretsRevoke)
    BY <1>1, MovesKnown DEF InList, SecretsRevoke, Button, SecretStates
  <2>. QED
    BY <1>1, <2>1, <2>2, <2>3, <2>4, Reloader DEF Writer, Rests, WithPanel, Writes
<1>4. \A b \in p.bar \cup p.form: Disciplined("secrets", p, b) /\ InBar(b)
  BY <1>1, <1>2 DEF SecretsBar, Placed, RowCalls
<1>5. \A b \in p.edit \cup p.props: Disciplined("secrets", p, b) /\ InEdit(b)
  BY <1>1
<1>6. \A b \in p.panel: Disciplined("secrets", p, b) /\ InPanel("secrets", b)
  BY <1>1
<1>7. \A b \in p.list: Disciplined("secrets", p, b) /\ InList(p, b)
  BY <1>1, <1>3 DEF SecretsList
<1>8. p.first \subseteq p.states /\ (\A f \in p.filters: f \subseteq p.states) /\ Deleted \notin p.states
  BY <1>1 DEF SecretStates, Deleted
<1>9. p.refilter \in {<<"reload">>, <<"debounce", "reload">>}
  BY <1>1
<1>. QED
  BY <1>4, <1>5, <1>6, <1>7, <1>8, <1>9, PartsDisciplined DEF p

\* The roster.
LEMMA RosterDisciplined == None \notin RosterPage.states => Disciplines("roster", RosterPage)
<1> DEFINE p == RosterPage
<1>1. /\ p.states = Weeks
      /\ p.first \in OneOf(Weeks)
      /\ p.filters = OneOf(Weeks)
      /\ p.refilter = <<"reload">>
      /\ p.props = {}
      /\ p.bar = {Opens} /\ p.form = {RosterSave, Shuts} /\ p.edit = RosterModal
      /\ p.list = RosterGrid /\ p.panel = {}
  BY DEF RosterPage, Page, OneOf, Weeks
<1> HIDE DEF p
<1>2. Rests("roster", p)
  BY <1>1 DEF Rests, WithPanel
<1>3. Disciplined("roster", p, RosterSave) /\ Placed("roster", RosterSave, "addHere")
  <2> DEFINE S == {"shut", "reload", "free"}
  <2>1. Then(RosterSave.run, "addHere", S)
    BY DEF Then, Script, RosterSave, Button
  <2>2. Released(RosterSave, S)
    BY DEF Released, RosterSave, Button
  <2>3. Asks(p, RosterSave, "addHere")
    BY <1>1, MovesKnown DEF Asks, RosterSave, Button, Weeks
  <2>. QED
    BY <1>2, <2>1, <2>2, <2>3, Reloader DEF Writer, WithPanel, Writes
<1>4. Disciplined("roster", p, RosterUpdate) /\ Placed("roster", RosterUpdate, "put")
  <2> DEFINE S == {"shut", "reload", "free"}
  <2>1. Then(RosterUpdate.run, "put", S)
    BY DEF Then, Script, RosterUpdate, Button
  <2>2. Released(RosterUpdate, S)
    BY DEF Released, RosterUpdate, Button
  <2>3. Asks(p, RosterUpdate, "put")
    BY <1>1, MovesKnown DEF Asks, RosterUpdate, Button
  <2>. QED
    BY <1>2, <2>1, <2>2, <2>3, Reloader DEF Writer, WithPanel, Writes
<1>5. Disciplined("roster", p, RosterClear) /\ Placed("roster", RosterClear, "remove")
  <2> DEFINE S == {"shut", "reload", "free"}
  <2>1. Then(RosterClear.run, "remove", S)
    BY DEF Then, Script, RosterClear, Button
  <2>2. Released(RosterClear, S)
    BY DEF Released, RosterClear, Button
  <2>3. Asks(p, RosterClear, "remove")
    BY DEF Asks
  <2>. QED
    BY <1>2, <2>1, <2>2, <2>3, Reloader DEF Writer, WithPanel, Writes
<1>6. \A b \in p.bar \cup p.form: Disciplined("roster", p, b) /\ InBar(b)
  BY <1>1, <1>3, <1>2, DialogsDisciplined DEF Placed, RowCalls
<1>7. \A b \in p.edit \cup p.props: Disciplined("roster", p, b) /\ InEdit(b)
  BY <1>1, <1>4, <1>5, <1>2, DialogsDisciplined DEF RosterModal, Placed
<1>8. \A b \in p.panel: Disciplined("roster", p, b) /\ InPanel("roster", b)
  BY <1>1
<1>9. \A b \in p.list: Disciplined("roster", p, b) /\ InList(p, b)
  BY <1>1, <1>2, DialogsDisciplined, MovesListed DEF RosterGrid
<1>10. p.first \subseteq p.states /\ (\A f \in p.filters: f \subseteq p.states) /\ Deleted \notin p.states
  <2>1. Deleted \notin Weeks
    BY DEF Weeks, Deleted
  <2>. QED
    BY <1>1, <2>1, FiltersKnown
<1>11. p.refilter \in {<<"reload">>, <<"debounce", "reload">>}
  BY <1>1
<1>. QED
  BY <1>6, <1>7, <1>8, <1>9, <1>10, <1>11, PartsDisciplined DEF p

\* Channels.
LEMMA CollabDisciplined == None \notin CollabPage.states => Disciplines("collab", CollabPage)
<1> DEFINE p == CollabPage
<1>1. /\ p.states = Channels
      /\ p.first = {"general"}
      /\ p.filters = OneOf(Channels)
      /\ p.refilter = <<"reload">>
      /\ p.props = {}
      /\ p.bar = CollabInput /\ p.form = {} /\ p.edit = {}
      /\ p.list = CollabMessages /\ p.panel = {}
  BY DEF CollabPage, Page
<1> HIDE DEF p
<1>2. Disciplined("collab", p, CollabSend) /\ Placed("collab", CollabSend, "addHere")
  <2> DEFINE S == {"reload", "free"}
  <2>1. Then(CollabSend.run, "addHere", S)
    BY DEF Then, Script, CollabSend, Button
  <2>2. Released(CollabSend, S)
    BY DEF Released, CollabSend, Button
  <2>3. Asks(p, CollabSend, "addHere")
    BY <1>1, MovesKnown DEF Asks, CollabSend, Button, Channels
  <2>. QED
    BY <1>1, <2>1, <2>2, <2>3, Reloader DEF Writer, Rests, WithPanel, Writes
<1>3. Disciplined("collab", p, CollabPoll) /\ InBar(CollabPoll)
  <2>1. CollabPoll.run = <<"reload">> /\ CollabPoll.catch = <<>>
    BY DEF CollabPoll, Button
  <2>2. Lockless(CollabPoll)
    BY DEF Lockless, CollabPoll, Button, NoLock, Lock
  <2>. QED
    BY <1>1, <2>1, <2>2, DialogsDisciplined DEF Rests
<1>4. /\ Disciplined("collab", p, CollabDelete)
      /\ Placed("collab", CollabDelete, "remove")
      /\ InList(p, CollabDelete)
  <2> DEFINE S == {"dropRow"}
  <2>1. Then(CollabDelete.run, "remove", S)
    BY DEF Then, Script, CollabDelete, Button
  <2>2. Released(CollabDelete, S)
    BY DEF Released, Lockless, NoLock, Lock, CollabDelete, Button
  <2>3. Asks(p, CollabDelete, "remove")
    BY DEF Asks
  <2>4. Patches("collab", p, CollabDelete.moves, "remove", "dropRow")
    BY <1>1 DEF Patches, Whole
  <2>5. InList(p, CollabDelete)
    BY <1>1, MovesKnown DEF InList, CollabDelete, Button
  <2>. QED
    BY <1>1, <2>1, <2>2, <2>3, <2>4, <2>5, Patcher DEF Writer, Writes, ListSteps, WithPanel
<1>5. \A b \in p.bar \cup p.form: Disciplined("collab", p, b) /\ InBar(b)
  BY <1>1, <1>2, <1>3 DEF CollabInput, Placed, RowCalls
<1>6. \A b \in p.edit \cup p.props: Disciplined("collab", p, b) /\ InEdit(b)
  BY <1>1
<1>7. \A b \in p.panel: Disciplined("collab", p, b) /\ InPanel("collab", b)
  BY <1>1
<1>8. \A b \in p.list: Disciplined("collab", p, b) /\ InList(p, b)
  BY <1>1, <1>4 DEF CollabMessages
<1>9. p.first \subseteq p.states /\ (\A f \in p.filters: f \subseteq p.states) /\ Deleted \notin p.states
  BY <1>1, FiltersKnown DEF Channels, Deleted
<1>10. p.refilter \in {<<"reload">>, <<"debounce", "reload">>}
  BY <1>1
<1>. QED
  BY <1>5, <1>6, <1>7, <1>8, <1>9, <1>10, PartsDisciplined DEF p

FetchesLast(run) == \A i, j \in DOMAIN run: run[i] \in Fetches /\ j > i => run[j] = "free"

\* A handler of the missions page writes, reloads, and fetches the row again.
LEMMA Fetcher ==
  ASSUME NEW p, NEW b, NEW w \in Writes, NEW S, NEW by, Writer(p, b, w, S),
         "reload" \in S, S \subseteq {"reload", "shut", "free", "selectNew"} \cup Fetches,
         FetchesLast(b.run),
         by = S \cap (SelSteps \cup Fetches), MendsBy(p, b, w, S, by), w \in RowCalls \/ w = "add"
  PROVE  Disciplined("missions", p, b) /\ Placed("missions", b, w)
<1> DEFINE run == b.run
<1>1. Script(run) /\ 1 \in DOMAIN run /\ run[1] = w /\ DOMAIN run \subseteq Nat
  BY DEF Writer, Then, Script
<1>2. \A i, j \in DOMAIN run: run[i] \in Fetches /\ j > i => run[j] = "free"
  BY DEF FetchesLast
<1>3. \A j \in DOMAIN run: j # 1 => j > 1 /\ run[j] \in S
  BY DEF Writer, Then
<1> HIDE DEF run
<1>4. /\ w \in Async
      /\ w \notin Fetches \cup SelSteps \cup ListSteps \cup {"reload", "debounce", "leave", "select"}
      /\ S \cap ListSteps = {}
      /\ "leave" \notin S
      /\ S \cap SelSteps \subseteq {"selectNew"}
      /\ S \cap ({"select", "edit"} \cup Writes) = {}
  BY DEF Async, Writes, Fetches, SelSteps, ListSteps
<1>5. /\ "free" \notin Awaited \cup SelSteps
      /\ S \cap Async \subseteq {"reload", "fetch"}
      /\ "reload" \notin Fetches
      /\ Awaited = Async \cup Fetches /\ Writes \subseteq Async /\ "debounce" \in Async \ {"reload", "fetch"}
  BY DEF Awaited, Async, Writes, Fetches, SelSteps
<1>6. Ordered(run)
  <2>1. ~Has(run, "debounce") /\ \A j \in DOMAIN run: run[j] \in Writes => j = 1
    BY <1>1, <1>3, <1>4, <1>5 DEF Has
  <2>2. \A j \in DOMAIN run: run[j] = "reload" => ~Later(run, j, Async \ {"fetch"})
    <3>1. \A i, j \in DOMAIN run: run[i] = run[j] => i = j
      BY DEF Writer, Then, run
    <3>. QED
      BY <1>1, <1>3, <1>4, <1>5, <3>1 DEF Later
  <2>3. \A j \in DOMAIN run: run[j] \in Fetches => ~Later(run, j, Awaited \cup SelSteps)
    BY <1>2, <1>5 DEF Later
  <2>. QED
    BY <1>1, <1>4, <2>1, <2>2, <2>3 DEF Ordered
<1>7. Recovers(b.catch) /\ (~Lockless(b) => Has(run, "free") /\ Has(b.catch, "free"))
  BY CatchRecovers, ThenSteps DEF Writer, Released, run
<1>8. ~Lacks(run, Writes \ {"addMany", "touch", "post", "remove"}) => \A m \in b.moves: m[2] \in p.states
  <2>1. S \cap (Writes \ {"addMany", "touch", "post", "remove"}) = {}
    BY <1>4
  <2>. QED
    BY <2>1, ThenSteps DEF Writer, Asks, run
<1>9. KeepsList("missions", p, b)
  <2>1. Has(run, "reload") /\ ~Has(run, "leave") /\ \A j \in DOMAIN run: run[j] \notin ListSteps
    BY <1>1, <1>3, <1>4, ThenSteps DEF Writer, Has, run
  <2>. QED
    BY <2>1 DEF KeepsList, run
<1>10. KeepsPanel("missions", p, b)
  <2>1. \A j \in DOMAIN run: run[j] # "select"
    BY <1>1, <1>3, <1>4
  <2>2. \A j \in DOMAIN run: run[j] \in SelSteps => Only(run, j, SelSteps)
    <3> SUFFICES ASSUME NEW j \in DOMAIN run, run[j] \in SelSteps PROVE Only(run, j, SelSteps)
      OBVIOUS
    <3>1. S \cap SelSteps = {run[j]}
      BY <1>1, <1>3, <1>4
    <3>. QED
      BY <1>4, <3>1, ThenSteps DEF Writer, run
  <2>3. \A j \in DOMAIN run: run[j] \in Writes => Mends(p, b, run[j])
    <3>1. Mends(p, b, w)
      BY MendsThen DEF Writer
    <3>. QED
      BY <1>1, <1>3, <1>4, <3>1
  <2>4. ~Lacks(run, Writes)
    BY <1>1 DEF Lacks
  <2>. QED
    BY <2>1, <2>2, <2>3, <2>4 DEF KeepsPanel, WithPanel, run
<1>11. Placed("missions", b, w)
  BY <1>4, WriterPlaced DEF Writer
<1>12. ~Has(run, "addMany")
  <2>1. w # "addMany" /\ "addMany" \in Writes
    BY DEF RowCalls, Writes
  <2>. QED
    BY <1>1, <1>3, <1>4, <2>1 DEF Has
<1>. QED
  BY <1>6, <1>7, <1>8, <1>9, <1>10, <1>11, <1>12 DEF Disciplined, Lockless, run

\* Hunt missions.
LEMMA MissionsDisciplined == None \notin MissionsPage.states => Disciplines("missions", MissionsPage)
<1> DEFINE p == MissionsPage
<1>1. /\ p.states = MissionStates
      /\ p.first = MissionStates
      /\ p.filters = AllOrOne(MissionStates)
      /\ p.refilter = <<"reload">>
      /\ p.props = {}
      /\ p.bar = {Opens} /\ p.form = MissionsForm /\ p.edit = {}
      /\ p.list = MissionsRow /\ p.panel = MissionsPanel
  BY DEF MissionsPage, Page
<1> HIDE DEF p
<1>2. Rests("missions", p)
  BY <1>1 DEF Rests, WithPanel
<1>3. Disciplined("missions", p, MissionsCreate) /\ Placed("missions", MissionsCreate, "add")
  <2> DEFINE S == {"shut", "free", "reload", "selectNew", "fetch"}
  <2>1. Then(MissionsCreate.run, "add", S)
    BY DEF Then, Script, MissionsCreate, Button
  <2>2. Released(MissionsCreate, S)
    BY DEF Released, MissionsCreate, Button
  <2>3. Asks(p, MissionsCreate, "add")
    BY <1>1, MovesKnown DEF Asks, MissionsCreate, Button, MissionStates
  <2>4. MendsBy(p, MissionsCreate, "add", S, {"selectNew", "fetch"})
    BY DEF MendsBy
  <2>5. FetchesLast(MissionsCreate.run)
    BY DEF FetchesLast, Fetches, MissionsCreate, Button
  <2>6. /\ {"selectNew", "fetch"} = S \cap (SelSteps \cup Fetches)
        /\ S \subseteq {"reload", "shut", "free", "selectNew"} \cup Fetches
    BY DEF SelSteps, Fetches
  <2>. QED
    BY <1>1, <2>1, <2>2, <2>3, <2>4, <2>5, <2>6, Fetcher DEF Writer, Writes, RowCalls
<1>4. /\ Disciplined("missions", p, MissionsAddEvidence)
      /\ Placed("missions", MissionsAddEvidence, "touch")
  <2> DEFINE S == {"reload", "fetch", "free"}
  <2>1. Then(MissionsAddEvidence.run, "touch", S)
    BY DEF Then, Script, MissionsAddEvidence, Button
  <2>2. Released(MissionsAddEvidence, S)
    BY DEF Released, MissionsAddEvidence, Button
  <2>3. Asks(p, MissionsAddEvidence, "touch")
    BY DEF Asks
  <2>4. MendsBy(p, MissionsAddEvidence, "touch", S, {"fetch"})
    BY DEF MendsBy
  <2>5. FetchesLast(MissionsAddEvidence.run)
    BY DEF FetchesLast, Fetches, MissionsAddEvidence, Button
  <2>6. /\ {"fetch"} = S \cap (SelSteps \cup Fetches)
        /\ S \subseteq {"reload", "shut", "free", "selectNew"} \cup Fetches
    BY DEF SelSteps, Fetches
  <2>. QED
    BY <1>1, <2>1, <2>2, <2>3, <2>4, <2>5, <2>6, Fetcher DEF Writer, Writes, RowCalls
<1>5. /\ Disciplined("missions", p, MissionsDeleteEvidence)
      /\ Placed("missions", MissionsDeleteEvidence, "touch")
  <2> DEFINE S == {"reload", "fetch"}
  <2>1. Then(MissionsDeleteEvidence.run, "touch", S)
    BY DEF Then, Script, MissionsDeleteEvidence, Button
  <2>2. Released(MissionsDeleteEvidence, S)
    BY DEF Released, Lockless, NoLock, Lock, MissionsDeleteEvidence, Button
  <2>3. Asks(p, MissionsDeleteEvidence, "touch")
    BY DEF Asks
  <2>4. MendsBy(p, MissionsDeleteEvidence, "touch", S, {"fetch"})
    BY DEF MendsBy
  <2>5. FetchesLast(MissionsDeleteEvidence.run)
    BY DEF FetchesLast, Fetches, MissionsDeleteEvidence, Button
  <2>6. /\ {"fetch"} = S \cap (SelSteps \cup Fetches)
        /\ S \subseteq {"reload", "shut", "free", "selectNew"} \cup Fetches
    BY DEF SelSteps, Fetches
  <2>. QED
    BY <1>1, <2>1, <2>2, <2>3, <2>4, <2>5, <2>6, Fetcher DEF Writer, Writes, RowCalls
<1>6. Disciplined("missions", p, MissionsAddIOC) /\ Placed("missions", MissionsAddIOC, "touch")
  <2> DEFINE S == {"reload", "fetch", "free"}
  <2>1. Then(MissionsAddIOC.run, "touch", S)
    BY DEF Then, Script, MissionsAddIOC, Button
  <2>2. Released(MissionsAddIOC, S)
    BY DEF Released, MissionsAddIOC, Button
  <2>3. Asks(p, MissionsAddIOC, "touch")
    BY DEF Asks
  <2>4. MendsBy(p, MissionsAddIOC, "touch", S, {"fetch"})
    BY DEF MendsBy
  <2>5. FetchesLast(MissionsAddIOC.run)
    BY DEF FetchesLast, Fetches, MissionsAddIOC, Button
  <2>6. /\ {"fetch"} = S \cap (SelSteps \cup Fetches)
        /\ S \subseteq {"reload", "shut", "free", "selectNew"} \cup Fetches
    BY DEF SelSteps, Fetches
  <2>. QED
    BY <1>1, <2>1, <2>2, <2>3, <2>4, <2>5, <2>6, Fetcher DEF Writer, Writes, RowCalls
<1>7. /\ Disciplined("missions", p, MissionsDeleteIOC)
      /\ Placed("missions", MissionsDeleteIOC, "touch")
  <2> DEFINE S == {"reload", "fetch"}
  <2>1. Then(MissionsDeleteIOC.run, "touch", S)
    BY DEF Then, Script, MissionsDeleteIOC, Button
  <2>2. Released(MissionsDeleteIOC, S)
    BY DEF Released, Lockless, NoLock, Lock, MissionsDeleteIOC, Button
  <2>3. Asks(p, MissionsDeleteIOC, "touch")
    BY DEF Asks
  <2>4. MendsBy(p, MissionsDeleteIOC, "touch", S, {"fetch"})
    BY DEF MendsBy
  <2>5. FetchesLast(MissionsDeleteIOC.run)
    BY DEF FetchesLast, Fetches, MissionsDeleteIOC, Button
  <2>6. /\ {"fetch"} = S \cap (SelSteps \cup Fetches)
        /\ S \subseteq {"reload", "shut", "free", "selectNew"} \cup Fetches
    BY DEF SelSteps, Fetches
  <2>. QED
    BY <1>1, <2>1, <2>2, <2>3, <2>4, <2>5, <2>6, Fetcher DEF Writer, Writes, RowCalls
<1>8. Disciplined("missions", p, MissionsOpen) /\ InList(p, MissionsOpen)
  <2> DEFINE run == MissionsOpen.run
  <2>1. run = <<"select", "fetch">> /\ MissionsOpen.catch = <<>>
    BY DEF MissionsOpen, Button
  <2>2. Lockless(MissionsOpen)
    BY DEF Lockless, MissionsOpen, Button, NoLock, Lock
  <2>3. Script(run) /\ DOMAIN run = {1, 2} /\ run[1] = "select" /\ run[2] = "fetch"
    BY <2>1 DEF Script
  <2> HIDE DEF run
  <2>4. {"select", "fetch"} \cap (Writes \cup ListSteps \cup {"reload", "leave", "debounce", "free"}) = {}
    BY DEF Writes, ListSteps
  <2>5. "fetch" \notin SelSteps /\ "select" \notin Fetches
    BY DEF SelSteps, Fetches
  <2>6. Ordered(run)
    <3>1. \A j \in DOMAIN run: run[j] \in Fetches => ~Later(run, j, Awaited \cup SelSteps)
      BY <2>3, <2>5 DEF Later
    <3>. QED
      BY <2>1, <2>3, <2>4, <3>1 DEF Ordered, Has
  <2>7. Lacks(run, Writes) /\ Lacks(run, ListSteps) /\ ~Has(run, "leave") /\ ~Has(run, "reload")
    BY <2>3, <2>4 DEF Lacks, Has
  <2>8. KeepsList("missions", p, MissionsOpen)
    BY <2>7 DEF KeepsList, Lacks, run
  <2>9. KeepsPanel("missions", p, MissionsOpen)
    <3>1. \A j \in DOMAIN run: run[j] \in SelSteps => j = 1 /\ Only(run, j, SelSteps)
      BY <2>3, <2>5 DEF Only
    <3>. QED
      BY <2>1, <2>3, <2>4, <2>7, <3>1 DEF KeepsPanel, WithPanel, Lacks, run
  <2>10. Lacks(run, Writes \ {"addMany", "touch", "post", "remove"}) /\ Recovers(MissionsOpen.catch)
    BY <2>1, <2>7, CatchRecovers DEF Lacks
  <2>11. InList(p, MissionsOpen)
    BY <1>1, MovesKnown DEF InList, MissionsOpen, Button
  <2>12. ~Has(run, "addMany")
    BY <2>3 DEF Has
  <2>. QED
    BY <2>2, <2>6, <2>8, <2>9, <2>10, <2>11, <2>12 DEF Disciplined, Lockless, run
<1>9. /\ Disciplined("missions", p, MissionsStatus)
      /\ Placed("missions", MissionsStatus, "save")
      /\ InList(p, MissionsStatus)
  <2> DEFINE S == {"reload", "fetchIf"}
  <2>1. Then(MissionsStatus.run, "save", S)
    BY DEF Then, Script, MissionsStatus, Button
  <2>2. Released(MissionsStatus, S)
    BY DEF Released, Lockless, NoLock, Lock, MissionsStatus, Button
  <2>3. Asks(p, MissionsStatus, "save")
    BY <1>1, MovesKnown DEF Asks, MissionsStatus, Button
  <2>4. InList(p, MissionsStatus)
    BY <1>1, MovesKnown DEF InList, MissionsStatus, Button
  <2>5. MendsBy(p, MissionsStatus, "save", S, {"fetchIf"})
    BY DEF MendsBy
  <2>6. FetchesLast(MissionsStatus.run)
    BY DEF FetchesLast, Fetches, MissionsStatus, Button
  <2>7. /\ {"fetchIf"} = S \cap (SelSteps \cup Fetches)
        /\ S \subseteq {"reload", "shut", "free", "selectNew"} \cup Fetches
    BY DEF SelSteps, Fetches
  <2>. QED
    BY <1>1, <2>1, <2>2, <2>3, <2>4, <2>5, <2>6, <2>7, Fetcher DEF Writer, Writes, RowCalls
<1>10. /\ Disciplined("missions", p, MissionsDelete)
       /\ Placed("missions", MissionsDelete, "remove")
       /\ InList(p, MissionsDelete)
  <2> DEFINE S == {"closeIf", "reload"}
  <2>1. Then(MissionsDelete.run, "remove", S)
    BY DEF Then, Script, MissionsDelete, Button
  <2>2. Released(MissionsDelete, S)
    BY DEF Released, Lockless, NoLock, Lock, MissionsDelete, Button
  <2>3. Asks(p, MissionsDelete, "remove")
    BY DEF Asks
  <2>4. InList(p, MissionsDelete)
    BY <1>1, MovesKnown DEF InList, MissionsDelete, Button
  <2>. QED
    BY <2>1, <2>2, <2>3, <2>4, Mender DEF Writer, WithPanel
<1>11. \A b \in p.bar \cup p.form: Disciplined("missions", p, b) /\ InBar(b)
  BY <1>1, <1>3, <1>2, DialogsDisciplined DEF MissionsForm, Placed, RowCalls
<1>12. \A b \in p.edit \cup p.props: Disciplined("missions", p, b) /\ InEdit(b)
  BY <1>1
<1>13. \A b \in p.panel: Disciplined("missions", p, b) /\ InPanel("missions", b)
  BY <1>1, <1>4, <1>5, <1>6, <1>7, PanelsDisciplined
    DEF MissionsPanel, MissionsEvidence, MissionsIOCs, Placed, WithPanel
<1>14. \A b \in p.list: Disciplined("missions", p, b) /\ InList(p, b)
  BY <1>1, <1>8, <1>9, <1>10 DEF MissionsRow
<1>15. p.first \subseteq p.states /\ (\A f \in p.filters: f \subseteq p.states) /\ Deleted \notin p.states
  BY <1>1, FiltersKnown DEF MissionStates, Deleted
<1>16. p.refilter \in {<<"reload">>, <<"debounce", "reload">>}
  BY <1>1
<1>. QED
  BY <1>11, <1>12, <1>13, <1>14, <1>15, <1>16, PartsDisciplined DEF p

\* Hunt playbooks.
LEMMA PlaybooksDisciplined == None \notin PlaybooksPage.states => Disciplines("playbooks", PlaybooksPage)
<1> DEFINE p == PlaybooksPage
<1>1. /\ p.states = Switched /\ p.first = Switched /\ p.filters = {} /\ p.refilter = <<"reload">>
      /\ p.props = {}
      /\ p.bar = PlaybooksCard /\ p.form = PlaybooksModals /\ p.edit = {}
      /\ p.list = PlaybooksSchedules /\ p.panel = {}
  BY DEF PlaybooksPage, Page
<1> HIDE DEF p
<1>2. Rests("playbooks", p)
  BY <1>1 DEF Rests, WithPanel
<1>3. Disciplined("playbooks", p, PlaybooksQuery) /\ Placed("playbooks", PlaybooksQuery, "post")
  <2> DEFINE S == {"free"}
  <2>1. Then(PlaybooksQuery.run, "post", S)
    BY DEF Then, Script, PlaybooksQuery, Button
  <2>2. Released(PlaybooksQuery, S)
    BY DEF Released, PlaybooksQuery, Button
  <2>3. Asks(p, PlaybooksQuery, "post")
    BY DEF Asks
  <2>. QED
    BY <1>2, <2>1, <2>2, <2>3, Leaver DEF Writer, WithPanel
<1>4. Disciplined("playbooks", p, PlaybooksLaunch) /\ Placed("playbooks", PlaybooksLaunch, "post")
  <2> DEFINE S == {"shut", "free"}
  <2>1. Then(PlaybooksLaunch.run, "post", S)
    BY DEF Then, Script, PlaybooksLaunch, Button
  <2>2. Released(PlaybooksLaunch, S)
    BY DEF Released, PlaybooksLaunch, Button
  <2>3. Asks(p, PlaybooksLaunch, "post")
    BY DEF Asks
  <2>. QED
    BY <1>2, <2>1, <2>2, <2>3, Leaver DEF Writer, WithPanel
<1>5. /\ Disciplined("playbooks", p, PlaybooksSchedule)
      /\ Placed("playbooks", PlaybooksSchedule, "add")
  <2> DEFINE S == {"putNew", "shut", "free"}
  <2>1. Then(PlaybooksSchedule.run, "add", S)
    BY DEF Then, Script, PlaybooksSchedule, Button
  <2>2. Released(PlaybooksSchedule, S)
    BY DEF Released, PlaybooksSchedule, Button
  <2>3. Asks(p, PlaybooksSchedule, "add")
    BY <1>1, MovesKnown DEF Asks, PlaybooksSchedule, Button, Switched
  <2>4. Patches("playbooks", p, PlaybooksSchedule.moves, "add", "putNew")
    BY <1>1 DEF Patches, Whole
  <2>. QED
    BY <1>1, <2>1, <2>2, <2>3, <2>4, Patcher DEF Writer, Writes, ListSteps, WithPanel
<1>6. /\ Disciplined("playbooks", p, PlaybooksUnschedule)
      /\ Placed("playbooks", PlaybooksUnschedule, "remove")
      /\ InList(p, PlaybooksUnschedule)
  <2> DEFINE S == {"dropRow"}
  <2>1. Then(PlaybooksUnschedule.run, "remove", S)
    BY DEF Then, Script, PlaybooksUnschedule, Button
  <2>2. Released(PlaybooksUnschedule, S)
    BY DEF Released, Lockless, NoLock, Lock, PlaybooksUnschedule, Button
  <2>3. Asks(p, PlaybooksUnschedule, "remove")
    BY DEF Asks
  <2>4. Patches("playbooks", p, PlaybooksUnschedule.moves, "remove", "dropRow")
    BY <1>1 DEF Patches, Whole
  <2>5. InList(p, PlaybooksUnschedule)
    BY <1>1, MovesKnown DEF InList, PlaybooksUnschedule, Button
  <2>. QED
    BY <1>1, <2>1, <2>2, <2>3, <2>4, <2>5, Patcher DEF Writer, Writes, ListSteps, WithPanel
<1>7. \A b \in p.bar \cup p.form: Disciplined("playbooks", p, b) /\ InBar(b)
  BY <1>1, <1>3, <1>4, <1>5, <1>2, DialogsDisciplined
    DEF PlaybooksCard, PlaybooksModals, Placed, RowCalls
<1>8. \A b \in p.edit \cup p.props: Disciplined("playbooks", p, b) /\ InEdit(b)
  BY <1>1
<1>9. \A b \in p.panel: Disciplined("playbooks", p, b) /\ InPanel("playbooks", b)
  BY <1>1
<1>10. \A b \in p.list: Disciplined("playbooks", p, b) /\ InList(p, b)
  BY <1>1, <1>6 DEF PlaybooksSchedules
<1>11. p.first \subseteq p.states /\ (\A f \in p.filters: f \subseteq p.states) /\ Deleted \notin p.states
  BY <1>1 DEF Switched, Deleted
<1>12. p.refilter \in {<<"reload">>, <<"debounce", "reload">>}
  BY <1>1
<1>. QED
  BY <1>7, <1>8, <1>9, <1>10, <1>11, <1>12, PartsDisciplined DEF p

\* A handler of the library patches the list and the panel, each once.
LEMMA Painter ==
  ASSUME NEW p, NEW b, NEW w \in Writes, NEW S, Writer(p, b, w, S), NEW s \in ListSteps, NEW by,
         s \in S, S \subseteq {"shut", "free", s} \cup by, by \subseteq SelSteps \ {"select"}, by \subseteq S,
         \A t, u \in by: t = u, Patches("detections", p, b.moves, w, s), MendsBy(p, b, w, S, by),
         w \in RowCalls \cup {"add"} \/ by = {}
  PROVE  Disciplined("detections", p, b) /\ Placed("detections", b, w)
<1>1. /\ S \cap Awaited = {} /\ S \cap ListSteps = {s} /\ "reload" \notin S /\ "select" \notin S
      /\ S \cap ({"select", "edit"} \cup Writes) = {}
  BY DEF ListSteps, SelSteps, Fetches, Awaited, Async, Writes
<1>2. S \cap SelSteps = by /\ S \cap (SelSteps \cup Fetches) = by
  BY DEF ListSteps, SelSteps, Fetches
<1>3. Refreshes("detections", p, b, w, S)
  BY <1>1 DEF Refreshes
<1>4. Mends(p, b, w)
  BY <1>2, MendsThen DEF Writer
<1>5. Repanels("detections", p, b, w, S)
  BY <1>1, <1>2, <1>4 DEF Repanels, WithPanel
<1>6. by = {} => S \cap RowSteps = {}
  BY DEF ListSteps, SelSteps, RowSteps, RowCalls
<1>7. Placed("detections", b, w)
  BY <1>1, <1>6, WriterPlaced DEF Writer
<1>. QED
  BY <1>1, <1>3, <1>5, <1>7, WriterDisciplined DEF Writer

\* A switch asks for the other of two states.
LEMMA FlipKnown == \A m \in Change(Switched): m[2] = Flip(m[1])
BY DEF Change, Switched, Flip

\* The library of detections.
LEMMA DetectionsDisciplined == None \notin DetectionsPage.states => Disciplines("detections", DetectionsPage)
<1> DEFINE p == DetectionsPage
<1>1. /\ p.states = Switched
      /\ p.first = Switched
      /\ p.filters = AllOrOne(Switched)
      /\ p.refilter = <<"reload">>
      /\ p.props = ProposalsList
      /\ p.bar = DetectionsBar
      /\ p.form = DetectionsForm \cup DetectionsImportModal
      /\ p.edit = DetectionsEdit
      /\ p.list = DetectionsTable /\ p.panel = DetectionsPanel \cup DetectionsDeployed
  BY DEF DetectionsPage, Page
<1> HIDE DEF p
<1>2. Rests("detections", p)
  BY <1>1 DEF Rests, WithPanel
<1>3. /\ Disciplined("detections", p, DetectionsBulk)
      /\ Placed("detections", DetectionsBulk, "saveAll")
  <2> DEFINE S == {"setAll", "free"}
  <2>1. Then(DetectionsBulk.run, "saveAll", S)
    BY DEF Then, Script, DetectionsBulk, Button
  <2>2. Released(DetectionsBulk, S)
    BY DEF Released, DetectionsBulk, Button
  <2>3. Asks(p, DetectionsBulk, "saveAll")
    BY <1>1, MovesKnown DEF Asks, DetectionsBulk, Button, Switched
  <2>4. Patches("detections", p, DetectionsBulk.moves, "saveAll", "setAll")
    BY DEF Patches
  <2>5. MendsBy(p, DetectionsBulk, "saveAll", S, {})
    BY DEF MendsBy
  <2>6. "setAll" \in ListSteps /\ "saveAll" \in Writes /\ {} \subseteq SelSteps \ {"select"}
    BY DEF ListSteps, Writes, SelSteps
  <2>. QED
    BY <2>1, <2>2, <2>3, <2>4, <2>5, <2>6, Painter DEF Writer
<1>4. Disciplined("detections", p, DetectionsRefresh) /\ InBar(DetectionsRefresh)
  <2>1. DetectionsRefresh.run = <<"reload">> /\ DetectionsRefresh.catch = <<>>
    BY DEF DetectionsRefresh, Button
  <2>2. Lockless(DetectionsRefresh)
    BY DEF Lockless, DetectionsRefresh, Button, NoLock, Lock
  <2>. QED
    BY <1>2, <2>1, <2>2, DialogsDisciplined
<1>5. /\ Disciplined("detections", p, DetectionsCreate)
      /\ Placed("detections", DetectionsCreate, "add")
  <2> DEFINE S == {"putNew", "selectNew", "shut", "free"}
  <2>1. Then(DetectionsCreate.run, "add", S)
    BY DEF Then, Script, DetectionsCreate, Button
  <2>2. Released(DetectionsCreate, S)
    BY DEF Released, DetectionsCreate, Button
  <2>3. Asks(p, DetectionsCreate, "add")
    BY <1>1, MovesKnown DEF Asks, DetectionsCreate, Button, Switched
  <2>4. Patches("detections", p, DetectionsCreate.moves, "add", "putNew")
    BY DEF Patches
  <2>5. MendsBy(p, DetectionsCreate, "add", S, {"selectNew"})
    BY DEF MendsBy
  <2>6. "putNew" \in ListSteps /\ "add" \in Writes /\ {"selectNew"} \subseteq SelSteps \ {"select"}
    BY DEF ListSteps, Writes, SelSteps
  <2>. QED
    BY <2>1, <2>2, <2>3, <2>4, <2>5, <2>6, Painter DEF Writer
<1>6. /\ Disciplined("detections", p, DetectionsImport)
      /\ Placed("detections", DetectionsImport, "addMany")
  <2> DEFINE S == {"free", "reload"}
  <2>1. Then(DetectionsImport.run, "addMany", S)
    BY DEF Then, Script, DetectionsImport, Button
  <2>2. Released(DetectionsImport, S)
    BY DEF Released, DetectionsImport, Button
  <2>3. Asks(p, DetectionsImport, "addMany")
    BY <1>1 DEF Asks
  <2>. QED
    BY <1>2, <2>1, <2>2, <2>3, Reloader DEF Writer, WithPanel, Writes
<1>7. /\ Disciplined("detections", p, DetectionsUpdate)
      /\ Placed("detections", DetectionsUpdate, "touch")
  <2> DEFINE S == {"putRow", "putIf", "shut", "free"}
  <2>1. Then(DetectionsUpdate.run, "touch", S)
    BY DEF Then, Script, DetectionsUpdate, Button
  <2>2. Released(DetectionsUpdate, S)
    BY DEF Released, DetectionsUpdate, Button
  <2>3. Asks(p, DetectionsUpdate, "touch")
    BY DEF Asks
  <2>4. Patches("detections", p, DetectionsUpdate.moves, "touch", "putRow")
    BY DEF Patches
  <2>5. MendsBy(p, DetectionsUpdate, "touch", S, {"putIf"})
    BY DEF MendsBy, Awaited, Async, Fetches
  <2>6. "putRow" \in ListSteps /\ "touch" \in Writes /\ {"putIf"} \subseteq SelSteps \ {"select"}
    BY DEF ListSteps, Writes, SelSteps
  <2>. QED
    BY <2>1, <2>2, <2>3, <2>4, <2>5, <2>6, Painter DEF Writer, RowCalls
<1>8. /\ Disciplined("detections", p, DetectionsToggle)
      /\ Placed("detections", DetectionsToggle, "save")
      /\ InList(p, DetectionsToggle)
  <2> DEFINE S == {"flipRow", "flipIf", "free"}
  <2>1. Then(DetectionsToggle.run, "save", S)
    BY DEF Then, Script, DetectionsToggle, Button
  <2>2. Released(DetectionsToggle, S)
    BY DEF Released, DetectionsToggle, Button
  <2>3. Asks(p, DetectionsToggle, "save")
    BY <1>1, MovesKnown DEF Asks, DetectionsToggle, Button
  <2>4. Patches("detections", p, DetectionsToggle.moves, "save", "flipRow")
    BY FlipKnown DEF Patches, DetectionsToggle, Button
  <2>5. MendsBy(p, DetectionsToggle, "save", S, {"flipIf"})
    BY <1>1, FlipKnown DEF MendsBy, DetectionsPanel, DetectionsToggle, Button
  <2>6. "flipRow" \in ListSteps /\ "save" \in Writes /\ {"flipIf"} \subseteq SelSteps \ {"select"}
    BY DEF ListSteps, Writes, SelSteps
  <2>7. InList(p, DetectionsToggle)
    BY <1>1, MovesKnown DEF InList, DetectionsToggle, Button
  <2>. QED
    BY <2>1, <2>2, <2>3, <2>4, <2>5, <2>6, <2>7, Painter DEF Writer, RowCalls
<1>9. /\ Disciplined("detections", p, DetectionsDuplicate)
      /\ Placed("detections", DetectionsDuplicate, "add")
  <2> DEFINE S == {"putNew", "selectNew", "free"}
  <2>1. Then(DetectionsDuplicate.run, "add", S)
    BY DEF Then, Script, DetectionsDuplicate, Button
  <2>2. Released(DetectionsDuplicate, S)
    BY DEF Released, DetectionsDuplicate, Button
  <2>3. Asks(p, DetectionsDuplicate, "add")
    BY <1>1 DEF Asks, DetectionsDuplicate, Button, Switched
  <2>4. Patches("detections", p, DetectionsDuplicate.moves, "add", "putNew")
    BY DEF Patches
  <2>5. MendsBy(p, DetectionsDuplicate, "add", S, {"selectNew"})
    BY DEF MendsBy
  <2>6. "putNew" \in ListSteps /\ "add" \in Writes /\ {"selectNew"} \subseteq SelSteps \ {"select"}
    BY DEF ListSteps, Writes, SelSteps
  <2>. QED
    BY <2>1, <2>2, <2>3, <2>4, <2>5, <2>6, Painter DEF Writer
<1>10. /\ Disciplined("detections", p, DetectionsHistory)
       /\ Placed("detections", DetectionsHistory, "touch")
  <2> DEFINE S == {"free", "reload"}
  <2>1. Then(DetectionsHistory.run, "touch", S)
    BY DEF Then, Script, DetectionsHistory, Button
  <2>2. Released(DetectionsHistory, S)
    BY DEF Released, DetectionsHistory, Button
  <2>3. Asks(p, DetectionsHistory, "touch")
    BY DEF Asks
  <2>. QED
    BY <1>2, <2>1, <2>2, <2>3, Reloader DEF Writer, WithPanel, Writes
<1>11. /\ Disciplined("detections", p, DetectionsSearch)
       /\ Placed("detections", DetectionsSearch, "touch")
  <2> DEFINE S == {"free"}
  <2>1. Then(DetectionsSearch.run, "touch", S)
    BY DEF Then, Script, DetectionsSearch, Button
  <2>2. Released(DetectionsSearch, S)
    BY DEF Released, DetectionsSearch, Button
  <2>3. Asks(p, DetectionsSearch, "touch")
    BY DEF Asks
  <2>. QED
    BY <1>2, <2>1, <2>2, <2>3, Leaver DEF Writer, WithPanel
<1>p. /\ Disciplined("detections", p, ProposalsEnable)
      /\ Placed("detections", ProposalsEnable, "enable")
  <2> DEFINE S == {"free"}
  <2>1. Then(ProposalsEnable.run, "enable", S)
    BY DEF Then, Script, ProposalsEnable, Button
  <2>2. Released(ProposalsEnable, S)
    BY DEF Released, ProposalsEnable, Button
  <2>3. Asks(p, ProposalsEnable, "enable")
    BY <1>1, MovesKnown DEF Asks, ProposalsEnable, Button, Switched
  <2>. QED
    BY <1>2, <2>1, <2>2, <2>3, Leaver DEF Writer, WithPanel
<1>12. \A b \in p.bar \cup p.form: Disciplined("detections", p, b) /\ InBar(b)
  BY <1>1, <1>3, <1>4, <1>5, <1>6, <1>2, DialogsDisciplined
    DEF DetectionsBar, DetectionsForm, DetectionsImportModal, Placed, RowCalls
<1>13. \A b \in p.edit \cup p.props: Disciplined("detections", p, b) /\ InEdit(b)
  BY <1>1, <1>7, <1>p, <1>2, DialogsDisciplined DEF DetectionsEdit, ProposalsList, Placed
<1>14. \A b \in p.panel: Disciplined("detections", p, b) /\ InPanel("detections", b)
  BY <1>1, <1>8, <1>9, <1>10, <1>11, <1>2, DialogsDisciplined, PanelsDisciplined
    DEF DetectionsPanel, DetectionsDeployed, Placed, WithPanel
<1>15. \A b \in p.list: Disciplined("detections", p, b) /\ InList(p, b)
  BY <1>1, <1>8, PanelsDisciplined, MovesListed DEF DetectionsTable, WithPanel
<1>16. p.first \subseteq p.states /\ (\A f \in p.filters: f \subseteq p.states) /\ Deleted \notin p.states
  BY <1>1, FiltersKnown DEF Switched, Deleted
<1>17. p.refilter \in {<<"reload">>, <<"debounce", "reload">>}
  BY <1>1
<1>. QED
  BY <1>12, <1>13, <1>14, <1>15, <1>16, <1>17, PartsDisciplined DEF p

\* The log sources.
LEMMA SourcesDisciplined == None \notin SourcesPage.states => Disciplines("sources", SourcesPage)
<1> DEFINE p == SourcesPage
<1>1. /\ p.states = SourceStates
      /\ p.first = SourceStates
      /\ p.filters = {}
      /\ p.refilter = <<"reload">>
      /\ p.props = {}
      /\ p.bar = SourcesModal /\ p.form = {} /\ p.edit = {}
      /\ p.list = SourcesRows /\ p.panel = {}
  BY DEF SourcesPage, Page
<1> HIDE DEF p
<1>2. Disciplined("sources", p, SourcesAdd) /\ Placed("sources", SourcesAdd, "add")
  <2> DEFINE S == {"putNew", "free"}
  <2>1. Then(SourcesAdd.run, "add", S)
    BY DEF Then, Script, SourcesAdd, Button
  <2>2. Released(SourcesAdd, S)
    BY DEF Released, SourcesAdd, Button
  <2>3. Asks(p, SourcesAdd, "add")
    BY <1>1, MovesKnown DEF Asks, SourcesAdd, Button, SourceStates
  <2>4. Patches("sources", p, SourcesAdd.moves, "add", "putNew")
    BY <1>1 DEF Patches, Whole
  <2>. QED
    BY <1>1, <2>1, <2>2, <2>3, <2>4, Patcher DEF Writer, Writes, ListSteps, WithPanel
<1>3. /\ Disciplined("sources", p, SourcesRemove)
      /\ Placed("sources", SourcesRemove, "remove")
      /\ InList(p, SourcesRemove)
  <2> DEFINE S == {"dropRow"}
  <2>1. Then(SourcesRemove.run, "remove", S)
    BY DEF Then, Script, SourcesRemove, Button
  <2>2. Released(SourcesRemove, S)
    BY DEF Released, Lockless, NoLock, Lock, SourcesRemove, Button
  <2>3. Asks(p, SourcesRemove, "remove")
    BY DEF Asks
  <2>4. Patches("sources", p, SourcesRemove.moves, "remove", "dropRow")
    BY <1>1 DEF Patches, Whole
  <2>5. InList(p, SourcesRemove)
    BY <1>1, MovesKnown DEF InList, SourcesRemove, Button
  <2>. QED
    BY <1>1, <2>1, <2>2, <2>3, <2>4, <2>5, Patcher DEF Writer, Writes, ListSteps, WithPanel
<1>4. \A b \in p.bar \cup p.form: Disciplined("sources", p, b) /\ InBar(b)
  BY <1>1, <1>2 DEF SourcesModal, Placed, RowCalls
<1>5. \A b \in p.edit \cup p.props: Disciplined("sources", p, b) /\ InEdit(b)
  BY <1>1
<1>6. \A b \in p.panel: Disciplined("sources", p, b) /\ InPanel("sources", b)
  BY <1>1
<1>7. \A b \in p.list: Disciplined("sources", p, b) /\ InList(p, b)
  BY <1>1, <1>3 DEF SourcesRows
<1>8. p.first \subseteq p.states /\ (\A f \in p.filters: f \subseteq p.states) /\ Deleted \notin p.states
  BY <1>1 DEF SourceStates, Deleted
<1>9. p.refilter \in {<<"reload">>, <<"debounce", "reload">>}
  BY <1>1
<1>. QED
  BY <1>4, <1>5, <1>6, <1>7, <1>8, <1>9, PartsDisciplined DEF p

\* The deployments of a detection.
LEMMA DeployDisciplined == None \notin DeployPage.states => Disciplines("deploy", DeployPage)
<1> DEFINE p == DeployPage
<1>1. /\ p.states = DeploymentStates
      /\ p.first = DeploymentStates
      /\ p.filters = {}
      /\ p.refilter = <<"reload">>
      /\ p.props = {}
      /\ p.bar = {DeployOpen, DeploySwap} /\ p.form = {} /\ p.edit = {}
      /\ p.list = DeployList /\ p.panel = {}
  BY DEF DeployPage, Page
<1> HIDE DEF p
<1>2. /\ Disciplined("deploy", p, DeployPut)
      /\ Placed("deploy", DeployPut, "save")
      /\ InList(p, DeployPut)
  <2> DEFINE S == {"putRow", "free"}
  <2>1. Then(DeployPut.run, "save", S)
    BY DEF Then, Script, DeployPut, Button
  <2>2. Released(DeployPut, S)
    BY DEF Released, DeployPut, Button
  <2>3. Asks(p, DeployPut, "save")
    BY <1>1, MovesKnown DEF Asks, DeployPut, Button, DeploymentStates
  <2>4. Patches("deploy", p, DeployPut.moves, "save", "putRow")
    BY <1>1 DEF Patches, Whole
  <2>5. InList(p, DeployPut)
    BY <1>1, MovesKnown DEF InList, DeployPut, Button, DeploymentStates
  <2>6. /\ "save" \in Writes /\ "putRow" \in ListSteps /\ "deploy" \notin WithPanel \cup {"docs"}
        /\ "putRow" \in S /\ S \subseteq {"shut", "free", "leave", "putRow"} /\ p.panel = {}
    BY <1>1 DEF Writes, ListSteps, WithPanel
  <2> HIDE DEF S
  <2>. QED
    BY <2>1, <2>2, <2>3, <2>4, <2>5, <2>6, Patcher DEF Writer
<1>3. /\ Disciplined("deploy", p, DeployRemove)
      /\ Placed("deploy", DeployRemove, "save")
      /\ InList(p, DeployRemove)
  <2> DEFINE S == {"putRow", "free"}
  <2>1. Then(DeployRemove.run, "save", S)
    BY DEF Then, Script, DeployRemove, Button
  <2>2. Released(DeployRemove, S)
    BY DEF Released, DeployRemove, Button
  <2>3. Asks(p, DeployRemove, "save")
    BY <1>1 DEF Asks, DeployRemove, Button, DeploymentStates
  <2>4. Patches("deploy", p, DeployRemove.moves, "save", "putRow")
    BY <1>1 DEF Patches, Whole
  <2>5. InList(p, DeployRemove)
    BY <1>1 DEF InList, DeployRemove, Button, DeploymentStates
  <2>6. /\ "save" \in Writes /\ "putRow" \in ListSteps /\ "deploy" \notin WithPanel \cup {"docs"}
        /\ "putRow" \in S /\ S \subseteq {"shut", "free", "leave", "putRow"} /\ p.panel = {}
    BY <1>1 DEF Writes, ListSteps, WithPanel
  <2> HIDE DEF S
  <2>. QED
    BY <2>1, <2>2, <2>3, <2>4, <2>5, <2>6, Patcher DEF Writer
<1>r. Rests("deploy", p)
  BY <1>1 DEF Rests
<1>o. Disciplined("deploy", p, DeployOpen) /\ InBar(DeployOpen)
  <2>1. DeployOpen.run = <<"reload">> /\ DeployOpen.catch = <<>>
    BY DEF DeployOpen, Button
  <2>2. Lockless(DeployOpen)
    BY DEF Lockless, DeployOpen, Button, NoLock, Lock
  <2>. QED
    BY <1>r, <2>1, <2>2, DialogsDisciplined
<1>s. Disciplined("deploy", p, DeploySwap) /\ Placed("deploy", DeploySwap, "swap")
  <2>1. Then(DeploySwap.run, "swap", {})
    BY DEF Then, Script, DeploySwap, Button
  <2>2. Released(DeploySwap, {})
    BY DEF Released, Lockless, NoLock, Lock, DeploySwap, Button
  <2>3. Asks(p, DeploySwap, "swap")
    BY <1>1, MovesKnown DEF Asks, DeploySwap, Button, DeploymentStates
  <2>. QED
    BY <1>r, <2>1, <2>2, <2>3, Leaver DEF Writer, WithPanel
<1>4. \A b \in p.bar \cup p.form: Disciplined("deploy", p, b) /\ InBar(b)
  BY <1>1, <1>o, <1>s DEF Placed, RowCalls
<1>5. \A b \in p.edit \cup p.props: Disciplined("deploy", p, b) /\ InEdit(b)
  BY <1>1
<1>6. \A b \in p.panel: Disciplined("deploy", p, b) /\ InPanel("deploy", b)
  BY <1>1
<1>7. \A b \in p.list: Disciplined("deploy", p, b) /\ InList(p, b)
  BY <1>1, <1>2, <1>3 DEF DeployList
<1>8. p.first \subseteq p.states /\ (\A f \in p.filters: f \subseteq p.states) /\ Deleted \notin p.states
  BY <1>1 DEF DeploymentStates, Deleted
<1>9. p.refilter \in {<<"reload">>, <<"debounce", "reload">>}
  BY <1>1
<1>. QED
  BY <1>4, <1>5, <1>6, <1>7, <1>8, <1>9, PartsDisciplined DEF p

\* Permission groups.
LEMMA GroupsDisciplined == None \notin GroupsPage.states => Disciplines("groups", GroupsPage)
<1> DEFINE p == GroupsPage
<1>1. /\ p.states = GroupStates
      /\ p.first = GroupStates
      /\ p.filters = {}
      /\ p.refilter = <<"reload">>
      /\ p.props = {}
      /\ p.bar = {Opens} /\ p.form = GroupsForm /\ p.edit = GroupsDialogs
      /\ p.list = GroupsList /\ p.panel = {}
  BY DEF GroupsPage, Page
<1> HIDE DEF p
<1>2. Rests("groups", p)
  BY <1>1 DEF Rests, WithPanel
<1>3. Disciplined("groups", p, GroupsCreate) /\ Placed("groups", GroupsCreate, "add")
  <2> DEFINE S == {"reload", "shut", "free"}
  <2>1. Then(GroupsCreate.run, "add", S)
    BY DEF Then, Script, GroupsCreate, Button
  <2>2. Released(GroupsCreate, S)
    BY DEF Released, GroupsCreate, Button
  <2>3. Asks(p, GroupsCreate, "add")
    BY <1>1, MovesKnown DEF Asks, GroupsCreate, Button, GroupStates
  <2>. QED
    BY <1>2, <2>1, <2>2, <2>3, Reloader DEF Writer, WithPanel, Writes
<1>4. Disciplined("groups", p, GroupsUpdate) /\ Placed("groups", GroupsUpdate, "touch")
  <2> DEFINE S == {"reload", "shut", "free"}
  <2>1. Then(GroupsUpdate.run, "touch", S)
    BY DEF Then, Script, GroupsUpdate, Button
  <2>2. Released(GroupsUpdate, S)
    BY DEF Released, GroupsUpdate, Button
  <2>3. Asks(p, GroupsUpdate, "touch")
    BY DEF Asks
  <2>. QED
    BY <1>2, <2>1, <2>2, <2>3, Reloader DEF Writer, WithPanel, Writes
<1>5. Disciplined("groups", p, GroupsAddMember) /\ Placed("groups", GroupsAddMember, "touch")
  <2> DEFINE S == {"reload", "shut", "free"}
  <2>1. Then(GroupsAddMember.run, "touch", S)
    BY DEF Then, Script, GroupsAddMember, Button
  <2>2. Released(GroupsAddMember, S)
    BY DEF Released, GroupsAddMember, Button
  <2>3. Asks(p, GroupsAddMember, "touch")
    BY DEF Asks
  <2>. QED
    BY <1>2, <2>1, <2>2, <2>3, Reloader DEF Writer, WithPanel, Writes
<1>6. /\ Disciplined("groups", p, GroupsDelete)
      /\ Placed("groups", GroupsDelete, "remove")
      /\ InList(p, GroupsDelete)
  <2> DEFINE S == {"reload", "free"}
  <2>1. Then(GroupsDelete.run, "remove", S)
    BY DEF Then, Script, GroupsDelete, Button
  <2>2. Released(GroupsDelete, S)
    BY DEF Released, GroupsDelete, Button
  <2>3. Asks(p, GroupsDelete, "remove")
    BY DEF Asks
  <2>4. InList(p, GroupsDelete)
    BY <1>1, MovesKnown DEF InList, GroupsDelete, Button
  <2>. QED
    BY <1>2, <2>1, <2>2, <2>3, <2>4, Reloader DEF Writer, WithPanel, Writes
<1>7. /\ Disciplined("groups", p, GroupsRemoveMember)
      /\ Placed("groups", GroupsRemoveMember, "touch")
      /\ InList(p, GroupsRemoveMember)
  <2> DEFINE S == {"reload"}
  <2>1. Then(GroupsRemoveMember.run, "touch", S)
    BY DEF Then, Script, GroupsRemoveMember, Button
  <2>2. Released(GroupsRemoveMember, S)
    BY DEF Released, Lockless, NoLock, Lock, GroupsRemoveMember, Button
  <2>3. Asks(p, GroupsRemoveMember, "touch")
    BY DEF Asks
  <2>4. InList(p, GroupsRemoveMember)
    BY <1>1, MovesKnown DEF InList, GroupsRemoveMember, Button
  <2>. QED
    BY <1>2, <2>1, <2>2, <2>3, <2>4, Reloader DEF Writer, WithPanel, Writes
<1>8. \A b \in p.bar \cup p.form: Disciplined("groups", p, b) /\ InBar(b)
  BY <1>1, <1>3, <1>2, DialogsDisciplined DEF GroupsForm, Placed, RowCalls
<1>9. \A b \in p.edit \cup p.props: Disciplined("groups", p, b) /\ InEdit(b)
  BY <1>1, <1>4, <1>5, <1>2, DialogsDisciplined DEF GroupsDialogs, Placed
<1>10. \A b \in p.panel: Disciplined("groups", p, b) /\ InPanel("groups", b)
  BY <1>1
<1>11. \A b \in p.list: Disciplined("groups", p, b) /\ InList(p, b)
  BY <1>1, <1>6, <1>7, <1>2, DialogsDisciplined, MovesListed DEF GroupsList
<1>12. p.first \subseteq p.states /\ (\A f \in p.filters: f \subseteq p.states) /\ Deleted \notin p.states
  BY <1>1 DEF GroupStates, Deleted
<1>13. p.refilter \in {<<"reload">>, <<"debounce", "reload">>}
  BY <1>1
<1>. QED
  BY <1>8, <1>9, <1>10, <1>11, <1>12, <1>13, PartsDisciplined DEF p

\* The connected integrations.
LEMMA ActiveDisciplined == None \notin ActivePage.states => Disciplines("active", ActivePage)
<1> DEFINE p == ActivePage
<1>1. /\ p.states = Switched /\ p.first = Switched /\ p.filters = {} /\ p.refilter = <<"reload">>
      /\ p.props = {}
      /\ p.bar = ActiveBar /\ p.form = ActiveForm /\ p.edit = ActiveEdit
      /\ p.list = ActiveCard /\ p.panel = {}
  BY DEF ActivePage, Page
<1> HIDE DEF p
<1>2. Rests("active", p)
  BY <1>1 DEF Rests, WithPanel
<1>3. Disciplined("active", p, ActiveCreate) /\ Placed("active", ActiveCreate, "add")
  <2> DEFINE S == {"putNew", "shut", "free"}
  <2>1. Then(ActiveCreate.run, "add", S)
    BY DEF Then, Script, ActiveCreate, Button
  <2>2. Released(ActiveCreate, S)
    BY DEF Released, ActiveCreate, Button
  <2>3. Asks(p, ActiveCreate, "add")
    BY <1>1, MovesKnown DEF Asks, ActiveCreate, Button, Switched
  <2>4. Patches("active", p, ActiveCreate.moves, "add", "putNew")
    BY <1>1 DEF Patches, Whole
  <2>. QED
    BY <1>1, <2>1, <2>2, <2>3, <2>4, Patcher DEF Writer, Writes, ListSteps, WithPanel
<1>4. Disciplined("active", p, ActiveUpdate) /\ Placed("active", ActiveUpdate, "touch")
  <2> DEFINE S == {"putRow", "shut", "free"}
  <2>1. Then(ActiveUpdate.run, "touch", S)
    BY DEF Then, Script, ActiveUpdate, Button
  <2>2. Released(ActiveUpdate, S)
    BY DEF Released, ActiveUpdate, Button
  <2>3. Asks(p, ActiveUpdate, "touch")
    BY DEF Asks
  <2>4. Patches("active", p, ActiveUpdate.moves, "touch", "putRow")
    BY <1>1 DEF Patches, Whole
  <2>. QED
    BY <1>1, <2>1, <2>2, <2>3, <2>4, Patcher DEF Writer, Writes, ListSteps, WithPanel
<1>5. /\ Disciplined("active", p, ActiveTest)
      /\ Placed("active", ActiveTest, "touch")
      /\ InList(p, ActiveTest)
  <2> DEFINE S == {"free"}
  <2>1. Then(ActiveTest.run, "touch", S)
    BY DEF Then, Script, ActiveTest, Button
  <2>2. Released(ActiveTest, S)
    BY DEF Released, ActiveTest, Button
  <2>3. Asks(p, ActiveTest, "touch")
    BY DEF Asks
  <2>4. InList(p, ActiveTest)
    BY <1>1, MovesKnown DEF InList, ActiveTest, Button
  <2>. QED
    BY <1>2, <2>1, <2>2, <2>3, <2>4, Leaver DEF Writer, WithPanel
<1>6. /\ Disciplined("active", p, ActiveToggle)
      /\ Placed("active", ActiveToggle, "save")
      /\ InList(p, ActiveToggle)
  <2> DEFINE S == {"putRow"}
  <2>1. Then(ActiveToggle.run, "save", S)
    BY DEF Then, Script, ActiveToggle, Button
  <2>2. Released(ActiveToggle, S)
    BY DEF Released, Lockless, NoLock, Lock, ActiveToggle, Button
  <2>3. Asks(p, ActiveToggle, "save")
    BY <1>1, MovesKnown DEF Asks, ActiveToggle, Button
  <2>4. Patches("active", p, ActiveToggle.moves, "save", "putRow")
    BY <1>1 DEF Patches, Whole
  <2>5. InList(p, ActiveToggle)
    BY <1>1, MovesKnown DEF InList, ActiveToggle, Button
  <2>. QED
    BY <1>1, <2>1, <2>2, <2>3, <2>4, <2>5, Patcher DEF Writer, Writes, ListSteps, WithPanel
<1>7. /\ Disciplined("active", p, ActiveDelete)
      /\ Placed("active", ActiveDelete, "remove")
      /\ InList(p, ActiveDelete)
  <2> DEFINE S == {"dropRow", "free"}
  <2>1. Then(ActiveDelete.run, "remove", S)
    BY DEF Then, Script, ActiveDelete, Button
  <2>2. Released(ActiveDelete, S)
    BY DEF Released, ActiveDelete, Button
  <2>3. Asks(p, ActiveDelete, "remove")
    BY DEF Asks
  <2>4. Patches("active", p, ActiveDelete.moves, "remove", "dropRow")
    BY <1>1 DEF Patches, Whole
  <2>5. InList(p, ActiveDelete)
    BY <1>1, MovesKnown DEF InList, ActiveDelete, Button
  <2>. QED
    BY <1>1, <2>1, <2>2, <2>3, <2>4, <2>5, Patcher DEF Writer, Writes, ListSteps, WithPanel
<1>8. \A b \in p.bar \cup p.form: Disciplined("active", p, b) /\ InBar(b)
  BY <1>1, <1>3, <1>2, DialogsDisciplined DEF ActiveBar, ActiveForm, Placed, RowCalls
<1>9. \A b \in p.edit \cup p.props: Disciplined("active", p, b) /\ InEdit(b)
  BY <1>1, <1>4, <1>2, DialogsDisciplined DEF ActiveEdit, Placed
<1>10. \A b \in p.panel: Disciplined("active", p, b) /\ InPanel("active", b)
  BY <1>1
<1>11. \A b \in p.list: Disciplined("active", p, b) /\ InList(p, b)
  BY <1>1, <1>5, <1>6, <1>7, <1>2, DialogsDisciplined, MovesListed DEF ActiveCard
<1>12. p.first \subseteq p.states /\ (\A f \in p.filters: f \subseteq p.states) /\ Deleted \notin p.states
  BY <1>1 DEF Switched, Deleted
<1>13. p.refilter \in {<<"reload">>, <<"debounce", "reload">>}
  BY <1>1
<1>. QED
  BY <1>8, <1>9, <1>10, <1>11, <1>12, <1>13, PartsDisciplined DEF p

\* The catalogue of integrations.
LEMMA BrowseDisciplined == None \notin BrowsePage.states => Disciplines("browse", BrowsePage)
<1> DEFINE p == BrowsePage
<1>1. /\ p.states = Switched /\ p.first = Switched /\ p.filters = {} /\ p.refilter = <<"reload">>
      /\ p.props = {}
      /\ p.bar = BrowseCatalogue /\ p.form = BrowseForm /\ p.edit = {}
      /\ p.list = {} /\ p.panel = {}
  BY DEF BrowsePage, Page
<1> HIDE DEF p
<1>2. Rests("browse", p)
  BY <1>1 DEF Rests, WithPanel
<1>3. Disciplined("browse", p, BrowseConnect) /\ Placed("browse", BrowseConnect, "add")
  <2> DEFINE S == {"putNew", "shut", "leave", "free"}
  <2>1. Then(BrowseConnect.run, "add", S)
    BY DEF Then, Script, BrowseConnect, Button
  <2>2. Released(BrowseConnect, S)
    BY DEF Released, BrowseConnect, Button
  <2>3. Asks(p, BrowseConnect, "add")
    BY <1>1, MovesKnown DEF Asks, BrowseConnect, Button, Switched
  <2>. QED
    BY <1>1, <2>1, <2>2, <2>3, Patcher DEF Writer, Writes, ListSteps, WithPanel
<1>4. \A b \in p.bar \cup p.form: Disciplined("browse", p, b) /\ InBar(b)
  BY <1>1, <1>3, <1>2, DialogsDisciplined DEF BrowseCatalogue, BrowseForm, Placed, RowCalls
<1>5. \A b \in p.edit \cup p.props: Disciplined("browse", p, b) /\ InEdit(b)
  BY <1>1
<1>6. \A b \in p.panel: Disciplined("browse", p, b) /\ InPanel("browse", b)
  BY <1>1
<1>7. \A b \in p.list: Disciplined("browse", p, b) /\ InList(p, b)
  BY <1>1
<1>8. p.first \subseteq p.states /\ (\A f \in p.filters: f \subseteq p.states) /\ Deleted \notin p.states
  BY <1>1 DEF Switched, Deleted
<1>9. p.refilter \in {<<"reload">>, <<"debounce", "reload">>}
  BY <1>1
<1>. QED
  BY <1>4, <1>5, <1>6, <1>7, <1>8, <1>9, PartsDisciplined DEF p

\* Threat models.
LEMMA ModelsDisciplined == None \notin ModelsPage.states => Disciplines("models", ModelsPage)
<1> DEFINE p == ModelsPage
<1>1. /\ p.states = ModelStates
      /\ p.first = ModelStates
      /\ p.filters = {}
      /\ p.refilter = <<"reload">>
      /\ p.props = {}
      /\ p.bar = ModelsBar /\ p.form = ModelsForm /\ p.edit = {}
      /\ p.list = ModelsList /\ p.panel = {}
  BY DEF ModelsPage, Page
<1> HIDE DEF p
<1>2. Rests("models", p)
  BY <1>1 DEF Rests, WithPanel
<1>3. Disciplined("models", p, ModelsCreate) /\ Placed("models", ModelsCreate, "add")
  <2> DEFINE S == {"shut", "leave", "free"}
  <2>1. Then(ModelsCreate.run, "add", S)
    BY DEF Then, Script, ModelsCreate, Button
  <2>2. Released(ModelsCreate, S)
    BY DEF Released, ModelsCreate, Button
  <2>3. Asks(p, ModelsCreate, "add")
    BY <1>1, MovesKnown DEF Asks, ModelsCreate, Button, ModelStates
  <2>. QED
    BY <1>2, <2>1, <2>2, <2>3, Leaver DEF Writer, WithPanel
<1>4. /\ Disciplined("models", p, ModelsDelete)
      /\ Placed("models", ModelsDelete, "remove")
      /\ InList(p, ModelsDelete)
  <2> DEFINE S == {"dropRow"}
  <2>1. Then(ModelsDelete.run, "remove", S)
    BY DEF Then, Script, ModelsDelete, Button
  <2>2. Released(ModelsDelete, S)
    BY DEF Released, Lockless, NoLock, Lock, ModelsDelete, Button
  <2>3. Asks(p, ModelsDelete, "remove")
    BY DEF Asks
  <2>4. Patches("models", p, ModelsDelete.moves, "remove", "dropRow")
    BY <1>1 DEF Patches, Whole
  <2>5. InList(p, ModelsDelete)
    BY <1>1, MovesKnown DEF InList, ModelsDelete, Button
  <2>. QED
    BY <1>1, <2>1, <2>2, <2>3, <2>4, <2>5, Patcher DEF Writer, Writes, ListSteps, WithPanel
<1>5. \A b \in p.bar \cup p.form: Disciplined("models", p, b) /\ InBar(b)
  BY <1>1, <1>3, <1>2, DialogsDisciplined DEF ModelsBar, ModelsForm, Placed, RowCalls
<1>6. \A b \in p.edit \cup p.props: Disciplined("models", p, b) /\ InEdit(b)
  BY <1>1
<1>7. \A b \in p.panel: Disciplined("models", p, b) /\ InPanel("models", b)
  BY <1>1
<1>8. \A b \in p.list: Disciplined("models", p, b) /\ InList(p, b)
  BY <1>1, <1>4 DEF ModelsList
<1>9. p.first \subseteq p.states /\ (\A f \in p.filters: f \subseteq p.states) /\ Deleted \notin p.states
  BY <1>1 DEF ModelStates, Deleted
<1>10. p.refilter \in {<<"reload">>, <<"debounce", "reload">>}
  BY <1>1
<1>. QED
  BY <1>5, <1>6, <1>7, <1>8, <1>9, <1>10, PartsDisciplined DEF p

\* Leads.
LEMMA LeadsDisciplined == None \notin LeadsPage.states => Disciplines("leads", LeadsPage)
<1> DEFINE p == LeadsPage
<1>1. /\ p.states = LeadStates
      /\ p.first = {"PENDING"}
      /\ p.filters = AllOrOne(LeadStates)
      /\ p.refilter = <<"reload">>
      /\ p.props = {}
      /\ p.bar = {} /\ p.form = {} /\ p.edit = {}
      /\ p.list = LeadsCard /\ p.panel = {}
  BY DEF LeadsPage, Page
<1> HIDE DEF p
<1>2. /\ Disciplined("leads", p, LeadsProvision)
      /\ Placed("leads", LeadsProvision, "settle")
      /\ InList(p, LeadsProvision)
  <2> DEFINE S == {"free", "reload"}
  <2>1. Then(LeadsProvision.run, "settle", S)
    BY DEF Then, Script, LeadsProvision, Button
  <2>2. Released(LeadsProvision, S)
    BY DEF Released, LeadsProvision, Button
  <2>3. Asks(p, LeadsProvision, "settle")
    BY <1>1 DEF Asks, LeadsProvision, Button, LeadStates
  <2>4. InList(p, LeadsProvision)
    BY <1>1 DEF InList, LeadsProvision, Button, LeadStates
  <2>. QED
    BY <1>1, <2>1, <2>2, <2>3, <2>4, Reloader DEF Writer, Rests, WithPanel, Writes
<1>3. /\ Disciplined("leads", p, LeadsDecline)
      /\ Placed("leads", LeadsDecline, "settle")
      /\ InList(p, LeadsDecline)
  <2> DEFINE S == {"free", "reload"}
  <2>1. Then(LeadsDecline.run, "settle", S)
    BY DEF Then, Script, LeadsDecline, Button
  <2>2. Released(LeadsDecline, S)
    BY DEF Released, LeadsDecline, Button
  <2>3. Asks(p, LeadsDecline, "settle")
    BY <1>1 DEF Asks, LeadsDecline, Button, LeadStates
  <2>4. InList(p, LeadsDecline)
    BY <1>1 DEF InList, LeadsDecline, Button, LeadStates
  <2>. QED
    BY <1>1, <2>1, <2>2, <2>3, <2>4, Reloader DEF Writer, Rests, WithPanel, Writes
<1>4. \A b \in p.bar \cup p.form: Disciplined("leads", p, b) /\ InBar(b)
  BY <1>1
<1>5. \A b \in p.edit \cup p.props: Disciplined("leads", p, b) /\ InEdit(b)
  BY <1>1
<1>6. \A b \in p.panel: Disciplined("leads", p, b) /\ InPanel("leads", b)
  BY <1>1
<1>7. \A b \in p.list: Disciplined("leads", p, b) /\ InList(p, b)
  BY <1>1, <1>2, <1>3 DEF LeadsCard
<1>8. p.first \subseteq p.states /\ (\A f \in p.filters: f \subseteq p.states) /\ Deleted \notin p.states
  BY <1>1, FiltersKnown DEF LeadStates, Deleted
<1>9. p.refilter \in {<<"reload">>, <<"debounce", "reload">>}
  BY <1>1
<1>. QED
  BY <1>4, <1>5, <1>6, <1>7, <1>8, <1>9, PartsDisciplined DEF p

\* Support cases.
LEMMA CasesDisciplined == None \notin CasesPage.states => Disciplines("cases", CasesPage)
<1> DEFINE p == CasesPage
<1>1. /\ p.states = CaseStates
      /\ p.first = CaseStates
      /\ p.filters = AllOrOne(CaseStates)
      /\ p.refilter = <<"reload">>
      /\ p.props = {}
      /\ p.bar = CasesBar /\ p.form = CasesForm /\ p.edit = {}
      /\ p.list = CasesCard /\ p.panel = {}
  BY DEF CasesPage, Page
<1> HIDE DEF p
<1>2. Rests("cases", p)
  BY <1>1 DEF Rests, WithPanel
<1>3. Disciplined("cases", p, CasesCreate) /\ Placed("cases", CasesCreate, "add")
  <2> DEFINE S == {"shut", "free", "reload"}
  <2>1. Then(CasesCreate.run, "add", S)
    BY DEF Then, Script, CasesCreate, Button
  <2>2. Released(CasesCreate, S)
    BY DEF Released, CasesCreate, Button
  <2>3. Asks(p, CasesCreate, "add")
    BY <1>1, MovesKnown DEF Asks, CasesCreate, Button, CaseStates
  <2>. QED
    BY <1>2, <2>1, <2>2, <2>3, Reloader DEF Writer, WithPanel, Writes
<1>4. /\ Disciplined("cases", p, CasesSave)
      /\ Placed("cases", CasesSave, "save")
      /\ InList(p, CasesSave)
  <2> DEFINE S == {"free", "reload"}
  <2>1. Then(CasesSave.run, "save", S)
    BY DEF Then, Script, CasesSave, Button
  <2>2. Released(CasesSave, S)
    BY DEF Released, CasesSave, Button
  <2>3. Asks(p, CasesSave, "save")
    BY <1>1, MovesKnown DEF Asks, CasesSave, Button
  <2>4. InList(p, CasesSave)
    BY <1>1, MovesKnown DEF InList, CasesSave, Button
  <2>. QED
    BY <1>2, <2>1, <2>2, <2>3, <2>4, Reloader DEF Writer, WithPanel, Writes
<1>5. \A b \in p.bar \cup p.form: Disciplined("cases", p, b) /\ InBar(b)
  BY <1>1, <1>3, <1>2, DialogsDisciplined DEF CasesBar, CasesForm, Placed, RowCalls
<1>6. \A b \in p.edit \cup p.props: Disciplined("cases", p, b) /\ InEdit(b)
  BY <1>1
<1>7. \A b \in p.panel: Disciplined("cases", p, b) /\ InPanel("cases", b)
  BY <1>1
<1>8. \A b \in p.list: Disciplined("cases", p, b) /\ InList(p, b)
  BY <1>1, <1>4 DEF CasesCard
<1>9. p.first \subseteq p.states /\ (\A f \in p.filters: f \subseteq p.states) /\ Deleted \notin p.states
  BY <1>1, FiltersKnown DEF CaseStates, Deleted
<1>10. p.refilter \in {<<"reload">>, <<"debounce", "reload">>}
  BY <1>1
<1>. QED
  BY <1>5, <1>6, <1>7, <1>8, <1>9, <1>10, PartsDisciplined DEF p

\* Tenants.
LEMMA TenantsDisciplined == None \notin TenantsPage.states => Disciplines("tenants", TenantsPage)
<1> DEFINE p == TenantsPage
<1>1. /\ p.states = TenantStates
      /\ p.first = TenantStates
      /\ p.filters = AllOrOne(TenantStates)
      /\ p.refilter = <<"debounce", "reload">>
      /\ p.props = {}
      /\ p.bar = TenantsBar /\ p.form = TenantsForm /\ p.edit = {}
      /\ p.list = {} /\ p.panel = {}
  BY DEF TenantsPage, Page
<1> HIDE DEF p
<1>2. Rests("tenants", p)
  BY <1>1 DEF Rests, WithPanel
<1>3. Disciplined("tenants", p, TenantsCreate) /\ Placed("tenants", TenantsCreate, "add")
  <2> DEFINE S == {"free", "reload"}
  <2>1. Then(TenantsCreate.run, "add", S)
    BY DEF Then, Script, TenantsCreate, Button
  <2>2. Released(TenantsCreate, S)
    BY DEF Released, TenantsCreate, Button
  <2>3. Asks(p, TenantsCreate, "add")
    BY <1>1, MovesKnown DEF Asks, TenantsCreate, Button, TenantStates
  <2>. QED
    BY <1>2, <2>1, <2>2, <2>3, Reloader DEF Writer, WithPanel, Writes
<1>4. \A b \in p.bar \cup p.form: Disciplined("tenants", p, b) /\ InBar(b)
  BY <1>1, <1>3, <1>2, DialogsDisciplined
    DEF TenantsBar, TenantsForm, TenantsClose, Placed, RowCalls
<1>5. \A b \in p.edit \cup p.props: Disciplined("tenants", p, b) /\ InEdit(b)
  BY <1>1
<1>6. \A b \in p.panel: Disciplined("tenants", p, b) /\ InPanel("tenants", b)
  BY <1>1
<1>7. \A b \in p.list: Disciplined("tenants", p, b) /\ InList(p, b)
  BY <1>1
<1>8. p.first \subseteq p.states /\ (\A f \in p.filters: f \subseteq p.states) /\ Deleted \notin p.states
  BY <1>1, FiltersKnown DEF TenantStates, Deleted
<1>9. p.refilter \in {<<"reload">>, <<"debounce", "reload">>}
  BY <1>1
<1>. QED
  BY <1>4, <1>5, <1>6, <1>7, <1>8, <1>9, PartsDisciplined DEF p

\* One tenant.
LEMMA TenantDisciplined == None \notin TenantPage.states => Disciplines("tenant", TenantPage)
<1> DEFINE p == TenantPage
<1>1. /\ p.states = UserStates
      /\ p.first = UserStates
      /\ p.filters = {}
      /\ p.refilter = <<"reload">>
      /\ p.props = {}
      /\ p.bar = TenantHeader \cup TenantBar \cup TenantInviteForm /\ p.form = {} /\ p.edit = {}
      /\ p.list = TenantUsersList /\ p.panel = {}
  BY DEF TenantPage, Page
<1> HIDE DEF p
<1>2. Disciplined("tenant", p, TenantSuspend) /\ Placed("tenant", TenantSuspend, "post")
  <2> DEFINE S == {"free", "reload"}
  <2>1. Then(TenantSuspend.run, "post", S)
    BY DEF Then, Script, TenantSuspend, Button
  <2>2. Released(TenantSuspend, S)
    BY DEF Released, TenantSuspend, Button
  <2>3. Asks(p, TenantSuspend, "post")
    BY DEF Asks
  <2>. QED
    BY <1>1, <2>1, <2>2, <2>3, Reloader DEF Writer, Rests, WithPanel, Writes
<1>3. Disciplined("tenant", p, TenantLicense) /\ Placed("tenant", TenantLicense, "post")
  <2> DEFINE S == {"free", "reload"}
  <2>1. Then(TenantLicense.run, "post", S)
    BY DEF Then, Script, TenantLicense, Button
  <2>2. Released(TenantLicense, S)
    BY DEF Released, TenantLicense, Button
  <2>3. Asks(p, TenantLicense, "post")
    BY DEF Asks
  <2>. QED
    BY <1>1, <2>1, <2>2, <2>3, Reloader DEF Writer, Rests, WithPanel, Writes
<1>4. Disciplined("tenant", p, TenantInvite) /\ Placed("tenant", TenantInvite, "add")
  <2> DEFINE S == {"free", "reload"}
  <2>1. Then(TenantInvite.run, "add", S)
    BY DEF Then, Script, TenantInvite, Button
  <2>2. Released(TenantInvite, S)
    BY DEF Released, TenantInvite, Button
  <2>3. Asks(p, TenantInvite, "add")
    BY <1>1, MovesKnown DEF Asks, TenantInvite, Button, UserStates
  <2>. QED
    BY <1>1, <2>1, <2>2, <2>3, Reloader DEF Writer, Rests, WithPanel, Writes
<1>5. /\ Disciplined("tenant", p, TenantDeactivate)
      /\ Placed("tenant", TenantDeactivate, "settle")
      /\ InList(p, TenantDeactivate)
  <2> DEFINE S == {"reload"}
  <2>1. Then(TenantDeactivate.run, "settle", S)
    BY DEF Then, Script, TenantDeactivate, Button
  <2>2. Released(TenantDeactivate, S)
    BY DEF Released, Lockless, NoLock, Lock, TenantDeactivate, Button
  <2>3. Asks(p, TenantDeactivate, "settle")
    BY <1>1 DEF Asks, TenantDeactivate, Button, UserStates
  <2>4. InList(p, TenantDeactivate)
    BY <1>1 DEF InList, TenantDeactivate, Button, UserStates
  <2>. QED
    BY <1>1, <2>1, <2>2, <2>3, <2>4, Reloader DEF Writer, Rests, WithPanel, Writes
<1>6. \A b \in p.bar \cup p.form: Disciplined("tenant", p, b) /\ InBar(b)
  BY <1>1, <1>2, <1>3, <1>4 DEF TenantHeader, TenantBar, TenantInviteForm, Placed, RowCalls
<1>7. \A b \in p.edit \cup p.props: Disciplined("tenant", p, b) /\ InEdit(b)
  BY <1>1
<1>8. \A b \in p.panel: Disciplined("tenant", p, b) /\ InPanel("tenant", b)
  BY <1>1
<1>9. \A b \in p.list: Disciplined("tenant", p, b) /\ InList(p, b)
  BY <1>1, <1>5 DEF TenantUsersList
<1>10. p.first \subseteq p.states /\ (\A f \in p.filters: f \subseteq p.states) /\ Deleted \notin p.states
  BY <1>1 DEF UserStates, Deleted
<1>11. p.refilter \in {<<"reload">>, <<"debounce", "reload">>}
  BY <1>1
<1>. QED
  BY <1>6, <1>7, <1>8, <1>9, <1>10, <1>11, PartsDisciplined DEF p

\* Every page keeps to the discipline.
LEMMA PagesDisciplined == \A n \in DOMAIN Pages: Disciplines(n, Pages[n])
<1>1. DOMAIN Pages = {"changes", "requests", "incidents", "docs", "secrets", "roster", "collab", "missions",
                        "playbooks", "detections", "sources", "deploy", "groups", "active",
                        "browse", "models", "leads", "cases", "tenants", "tenant"}
  BY DEF Pages
<1>2. /\ Pages["changes"] = ChangesPage
      /\ Pages["requests"] = RequestsPage
      /\ Pages["incidents"] = IncidentsPage
  BY DEF Pages
<1>3. Pages["docs"] = DocsPage /\ Pages["secrets"] = SecretsPage /\ Pages["roster"] = RosterPage
  BY DEF Pages
<1>4. /\ Pages["collab"] = CollabPage
      /\ Pages["missions"] = MissionsPage
      /\ Pages["playbooks"] = PlaybooksPage
  BY DEF Pages
<1>5. /\ Pages["detections"] = DetectionsPage
      /\ Pages["sources"] = SourcesPage
  BY DEF Pages
<1>6. Pages["deploy"] = DeployPage /\ Pages["groups"] = GroupsPage /\ Pages["active"] = ActivePage
  BY DEF Pages
<1>7. Pages["browse"] = BrowsePage /\ Pages["models"] = ModelsPage /\ Pages["leads"] = LeadsPage
  BY DEF Pages
<1>8. Pages["cases"] = CasesPage /\ Pages["tenants"] = TenantsPage /\ Pages["tenant"] = TenantPage
  BY DEF Pages
<1>9. \A n \in DOMAIN Pages: None \notin Pages[n].states
  BY ConsoleAssumption
<1>10. /\ Disciplines("changes", Pages["changes"])
       /\ Disciplines("requests", Pages["requests"])
       /\ Disciplines("incidents", Pages["incidents"])
  BY <1>1, <1>2, <1>9, ChangesDisciplined, RequestsDisciplined, IncidentsDisciplined
<1>11. /\ Disciplines("docs", Pages["docs"])
       /\ Disciplines("secrets", Pages["secrets"])
       /\ Disciplines("roster", Pages["roster"])
  BY <1>1, <1>3, <1>9, DocsDisciplined, SecretsDisciplined, RosterDisciplined
<1>12. /\ Disciplines("collab", Pages["collab"])
       /\ Disciplines("missions", Pages["missions"])
       /\ Disciplines("playbooks", Pages["playbooks"])
  BY <1>1, <1>4, <1>9, CollabDisciplined, MissionsDisciplined, PlaybooksDisciplined
<1>13. /\ Disciplines("detections", Pages["detections"])
       /\ Disciplines("sources", Pages["sources"])
  BY <1>1, <1>5, <1>9, DetectionsDisciplined, SourcesDisciplined
<1>14. /\ Disciplines("deploy", Pages["deploy"])
       /\ Disciplines("groups", Pages["groups"])
       /\ Disciplines("active", Pages["active"])
  BY <1>1, <1>6, <1>9, DeployDisciplined, GroupsDisciplined, ActiveDisciplined
<1>15. /\ Disciplines("browse", Pages["browse"])
       /\ Disciplines("models", Pages["models"])
       /\ Disciplines("leads", Pages["leads"])
  BY <1>1, <1>7, <1>9, BrowseDisciplined, ModelsDisciplined, LeadsDisciplined
<1>16. /\ Disciplines("cases", Pages["cases"])
       /\ Disciplines("tenants", Pages["tenants"])
       /\ Disciplines("tenant", Pages["tenant"])
  BY <1>1, <1>8, <1>9, CasesDisciplined, TenantsDisciplined, TenantDisciplined
<1>. QED
  BY <1>1, <1>10, <1>11, <1>12, <1>13, <1>14, <1>15, <1>16

------------------------------------------------------------------------------
(* What is known of the run of a call.                                     *)

\* Whether a row is fetched again is all that a press settles.
LEMMA BegunRun ==
  ASSUME NEW run, NEW k, Script(run)
  PROVE  /\ DOMAIN Begun(run, k) = DOMAIN run /\ Script(Begun(run, k))
         /\ \A j \in DOMAIN run: /\ Begun(run, k)[j] = run[j] \/ (run[j] = "fetchIf" /\ Begun(run, k)[j] = "fetch")
                                 /\ Same(k) => Begun(run, k)[j] # "fetchIf"
<1>1. DOMAIN Begun(run, k) = DOMAIN run
  BY DEF Begun
<1>2. \A j \in DOMAIN run: Begun(run, k)[j] = IF run[j] = "fetchIf" /\ Same(k) THEN "fetch" ELSE run[j]
  BY DEF Begun
<1>3. Begun(run, k) \in Seq({Begun(run, k)[j]: j \in DOMAIN run})
  BY <1>1 DEF Script, Begun
<1>4. Len(Begun(run, k)) = Len(run)
  BY <1>1, <1>3 DEF Script
<1>5. QED
  BY <1>1, <1>2, <1>4 DEF Script

RunFacts(n, k) ==
  /\ Script(k.run) /\ k.at \in DOMAIN k.run
  /\ Awaits(k) \in Writes => k.at = 1
  /\ Awaits(k) = "reload" => ~Later(k.run, k.at, Async \ {"fetch"})
  /\ Awaits(k) = "fetch" => ~Later(k.run, k.at, Async \cup SelSteps)
  /\ Awaits(k) = "debounce" => k.run = <<"debounce", "reload">> /\ k.at = 1
  /\ Later(k.run, k.at, ListSteps) => Awaits(k) \in Writes /\ ~Later(k.run, k.at, Async)
  /\ \A j \in DOMAIN k.run: k.run[j] \in ListSteps => Only(k.run, j, ListSteps)
  /\ \A j \in DOMAIN k.run: k.run[j] \in SelSteps => Only(k.run, j, SelSteps)
  /\ Later(k.run, k.at, {"leave"}) => ~Later(k.run, k.at, Async)
  /\ n \notin WithPanel \cup {"docs"} => Lacks(k.run, SelSteps)
  /\ n # "missions" => Lacks(k.run, {"fetch"})

\* What a script keeps to, the run of it keeps to.
LEMMA RunOrdered ==
  ASSUME NEW n \in DOMAIN Pages, NEW k, CallKnown(n, k)
  PROVE  RunFacts(n, k)
<1>d. Disciplines(n, Pages[n])
  BY PagesDisciplined
<1>k. k.at \in DOMAIN k.run /\ Awaits(k) = k.run[k.at] /\ Awaits(k) \in Async
  BY DEF CallKnown, Awaits
<1>1. CASE k.run \in {<<"reload">>, Pages[n].refilter}
  <2>1. k.run = <<"reload">> \/ k.run = <<"debounce", "reload">>
    BY <1>1, <1>d DEF Disciplines
  <2>2. CASE k.run = <<"reload">>
    <3>1. Len(k.run) = 1 /\ DOMAIN k.run = 1 .. 1 /\ \A j \in DOMAIN k.run: j = 1 /\ k.run[j] = "reload"
      BY <2>2
    <3>2. Script(k.run) /\ k.at = 1 /\ Awaits(k) = "reload"
      BY <1>k, <3>1 DEF Script
    <3>3. \A S: ~Later(k.run, k.at, S)
      BY <3>1, <3>2 DEF Later
    <3>4. Lacks(k.run, SelSteps \cup ListSteps \cup {"fetch"})
      BY <3>1 DEF Lacks, ListSteps, SelSteps
    <3>5. Awaits(k) \notin Writes /\ Awaits(k) # "debounce"
      BY <3>2 DEF Writes
    <3>6. QED
      BY <1>k, <3>2, <3>3, <3>4, <3>5 DEF RunFacts, Lacks
  <2>3. CASE k.run = <<"debounce", "reload">>
    <3>1. /\ Len(k.run) = 2 /\ DOMAIN k.run = 1 .. 2 /\ k.run[1] = "debounce" /\ k.run[2] = "reload"
          /\ \A j \in DOMAIN k.run: (j = 1 /\ k.run[j] = "debounce") \/ (j = 2 /\ k.run[j] = "reload")
      BY <2>3
    <3>2. Script(k.run) /\ ((k.at = 1 /\ Awaits(k) = "debounce") \/ (k.at = 2 /\ Awaits(k) = "reload"))
      BY <1>k, <3>1 DEF Script
    <3>3. /\ \A S: Later(k.run, k.at, S) => k.at = 1 /\ "reload" \in S
          /\ "reload" \notin ListSteps \cup {"leave"}
      BY <3>1, <3>2 DEF Later, ListSteps
    <3>4. Lacks(k.run, SelSteps \cup ListSteps \cup {"fetch"})
      BY <3>1 DEF Lacks, ListSteps, SelSteps
    <3>5. Awaits(k) \notin Writes /\ Awaits(k) # "fetch" /\ (Awaits(k) = "reload" => k.at = 2)
      BY <3>2 DEF Writes
    <3>6. ~Later(k.run, k.at, ListSteps) /\ ~Later(k.run, k.at, {"leave"})
      BY <3>3
    <3>7. QED
      BY <1>k, <2>3, <3>2, <3>3, <3>4, <3>5, <3>6 DEF RunFacts, Lacks
  <2>4. QED
    BY <2>1, <2>2, <2>3
<1>2. ASSUME NEW b \in ButtonsOf(Pages[n]), k.run = b.catch PROVE RunFacts(n, k)
  <2>1. /\ Script(k.run)
        /\ \A j \in DOMAIN k.run: k.run[j] = "free" \/ (k.run[j] = "reload" /\ Only(k.run, j, {"reload"}))
    BY <1>2, <1>d DEF Disciplines, Disciplined, Recovers
  <2>2. \A S: Later(k.run, k.at, S) => "free" \in S
    <3> SUFFICES ASSUME NEW S, NEW j \in DOMAIN k.run, j > k.at, k.run[j] \in S PROVE "free" \in S
      BY DEF Later
    <3>1. k.at \in Nat /\ j \in Nat /\ k.run[k.at] = "reload"
      BY <1>k, <2>1 DEF Script, Async
    <3>2. k.run[j] # "reload"
      BY <1>k, <2>1, <3>1 DEF Only
    <3>3. QED
      BY <2>1, <3>2
  <2>3. Lacks(k.run, Writes \cup SelSteps \cup ListSteps \cup {"fetch", "debounce"})
    BY <2>1 DEF Lacks, Writes, SelSteps, ListSteps
  <2>4. Awaits(k) = "reload"
    BY <1>k, <2>1 DEF Async
  <2>5. ~Later(k.run, k.at, Async \ {"fetch"}) /\ ~Later(k.run, k.at, ListSteps) /\ ~Later(k.run, k.at, {"leave"})
        /\ ~Later(k.run, k.at, Async)
    BY <2>2 DEF Async, ListSteps
  <2>6. QED
    BY <1>k, <2>1, <2>3, <2>4, <2>5 DEF RunFacts, Lacks, Writes
<1>3. ASSUME NEW b \in ButtonsOf(Pages[n]), k.run = Begun(b.run, k) PROVE RunFacts(n, k)
  <2>1. Disciplined(n, Pages[n], b)
    BY <1>d DEF Disciplines
  <2>o. Script(b.run)
    BY <2>1 DEF Disciplined, Ordered
  <2>2. /\ DOMAIN k.run = DOMAIN b.run /\ Script(k.run) /\ Script(b.run)
        /\ \A j \in DOMAIN b.run: k.run[j] = b.run[j] \/ (b.run[j] = "fetchIf" /\ k.run[j] = "fetch")
    BY <1>3, <2>o, BegunRun
  <2>s. \A j \in DOMAIN b.run: /\ k.run[j] \in Writes <=> b.run[j] \in Writes
                               /\ k.run[j] \in ListSteps <=> b.run[j] \in ListSteps
                               /\ k.run[j] \in SelSteps <=> b.run[j] \in SelSteps
                               /\ k.run[j] = "reload" <=> b.run[j] = "reload"
                               /\ k.run[j] = "leave" <=> b.run[j] = "leave"
                               /\ k.run[j] = "debounce" <=> b.run[j] = "debounce"
                               /\ k.run[j] = "fetch" => b.run[j] \in Fetches
                               /\ k.run[j] \in Async => b.run[j] \in Awaited
    BY <2>2 DEF Writes, ListSteps, SelSteps, Fetches, Async, Awaited
  <2>4. Awaits(k) \in Writes => k.at = 1
    BY <1>k, <2>1, <2>2, <2>s DEF Disciplined, Ordered
  <2>5. Awaits(k) = "reload" => ~Later(k.run, k.at, Async \ {"fetch"})
    BY <1>k, <2>1, <2>2, <2>s DEF Disciplined, Ordered, Later, Async
  <2>6. Awaits(k) = "fetch" => ~Later(k.run, k.at, Async \cup SelSteps)
    BY <1>k, <2>1, <2>2, <2>s DEF Disciplined, Ordered, Later, Awaited
  <2>7. Awaits(k) # "debounce"
    BY <1>k, <2>1, <2>2, <2>s DEF Disciplined, Ordered, Has
  <2>8. Later(k.run, k.at, ListSteps) => Awaits(k) \in Writes /\ ~Later(k.run, k.at, Async)
    <3> SUFFICES ASSUME NEW j \in DOMAIN b.run, j > k.at, b.run[j] \in ListSteps
                 PROVE  Awaits(k) \in Writes /\ ~Later(k.run, k.at, Async)
      BY <2>2, <2>s DEF Later
    <3>1. b.run[1] \in Writes /\ ~Later(b.run, 1, Awaited)
      BY <2>1 DEF Disciplined, KeepsList
    <3>2. k.at = 1
      BY <1>k, <2>2, <2>s, <3>1 DEF Later, Awaited, Script
    <3>3. QED
      BY <1>k, <2>2, <2>s, <3>1, <3>2 DEF Later, Awaited
  <2>9. \A j \in DOMAIN k.run: k.run[j] \in ListSteps => Only(k.run, j, ListSteps)
    BY <2>1, <2>2, <2>s DEF Disciplined, KeepsList, Only
  <2>10. \A j \in DOMAIN k.run: k.run[j] \in SelSteps => Only(k.run, j, SelSteps)
    BY <2>1, <2>2, <2>s DEF Disciplined, KeepsPanel, Only
  <2>11. Later(k.run, k.at, {"leave"}) => ~Later(k.run, k.at, Async)
    <3> SUFFICES ASSUME NEW j \in DOMAIN b.run, j > k.at, b.run[j] = "leave"
                 PROVE  ~Later(k.run, k.at, Async)
      BY <2>2, <2>s DEF Later
    <3>1. ~Later(b.run, 1, Awaited)
      BY <2>1 DEF Disciplined, KeepsList, Has
    <3>2. QED
      BY <1>k, <2>2, <2>s, <3>1 DEF Later, Awaited, Script
  <2>12. n \notin WithPanel \cup {"docs"} => Lacks(k.run, SelSteps)
    BY <2>1, <2>2, <2>s DEF Disciplined, KeepsPanel, Lacks
  <2>13. n # "missions" => Lacks(k.run, {"fetch"})
    BY <2>1, <2>2, <2>s DEF Disciplined, KeepsPanel, Lacks
  <2>14. QED
    BY <1>k, <2>2, <2>4, <2>5, <2>6, <2>7, <2>8, <2>9, <2>10, <2>11, <2>12, <2>13 DEF RunFacts
<1>4. QED
  BY <1>1, <1>2, <1>3 DEF CallKnown, Loads, RunsOf

\* What a failure runs is a script, whichever the call.
LEMMA CatchIs ==
  ASSUME NEW n \in DOMAIN Pages, NEW k, CallKnown(n, k)
  PROVE  Recovers(k.catch)
<1>1. CASE k.catch = <<>>
  <2>1. Len(k.catch) = 0 /\ DOMAIN k.catch = 1 .. 0
    BY <1>1
  <2>2. QED
    BY <2>1 DEF Recovers, Script
<1>2. ASSUME NEW b \in ButtonsOf(Pages[n]), k.catch = b.catch PROVE Recovers(k.catch)
  <2>1. Disciplined(n, Pages[n], b)
    BY PagesDisciplined DEF Disciplines
  <2>2. QED
    BY <1>2, <2>1 DEF Disciplined
<1>3. QED
  BY <1>1, <1>2 DEF CallKnown, Loads, RunsOf

\* A row call is about a row.
LEMMA RowCallsRow ==
  ASSUME NEW n \in DOMAIN Pages, NEW k, CallKnown(n, k), Awaits(k) \in RowCalls
  PROVE  k.id \in Ids
BY DEF CallKnown, Adding, Rowless, Lacks, RowCalls, Awaits

------------------------------------------------------------------------------
(* The answer of a call comes to the page.                                 *)

\* One call is replaced.
Swaps(c, w) == call' = [d \in Calls |-> IF d = c THEN w ELSE call[d]]

\* The handler goes on with a run, from a page u that its answer has changed.
Goes(c, u, run, i) ==
  /\ Script(run) /\ i \in Nat \ {0} /\ i <= Len(run) + 1
  /\ FormedUi(u) /\ u.filter = ui.filter /\ u.busy = ui.busy /\ u.edit = ui.edit /\ u.here = ui.here
  /\ IsList(u.list) /\ OpenRow(u.sel)
  /\ ui' = After(u, call[c], run, i) /\ Gone(u, call[c], run, i)
  /\ Swaps(c, Waiting(call[c], run, i))
  /\ Waits(Waiting(call[c], run, i), call[c], run, NextAwait(run, i))
  /\ page' = page /\ rows' = rows /\ hist' = hist

\* Which run, and what the answer has changed.
Lands(k, u, run, i) ==
  \/ /\ run = k.run /\ i = k.at + 1 /\ ~Adding(k)
     /\ \/ Awaits(k) = "reload" /\ k.ans = "ok" /\ u.list = k.got /\ u.sel = ui.sel
        \/ Awaits(k) = "reload" /\ k.ans = "error" /\ u.list = ui.list /\ u.sel = ui.sel
        \/ Awaits(k) = "fetch" /\ k.ans = "ok" /\ u.list = ui.list /\ u.sel = Open(k.id, k.got)
        \/ Awaits(k) \in Writes /\ k.ans = "ok" /\ u.list = ui.list /\ u.sel = ui.sel
        \/ Awaits(k) = "debounce" /\ k.ans = "none" /\ u.list = ui.list /\ u.sel = ui.sel
  \/ /\ run = k.catch /\ i = 1 /\ Awaits(k) \notin {"reload", "debounce"} /\ k.ans = "error"
     /\ u.list = ui.list /\ u.sel = ui.sel

\* A page with the list, the panel or what hides the list replaced.
With(u, v, list, sel) ==
  /\ FormedUi(v) /\ v.list = list /\ v.sel = sel /\ v.filter = u.filter /\ v.busy = u.busy
  /\ v.edit = u.edit /\ v.here = u.here

\* It is still a page.
LEMMA PageWith ==
  ASSUME NEW u, FormedUi(u), NEW list, NEW sel, NEW shown
  PROVE  With(u, [u EXCEPT !.list = list, !.sel = sel, !.shown = shown], list, sel)
<1> DEFINE v == [u EXCEPT !.list = list, !.sel = sel, !.shown = shown]
<1>1. v \in [list: {list}, filter: {u.filter}, sel: {sel}, form: {u.form}, edit: {u.edit},
             shown: {shown}, busy: {u.busy}, here: {u.here}]
  BY DEF FormedUi
<1>2. QED
  <2> HIDE DEF v
  <2>1. v = [list |-> list, filter |-> u.filter, sel |-> sel, form |-> u.form, edit |-> u.edit,
             shown |-> shown, busy |-> u.busy, here |-> u.here]
    BY <1>1
  <2>2. FormedUi(v) /\ v.list = list /\ v.filter = u.filter /\ v.sel = sel /\ v.edit = u.edit
    BY <2>1 DEF FormedUi
  <2>3. v.here = u.here /\ v.busy = u.busy
    BY <2>1
  <2>4. QED
    BY <2>2, <2>3 DEF v, With

\* A handler that goes on does so from where it was.
LEMMA ContinueIs ==
  ASSUME Known, NEW c \in Calls, call[c] # Idle,
         NEW run, Script(run), NEW i \in Nat \ {0}, i <= Len(run) + 1,
         NEW u, FormedUi(u), u.filter = ui.filter, u.busy = ui.busy, u.edit = ui.edit, u.here = ui.here,
         IsList(u.list), OpenRow(u.sel), Continue(c, u, run, i)
  PROVE  Goes(c, u, run, i)
<1>1. Formed(call[c]) /\ call = [d \in Calls |-> call[d]]
  BY DEF Known, CallKnown
<1>2. Gone(u, call[c], run, i)
  BY AfterIs
<1>3. Waits(Waiting(call[c], run, i), call[c], run, NextAwait(run, i))
  BY <1>1, WaitingIs
<1>4. Swaps(c, Waiting(call[c], run, i))
  BY <1>1 DEF Continue, Swaps
<1>5. QED
  BY <1>2, <1>3, <1>4 DEF Goes, Continue

\* An answer that comes lets its handler go on.
LEMMA LandIs ==
  ASSUME Known, NEW c \in Calls, Land(c)
  PROVE  \E u, run, i: Goes(c, u, run, i) /\ Lands(call[c], u, run, i)
<1> DEFINE k == call[c]
<1>1. call[c] # Idle /\ CallKnown(page, call[c]) /\ page \in DOMAIN Pages
  BY DEF Land, Known
<1>2. /\ Script(k.run) /\ k.at \in DOMAIN k.run
      /\ Awaits(k) \in Async /\ k.ans \in {"none", "ok", "error"}
  BY <1>1, RunOrdered DEF RunFacts, CallKnown
<1>3. k.at + 1 \in Nat \ {0} /\ k.at + 1 <= Len(k.run) + 1
  BY <1>2 DEF Script
<1>4. Recovers(k.catch) /\ Script(k.catch) /\ 1 <= Len(k.catch) + 1
  BY <1>1, CatchIs DEF Recovers, Script
<1>5. FormedUi(ui) /\ IsList(ui.list) /\ OpenRow(ui.sel)
  BY DEF Known
<1>6. ASSUME NEW u, FormedUi(u), u.filter = ui.filter, u.busy = ui.busy, u.edit = ui.edit, u.here = ui.here,
             IsList(u.list), OpenRow(u.sel), GoOn(c, u)
      PROVE  Goes(c, u, k.run, k.at + 1)
  BY <1>1, <1>2, <1>3, <1>6, ContinueIs DEF GoOn
<1>7. CASE LandReload(c)
  <2>1. PICK u: u = [ui EXCEPT !.list = call[c].got, !.sel = ui.sel, !.shown = TRUE]
    OBVIOUS
  <2>2. u = [ui EXCEPT !.list = call[c].got, !.shown = TRUE]
    BY <1>5, <2>1 DEF FormedUi
  <2>3. IsList(k.got) /\ GoOn(c, u) /\ Awaits(k) = "reload" /\ k.ans = "ok"
    BY <1>1, <1>7, <2>2 DEF LandReload, CallKnown
  <2>4. /\ FormedUi(u) /\ u.list = k.got /\ u.sel = ui.sel /\ u.filter = ui.filter /\ u.busy = ui.busy
        /\ u.edit = ui.edit /\ u.here = ui.here
    <3>1. With(ui, [ui EXCEPT !.list = call[c].got, !.sel = ui.sel, !.shown = TRUE], call[c].got, ui.sel)
      BY <1>5, PageWith
    <3>2. QED
      BY <2>1, <3>1 DEF With
  <2>5. Goes(c, u, k.run, k.at + 1)
    BY <1>5, <1>6, <2>3, <2>4
  <2>6. Lands(k, u, k.run, k.at + 1)
    BY <2>3, <2>4 DEF Lands, Adding
  <2>7. QED
    BY <2>5, <2>6
<1>8. CASE LandReloadError(c)
  <2>1. PICK u: u = [ui EXCEPT !.list = ui.list, !.sel = ui.sel, !.shown = This.keeps]
    OBVIOUS
  <2>2. u = [ui EXCEPT !.shown = This.keeps]
    BY <1>5, <2>1 DEF FormedUi
  <2>3. GoOn(c, u) /\ Awaits(k) = "reload" /\ k.ans = "error"
    BY <1>8, <2>2 DEF LandReloadError
  <2>4. /\ FormedUi(u) /\ u.list = ui.list /\ u.sel = ui.sel /\ u.filter = ui.filter /\ u.busy = ui.busy
        /\ u.edit = ui.edit /\ u.here = ui.here
    <3>1. With(ui, [ui EXCEPT !.list = ui.list, !.sel = ui.sel, !.shown = This.keeps], ui.list, ui.sel)
      BY <1>5, PageWith
    <3>2. QED
      BY <2>1, <3>1 DEF With
  <2>5. Goes(c, u, k.run, k.at + 1)
    BY <1>5, <1>6, <2>3, <2>4
  <2>6. Lands(k, u, k.run, k.at + 1)
    BY <2>3, <2>4 DEF Lands, Adding
  <2>7. QED
    BY <2>5, <2>6
<1>9. CASE LandFetch(c)
  <2>1. PICK u: u = [ui EXCEPT !.list = ui.list, !.sel = Open(k.id, k.got), !.shown = ui.shown]
    OBVIOUS
  <2>2. u = [ui EXCEPT !.sel = Open(k.id, k.got)]
    BY <1>5, <2>1 DEF FormedUi
  <2>3. GoOn(c, u) /\ Awaits(k) = "fetch" /\ k.ans = "ok"
    BY <1>9, <2>2 DEF LandFetch
  <2>4. /\ FormedUi(u) /\ u.list = ui.list /\ u.sel = Open(k.id, k.got) /\ u.filter = ui.filter
        /\ u.busy = ui.busy /\ u.edit = ui.edit /\ u.here = ui.here
    <3>1. With(ui, [ui EXCEPT !.list = ui.list, !.sel = Open(k.id, k.got), !.shown = ui.shown], ui.list, Open(k.id, k.got))
      BY <1>5, PageWith
    <3>2. QED
      BY <2>1, <3>1 DEF With
  <2>5. OpenRow(u.sel)
    BY <1>1, <2>3, <2>4, RowCallsRow DEF OpenRow, Open, RowCalls
  <2>6. Goes(c, u, k.run, k.at + 1)
    BY <1>5, <1>6, <2>3, <2>4, <2>5
  <2>7. Lands(k, u, k.run, k.at + 1)
    BY <2>3, <2>4 DEF Lands, Adding
  <2>8. QED
    BY <2>6, <2>7
<1>10. CASE LandWrite(c) \/ LandEnable(c)
  <2>1. GoOn(c, ui) /\ Awaits(k) \in Writes /\ k.ans = "ok"
    BY <1>1, <1>2, <1>10 DEF LandWrite, LandEnable, CallKnown, Async, Writes
  <2>2. Goes(c, ui, k.run, k.at + 1)
    BY <1>5, <1>6, <2>1
  <2>3. Lands(k, ui, k.run, k.at + 1)
    BY <2>1 DEF Lands, Adding
  <2>4. QED
    BY <2>2, <2>3
<1>11. CASE LandError(c)
  <2>1. Continue(c, ui, k.catch, 1) /\ Awaits(k) # "reload" /\ k.ans = "error"
    BY <1>11 DEF LandError
  <2>2. Awaits(k) # "debounce"
    BY <1>1, <2>1 DEF CallKnown
  <2>3. Goes(c, ui, k.catch, 1)
    BY <1>1, <1>4, <1>5, <2>1, ContinueIs
  <2>4. Lands(k, ui, k.catch, 1)
    BY <2>1, <2>2 DEF Lands
  <2>5. QED
    BY <2>3, <2>4
<1>12. CASE PauseOver(c)
  <2>1. GoOn(c, ui) /\ Awaits(k) = "debounce" /\ k.ans = "none"
    BY <1>1, <1>12 DEF PauseOver, CallKnown
  <2>2. Goes(c, ui, k.run, k.at + 1)
    BY <1>5, <1>6, <2>1
  <2>3. Lands(k, ui, k.run, k.at + 1)
    BY <2>1 DEF Lands, Adding
  <2>4. QED
    BY <2>2, <2>3
<1>13. QED
  BY <1>7, <1>8, <1>9, <1>10, <1>11, <1>12 DEF Land

------------------------------------------------------------------------------
(* What is known stays known.                                              *)

\* The next call of a handler is known if the one before was.
LEMMA NextCall ==
  ASSUME NEW n \in DOMAIN Pages, NEW k, CallKnown(n, k), NEW run, NEW w, NEW stop \in DOMAIN run,
         Waits(w, k, run, stop), (run = k.run /\ ~Adding(k)) \/ run = k.catch
  PROVE  CallKnown(n, w)
<1>1. /\ Formed(w) /\ w.run = run /\ w.at = stop /\ w.ans = "none" /\ SameOf(w, k)
      /\ Awaits(w) = run[stop] /\ Awaits(w) \in Async
  BY DEF Waits
<1>2. \A r: Begun(r, w) = Begun(r, k)
  BY <1>1 DEF Begun, Same, SameOf
<1>3. CASE run = k.run /\ ~Adding(k)
  <2>1. Loads(n, k) => Loads(n, w)
    BY <1>1, <1>3 DEF Loads, SameOf
  <2>2. \A b \in ButtonsOf(Pages[n]): RunsOf(n, k, b) => RunsOf(n, w, b)
    BY <1>1, <1>2, <1>3 DEF RunsOf, SameOf
  <2>3. w.id \in Ids \/ Rowless(w.run)
    BY <1>1, <1>3 DEF CallKnown, SameOf
  <2>4. QED
    BY <1>1, <2>1, <2>2, <2>3 DEF CallKnown
<1>4. CASE run = k.catch
  <2>1. Recovers(k.catch)
    BY CatchIs
  <2>2. run # <<>>
    <3>1. SUFFICES ASSUME run = <<>> PROVE FALSE
      OBVIOUS
    <3>2. DOMAIN run = {}
      BY <3>1
    <3>3. QED
      BY <3>2
  <2>3. \A b \in ButtonsOf(Pages[n]): RunsOf(n, k, b) => RunsOf(n, w, b)
    BY <1>1, <1>4 DEF RunsOf, SameOf
  <2>4. \E b \in ButtonsOf(Pages[n]): RunsOf(n, w, b)
    BY <1>4, <2>2, <2>3 DEF CallKnown, Loads
  <2>5. Rowless(w.run)
    BY <1>1, <1>4, <2>1 DEF Rowless, Recovers, Lacks, RowCalls, SelSteps
  <2>6. QED
    BY <1>1, <2>4, <2>5 DEF CallKnown
<1>5. QED
  BY <1>3, <1>4

\* What has to be so of the next state.
LEMMA KnownNext ==
  ASSUME page \in DOMAIN Pages, page' = page, rows' \in [Ids -> This.states \cup {None, Deleted}],
         FormedUi(ui'), IsList(ui'.list), ui'.filter \in {This.first} \cup This.filters,
         OpenRow(ui'.sel), OpenRow(ui'.edit),
         call' = [c \in Calls |-> call'[c]], \A c \in Calls: call'[c] = Idle \/ CallKnown(page, call'[c]),
         hist' \in [events: Nat, stale: BOOLEAN, doubt: BOOLEAN, lag: SUBSET Ids]
  PROVE  Known'
BY DEF Known, This

\* An answer that comes leaves everything known.
LEMMA LandKnown ==
  ASSUME Known, NEW c \in Calls, call[c] # Idle, NEW u, NEW run, NEW i, Goes(c, u, run, i), Lands(call[c], u, run, i)
  PROVE  Known'
<1> DEFINE k == call[c]
           w == Waiting(call[c], run, i)
           stop == NextAwait(run, i)
<1>1. page \in DOMAIN Pages /\ CallKnown(page, k)
  BY DEF Known
<1>2. (run = k.run /\ ~Adding(k)) \/ run = k.catch
  BY DEF Lands
<1>3. w = Idle \/ CallKnown(page, w)
  <2> HIDE DEF w, stop
  <2>1. Waits(w, k, run, stop)
    BY DEF Goes, w, stop
  <2>2. CASE stop \in DOMAIN run
    BY <1>1, <1>2, <2>1, <2>2, NextCall
  <2>3. CASE stop \notin DOMAIN run
    BY <2>1, <2>3 DEF Waits
  <2>4. QED
    BY <2>2, <2>3
<1>4. call' = [d \in Calls |-> call'[d]] /\ \A d \in Calls: call'[d] = Idle \/ CallKnown(page, call'[d])
  <2> HIDE DEF w
  <2>1. call' = [d \in Calls |-> IF d = c THEN w ELSE call[d]]
    BY DEF Goes, Swaps, w
  <2>2. QED
    BY <1>3, <2>1 DEF Known
<1>5. k.id \notin Ids => \A h \in i .. (stop - 1): run[h] \notin (SelSteps \ {"close", "closeIf"}) \cup {"edit"}
  <2> SUFFICES ASSUME k.id \notin Ids, NEW h \in i .. (stop - 1)
               PROVE  run[h] \notin (SelSteps \ {"close", "closeIf"}) \cup {"edit"}
    OBVIOUS
  <2>1. h \in DOMAIN run
    BY DEF Goes, Gone, Script
  <2>2. CASE run = k.run /\ ~Adding(k)
    BY <1>1, <2>1, <2>2 DEF CallKnown, Rowless, Lacks
  <2>3. CASE run = k.catch
    <3>1. Recovers(k.catch)
      BY <1>1, CatchIs
    <3>2. run[h] \in {"free", "reload"}
      BY <2>1, <2>3, <3>1 DEF Recovers
    <3>3. QED
      BY <3>2 DEF SelSteps
  <2>4. QED
    BY <1>2, <2>2, <2>3
<1>6. Gone(u, k, run, i) /\ ui' = After(u, k, run, i) /\ OpenRow(u.sel) /\ OpenRow(u.edit) /\ IsList(u.list)
  BY DEF Goes, Known
<1>7. Leads(u, ui') /\ OpenRow(ui'.sel) /\ OpenRow(ui'.edit)
  BY <1>5, <1>6 DEF Gone
<1>8. QED
  <2>1. page' = page /\ rows' = rows /\ u.filter = ui.filter /\ hist' = hist
    BY DEF Goes
  <2>2. FormedUi(ui') /\ IsList(ui'.list) /\ ui'.filter = ui.filter
    BY <1>6, <1>7, <2>1 DEF Leads
  <2>3. /\ rows' \in [Ids -> This.states \cup {None, Deleted}] /\ ui'.filter \in {This.first} \cup This.filters
        /\ hist' \in [events: Nat, stale: BOOLEAN, doubt: BOOLEAN, lag: SUBSET Ids]
    BY <2>1, <2>2 DEF Known
  <2>4. QED
    BY <1>1, <1>4, <1>7, <2>1, <2>2, <2>3, KnownNext

------------------------------------------------------------------------------
(* Locks.                                                                  *)

Holds(k, l) == k # Idle /\ k.lock = l /\ Later(k.run, k.at, {"free"}) /\ Has(k.catch, "free")

\* A free that is still to come of a run is done up to the next await, or is still to come.
LEMMA FreeComes ==
  ASSUME NEW u, NEW k, NEW run, Script(run), NEW i \in Nat \ {0}, i <= Len(run) + 1, NEW l, k.lock = l,
         Gone(u, k, run, i), NEW w, Waits(w, k, run, NextAwait(run, i)),
         NEW j \in DOMAIN run, j >= i, run[j] = "free", Has(k.catch, "free"), l \in After(u, k, run, i).busy
  PROVE  Holds(w, l)
<1> DEFINE stop == NextAwait(run, i)
<1>1. stop \in i .. (Len(run) + 1) /\ ~(j \in i .. (stop - 1))
  BY DEF Gone
<1>2. j \in Nat /\ j <= Len(run) /\ j >= stop
  BY <1>1 DEF Script
<1>3. stop \in DOMAIN run
  BY <1>1, <1>2 DEF Script
<1>4. w # Idle /\ w.run = run /\ w.at = stop /\ SameOf(w, k) /\ run[stop] \in Async
  BY <1>3 DEF Waits
<1>5. j > stop
  <2>1. j # stop
    BY <1>4 DEF Async
  <2>2. QED
    BY <1>1, <1>2, <2>1
<1>6. QED
  BY <1>4, <1>5 DEF Holds, Later, SameOf

\* An answer that comes leaves every lock in the hands of a call.
LEMMA LandLocks ==
  ASSUME Known, LocksHeld, NEW c \in Calls, call[c] # Idle, NEW u, NEW run, NEW i,
         Goes(c, u, run, i), Lands(call[c], u, run, i)
  PROVE  LocksHeld'
<1> SUFFICES ASSUME NEW l \in ui'.busy PROVE \E d \in Calls: Holds(call'[d], l)
  BY DEF LocksHeld, Holds
<1>1. ui' = After(u, call[c], run, i) /\ Gone(u, call[c], run, i) /\ u.busy = ui.busy
  BY DEF Goes
<1>2. l \in ui.busy
  BY <1>1 DEF Gone, Leads
<1>3. PICK d \in Calls: Holds(call[d], l)
  BY <1>2 DEF LocksHeld, Holds
<1>4. call' = [e \in Calls |-> IF e = c THEN Waiting(call[c], run, i) ELSE call[e]]
  BY DEF Goes, Swaps
<1>5. CASE d # c
  BY <1>3, <1>4, <1>5
<1>6. CASE d = c
  <2>1. page \in DOMAIN Pages /\ CallKnown(page, call[c])
    BY DEF Known
  <2>2. RunFacts(page, call[c])
    BY <2>1, RunOrdered
  <2>3. Script(run) /\ i \in Nat \ {0} /\ i <= Len(run) + 1
    BY DEF Goes
  <2>4. PICK j \in DOMAIN run: j >= i /\ run[j] = "free"
    <3>1. CASE run = call[c].run /\ i = call[c].at + 1
      <4>1. PICK j \in DOMAIN run: j > call[c].at /\ run[j] = "free"
        BY <1>3, <1>6, <3>1 DEF Holds, Later
      <4>2. j >= i
        BY <2>2, <2>3, <3>1, <4>1 DEF RunFacts, Script
      <4>3. QED
        BY <4>1, <4>2
    <3>2. CASE run = call[c].catch /\ i = 1
      BY <1>3, <1>6, <2>3, <3>2 DEF Holds, Has, Script
    <3>3. QED
      BY <3>1, <3>2 DEF Lands
  <2>5. Waits(Waiting(call[c], run, i), call[c], run, NextAwait(run, i))
    BY DEF Goes
  <2>6. call[c].lock = l /\ Has(call[c].catch, "free") /\ l \in After(u, call[c], run, i).busy
    BY <1>1, <1>3, <1>6 DEF Holds
  <2>7. Holds(Waiting(call[c], run, i), l)
    BY <1>1, <2>3, <2>4, <2>5, <2>6, FreeComes
  <2>8. QED
    BY <1>4, <2>7
<1>7. QED
  BY <1>5, <1>6

------------------------------------------------------------------------------
(* The server answers a call.                                              *)

\* The call with its answer.
Answers(w, k, id, a, got) ==
  /\ Formed(w) /\ w.run = k.run /\ w.at = k.at /\ w.id = id /\ w.from = k.from /\ w.to = k.to
  /\ w.filter = k.filter /\ w.sel = k.sel /\ w.catch = k.catch /\ w.panel = k.panel /\ w.all = k.all
  /\ w.lock = k.lock /\ w.ans = a /\ w.got = got /\ Awaits(w) = Awaits(k)

\* An answer changes nothing else of the call.
LEMMA AnswersIs ==
  ASSUME NEW k, Formed(k), NEW id, NEW a, NEW got
  PROVE  Answers([k EXCEPT !.id = id, !.ans = a, !.got = got], k, id, a, got)
<1> DEFINE w == [k EXCEPT !.id = id, !.ans = a, !.got = got]
<1>1. w \in [run: {k.run}, at: {k.at}, id: {id}, from: {k.from}, to: {k.to}, filter: {k.filter}, sel: {k.sel},
             form: {k.form}, n: {k.n}, catch: {k.catch}, panel: {k.panel}, all: {k.all}, lock: {k.lock},
             ans: {a}, got: {got}]
  BY DEF Formed
<1> HIDE DEF w
<1>2. w = [run |-> k.run, at |-> k.at, id |-> id, from |-> k.from, to |-> k.to, filter |-> k.filter, sel |-> k.sel,
           form |-> k.form, n |-> k.n, catch |-> k.catch, panel |-> k.panel, all |-> k.all, lock |-> k.lock,
           ans |-> a, got |-> got]
  BY <1>1
<1>3. Formed(w)
  BY <1>2 DEF Formed
<1>4. w.run = k.run /\ w.at = k.at /\ w.id = id /\ w.from = k.from /\ w.to = k.to /\ w.filter = k.filter
  BY <1>2
<1>5. w.sel = k.sel /\ w.catch = k.catch /\ w.panel = k.panel /\ w.all = k.all /\ w.lock = k.lock
  BY <1>2
<1>6. w.ans = a /\ w.got = got
  BY <1>2
<1>7. Answers(w, k, id, a, got)
  BY <1>3, <1>4, <1>5, <1>6 DEF Answers, Awaits
<1>8. QED
  BY <1>7 DEF w

\* The answer to a call of its own.
LEMMA AnswerIs ==
  ASSUME Known, NEW c \in Calls, call[c] # Idle, NEW a, NEW got, Answer(c, a, got)
  PROVE  \E w: Swaps(c, w) /\ Answers(w, call[c], call[c].id, a, got)
<1>1. Formed(call[c]) /\ call = [d \in Calls |-> call[d]]
  BY DEF Known, CallKnown
<1>2. PICK w: w = [call[c] EXCEPT !.id = call[c].id, !.ans = a, !.got = got]
  OBVIOUS
<1>3. w = [call[c] EXCEPT !.ans = a, !.got = got]
  BY <1>1, <1>2 DEF Formed
<1>4. Swaps(c, w)
  BY <1>1, <1>3 DEF Answer, Swaps
<1>5. Answers(w, call[c], call[c].id, a, got)
  BY <1>1, <1>2, AnswersIs
<1>6. QED
  BY <1>4, <1>5

\* What the server can do with a call k, and what its answer w then says.
Created(k, w) ==
  \E i \in Ids:
    /\ Awaits(k) \in {"add", "addHere", "put"} /\ (Awaits(k) = "put" => ~Live(k.id)) /\ rows[i] = None
    /\ rows' = [rows EXCEPT ![i] = k.to] /\ hist' = hist /\ Answers(w, k, i, "ok", k.to)
CreatedMany(k, w) ==
  /\ Awaits(k) = "addMany" /\ hist' = hist /\ Answers(w, k, k.id, "ok", None)
  /\ \E S \in SUBSET {i \in Ids: rows[i] = None}: \E E \in SUBSET S: rows' = Imported(S, E)
Done(c, k, w) ==
  /\ Awaits(k) \in RowCalls /\ Live(k.id) /\ (Awaits(k) = "settle" => rows[k.id] = k.from)
  /\ rows' = Changed(k) /\ Answers(w, k, k.id, "ok", rows'[k.id])
  /\ hist'.stale = hist.stale
  /\ hist'.doubt = (IF Awaits(k) = "fetch" /\ Alone(c) THEN FALSE
                    ELSE hist.doubt \/ (Awaits(k) = "enable" /\ Untold({k.id})))
  /\ hist'.lag = hist.lag \cup (IF Awaits(k) = "enable" THEN {k.id} ELSE {})
DoneOthers(k, w) ==
  /\ Awaits(k) \in {"post", "saveAll", "swap"}
  /\ rows' = Changed(k) /\ Answers(w, k, k.id, "ok", None)
  /\ hist'.stale = hist.stale /\ hist'.doubt = (hist.doubt \/ (Awaits(k) = "saveAll" /\ Untold(k.all)))
  /\ hist'.lag = (IF Awaits(k) = "swap" THEN Ids ELSE hist.lag)
Loaded(c, k, w) ==
  /\ Awaits(k) = "reload" /\ rows' = rows /\ Answers(w, k, k.id, "ok", Shown(k.filter))
  /\ hist'.stale = (IF k.filter = ui.filter /\ Alone(c) THEN FALSE ELSE hist.stale) /\ hist'.doubt = hist.doubt
Refused(k, w) ==
  /\ Awaits(k) \in RowCalls \cup {"add", "addHere", "addMany"} /\ (Awaits(k) = "fetch" => ~Live(k.id))
  /\ rows' = rows /\ hist' = hist /\ Answers(w, k, k.id, "error", None)
Failed(k, w) ==
  /\ Awaits(k) # "debounce" /\ Answers(w, k, k.id, "error", None)
  /\ hist'.stale /\ hist'.doubt

Serves(c, w) ==
  /\ call[c] # Idle /\ call[c].ans = "none" /\ page' = page /\ ui' = ui /\ Swaps(c, w)
  /\ hist' \in [events: Nat, stale: BOOLEAN, doubt: BOOLEAN, lag: SUBSET Ids]
  /\ \/ Created(call[c], w) \/ CreatedMany(call[c], w) \/ Done(c, call[c], w) \/ DoneOthers(call[c], w)
     \/ Loaded(c, call[c], w) \/ Refused(call[c], w) \/ (Failed(call[c], w) /\ Fault(c))

\* The server does one of these.
LEMMA ServeIs ==
  ASSUME Known, NEW c \in Calls, Serve(c)
  PROVE  \E w: Serves(c, w)
<1> DEFINE k == call[c]
<1>1. /\ call[c] # Idle /\ call[c].ans = "none" /\ page' = page /\ ui' = ui
      /\ hist \in [events: Nat, stale: BOOLEAN, doubt: BOOLEAN, lag: SUBSET Ids]
  BY DEF Serve, Known
<1>2. Formed(k) /\ call = [d \in Calls |-> call[d]]
  BY <1>1 DEF Known, CallKnown
<1>3. CASE ServeAdd(c)
  <2>1. PICK i \in Ids: /\ rows[i] = None /\ rows' = [rows EXCEPT ![i] = k.to] /\ hist' = hist
                        /\ call' = [call EXCEPT ![c].ans = "ok", ![c].id = i, ![c].got = k.to]
    BY <1>3 DEF ServeAdd
  <2>2. PICK w: w = [call[c] EXCEPT !.id = i, !.ans = "ok", !.got = k.to]
    OBVIOUS
  <2>3. Swaps(c, w)
    <3>1. w = [call[c] EXCEPT !.ans = "ok", !.id = i, !.got = k.to]
      BY <2>2
    <3>2. QED
      BY <1>2, <2>1, <3>1 DEF Swaps
  <2>4. Answers(w, k, i, "ok", k.to)
    BY <1>2, <2>2, AnswersIs
  <2>5. Created(k, w)
    BY <1>3, <2>1, <2>4 DEF Created, ServeAdd
  <2>6. QED
    BY <1>1, <2>1, <2>3, <2>5 DEF Serves
<1>m. CASE ServeMany(c)
  <2>1. \E S \in SUBSET {i \in Ids: rows[i] = None}: \E E \in SUBSET S: rows' = Imported(S, E)
    BY <1>m DEF ServeMany
  <2>2. Awaits(k) = "addMany" /\ Answer(c, "ok", None) /\ hist' = hist
    BY <1>m DEF ServeMany
  <2>3. PICK w: Swaps(c, w) /\ Answers(w, k, k.id, "ok", None)
    BY <1>1, <2>2, AnswerIs
  <2>4. CreatedMany(k, w)
    BY <2>1, <2>2, <2>3 DEF CreatedMany
  <2>5. QED
    BY <1>1, <2>2, <2>3, <2>4 DEF Serves
<1>4. CASE ServeRow(c)
  <2>1. /\ Awaits(k) \in RowCalls /\ Live(k.id) /\ (Awaits(k) = "settle" => rows[k.id] = k.from)
        /\ rows' = Changed(k) /\ Answer(c, "ok", Changed(k)[k.id])
    BY <1>4 DEF ServeRow
  <2>2. PICK w: Swaps(c, w) /\ Answers(w, k, k.id, "ok", Changed(k)[k.id])
    BY <1>1, <2>1, AnswerIs
  <2>3. /\ hist'.stale = hist.stale
        /\ hist'.doubt = (IF Awaits(k) = "fetch" /\ Alone(c) THEN FALSE
                          ELSE hist.doubt \/ (Awaits(k) = "enable" /\ Untold({k.id})))
        /\ hist'.lag = hist.lag \cup (IF Awaits(k) = "enable" THEN {k.id} ELSE {})
        /\ hist' \in [events: Nat, stale: BOOLEAN, doubt: BOOLEAN, lag: SUBSET Ids]
    <3>1. PICK doubt \in BOOLEAN: doubt = (IF Awaits(k) = "fetch" /\ Alone(c) THEN FALSE
                                           ELSE hist.doubt \/ (Awaits(k) = "enable" /\ Untold({k.id})))
      <4>1. hist.doubt \in BOOLEAN
        BY <1>1
      <4>2. (IF Awaits(k) = "fetch" /\ Alone(c) THEN FALSE
             ELSE hist.doubt \/ (Awaits(k) = "enable" /\ Untold({k.id}))) \in BOOLEAN
        BY <4>1
      <4>3. QED
        BY <4>2
    <3>2. PICK lag \in SUBSET Ids: lag = hist.lag \cup (IF Awaits(k) = "enable" THEN {k.id} ELSE {})
      <4>1. k.id \in Ids
        BY <1>1, <2>1, RowCallsRow DEF Known
      <4>2. QED
        BY <1>1, <4>1
    <3>3. hist' = [hist EXCEPT !.doubt = doubt, !.lag = lag]
      BY <1>4, <3>1, <3>2 DEF ServeRow
    <3>4. hist'.stale = hist.stale /\ hist'.doubt = doubt /\ hist'.lag = lag
      BY <1>1, <3>3
    <3>5. hist' \in [events: Nat, stale: BOOLEAN, doubt: BOOLEAN, lag: SUBSET Ids]
      BY <1>1, <3>3
    <3>6. QED
      BY <3>1, <3>2, <3>4, <3>5
  <2>4. Done(c, k, w)
    BY <2>1, <2>2, <2>3 DEF Done
  <2>5. QED
    BY <1>1, <2>2, <2>3, <2>4 DEF Serves
<1>5. CASE ServeOthers(c)
  <2>1. Awaits(k) \in {"post", "saveAll", "swap"} /\ rows' = Changed(k) /\ Answer(c, "ok", None)
    BY <1>5 DEF ServeOthers
  <2>2. PICK w: Swaps(c, w) /\ Answers(w, k, k.id, "ok", None)
    BY <1>1, <2>1, AnswerIs
  <2>3. /\ hist'.stale = hist.stale /\ hist'.doubt = (hist.doubt \/ (Awaits(k) = "saveAll" /\ Untold(k.all)))
        /\ hist'.lag = (IF Awaits(k) = "swap" THEN Ids ELSE hist.lag)
        /\ hist' \in [events: Nat, stale: BOOLEAN, doubt: BOOLEAN, lag: SUBSET Ids]
    <3>1. PICK doubt \in BOOLEAN: doubt = (hist.doubt \/ (Awaits(k) = "saveAll" /\ Untold(k.all)))
      <4>1. (hist.doubt \/ (Awaits(k) = "saveAll" /\ Untold(k.all))) \in BOOLEAN
        OBVIOUS
      <4>2. QED
        BY <4>1
    <3>2. PICK lag \in SUBSET Ids: lag = (IF Awaits(k) = "swap" THEN Ids ELSE hist.lag)
      BY <1>1
    <3>3. hist' = [hist EXCEPT !.doubt = doubt, !.lag = lag]
      BY <1>5, <3>1, <3>2 DEF ServeOthers
    <3>4. hist'.stale = hist.stale /\ hist'.doubt = doubt /\ hist'.lag = lag
      BY <1>1, <3>3
    <3>5. hist' \in [events: Nat, stale: BOOLEAN, doubt: BOOLEAN, lag: SUBSET Ids]
      BY <1>1, <3>3
    <3>6. QED
      BY <3>1, <3>2, <3>4, <3>5
  <2>4. DoneOthers(k, w)
    BY <2>1, <2>2, <2>3 DEF DoneOthers
  <2>5. QED
    BY <1>1, <2>2, <2>3, <2>4 DEF Serves
<1>6. CASE ServeReload(c)
  <2>1. Awaits(k) = "reload" /\ rows' = rows /\ Answer(c, "ok", Shown(k.filter))
    BY <1>6 DEF ServeReload
  <2>2. PICK w: Swaps(c, w) /\ Answers(w, k, k.id, "ok", Shown(k.filter))
    BY <1>1, <2>1, AnswerIs
  <2>3. /\ hist'.stale = (IF k.filter = ui.filter /\ Alone(c) THEN FALSE ELSE hist.stale) /\ hist'.doubt = hist.doubt
        /\ hist' \in [events: Nat, stale: BOOLEAN, doubt: BOOLEAN, lag: SUBSET Ids]
    <3>1. CASE k.filter = ui.filter /\ Alone(c)
      <4>1. hist' = [hist EXCEPT !.stale = FALSE, !.lag = {}]
        BY <1>6, <3>1 DEF ServeReload
      <4>2. hist'.stale = FALSE /\ hist'.doubt = hist.doubt
            /\ hist' \in [events: Nat, stale: BOOLEAN, doubt: BOOLEAN, lag: SUBSET Ids]
        BY <1>1, <4>1
      <4>3. QED
        BY <3>1, <4>2
    <3>2. CASE ~(k.filter = ui.filter /\ Alone(c))
      <4>1. hist' = hist
        BY <1>6, <3>2 DEF ServeReload
      <4>2. QED
        BY <1>1, <3>2, <4>1
    <3>3. QED
      BY <3>1, <3>2
  <2>4. Loaded(c, k, w)
    BY <2>1, <2>2, <2>3 DEF Loaded
  <2>5. QED
    BY <1>1, <2>2, <2>3, <2>4 DEF Serves
<1>7. CASE Refuse(c)
  <2>1. /\ Awaits(k) \in RowCalls \cup {"add", "addHere", "addMany"} /\ (Awaits(k) = "fetch" => ~Live(k.id))
        /\ rows' = rows /\ hist' = hist /\ Answer(c, "error", None)
    BY <1>7 DEF Refuse, RowCalls
  <2>2. PICK w: Swaps(c, w) /\ Answers(w, k, k.id, "error", None)
    BY <1>1, <2>1, AnswerIs
  <2>3. Refused(k, w)
    BY <2>1, <2>2 DEF Refused
  <2>4. QED
    BY <1>1, <2>1, <2>2, <2>3 DEF Serves
<1>8. CASE Fault(c)
  <2>1. Awaits(k) # "debounce" /\ Answer(c, "error", None)
    BY <1>8 DEF Fault
  <2>2. PICK w: Swaps(c, w) /\ Answers(w, k, k.id, "error", None)
    BY <1>1, <2>1, AnswerIs
  <2>3. hist'.stale /\ hist'.doubt /\ hist' \in [events: Nat, stale: BOOLEAN, doubt: BOOLEAN, lag: SUBSET Ids]
    <3>1. hist' = [hist EXCEPT !.events = @ + 1, !.stale = TRUE, !.doubt = TRUE]
      BY <1>8 DEF Fault
    <3>2. hist.events + 1 \in Nat
      BY <1>1
    <3>3. QED
      BY <1>1, <3>1, <3>2
  <2>4. Failed(k, w)
    BY <2>1, <2>2, <2>3 DEF Failed
  <2>5. QED
    BY <1>1, <1>8, <2>2, <2>3, <2>4 DEF Serves
<1>9. QED
  BY <1>3, <1>m, <1>4, <1>5, <1>6, <1>7, <1>8 DEF Serve

------------------------------------------------------------------------------
(* What is known of a call that writes: the button it runs.                *)

WriteRun(n, k, b) ==
  /\ b \in ButtonsOf(Pages[n]) /\ Disciplined(n, Pages[n], b) /\ RunsOf(n, k, b)
  /\ k.at = 1 /\ 1 \in DOMAIN b.run /\ DOMAIN k.run = DOMAIN b.run /\ Script(b.run) /\ Script(k.run)
  /\ b.run[1] = Awaits(k) /\ k.run[1] = Awaits(k)
  /\ \A j \in DOMAIN b.run: /\ k.run[j] = b.run[j] \/ (b.run[j] = "fetchIf" /\ k.run[j] = "fetch")
                            /\ Same(k) => k.run[j] # "fetchIf"

\* Only a button writes, and it does so first.
LEMMA WriteIs ==
  ASSUME NEW n \in DOMAIN Pages, NEW k, CallKnown(n, k), Awaits(k) \in Writes
  PROVE  \E b: WriteRun(n, k, b)
<1>1. RunFacts(n, k)
  BY RunOrdered
<1>2. k.at = 1 /\ 1 \in DOMAIN k.run /\ k.run[1] = Awaits(k)
  BY <1>1 DEF RunFacts, Awaits
<1>3. ~Loads(n, k)
  <2> SUFFICES ASSUME Loads(n, k) PROVE FALSE
    OBVIOUS
  <2>1. Disciplines(n, Pages[n])
    BY PagesDisciplined
  <2>2. k.run = <<"reload">> \/ k.run = <<"debounce", "reload">>
    BY <2>1 DEF Loads, Disciplines
  <2>3. k.run[1] \in {"reload", "debounce"}
    BY <2>2
  <2>4. QED
    BY <1>2, <2>3 DEF Writes
<1>4. PICK b \in ButtonsOf(Pages[n]): RunsOf(n, k, b)
  BY <1>3 DEF CallKnown
<1>5. Disciplined(n, Pages[n], b)
  BY PagesDisciplined DEF Disciplines
<1>6. k.run = Begun(b.run, k)
  <2> SUFFICES ASSUME k.run = b.catch PROVE FALSE
    BY <1>4 DEF RunsOf
  <2>1. Recovers(b.catch)
    BY <1>5 DEF Disciplined
  <2>2. k.run[1] \in {"free", "reload"}
    BY <1>2, <2>1 DEF Recovers
  <2>3. QED
    BY <1>2, <2>2 DEF Writes
<1>7. Script(b.run)
  BY <1>5 DEF Disciplined, Ordered
<1>8. /\ DOMAIN k.run = DOMAIN b.run /\ Script(k.run)
      /\ \A j \in DOMAIN b.run: /\ k.run[j] = b.run[j] \/ (b.run[j] = "fetchIf" /\ k.run[j] = "fetch")
                                /\ Same(k) => k.run[j] # "fetchIf"
  BY <1>6, <1>7, BegunRun
<1>9. b.run[1] = Awaits(k)
  BY <1>2, <1>8 DEF Writes
<1>10. QED
  BY <1>2, <1>4, <1>5, <1>7, <1>8, <1>9 DEF WriteRun

\* What is written is a state of the page's rows.
LEMMA WriteTo ==
  ASSUME NEW n \in DOMAIN Pages, NEW k, CallKnown(n, k), Awaits(k) \in Writes \ {"addMany", "touch", "post", "remove"}
  PROVE  k.to \in Pages[n].states
<1>1. PICK b: WriteRun(n, k, b)
  BY WriteIs
<1>2. ~Lacks(b.run, Writes \ {"addMany", "touch", "post", "remove"})
  BY <1>1 DEF WriteRun, Lacks
<1>3. \E m \in b.moves: k.from = m[1] /\ k.to = m[2]
  BY <1>1 DEF WriteRun, RunsOf
<1>4. \A m \in b.moves: m[2] \in Pages[n].states
  BY <1>1, <1>2 DEF WriteRun, Disciplined
<1>5. QED
  BY <1>3, <1>4

\* Who creates a row asks for no row to be fetched again.
LEMMA AddFetches ==
  ASSUME NEW n \in DOMAIN Pages, NEW k, CallKnown(n, k), Awaits(k) \in {"add", "addHere", "put"},
         NEW b, WriteRun(n, k, b)
  PROVE  Lacks(b.run, {"fetchIf"})
<1>1. KeepsPanel(n, Pages[n], b)
  BY DEF WriteRun, Disciplined
<1>2. CASE n # "missions"
  BY <1>1, <1>2 DEF KeepsPanel, Lacks, Fetches
<1>3. CASE n = "missions"
  <2>1. n \in WithPanel
    BY <1>3 DEF WithPanel
  <2>2. Mends(Pages[n], b, b.run[1]) /\ b.run[1] \in {"add", "addHere", "put"}
    BY <1>1, <2>1 DEF KeepsPanel, WriteRun, Writes
  <2> DEFINE by == {b.run[j]: j \in DOMAIN b.run} \cap (SelSteps \cup Fetches)
  <2>3. by \in {{}, {"selectNew"}, {"selectNew", "fetch"}}
    BY <2>2 DEF Mends
  <2>4. QED
    BY <2>3 DEF Lacks, Fetches
<1>4. QED
  BY <1>2, <1>3

------------------------------------------------------------------------------
(* A served call stays known.                                              *)

\* The table stays a table.
LEMMA ChangedRows ==
  ASSUME Known, NEW k, Awaits(k) \in {"save", "enable", "settle", "saveAll", "swap"} => k.to \in This.states
  PROVE  Changed(k) \in [Ids -> This.states \cup {None, Deleted}]
<1>1. rows \in [Ids -> This.states \cup {None, Deleted}]
  BY DEF Known
<1>2. CASE Awaits(k) \in {"save", "enable", "settle"}
  BY <1>1, <1>2 DEF Changed
<1>3. CASE Awaits(k) = "remove"
  BY <1>1, <1>3 DEF Changed
<1>4. CASE Awaits(k) \in {"saveAll", "swap"}
  BY <1>1, <1>4 DEF Changed
<1>5. CASE Awaits(k) \notin {"save", "enable", "settle", "remove", "saveAll", "swap"}
  BY <1>1, <1>5 DEF Changed
<1>6. QED
  BY <1>2, <1>3, <1>4, <1>5

\* Who creates many rows asks for them on a page whose rows are switched on and off.
LEMMA ManyStates ==
  ASSUME NEW n \in DOMAIN Pages, NEW k, CallKnown(n, k), Awaits(k) = "addMany"
  PROVE  {"enabled", "disabled"} \subseteq Pages[n].states
<1>1. PICK b: WriteRun(n, k, b)
  BY WriteIs DEF Writes
<1>2. Has(b.run, "addMany")
  BY <1>1 DEF WriteRun, Has
<1>3. Switched \subseteq Pages[n].states
  BY <1>1, <1>2 DEF WriteRun, Disciplined
<1>4. QED
  BY <1>3 DEF Switched

\* The table with the rows that are imported is a table.
LEMMA ImportedRows ==
  ASSUME Known, NEW k, CallKnown(page, k), Awaits(k) = "addMany", NEW S, NEW E
  PROVE  Imported(S, E) \in [Ids -> This.states \cup {None, Deleted}]
<1>1. rows \in [Ids -> This.states \cup {None, Deleted}] /\ {"enabled", "disabled"} \subseteq This.states
  BY ManyStates DEF Known, This
<1>2. QED
  BY <1>1 DEF Imported

\* So it is when a call fails half way.
LEMMA FaultRows ==
  ASSUME Known, NEW c \in Calls, call[c] # Idle, Fault(c)
  PROVE  rows' \in [Ids -> This.states \cup {None, Deleted}]
<1> DEFINE k == call[c]
<1>1. rows \in [Ids -> This.states \cup {None, Deleted}] /\ CallKnown(page, k) /\ page \in DOMAIN Pages
  BY DEF Known
<1>2. Awaits(k) \in {"add", "addHere", "save", "enable", "settle", "saveAll", "swap"} => k.to \in This.states
  BY <1>1, WriteTo DEF Writes, This
<1>3. rows' = rows \/ rows' \in Effects(c)
  BY DEF Fault
<1>4. ASSUME rows' \in Effects(c) PROVE rows' \in [Ids -> This.states \cup {None, Deleted}]
  <2>1. CASE Awaits(k) \in {"add", "addHere"}
    <3>1. PICK i \in Ids: rows' = [rows EXCEPT ![i] = k.to]
      BY <1>4, <2>1 DEF Effects, RowCalls
    <3>2. QED
      BY <1>1, <1>2, <2>1, <3>1
  <2>2. CASE Awaits(k) \in RowCalls
    <3>1. rows' = Changed(k)
      BY <1>4, <2>2 DEF Effects, RowCalls
    <3>2. QED
      BY <1>2, <3>1, ChangedRows
  <2>3. CASE Awaits(k) = "saveAll"
    <3>0. Awaits(k) \notin RowCalls \cup {"add", "addHere"}
      BY <2>3 DEF RowCalls
    <3>5. Effects(c) = {Changed([k EXCEPT !.all = some]): some \in SUBSET k.all}
      BY <2>3, <3>0 DEF Effects
    <3>1. PICK some: rows' = Changed([k EXCEPT !.all = some])
      BY <1>4, <3>5
    <3>2. PICK k2: k2 = [k EXCEPT !.all = some]
      OBVIOUS
    <3>3. Formed(k)
      BY <1>1 DEF CallKnown
    <3>4. k2.to = k.to
      BY <3>2, <3>3 DEF Formed
    <3>6. QED
      BY <1>2, <2>3, <3>1, <3>2, <3>4, ChangedRows
  <2>m. CASE Awaits(k) = "addMany"
    <3>1. PICK S, E \in SUBSET {i \in Ids: rows[i] = None}: rows' = Imported(S, E)
      BY <1>4, <2>m DEF Effects, RowCalls
    <3>2. QED
      BY <1>1, <2>m, <3>1, ImportedRows
  <2>4. CASE Awaits(k) \notin RowCalls \cup {"add", "addHere", "saveAll", "addMany"}
    BY <1>1, <1>4, <2>4 DEF Effects
  <2>5. QED
    BY <2>1, <2>2, <2>3, <2>m, <2>4
<1>5. QED
  BY <1>1, <1>3, <1>4

\* The call with its answer is known.
LEMMA AnsweredKnown ==
  ASSUME NEW n \in DOMAIN Pages, NEW k, CallKnown(n, k), NEW id, NEW a \in {"ok", "error"}, NEW got, NEW w,
         Answers(w, k, id, a, got), Awaits(k) # "debounce", Awaits(k) = "reload" /\ a = "ok" => IsList(got),
         id = k.id \/ (id \in Ids /\ Awaits(k) \in {"add", "addHere", "put"}),
         Awaits(k) \in {"add", "addHere"} /\ a = "ok" => id \in Ids
  PROVE  CallKnown(n, w)
<1>1. Formed(w) /\ w.at \in DOMAIN w.run /\ Awaits(w) \in Async /\ w.ans \in {"none", "ok", "error"}
  BY DEF Answers, CallKnown
<1>2. w.id \in Ids \/ Adding(w) \/ Rowless(w.run)
  BY DEF Answers, CallKnown, Adding
<1>3. Loads(n, k) => Loads(n, w)
  BY DEF Answers, Loads
<1>4. ASSUME ~Loads(n, k) PROVE \E b \in ButtonsOf(Pages[n]): RunsOf(n, w, b)
  <2>1. CASE id = k.id
    <3>1. \A r: Begun(r, w) = Begun(r, k)
      BY <2>1 DEF Answers, Begun, Same
    <3>2. PICK b \in ButtonsOf(Pages[n]): RunsOf(n, k, b)
      BY <1>4 DEF CallKnown
    <3>3. RunsOf(n, w, b)
      BY <3>1, <3>2 DEF Answers, RunsOf
    <3>4. QED
      BY <3>3
  <2>2. CASE Awaits(k) \in {"add", "addHere", "put"}
    <3>1. PICK b: WriteRun(n, k, b)
      BY <2>2, WriteIs DEF Writes
    <3>2. Lacks(b.run, {"fetchIf"})
      BY <2>2, <3>1, AddFetches
    <3>3. Begun(b.run, w) = Begun(b.run, k)
      BY <3>2 DEF Begun, Lacks
    <3>4. RunsOf(n, w, b) /\ b \in ButtonsOf(Pages[n])
      BY <3>1, <3>3 DEF Answers, WriteRun, RunsOf
    <3>5. QED
      BY <3>4
  <2>3. QED
    BY <2>1, <2>2
<1>5. Awaits(w) = "reload" /\ w.ans = "ok" => IsList(w.got)
  BY DEF Answers
<1>6. Awaits(w) # "debounce"
  BY DEF Answers
<1>7. QED
  BY <1>1, <1>2, <1>3, <1>4, <1>5, <1>6 DEF CallKnown

\* What the server does leaves everything known.
LEMMA ServeKnown ==
  ASSUME Known, NEW c \in Calls, NEW w, Serves(c, w)
  PROVE  Known'
<1> DEFINE k == call[c]
<1>1. /\ page \in DOMAIN Pages /\ CallKnown(page, k) /\ page' = page /\ ui' = ui
      /\ rows \in [Ids -> This.states \cup {None, Deleted}]
  BY DEF Known, Serves
<1>2. Awaits(k) \in {"add", "addHere", "put", "save", "enable", "settle", "saveAll", "swap"} => k.to \in This.states
  BY <1>1, WriteTo DEF Writes, This
<1>3. rows' \in [Ids -> This.states \cup {None, Deleted}]
  <2>1. CASE Created(k, w)
    BY <1>1, <1>2, <2>1 DEF Created
  <2>m. CASE CreatedMany(k, w)
    <3>1. PICK S \in SUBSET {i \in Ids: rows[i] = None}: \E E \in SUBSET S: rows' = Imported(S, E)
      BY <2>m DEF CreatedMany
    <3>3. PICK E \in SUBSET S: rows' = Imported(S, E)
      BY <3>1
    <3>2. QED
      BY <1>1, <2>m, <3>1, <3>3, ImportedRows DEF CreatedMany
  <2>2. CASE Done(c, k, w) \/ DoneOthers(k, w)
    BY <1>2, <2>2, ChangedRows DEF Done, DoneOthers
  <2>3. CASE Loaded(c, k, w) \/ Refused(k, w)
    BY <1>1, <2>3 DEF Loaded, Refused
  <2>4. CASE Fault(c)
    BY <2>4, FaultRows DEF Serves
  <2>5. QED
    BY <2>1, <2>m, <2>2, <2>3, <2>4 DEF Serves
<1>4. CallKnown(page, w)
  <2>1. CASE Created(k, w)
    <3>1. PICK i \in Ids: Awaits(k) \in {"add", "addHere", "put"} /\ Answers(w, k, i, "ok", k.to)
      BY <2>1 DEF Created
    <3>2. QED
      BY <1>1, <3>1, AnsweredKnown
  <2>2. CASE Done(c, k, w)
    <3>1. Awaits(k) \in RowCalls /\ Answers(w, k, k.id, "ok", rows'[k.id])
      BY <2>2 DEF Done
    <3>2. QED
      BY <1>1, <3>1, AnsweredKnown DEF RowCalls
  <2>3. CASE DoneOthers(k, w)
    <3>1. Awaits(k) \in {"post", "saveAll", "swap"} /\ Answers(w, k, k.id, "ok", None)
      BY <2>3 DEF DoneOthers
    <3>2. QED
      BY <1>1, <3>1, AnsweredKnown
  <2>m. CASE CreatedMany(k, w)
    <3>1. Awaits(k) = "addMany" /\ Answers(w, k, k.id, "ok", None)
      BY <2>m DEF CreatedMany
    <3>2. QED
      BY <1>1, <3>1, AnsweredKnown
  <2>4. CASE Loaded(c, k, w)
    <3>1. Awaits(k) = "reload" /\ Answers(w, k, k.id, "ok", Shown(k.filter))
      BY <2>4 DEF Loaded
    <3>2. IsList(Shown(k.filter))
      BY DEF IsList, Shown
    <3>3. QED
      BY <1>1, <3>1, <3>2, AnsweredKnown
  <2>5. CASE Refused(k, w) \/ Failed(k, w)
    <3>1. Awaits(k) # "debounce" /\ Answers(w, k, k.id, "error", None)
      BY <2>5 DEF Refused, Failed, RowCalls
    <3>2. QED
      BY <1>1, <3>1, AnsweredKnown
  <2>6. QED
    BY <2>1, <2>2, <2>3, <2>m, <2>4, <2>5 DEF Serves
<1>5. call' = [d \in Calls |-> call'[d]] /\ \A d \in Calls: call'[d] = Idle \/ CallKnown(page, call'[d])
  <2>1. call' = [d \in Calls |-> IF d = c THEN w ELSE call[d]]
    BY DEF Serves, Swaps
  <2>2. QED
    BY <1>4, <2>1 DEF Known
<1>6. /\ FormedUi(ui') /\ IsList(ui'.list) /\ ui'.filter \in {This.first} \cup This.filters
      /\ OpenRow(ui'.sel) /\ OpenRow(ui'.edit)
  BY <1>1 DEF Known
<1>7. hist' \in [events: Nat, stale: BOOLEAN, doubt: BOOLEAN, lag: SUBSET Ids]
  BY DEF Serves
<1>8. QED
  BY <1>1, <1>3, <1>5, <1>6, <1>7, KnownNext

\* Whatever the server does is an answer.
LEMMA AnswersSome ==
  ASSUME NEW c \in Calls, NEW w, Serves(c, w)
  PROVE  \E id, a, got: Answers(w, call[c], id, a, got) /\ a \in {"ok", "error"}
<1>1. CASE Created(call[c], w)
  BY <1>1 DEF Created
<1>m. CASE CreatedMany(call[c], w)
  BY <1>m DEF CreatedMany
<1>2. CASE Done(c, call[c], w)
  BY <1>2 DEF Done
<1>3. CASE DoneOthers(call[c], w)
  BY <1>3 DEF DoneOthers
<1>4. CASE Loaded(c, call[c], w)
  BY <1>4 DEF Loaded
<1>5. CASE Refused(call[c], w) \/ Failed(call[c], w)
  BY <1>5 DEF Refused, Failed
<1>6. QED
  BY <1>1, <1>m, <1>2, <1>3, <1>4, <1>5 DEF Serves

\* It leaves every lock where it is.
LEMMA ServeLocks ==
  ASSUME Known, LocksHeld, NEW c \in Calls, NEW w, Serves(c, w)
  PROVE  LocksHeld'
<1>1. ui' = ui /\ call[c].ans = "none" /\ call' = [d \in Calls |-> IF d = c THEN w ELSE call[d]]
  BY DEF Serves, Swaps
<1>2. \E id, a, got: Answers(w, call[c], id, a, got) /\ a \in {"ok", "error"}
  BY AnswersSome
<1>3. w.run = call[c].run /\ w.at = call[c].at /\ w.catch = call[c].catch /\ w.lock = call[c].lock /\ w # Idle
  BY <1>2, IdleFields DEF Answers
<1>4. SUFFICES ASSUME NEW l \in ui'.busy PROVE \E d \in Calls: Holds(call'[d], l)
  BY DEF LocksHeld, Holds
<1>5. PICK d \in Calls: Holds(call[d], l)
  BY <1>1, <1>4 DEF LocksHeld, Holds
<1>6. Holds(call'[d], l)
  BY <1>1, <1>3, <1>5 DEF Holds
<1>7. QED
  BY <1>6

------------------------------------------------------------------------------
(* A button is pressed, a filter chosen.                                   *)

\* What a handler has when it begins.
Fresh(id, from, to, filter, sel, form, n, catch, lock, panel, all) ==
  [run |-> <<>>, at |-> 0, id |-> id, from |-> from, to |-> to, filter |-> filter, sel |-> sel,
   form |-> form, n |-> n, catch |-> catch, panel |-> panel, all |-> all, lock |-> lock,
   ans |-> "none", got |-> None]

\* That is a call.
LEMMA FreshIs ==
  ASSUME NEW id, NEW from, NEW to, NEW filter, NEW sel, NEW form, NEW n, NEW catch, NEW lock, NEW panel, NEW all,
         NEW k, k = Fresh(id, from, to, filter, sel, form, n, catch, lock, panel, all)
  PROVE  /\ Formed(k) /\ k.id = id /\ k.from = from /\ k.to = to /\ k.filter = filter /\ k.sel = sel
         /\ k.catch = catch /\ k.lock = lock /\ k.panel = panel /\ k.all = all
<1>1. Formed(k)
  BY DEF Formed, Fresh
<1>2. k.id = id /\ k.from = from /\ k.to = to /\ k.filter = filter /\ k.sel = sel
  BY DEF Fresh
<1>3. k.catch = catch /\ k.lock = lock /\ k.panel = panel /\ k.all = all
  BY DEF Fresh
<1>4. QED
  BY <1>1, <1>2, <1>3

\* Every handler begins so.
LEMMA BeginIs ==
  ASSUME NEW id, NEW from, NEW to, NEW filter, NEW sel, NEW form, NEW n, NEW catch, NEW lock, NEW panel, NEW all
  PROVE  [Idle EXCEPT !.id = id, !.from = from, !.to = to, !.filter = filter, !.sel = sel, !.form = form,
                      !.n = n, !.catch = catch, !.lock = lock, !.panel = panel, !.all = all]
           = Fresh(id, from, to, filter, sel, form, n, catch, lock, panel, all)
<1> DEFINE k == [Idle EXCEPT !.id = id, !.from = from, !.to = to, !.filter = filter, !.sel = sel, !.form = form,
                             !.n = n, !.catch = catch, !.lock = lock, !.panel = panel, !.all = all]
<1>1. k \in [run: {<<>>}, at: {0}, id: {id}, from: {from}, to: {to}, filter: {filter}, sel: {sel},
             form: {form}, n: {n}, catch: {catch}, panel: {panel}, all: {all}, lock: {lock},
             ans: {"none"}, got: {None}]
  BY DEF Idle
<1> HIDE DEF k
<1>2. k = Fresh(id, from, to, filter, sel, form, n, catch, lock, panel, all)
  BY <1>1 DEF Fresh
<1>3. QED
  BY <1>2 DEF k

\* Where a handler that the user starts takes the page.
Starts(c, k, u, run) ==
  /\ call[c] = Idle /\ Formed(k) /\ Script(run) /\ FormedUi(u)
  /\ u.list = ui.list /\ u.sel = ui.sel /\ u.edit = ui.edit /\ u.here = ui.here
  /\ ui' = After(u, k, run, 1) /\ Gone(u, k, run, 1)
  /\ Waits(Waiting(k, run, 1), k, run, NextAwait(run, 1))
  /\ page' = page /\ rows' = rows
  /\ hist' \in [events: Nat, stale: BOOLEAN, doubt: BOOLEAN, lag: SUBSET Ids]

\* What a lock that is taken adds.
Took(u, v, k) ==
  /\ FormedUi(v) /\ v.list = u.list /\ v.filter = u.filter /\ v.sel = u.sel /\ v.edit = u.edit /\ v.here = u.here
  /\ v.busy \subseteq u.busy \cup (IF k.lock.name = "" THEN {} ELSE {k.lock})

\* It adds itself at most.
LEMMA TakeIs ==
  ASSUME NEW u, FormedUi(u), NEW k
  PROVE  Took(u, Take(u, k), k)
<1>1. CASE k.lock.name = ""
  BY <1>1 DEF Take, Took
<1>2. CASE k.lock.name # ""
  <2>1. PICK busy: busy = (IF k.lock.kind \in {"last", "each"} THEN {l \in u.busy: l.name # k.lock.name} ELSE u.busy)
                          \cup {k.lock}
    OBVIOUS
  <2>2. PICK v: v = [u EXCEPT !.busy = busy]
    OBVIOUS
  <2>3. Take(u, k) = v
    BY <1>2, <2>1, <2>2 DEF Take
  <2>4. v \in [list: {u.list}, filter: {u.filter}, sel: {u.sel}, form: {u.form}, edit: {u.edit},
               shown: {u.shown}, busy: {busy}, here: {u.here}]
    BY <2>2 DEF FormedUi
  <2>5. v = [list |-> u.list, filter |-> u.filter, sel |-> u.sel, form |-> u.form, edit |-> u.edit,
             shown |-> u.shown, busy |-> busy, here |-> u.here]
    BY <2>4
  <2>6. FormedUi(v) /\ v.list = u.list /\ v.filter = u.filter /\ v.sel = u.sel /\ v.edit = u.edit
    BY <2>5 DEF FormedUi
  <2>7. v.here = u.here /\ v.busy = busy
    BY <2>5
  <2>8. Took(u, v, k)
    BY <1>2, <2>1, <2>6, <2>7 DEF Took
  <2>9. QED
    BY <2>3, <2>8
<1>3. QED
  BY <1>1, <1>2

\* What a press does to the doubts.
Doubts(h, run, id, panel) ==
  /\ h \in [events: Nat, stale: BOOLEAN, doubt: BOOLEAN, lag: SUBSET Ids]
  /\ h.stale = (hist.stale \/ (Calling(run) /\ ~Quiet))
  /\ h.lag = hist.lag \cup (IF Has(run, "flipRow") /\ panel /\ hist.doubt THEN {id} ELSE {})
  /\ h.doubt = (\/ IF Has(run, "select") THEN hist.stale \/ id \in hist.lag ELSE hist.doubt
                \/ ~Quiet
                \/ Has(run, "flipRow") /\ ~panel /\ id \in hist.lag /\ Untold({id}))

\* It says so.
LEMMA DisturbsIs ==
  ASSUME hist \in [events: Nat, stale: BOOLEAN, doubt: BOOLEAN, lag: SUBSET Ids], NEW run, NEW panel \in BOOLEAN,
         NEW id, panel => id \in Ids
  PROVE  Doubts(Disturbs(run, id, panel), run, id, panel)
<1>1. ("select" \in Range(run) <=> Has(run, "select")) /\ ("flipRow" \in Range(run) <=> Has(run, "flipRow"))
  BY DEF Range, Has
<1>2. PICK stale: stale = (hist.stale \/ (Calling(run) /\ ~Quiet))
  OBVIOUS
<1>3. PICK doubt: doubt = (\/ IF "select" \in Range(run) THEN hist.stale \/ id \in hist.lag ELSE hist.doubt
                           \/ ~Quiet
                           \/ "flipRow" \in Range(run) /\ ~panel /\ id \in hist.lag /\ Untold({id}))
  OBVIOUS
<1>l. PICK lag: lag = hist.lag \cup (IF "flipRow" \in Range(run) /\ panel /\ hist.doubt THEN {id} ELSE {})
  OBVIOUS
<1>4. PICK h: h = [hist EXCEPT !.events = @ + 1, !.stale = stale, !.lag = lag, !.doubt = doubt]
  OBVIOUS
<1>5. Disturbs(run, id, panel) = h
  BY <1>2, <1>3, <1>l, <1>4 DEF Disturbs
<1>6. stale \in BOOLEAN /\ doubt \in BOOLEAN /\ hist.events + 1 \in Nat
  BY <1>2, <1>3
<1>s. lag \in SUBSET Ids
  BY <1>l
<1>7. h \in [events: Nat, stale: BOOLEAN, doubt: BOOLEAN, lag: SUBSET Ids] /\ h.stale = stale /\ h.doubt = doubt
      /\ h.lag = lag
  BY <1>4, <1>6, <1>s
<1>8. Doubts(h, run, id, panel)
  BY <1>1, <1>2, <1>3, <1>l, <1>7 DEF Doubts
<1>9. QED
  BY <1>5, <1>8

\* Where a script begins to wait.
First(run) ==
  \/ 1 \in DOMAIN run /\ run[1] \in Async /\ NextAwait(run, 1) = 1
  \/ Lacks(run, Async) /\ NextAwait(run, 1) = Len(run) + 1 /\ NextAwait(run, 1) \notin DOMAIN run
  \/ run = <<"select", "fetch">> /\ NextAwait(run, 1) = 2 /\ 2 \in DOMAIN run /\ run[1] = "select" /\ run[2] = "fetch"

\* It begins with a call, waits for none, or selects a row and fetches it.
LEMMA FirstIs ==
  ASSUME NEW run, Script(run), (1 \in DOMAIN run /\ run[1] \in Async) \/ Lacks(run, Async) \/ run = <<"select", "fetch">>
  PROVE  First(run)
<1> DEFINE stop == NextAwait(run, 1)
<1>1. /\ stop \in 1 .. (Len(run) + 1) /\ (stop \in DOMAIN run => run[stop] \in Async)
      /\ \A h \in 1 .. (stop - 1): run[h] \notin Async
  <2>1. 1 \in Nat \ {0} /\ 1 <= Len(run) + 1
    BY DEF Script
  <2>2. QED
    BY <2>1, NextAwaitIs
<1>2. Len(run) \in Nat /\ DOMAIN run = 1 .. Len(run)
  BY DEF Script
<1> HIDE DEF stop
<1>3. CASE 1 \in DOMAIN run /\ run[1] \in Async
  <2>1. stop = 1
    BY <1>1, <1>2, <1>3
  <2>2. QED
    BY <1>3, <2>1 DEF First, stop
<1>4. CASE Lacks(run, Async)
  <2>1. stop = Len(run) + 1 /\ stop \notin DOMAIN run
    BY <1>1, <1>2, <1>4 DEF Lacks
  <2>2. QED
    BY <1>4, <2>1 DEF First, stop
<1>5. CASE run = <<"select", "fetch">>
  <2>1. Len(run) = 2 /\ run[1] = "select" /\ run[2] = "fetch"
    BY <1>5
  <2>2. run[1] \notin Async /\ run[2] \in Async
    BY <2>1 DEF Async
  <2>3. stop = 2
    BY <1>1, <1>2, <2>1, <2>2
  <2>4. 2 \in DOMAIN run
    BY <1>2, <2>1
  <2>5. QED
    BY <1>5, <2>1, <2>3, <2>4 DEF First, stop
<1>6. QED
  BY <1>3, <1>4, <1>5

\* Whether a script waits at all does not depend on what is selected.
LEMMA CallingIs ==
  ASSUME NEW run, Ordered(run), NEW k
  PROVE  First(Begun(run, k)) /\ (Calling(run) <=> NextAwait(Begun(run, k), 1) \in DOMAIN Begun(run, k))
<1> DEFINE r == Begun(run, k)
<1>1. /\ DOMAIN r = DOMAIN run /\ Script(r) /\ Script(run)
      /\ \A j \in DOMAIN run: r[j] = run[j] \/ (run[j] = "fetchIf" /\ r[j] = "fetch")
  BY BegunRun DEF Ordered
<1>2. (1 \in DOMAIN run /\ run[1] \in Async) \/ Lacks(run, Awaited) \/ run = <<"select", "fetch">>
  BY DEF Ordered
<1> HIDE DEF r
<1>3. CASE 1 \in DOMAIN run /\ run[1] \in Async
  <2>1. r[1] \in Async /\ 1 \in DOMAIN r
    BY <1>1, <1>3 DEF Async
  <2>2. First(r) /\ First(run)
    BY <1>1, <1>3, <2>1, FirstIs
  <2>3. QED
    BY <1>1, <1>3, <2>1, <2>2 DEF First, Lacks, Calling, r
<1>4. CASE Lacks(run, Awaited)
  <2>1. Lacks(r, Async) /\ Lacks(run, Async)
    BY <1>1, <1>4 DEF Lacks, Awaited, Async, Fetches
  <2>2. First(r) /\ First(run)
    BY <1>1, <2>1, FirstIs
  <2>3. QED
    <3>1. NextAwait(r, 1) \notin DOMAIN r
      BY <2>1, <2>2 DEF First, Lacks, Async
    <3>2. NextAwait(run, 1) \notin DOMAIN run
      BY <2>1, <2>2 DEF First, Lacks, Async
    <3>3. QED
      BY <2>2, <3>1, <3>2 DEF Calling, r
<1>5. CASE run = <<"select", "fetch">>
  <2>1. r = run
    <3>1. Lacks(run, {"fetchIf"})
      <4>1. DOMAIN run = 1 .. 2 /\ run[1] = "select" /\ run[2] = "fetch"
        BY <1>5
      <4>2. QED
        BY <4>1 DEF Lacks
    <3>2. run = [j \in DOMAIN run |-> run[j]]
      BY <1>5
    <3>3. QED
      BY <3>1, <3>2 DEF r, Begun, Lacks
  <2>2. First(run)
    BY <1>1, <1>5, FirstIs
  <2>3. NextAwait(run, 1) \in DOMAIN run
    BY <1>5, <2>2 DEF First, Lacks, Async
  <2>4. QED
    BY <2>1, <2>2, <2>3 DEF Calling, r
<1>6. QED
  BY <1>2, <1>3, <1>4, <1>5

\* A button pressed in row id: its handler begins with what the page shows.
Presses(c, b, id, m, panel, k, u) ==
  /\ Starts(c, k, u, Begun(b.run, k)) /\ u.filter = ui.filter
  /\ u.busy \subseteq ui.busy \cup (IF k.lock.name = "" THEN {} ELSE {k.lock})
  /\ Swaps(c, Waiting(k, Begun(b.run, k), 1)) /\ Doubts(hist', b.run, id, panel)
  /\ k.id = id /\ k.from = m[1] /\ k.to = m[2] /\ k.filter = ui.filter /\ k.sel = ui.sel /\ k.catch = b.catch
  /\ k.lock.name = b.lock.name /\ k.panel = panel /\ k.all = {i \in Ids: ui.list[i] # None}
  /\ IF panel THEN OffersOnPanel(b, id, m[1]) /\ id \in Ids ELSE OffersElsewhere(b, id, m[1])

\* So a press does.
LEMMA PressIs ==
  ASSUME Known, NEW c \in Calls, NEW b \in Buttons, NEW id, NEW m \in b.moves, NEW panel \in BOOLEAN, Press(c, b, id, m, panel)
  PROVE  \E k, u: Presses(c, b, id, m, panel, k, u)
<1>1. /\ page \in DOMAIN Pages /\ FormedUi(ui) /\ call = [d \in Calls |-> call[d]]
      /\ hist \in [events: Nat, stale: BOOLEAN, doubt: BOOLEAN, lag: SUBSET Ids]
  BY DEF Known
<1>2. Disciplined(page, This, b)
  BY <1>1, PagesDisciplined DEF Disciplines, Buttons, This
<1>p. IF panel THEN OffersOnPanel(b, id, m[1]) /\ id \in Ids ELSE OffersElsewhere(b, id, m[1])
  <2>1. IF panel THEN OffersOnPanel(b, id, m[1]) ELSE OffersElsewhere(b, id, m[1])
    BY DEF Press
  <2>2. OpenRow(ui.sel)
    BY DEF Known
  <2>3. OffersOnPanel(b, id, m[1]) => id \in Ids
    BY <2>2 DEF OffersOnPanel, OpenRow, Open
  <2>4. QED
    BY <2>1, <2>3
<1>3. PICK k: /\ k = [Idle EXCEPT !.id = id, !.from = m[1], !.to = m[2], !.filter = ui.filter, !.sel = ui.sel,
                                  !.form = ui.form, !.n = hist.events + 1, !.catch = b.catch,
                                  !.lock = Key(b, id, hist.events + 1), !.panel = panel,
                                  !.all = {i \in Ids: ui.list[i] # None}]
              /\ Formed(k) /\ k.id = id /\ k.from = m[1] /\ k.to = m[2] /\ k.filter = ui.filter /\ k.sel = ui.sel
              /\ k.catch = b.catch /\ k.lock = Key(b, id, hist.events + 1) /\ k.panel = panel
              /\ k.all = {i \in Ids: ui.list[i] # None}
  <2>1. PICK k: k = [Idle EXCEPT !.id = id, !.from = m[1], !.to = m[2], !.filter = ui.filter, !.sel = ui.sel,
                                 !.form = ui.form, !.n = hist.events + 1, !.catch = b.catch,
                                 !.lock = Key(b, id, hist.events + 1), !.panel = panel,
                                 !.all = {i \in Ids: ui.list[i] # None}]
    OBVIOUS
  <2>2. k = Fresh(id, m[1], m[2], ui.filter, ui.sel, ui.form, hist.events + 1, b.catch,
                  Key(b, id, hist.events + 1), panel, {i \in Ids: ui.list[i] # None})
    BY <2>1, BeginIs
  <2>3. /\ Formed(k) /\ k.id = id /\ k.from = m[1] /\ k.to = m[2] /\ k.filter = ui.filter /\ k.sel = ui.sel
        /\ k.catch = b.catch /\ k.lock = Key(b, id, hist.events + 1) /\ k.panel = panel
        /\ k.all = {i \in Ids: ui.list[i] # None}
    BY <2>2, FreshIs
  <2>4. QED
    BY <2>1, <2>3
<1>4. PICK run: run = Begun(b.run, k)
  OBVIOUS
<1>5. Script(run)
  <2>1. Script(b.run)
    BY <1>2 DEF Disciplined, Ordered
  <2>2. QED
    BY <1>4, <2>1, BegunRun
<1>6. /\ call[c] = Idle
      /\ ui' = After(Take(ui, k), k, run, 1) /\ call' = [call EXCEPT ![c] = Waiting(k, run, 1)]
      /\ hist' = Disturbs(b.run, id, panel) /\ page' = page /\ rows' = rows
  BY <1>3, <1>4 DEF Press
<1>7. PICK u: u = Take(ui, k)
  OBVIOUS
<1>8. Took(ui, u, k)
  BY <1>1, <1>7, TakeIs
<1>9. 1 \in Nat \ {0} /\ 1 <= Len(run) + 1
  BY <1>5 DEF Script
<1>10. Gone(u, k, run, 1)
  BY <1>5, <1>8, <1>9, AfterIs DEF Took
<1>11. Waits(Waiting(k, run, 1), k, run, NextAwait(run, 1))
  BY <1>3, <1>5, <1>9, WaitingIs
<1>12. Doubts(hist', b.run, id, panel)
  <2>1. Doubts(Disturbs(b.run, id, panel), b.run, id, panel)
    BY <1>1, <1>p, DisturbsIs
  <2>2. QED
    BY <1>6, <2>1
<1>13. Swaps(c, Waiting(k, run, 1))
  BY <1>1, <1>6 DEF Swaps
<1>14. k.lock.name = b.lock.name
  BY <1>3 DEF Key
<1>15. Starts(c, k, u, run)
  BY <1>3, <1>5, <1>6, <1>7, <1>8, <1>10, <1>11, <1>12 DEF Starts, Took, Doubts
<1>16. Presses(c, b, id, m, panel, k, u)
  BY <1>p, <1>3, <1>4, <1>6, <1>8, <1>12, <1>13, <1>14, <1>15 DEF Presses, Took
<1>17. QED
  BY <1>16

\* A filter chosen: a load with it begins, and pauses before others are cut short.
Chooses(c, f, k, u) ==
  /\ Starts(c, k, u, This.refilter) /\ f \in This.filters /\ u.filter = f
  /\ u.busy = ui.busy /\ ui.here
  /\ call' = [d \in Calls |-> IF d = c THEN Waiting(k, This.refilter, 1)
                              ELSE IF call[d] # Idle /\ Awaits(call[d]) = "debounce" THEN Idle ELSE call[d]]
  /\ Doubts(hist', This.refilter, None, FALSE)
  /\ k.id = None /\ k.filter = f /\ k.catch = <<>> /\ k.panel = FALSE
  /\ NextAwait(This.refilter, 1) = 1 /\ 1 \in DOMAIN This.refilter
  /\ This.refilter[1] \in {"reload", "debounce"} /\ Calling(This.refilter)
  /\ \A j \in DOMAIN This.refilter: This.refilter[j] \in {"reload", "debounce"}

\* So the choice of a filter does.
LEMMA ChooseIs ==
  ASSUME Known, NEW c \in Calls, NEW f \in This.filters, ChooseFilter(c, f)
  PROVE  \E k, u: Chooses(c, f, k, u)
<1>1. /\ page \in DOMAIN Pages /\ FormedUi(ui) /\ call = [d \in Calls |-> call[d]]
      /\ hist \in [events: Nat, stale: BOOLEAN, doubt: BOOLEAN, lag: SUBSET Ids]
  BY DEF Known
<1> DEFINE run == This.refilter
<1>2. run = <<"reload">> \/ run = <<"debounce", "reload">>
  BY <1>1, PagesDisciplined DEF Disciplines, This
<1> HIDE DEF run
<1>3. /\ Script(run) /\ 1 \in DOMAIN run /\ run[1] \in {"reload", "debounce"}
      /\ \A j \in DOMAIN run: run[j] \in {"reload", "debounce"}
  <2>1. CASE run = <<"reload">>
    <3>1. Len(run) = 1 /\ DOMAIN run = 1 .. 1 /\ run[1] = "reload"
      BY <2>1
    <3>2. QED
      BY <3>1 DEF Script
  <2>2. CASE run = <<"debounce", "reload">>
    <3>1. Len(run) = 2 /\ DOMAIN run = 1 .. 2 /\ run[1] = "debounce" /\ run[2] = "reload"
      BY <2>2
    <3>2. QED
      BY <3>1 DEF Script
  <2>3. QED
    BY <1>2, <2>1, <2>2
<1>4. First(run) /\ run # <<"select", "fetch">> /\ run[1] \in Async
  <2>1. run[1] \in Async
    BY <1>3 DEF Async
  <2>2. run # <<"select", "fetch">>
    BY <1>3
  <2>3. QED
    BY <1>3, <2>1, <2>2, FirstIs
<1>5. NextAwait(run, 1) = 1 /\ Calling(run)
  BY <1>3, <1>4 DEF First, Calling, Lacks
<1>z. PICK n: n = hist.events + 1
  OBVIOUS
<1>6. PICK k: /\ k = [Idle EXCEPT !.filter = f, !.n = n]
              /\ Formed(k) /\ k.id = None /\ k.filter = f /\ k.catch = <<>> /\ k.panel = FALSE
  <2>1. PICK lock: lock = Idle.lock
    OBVIOUS
  <2>2. PICK none: none = <<>>
    OBVIOUS
  <2>3. PICK h: h = [Idle EXCEPT !.filter = f, !.n = n]
    OBVIOUS
  <2>4. h \in [run: {none}, at: {0}, id: {None}, from: {""}, to: {""}, filter: {f}, sel: {None},
               form: {0}, n: {n}, catch: {none}, panel: {FALSE}, all: {{}}, lock: {lock},
               ans: {"none"}, got: {None}]
    BY <2>1, <2>2, <2>3 DEF Idle
  <2>5. /\ h = [run |-> none, at |-> 0, id |-> None, from |-> "", to |-> "", filter |-> f, sel |-> None,
                form |-> 0, n |-> n, catch |-> none, panel |-> FALSE, all |-> {}, lock |-> lock,
                ans |-> "none", got |-> None]
    BY <2>4
  <2>6. Formed(h) /\ h.id = None /\ h.filter = f /\ h.catch = none /\ h.panel = FALSE
    BY <2>5 DEF Formed
  <2>7. QED
    BY <2>2, <2>3, <2>6
<1>7. k = [Idle EXCEPT !.filter = f, !.n = hist.events + 1]
  BY <1>6, <1>z
<1>8. PICK u: u = [ui EXCEPT !.filter = f]
  OBVIOUS
<1>9. u \in [list: {ui.list}, filter: {f}, sel: {ui.sel}, form: {ui.form}, edit: {ui.edit},
             shown: {ui.shown}, busy: {ui.busy}, here: {ui.here}]
  BY <1>1, <1>8 DEF FormedUi
<1>10. u = [list |-> ui.list, filter |-> f, sel |-> ui.sel, form |-> ui.form, edit |-> ui.edit,
            shown |-> ui.shown, busy |-> ui.busy, here |-> ui.here]
  BY <1>9
<1>11. FormedUi(u) /\ u.list = ui.list /\ u.filter = f /\ u.sel = ui.sel /\ u.edit = ui.edit
  BY <1>10 DEF FormedUi
<1>12. u.here = ui.here /\ u.busy = ui.busy
  BY <1>10
<1>13. 1 \in Nat \ {0} /\ 1 <= Len(run) + 1
  BY <1>3 DEF Script
<1>14. Gone(u, k, run, 1)
  BY <1>3, <1>11, <1>13, AfterIs
<1>15. Waits(Waiting(k, run, 1), k, run, NextAwait(run, 1))
  BY <1>3, <1>6, <1>13, WaitingIs
<1>16. /\ call[c] = Idle /\ ui.here /\ ui' = After(u, k, run, 1) /\ hist' = Disturbs(run, None, FALSE)
       /\ page' = page /\ rows' = rows
  BY <1>7, <1>8 DEF ChooseFilter, Library, Clear, run
<1>17. call' = [d \in Calls |-> IF d = c THEN Waiting(k, run, 1)
                                ELSE IF call[d] # Idle /\ Awaits(call[d]) = "debounce" THEN Idle ELSE call[d]]
  BY <1>7 DEF ChooseFilter, run
<1>18. Doubts(hist', run, None, FALSE)
  BY <1>1, <1>16, DisturbsIs
<1>19. Starts(c, k, u, run)
  BY <1>3, <1>6, <1>11, <1>12, <1>14, <1>15, <1>16, <1>18 DEF Starts, Doubts
<1>20. Chooses(c, f, k, u)
  BY <1>3, <1>5, <1>6, <1>11, <1>12, <1>16, <1>17, <1>18, <1>19 DEF Chooses, run
<1>21. QED
  BY <1>20

\* A button pressed that is about no row creates one or does without.
LEMMA PressRow ==
  ASSUME Known, NEW c \in Calls, NEW b \in Buttons, NEW id \in Ids \cup {None}, NEW m, NEW panel \in BOOLEAN, NEW k, NEW u,
         Presses(c, b, id, m, panel, k, u)
  PROVE  k.id \in Ids \/ Adds(b.run) \/ Rowless(b.run)
<1> SUFFICES ASSUME id \notin Ids PROVE Adds(b.run) \/ Rowless(b.run)
  BY DEF Presses
<1>1. Disciplines(page, This)
  BY PagesDisciplined DEF Known, This
<1>2. b \in This.bar \cup This.form
  <2>1. OffersElsewhere(b, id, m[1])
    BY DEF Presses
  <2>2. OpenRow(ui.sel) /\ OpenRow(ui.edit)
    BY DEF Known
  <2>3. CASE ui.edit # None /\ ui.edit = Open(id, m[1])
    BY <2>2, <2>3 DEF OpenRow, Open
  <2>4. QED
    BY <2>1, <2>3 DEF OffersElsewhere
<1>3. QED
  BY <1>1, <1>2 DEF Disciplines

\* A script about no row does without one, whatever is selected when it begins.
LEMMA BegunRowless ==
  ASSUME NEW run, NEW k, Script(run), Rowless(run)
  PROVE  Rowless(Begun(run, k))
<1>1. /\ DOMAIN Begun(run, k) = DOMAIN run
      /\ \A j \in DOMAIN run: Begun(run, k)[j] = run[j] \/ (run[j] = "fetchIf" /\ Begun(run, k)[j] = "fetch")
  BY BegunRun
<1>2. QED
  BY <1>1 DEF Rowless, Lacks

\* The call that a press begins is known.
LEMMA PressCall ==
  ASSUME Known, NEW c \in Calls, NEW b \in Buttons, NEW id \in Ids \cup {None}, NEW m \in b.moves, NEW panel \in BOOLEAN, NEW k, NEW u,
         Presses(c, b, id, m, panel, k, u),
         NEW w, Waits(w, k, Begun(b.run, k), NextAwait(Begun(b.run, k), 1)), w # Idle
  PROVE  CallKnown(page, w)
<1> DEFINE run == Begun(b.run, k)
           stop == NextAwait(run, 1)
<1>1. page \in DOMAIN Pages /\ Disciplined(page, This, b) /\ b \in ButtonsOf(Pages[page])
  BY PagesDisciplined DEF Known, Disciplines, Buttons, This
<1>2. Script(b.run) /\ Ordered(b.run)
  BY <1>1 DEF Disciplined, Ordered
<1>3. /\ DOMAIN run = DOMAIN b.run
      /\ \A j \in DOMAIN run: run[j] = b.run[j] \/ (b.run[j] = "fetchIf" /\ run[j] = "fetch")
  BY <1>2, BegunRun
<1>4. /\ stop \in DOMAIN run /\ Formed(w) /\ w.run = run /\ w.at = stop /\ w.ans = "none" /\ SameOf(w, k)
      /\ Awaits(w) = run[stop] /\ Awaits(w) \in Async
  BY DEF Waits
<1>5. Begun(b.run, w) = run
  BY <1>4 DEF Begun, Same, SameOf
<1>6. RunsOf(page, w, b)
  <2>1. w.panel => b \in Pages[page].panel
    BY <1>4 DEF Presses, SameOf, OffersOnPanel, This
  <2>2. QED
    BY <1>4, <1>5, <2>1 DEF RunsOf, Presses, SameOf
<1>7. w.id \in Ids \/ Adding(w) \/ Rowless(w.run)
  <2>1. k.id \in Ids \/ Adds(b.run) \/ Rowless(b.run)
    BY PressRow
  <2>2. CASE k.id \in Ids
    BY <1>4, <2>2 DEF SameOf
  <2>3. CASE Adds(b.run)
    <3>1. 1 \in DOMAIN run /\ run[1] \in {"add", "addHere"}
      BY <1>3, <2>3 DEF Adds
    <3>2. stop = 1
      <4>1. First(run)
        BY <1>2, CallingIs
      <4>2. QED
        BY <3>1, <4>1, <1>4 DEF First, Lacks, Async
    <3>3. QED
      BY <1>4, <3>1, <3>2 DEF Adding
  <2>4. CASE Rowless(b.run)
    BY <1>2, <1>4, <2>4, BegunRowless
  <2>5. QED
    BY <2>1, <2>2, <2>3, <2>4
<1>8. Awaits(w) \in Async /\ w.at \in DOMAIN w.run
  BY <1>4
<1>9. QED
  BY <1>1, <1>4, <1>6, <1>7, <1>8 DEF CallKnown

\* A button pressed leaves everything known.
LEMMA PressKnown ==
  ASSUME Known, NEW c \in Calls, NEW b \in Buttons, NEW id \in Ids \cup {None}, NEW m \in b.moves, NEW panel \in BOOLEAN, NEW k, NEW u,
         Presses(c, b, id, m, panel, k, u)
  PROVE  Known'
<1> DEFINE run == Begun(b.run, k)
           stop == NextAwait(run, 1)
           w == Waiting(k, run, 1)
<1>1. page \in DOMAIN Pages /\ IsList(ui.list) /\ OpenRow(ui.sel) /\ OpenRow(ui.edit) /\ rows \in [Ids -> This.states \cup {None, Deleted}]
  BY DEF Known
<1>2. /\ Starts(c, k, u, run) /\ u.filter = ui.filter /\ Swaps(c, w)
  BY DEF Presses
<1>3. /\ ui' = After(u, k, run, 1) /\ Gone(u, k, run, 1) /\ Waits(w, k, run, stop) /\ Script(run)
      /\ page' = page /\ rows' = rows /\ hist' \in [events: Nat, stale: BOOLEAN, doubt: BOOLEAN, lag: SUBSET Ids]
      /\ u.list = ui.list /\ u.sel = ui.sel /\ u.edit = ui.edit
  BY <1>2 DEF Starts
<1>4. Leads(u, ui') /\ stop \in 1 .. (Len(run) + 1)
  BY <1>3 DEF Gone
<1>5. FormedUi(ui') /\ IsList(ui'.list) /\ ui'.filter = ui.filter
  BY <1>1, <1>2, <1>3, <1>4 DEF Leads
<1>6. OpenRow(ui'.sel) /\ OpenRow(ui'.edit)
  <2>1. k.id \notin Ids => \A h \in 1 .. (stop - 1): run[h] \notin (SelSteps \ {"close", "closeIf"}) \cup {"edit"}
    <3>1. SUFFICES ASSUME k.id \notin Ids, NEW h \in 1 .. (stop - 1)
                   PROVE  run[h] \notin (SelSteps \ {"close", "closeIf"}) \cup {"edit"}
      OBVIOUS
    <3>2. Disciplined(page, This, b)
      BY <1>1, PagesDisciplined DEF Disciplines, Buttons, This
    <3>3. Ordered(b.run) /\ Script(b.run)
      BY <3>2 DEF Disciplined, Ordered
    <3>4. h \in DOMAIN run
      BY <1>3, <1>4 DEF Script
    <3>5. Adds(b.run) \/ Rowless(b.run)
      BY <3>1, PressRow
    <3>6. CASE Rowless(b.run)
      <4>1. Rowless(run)
        BY <3>3, <3>6, BegunRowless
      <4>2. QED
        BY <3>4, <4>1 DEF Rowless, Lacks, SelSteps
    <3>7. CASE Adds(b.run)
      <4>1. First(run)
        BY <3>3, CallingIs
      <4>2. 1 \in DOMAIN run /\ run[1] \in {"add", "addHere"}
        BY <3>3, <3>7, BegunRun DEF Adds
      <4>3. stop = 1
        BY <4>1, <4>2 DEF First, Lacks, Async
      <4>4. QED
        BY <4>3
    <3>8. QED
      BY <3>5, <3>6, <3>7
  <2>2. QED
    BY <1>1, <1>3, <2>1 DEF Gone
<1>7. call' = [d \in Calls |-> IF d = c THEN w ELSE call[d]]
  BY <1>2 DEF Swaps
<1>8. w = Idle \/ CallKnown(page, w)
  BY <1>3, PressCall
<1>9. \A d \in Calls: call'[d] = Idle \/ CallKnown(page, call'[d])
  BY <1>7, <1>8 DEF Known
<1>10. ui'.filter \in {This.first} \cup This.filters
  BY <1>5 DEF Known
<1>11. call' = [d \in Calls |-> call'[d]]
  BY <1>7
<1>12. QED
  BY <1>1, <1>3, <1>5, <1>6, <1>9, <1>10, <1>11, KnownNext

\* A button pressed leaves every lock in the hands of a call, its own first.
LEMMA PressLocks ==
  ASSUME Known, LocksHeld, NEW c \in Calls, NEW b \in Buttons, NEW id, NEW m, NEW panel \in BOOLEAN, NEW k, NEW u, Presses(c, b, id, m, panel, k, u)
  PROVE  LocksHeld'
<1> DEFINE run == Begun(b.run, k)
           stop == NextAwait(run, 1)
           w == Waiting(k, run, 1)
<1> SUFFICES ASSUME NEW l \in ui'.busy PROVE \E d \in Calls: Holds(call'[d], l)
  BY DEF LocksHeld, Holds
<1>1. /\ Starts(c, k, u, run) /\ u.busy \subseteq ui.busy \cup (IF k.lock.name = "" THEN {} ELSE {k.lock})
      /\ k.lock.name = b.lock.name /\ k.catch = b.catch /\ Swaps(c, w)
  BY DEF Presses
<1>2. /\ ui' = After(u, k, run, 1) /\ Gone(u, k, run, 1) /\ Waits(w, k, run, stop) /\ Script(run) /\ call[c] = Idle
  BY <1>1 DEF Starts
<1>3. l \in u.busy
  BY <1>2 DEF Gone, Leads
<1>4. call' = [d \in Calls |-> IF d = c THEN w ELSE call[d]]
  BY <1>1 DEF Swaps
<1>5. CASE l \in ui.busy
  <2>1. PICK d \in Calls: Holds(call[d], l)
    BY <1>5 DEF LocksHeld, Holds
  <2>2. d # c
    BY <1>2, <2>1 DEF Holds
  <2>3. QED
    BY <1>4, <2>1, <2>2
<1>6. CASE l = k.lock /\ k.lock.name # ""
  <2>1. Disciplined(page, This, b)
    BY PagesDisciplined DEF Known, Disciplines, Buttons, This
  <2>2. Script(b.run) /\ Has(b.run, "free") /\ Has(k.catch, "free")
    BY <1>1, <1>6, <2>1 DEF Disciplined, Ordered
  <2>3. PICK j \in DOMAIN b.run: b.run[j] = "free"
    BY <2>2 DEF Has
  <2>4. j \in DOMAIN run /\ run[j] = "free"
    BY <2>2, <2>3, BegunRun
  <2>5. 1 \in Nat \ {0} /\ 1 <= Len(run) + 1 /\ j >= 1
    BY <1>2, <2>4 DEF Script
  <2>6. l \in After(u, k, run, 1).busy
    BY <1>2
  <2>7. Holds(w, l)
    BY <1>2, <1>6, <2>2, <2>4, <2>5, <2>6, FreeComes
  <2>8. QED
    BY <1>4, <2>7
<1>7. QED
  BY <1>1, <1>3, <1>5, <1>6

\* The call that a choice begins is known.
LEMMA ChooseCall ==
  ASSUME Known, NEW c \in Calls, NEW f, NEW k, NEW u, Chooses(c, f, k, u),
         NEW w, Waits(w, k, This.refilter, NextAwait(This.refilter, 1))
  PROVE  CallKnown(page, w)
<1> DEFINE run == This.refilter
<1>1. /\ NextAwait(run, 1) = 1 /\ 1 \in DOMAIN run /\ run[1] \in {"reload", "debounce"}
      /\ \A j \in DOMAIN run: run[j] \in {"reload", "debounce"}
      /\ k.catch = <<>> /\ k.panel = FALSE
  BY DEF Chooses
<1>2. /\ Formed(w) /\ w.run = run /\ w.at = 1 /\ w.ans = "none" /\ SameOf(w, k) /\ Awaits(w) = run[1] /\ Awaits(w) \in Async
  BY <1>1 DEF Waits
<1>3. Loads(page, w)
  BY <1>1, <1>2 DEF Loads, SameOf, This
<1>4. Rowless(w.run)
  BY <1>1, <1>2 DEF Rowless, Lacks, RowCalls, SelSteps
<1>5. QED
  BY <1>1, <1>2, <1>3, <1>4 DEF CallKnown

\* A filter chosen leaves everything known.
LEMMA ChooseKnown ==
  ASSUME Known, NEW c \in Calls, NEW f, NEW k, NEW u, Chooses(c, f, k, u)
  PROVE  Known'
<1> DEFINE run == This.refilter
           w == Waiting(k, run, 1)
<1>1. page \in DOMAIN Pages /\ IsList(ui.list) /\ OpenRow(ui.sel) /\ OpenRow(ui.edit) /\ rows \in [Ids -> This.states \cup {None, Deleted}]
  BY DEF Known
<1>2. /\ Starts(c, k, u, run) /\ f \in This.filters /\ u.filter = f /\ NextAwait(run, 1) = 1
  BY DEF Chooses
<1>3. /\ ui' = After(u, k, run, 1) /\ Gone(u, k, run, 1) /\ Waits(w, k, run, NextAwait(run, 1)) /\ Script(run)
      /\ page' = page /\ rows' = rows /\ hist' \in [events: Nat, stale: BOOLEAN, doubt: BOOLEAN, lag: SUBSET Ids]
      /\ u.list = ui.list /\ u.sel = ui.sel /\ u.edit = ui.edit
  BY <1>2 DEF Starts
<1>4. Leads(u, ui')
  BY <1>3 DEF Gone
<1>5. FormedUi(ui') /\ IsList(ui'.list) /\ ui'.filter = f
  BY <1>1, <1>2, <1>3, <1>4 DEF Leads
<1>6. OpenRow(ui'.sel) /\ OpenRow(ui'.edit)
  <2>1. \A h \in 1 .. (NextAwait(run, 1) - 1): run[h] \notin (SelSteps \ {"close", "closeIf"}) \cup {"edit"}
    BY <1>2
  <2>2. QED
    BY <1>1, <1>3, <2>1 DEF Gone
<1>7. call' = [d \in Calls |-> IF d = c THEN w ELSE IF call[d] # Idle /\ Awaits(call[d]) = "debounce" THEN Idle ELSE call[d]]
  BY DEF Chooses
<1>8. CallKnown(page, w)
  BY <1>3, ChooseCall
<1>9. \A d \in Calls: call'[d] = Idle \/ CallKnown(page, call'[d])
  BY <1>7, <1>8 DEF Known
<1>10. ui'.filter \in {This.first} \cup This.filters
  BY <1>2, <1>5
<1>11. call' = [d \in Calls |-> call'[d]]
  BY <1>7
<1>12. QED
  BY <1>1, <1>3, <1>5, <1>6, <1>9, <1>10, <1>11, KnownNext

\* A filter chosen leaves every lock in the hands of a call: a pause holds none.
LEMMA ChooseLocks ==
  ASSUME Known, LocksHeld, NEW c \in Calls, NEW f, NEW k, NEW u, Chooses(c, f, k, u)
  PROVE  LocksHeld'
<1> DEFINE w == Waiting(k, This.refilter, 1)
<1> SUFFICES ASSUME NEW l \in ui'.busy PROVE \E d \in Calls: Holds(call'[d], l)
  BY DEF LocksHeld, Holds
<1>1. /\ Starts(c, k, u, This.refilter) /\ u.busy = ui.busy
  BY DEF Chooses
<1>2. /\ ui' = After(u, k, This.refilter, 1) /\ Gone(u, k, This.refilter, 1) /\ call[c] = Idle
  BY <1>1 DEF Starts
<1>3. l \in ui.busy
  BY <1>1, <1>2 DEF Gone, Leads
<1>4. call' = [d \in Calls |-> IF d = c THEN w ELSE IF call[d] # Idle /\ Awaits(call[d]) = "debounce" THEN Idle ELSE call[d]]
  BY DEF Chooses
<1>5. PICK d \in Calls: Holds(call[d], l)
  BY <1>3 DEF LocksHeld, Holds
<1>6. d # c /\ call[d] # Idle
  BY <1>2, <1>5 DEF Holds
<1>7. Awaits(call[d]) # "debounce"
  <2>1. SUFFICES ASSUME Awaits(call[d]) = "debounce" PROVE FALSE
    OBVIOUS
  <2>2. CallKnown(page, call[d]) /\ page \in DOMAIN Pages
    BY <1>6 DEF Known
  <2>3. call[d].run = <<"debounce", "reload">>
    BY <2>1, <2>2, RunOrdered DEF RunFacts
  <2>4. DOMAIN call[d].run = 1 .. 2 /\ call[d].run[1] = "debounce" /\ call[d].run[2] = "reload"
    BY <2>3
  <2>5. QED
    BY <1>5, <2>4 DEF Holds, Later
<1>8. QED
  BY <1>4, <1>5, <1>6, <1>7

------------------------------------------------------------------------------
(* Calls beside each other make the copies doubtful.                       *)

\* A call that was served is still in flight.
LEMMA ServedCall ==
  ASSUME NEW c \in Calls, NEW w, Serves(c, w)
  PROVE  w # Idle
BY AnswersSome, IdleFields DEF Answers

\* One answer more does not make two calls of one.
LEMMA ServeSole ==
  ASSUME Known, Sole, NEW c \in Calls, NEW w, Serves(c, w)
  PROVE  Sole'
<1>1. call' = [d \in Calls |-> IF d = c THEN w ELSE call[d]] /\ call[c] # Idle
  BY DEF Serves, Swaps
<1>2. SUFFICES ASSUME ~(hist'.stale /\ hist'.doubt), NEW d \in Calls, NEW e \in Calls, call'[d] # Idle, call'[e] # Idle
               PROVE  d = e
  BY DEF Sole
<1>3. call[d] # Idle /\ call[e] # Idle
  BY <1>1, <1>2
<1>4. CASE ~(hist.stale /\ hist.doubt)
  BY <1>3, <1>4 DEF Sole
<1>5. CASE Alone(c)
  BY <1>3, <1>5 DEF Alone
<1>6. QED
  BY <1>2, <1>4, <1>5 DEF Serves, Created, CreatedMany, Done, DoneOthers, Loaded, Refused, Failed

\* Nor does an answer that comes.
LEMMA LandSole ==
  ASSUME Known, Sole, NEW c \in Calls, call[c] # Idle, NEW u, NEW run, NEW i, Goes(c, u, run, i)
  PROVE  Sole'
<1>1. call' = [d \in Calls |-> IF d = c THEN Waiting(call[c], run, i) ELSE call[d]] /\ hist' = hist
  BY DEF Goes, Swaps
<1>2. QED
  BY <1>1 DEF Sole

\* A call that a press begins waits somewhere.
LEMMA PressCalling ==
  ASSUME Known, NEW c \in Calls, NEW b \in Buttons, NEW id, NEW m, NEW panel \in BOOLEAN, NEW k, NEW u, Presses(c, b, id, m, panel, k, u)
  PROVE  /\ Waiting(k, Begun(b.run, k), 1) # Idle <=> Calling(b.run)
         /\ Waiting(k, Begun(b.run, k), 1) # Idle <=> NextAwait(Begun(b.run, k), 1) \in DOMAIN Begun(b.run, k)
<1>1. Disciplined(page, This, b)
  BY PagesDisciplined DEF Known, Disciplines, Buttons, This
<1>2. Calling(b.run) <=> NextAwait(Begun(b.run, k), 1) \in DOMAIN Begun(b.run, k)
  BY <1>1, CallingIs DEF Disciplined
<1>3. Waits(Waiting(k, Begun(b.run, k), 1), k, Begun(b.run, k), NextAwait(Begun(b.run, k), 1))
  BY DEF Presses, Starts
<1>4. QED
  BY <1>2, <1>3 DEF Waits

\* A press beside another call makes both copies doubtful.
LEMMA PressSole ==
  ASSUME Known, Sole, NEW c \in Calls, NEW b \in Buttons, NEW id, NEW m, NEW panel \in BOOLEAN, NEW k, NEW u, Presses(c, b, id, m, panel, k, u)
  PROVE  Sole'
<1> DEFINE w == Waiting(k, Begun(b.run, k), 1)
<1>1. call' = [d \in Calls |-> IF d = c THEN w ELSE call[d]] /\ call[c] = Idle
  BY DEF Presses, Starts, Swaps
<1>2. SUFFICES ASSUME ~(hist'.stale /\ hist'.doubt), NEW d \in Calls, NEW e \in Calls, call'[d] # Idle, call'[e] # Idle, d # e
               PROVE  FALSE
  BY DEF Sole
<1>3. Doubts(hist', b.run, id, panel)
  BY DEF Presses
<1>4. w # Idle => Calling(b.run)
  BY PressCalling
<1>5. ~Quiet
  BY <1>1, <1>2 DEF Quiet
<1>6. CASE d = c \/ e = c
  <2>1. Calling(b.run)
    BY <1>1, <1>2, <1>4, <1>6
  <2>2. QED
    BY <1>2, <1>3, <1>5, <2>1 DEF Doubts
<1>7. CASE d # c /\ e # c
  <2>1. hist.stale /\ hist.doubt
    BY <1>1, <1>2, <1>7 DEF Sole
  <2>2. QED
    BY <1>2, <1>3, <1>5, <2>1 DEF Doubts
<1>8. QED
  BY <1>6, <1>7

\* So does a filter chosen beside a call.
LEMMA ChooseDoubts ==
  ASSUME Known, NEW c \in Calls, NEW f, NEW k, NEW u, Chooses(c, f, k, u)
  PROVE  /\ hist'.stale = (hist.stale \/ ~Quiet) /\ hist'.doubt = (hist.doubt \/ ~Quiet)
         /\ ~Quiet \/ \A d \in Calls \ {c}: call'[d] = Idle
         /\ call'[c] = Waiting(k, This.refilter, 1)
<1>1. /\ Doubts(hist', This.refilter, None, FALSE) /\ Calling(This.refilter)
      /\ \A j \in DOMAIN This.refilter: This.refilter[j] \in {"reload", "debounce"}
      /\ call' = [d \in Calls |-> IF d = c THEN Waiting(k, This.refilter, 1)
                                  ELSE IF call[d] # Idle /\ Awaits(call[d]) = "debounce" THEN Idle ELSE call[d]]
  BY DEF Chooses
<1>2. ~Has(This.refilter, "select") /\ ~Has(This.refilter, "flipRow")
  BY <1>1 DEF Has
<1>3. Quiet => \A d \in Calls \ {c}: call'[d] = Idle
  BY <1>1 DEF Quiet
<1>4. hist.stale \in BOOLEAN /\ hist.doubt \in BOOLEAN
  BY DEF Known
<1>5. hist'.stale = (hist.stale \/ ~Quiet)
  BY <1>1, <1>4 DEF Doubts
<1>6. hist'.doubt = (hist.doubt \/ ~Quiet)
  BY <1>1, <1>2, <1>4 DEF Doubts
<1>7. QED
  BY <1>1, <1>3, <1>5, <1>6

\* So it does not make two calls of one either.
LEMMA ChooseSole ==
  ASSUME Known, Sole, NEW c \in Calls, NEW f, NEW k, NEW u, Chooses(c, f, k, u)
  PROVE  Sole'
<1>1. SUFFICES ASSUME ~(hist'.stale /\ hist'.doubt), NEW d \in Calls, NEW e \in Calls, call'[d] # Idle, call'[e] # Idle
               PROVE  d = e
  BY DEF Sole
<1>2. Quiet
  BY <1>1, ChooseDoubts
<1>3. QED
  BY <1>1, <1>2, ChooseDoubts
------------------------------------------------------------------------------
(* The list.                                                               *)

\* What a write leaves for the list: the patch that says it.
PatchOf(n, k, s) ==
  \/ s = "putNew"  /\ Awaits(k) = "add" /\ (n = "detections" \/ Whole(Pages[n]))
  \/ s = "putRow"  /\ Awaits(k) = "touch"
  \/ s = "putRow"  /\ Awaits(k) = "save" /\ Whole(Pages[n])
  \/ s = "flipRow" /\ Awaits(k) = "save" /\ n = "detections" /\ k.to = Flip(k.from)
  \/ s = "dropRow" /\ Awaits(k) = "remove"
  \/ s = "dropRow" /\ Awaits(k) = "save" /\ Pages[n].filters = {} /\ k.to \notin Pages[n].first
  \/ s = "setAll"  /\ Awaits(k) = "saveAll" /\ n = "detections"
Patched(n, k) ==
  /\ \A j \in DOMAIN k.run: j > k.at /\ k.run[j] \in ListSteps => PatchOf(n, k, k.run[j])
  /\ Awaits(k) \notin {"enable", "touch", "post", "swap"} => Later(k.run, k.at, ListSteps)

\* After a write the page is loaded again, left, or patched.
LEMMA WriteList ==
  ASSUME NEW n \in DOMAIN Pages, NEW k, CallKnown(n, k), Awaits(k) \in Writes
  PROVE  Later(k.run, k.at, {"reload", "leave"}) \/ Patched(n, k)
<1>1. PICK b: WriteRun(n, k, b)
  BY WriteIs
<1>2. /\ k.at = 1 /\ 1 \in DOMAIN b.run /\ DOMAIN k.run = DOMAIN b.run /\ Script(b.run)
      /\ b.run[1] = Awaits(k) /\ KeepsList(n, Pages[n], b)
      /\ \A j \in DOMAIN b.run: k.run[j] = b.run[j] \/ (b.run[j] = "fetchIf" /\ k.run[j] = "fetch")
  BY <1>1 DEF WriteRun, Disciplined
<1>3. PICK m \in b.moves: k.from = m[1] /\ k.to = m[2]
  BY <1>1 DEF WriteRun, RunsOf
<1>4. SUFFICES ASSUME ~Later(k.run, k.at, {"reload", "leave"}) PROVE Patched(n, k)
  OBVIOUS
<1>5. \A j \in DOMAIN b.run: b.run[j] = k.run[j] \/ b.run[j] = "fetchIf"
  BY <1>2
<1>6. \A j \in DOMAIN b.run: j # 1 => j > 1
  BY <1>2 DEF Script
<1>7. ~Has(b.run, "reload") /\ ~Has(b.run, "leave")
  <2>1. \A j \in DOMAIN b.run: b.run[j] \in {"reload", "leave"} => j # 1
    BY <1>2 DEF Writes
  <2>2. QED
    BY <1>2, <1>4, <1>5, <1>6, <2>1 DEF Has, Later
<1>8. ASSUME NEW j \in DOMAIN k.run, k.run[j] \in ListSteps PROVE PatchOf(n, k, k.run[j]) /\ j > 1
  <2>1. b.run[j] = k.run[j]
    BY <1>2, <1>8 DEF ListSteps
  <2>2. Patches(n, Pages[n], b.moves, b.run[1], b.run[j]) /\ j > 1
    BY <1>2, <1>7, <1>8, <2>1 DEF KeepsList
  <2>3. QED
    BY <1>2, <1>3, <2>1, <2>2 DEF Patches, PatchOf
<1>9. ASSUME Awaits(k) \notin {"enable", "touch", "post", "swap"} PROVE Later(k.run, k.at, ListSteps)
  <2>1. ~Lacks(b.run, ListSteps)
    BY <1>2, <1>7, <1>9 DEF KeepsList
  <2>2. PICK j \in DOMAIN b.run: b.run[j] \in ListSteps
    BY <2>1 DEF Lacks
  <2>3. k.run[j] = b.run[j]
    BY <1>2, <2>2 DEF ListSteps
  <2>4. QED
    BY <1>2, <1>8, <2>2, <2>3 DEF Later
<1>10. QED
  BY <1>2, <1>8, <1>9 DEF Patched

\* The filters of a page are of states of its rows, and no state is a hole.
LEMMA FilterIs ==
  ASSUME NEW n \in DOMAIN Pages
  PROVE  /\ None \notin Pages[n].states /\ Deleted \notin Pages[n].states
         /\ \A f \in {Pages[n].first} \cup Pages[n].filters: f \subseteq Pages[n].states
<1>1. Disciplines(n, Pages[n])
  BY PagesDisciplined
<1>2. QED
  BY <1>1 DEF Disciplines

\* The filter a page has, and the table, as they can be.
Fits(n, list, table, filter) ==
  /\ n \in DOMAIN Pages /\ filter \in {Pages[n].first} \cup Pages[n].filters
  /\ table = [i \in Ids |-> table[i]] /\ IsList(list)
  /\ \A i \in Ids: table[i] \in Pages[n].states \cup {None, Deleted}

\* What holds of the rows told holds of fewer.
LEMMA LessShows ==
  ASSUME NEW n, NEW list, NEW table, NEW filter, NEW told, NEW less \in SUBSET told, Shows(n, list, table, filter, told)
  PROVE  Shows(n, list, table, filter, less)
BY DEF Shows

\* So does what is to come.
LEMMA LessHeld ==
  ASSUME NEW n, NEW list, NEW table, NEW filter, NEW told, NEW less \in SUBSET told, NEW k,
         ListHeld(n, list, table, filter, told, k)
  PROVE  ListHeld(n, list, table, filter, less, k)
<1>1. \A some: Shows(n, some, table, filter, told) => Shows(n, some, table, filter, less)
  BY LessShows
<1>2. WillShow(n, list, table, filter, told, k) => WillShow(n, list, table, filter, less, k)
  BY <1>1 DEF WillShow
<1>3. QED
  BY <1>1, <1>2 DEF ListHeld

\* A row created and put first.
LEMMA AddShows ==
  ASSUME NEW n, NEW list, NEW table, NEW filter, NEW told \in SUBSET Ids, Fits(n, list, table, filter),
         Shows(n, list, table, filter, told),
         NEW i \in Ids, NEW k, k.id = i, k.to \in Pages[n].states, n = "detections" \/ Whole(Pages[n])
  PROVE  Shows(n, ListAfter("putNew", list, k), [table EXCEPT ![i] = k.to], filter, told)
<1> DEFINE after == ListAfter("putNew", list, k)
           new == [table EXCEPT ![i] = k.to]
<1>1. /\ None \notin Pages[n].states /\ n \in DOMAIN Pages /\ list = [j \in Ids |-> list[j]]
      /\ table = [j \in Ids |-> table[j]]
  BY FilterIs DEF Fits, IsList
<1>2. after = [list EXCEPT ![i] = k.to]
  BY DEF ListAfter
<1>3. \A j \in Ids: /\ after[j] = IF j = i THEN k.to ELSE list[j]
                    /\ new[j] = IF j = i THEN k.to ELSE table[j]
  BY <1>1, <1>2
<1>4. k.to # None
  BY <1>1
<1>5. n # "detections" \/ filter = Pages[n].states => k.to \in filter
  BY DEF Fits, Whole
<1> HIDE DEF after, new
<1>6. Shows(n, after, new, filter, told)
  BY <1>3, <1>4, <1>5 DEF Shows
<1>7. QED
  BY <1>6 DEF after, new

\* The row put again as it is.
LEMMA TouchShows ==
  ASSUME NEW n, NEW list, NEW table, NEW filter, NEW told \in SUBSET Ids, Fits(n, list, table, filter),
         Shows(n, list, table, filter, told),
         NEW k, k.id \in Ids, k.got = table[k.id]
  PROVE  Shows(n, ListAfter("putRow", list, k), table, filter, told)
<1> DEFINE after == ListAfter("putRow", list, k)
<1>1. list = [j \in Ids |-> list[j]]
  BY DEF Fits, IsList
<1>2. ASSUME NEW j \in told PROVE after[j] = list[j]
  <2>1. CASE list[k.id] # None
    <3>1. after = [list EXCEPT ![k.id] = k.got]
      BY <2>1 DEF ListAfter
    <3>2. after[j] = IF j = k.id THEN k.got ELSE list[j]
      BY <1>1, <3>1
    <3>3. j = k.id => list[j] = k.got
      BY <2>1 DEF Shows
    <3>4. QED
      BY <3>2, <3>3
  <2>2. CASE list[k.id] = None
    BY <2>2 DEF ListAfter
  <2>3. QED
    BY <2>1, <2>2
<1> HIDE DEF after
<1>3. Shows(n, after, table, filter, told)
  BY <1>2 DEF Shows
<1>4. QED
  BY <1>3 DEF after

\* A row saved, in the table and in the list if it is there, which it is when the list shows all;
\* rows the list was not told of it may show as it likes.
LEMMA SetShows ==
  ASSUME NEW n, NEW list, NEW table, NEW filter, NEW told \in SUBSET Ids, Fits(n, list, table, filter),
         Shows(n, list, table, filter, told),
         NEW i \in Ids, table[i] \notin {None, Deleted}, NEW to \in Pages[n].states,
         NEW st, i \in told /\ list[i] # None => st = to,
         n # "detections" => filter = Pages[n].states
  PROVE  Shows(n, IF list[i] # None THEN [list EXCEPT ![i] = st] ELSE list, [table EXCEPT ![i] = to], filter, told)
<1> DEFINE after == IF list[i] # None THEN [list EXCEPT ![i] = st] ELSE list
           new == [table EXCEPT ![i] = to]
<1>1. /\ None \notin Pages[n].states /\ n \in DOMAIN Pages /\ list = [j \in Ids |-> list[j]]
      /\ table = [j \in Ids |-> table[j]] /\ table[i] \in Pages[n].states
  BY FilterIs DEF Fits, IsList
<1>2. \A j \in Ids: /\ after[j] = IF j = i /\ list[i] # None THEN st ELSE list[j]
                    /\ new[j] = IF j = i THEN to ELSE table[j]
  <2>1. CASE list[i] # None
    BY <1>1, <2>1
  <2>2. CASE list[i] = None
    BY <1>1, <2>2
  <2>3. QED
    BY <2>1, <2>2
<1>3. to # None
  BY <1>1
<1>4. n # "detections" \/ filter = Pages[n].states => filter = Pages[n].states /\ (i \in told => list[i] # None)
  BY <1>1 DEF Shows
<1> HIDE DEF after, new
<1>5. \A j \in told: after[j] # None => after[j] = new[j] /\ new[j] \in Pages[n].states
  BY <1>2, <1>3 DEF Shows
<1>6. ASSUME n # "detections" \/ filter = Pages[n].states, NEW j \in told
      PROVE  new[j] \in filter <=> after[j] # None
  BY <1>2, <1>3, <1>4, <1>6 DEF Shows
<1>7. Shows(n, after, new, filter, told)
  BY <1>5, <1>6 DEF Shows
<1>8. QED
  BY <1>7 DEF after, new

\* A row dropped from the list that is no longer to be shown.
LEMMA DropShows ==
  ASSUME NEW n, NEW list, NEW table, NEW filter, NEW told \in SUBSET Ids, Fits(n, list, table, filter),
         Shows(n, list, table, filter, told),
         NEW k, k.id \in Ids, NEW to, to \notin filter
  PROVE  Shows(n, ListAfter("dropRow", list, k), [table EXCEPT ![k.id] = to], filter, told)
<1> DEFINE after == ListAfter("dropRow", list, k)
           new == [table EXCEPT ![k.id] = to]
<1>1. list = [j \in Ids |-> list[j]] /\ table = [j \in Ids |-> table[j]]
  BY DEF Fits, IsList
<1>2. after = [list EXCEPT ![k.id] = None]
  BY DEF ListAfter
<1>3. \A j \in Ids: /\ after[j] = IF j = k.id THEN None ELSE list[j]
                    /\ new[j] = IF j = k.id THEN to ELSE table[j]
  BY <1>1, <1>2
<1> HIDE DEF after, new
<1>4. Shows(n, after, new, filter, told)
  BY <1>3 DEF Shows
<1>5. QED
  BY <1>4 DEF after, new

\* Every row that is listed saved at once.
LEMMA SetAllShows ==
  ASSUME NEW list, NEW table, NEW new, NEW filter, NEW told \in SUBSET Ids, Fits("detections", list, table, filter),
         Shows("detections", list, table, filter, told),
         NEW k, k.to \in Pages["detections"].states,
         new = [i \in Ids |-> IF list[i] # None /\ table[i] \notin {None, Deleted} THEN k.to ELSE table[i]]
  PROVE  Shows("detections", ListAfter("setAll", list, k), new, filter, told)
<1> DEFINE after == ListAfter("setAll", list, k)
           n == "detections"
<1>1. None \notin Pages[n].states /\ Deleted \notin Pages[n].states /\ n \in DOMAIN Pages
  BY FilterIs DEF Fits
<1>2. after = [i \in Ids |-> IF list[i] = None THEN None ELSE k.to]
  BY DEF ListAfter
<1>3. \A j \in Ids: /\ after[j] = IF list[j] = None THEN None ELSE k.to
                    /\ j \in told /\ list[j] # None => new[j] = k.to
                    /\ list[j] = None => new[j] = table[j]
  BY <1>1, <1>2 DEF Shows
<1>4. k.to # None
  BY <1>1
<1> HIDE DEF after
<1>5. Shows(n, after, new, filter, told)
  BY <1>3, <1>4 DEF Shows
<1>6. QED
  BY <1>5 DEF after

\* Whatever patch is to come, the list will show the table.
LEMMA PatchShows ==
  ASSUME NEW n \in DOMAIN Pages, NEW k, CallKnown(n, k), Awaits(k) \in Writes,
         NEW w, NEW id, NEW got, Answers(w, k, id, "ok", got),
         NEW list, NEW table, NEW filter, NEW told,
         Awaits(k) \in {"enable", "touch", "post", "swap"} => Shows(n, list, table, filter, told),
         \A s \in ListSteps: PatchOf(n, k, s) /\ Has(k.run, s) => Shows(n, ListAfter(s, list, w), table, filter, told)
  PROVE  WillShow(n, list, table, filter, told, w)
<1>1. Later(k.run, k.at, {"reload", "leave"}) \/ Patched(n, k)
  BY WriteList
<1>2. w.run = k.run /\ w.at = k.at
  BY DEF Answers
<1>3. CASE Later(k.run, k.at, {"reload", "leave"})
  BY <1>2, <1>3 DEF WillShow
<1>4. CASE Patched(n, k)
  <2>1. \A j \in DOMAIN w.run: j > w.at /\ w.run[j] \in ListSteps => Shows(n, ListAfter(w.run[j], list, w), table, filter, told)
    BY <1>2, <1>4 DEF Patched, Has
  <2>2. ~Later(w.run, w.at, ListSteps) => Shows(n, list, table, filter, told)
    BY <1>2, <1>4 DEF Patched
  <2>3. QED
    BY <2>1, <2>2 DEF WillShow
<1>5. QED
  BY <1>1, <1>3, <1>4

\* The page as it is fits.
LEMMA PageFits ==
  ASSUME Known
  PROVE  Fits(page, ui.list, rows, ui.filter)
<1>1. /\ page \in DOMAIN Pages /\ IsList(ui.list) /\ ui.filter \in {Pages[page].first} \cup Pages[page].filters
      /\ rows \in [Ids -> Pages[page].states \cup {None, Deleted}]
  BY DEF Known, This
<1>2. QED
  BY <1>1 DEF Fits

\* A row created is told to the list, or will be.
LEMMA CreatedList ==
  ASSUME Known, NEW k, CallKnown(page, k), NEW w, Created(k, w), Shows(page, ui.list, rows, ui.filter, Told)
  PROVE  WillShow(page, ui.list, rows', ui.filter, Told', w)
<1>1. PICK i \in Ids: /\ Awaits(k) \in {"add", "addHere", "put"} /\ rows' = [rows EXCEPT ![i] = k.to]
                      /\ Answers(w, k, i, "ok", k.to)
  BY DEF Created
<1>2. page \in DOMAIN Pages /\ Fits(page, ui.list, rows, ui.filter) /\ Told \in SUBSET Ids /\ Told' = Told
  BY PageFits DEF Known, Told, Created
<1>3. w.id = i /\ w.to = k.to
  BY <1>1 DEF Answers
<1>4. k.to \in Pages[page].states
  BY <1>1, <1>2, WriteTo DEF Writes
<1>5. ASSUME NEW s \in ListSteps, PatchOf(page, k, s) PROVE Shows(page, ListAfter(s, ui.list, w), rows', ui.filter, Told')
  <2>1. s = "putNew" /\ (page = "detections" \/ Whole(Pages[page]))
    BY <1>1, <1>5 DEF PatchOf
  <2>2. Shows(page, ListAfter("putNew", ui.list, w), [rows EXCEPT ![i] = w.to], ui.filter, Told)
    BY <1>2, <1>3, <1>4, <2>1, AddShows
  <2>3. QED
    BY <1>1, <1>2, <1>3, <2>1, <2>2
<1>6. Awaits(k) \in Writes /\ Awaits(k) \notin {"enable", "touch", "post", "swap"}
  BY <1>1 DEF Writes
<1>7. QED
  BY <1>1, <1>2, <1>5, <1>6, PatchShows

\* Many rows created are loaded.
LEMMA CreatedManyList ==
  ASSUME Known, NEW k, CallKnown(page, k), NEW w, CreatedMany(k, w)
  PROVE  WillShow(page, ui.list, rows', ui.filter, Told', w)
<1>1. Awaits(k) = "addMany" /\ Answers(w, k, k.id, "ok", None) /\ page \in DOMAIN Pages
  BY DEF CreatedMany, Known
<1>2. Awaits(k) \in Writes /\ Awaits(k) \notin {"enable", "touch", "post", "swap"} /\ \A s: ~PatchOf(page, k, s)
  BY <1>1 DEF Writes, PatchOf
<1>3. QED
  BY <1>1, <1>2, PatchShows

\* A decision made on a list or a panel that is not doubted was made on the row the server has.
Sure(k) == ~hist.stale /\ (Deciding(k) /\ OfList(k) => (page = "docs" /\ k.panel) \/ rows[k.id] = k.from)

\* A row changed is told to the list, or will be.
LEMMA DoneList ==
  ASSUME Known, NEW c \in Calls, NEW k, CallKnown(page, k), k.ans = "none", NEW w, Done(c, k, w), Awaits(k) \in Writes,
         Sure(k), k # Idle, Shows(page, ui.list, rows, ui.filter, Told)
  PROVE  WillShow(page, ui.list, rows', ui.filter, Told', w)
<1>1. /\ Awaits(k) \in RowCalls /\ Live(k.id) /\ rows' = Changed(k) /\ Answers(w, k, k.id, "ok", rows'[k.id])
  BY DEF Done
<1>2. page \in DOMAIN Pages /\ Fits(page, ui.list, rows, ui.filter)
  BY PageFits DEF Known
<1>3. w.id = k.id /\ w.to = k.to /\ w.got = rows'[k.id] /\ w.from = k.from
  BY <1>1 DEF Answers
<1>4. k.id \in Ids
  BY <1>1, <1>2, RowCallsRow
<1>t. /\ Told \in SUBSET Ids /\ Told' \in SUBSET Told
      /\ Told' = IF Awaits(k) = "enable" THEN Told \ {k.id} ELSE Told
  BY DEF Told, Done
<1>5. Awaits(k) \in {"enable", "touch", "post", "swap"} => Shows(page, ui.list, rows', ui.filter, Told')
  <2>1. CASE Awaits(k) = "enable"
    <3>1. rows' = [rows EXCEPT ![k.id] = k.to]
      BY <1>1, <2>1 DEF Changed
    <3>2. \A i \in Told': i \in Told /\ rows'[i] = rows[i]
      BY <1>t, <2>1, <3>1 DEF Known
    <3>3. QED
      BY <3>2 DEF Shows
  <2>2. CASE Awaits(k) = "touch"
    <3>1. rows' = rows /\ Told' = Told
      BY <1>1, <1>t, <2>2 DEF Changed
    <3>2. QED
      BY <3>1
  <2>3. QED
    BY <1>1, <2>1, <2>2 DEF RowCalls
<1>6. rows = [i \in Ids |-> rows[i]] /\ rows[k.id] \notin {None, Deleted}
  BY <1>1, <1>4 DEF Known, Live
<1>7. ASSUME NEW s \in ListSteps, PatchOf(page, k, s), Has(k.run, s) PROVE Shows(page, ListAfter(s, ui.list, w), rows', ui.filter, Told')
  <2>1. CASE Awaits(k) = "touch"
    <3>1. s = "putRow" /\ rows' = rows /\ Told' = Told
      BY <1>1, <1>t, <1>7, <2>1 DEF PatchOf, Changed
    <3>2. Shows(page, ListAfter("putRow", ui.list, w), rows, ui.filter, Told)
      <4>1. w.id \in Ids /\ w.got = rows[w.id]
        BY <1>3, <1>4, <3>1
      <4>2. QED
        BY <1>2, <1>t, <4>1, TouchShows
    <3>3. QED
      BY <3>1, <3>2
  <2>2. CASE Awaits(k) = "remove"
    <3>1. s = "dropRow" /\ rows' = [rows EXCEPT ![k.id] = Deleted] /\ Told' = Told
      BY <1>1, <1>t, <1>7, <2>2 DEF PatchOf, Changed
    <3>2. Deleted \notin ui.filter
      BY <1>2, FilterIs DEF Fits
    <3>3. Shows(page, ListAfter("dropRow", ui.list, w), [rows EXCEPT ![w.id] = Deleted], ui.filter, Told)
      <4>1. w.id \in Ids
        BY <1>3, <1>4
      <4>2. QED
        BY <1>2, <1>t, <3>2, <4>1, DropShows
    <3>4. QED
      BY <1>3, <3>1, <3>3
  <2>3. CASE Awaits(k) = "save"
    <3>1. rows' = [rows EXCEPT ![k.id] = k.to] /\ Told' = Told
      BY <1>1, <1>t, <2>3 DEF Changed
    <3>2. k.to \in Pages[page].states
      BY <1>2, <2>3, WriteTo DEF Writes
    <3>3. rows'[k.id] = k.to
      BY <1>4, <1>6, <3>1
    <3>4. CASE s = "putRow"
      <4>1. ui.filter = Pages[page].states
        BY <1>2, <1>7, <2>3, <3>4 DEF PatchOf, Whole, Fits
      <4>2. ListAfter(s, ui.list, w) = IF ui.list[k.id] # None THEN [ui.list EXCEPT ![k.id] = k.to] ELSE ui.list
        BY <1>3, <3>3, <3>4 DEF ListAfter
      <4>3. Shows(page, IF ui.list[k.id] # None THEN [ui.list EXCEPT ![k.id] = k.to] ELSE ui.list,
                  [rows EXCEPT ![k.id] = k.to], ui.filter, Told)
        BY <1>2, <1>4, <1>6, <1>t, <3>2, <4>1, SetShows
      <4>4. QED
        BY <3>1, <4>2, <4>3
    <3>5. CASE s = "flipRow"
      <4>1. page = "detections" /\ k.to = Flip(k.from)
        BY <1>7, <3>5 DEF PatchOf
      <4>2. k.id \in Told => rows[k.id] = k.from
        BY <1>7, <2>3, <3>5, <4>1 DEF Sure, Deciding, OfList, Told
      <4>3. k.id \in Told /\ ui.list[k.id] # None => Flip(ui.list[k.id]) = k.to
        <5>1. k.id \in Told /\ ui.list[k.id] # None => ui.list[k.id] = rows[k.id]
          BY DEF Shows
        <5>2. QED
          BY <4>1, <4>2, <5>1
      <4>4. ListAfter(s, ui.list, w)
              = IF ui.list[k.id] # None THEN [ui.list EXCEPT ![k.id] = Flip(ui.list[k.id])] ELSE ui.list
        BY <1>3, <3>5 DEF ListAfter
      <4>5. PICK st: st = Flip(ui.list[k.id])
        OBVIOUS
      <4>6. k.id \in Told /\ ui.list[k.id] # None => st = k.to
        BY <4>3, <4>5
      <4>7. Shows(page, IF ui.list[k.id] # None THEN [ui.list EXCEPT ![k.id] = st] ELSE ui.list,
                  [rows EXCEPT ![k.id] = k.to], ui.filter, Told)
        <5>1. rows[k.id] \notin {None, Deleted} /\ Told \in SUBSET Ids
          BY <1>6, <1>t
        <5>2. page # "detections" => ui.filter = Pages[page].states
          BY <4>1
        <5>3. QED
          BY <1>2, <1>4, <3>2, <4>6, <5>1, <5>2, SetShows
      <4>8. QED
        BY <3>1, <4>4, <4>5, <4>7
    <3>6. CASE s = "dropRow"
      <4>1. k.to \notin ui.filter
        BY <1>2, <1>7, <2>3, <3>6 DEF PatchOf, Fits
      <4>2. Shows(page, ListAfter("dropRow", ui.list, w), [rows EXCEPT ![w.id] = k.to], ui.filter, Told)
        BY <1>2, <1>3, <1>4, <1>t, <4>1, DropShows
      <4>3. QED
        BY <1>3, <3>1, <3>6, <4>2
    <3>7. QED
      BY <1>7, <2>3, <3>4, <3>5, <3>6 DEF PatchOf
  <2>4. QED
    BY <1>1, <1>7, <2>1, <2>2, <2>3 DEF PatchOf, RowCalls
<1>8. QED
  BY <1>1, <1>2, <1>5, <1>7, PatchShows

\* A list saved as a whole is told so.
LEMMA DoneOthersList ==
  ASSUME Known, NEW k, CallKnown(page, k), NEW w, DoneOthers(k, w), Shows(page, ui.list, rows, ui.filter, Told),
         Awaits(k) = "saveAll" => k.all = {i \in Ids: ui.list[i] # None}
  PROVE  WillShow(page, ui.list, rows', ui.filter, Told', w)
<1>1. Awaits(k) \in {"post", "saveAll", "swap"} /\ rows' = Changed(k) /\ Answers(w, k, k.id, "ok", None)
  BY DEF DoneOthers
<1>2. page \in DOMAIN Pages /\ Fits(page, ui.list, rows, ui.filter) /\ Told \in SUBSET Ids
      /\ Told' = IF Awaits(k) = "swap" THEN {} ELSE Told
  BY PageFits DEF Known, Told, DoneOthers
<1>3. w.to = k.to
  BY <1>1 DEF Answers
<1>4. Awaits(k) \in {"enable", "touch", "post", "swap"} => Shows(page, ui.list, rows', ui.filter, Told')
  <2>1. CASE Awaits(k) = "post"
    <3>1. rows' = rows /\ Told' = Told
      BY <1>1, <1>2, <2>1 DEF Changed
    <3>2. QED
      BY <3>1
  <2>2. CASE Awaits(k) = "swap"
    BY <1>2, <2>2 DEF Shows
  <2>3. QED
    BY <1>1, <2>1, <2>2
<1>5. ASSUME NEW s \in ListSteps, PatchOf(page, k, s) PROVE Shows(page, ListAfter(s, ui.list, w), rows', ui.filter, Told')
  <2>1. s = "setAll" /\ Awaits(k) = "saveAll" /\ page = "detections"
    BY <1>1, <1>5 DEF PatchOf
  <2>2. k.to \in Pages[page].states
    BY <1>2, <2>1, WriteTo DEF Writes
  <2>3. rows' = [i \in Ids |-> IF ui.list[i] # None /\ rows[i] \notin {None, Deleted} THEN w.to ELSE rows[i]]
    BY <1>1, <1>3, <2>1 DEF Changed, Live
  <2>4. QED
    BY <1>2, <1>3, <2>1, <2>2, <2>3, SetAllShows
<1>6. Awaits(k) \in Writes
  BY <1>1 DEF Writes
<1>7. QED
  BY <1>1, <1>2, <1>4, <1>5, <1>6, PatchShows

\* A row fetched leaves the list to show what it shows.
LEMMA FetchedList ==
  ASSUME NEW n \in DOMAIN Pages, NEW w, CallKnown(n, w), Awaits(w) = "fetch",
         NEW list, NEW table, NEW filter, NEW told, Shows(n, list, table, filter, told)
  PROVE  WillShow(n, list, table, filter, told, w)
<1>1. RunFacts(n, w)
  BY RunOrdered
<1>2. ~Later(w.run, w.at, ListSteps)
  BY <1>1 DEF RunFacts, Writes
<1>3. QED
  BY <1>2 DEF WillShow, Later

\* Of a single call the list is held if that call holds it.
LEMMA ListNext ==
  ASSUME page' = page, NEW c \in Calls,
         ~hist'.stale =>
           /\ \A d \in Calls \ {c}: call'[d] = Idle
           /\ call'[c] # Idle => call'[c].filter = ui'.filter
           /\ ui'.here => IF call'[c] = Idle THEN Shows(page, ui'.list, rows', ui'.filter, Told')
                          ELSE ListHeld(page, ui'.list, rows', ui'.filter, Told', call'[c])
  PROVE  ListInv'
<1> SUFFICES ASSUME ~hist'.stale
             PROVE  /\ \A d \in Calls: call'[d] # Idle => call'[d].filter = ui'.filter
                    /\ ui'.here => /\ Quiet' => Shows(page', ui'.list, rows', ui'.filter, Told')
                                   /\ \A d \in Calls: call'[d] # Idle => ListHeld(page', ui'.list, rows', ui'.filter, Told', call'[d])
  BY DEF ListInv, Quiet
<1>1. \A d \in Calls: call'[d] # Idle => d = c
  OBVIOUS
<1>2. Quiet' => call'[c] = Idle
  BY DEF Quiet
<1>3. QED
  BY <1>1, <1>2

\* What the server does to the table, its answer tells the list.
LEMMA ServeList ==
  ASSUME Known, Sole, ListInv, Decided, NEW c \in Calls, NEW w, Serves(c, w)
  PROVE  ListInv'
<1> DEFINE k == call[c]
<1>1. /\ k # Idle /\ k.ans = "none" /\ page' = page /\ ui' = ui
      /\ call' = [d \in Calls |-> IF d = c THEN w ELSE call[d]] /\ w # Idle
  BY ServedCall DEF Serves, Swaps
<1>2. page \in DOMAIN Pages /\ CallKnown(page, k) /\ Known' /\ CallKnown(page, w)
  <2>1. Known'
    BY ServeKnown
  <2>2. call'[c] = w
    BY <1>1
  <2>3. QED
    BY <1>1, <2>1, <2>2 DEF Known
<1>3. SUFFICES ASSUME ~hist'.stale
               PROVE  /\ \A d \in Calls \ {c}: call[d] = Idle
                      /\ w.filter = ui.filter
                      /\ ui.here => ListHeld(page, ui.list, rows', ui.filter, Told', w)
  <2>1. call'[c] = w /\ \A d \in Calls \ {c}: call'[d] = call[d]
    BY <1>1
  <2>2. QED
    BY <1>1, <1>3, <2>1, ListNext
<1>4. CASE Loaded(c, k, w)
  <2>1. /\ Awaits(k) = "reload" /\ rows' = rows /\ Answers(w, k, k.id, "ok", Shown(k.filter))
        /\ hist'.stale = (IF k.filter = ui.filter /\ Alone(c) THEN FALSE ELSE hist.stale)
    BY <1>4 DEF Loaded
  <2>2. k.filter = ui.filter /\ Alone(c)
    <3>1. CASE ~hist.stale
      BY <1>1, <3>1 DEF ListInv, Sole, Alone
    <3>2. CASE hist.stale
      BY <1>3, <2>1, <3>2
    <3>3. QED
      BY <3>1, <3>2
  <2>3. Awaits(w) = "reload" /\ w.ans = "ok" /\ w.filter = ui.filter
        /\ w.got = [i \in Ids |-> IF rows'[i] \in ui.filter THEN rows'[i] ELSE None]
    BY <2>1, <2>2 DEF Answers, Shown
  <2>4. ListHeld(page, ui.list, rows', ui.filter, Told', w)
    BY <2>3 DEF ListHeld
  <2>5. QED
    BY <2>2, <2>3, <2>4 DEF Alone
<1>5. CASE ~Loaded(c, k, w)
  <2>1. ~hist.stale
    BY <1>3, <1>5 DEF Serves, Created, CreatedMany, Done, DoneOthers, Refused, Failed
  <2>2. \A d \in Calls \ {c}: call[d] = Idle
    BY <1>1, <2>1 DEF Sole
  <2>3. w.filter = ui.filter
    <3>1. k.filter = ui.filter
      BY <1>1, <2>1 DEF ListInv
    <3>2. QED
      BY <3>1, AnswersSome DEF Answers
  <2>4. SUFFICES ASSUME ui.here PROVE ListHeld(page, ui.list, rows', ui.filter, Told', w)
    BY <2>2, <2>3
  <2>5. ListHeld(page, ui.list, rows, ui.filter, Told, k)
    BY <1>1, <2>1, <2>4 DEF ListInv
  <2>6. Awaits(k) \notin {"reload", "debounce"} =>
          Shows(page, ui.list, rows, ui.filter, Told) /\ (Awaits(k) = "saveAll" => k.all = {i \in Ids: ui.list[i] # None})
    BY <1>1, <2>5 DEF ListHeld
  <2>7. CASE Created(k, w)
    <3>1. Awaits(k) \in {"add", "addHere", "put"} /\ w.ans = "ok" /\ Awaits(w) = Awaits(k)
      BY <2>7 DEF Created, Answers
    <3>2. WillShow(page, ui.list, rows', ui.filter, Told', w)
      BY <1>2, <2>6, <2>7, <3>1, CreatedList
    <3>3. QED
      BY <3>1, <3>2 DEF ListHeld
  <2>m. CASE CreatedMany(k, w)
    <3>1. Awaits(k) = "addMany" /\ w.ans = "ok" /\ Awaits(w) = Awaits(k)
      BY <2>m DEF CreatedMany, Answers
    <3>2. WillShow(page, ui.list, rows', ui.filter, Told', w)
      BY <1>2, <2>m, CreatedManyList
    <3>3. QED
      BY <3>1, <3>2 DEF ListHeld
  <2>8. CASE Done(c, k, w)
    <3>1. Awaits(k) \in RowCalls /\ w.ans = "ok" /\ Awaits(w) = Awaits(k) /\ rows' = Changed(k)
      BY <2>8 DEF Done, Answers
    <3>2. Shows(page, ui.list, rows, ui.filter, Told)
      BY <2>6, <3>1 DEF RowCalls
    <3>3. WillShow(page, ui.list, rows', ui.filter, Told', w)
      <4>1. CASE Awaits(k) = "fetch"
        <5>1. rows' = rows /\ Told' = Told
          BY <2>8, <3>1, <4>1 DEF Changed, Done, Told
        <5>2. QED
          BY <1>2, <3>1, <3>2, <4>1, <5>1, FetchedList
      <4>2. CASE Awaits(k) # "fetch"
        <5>1. Awaits(k) \in Writes
          BY <3>1, <4>2 DEF RowCalls, Writes
        <5>2. Sure(k)
          BY <2>1 DEF Decided, Sure
        <5>3. QED
          BY <1>1, <1>2, <2>8, <3>2, <5>1, <5>2, DoneList
      <4>3. QED
        BY <4>1, <4>2
    <3>4. QED
      BY <3>1, <3>3 DEF ListHeld, RowCalls
  <2>9. CASE DoneOthers(k, w)
    <3>1. Awaits(k) \in {"post", "saveAll", "swap"} /\ w.ans = "ok" /\ Awaits(w) = Awaits(k)
      BY <2>9 DEF DoneOthers, Answers
    <3>2. WillShow(page, ui.list, rows', ui.filter, Told', w)
      BY <1>2, <2>6, <2>9, <3>1, DoneOthersList
    <3>3. QED
      BY <3>1, <3>2 DEF ListHeld
  <2>10. CASE Refused(k, w)
    <3>1. Awaits(k) \in RowCalls \cup {"add", "addHere", "addMany"} /\ rows' = rows /\ Told' = Told
          /\ w.ans = "error" /\ Awaits(w) = Awaits(k)
      BY <2>10 DEF Refused, Answers, Told
    <3>2. Awaits(k) \notin {"reload", "debounce", "saveAll"}
      BY <3>1 DEF RowCalls
    <3>3. QED
      BY <2>6, <3>1, <3>2 DEF ListHeld
  <2>11. QED
    BY <1>3, <1>5, <2>7, <2>m, <2>8, <2>9, <2>10 DEF Serves, Failed
<1>6. QED
  BY <1>4, <1>5

\* Steps that patch no list leave it.
LEMMA GoneList ==
  ASSUME NEW u, NEW k, NEW run, NEW i, Gone(u, k, run, i),
         \A h \in i .. (NextAwait(run, i) - 1): run[h] \notin ListSteps
  PROVE  After(u, k, run, i).list = u.list
<1>1. 0 \in Nat /\ Once(run, i, NextAwait(run, i) - 1, ListSteps, 0)
  BY DEF Once
<1>2. After(u, k, run, i).list
        = IF i <= 0 /\ 0 < NextAwait(run, i) THEN ListAfter(run[0], u.list, k) ELSE u.list
  BY <1>1 DEF Gone
<1>3. CASE i <= 0 /\ 0 < NextAwait(run, i)
  <2>1. ListAfter(run[0], u.list, k) = u.list
    <3>1. run[0] \notin ListSteps
      BY <1>3 DEF Gone
    <3>2. QED
      BY <3>1, ListOther
  <2>2. QED
    BY <1>2, <2>1
<1>4. QED
  BY <1>2, <1>3

\* Steps that do not touch the panel leave it.
LEMMA GoneSel ==
  ASSUME NEW u, NEW k, NEW run, NEW i \in Nat \ {0}, Gone(u, k, run, i),
         \A h \in i .. (NextAwait(run, i) - 1): run[h] \notin SelSteps
  PROVE  After(u, k, run, i).sel = u.sel
<1>1. 0 \in Nat /\ Once(run, i, NextAwait(run, i) - 1, SelSteps, 0)
  BY DEF Once
<1>2. After(u, k, run, i).sel
        = IF i <= 0 /\ 0 < NextAwait(run, i) THEN SelAfter(run[0], u.sel, k) ELSE u.sel
  BY <1>1 DEF Gone
<1>3. QED
  BY <1>2

\* After an answer a handler awaits a load, a row, or nothing.
LEMMA LandCall ==
  ASSUME Known, NEW c \in Calls, call[c] # Idle, NEW u, NEW run, NEW i, Goes(c, u, run, i), Lands(call[c], u, run, i),
         NEW w, w = Waiting(call[c], run, i), w # Idle
  PROVE  Awaits(w) \in {"reload", "fetch"} /\ CallKnown(page, w)
<1> DEFINE k == call[c]
           stop == NextAwait(run, i)
<1>1. /\ Script(run) /\ i \in Nat \ {0} /\ stop \in i .. (Len(run) + 1)
      /\ Waits(w, k, run, stop) /\ call' = [d \in Calls |-> IF d = c THEN w ELSE call[d]]
      /\ page' = page
  BY DEF Goes, Gone, Swaps
<1>2. stop \in DOMAIN run /\ w.run = run /\ w.at = stop /\ Awaits(w) = run[stop] /\ Awaits(w) \in Async
  BY <1>1 DEF Waits
<1>3. CallKnown(page, w) /\ page \in DOMAIN Pages
  <2>1. Known' /\ call'[c] = w
    BY <1>1, LandKnown
  <2>2. CallKnown(page', w)
    BY <2>1 DEF Known
  <2>3. QED
    BY <1>1, <2>2 DEF Known
<1>4. Awaits(w) \in {"reload", "fetch"}
  <2>1. CallKnown(page, k)
    BY DEF Known
  <2>2. CASE run = k.run /\ i = k.at + 1
    <3>1. RunFacts(page, k) /\ RunFacts(page, w)
      BY <1>3, <2>1, RunOrdered
    <3>2. w.at # 1
      BY <1>1, <1>2, <2>2, <3>1 DEF RunFacts, Script
    <3>3. Awaits(w) \notin Writes /\ Awaits(w) # "debounce"
      BY <3>1, <3>2 DEF RunFacts
    <3>4. QED
      BY <1>2, <3>3 DEF Async, Writes
  <2>3. CASE run = k.catch
    <3>1. Recovers(k.catch)
      BY <1>3, <2>1, CatchIs
    <3>2. QED
      BY <1>2, <2>3, <3>1 DEF Recovers, Async
  <2>4. QED
    BY <2>2, <2>3 DEF Lands
<1>5. QED
  BY <1>3, <1>4

\* A filter's rows, loaded, are what the list has to show.
LEMMA LoadShows ==
  ASSUME NEW n, NEW list, NEW table, NEW filter, NEW told \in SUBSET Ids, Fits(n, list, table, filter),
         list = [i \in Ids |-> IF table[i] \in filter THEN table[i] ELSE None]
  PROVE  Shows(n, list, table, filter, told)
<1>1. filter \subseteq Pages[n].states /\ None \notin Pages[n].states
  BY FilterIs DEF Fits
<1>2. \A i \in Ids: list[i] = IF table[i] \in filter THEN table[i] ELSE None
  OBVIOUS
<1>3. QED
  BY <1>1, <1>2 DEF Shows

\* An answer that comes brings the list to what it was to show.
LEMMA LandShows ==
  ASSUME Known, NEW c \in Calls, call[c] # Idle, NEW u, NEW run, NEW i, Goes(c, u, run, i), Lands(call[c], u, run, i),
         ListHeld(page, ui.list, rows, ui.filter, Told, call[c]), call[c].filter = ui.filter, ui'.here,
         NEW w, w = Waiting(call[c], run, i), w = Idle \/ Awaits(w) = "fetch"
  PROVE  Shows(page, ui'.list, rows, ui.filter, Told)
<1> DEFINE k == call[c]
           stop == NextAwait(run, i)
<1>1. /\ Script(run) /\ i \in Nat \ {0} /\ stop \in i .. (Len(run) + 1) /\ Gone(u, k, run, i)
      /\ Waits(w, k, run, stop) /\ ui' = After(u, k, run, i)
      /\ \A j \in i .. (stop - 1): run[j] \notin Async /\ run[j] # "leave"
  BY DEF Goes, Gone
<1>2. page \in DOMAIN Pages /\ CallKnown(page, k) /\ Fits(page, ui.list, rows, ui.filter) /\ Told \in SUBSET Ids
  BY PageFits DEF Known, Told
<1>3. CASE /\ run = k.run /\ i = k.at + 1
  <2>1. RunFacts(page, k)
    BY <1>2, RunOrdered
  <2>2. k.at \in Nat /\ i # 1 /\ \A j \in DOMAIN run: j > k.at => j >= i
    BY <1>1, <1>3, <2>1 DEF RunFacts, Script
  <2>3. Awaits(k) \notin Writes => ui'.list = u.list
    <3>1. SUFFICES ASSUME Awaits(k) \notin Writes, NEW h \in i .. (stop - 1) PROVE run[h] \notin ListSteps
      BY <1>1, GoneList
    <3>2. h \in DOMAIN run /\ h > k.at
      BY <1>1, <1>3, <2>2 DEF Script
    <3>3. ~Later(k.run, k.at, ListSteps)
      BY <2>1, <3>1 DEF RunFacts
    <3>4. QED
      BY <1>3, <3>2, <3>3 DEF Later
  <2>4. ~Later(k.run, k.at, Async) => w = Idle /\ stop = Len(run) + 1
    <3>1. SUFFICES ASSUME ~Later(k.run, k.at, Async) PROVE stop \notin DOMAIN run
      BY <1>1 DEF Waits
    <3>2. stop \in DOMAIN run => run[stop] \in Async /\ stop > k.at
      BY <1>1, <1>3, <2>2 DEF Waits
    <3>3. QED
      BY <1>3, <3>1, <3>2 DEF Later
  <2>5. CASE Awaits(k) = "reload"
    <3>1. k.ans = "ok" /\ u.list = k.got
      BY <1>3, <2>5 DEF Lands, ListHeld, Writes
    <3>2. u.list = [j \in Ids |-> IF rows[j] \in ui.filter THEN rows[j] ELSE None]
      BY <2>5, <3>1 DEF ListHeld
    <3>3. ui'.list = u.list
      BY <2>3, <2>5 DEF Writes
    <3>4. Fits(page, u.list, rows, ui.filter)
      BY <1>2, <3>2 DEF Fits, IsList, Goes
    <3>5. QED
      BY <1>2, <3>2, <3>3, <3>4, LoadShows
  <2>6. CASE Awaits(k) = "debounce"
    <3>1. k.run = <<"debounce", "reload">> /\ k.at = 1
      BY <2>1, <2>6 DEF RunFacts
    <3>2. i = 2 /\ Len(run) = 2 /\ DOMAIN run = 1 .. 2 /\ run[2] = "reload"
      BY <1>3, <3>1
    <3>3. stop = 2
      BY <1>1, <3>2 DEF Async
    <3>4. w # Idle /\ Awaits(w) = "reload"
      BY <1>1, <3>2, <3>3 DEF Waits
    <3>5. QED
      BY <3>4
  <2>7. CASE Awaits(k) \in Writes \cup {"fetch"}
    <3>1. k.ans = "ok" /\ u.list = ui.list
      BY <1>3, <2>2, <2>7 DEF Lands, Writes
    <3>2. WillShow(page, ui.list, rows, ui.filter, Told, k)
      BY <2>7, <3>1 DEF ListHeld, Writes
    <3>3. ~Later(k.run, k.at, {"leave"})
      <4>1. SUFFICES ASSUME NEW j \in DOMAIN run, j > k.at, run[j] = "leave" PROVE FALSE
        BY <1>3 DEF Later
      <4>2. ~Later(k.run, k.at, Async)
        BY <1>3, <2>1, <4>1 DEF RunFacts, Later
      <4>3. j \in i .. (stop - 1)
        BY <1>1, <2>2, <2>4, <4>1, <4>2 DEF Script
      <4>4. QED
        BY <1>1, <4>1, <4>3
    <3>4. ~Later(k.run, k.at, {"reload"})
      <4>1. SUFFICES ASSUME NEW j \in DOMAIN run, j > k.at, run[j] = "reload" PROVE FALSE
        BY <1>3 DEF Later
      <4>2. j >= stop
        <5>1. run[j] \in Async
          BY <4>1 DEF Async
        <5>2. QED
          BY <1>1, <2>2, <4>1, <5>1 DEF Script
      <4>3. stop \in DOMAIN run
        BY <1>1, <4>1, <4>2 DEF Script
      <4>4. w # Idle /\ w.at = stop /\ w.run = run /\ Awaits(w) = run[stop]
        BY <1>1, <4>3 DEF Waits
      <4>5. Awaits(w) = "fetch" /\ RunFacts(page, w)
        <5>1. CallKnown(page, w)
          BY <4>4, LandCall
        <5>2. QED
          BY <1>2, <4>4, <5>1, RunOrdered
      <4>6. j > stop
        <5>1. j # stop
          BY <4>1, <4>4, <4>5
        <5>2. QED
          BY <1>1, <4>1, <4>2, <5>1 DEF Script
      <4>7. Later(w.run, w.at, Async)
        BY <4>1, <4>4, <4>6 DEF Later, Async
      <4>8. QED
        BY <4>5, <4>7 DEF RunFacts, Later
    <3>5. /\ \A j \in DOMAIN k.run: j > k.at /\ k.run[j] \in ListSteps => Shows(page, ListAfter(k.run[j], ui.list, k), rows, ui.filter, Told)
          /\ ~Later(k.run, k.at, ListSteps) => Shows(page, ui.list, rows, ui.filter, Told)
      BY <3>2, <3>3, <3>4 DEF WillShow, Later
    <3>6. CASE Later(k.run, k.at, ListSteps)
      <4>1. PICK j \in DOMAIN k.run: j > k.at /\ k.run[j] \in ListSteps
        BY <3>6 DEF Later
      <4>2. stop = Len(run) + 1
        BY <2>1, <2>4, <3>6 DEF RunFacts
      <4>3. j \in Nat /\ i <= j /\ j < stop
        BY <1>1, <1>3, <2>2, <4>1, <4>2 DEF Script
      <4>4. Once(run, i, stop - 1, ListSteps, j)
        <5>1. Only(k.run, j, ListSteps)
          BY <2>1, <4>1 DEF RunFacts
        <5>2. \A h \in i .. (stop - 1): h \in DOMAIN run
          BY <1>1, <4>2 DEF Script
        <5>3. QED
          BY <1>3, <5>1, <5>2 DEF Only, Once
      <4>5. ui'.list = ListAfter(k.run[j], ui.list, k)
        BY <1>1, <1>3, <3>1, <4>3, <4>4 DEF Gone
      <4>6. QED
        BY <3>5, <4>1, <4>5
    <3>7. CASE ~Later(k.run, k.at, ListSteps)
      <4>1. \A h \in i .. (stop - 1): run[h] \notin ListSteps
        <5>1. SUFFICES ASSUME NEW h \in i .. (stop - 1) PROVE run[h] \notin ListSteps
          OBVIOUS
        <5>2. h \in DOMAIN run /\ h > k.at
          BY <1>1, <1>3, <2>2 DEF Script
        <5>3. QED
          BY <1>3, <3>7, <5>2 DEF Later
      <4>2. ui'.list = ui.list
        BY <1>1, <3>1, <4>1, GoneList
      <4>3. QED
        BY <3>5, <3>7, <4>2
    <3>8. QED
      BY <3>6, <3>7
  <2>8. QED
    BY <1>2, <2>5, <2>6, <2>7 DEF CallKnown, Async, Writes
<1>4. CASE /\ run = k.catch /\ i = 1 /\ Awaits(k) \notin {"reload", "debounce"} /\ k.ans = "error" /\ u.list = ui.list
  <2>1. Recovers(k.catch)
    BY <1>2, CatchIs
  <2>2. \A h \in i .. (stop - 1): run[h] \notin ListSteps
    <3>1. SUFFICES ASSUME NEW h \in i .. (stop - 1) PROVE run[h] \notin ListSteps
      OBVIOUS
    <3>2. h \in DOMAIN run
      BY <1>1 DEF Script
    <3>3. QED
      BY <1>4, <2>1, <3>2 DEF Recovers, ListSteps
  <2>3. ui'.list = ui.list
    BY <1>1, <1>4, <2>2, GoneList
  <2>4. QED
    BY <1>4, <2>3 DEF ListHeld
<1>5. QED
  BY <1>3, <1>4 DEF Lands

\* An answer that comes keeps the list, or the promise of it.
LEMMA LandList ==
  ASSUME Known, Sole, ListInv, NEW c \in Calls, call[c] # Idle, NEW u, NEW run, NEW i,
         Goes(c, u, run, i), Lands(call[c], u, run, i)
  PROVE  ListInv'
<1> DEFINE k == call[c]
           w == Waiting(k, run, i)
<1>1. /\ call' = [d \in Calls |-> IF d = c THEN w ELSE call[d]] /\ Waits(w, k, run, NextAwait(run, i))
      /\ page' = page /\ rows' = rows /\ hist' = hist /\ ui' = After(u, k, run, i)
      /\ u.filter = ui.filter /\ u.here = ui.here /\ Leads(u, After(u, k, run, i))
  BY DEF Goes, Swaps, Gone
<1>2. ui'.filter = ui.filter /\ (ui'.here => ui.here)
  BY <1>1 DEF Leads
<1>3. call'[c] = w /\ \A d \in Calls \ {c}: call'[d] = call[d]
  BY <1>1
<1>4. SUFFICES ASSUME ~hist.stale
               PROVE  /\ \A d \in Calls \ {c}: call[d] = Idle
                      /\ w # Idle => w.filter = ui.filter
                      /\ ui'.here => IF w = Idle THEN Shows(page, ui'.list, rows, ui.filter, Told)
                                     ELSE ListHeld(page, ui'.list, rows, ui.filter, Told, w)
  <2>1. Told' = Told
    BY <1>1 DEF Told
  <2>2. QED
    BY <1>1, <1>2, <1>3, <2>1, ListNext
<1>5. \A d \in Calls \ {c}: call[d] = Idle
  BY <1>4 DEF Sole
<1>6. k.filter = ui.filter
  BY <1>4 DEF ListInv
<1>7. w # Idle => w.filter = k.filter /\ w.ans = "none"
  BY <1>1 DEF Waits, SameOf
<1>8. ASSUME ui'.here
      PROVE  IF w = Idle THEN Shows(page, ui'.list, rows, ui.filter, Told) ELSE ListHeld(page, ui'.list, rows, ui.filter, Told, w)
  <2>1. ListHeld(page, ui.list, rows, ui.filter, Told, k)
    BY <1>2, <1>4, <1>8 DEF ListInv
  <2>2. w = Idle \/ Awaits(w) = "fetch" => Shows(page, ui'.list, rows, ui.filter, Told)
    BY <1>6, <1>8, <2>1, LandShows
  <2>3. w # Idle => Awaits(w) \in {"reload", "fetch"}
    BY LandCall
  <2>4. QED
    BY <1>7, <2>2, <2>3 DEF ListHeld
<1>9. QED
  BY <1>5, <1>6, <1>7, <1>8

\* What a press needs to know of its script.
PressRun(b, k, run) ==
  /\ Disciplined(page, This, b) /\ Script(b.run) /\ Script(run) /\ DOMAIN run = DOMAIN b.run
  /\ \A j \in DOMAIN run: run[j] = b.run[j] \/ (b.run[j] = "fetchIf" /\ run[j] = "fetch")
  /\ First(run)

\* It is so.
LEMMA PressRunIs ==
  ASSUME Known, NEW b \in Buttons, NEW k
  PROVE  PressRun(b, k, Begun(b.run, k))
<1>1. Disciplined(page, This, b)
  BY PagesDisciplined DEF Known, Disciplines, Buttons, This
<1>2. Script(b.run) /\ Ordered(b.run)
  BY <1>1 DEF Disciplined, Ordered
<1>3. QED
  BY <1>1, <1>2, BegunRun, CallingIs DEF PressRun

\* Before its first call a handler patches no list.
LEMMA PressLeavesList ==
  ASSUME Known, NEW c \in Calls, NEW b \in Buttons, NEW id, NEW m, NEW panel \in BOOLEAN, NEW k, NEW u, Presses(c, b, id, m, panel, k, u)
  PROVE  ui'.list = ui.list /\ ui'.filter = ui.filter /\ (ui'.here => ui.here)
<1> DEFINE run == Begun(b.run, k)
           stop == NextAwait(run, 1)
<1>1. /\ ui' = After(u, k, run, 1) /\ Gone(u, k, run, 1) /\ u.list = ui.list /\ u.filter = ui.filter /\ u.here = ui.here
      /\ stop \in 1 .. (Len(run) + 1) /\ Leads(u, After(u, k, run, 1))
  BY DEF Presses, Starts, Gone
<1>2. PressRun(b, k, run)
  BY PressRunIs
<1>3. ASSUME NEW h \in 1 .. (stop - 1) PROVE run[h] \notin ListSteps
  <2>1. SUFFICES ASSUME run[h] \in ListSteps PROVE FALSE
    OBVIOUS
  <2>2. h \in DOMAIN run /\ 1 \in DOMAIN run
    BY <1>1, <1>2 DEF PressRun, Script
  <2>3. b.run[h] \in ListSteps
    BY <1>2, <2>1, <2>2 DEF PressRun, ListSteps
  <2>4. b.run[1] \in Writes
    BY <1>2, <2>2, <2>3 DEF PressRun, Disciplined, KeepsList
  <2>5. run[1] \in Async
    BY <1>2, <2>2, <2>4 DEF PressRun, Writes, Async
  <2>6. run[1] \notin Async
    BY <1>1, <2>2 DEF Gone
  <2>7. QED
    BY <2>5, <2>6
<1>4. ui'.list = u.list
  BY <1>1, <1>3, GoneList
<1>5. QED
  BY <1>1, <1>4 DEF Leads

\* A press keeps the list, or the promise of it.
LEMMA PressList ==
  ASSUME Known, Sole, ListInv, NEW c \in Calls, NEW b \in Buttons, NEW id, NEW m, NEW panel \in BOOLEAN, NEW k, NEW u, Presses(c, b, id, m, panel, k, u)
  PROVE  ListInv'
<1> DEFINE run == Begun(b.run, k)
           w == Waiting(k, run, 1)
<1>1. /\ call' = [d \in Calls |-> IF d = c THEN w ELSE call[d]] /\ Waits(w, k, run, NextAwait(run, 1))
      /\ call[c] = Idle /\ page' = page /\ rows' = rows /\ Doubts(hist', b.run, id, panel)
      /\ k.filter = ui.filter /\ k.all = {i \in Ids: ui.list[i] # None}
  BY DEF Presses, Starts, Swaps
<1>2. ui'.list = ui.list /\ ui'.filter = ui.filter /\ (ui'.here => ui.here)
  BY PressLeavesList
<1>3. w # Idle <=> Calling(b.run)
  BY PressCalling
<1>4. SUFFICES ASSUME ~hist'.stale PROVE ListInv'
  BY DEF ListInv
<1>5. ~hist.stale /\ (w # Idle => Quiet)
  BY <1>1, <1>3, <1>4 DEF Doubts
<1>6. call'[c] = w /\ \A d \in Calls \ {c}: call'[d] = call[d]
  BY <1>1
<1>t. Told' \in SUBSET Told
  BY <1>1 DEF Told, Doubts
<1>7. CASE w = Idle
  <2>1. \A d \in Calls: call'[d] = call[d]
    BY <1>1, <1>6, <1>7
  <2>2. Quiet' = Quiet
    BY <2>1 DEF Quiet
  <2>3. \A d \in Calls: call[d] # Idle => call[d].filter = ui.filter
    BY <1>5 DEF ListInv
  <2>4. ui.here => (Quiet => Shows(page, ui.list, rows, ui.filter, Told))
    BY <1>5 DEF ListInv
  <2>5. ui.here => \A d \in Calls: call[d] # Idle => ListHeld(page, ui.list, rows, ui.filter, Told, call[d])
    BY <1>5 DEF ListInv
  <2>6. \A d \in Calls: call'[d] # Idle => call'[d].filter = ui'.filter
    BY <1>2, <2>1, <2>3
  <2>7. ui'.here => (Quiet' => Shows(page', ui'.list, rows', ui'.filter, Told'))
    BY <1>1, <1>2, <1>t, <2>2, <2>4, LessShows
  <2>8. ui'.here => \A d \in Calls: call'[d] # Idle => ListHeld(page', ui'.list, rows', ui'.filter, Told', call'[d])
    BY <1>1, <1>2, <1>t, <2>1, <2>5, LessHeld
  <2>9. QED
    BY <2>6, <2>7, <2>8 DEF ListInv
<1>8. CASE w # Idle
  <2>1. /\ w.filter = k.filter /\ w.all = k.all /\ w.ans = "none" /\ \A d \in Calls \ {c}: call'[d] = Idle
    BY <1>1, <1>5, <1>6, <1>8 DEF Waits, SameOf, Quiet
  <2>2. ui.here => Shows(page, ui.list, rows, ui.filter, Told)
    BY <1>5, <1>8 DEF ListInv
  <2>3. ui.here => ListHeld(page, ui.list, rows, ui.filter, Told', w)
    <3>1. ui.here => ListHeld(page, ui.list, rows, ui.filter, Told, w)
      BY <1>1, <2>1, <2>2 DEF ListHeld
    <3>2. QED
      BY <1>t, <3>1, LessHeld
  <2>4. QED
    BY <1>1, <1>2, <1>6, <1>8, <2>1, <2>3, ListNext
<1>9. QED
  BY <1>7, <1>8

\* A filter chosen is to be loaded.
LEMMA ChooseList ==
  ASSUME Known, NEW c \in Calls, NEW f, NEW k, NEW u, Chooses(c, f, k, u)
  PROVE  ListInv'
<1> DEFINE w == Waiting(k, This.refilter, 1)
<1>1. /\ ui' = After(u, k, This.refilter, 1) /\ Leads(u, After(u, k, This.refilter, 1)) /\ u.filter = f /\ k.filter = f
      /\ Waits(w, k, This.refilter, 1) /\ This.refilter[1] \in {"reload", "debounce"} /\ 1 \in DOMAIN This.refilter
      /\ page' = page
  BY DEF Chooses, Starts, Gone
<1>2. w # Idle /\ w.filter = f /\ w.ans = "none" /\ Awaits(w) \in {"reload", "debounce"}
  BY <1>1 DEF Waits, SameOf
<1>3. ui'.filter = f
  BY <1>1 DEF Leads
<1>4. ListHeld(page, ui'.list, rows', f, Told', w)
  BY <1>2 DEF ListHeld
<1>5. call'[c] = w /\ (~hist'.stale => \A d \in Calls \ {c}: call'[d] = Idle)
  BY ChooseDoubts
<1>6. QED
  BY <1>1, <1>2, <1>3, <1>4, <1>5, ListNext

------------------------------------------------------------------------------
(* The panel.                                                              *)

\* What is still to come for the panel is a step of this kind, or nothing.
BySel(k, s) ==
  /\ Later(k.run, k.at, {s})
  /\ \A j \in DOMAIN k.run: j > k.at /\ k.run[j] \in SelSteps => k.run[j] = s
MendOf(k, s) ==
  \/ s = "patchIf"   /\ Awaits(k) = "save"
  \/ s = "flipIf"    /\ Awaits(k) = "save" /\ k.to = Flip(k.from)
  \/ s = "closeIf"   /\ Awaits(k) \in {"save", "remove"}
  \/ s = "putIf"     /\ Awaits(k) = "touch"
  \/ s = "selectNew" /\ Awaits(k) = "add"
Mended(k) ==
  \/ Awaits(k) \in {"save", "touch", "add"} /\ Later(k.run, k.at, {"fetch"})
  \/ /\ ~Later(k.run, k.at, {"fetch"})
     /\ \/ Awaits(k) \in {"touch", "add", "addMany", "saveAll", "enable", "post"} /\ ~Later(k.run, k.at, SelSteps)
        \/ Awaits(k) = "save" /\ ~Later(k.run, k.at, SelSteps) /\ ~Same(k)
        \/ \E s \in SelSteps: MendOf(k, s) /\ BySel(k, s)

\* After a write the panel is brought to the row's new state.
LEMMA WritePanel ==
  ASSUME NEW n \in DOMAIN Pages, n \in WithPanel, NEW k, CallKnown(n, k), Awaits(k) \in Writes
  PROVE  Mended(k)
<1>1. PICK b: WriteRun(n, k, b)
  BY WriteIs
<1>2. /\ k.at = 1 /\ 1 \in DOMAIN b.run /\ DOMAIN k.run = DOMAIN b.run /\ Script(b.run)
      /\ b.run[1] = Awaits(k) /\ KeepsPanel(n, Pages[n], b)
      /\ \A j \in DOMAIN b.run: /\ k.run[j] = b.run[j] \/ (b.run[j] = "fetchIf" /\ k.run[j] = "fetch")
                                /\ Same(k) => k.run[j] # "fetchIf"
  BY <1>1 DEF WriteRun, Disciplined
<1>3. PICK m \in b.moves: k.from = m[1] /\ k.to = m[2]
  BY <1>1 DEF WriteRun, RunsOf
<1>5. PICK by: by = {b.run[j]: j \in DOMAIN b.run} \cap (SelSteps \cup Fetches)
  OBVIOUS
<1>6. \A j \in DOMAIN b.run: b.run[j] \in SelSteps \cup Fetches => b.run[j] \in by
  BY <1>5
<1>7. \A s \in by: \E j \in DOMAIN b.run: b.run[j] = s
  BY <1>5
<1>8. \A j \in DOMAIN b.run: b.run[j] \in SelSteps \cup Fetches => j > 1
  <2>1. \A j \in DOMAIN b.run: j # 1 => j > 1
    BY <1>2 DEF Script
  <2>2. Awaits(k) \notin SelSteps \cup Fetches
    BY DEF Writes, SelSteps, Fetches
  <2>3. QED
    BY <1>2, <2>1, <2>2
<1>9. Mends(Pages[n], b, Awaits(k))
  BY <1>2 DEF KeepsPanel
<1>10. \/ Awaits(k) = "save"   /\ by \in {{"patchIf"}, {"closeIf"}, {"fetchIf"}}
       \/ Awaits(k) = "save"   /\ by = {"flipIf"} /\ k.to = Flip(k.from)
       \/ Awaits(k) = "remove" /\ by = {"closeIf"}
       \/ Awaits(k) = "touch"  /\ by \in {{}, {"fetch"}, {"putIf"}}
       \/ Awaits(k) = "add"    /\ by \in {{}, {"selectNew"}, {"selectNew", "fetch"}}
       \/ Awaits(k) \in {"addMany", "saveAll", "enable", "post"} /\ by = {}
  BY <1>3, <1>5, <1>9 DEF Mends
<1>11. \A j \in DOMAIN k.run: k.run[j] \in SelSteps => k.run[j] = b.run[j] /\ k.run[j] \in by
  BY <1>2, <1>6 DEF SelSteps
<1>12. ASSUME NEW s \in SelSteps, by = {s} PROVE BySel(k, s) /\ ~Later(k.run, k.at, {"fetch"})
  <2>1. PICK j \in DOMAIN b.run: b.run[j] = s
    BY <1>7, <1>12
  <2>2. k.run[j] = s /\ j > 1
    BY <1>2, <1>8, <1>12, <2>1 DEF SelSteps
  <2>3. \A h \in DOMAIN k.run: k.run[h] # "fetch"
    BY <1>2, <1>6, <1>12 DEF SelSteps, Fetches
  <2>4. QED
    BY <1>2, <1>11, <1>12, <2>1, <2>2, <2>3 DEF BySel, Later
<1>13. ASSUME by \cap Fetches = {} PROVE ~Later(k.run, k.at, {"fetch"})
  BY <1>2, <1>6, <1>13 DEF Later, Fetches
<1>14. ASSUME by \cap SelSteps = {} PROVE ~Later(k.run, k.at, SelSteps)
  BY <1>11, <1>14 DEF Later
<1>15. ASSUME "fetch" \in by PROVE Later(k.run, k.at, {"fetch"})
  <2>1. PICK j \in DOMAIN b.run: b.run[j] = "fetch"
    BY <1>7, <1>15
  <2>2. k.run[j] = "fetch" /\ j > 1
    BY <1>2, <1>8, <2>1 DEF Fetches
  <2>3. QED
    BY <1>2, <2>1, <2>2 DEF Later
<1>16. CASE by = {}
  BY <1>10, <1>13, <1>14, <1>16 DEF Mended
<1>17. CASE by = {"fetchIf"}
  <2>1. Awaits(k) = "save"
    BY <1>10, <1>17
  <2>2. ~Later(k.run, k.at, SelSteps)
    BY <1>14, <1>17 DEF SelSteps
  <2>3. CASE Same(k)
    <3>1. PICK j \in DOMAIN b.run: b.run[j] = "fetchIf"
      BY <1>7, <1>17
    <3>2. k.run[j] = "fetch" /\ j > 1
      BY <1>2, <1>8, <2>3, <3>1 DEF Fetches
    <3>3. QED
      BY <1>2, <2>1, <3>1, <3>2 DEF Later, Mended
  <2>4. QED
    BY <2>1, <2>2, <2>3 DEF Mended
<1>18. CASE by \in {{"fetch"}, {"selectNew", "fetch"}}
  <2>1. Awaits(k) \in {"touch", "add"}
    BY <1>10, <1>18
  <2>2. QED
    BY <1>15, <1>18, <2>1 DEF Mended
<1>19. CASE by = {"patchIf"}
  <2>1. Awaits(k) = "save" /\ "patchIf" \in SelSteps /\ MendOf(k, "patchIf")
    BY <1>10, <1>19 DEF SelSteps, MendOf
  <2>2. QED
    BY <1>12, <1>19, <2>1 DEF Mended
<1>20. CASE by = {"closeIf"}
  <2>1. Awaits(k) \in {"save", "remove"} /\ "closeIf" \in SelSteps /\ MendOf(k, "closeIf")
    BY <1>10, <1>20 DEF SelSteps, MendOf
  <2>2. QED
    BY <1>12, <1>20, <2>1 DEF Mended
<1>21. CASE by = {"flipIf"}
  <2>1. Awaits(k) = "save" /\ k.to = Flip(k.from) /\ "flipIf" \in SelSteps /\ MendOf(k, "flipIf")
    BY <1>10, <1>21 DEF SelSteps, MendOf
  <2>2. QED
    BY <1>12, <1>21, <2>1 DEF Mended
<1>22. CASE by = {"putIf"}
  <2>1. Awaits(k) = "touch" /\ "putIf" \in SelSteps /\ MendOf(k, "putIf")
    BY <1>10, <1>22 DEF SelSteps, MendOf
  <2>2. QED
    BY <1>12, <1>22, <2>1 DEF Mended
<1>23. CASE by = {"selectNew"}
  <2>1. Awaits(k) = "add" /\ "selectNew" \in SelSteps /\ MendOf(k, "selectNew")
    BY <1>10, <1>23 DEF SelSteps, MendOf
  <2>2. QED
    BY <1>12, <1>23, <2>1 DEF Mended
<1>24. QED
  BY <1>10, <1>16, <1>17, <1>18, <1>19, <1>20, <1>21, <1>22, <1>23

\* The call k on its way, answered w, leaves the panel to follow its row.
LEMMA MendFollows ==
  ASSUME NEW k, NEW w, NEW id, NEW got, Answers(w, k, id, "ok", got), Mended(k), NEW sel, NEW table,
         Awaits(k) \in {"save", "touch", "add"} => table[w.id] \notin {None, Deleted},
         Awaits(k) \in {"touch", "add", "addMany", "saveAll", "enable", "post"} => Follows(sel, table),
         Awaits(k) = "save" /\ ~Same(k) => Follows(sel, table),
         \A s \in SelSteps: MendOf(k, s) /\ Has(k.run, s) => Follows(SelAfter(s, sel, w), table)
  PROVE  WillFollow(sel, table, w)
<1>1. w.run = k.run /\ w.at = k.at
  BY DEF Answers
<1>2. CASE Later(k.run, k.at, {"fetch"})
  <2>1. Awaits(k) \in {"save", "touch", "add"}
    BY <1>2 DEF Mended
  <2>2. QED
    BY <1>1, <1>2, <2>1 DEF WillFollow
<1>3. CASE ~Later(k.run, k.at, {"fetch"}) /\ ~Later(k.run, k.at, SelSteps)
  <2>1. Follows(sel, table)
    <3>1. \A s \in SelSteps: ~BySel(k, s)
      BY <1>3 DEF BySel, Later
    <3>2. QED
      BY <1>3, <3>1 DEF Mended
  <2>2. QED
    BY <1>1, <1>3, <2>1 DEF WillFollow, Later
<1>4. CASE ~Later(k.run, k.at, {"fetch"}) /\ Later(k.run, k.at, SelSteps)
  <2>1. PICK s \in SelSteps: BySel(k, s) /\ Follows(SelAfter(s, sel, w), table)
    BY <1>4 DEF Mended, BySel, Later, Has
  <2>2. QED
    BY <1>1, <1>4, <2>1 DEF WillFollow, BySel
<1>5. QED
  BY <1>2, <1>3, <1>4

\* The panel of another row follows it, whatever is done to this one.
LEMMA OtherFollows ==
  ASSUME NEW sel, NEW table, OpenRow(sel), table = [i \in Ids |-> table[i]], Follows(sel, table),
         NEW id, NEW st, sel # None => sel.id # id
  PROVE  Follows(sel, [table EXCEPT ![id] = st])
<1>1. SUFFICES ASSUME sel # None PROVE [table EXCEPT ![id] = st][sel.id] = table[sel.id]
  BY DEF Follows
<1>2. sel.id \in Ids /\ sel.id # id
  BY <1>1 DEF OpenRow
<1>3. QED
  BY <1>2

\* A row that is saved or removed: the panel is told, if it shows it.
LEMMA ChangedFollows ==
  ASSUME NEW sel, NEW table, OpenRow(sel), table = [i \in Ids |-> table[i]], Follows(sel, table),
         NEW k, k.sel = sel, k.id \in Ids, NEW to, NEW w, w.sel = k.sel, w.id = k.id, w.to = k.to, NEW s,
         \/ s = "closeIf"
         \/ to = k.to /\ to \notin {None, Deleted} /\ s = "patchIf"
         \/ to = k.to /\ to \notin {None, Deleted} /\ s = "flipIf" /\ k.to = Flip(k.from)
            /\ (Same(k) => table[k.id] = k.from)
  PROVE  Follows(SelAfter(s, sel, w), [table EXCEPT ![k.id] = to])
<1> DEFINE new == [table EXCEPT ![k.id] = to]
<1>1. new[k.id] = to
  OBVIOUS
<1>2. /\ Same(w) <=> (sel # None /\ sel.id = k.id)
      /\ Same(w) <=> Same(k)
  BY DEF Same
<1>3. CASE Same(w)
  <2>1. CASE s = "closeIf"
    <3>1. SelAfter(s, sel, w) = None
      BY <1>3, <2>1 DEF SelAfter, Unmounts
    <3>2. QED
      BY <3>1 DEF Follows
  <2>2. CASE s = "patchIf"
    <3>1. SelAfter(s, sel, w) = Open(sel.id, k.to)
      BY <1>2, <1>3, <2>2 DEF SelAfter, Unmounts
    <3>2. QED
      BY <1>1, <1>2, <1>3, <2>2, <3>1 DEF Follows, Open
  <2>3. CASE s = "flipIf"
    <3>1. SelAfter(s, sel, w) = Open(sel.id, Flip(sel.st))
      BY <1>2, <1>3, <2>3 DEF SelAfter, Unmounts
    <3>2. sel.st = k.from
      BY <1>2, <1>3, <2>3 DEF Follows
    <3>3. QED
      BY <1>1, <1>2, <1>3, <2>3, <3>1, <3>2 DEF Follows, Open
  <2>4. QED
    BY <2>1, <2>2, <2>3
<1>4. CASE ~Same(w)
  <2>1. SelAfter(s, sel, w) = sel
    BY <1>4 DEF SelAfter, Unmounts
  <2>2. Follows(sel, new)
    BY <1>2, <1>4, OtherFollows
  <2>3. QED
    BY <2>1, <2>2
<1>5. QED
  BY <1>3, <1>4

\* A row changed is told to the panel, or will be.
LEMMA DonePanel ==
  ASSUME Known, NEW c \in Calls, NEW k, CallKnown(page, k), page \in WithPanel, NEW w, Done(c, k, w), Awaits(k) \in Writes,
         Follows(ui.sel, rows), k.sel = ui.sel, Awaits(k) = "enable" => ~Untold({k.id}),
         Awaits(k) = "save" /\ Has(k.run, "flipIf") /\ Same(k) => rows[k.id] = k.from
  PROVE  WillFollow(ui.sel, rows', w)
<1>1. /\ Awaits(k) \in RowCalls /\ Live(k.id) /\ rows' = Changed(k) /\ Answers(w, k, k.id, "ok", rows'[k.id])
  BY DEF Done
<1>2. page \in DOMAIN Pages /\ OpenRow(ui.sel) /\ rows = [i \in Ids |-> rows[i]]
  BY DEF Known
<1>3. w.id = k.id /\ w.to = k.to /\ w.got = rows'[k.id] /\ w.sel = k.sel
  BY <1>1 DEF Answers
<1>4. k.id \in Ids /\ rows[k.id] \notin {None, Deleted}
  BY <1>1, <1>2, RowCallsRow DEF Live
<1>5. Mended(k)
  BY <1>2, WritePanel
<1>6. CASE Awaits(k) = "save"
  <2>1. rows' = [rows EXCEPT ![k.id] = k.to]
    BY <1>1, <1>6 DEF Changed
  <2>2. k.to \notin {None, Deleted}
    <3>1. k.to \in Pages[page].states
      BY <1>2, <1>6, WriteTo DEF Writes
    <3>2. QED
      BY <1>2, <3>1, FilterIs
  <2>3. rows'[k.id] = k.to
    BY <1>2, <1>4, <2>1
  <2>4. ~Same(k) => Follows(ui.sel, rows')
    <3>1. SUFFICES ASSUME ~Same(k) PROVE Follows(ui.sel, rows')
      OBVIOUS
    <3>2. ui.sel # None => ui.sel.id # k.id
      BY <3>1 DEF Same
    <3>3. QED
      BY <1>2, <2>1, <3>2, OtherFollows
  <2>5. ASSUME NEW s \in SelSteps, MendOf(k, s), Has(k.run, s) PROVE Follows(SelAfter(s, ui.sel, w), rows')
    <3>1. s = "closeIf" \/ s = "patchIf" \/ (s = "flipIf" /\ k.to = Flip(k.from) /\ (Same(k) => rows[k.id] = k.from))
      BY <1>6, <2>5 DEF MendOf
    <3>2. Follows(SelAfter(s, ui.sel, w), [rows EXCEPT ![k.id] = k.to])
      BY <1>2, <1>3, <1>4, <1>6, <2>2, <3>1, ChangedFollows
    <3>3. QED
      BY <2>1, <3>2
  <2>6. QED
    BY <1>1, <1>3, <1>5, <1>6, <2>2, <2>3, <2>4, <2>5, MendFollows
<1>7. CASE Awaits(k) = "remove"
  <2>1. rows' = [rows EXCEPT ![k.id] = Deleted]
    BY <1>1, <1>7 DEF Changed
  <2>2. ASSUME NEW s \in SelSteps, MendOf(k, s) PROVE Follows(SelAfter(s, ui.sel, w), rows')
    <3>1. s = "closeIf"
      BY <1>7, <2>2 DEF MendOf
    <3>2. Follows(SelAfter(s, ui.sel, w), [rows EXCEPT ![k.id] = Deleted])
      BY <1>2, <1>3, <1>4, <3>1, ChangedFollows
    <3>3. QED
      BY <2>1, <3>2
  <2>3. QED
    BY <1>1, <1>5, <1>7, <2>2, MendFollows
<1>8. CASE Awaits(k) = "touch"
  <2>1. rows' = rows
    BY <1>1, <1>8 DEF Changed
  <2>2. ASSUME NEW s \in SelSteps, MendOf(k, s) PROVE Follows(SelAfter(s, ui.sel, w), rows')
    <3>1. s = "putIf"
      BY <1>8, <2>2 DEF MendOf
    <3>2. SelAfter(s, ui.sel, w) = ui.sel \/ SelAfter(s, ui.sel, w) = Open(k.id, rows[k.id])
      BY <1>3, <2>1, <3>1 DEF SelAfter, Unmounts
    <3>3. QED
      BY <1>4, <2>1, <3>2 DEF Follows, Open
  <2>3. QED
    BY <1>1, <1>3, <1>4, <1>5, <1>8, <2>1, <2>2, MendFollows
<1>9. CASE Awaits(k) = "enable"
  <2>1. rows' = [rows EXCEPT ![k.id] = k.to]
    BY <1>1, <1>9 DEF Changed
  <2>2. ui.sel # None => ui.sel.id # k.id
    BY <1>9 DEF Untold
  <2>3. Follows(ui.sel, rows')
    BY <1>2, <2>1, <2>2, OtherFollows
  <2>4. \A s \in SelSteps: ~MendOf(k, s)
    BY <1>9 DEF MendOf
  <2>5. QED
    BY <1>1, <1>5, <1>9, <2>3, <2>4, MendFollows
<1>10. CASE Awaits(k) \in {"put", "settle"}
  BY <1>5, <1>10 DEF Mended, MendOf
<1>11. QED
  BY <1>1, <1>6, <1>7, <1>8, <1>9, <1>10 DEF RowCalls, Writes

\* A row created is shown as it was created, or not at all.
LEMMA CreatedPanel ==
  ASSUME Known, NEW k, CallKnown(page, k), page \in WithPanel, NEW w, Created(k, w), Follows(ui.sel, rows)
  PROVE  WillFollow(ui.sel, rows', w)
<1>1. PICK i \in Ids: /\ Awaits(k) \in {"add", "addHere", "put"} /\ rows' = [rows EXCEPT ![i] = k.to]
                      /\ rows[i] = None /\ Answers(w, k, i, "ok", k.to)
  BY DEF Created
<1>2. page \in DOMAIN Pages /\ OpenRow(ui.sel) /\ rows = [j \in Ids |-> rows[j]]
  BY DEF Known
<1>3. w.id = i /\ w.to = k.to
  BY <1>1 DEF Answers
<1>4. Awaits(k) = "add" /\ Mended(k)
  <2>1. Mended(k)
    BY <1>1, <1>2, WritePanel DEF Writes
  <2>2. QED
    BY <1>1, <2>1 DEF Mended, MendOf
<1>5. k.to \notin {None, Deleted}
  <2>1. k.to \in Pages[page].states
    BY <1>2, <1>4, WriteTo DEF Writes
  <2>2. QED
    BY <1>2, <2>1, FilterIs
<1>6. rows'[i] = k.to
  BY <1>1, <1>2
<1>7. Follows(ui.sel, rows')
  <2>1. ui.sel # None => ui.sel.id # i
    BY <1>1 DEF Follows
  <2>2. QED
    BY <1>1, <1>2, <2>1, OtherFollows
<1>8. ASSUME NEW s \in SelSteps, MendOf(k, s) PROVE Follows(SelAfter(s, ui.sel, w), rows')
  <2>1. s = "selectNew"
    BY <1>4, <1>8 DEF MendOf
  <2>2. SelAfter(s, ui.sel, w) = Open(i, k.to)
    BY <1>3, <2>1 DEF SelAfter, Unmounts
  <2>3. QED
    BY <1>5, <1>6, <2>2 DEF Follows, Open
<1>9. QED
  BY <1>1, <1>3, <1>4, <1>5, <1>6, <1>7, <1>8, MendFollows

\* Rows created many at once are none that the panel shows.
LEMMA CreatedManyPanel ==
  ASSUME Known, NEW k, CallKnown(page, k), page \in WithPanel, NEW w, CreatedMany(k, w), Follows(ui.sel, rows)
  PROVE  WillFollow(ui.sel, rows', w)
<1>1. Awaits(k) = "addMany" /\ Answers(w, k, k.id, "ok", None) /\ OpenRow(ui.sel) /\ page \in DOMAIN Pages
  BY DEF CreatedMany, Known
<1>2. PICK S \in SUBSET {i \in Ids: rows[i] = None}: \E E \in SUBSET S: rows' = Imported(S, E)
  BY DEF CreatedMany
<1>3. PICK E \in SUBSET S: rows' = Imported(S, E)
  BY <1>2
<1>4. Mended(k)
  BY <1>1, WritePanel DEF Writes
<1>5. \A s \in SelSteps: ~MendOf(k, s)
  BY <1>1 DEF MendOf
<1>6. Follows(ui.sel, rows')
  <2>1. SUFFICES ASSUME ui.sel # None PROVE rows'[ui.sel.id] = rows[ui.sel.id]
    BY DEF Follows
  <2>2. ui.sel.id \in Ids /\ ui.sel.id \notin S
    BY <1>1, <2>1 DEF OpenRow, Follows
  <2>3. QED
    BY <1>3, <2>2 DEF Imported
<1>7. QED
  BY <1>1, <1>4, <1>5, <1>6, MendFollows

\* A call about no row, or about rows of which the panel shows none, leaves it to follow its own.
LEMMA OthersPanel ==
  ASSUME Known, NEW k, CallKnown(page, k), page \in WithPanel, NEW w, DoneOthers(k, w), Follows(ui.sel, rows),
         Awaits(k) = "saveAll" => ~Untold(k.all)
  PROVE  WillFollow(ui.sel, rows', w)
<1>1. Awaits(k) \in {"post", "saveAll", "swap"} /\ rows' = Changed(k) /\ Answers(w, k, k.id, "ok", None)
  BY DEF DoneOthers
<1>2. Mended(k)
  BY <1>1, WritePanel DEF Known, Writes
<1>3. \A s \in SelSteps: ~MendOf(k, s)
  BY <1>1 DEF MendOf
<1>4. Awaits(k) # "swap"
  BY <1>2, <1>3 DEF Mended
<1>5. Follows(ui.sel, rows')
  <2>1. CASE Awaits(k) = "post"
    BY <1>1, <2>1 DEF Changed
  <2>2. CASE Awaits(k) = "saveAll"
    <3>1. rows' = [i \in Ids |-> IF i \in k.all /\ Live(i) THEN k.to ELSE rows[i]]
      BY <1>1, <2>2 DEF Changed
    <3>2. SUFFICES ASSUME ui.sel # None PROVE rows'[ui.sel.id] = rows[ui.sel.id]
      BY DEF Follows
    <3>3. ui.sel.id \in Ids /\ ui.sel.id \notin k.all
      BY <2>2, <3>2 DEF Known, OpenRow, Untold
    <3>4. QED
      BY <3>1, <3>3
  <2>3. QED
    BY <1>1, <1>4, <2>1, <2>2
<1>6. QED
  BY <1>1, <1>2, <1>3, <1>4, <1>5, MendFollows

\* Who loads puts no answer of his own into the panel afterwards.
LEMMA NoPutIf ==
  ASSUME NEW n \in DOMAIN Pages, n \in WithPanel, NEW k, CallKnown(n, k), Awaits(k) \in {"reload", "debounce"},
         NEW j \in DOMAIN k.run, j > k.at
  PROVE  k.run[j] # "putIf"
<1>1. SUFFICES ASSUME k.run[j] = "putIf" PROVE FALSE
  OBVIOUS
<1>2. CASE Loads(n, k)
  <2>1. k.run \in {<<"reload">>, <<"debounce", "reload">>}
    BY <1>2, PagesDisciplined DEF Loads, Disciplines
  <2>2. CASE k.run = <<"reload">>
    <3>1. DOMAIN k.run = 1 .. 1 /\ k.run[1] = "reload"
      BY <2>2
    <3>2. QED
      BY <1>1, <3>1
  <2>3. CASE k.run = <<"debounce", "reload">>
    <3>1. DOMAIN k.run = 1 .. 2 /\ k.run[1] = "debounce" /\ k.run[2] = "reload"
      BY <2>3
    <3>2. QED
      BY <1>1, <3>1
  <2>4. QED
    BY <2>1, <2>2, <2>3
<1>3. ASSUME NEW b \in ButtonsOf(Pages[n]), RunsOf(n, k, b) PROVE FALSE
  <2>1. Disciplined(n, Pages[n], b)
    BY PagesDisciplined DEF Disciplines
  <2>2. CASE k.run = b.catch
    BY <1>1, <2>1, <2>2 DEF Disciplined, Recovers
  <2>3. CASE k.run = Begun(b.run, k)
    <3>1. Script(b.run) /\ Ordered(b.run) /\ KeepsPanel(n, Pages[n], b)
      BY <2>1 DEF Disciplined, Ordered
    <3>2. /\ DOMAIN k.run = DOMAIN b.run
          /\ \A h \in DOMAIN b.run: k.run[h] = b.run[h] \/ (b.run[h] = "fetchIf" /\ k.run[h] = "fetch")
      BY <2>3, <3>1, BegunRun
    <3>3. k.at \in DOMAIN b.run /\ b.run[k.at] \in {"reload", "debounce"} /\ b.run[j] = "putIf"
      BY <1>1, <3>2 DEF CallKnown, Awaits
    <3>4. b.run[k.at] = "reload"
      BY <3>1, <3>3 DEF Ordered, Has
    <3>5. ~Lacks(b.run, Writes)
      BY <3>1, <3>2, <3>3, <3>4 DEF KeepsPanel, Has, Lacks, SelSteps
    <3>6. PICK h \in DOMAIN b.run: b.run[h] \in Writes
      BY <3>5 DEF Lacks
    <3>7. h = 1 /\ Mends(Pages[n], b, b.run[h])
      BY <3>1, <3>6 DEF KeepsPanel, Ordered
    <3>8. "putIf" \in {b.run[g]: g \in DOMAIN b.run} \cap (SelSteps \cup Fetches)
      BY <3>2, <3>3 DEF SelSteps
    <3>9. ~Later(b.run, 1, Awaited)
      BY <3>7, <3>8 DEF Mends
    <3>10. k.at > 1
      <4>1. k.at # 1
        BY <3>4, <3>6, <3>7 DEF Writes
      <4>2. QED
        BY <3>1, <3>3, <4>1 DEF Script
    <3>11. QED
      BY <3>3, <3>4, <3>9, <3>10 DEF Later, Awaited, Async
  <2>4. QED
    BY <1>3, <2>2, <2>3 DEF RunsOf
<1>4. QED
  BY <1>2, <1>3 DEF CallKnown

\* A handler that goes on as it was leaves the panel to follow as it was to.
LEMMA FollowSame ==
  ASSUME NEW k, NEW w, w.run = k.run, w.at = k.at, w.id = k.id, w.from = k.from, w.to = k.to, w.sel = k.sel,
         \A j \in DOMAIN k.run: j > k.at => k.run[j] # "putIf",
         NEW sel, NEW table, WillFollow(sel, table, k)
  PROVE  WillFollow(sel, table, w)
<1>1. CASE Later(k.run, k.at, {"fetch"})
  BY <1>1 DEF WillFollow
<1>2. CASE ~Later(k.run, k.at, {"fetch"})
  <2>1. \A s: s # "putIf" => SelAfter(s, sel, w) = SelAfter(s, sel, k)
    BY DEF SelAfter, Unmounts, Same
  <2>2. \A j \in DOMAIN w.run: j > w.at /\ w.run[j] \in SelSteps => Follows(SelAfter(w.run[j], sel, w), table)
    BY <1>2, <2>1 DEF WillFollow
  <2>3. ~Later(w.run, w.at, SelSteps) => Follows(sel, table)
    BY <1>2 DEF WillFollow
  <2>4. QED
    BY <1>2, <2>2, <2>3 DEF WillFollow
<1>3. QED
  BY <1>1, <1>2

\* A page without a panel opens none; a panel is in doubt whenever the list is, on all pages but one.
Paneless == page \notin WithPanel \cup {"docs"} => ui.sel = None
Behind   == page # "missions" /\ hist.stale => hist.doubt

\* Of a single call the panel is held if that call holds it.
LEMMA PanelNext ==
  ASSUME page' = page, Paneless', Behind', NEW c \in Calls,
         page \in WithPanel /\ ~hist'.doubt =>
           /\ \A d \in Calls \ {c}: call'[d] = Idle
           /\ IF call'[c] = Idle THEN Follows(ui'.sel, rows') ELSE PanelHeld(ui'.sel, rows', call'[c])
  PROVE  PanelInv'
<1>1. ASSUME page \in WithPanel, ~hist'.doubt
      PROVE  /\ Quiet' => Follows(ui'.sel, rows')
             /\ \A d \in Calls: call'[d] # Idle => PanelHeld(ui'.sel, rows', call'[d])
  BY <1>1 DEF Quiet
<1>2. QED
  BY <1>1 DEF PanelInv, Paneless, Behind, Quiet

\* What the server does to the row, its answer tells the panel.
LEMMA ServePanel ==
  ASSUME Known, Sole, PanelInv, Decided, NEW c \in Calls, NEW w, Serves(c, w)
  PROVE  PanelInv'
<1> DEFINE k == call[c]
<1>1. /\ k # Idle /\ k.ans = "none" /\ page' = page /\ ui' = ui
      /\ call' = [d \in Calls |-> IF d = c THEN w ELSE call[d]] /\ w # Idle
  BY ServedCall DEF Serves, Swaps
<1>2. page \in DOMAIN Pages /\ CallKnown(page, k) /\ RunFacts(page, k)
  BY <1>1, RunOrdered DEF Known
<1>3. Paneless'
  BY <1>1 DEF PanelInv, Paneless
<1>4. Behind'
  <2>1. SUFFICES ASSUME page # "missions", hist'.stale PROVE hist'.doubt
    BY <1>1 DEF Behind
  <2>2. Awaits(k) # "fetch"
    BY <1>2, <2>1 DEF RunFacts, Lacks, Awaits
  <2>3. CASE Failed(k, w)
    BY <2>3 DEF Failed
  <2>4. CASE ~Failed(k, w)
    <3>1. hist.stale
      BY <2>1, <2>4 DEF Serves, Created, CreatedMany, Done, DoneOthers, Loaded, Refused
    <3>2. hist.doubt
      BY <2>1, <3>1 DEF PanelInv
    <3>3. QED
      BY <2>2, <2>4, <3>2 DEF Serves, Created, CreatedMany, Done, DoneOthers, Loaded, Refused
  <2>5. QED
    BY <2>3, <2>4
<1>5. SUFFICES ASSUME page \in WithPanel, ~hist'.doubt
               PROVE  (\A d \in Calls \ {c}: call[d] = Idle) /\ PanelHeld(ui.sel, rows', w)
  <2>1. call'[c] = w /\ \A d \in Calls \ {c}: call'[d] = call[d]
    BY <1>1
  <2>2. QED
    BY <1>1, <1>3, <1>4, <1>5, <2>1, PanelNext
<1>6. CASE Done(c, k, w) /\ Awaits(k) = "fetch"
  <2>1. /\ Live(k.id) /\ rows' = rows /\ Answers(w, k, k.id, "ok", rows'[k.id])
        /\ hist'.doubt = (IF Alone(c) THEN FALSE ELSE hist.doubt)
    <3>1. hist.doubt \in BOOLEAN
      BY DEF Known
    <3>2. hist'.doubt = (IF Alone(c) THEN FALSE ELSE hist.doubt)
      BY <1>6, <3>1 DEF Done
    <3>3. rows' = rows
      BY <1>6 DEF Done, Changed
    <3>4. QED
      BY <1>6, <3>2, <3>3 DEF Done
  <2>2. \A d \in Calls \ {c}: call[d] = Idle
    <3>1. CASE Alone(c)
      BY <3>1 DEF Alone
    <3>2. CASE ~Alone(c)
      BY <1>1, <1>5, <2>1, <3>2 DEF Sole
    <3>3. QED
      BY <3>1, <3>2
  <2>3. PanelHeld(ui.sel, rows', w)
    BY <1>6, <2>1 DEF PanelHeld, Answers, Live
  <2>4. QED
    BY <2>2, <2>3
<1>7. CASE ~(Done(c, k, w) /\ Awaits(k) = "fetch")
  <2>1. /\ ~hist.doubt
        /\ DoneOthers(k, w) /\ Awaits(k) = "saveAll" => ~Untold(k.all)
        /\ Done(c, k, w) /\ Awaits(k) = "enable" => ~Untold({k.id})
    BY <1>5, <1>7 DEF Serves, Created, CreatedMany, Done, DoneOthers, Loaded, Refused, Failed
  <2>2. \A d \in Calls \ {c}: call[d] = Idle
    BY <1>1, <2>1 DEF Sole
  <2>3. PanelHeld(ui.sel, rows, k)
    BY <1>1, <1>5, <2>1 DEF PanelInv
  <2>4. Awaits(k) \in {"add", "addHere", "addMany", "post", "saveAll", "swap"} \cup (RowCalls \ {"fetch"}) => Follows(ui.sel, rows) /\ k.sel = ui.sel
    BY <1>1, <2>3 DEF PanelHeld, RowCalls
  <2>5. CASE Created(k, w)
    <3>1. Awaits(k) \in {"add", "addHere", "put"} /\ w.ans = "ok" /\ Awaits(w) = Awaits(k)
      BY <2>5 DEF Created, Answers
    <3>2. WillFollow(ui.sel, rows', w)
      BY <1>2, <1>5, <2>4, <2>5, <3>1, CreatedPanel DEF RowCalls
    <3>3. QED
      BY <2>2, <3>1, <3>2 DEF PanelHeld
  <2>m. CASE CreatedMany(k, w)
    <3>1. Awaits(k) = "addMany" /\ w.ans = "ok" /\ Awaits(w) = Awaits(k)
      BY <2>m DEF CreatedMany, Answers
    <3>2. WillFollow(ui.sel, rows', w)
      BY <1>2, <1>5, <2>4, <2>m, <3>1, CreatedManyPanel
    <3>3. QED
      BY <2>2, <3>1, <3>2 DEF PanelHeld
  <2>6. CASE Done(c, k, w)
    <3>1. Awaits(k) \in RowCalls \ {"fetch"} /\ w.ans = "ok" /\ Awaits(w) = Awaits(k)
      BY <1>7, <2>6 DEF Done, Answers
    <3>2. Awaits(k) = "save" /\ Has(k.run, "flipIf") /\ Same(k) => rows[k.id] = k.from
      BY <1>1, <1>5, <2>1 DEF Decided, Deciding, OfPanel, WithPanel
    <3>3. Awaits(k) \in Writes
      BY <3>1 DEF RowCalls, Writes
    <3>4. WillFollow(ui.sel, rows', w)
      BY <1>2, <1>5, <2>1, <2>4, <2>6, <3>1, <3>2, <3>3, DonePanel
    <3>5. QED
      BY <2>2, <3>1, <3>4 DEF PanelHeld
  <2>7. CASE DoneOthers(k, w)
    <3>1. Awaits(k) \in {"post", "saveAll", "swap"} /\ w.ans = "ok" /\ Awaits(w) = Awaits(k)
      BY <2>7 DEF DoneOthers, Answers
    <3>2. WillFollow(ui.sel, rows', w)
      BY <1>2, <1>5, <2>1, <2>4, <2>7, <3>1, OthersPanel
    <3>3. QED
      BY <2>2, <3>1, <3>2 DEF PanelHeld
  <2>8. CASE Loaded(c, k, w)
    <3>1. Awaits(k) = "reload" /\ rows' = rows /\ Answers(w, k, k.id, "ok", Shown(k.filter))
      BY <2>8 DEF Loaded
    <3>2. WillFollow(ui.sel, rows, k)
      BY <2>3, <3>1 DEF PanelHeld
    <3>3. WillFollow(ui.sel, rows, w)
      <4>1. \A j \in DOMAIN k.run: j > k.at => k.run[j] # "putIf"
        BY <1>2, <1>5, <3>1, NoPutIf
      <4>2. QED
        BY <3>1, <3>2, <4>1, FollowSame DEF Answers
    <3>4. QED
      BY <2>2, <3>1, <3>3 DEF PanelHeld, Answers
  <2>9. CASE Refused(k, w)
    <3>1. /\ Awaits(k) \in RowCalls \cup {"add", "addHere", "addMany"} /\ (Awaits(k) = "fetch" => ~Live(k.id)) /\ rows' = rows
          /\ w.ans = "error" /\ Awaits(w) = Awaits(k) /\ w.sel = k.sel
      BY <2>9 DEF Refused, Answers
    <3>2. Awaits(k) # "fetch"
      BY <2>3, <3>1 DEF PanelHeld, Live
    <3>3. Awaits(k) \notin {"fetch", "reload", "debounce"} /\ Follows(ui.sel, rows) /\ k.sel = ui.sel
      BY <2>4, <3>1, <3>2 DEF RowCalls
    <3>4. QED
      BY <2>2, <3>1, <3>3 DEF PanelHeld
  <2>10. QED
    BY <1>5, <2>5, <2>m, <2>6, <2>7, <2>8, <2>9 DEF Serves, Failed
<1>8. QED
  BY <1>6, <1>7

\* Who goes on with his script keeps the promise he made for the panel.
LEMMA GoesFollows ==
  ASSUME Known, page \in WithPanel, NEW c \in Calls, call[c] # Idle, NEW u, NEW run, NEW i,
         Goes(c, u, run, i), Lands(call[c], u, run, i),
         run = call[c].run, i = call[c].at + 1, u.sel = ui.sel, WillFollow(ui.sel, rows, call[c]),
         NEW w, w = Waiting(call[c], run, i)
  PROVE  IF w = Idle THEN Follows(ui'.sel, rows) ELSE PanelHeld(ui'.sel, rows, w)
<1> DEFINE k == call[c]
           stop == NextAwait(run, i)
<1>1. /\ Script(run) /\ i \in Nat \ {0} /\ stop \in i .. (Len(run) + 1) /\ Gone(u, k, run, i)
      /\ Waits(w, k, run, stop) /\ ui' = After(u, k, run, i)
      /\ \A j \in i .. (stop - 1): run[j] \notin Async
  BY DEF Goes, Gone
<1>2. page \in DOMAIN Pages /\ CallKnown(page, k) /\ RunFacts(page, k)
  BY RunOrdered DEF Known
<1>3. k.at \in Nat /\ \A j \in DOMAIN run: j > k.at => j >= i
  BY <1>1, <1>2 DEF RunFacts, Script
<1>4. w # Idle => /\ stop \in DOMAIN run /\ w.run = run /\ w.at = stop /\ w.ans = "none" /\ SameOf(w, k)
                  /\ Awaits(w) = run[stop]
  BY <1>1 DEF Waits
<1>5. w # Idle => Awaits(w) \in {"reload", "fetch"} /\ CallKnown(page, w)
  BY LandCall
<1>6. CASE Later(k.run, k.at, {"fetch"})
  <2>1. rows[k.id] \notin {None, Deleted}
    BY <1>6 DEF WillFollow
  <2>2. PICK j \in DOMAIN run: j > k.at /\ run[j] = "fetch"
    BY <1>6 DEF Later
  <2>3. j >= stop
    <3>1. run[j] \in Async
      BY <2>2 DEF Async
    <3>2. QED
      BY <1>1, <1>3, <2>2, <3>1 DEF Script
  <2>4. stop \in DOMAIN run
    BY <1>1, <2>2, <2>3 DEF Script
  <2>5. w # Idle
    BY <1>1, <2>4 DEF Waits
  <2>6. CASE Awaits(w) = "fetch"
    BY <1>4, <2>1, <2>5, <2>6 DEF PanelHeld, SameOf
  <2>7. CASE Awaits(w) = "reload"
    <3>1. j # stop
      BY <1>4, <2>2, <2>5, <2>7
    <3>2. j > stop
      BY <1>1, <2>2, <2>3, <3>1 DEF Script
    <3>3. Later(w.run, w.at, {"fetch"})
      BY <1>4, <2>2, <2>5, <3>2 DEF Later
    <3>4. WillFollow(ui'.sel, rows, w)
      BY <1>4, <2>1, <2>5, <3>3 DEF WillFollow, SameOf
    <3>5. QED
      BY <2>5, <2>7, <3>4 DEF PanelHeld
  <2>8. QED
    BY <1>5, <2>5, <2>6, <2>7
<1>7. CASE ~Later(k.run, k.at, {"fetch"})
  <2>1. /\ \A j \in DOMAIN run: j > k.at /\ run[j] \in SelSteps => Follows(SelAfter(run[j], ui.sel, k), rows)
        /\ ~Later(k.run, k.at, SelSteps) => Follows(ui.sel, rows)
    BY <1>7 DEF WillFollow
  <2>2. \A j \in i .. (stop - 1): j \in DOMAIN run /\ j > k.at
    BY <1>1, <1>2, <1>3 DEF Script
  <2>3. w # Idle => Awaits(w) = "reload" /\ stop > k.at
    <3>1. SUFFICES ASSUME w # Idle PROVE Awaits(w) = "reload" /\ stop > k.at
      OBVIOUS
    <3>2. stop > k.at
      BY <1>1, <1>3
    <3>3. Awaits(w) # "fetch"
      BY <1>4, <1>7, <3>1, <3>2 DEF Later
    <3>4. QED
      BY <1>5, <3>1, <3>2, <3>3
  <2>4. w # Idle => ~Later(w.run, w.at, {"fetch"})
    <3>1. SUFFICES ASSUME w # Idle, NEW j \in DOMAIN run, j > stop, run[j] = "fetch" PROVE FALSE
      BY <1>4 DEF Later
    <3>2. j > k.at
      BY <1>1, <1>3, <2>3, <3>1 DEF Script
    <3>3. QED
      BY <1>7, <3>1, <3>2 DEF Later
  <2>5. CASE \E j \in i .. (stop - 1): run[j] \in SelSteps
    <3>1. PICK j \in i .. (stop - 1): run[j] \in SelSteps
      BY <2>5
    <3>2. j \in DOMAIN run /\ j > k.at /\ j \in Nat /\ i <= j /\ j < stop
      BY <1>1, <2>2, <3>1
    <3>3. Only(run, j, SelSteps)
      BY <1>2, <3>1, <3>2 DEF RunFacts
    <3>4. Once(run, i, stop - 1, SelSteps, j)
      BY <2>2, <3>3 DEF Only, Once
    <3>5. ui'.sel = SelAfter(run[j], ui.sel, k)
      BY <1>1, <3>2, <3>4 DEF Gone
    <3>6. Follows(ui'.sel, rows)
      BY <2>1, <3>1, <3>2, <3>5
    <3>7. w # Idle => \A h \in DOMAIN w.run: h > w.at => w.run[h] \notin SelSteps
      <4>1. SUFFICES ASSUME w # Idle, NEW h \in DOMAIN run, h > stop, run[h] \in SelSteps PROVE FALSE
        BY <1>4
      <4>2. h = j
        BY <3>3, <4>1 DEF Only
      <4>3. QED
        BY <1>1, <3>2, <4>1, <4>2 DEF Script
    <3>8. w # Idle => WillFollow(ui'.sel, rows, w)
      BY <2>4, <3>6, <3>7 DEF WillFollow
    <3>9. QED
      BY <2>3, <3>6, <3>8 DEF PanelHeld
  <2>6. CASE \A j \in i .. (stop - 1): run[j] \notin SelSteps
    <3>1. ui'.sel = ui.sel
      BY <1>1, <2>6, GoneSel
    <3>2. CASE w = Idle
      <4>1. stop = Len(run) + 1
        BY <1>1, <3>2 DEF Waits
      <4>2. ~Later(k.run, k.at, SelSteps)
        <5>1. SUFFICES ASSUME NEW j \in DOMAIN run, j > k.at PROVE run[j] \notin SelSteps
          BY DEF Later
        <5>2. j \in i .. (stop - 1)
          BY <1>1, <1>3, <4>1, <5>1 DEF Script
        <5>3. QED
          BY <2>6, <5>2
      <4>3. QED
        BY <2>1, <3>1, <3>2, <4>2
    <3>3. CASE w # Idle
      <4>1. Awaits(w) = "reload" /\ stop > k.at /\ ~Later(w.run, w.at, {"fetch"}) /\ SameOf(w, k) /\ w.run = run /\ w.at = stop
        BY <1>4, <2>3, <2>4, <3>3
      <4>2. \A s: s # "putIf" => SelAfter(s, ui.sel, w) = SelAfter(s, ui.sel, k)
        BY <4>1 DEF SelAfter, Unmounts, Same, SameOf
      <4>3. ASSUME NEW j \in DOMAIN run, j > stop, run[j] \in SelSteps
            PROVE  Follows(SelAfter(run[j], ui.sel, w), rows)
        <5>1. run[j] # "putIf"
          BY <1>2, <1>5, <3>3, <4>1, <4>3, NoPutIf
        <5>2. j > k.at
          BY <1>1, <1>3, <4>1, <4>3 DEF Script
        <5>3. QED
          BY <2>1, <4>2, <4>3, <5>1, <5>2
      <4>4. ASSUME ~Later(w.run, w.at, SelSteps) PROVE Follows(ui.sel, rows)
        <5>1. ~Later(k.run, k.at, SelSteps)
          <6>1. SUFFICES ASSUME NEW j \in DOMAIN run, j > k.at, run[j] \in SelSteps PROVE FALSE
            BY DEF Later
          <6>2. ~(j > stop)
            BY <4>1, <4>4, <6>1 DEF Later
          <6>3. j # stop
            BY <1>4, <3>3, <4>1, <6>1 DEF SelSteps
          <6>4. j \in i .. (stop - 1)
            BY <1>1, <1>3, <6>1, <6>2, <6>3 DEF Script
          <6>5. QED
            BY <2>6, <6>1, <6>4
        <5>2. QED
          BY <2>1, <5>1
      <4>5. WillFollow(ui'.sel, rows, w)
        BY <3>1, <4>1, <4>3, <4>4 DEF WillFollow
      <4>6. QED
        BY <3>3, <4>1, <4>5 DEF PanelHeld
    <3>4. QED
      BY <3>2, <3>3
  <2>7. QED
    BY <2>5, <2>6
<1>8. QED
  BY <1>6, <1>7

\* A row fetched is shown as it was fetched, and a failure leaves the panel.
LEMMA OtherwiseFollows ==
  ASSUME Known, page \in WithPanel, NEW c \in Calls, call[c] # Idle, NEW u, NEW run, NEW i,
         Goes(c, u, run, i), Lands(call[c], u, run, i), Follows(u.sel, rows),
         (run = call[c].run /\ i = call[c].at + 1 /\ Awaits(call[c]) = "fetch") \/ run = call[c].catch,
         NEW w, w = Waiting(call[c], run, i)
  PROVE  IF w = Idle THEN Follows(ui'.sel, rows) ELSE PanelHeld(ui'.sel, rows, w)
<1> DEFINE k == call[c]
           stop == NextAwait(run, i)
<1>1. /\ Script(run) /\ i \in Nat \ {0} /\ stop \in i .. (Len(run) + 1) /\ Gone(u, k, run, i)
      /\ Waits(w, k, run, stop) /\ ui' = After(u, k, run, i)
  BY DEF Goes, Gone
<1>2. page \in DOMAIN Pages /\ CallKnown(page, k) /\ RunFacts(page, k) /\ Recovers(k.catch)
  BY RunOrdered, CatchIs DEF Known
<1>3. \A h \in DOMAIN run: h >= i => run[h] \notin SelSteps \cup {"fetch"}
  <2>1. CASE run = k.catch
    BY <1>2, <2>1 DEF Recovers, SelSteps
  <2>2. CASE run = k.run /\ i = k.at + 1 /\ Awaits(k) = "fetch"
    <3>1. SUFFICES ASSUME NEW h \in DOMAIN run, h >= i PROVE run[h] \notin SelSteps \cup {"fetch"}
      OBVIOUS
    <3>2. h > k.at
      BY <1>1, <1>2, <2>2, <3>1 DEF RunFacts, Script
    <3>3. QED
      BY <1>2, <2>2, <3>1, <3>2 DEF RunFacts, Later, Async
  <2>3. QED
    BY <2>1, <2>2
<1>4. \A h \in i .. (stop - 1): run[h] \notin SelSteps
  BY <1>1, <1>3 DEF Script
<1>5. ui'.sel = u.sel
  BY <1>1, <1>4, GoneSel
<1>6. ASSUME w # Idle PROVE PanelHeld(ui'.sel, rows, w)
  <2>1. stop \in DOMAIN run /\ w.run = run /\ w.at = stop /\ Awaits(w) = run[stop] /\ stop >= i
    BY <1>1, <1>6 DEF Waits
  <2>2. Awaits(w) = "reload"
    BY <1>3, <1>6, <2>1, LandCall
  <2>3. \A h \in DOMAIN w.run: h > w.at => w.run[h] \notin SelSteps \cup {"fetch"}
    <3>1. SUFFICES ASSUME NEW h \in DOMAIN run, h > stop PROVE h >= i
      BY <1>3, <2>1
    <3>2. QED
      BY <1>1, <3>1 DEF Script
  <2>4. WillFollow(ui'.sel, rows, w)
    BY <1>5, <2>3 DEF WillFollow, Later
  <2>5. QED
    BY <2>2, <2>4 DEF PanelHeld
<1>7. QED
  BY <1>5, <1>6

\* An answer that comes keeps the panel, or the promise of it.
LEMMA LandPanel ==
  ASSUME Known, Sole, PanelInv, NEW c \in Calls, call[c] # Idle, NEW u, NEW run, NEW i,
         Goes(c, u, run, i), Lands(call[c], u, run, i)
  PROVE  PanelInv'
<1> DEFINE k == call[c]
           w == Waiting(k, run, i)
<1>1. /\ call' = [d \in Calls |-> IF d = c THEN w ELSE call[d]] /\ Gone(u, k, run, i)
      /\ Script(run) /\ i \in Nat \ {0} /\ NextAwait(run, i) \in i .. (Len(run) + 1)
      /\ page' = page /\ rows' = rows /\ hist' = hist /\ ui' = After(u, k, run, i)
  BY DEF Goes, Swaps, Gone
<1>2. page \in DOMAIN Pages /\ CallKnown(page, k) /\ RunFacts(page, k) /\ Recovers(k.catch)
  BY RunOrdered, CatchIs DEF Known
<1>3. Paneless'
  <2>1. SUFFICES ASSUME page \notin WithPanel \cup {"docs"} PROVE ui'.sel = None
    BY <1>1 DEF Paneless
  <2>2. Awaits(k) # "fetch"
    BY <1>2, <2>1 DEF RunFacts, Lacks, Awaits, WithPanel
  <2>3. u.sel = None
    BY <2>1, <2>2 DEF PanelInv, Lands
  <2>4. Lacks(run, SelSteps)
    BY <1>2, <2>1 DEF Lands, RunFacts, Recovers, Lacks, SelSteps
  <2>5. \A h \in i .. (NextAwait(run, i) - 1): run[h] \notin SelSteps
    BY <1>1, <2>4 DEF Lacks, Script
  <2>6. QED
    BY <1>1, <2>3, <2>5, GoneSel
<1>4. Behind'
  BY <1>1 DEF PanelInv, Behind
<1>5. SUFFICES ASSUME page \in WithPanel, ~hist.doubt
               PROVE  /\ \A d \in Calls \ {c}: call[d] = Idle
                      /\ IF w = Idle THEN Follows(ui'.sel, rows) ELSE PanelHeld(ui'.sel, rows, w)
  <2>1. call'[c] = w /\ \A d \in Calls \ {c}: call'[d] = call[d]
    BY <1>1
  <2>2. QED
    BY <1>1, <1>3, <1>4, <1>5, <2>1, PanelNext
<1>6. \A d \in Calls \ {c}: call[d] = Idle
  BY <1>5 DEF Sole
<1>7. PanelHeld(ui.sel, rows, k)
  BY <1>5 DEF PanelInv
<1>8. CASE Awaits(k) = "fetch"
  <2>1. k.ans = "ok" /\ rows[k.id] \notin {None, Deleted} /\ k.got = rows[k.id]
    BY <1>2, <1>7, <1>8 DEF PanelHeld, Lands, Writes
  <2>2. run = k.run /\ i = k.at + 1 /\ u.sel = Open(k.id, k.got)
    BY <1>8, <2>1 DEF Lands, Writes
  <2>3. Follows(u.sel, rows)
    BY <2>1, <2>2 DEF Follows, Open
  <2>4. QED
    BY <1>5, <1>6, <1>8, <2>2, <2>3, OtherwiseFollows
<1>9. CASE Awaits(k) # "fetch" /\ run = k.run /\ i = k.at + 1
  <2>1. u.sel = ui.sel
    BY <1>9 DEF Lands
  <2>2. WillFollow(ui.sel, rows, k)
    <3>1. i # 1
      BY <1>2, <1>9 DEF RunFacts, Script
    <3>2. Awaits(k) \in {"reload", "debounce"} \/ k.ans = "ok"
      BY <1>9, <3>1 DEF Lands
    <3>3. QED
      BY <1>7, <1>9, <3>2 DEF PanelHeld
  <2>3. QED
    BY <1>5, <1>6, <1>9, <2>1, <2>2, GoesFollows
<1>10. CASE Awaits(k) # "fetch" /\ run = k.catch /\ Awaits(k) \notin {"reload", "debounce"} /\ k.ans = "error" /\ u.sel = ui.sel
  <2>1. Follows(u.sel, rows)
    BY <1>7, <1>10 DEF PanelHeld
  <2>2. QED
    BY <1>5, <1>6, <1>10, <2>1, OtherwiseFollows
<1>11. QED
  BY <1>8, <1>9, <1>10 DEF Lands

\* A button pressed in the list is pressed on a row the server has, if the list is not stale.
LEMMA ListTruth ==
  ASSUME Known, ListInv, Quiet, ~hist.stale, NEW b \in This.list, NEW m \in b.moves, NEW id \in Ids, id \notin hist.lag,
         ui.here, ui.list[id] = m[1]
  PROVE  rows[id] = m[1] /\ m[1] \notin {None, Deleted}
<1>1. m[1] \in This.states /\ page \in DOMAIN Pages
  BY PagesDisciplined DEF Known, Disciplines, This
<1>2. m[1] \notin {None, Deleted}
  BY <1>1, FilterIs DEF This
<1>3. Shows(page, ui.list, rows, ui.filter, Told) /\ id \in Told
  BY DEF ListInv, Told
<1>4. QED
  BY <1>2, <1>3 DEF Shows

\* The steps of a press that are done at once.
LEMMA PressSel ==
  ASSUME Known, NEW c \in Calls, NEW b \in Buttons, NEW id, NEW m, NEW panel \in BOOLEAN, NEW k, NEW u, Presses(c, b, id, m, panel, k, u)
  PROVE  \/ /\ 1 \in DOMAIN b.run /\ b.run[1] \in Async \cup {"fetchIf"} /\ ui'.sel = ui.sel
            /\ NextAwait(Begun(b.run, k), 1) = 1
         \/ /\ Lacks(b.run, Async) /\ NextAwait(Begun(b.run, k), 1) = Len(b.run) + 1
            /\ \A j \in DOMAIN b.run: b.run[j] \in SelSteps => ui'.sel = SelAfter(b.run[j], ui.sel, k)
            /\ Lacks(b.run, SelSteps) => ui'.sel = ui.sel
         \/ /\ b.run = <<"select", "fetch">> /\ Begun(b.run, k)[2] = "fetch" /\ NextAwait(Begun(b.run, k), 1) = 2
            /\ ui'.sel = Open(k.id, k.from)
<1> DEFINE run == Begun(b.run, k)
           stop == NextAwait(run, 1)
<1>1. /\ ui' = After(u, k, run, 1) /\ Gone(u, k, run, 1) /\ u.sel = ui.sel
      /\ stop \in 1 .. (Len(run) + 1)
  BY DEF Presses, Starts, Gone
<1>2. PressRun(b, k, run) /\ Script(run) /\ Script(b.run)
  BY PressRunIs DEF PressRun
<1>3. /\ DOMAIN run = DOMAIN b.run /\ First(run)
      /\ \A j \in DOMAIN run: run[j] = b.run[j] \/ (b.run[j] = "fetchIf" /\ run[j] = "fetch")
  BY <1>2 DEF PressRun
<1>4. CASE 1 \in DOMAIN run /\ run[1] \in Async /\ stop = 1
  <2>1. \A h \in 1 .. (stop - 1): run[h] \notin SelSteps
    BY <1>4
  <2>2. ui'.sel = ui.sel
    BY <1>1, <2>1, GoneSel
  <2>3. b.run[1] \in Async \cup {"fetchIf"}
    BY <1>3, <1>4
  <2>4. QED
    BY <1>3, <1>4, <2>2, <2>3
<1>5. CASE Lacks(run, Async) /\ stop = Len(run) + 1 /\ stop \notin DOMAIN run
  <2>1. Lacks(b.run, Async)
    BY <1>3, <1>5 DEF Lacks, Async
  <2>2. Len(b.run) = Len(run)
    BY <1>2, <1>3 DEF Script
  <2>3. \A h \in 1 .. (stop - 1): h \in DOMAIN run
    BY <1>2, <1>5 DEF Script
  <2>4. Lacks(b.run, SelSteps) => ui'.sel = ui.sel
    <3>1. ASSUME Lacks(b.run, SelSteps) PROVE \A h \in 1 .. (stop - 1): run[h] \notin SelSteps
      BY <1>3, <2>3, <3>1 DEF Lacks, SelSteps
    <3>2. QED
      BY <1>1, <3>1, GoneSel
  <2>5. ASSUME NEW j \in DOMAIN b.run, b.run[j] \in SelSteps PROVE ui'.sel = SelAfter(b.run[j], ui.sel, k)
    <3>1. run[j] = b.run[j]
      BY <1>3, <2>5 DEF SelSteps
    <3>2. Only(b.run, j, SelSteps)
      BY <1>2, <2>5 DEF PressRun, Disciplined, KeepsPanel
    <3>3. Once(run, 1, stop - 1, SelSteps, j)
      <4>1. SUFFICES ASSUME NEW h \in 1 .. (stop - 1), run[h] \in SelSteps PROVE h = j
        BY DEF Once
      <4>2. h \in DOMAIN b.run /\ b.run[h] \in SelSteps
        BY <1>3, <2>3, <4>1 DEF SelSteps
      <4>3. QED
        BY <3>2, <4>2 DEF Only
    <3>4. j \in Nat /\ 1 <= j /\ j < stop
      BY <1>2, <1>3, <1>5 DEF Script
    <3>5. QED
      BY <1>1, <3>1, <3>3, <3>4 DEF Gone
  <2>6. QED
    BY <1>5, <2>1, <2>2, <2>4, <2>5
<1>6. CASE run = <<"select", "fetch">> /\ stop = 2 /\ 2 \in DOMAIN run /\ run[1] = "select" /\ run[2] = "fetch"
  <2>1. Len(run) = 2 /\ DOMAIN run = 1 .. 2
    BY <1>6
  <2>2. b.run[1] = "select"
    BY <1>3, <1>6, <2>1
  <2>3. b.run = <<"select", "fetch">>
    <3>1. (1 \in DOMAIN b.run /\ b.run[1] \in Async) \/ Lacks(b.run, Awaited) \/ b.run = <<"select", "fetch">>
      BY <1>2 DEF PressRun, Disciplined, Ordered
    <3>2. ~Lacks(b.run, Awaited)
      BY <1>3, <1>6 DEF Lacks, Awaited, Async, Fetches
    <3>3. QED
      BY <2>2, <3>1, <3>2 DEF Async
  <2>4. Once(run, 1, stop - 1, SelSteps, 1)
    BY <1>6 DEF Once
  <2>5. ui'.sel = SelAfter("select", ui.sel, k)
    BY <1>1, <1>6, <2>4 DEF Gone
  <2>6. QED
    BY <1>6, <2>3, <2>5 DEF SelAfter, Unmounts
<1>7. QED
  BY <1>3, <1>4, <1>5, <1>6 DEF First

\* What a press does to the panel of a page on which no other call is in flight.
LEMMA PressFollows ==
  ASSUME Known, ListInv, PanelInv, page \in WithPanel, Quiet, NEW c \in Calls, NEW b \in Buttons, NEW id, NEW m \in b.moves, NEW panel \in BOOLEAN,
         NEW k, NEW u, Presses(c, b, id, m, panel, k, u), 
         IF Has(b.run, "select") THEN ~hist.stale /\ id \notin hist.lag ELSE ~hist.doubt,
         NEW w, w = Waiting(k, Begun(b.run, k), 1)
  PROVE  IF w = Idle THEN Follows(ui'.sel, rows) ELSE PanelHeld(ui'.sel, rows, w)
<1> DEFINE run == Begun(b.run, k)
           stop == NextAwait(run, 1)
<1>1. /\ page \in DOMAIN Pages /\ Disciplined(page, This, b) /\ Disciplines(page, This)
  BY PagesDisciplined DEF Known, Disciplines, Buttons, This
<1>2. KeepsPanel(page, This, b) /\ Ordered(b.run) /\ Script(b.run)
  BY <1>1 DEF Disciplined, Ordered
<1>3. /\ Waits(w, k, run, stop) /\ k.id = id /\ k.from = m[1] /\ k.sel = ui.sel
      /\ IF panel THEN OffersOnPanel(b, id, m[1]) ELSE OffersElsewhere(b, id, m[1])
  BY DEF Presses, Starts
<1>4. PressRun(b, k, run)
  BY PressRunIs
<1>5. /\ DOMAIN run = DOMAIN b.run /\ First(run)
      /\ \A j \in DOMAIN run: run[j] = b.run[j] \/ (b.run[j] = "fetchIf" /\ run[j] = "fetch")
  BY <1>4 DEF PressRun
<1>6. w # Idle => /\ stop \in DOMAIN run /\ w.run = run /\ w.at = stop /\ w.ans = "none" /\ SameOf(w, k)
                  /\ Awaits(w) = run[stop] /\ Awaits(w) \in Async
  BY <1>3 DEF Waits
<1>7. CASE Has(b.run, "select")
  <2>1. b \in This.list /\ b \notin This.bar \cup This.props \cup This.panel \cup This.form \cup This.edit
    <3>1. ~Lacks(b.run, {"select"}) /\ ~Lacks(b.run, {"select", "edit", "save", "settle"})
      BY <1>7 DEF Has, Lacks
    <3>2. b \notin This.bar \cup This.props \cup This.panel \cup This.form \cup This.edit
      BY <1>1, <3>1 DEF Disciplines
    <3>3. QED
      BY <3>2 DEF Buttons, ButtonsOf
  <2>2. ui.here /\ id \in Ids /\ ui.list[id] = m[1]
    <3>1. ~panel
      BY <1>3, <2>1 DEF OffersOnPanel
    <3>2. OffersElsewhere(b, id, m[1])
      BY <1>3, <3>1
    <3>3. QED
      BY <2>1, <3>2 DEF OffersElsewhere, Library, Clear
  <2>3. rows[id] = m[1] /\ m[1] \notin {None, Deleted}
    BY <1>7, <2>1, <2>2, ListTruth
  <2>4. PICK j \in DOMAIN b.run: b.run[j] = "select"
    BY <1>7 DEF Has
  <2>5. j = 1 /\ Only(b.run, j, SelSteps)
    BY <1>2, <2>4 DEF KeepsPanel, SelSteps
  <2>6. Follows(Open(id, m[1]), rows)
    BY <2>3 DEF Follows, Open
  <2>7. CASE b.run = <<"select", "fetch">> /\ run[2] = "fetch" /\ stop = 2 /\ ui'.sel = Open(k.id, k.from)
    <3>1. w # Idle /\ Awaits(w) = "fetch" /\ w.ans = "none" /\ w.id = id
      <4>1. 2 \in DOMAIN run
        BY <1>5, <2>7
      <4>2. QED
        BY <1>3, <1>6, <2>7, <4>1 DEF Waits, SameOf
    <3>2. QED
      BY <2>3, <3>1 DEF PanelHeld
  <2>8. CASE Lacks(b.run, Async) /\ stop = Len(b.run) + 1 /\ ui'.sel = SelAfter("select", ui.sel, k)
    <3>1. w = Idle
      BY <1>2, <1>5, <1>6, <2>8 DEF Script
    <3>2. ui'.sel = Open(id, m[1])
      BY <1>3, <2>8 DEF SelAfter, Unmounts
    <3>3. QED
      BY <2>6, <3>1, <3>2
  <2>9. b.run[1] \notin Async \cup {"fetchIf"}
    BY <2>4, <2>5 DEF Async
  <2>10. \/ 1 \in DOMAIN b.run /\ b.run[1] \in Async \cup {"fetchIf"}
         \/ /\ Lacks(b.run, Async) /\ stop = Len(b.run) + 1
            /\ \A i \in DOMAIN b.run: b.run[i] \in SelSteps => ui'.sel = SelAfter(b.run[i], ui.sel, k)
         \/ b.run = <<"select", "fetch">> /\ run[2] = "fetch" /\ stop = 2 /\ ui'.sel = Open(k.id, k.from)
    BY PressSel
  <2>11. "select" \in SelSteps
    BY DEF SelSteps
  <2>12. CASE Lacks(b.run, Async) /\ stop = Len(b.run) + 1
              /\ \A i \in DOMAIN b.run: b.run[i] \in SelSteps => ui'.sel = SelAfter(b.run[i], ui.sel, k)
    <3>1. ui'.sel = SelAfter("select", ui.sel, k)
      BY <2>4, <2>11, <2>12
    <3>2. QED
      BY <2>8, <2>12, <3>1
  <2>13. QED
    BY <2>7, <2>9, <2>10, <2>12
<1>8. CASE ~Has(b.run, "select")
  <2>1. Follows(ui.sel, rows)
    BY <1>8 DEF PanelInv
  <2>2. b.run # <<"select", "fetch">>
    <3>1. SUFFICES ASSUME b.run = <<"select", "fetch">> PROVE FALSE
      OBVIOUS
    <3>2. 1 \in DOMAIN b.run /\ b.run[1] = "select"
      BY <3>1
    <3>3. QED
      BY <1>8, <3>2 DEF Has
  <2>3. Lacks(b.run, Writes) => Lacks(b.run, Fetches \cup (SelSteps \ {"close"}))
    BY <1>2, <1>8, <2>2 DEF KeepsPanel, Lacks, Has
  <2>4. CASE 1 \in DOMAIN b.run /\ b.run[1] \in Async \cup {"fetchIf"} /\ ui'.sel = ui.sel /\ stop = 1
    <3>1. w # Idle /\ w.run = run /\ w.at = 1 /\ w.ans = "none" /\ SameOf(w, k) /\ Awaits(w) = run[1] /\ Awaits(w) \in Async
      BY <1>3, <1>5, <2>4 DEF Waits
    <3>2. CASE b.run[1] \in Writes
      <4>1. run[1] \in Writes
        BY <1>5, <2>4, <3>2 DEF Writes
      <4>2. QED
        BY <1>3, <2>1, <2>4, <3>1, <4>1 DEF PanelHeld, SameOf, Writes
    <3>3. CASE b.run[1] \notin Writes
      <4>1. Lacks(b.run, Writes)
        BY <1>2, <3>3 DEF Ordered, Lacks
      <4>2. b.run[1] \notin Fetches
        BY <2>3, <2>4, <4>1 DEF Lacks
      <4>3. b.run[1] = "reload"
        <5>1. b.run[1] # "debounce"
          BY <1>2, <2>4 DEF Ordered, Has
        <5>2. QED
          BY <2>4, <3>3, <4>2, <5>1 DEF Async, Writes, Fetches
      <4>4. Lacks(b.run, SelSteps) /\ Lacks(b.run, Fetches)
        BY <1>2, <2>3, <2>4, <4>1, <4>3 DEF KeepsPanel, Has, Lacks
      <4>5. \A j \in DOMAIN w.run: w.run[j] \notin SelSteps \cup {"fetch"}
        BY <1>5, <3>1, <4>4 DEF Lacks, Fetches, SelSteps
      <4>6. WillFollow(ui'.sel, rows, w)
        BY <2>1, <2>4, <4>5 DEF WillFollow, Later
      <4>7. Awaits(w) = "reload"
        BY <1>5, <2>4, <3>1, <4>3
      <4>8. QED
        BY <3>1, <4>6, <4>7 DEF PanelHeld
    <3>4. QED
      BY <3>2, <3>3
  <2>5. CASE /\ Lacks(b.run, Async) /\ stop = Len(b.run) + 1
             /\ \A j \in DOMAIN b.run: b.run[j] \in SelSteps => ui'.sel = SelAfter(b.run[j], ui.sel, k)
             /\ Lacks(b.run, SelSteps) => ui'.sel = ui.sel
    <3>1. w = Idle
      BY <1>2, <1>5, <1>6, <2>5 DEF Script
    <3>2. Lacks(b.run, Writes)
      BY <2>5 DEF Lacks, Writes, Async
    <3>3. CASE Lacks(b.run, SelSteps)
      BY <2>1, <2>5, <3>1, <3>3
    <3>4. CASE ~Lacks(b.run, SelSteps)
      <4>1. PICK j \in DOMAIN b.run: b.run[j] \in SelSteps
        BY <3>4 DEF Lacks
      <4>2. b.run[j] = "close"
        BY <2>3, <3>2, <4>1 DEF Lacks
      <4>3. ui'.sel = None
        BY <2>5, <4>1, <4>2 DEF SelAfter, Unmounts
      <4>4. QED
        BY <3>1, <4>3 DEF Follows
    <3>5. QED
      BY <3>3, <3>4
  <2>6. QED
    BY <2>2, <2>4, <2>5, PressSel
<1>9. QED
  BY <1>7, <1>8

\* A press keeps the panel, or the promise of it.
LEMMA PressPanel ==
  ASSUME Known, Sole, ListInv, PanelInv, NEW c \in Calls, NEW b \in Buttons, NEW id, NEW m \in b.moves, NEW panel \in BOOLEAN, NEW k, NEW u,
         Presses(c, b, id, m, panel, k, u)
  PROVE  PanelInv'
<1> DEFINE w == Waiting(k, Begun(b.run, k), 1)
<1>1. /\ call' = [d \in Calls |-> IF d = c THEN w ELSE call[d]] /\ page' = page /\ rows' = rows
      /\ Doubts(hist', b.run, id, panel)
  BY DEF Presses, Starts, Swaps
<1>2. Disciplines(page, This) /\ page \in DOMAIN Pages
  BY PagesDisciplined DEF Known, This
<1>3. Paneless'
  <2>1. SUFFICES ASSUME page \notin WithPanel \cup {"docs"} PROVE ui'.sel = None
    BY <1>1 DEF Paneless
  <2>2. Lacks(b.run, SelSteps)
    BY <1>2, <2>1 DEF Disciplines, Disciplined, KeepsPanel, Buttons
  <2>3. b.run # <<"select", "fetch">>
    <3>1. SUFFICES ASSUME b.run = <<"select", "fetch">> PROVE FALSE
      OBVIOUS
    <3>2. 1 \in DOMAIN b.run /\ b.run[1] = "select"
      BY <3>1
    <3>3. QED
      BY <2>2, <3>2 DEF Lacks, SelSteps
  <2>4. ui'.sel = ui.sel
    BY <2>2, <2>3, PressSel
  <2>5. QED
    BY <2>1, <2>4 DEF PanelInv
<1>4. Behind'
  <2>1. SUFFICES ASSUME page # "missions", hist'.stale PROVE hist'.doubt
    BY <1>1 DEF Behind
  <2>2. hist.stale => hist.doubt
    BY <2>1 DEF PanelInv
  <2>3. QED
    BY <1>1, <2>1, <2>2 DEF Doubts
<1>5. SUFFICES ASSUME page \in WithPanel, ~hist'.doubt
               PROVE  /\ \A d \in Calls \ {c}: call[d] = Idle
                      /\ IF w = Idle THEN Follows(ui'.sel, rows) ELSE PanelHeld(ui'.sel, rows, w)
  <2>1. call'[c] = w /\ \A d \in Calls \ {c}: call'[d] = call[d]
    BY <1>1
  <2>2. QED
    BY <1>1, <1>3, <1>4, <1>5, <2>1, PanelNext
<1>6. Quiet /\ (IF Has(b.run, "select") THEN ~hist.stale /\ id \notin hist.lag ELSE ~hist.doubt)
  BY <1>1, <1>5 DEF Doubts
<1>7. QED
  BY <1>5, <1>6, PressFollows DEF Quiet

\* A filter chosen leaves the panel.
LEMMA ChoosePanel ==
  ASSUME Known, PanelInv, NEW c \in Calls, NEW f, NEW k, NEW u, Chooses(c, f, k, u)
  PROVE  PanelInv'
<1> DEFINE run == This.refilter
           w == Waiting(k, run, 1)
<1>1. /\ ui' = After(u, k, run, 1) /\ Gone(u, k, run, 1) /\ u.sel = ui.sel /\ NextAwait(run, 1) = 1 /\ 1 \in DOMAIN run
      /\ Waits(w, k, run, 1) /\ page' = page /\ rows' = rows
      /\ \A j \in DOMAIN run: run[j] \in {"reload", "debounce"}
  BY DEF Chooses, Starts
<1>2. ui'.sel = ui.sel
  <2>1. \A h \in 1 .. (NextAwait(run, 1) - 1): run[h] \notin SelSteps
    BY <1>1
  <2>2. QED
    BY <1>1, <2>1, GoneSel
<1>3. /\ w # Idle /\ w.run = run /\ w.at = 1 /\ w.ans = "none" /\ Awaits(w) \in {"reload", "debounce"}
      /\ call'[c] = w /\ hist'.stale = (hist.stale \/ ~Quiet) /\ hist'.doubt = (hist.doubt \/ ~Quiet)
      /\ ~Quiet \/ \A d \in Calls \ {c}: call'[d] = Idle
  BY <1>1, ChooseDoubts DEF Waits
<1>4. Paneless'
  BY <1>1, <1>2 DEF PanelInv, Paneless
<1>5. Behind'
  BY <1>1, <1>3 DEF PanelInv, Behind
<1>6. ASSUME page \in WithPanel, ~hist'.doubt
      PROVE  (\A d \in Calls \ {c}: call'[d] = Idle) /\ PanelHeld(ui'.sel, rows', w)
  <2>1. Quiet /\ ~hist.doubt
    BY <1>3, <1>6
  <2>2. Follows(ui.sel, rows)
    BY <1>6, <2>1 DEF PanelInv
  <2>3. WillFollow(ui'.sel, rows', w)
    BY <1>1, <1>2, <1>3, <2>2 DEF WillFollow, Later, SelSteps
  <2>4. QED
    BY <1>3, <2>1, <2>3 DEF PanelHeld
<1>7. QED
  BY <1>1, <1>3, <1>4, <1>5, <1>6, PanelNext

------------------------------------------------------------------------------
(* What was decided stays decided.                                         *)

\* A call that was answered decides no more, and a decision beside it is doubtful.
LEMMA ServeDecided ==
  ASSUME Known, Sole, NEW c \in Calls, NEW w, Serves(c, w)
  PROVE  Decided'
<1>1. /\ call[c] # Idle /\ call' = [d \in Calls |-> IF d = c THEN w ELSE call[d]] /\ w # Idle /\ w.ans # "none"
  BY ServedCall, AnswersSome DEF Serves, Swaps, Answers
<1>2. SUFFICES ASSUME NEW d \in Calls, Deciding(call'[d]), ~hist'.stale \/ ~hist'.doubt PROVE FALSE
  BY DEF Decided, OfList, OfPanel
<1>3. d # c
  BY <1>1, <1>2 DEF Deciding
<1>4. call'[c] # Idle /\ call'[d] # Idle
  BY <1>1, <1>2 DEF Deciding
<1>5. Sole'
  BY ServeSole
<1>6. QED
  BY <1>2, <1>3, <1>4, <1>5 DEF Sole

\* What a handler does after its answer decides nothing.
LEMMA LandDecided ==
  ASSUME Known, Decided, NEW c \in Calls, call[c] # Idle, NEW u, NEW run, NEW i,
         Goes(c, u, run, i), Lands(call[c], u, run, i)
  PROVE  Decided'
<1> DEFINE w == Waiting(call[c], run, i)
<1>1. call' = [d \in Calls |-> IF d = c THEN w ELSE call[d]] /\ rows' = rows /\ hist' = hist /\ page' = page
  BY DEF Goes, Swaps
<1>2. ~Deciding(w)
  <2>1. w # Idle => Awaits(w) \in {"reload", "fetch"}
    BY LandCall
  <2>2. QED
    BY <2>1 DEF Deciding
<1>3. QED
  BY <1>1, <1>2 DEF Decided, OfList, OfPanel

\* What a press decides it decides on what the server has.
LEMMA PressDecided ==
  ASSUME Known, ListInv, PanelInv, Decided, NEW c \in Calls, NEW b \in Buttons, NEW id, NEW m \in b.moves, NEW panel \in BOOLEAN, NEW k, NEW u,
         Presses(c, b, id, m, panel, k, u)
  PROVE  Decided'
<1> DEFINE run == Begun(b.run, k)
           stop == NextAwait(run, 1)
           w == Waiting(k, run, 1)
<1>1. /\ call' = [d \in Calls |-> IF d = c THEN w ELSE call[d]] /\ rows' = rows /\ page' = page /\ call[c] = Idle
      /\ Doubts(hist', b.run, id, panel) /\ k.panel = panel /\ k.id = id /\ k.from = m[1] /\ k.sel = ui.sel
      /\ IF panel THEN OffersOnPanel(b, id, m[1]) ELSE OffersElsewhere(b, id, m[1])
      /\ Waits(w, k, run, stop)
  BY DEF Presses, Starts, Swaps
<1>2. Disciplines(page, This) /\ page \in DOMAIN Pages
  BY PagesDisciplined DEF Known, This
<1>3. PressRun(b, k, run)
  BY PressRunIs
<1>4. SUFFICES ASSUME NEW d \in Calls, Deciding(call'[d]), ~(page = "docs" /\ call'[d].panel),
                      \/ ~hist'.stale /\ call'[d].id \notin hist'.lag /\ (call'[d].panel => Has(call'[d].run, "flipRow"))
                      \/ ~hist'.doubt /\ (call'[d].panel \/ (page \in WithPanel /\ Has(call'[d].run, "flipIf") /\ Same(call'[d])))
               PROVE  rows[call'[d].id] = call'[d].from
  BY <1>1 DEF Decided, OfList, OfPanel
<1>5. CASE d # c
  <2>1. call'[d] = call[d] /\ call[d] # Idle
    BY <1>1, <1>4, <1>5 DEF Deciding
  <2>2. ~Quiet
    BY <2>1 DEF Quiet
  <2>3. ~hist.stale /\ call[d].id \notin hist.lag /\ (call[d].panel => Has(call[d].run, "flipRow"))
    BY <1>1, <1>4, <2>1, <2>2 DEF Doubts
  <2>4. QED
    BY <1>4, <2>1, <2>3 DEF Decided, OfList
<1>6. CASE d = c
  <2>1. call'[d] = w /\ w # Idle /\ w.id = id /\ w.from = m[1] /\ w.panel = panel /\ w.sel = ui.sel /\ w.run = run
        /\ Awaits(w) \in {"save", "settle"} /\ stop \in DOMAIN run /\ Awaits(w) = run[stop]
    BY <1>1, <1>4, <1>6 DEF Deciding, Waits, SameOf
  <2>2. b.run[stop] \in {"save", "settle"} /\ stop \in DOMAIN b.run
    BY <1>3, <2>1 DEF PressRun
  <2>3. Calling(b.run)
    BY <2>1, PressCalling
  <2>4. b \notin This.bar \cup This.props \cup This.form \cup This.edit /\ (b \in This.panel => page # "missions")
    BY <1>2, <2>2 DEF Disciplines, Lacks
  <2>5. \A s \in {"flipRow", "flipIf"}: Has(run, s) => Has(b.run, s)
    BY <1>3 DEF PressRun, Has
  <2>6. CASE panel
    <3>1. OffersOnPanel(b, id, m[1]) /\ b \in This.panel /\ ui.sel # None /\ ui.sel = Open(id, m[1])
      BY <1>1, <2>6 DEF OffersOnPanel
    <3>2. page \in WithPanel
      BY <1>4, <1>6, <2>1, <2>6, <3>1 DEF PanelInv
    <3>3. ~Has(b.run, "select")
      BY <1>2, <3>1 DEF Disciplines, Lacks, Has
    <3>4. Quiet /\ ~hist.doubt
      <4>1. CASE ~hist'.stale /\ id \notin hist'.lag /\ Has(b.run, "flipRow")
        BY <1>1, <2>3, <2>6, <4>1 DEF Doubts
      <4>2. CASE ~hist'.doubt
        BY <1>1, <3>3, <4>2 DEF Doubts
      <4>3. QED
        BY <1>4, <1>6, <2>1, <2>5, <2>6, <4>1, <4>2
    <3>5. Follows(ui.sel, rows)
      BY <3>2, <3>4 DEF PanelInv
    <3>6. ui.sel.id = id /\ ui.sel.st = m[1]
      BY <3>1 DEF Open
    <3>7. QED
      BY <2>1, <3>1, <3>5, <3>6 DEF Follows
  <2>7. CASE ~panel
    <3>1. b \in This.list /\ ui.here /\ id \in Ids /\ ui.list[id] = m[1]
      BY <1>1, <2>4, <2>7 DEF OffersElsewhere, Library, Clear
    <3>2. Quiet /\ ~hist.stale /\ id \notin hist.lag
      <4>1. CASE ~hist'.stale /\ id \notin hist'.lag
        BY <1>1, <2>3, <4>1 DEF Doubts
      <4>2. CASE ~hist'.doubt /\ page \in WithPanel /\ Has(run, "flipIf") /\ Same(w)
        <5>1. Disciplined(page, This, b) /\ Untold({id})
          BY <1>3, <2>1, <4>2 DEF PressRun, Same, Untold
        <5>2. PICK j \in DOMAIN b.run: b.run[j] = "flipIf"
          BY <2>5, <4>2 DEF Has
        <5>3. Mends(This, b, b.run[stop]) /\ \A h \in DOMAIN b.run: b.run[h] \in SelSteps => h = j
          BY <2>2, <4>2, <5>1, <5>2 DEF Disciplined, KeepsPanel, Only, SelSteps, Writes
        <5>4. ~Has(b.run, "select")
          BY <5>2, <5>3 DEF Has, SelSteps
        <5>5. "flipIf" \in {b.run[h]: h \in DOMAIN b.run} \cap (SelSteps \cup Fetches)
          BY <5>2 DEF SelSteps
        <5>6. b \in This.panel /\ Has(b.run, "flipRow")
          BY <2>2, <5>3, <5>5 DEF Mends
        <5>7. Quiet /\ ~hist.doubt /\ id \notin hist.lag
          BY <1>1, <2>7, <4>2, <5>1, <5>4, <5>6 DEF Doubts
        <5>8. QED
          BY <2>4, <5>6, <5>7 DEF PanelInv
      <4>3. QED
        BY <1>4, <1>6, <2>1, <2>7, <4>1, <4>2
    <3>3. QED
      BY <2>1, <3>1, <3>2, ListTruth
  <2>8. QED
    BY <2>6, <2>7
<1>7. QED
  BY <1>5, <1>6

\* A filter chosen decides nothing.
LEMMA ChooseDecided ==
  ASSUME Known, NEW c \in Calls, NEW f, NEW k, NEW u, Chooses(c, f, k, u)
  PROVE  Decided'
<1> DEFINE w == Waiting(k, This.refilter, 1)
<1>1. Waits(w, k, This.refilter, 1) /\ 1 \in DOMAIN This.refilter /\ This.refilter[1] \in {"reload", "debounce"}
  BY DEF Chooses, Starts
<1>2. w # Idle /\ Awaits(w) \in {"reload", "debounce"}
  BY <1>1 DEF Waits
<1>3. SUFFICES ASSUME NEW d \in Calls, Deciding(call'[d]), ~hist'.stale \/ ~hist'.doubt PROVE FALSE
  BY DEF Decided, OfList, OfPanel
<1>4. Quiet /\ call'[c] = w /\ \A e \in Calls \ {c}: call'[e] = Idle
  BY <1>3, ChooseDoubts
<1>5. QED
  BY <1>2, <1>3, <1>4 DEF Deciding

------------------------------------------------------------------------------
(* The invariant.                                                          *)

\* A page that opens has a load under way and nothing to be wrong about.
LEMMA InitInv == Init => IInv
<1> SUFFICES ASSUME Init PROVE IInv
  OBVIOUS
<1>1. page \in DOMAIN Pages /\ rows \in [Ids -> This.states \cup {None}] /\ hist = [events |-> 0, stale |-> FALSE, doubt |-> FALSE, lag |-> {}]
  BY DEF Init
<1>2. ui = [list |-> [i \in Ids |-> None], filter |-> This.first, sel |-> None, form |-> 0,
            edit |-> None, shown |-> ~This.spins, busy |-> {}, here |-> TRUE]
  BY DEF Init
<1>3. PICK c \in Calls: call = [d \in Calls |-> IF d = c THEN [Idle EXCEPT !.run = <<"reload">>, !.at = 1, !.filter = This.first]
                                                ELSE Idle]
  BY DEF Init
<1>4. PICK k: k = [Idle EXCEPT !.run = <<"reload">>, !.at = 1, !.filter = This.first]
  OBVIOUS
<1>5. /\ Formed(k) /\ k.at = 1 /\ k.run = <<"reload">> /\ k.filter = This.first /\ k.catch = <<>> /\ k.panel = FALSE
      /\ k.ans = "none"
  <2>1. PICK run: run = <<"reload">>
    OBVIOUS
  <2>2. PICK none: none = <<>>
    OBVIOUS
  <2>3. PICK f: f = This.first
    OBVIOUS
  <2>4. PICK lock: lock = Idle.lock
    OBVIOUS
  <2>5. k \in [run: {run}, at: {1}, id: {None}, from: {""}, to: {""}, filter: {f}, sel: {None},
               form: {0}, n: {0}, catch: {none}, panel: {FALSE}, all: {{}}, lock: {lock},
               ans: {"none"}, got: {None}]
    BY <1>4, <2>1, <2>2, <2>3, <2>4 DEF Idle
  <2>6. k = [run |-> run, at |-> 1, id |-> None, from |-> "", to |-> "", filter |-> f, sel |-> None,
             form |-> 0, n |-> 0, catch |-> none, panel |-> FALSE, all |-> {}, lock |-> lock,
             ans |-> "none", got |-> None]
    BY <2>5
  <2>7. Formed(k) /\ k.at = 1 /\ k.run = run /\ k.filter = f /\ k.catch = none /\ k.panel = FALSE /\ k.ans = "none"
    BY <2>6 DEF Formed
  <2>8. QED
    BY <2>1, <2>2, <2>3, <2>7
<1>6. DOMAIN k.run = 1 .. 1 /\ k.run[1] = "reload"
  BY <1>5
<1>7. Awaits(k) = "reload" /\ k # Idle
  BY <1>5, <1>6, IdleFields DEF Awaits
<1>8. call[c] = k /\ \A d \in Calls \ {c}: call[d] = Idle
  BY <1>3, <1>4
<1>9. CallKnown(page, k)
  <2>1. Loads(page, k)
    BY <1>5 DEF Loads
  <2>2. Rowless(k.run)
    BY <1>6 DEF Rowless, Lacks, RowCalls, SelSteps
  <2>3. QED
    BY <1>5, <1>6, <1>7, <2>1, <2>2 DEF CallKnown, Async
<1>10. /\ ui.list = [i \in Ids |-> None] /\ ui.filter = This.first /\ ui.sel = None /\ ui.edit = None /\ ui.busy = {}
       /\ FormedUi(ui)
  <2>1. PICK list: list = [i \in Ids |-> None]
    OBVIOUS
  <2>2. PICK shown: shown = ~This.spins
    OBVIOUS
  <2>3. PICK f: f = This.first
    OBVIOUS
  <2>4. ui = [list |-> list, filter |-> f, sel |-> None, form |-> 0, edit |-> None, shown |-> shown, busy |-> {}, here |-> TRUE]
    BY <1>2, <2>1, <2>2, <2>3
  <2>5. ui.list = list /\ ui.filter = f /\ ui.sel = None /\ ui.edit = None /\ ui.busy = {} /\ FormedUi(ui)
    BY <2>4 DEF FormedUi
  <2>6. QED
    BY <2>1, <2>3, <2>5
<1>11. Known
  <2>1. IsList(ui.list)
    BY <1>10 DEF IsList
  <2>2. call = [d \in Calls |-> call[d]]
    BY <1>3
  <2>3. hist \in [events: Nat, stale: BOOLEAN, doubt: BOOLEAN, lag: SUBSET Ids]
    BY <1>1
  <2>4. \A d \in Calls: call[d] = Idle \/ CallKnown(page, call[d])
    BY <1>8, <1>9
  <2>5. rows \in [Ids -> This.states \cup {None, Deleted}]
    BY <1>1
  <2>6. QED
    BY <1>1, <1>10, <2>1, <2>2, <2>3, <2>4, <2>5 DEF Known, OpenRow
<1>12. LocksHeld
  BY <1>10 DEF LocksHeld
<1>13. Sole
  BY <1>8 DEF Sole
<1>14. ListInv
  <2>1. ListHeld(page, ui.list, rows, ui.filter, Told, k)
    BY <1>5, <1>7 DEF ListHeld
  <2>2. QED
    BY <1>5, <1>7, <1>8, <1>10, <2>1 DEF ListInv, Quiet
<1>15. PanelInv
  <2>1. WillFollow(ui.sel, rows, k)
    BY <1>5, <1>6, <1>10 DEF WillFollow, Later, Follows, SelSteps
  <2>2. PanelHeld(ui.sel, rows, k)
    BY <1>7, <2>1 DEF PanelHeld
  <2>3. ~hist.stale
    BY <1>1
  <2>4. QED
    BY <1>7, <1>8, <1>10, <2>2, <2>3 DEF PanelInv, Quiet
<1>16. Decided
  BY <1>7, <1>8 DEF Decided, Deciding
<1>17. QED
  BY <1>11, <1>12, <1>13, <1>14, <1>15, <1>16 DEF IInv

\* The server answers.
LEMMA ServeInv ==
  ASSUME IInv, NEW c \in Calls, Serve(c)
  PROVE  IInv'
<1>1. Known /\ LocksHeld /\ Sole /\ ListInv /\ PanelInv /\ Decided
  BY DEF IInv
<1>2. PICK w: Serves(c, w)
  BY <1>1, ServeIs
<1>3. QED
  BY <1>1, <1>2, ServeKnown, ServeLocks, ServeSole, ServeList, ServePanel, ServeDecided DEF IInv

\* An answer comes.
LEMMA LandInv ==
  ASSUME IInv, NEW c \in Calls, Land(c)
  PROVE  IInv'
<1>1. Known /\ LocksHeld /\ Sole /\ ListInv /\ PanelInv /\ Decided /\ call[c] # Idle
  BY DEF IInv, Land
<1>2. PICK u, run, i: Goes(c, u, run, i) /\ Lands(call[c], u, run, i)
  BY <1>1, LandIs
<1>3. QED
  BY <1>1, <1>2, LandKnown, LandLocks, LandSole, LandList, LandPanel, LandDecided DEF IInv

\* A button is pressed.
LEMMA PressInv ==
  ASSUME IInv, NEW c \in Calls, NEW b \in Buttons, NEW id \in Ids \cup {None}, NEW m \in b.moves, NEW panel \in BOOLEAN, Press(c, b, id, m, panel)
  PROVE  IInv'
<1>1. Known /\ LocksHeld /\ Sole /\ ListInv /\ PanelInv /\ Decided
  BY DEF IInv
<1>2. PICK k, u: Presses(c, b, id, m, panel, k, u)
  BY <1>1, PressIs
<1>3. QED
  BY <1>1, <1>2, PressKnown, PressLocks, PressSole, PressList, PressPanel, PressDecided DEF IInv

\* A filter is chosen.
LEMMA ChooseInv ==
  ASSUME IInv, NEW c \in Calls, NEW f \in This.filters, ChooseFilter(c, f)
  PROVE  IInv'
<1>1. Known /\ LocksHeld /\ Sole /\ ListInv /\ PanelInv /\ Decided
  BY DEF IInv
<1>2. PICK k, u: Chooses(c, f, k, u)
  BY <1>1, ChooseIs
<1>3. QED
  BY <1>1, <1>2, ChooseKnown, ChooseLocks, ChooseSole, ChooseList, ChoosePanel, ChooseDecided DEF IInv

\* Another analyst writes.
LEMMA OtherInv ==
  ASSUME IInv, OtherWrites
  PROVE  IInv'
<1>1. Known /\ LocksHeld /\ PanelInv
  BY DEF IInv
<1>2. page' = page /\ ui' = ui /\ call' = call
  BY DEF OtherWrites
<1>3. hist'.stale /\ hist'.doubt /\ hist' \in [events: Nat, stale: BOOLEAN, doubt: BOOLEAN, lag: SUBSET Ids]
  <2>1. hist \in [events: Nat, stale: BOOLEAN, doubt: BOOLEAN, lag: SUBSET Ids]
    BY <1>1 DEF Known
  <2>2. PICK n \in Nat: n = hist.events + 1
    BY <2>1
  <2>3. hist' = [hist EXCEPT !.events = n, !.stale = TRUE, !.doubt = TRUE]
    BY <2>2 DEF OtherWrites
  <2>4. QED
    BY <2>1, <2>3
<1>4. PICK i \in Ids, s \in This.states \cup {Deleted}: rows' = [rows EXCEPT ![i] = s]
  BY DEF OtherWrites
<1>5. rows' \in [Ids -> This.states \cup {None, Deleted}]
  BY <1>1, <1>4 DEF Known
<1>6. Known'
  BY <1>1, <1>2, <1>3, <1>5 DEF Known, This
<1>7. LocksHeld'
  BY <1>1, <1>2 DEF LocksHeld
<1>8. PanelInv'
  BY <1>1, <1>2, <1>3 DEF PanelInv
<1>9. Sole' /\ ListInv' /\ Decided'
  BY <1>3 DEF Sole, ListInv, Decided, OfList, OfPanel
<1>10. QED
  BY <1>6, <1>7, <1>8, <1>9 DEF IInv

\* A tab closes the panel; the other steps of the proposals leave list and panel alone.
Turns == ui' = [ui EXCEPT !.sel = None] /\ hist'.doubt = (hist.doubt \/ ~Quiet)
Keeps == ui' = ui /\ hist'.doubt = hist.doubt

\* The table, the list and the calls are as before when a view is chosen or the proposals are loaded.
LEMMA ViewIs ==
  ASSUME Known, ShowLibrary \/ ShowProposals \/ ViewProposals \/ ServeProposals \/ LandProposals
  PROVE  /\ page' = page /\ rows' = rows /\ call' = call /\ (Turns \/ Keeps)
         /\ hist' \in [events: Nat, stale: BOOLEAN, doubt: BOOLEAN, lag: SUBSET Ids]
         /\ hist'.stale = hist.stale /\ hist'.lag = hist.lag
<1>1. hist \in [events: Nat, stale: BOOLEAN, doubt: BOOLEAN, lag: SUBSET Ids]
  BY DEF Known
<1>2. PICK n \in Nat: n = hist.events + 1
  BY <1>1
<1>3. PICK doubt \in BOOLEAN: doubt = (hist.doubt \/ ~Quiet)
  BY <1>1
<1>4. CASE ShowLibrary
  <2>1. /\ hist' = [hist EXCEPT !.doubt = hist.doubt \/ ~Quiet]
        /\ page' = page /\ rows' = rows /\ call' = call /\ ui' = [ui EXCEPT !.sel = None]
    BY <1>4 DEF ShowLibrary
  <2>2. hist' = [hist EXCEPT !.doubt = doubt]
    BY <1>3, <2>1
  <2>3. /\ hist' \in [events: Nat, stale: BOOLEAN, doubt: BOOLEAN, lag: SUBSET Ids]
        /\ hist'.stale = hist.stale /\ hist'.lag = hist.lag /\ hist'.doubt = doubt
    BY <1>1, <2>2
  <2>4. QED
    BY <1>3, <2>1, <2>3 DEF Turns
<1>5. CASE ShowProposals
  <2>1. /\ hist' = [hist EXCEPT !.events = hist.events + 1, !.doubt = hist.doubt \/ ~Quiet]
        /\ page' = page /\ rows' = rows /\ call' = call /\ ui' = [ui EXCEPT !.sel = None]
    BY <1>5 DEF ShowProposals
  <2>2. hist' = [hist EXCEPT !.events = n, !.doubt = doubt]
    BY <1>2, <1>3, <2>1
  <2>3. /\ hist' \in [events: Nat, stale: BOOLEAN, doubt: BOOLEAN, lag: SUBSET Ids]
        /\ hist'.stale = hist.stale /\ hist'.lag = hist.lag /\ hist'.doubt = doubt
    BY <1>1, <2>2
  <2>4. QED
    BY <1>3, <2>1, <2>3 DEF Turns
<1>6. CASE ViewProposals
  <2>1. /\ hist' = [hist EXCEPT !.events = hist.events + 1]
        /\ page' = page /\ rows' = rows /\ call' = call /\ ui' = ui
    BY <1>6 DEF ViewProposals
  <2>2. hist' = [hist EXCEPT !.events = n]
    BY <1>2, <2>1
  <2>3. /\ hist' \in [events: Nat, stale: BOOLEAN, doubt: BOOLEAN, lag: SUBSET Ids]
        /\ hist'.stale = hist.stale /\ hist'.lag = hist.lag /\ hist'.doubt = hist.doubt
    BY <1>1, <2>2
  <2>4. QED
    BY <2>1, <2>3 DEF Keeps
<1>7. CASE ServeProposals \/ LandProposals
  <2>1. page' = page /\ rows' = rows /\ call' = call /\ ui' = ui /\ hist' = hist
    BY <1>7 DEF ServeProposals, LandProposals
  <2>2. QED
    BY <1>1, <2>1 DEF Keeps
<1>8. QED
  BY <1>4, <1>5, <1>6, <1>7

\* So what is known stays so.
LEMMA ViewInv ==
  ASSUME IInv, ShowLibrary \/ ShowProposals \/ ViewProposals \/ ServeProposals \/ LandProposals
  PROVE  IInv'
<1>1. /\ page' = page /\ rows' = rows /\ call' = call /\ (Turns \/ Keeps)
      /\ hist' \in [events: Nat, stale: BOOLEAN, doubt: BOOLEAN, lag: SUBSET Ids]
      /\ hist'.stale = hist.stale /\ hist'.lag = hist.lag
  BY ViewIs DEF IInv
<1>2. /\ FormedUi(ui') /\ ui'.list = ui.list /\ ui'.filter = ui.filter /\ ui'.edit = ui.edit /\ ui'.busy = ui.busy
      /\ ui'.here = ui.here /\ ui'.sel = (IF Turns THEN None ELSE ui.sel)
  <2>1. FormedUi(ui)
    BY DEF IInv, Known
  <2>2. CASE Turns
    BY <2>1, <2>2 DEF Turns, FormedUi
  <2>3. CASE ~Turns
    BY <1>1, <2>1, <2>3 DEF Keeps
  <2>4. QED
    BY <2>2, <2>3
<1>3. hist.doubt => hist'.doubt
  BY <1>1 DEF Turns, Keeps
<1>4. Known'
  <2>1. OpenRow(ui'.sel)
    BY <1>2 DEF IInv, Known, OpenRow
  <2>2. QED
    BY <1>1, <1>2, <2>1 DEF IInv, Known, This
<1>5. LocksHeld' /\ Sole'
  BY <1>1, <1>2, <1>3 DEF IInv, LocksHeld, Sole
<1>6. ListInv'
  <2>1. Told' = Told /\ Quiet' = Quiet
    BY <1>1 DEF Told, Quiet
  <2>2. QED
    BY <1>1, <1>2, <2>1 DEF IInv, ListInv
<1>7. PanelInv'
  <2>1. Quiet' = Quiet
    BY <1>1 DEF Quiet
  <2>2. CASE Turns
    <3>1. ui'.sel = None /\ (~hist'.doubt => Quiet)
      BY <1>2, <2>2 DEF Turns
    <3>2. Follows(ui'.sel, rows')
      BY <3>1 DEF Follows
    <3>3. QED
      BY <1>1, <1>3, <2>1, <3>1, <3>2 DEF IInv, PanelInv, Quiet
  <2>3. CASE ~Turns
    BY <1>1, <1>2, <1>3, <2>1, <2>3 DEF IInv, PanelInv, Keeps
  <2>4. QED
    BY <2>2, <2>3
<1>8. Decided'
  BY <1>1, <1>3 DEF IInv, Decided, OfList, OfPanel
<1>9. QED
  BY <1>4, <1>5, <1>6, <1>7, <1>8 DEF IInv

\* A step that changes nothing.
LEMMA StutterInv ==
  ASSUME IInv, UNCHANGED vars
  PROVE  IInv'
<1>1. page' = page /\ rows' = rows /\ ui' = ui /\ call' = call /\ hist' = hist
  BY DEF vars
<1>2. Known' /\ LocksHeld' /\ Sole'
  BY <1>1 DEF IInv, Known, LocksHeld, Sole, This
<1>3. ListInv'
  BY <1>1 DEF IInv, ListInv, Quiet, Told
<1>4. PanelInv'
  BY <1>1 DEF IInv, PanelInv, Quiet
<1>5. Decided'
  BY <1>1 DEF IInv, Decided, OfList, OfPanel
<1>6. QED
  BY <1>2, <1>3, <1>4, <1>5 DEF IInv

\* Whatever happens: the page's state is of its type, every lock is in the hands of a call that
\* gives it back, and the list, the panel and the decisions under way agree with the table for
\* the rows they were told of.  The history variable holds what they were not told of: a failure,
\* another writer, overlapping calls, a proposal that was enabled, a switch on a panel that
\* differs, another detection's deployments, the switch of all detections.
THEOREM InvHolds == Spec => []IInv
<1>1. ASSUME IInv, [Next]_vars PROVE IInv'
  <2>1. CASE \E c \in Calls: Serve(c) \/ Land(c)
    BY <1>1, <2>1, ServeInv, LandInv
  <2>2. CASE \E c \in Calls, b \in Buttons, id \in Ids \cup {None}, panel \in BOOLEAN: \E m \in b.moves: Press(c, b, id, m, panel)
    BY <1>1, <2>2, PressInv
  <2>3. CASE \E c \in Calls, f \in This.filters: ChooseFilter(c, f)
    BY <1>1, <2>3, ChooseInv
  <2>4. CASE OtherWrites
    BY <1>1, <2>4, OtherInv
  <2>5. CASE UNCHANGED vars
    BY <1>1, <2>5, StutterInv
  <2>6. CASE ShowLibrary \/ ShowProposals \/ ViewProposals \/ ServeProposals \/ LandProposals
    BY <1>1, <2>6, ViewInv
  <2>7. QED
    BY <1>1, <2>1, <2>2, <2>3, <2>4, <2>5, <2>6 DEF Next
<1>2. QED
  BY InitInv, <1>1, PTL DEF Spec

\* No button stays disabled once every call has come back.
THEOREM LocksGivenBack == Spec => []NoLockLeft
<1>1. IInv => NoLockLeft
  BY DEF IInv, LocksHeld, NoLockLeft, Quiet
<1>2. QED
  BY InvHolds, <1>1, PTL

\* Once every call has come back and nothing failed, overlapped or came from elsewhere since the
\* last load, a list shows what the server has, on each of the twenty pages: but for a proposal
\* that was enabled (detections/page.tsx:332), a row switched on a panel that differed from it
\* (424) and the deployments of a detection opened in the place of another (345).
THEOREM ListShowsServer == Spec => []ListIsServer
<1>1. IInv => ListIsServer
  BY DEF IInv, Known, ListInv, Shows, ListIsServer, This, Told
<1>2. QED
  BY InvHolds, <1>1, PTL

\* Under the same condition a panel shows its row as the server has it: but for the documents' pin
\* (docs/page.tsx:134), the detection that the switch of all turned over (detections/page.tsx:447),
\* the proposal that was enabled while "View Proposals" left its panel open (332, 1871), and what
\* was opened or switched in a list that was wrong of it.
THEOREM PanelShowsRow == Spec => []PanelIsRow
<1>1. IInv => PanelIsRow
  BY DEF IInv, PanelInv, Follows, PanelIsRow
<1>2. QED
  BY InvHolds, <1>1, PTL

\* What a handler asks for was decided on the row the server still has, when nothing interfered
\* and the copy it was pressed on is none of the exceptions of the two theorems above: the switch
\* of an enabled proposal, in a library not loaded since, sends the opposite of a stale copy.
THEOREM DecisionsHold == Spec => []DecidesOnTruth
<1>1. IInv => DecidesOnTruth
  BY DEF IInv, Decided, Deciding, DecidesOnTruth, OfList, OfPanel
<1>2. QED
  BY InvHolds, <1>1, PTL

==============================================================================
