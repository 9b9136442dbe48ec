----------------------------- MODULE ConsolePages -----------------------------
(***************************************************************************)
(* A page of the console in one browser, the table behind it, and other    *)
(* analysts who write the same table.                                      *)
(*                                                                         *)
(* A page keeps copies: the list it loaded, the row open in its panel, the *)
(* row being edited in its form.  A handler is an async function over      *)
(* them: between two of its awaits the user may press anything the page    *)
(* still offers, and what a handler read when it began (the filter, the    *)
(* open row) it still uses when its answers come.  The pages differ in     *)
(* their handlers and in what they offer; both are in PageScripts.  One of *)
(* them, detections, has two views over its table: the library, which is   *)
(* its list, and the proposals, which load and are patched apart from it.  *)
(***************************************************************************)
EXTENDS Naturals, FiniteSets, SequencesExt, PageScripts

CONSTANTS
  Ids,         \* ids the database may give to rows
  Calls,       \* handlers in flight at once
  None,
  MaxEvents    \* bound: buttons pressed, filters and views chosen, errors, and writes of other analysts

ASSUME ConsoleAssumption == \A n \in DOMAIN Pages: None \notin Pages[n].states

VARIABLES
  page,       \* the name of the page that is open
  rows,       \* the server's table: the state of each row, None before it is created
  ui,         \* what the page keeps and shows
  call,       \* handlers in flight
  proposals,  \* the proposals of the detections page, its loads of them asked for and answered
  hist        \* counters of the bounds, and whether the list, a row of it, or the panel may lag

vars == <<page, rows, ui, call, proposals, hist>>

Async == {"add", "addHere", "addMany", "save", "saveAll", "enable", "settle", "touch", "put", "remove", "post",
          "swap", "reload", "fetch", "debounce"}
Deleted == "deleted"
Live(i) == rows[i] \notin {None, Deleted}
This == Pages[page]

Idle == [run |-> <<>>, at |-> 0, id |-> None, from |-> "", to |-> "", filter |-> {}, sel |-> None,
         form |-> 0, n |-> 0, catch |-> <<>>, panel |-> FALSE, all |-> {},
         lock |-> [name |-> "", kind |-> "", id |-> None, n |-> 0], ans |-> "none", got |-> None]

Quiet == \A c \in Calls: call[c] = Idle
Alone(c) == \A d \in Calls \ {c}: call[d] = Idle
Open(id, st) == [id |-> id, st |-> st]
Shown(filter) == [i \in Ids |-> IF rows[i] \in filter THEN rows[i] ELSE None]

------------------------------------------------------------------------------
(* The synchronous steps of a handler, as updates of the page's state.     *)

Key(b, id, n) == [name |-> b.lock.name, kind |-> b.lock.kind, id |-> id,
                  n |-> IF b.lock.kind = "form" THEN ui.form ELSE n]

\* the locks a handler gives back: a flag or a single id is cleared whoever set
\* it, a map entry by its row, the flag of a form or card only by its own instance
Freed(k, busy) ==
  {l \in busy: \/ l.name # k.lock.name
               \/ k.lock.kind = "row" /\ l.id # k.lock.id
               \/ k.lock.kind \in {"form", "card", "panel"} /\ l # k.lock}

Same(k) == k.sel # None /\ k.sel.id = k.id   \* selected?.id === id, of the render the handler began in

ListAfter(s, list, k) ==
  CASE s = "flipRow" -> IF list[k.id] # None THEN [list EXCEPT ![k.id] = Flip(@)] ELSE list
    [] s = "putRow"  -> IF list[k.id] # None THEN [list EXCEPT ![k.id] = k.got] ELSE list
    [] s = "putNew"  -> [list EXCEPT ![k.id] = k.to]
    [] s = "setAll"  -> [i \in Ids |-> IF list[i] = None THEN None ELSE k.to]
    [] s = "dropRow" -> [list EXCEPT ![k.id] = None]
    [] OTHER         -> list

Unmounts(s, k) == s = "close" \/ (s = "closeIf" /\ Same(k))

SelAfter(s, sel, k) ==
  CASE s = "select"    -> Open(k.id, k.from)
    [] s = "selectNew" -> Open(k.id, k.to)
    [] s = "patchIf"   -> IF Same(k) /\ sel # None THEN Open(sel.id, k.to) ELSE sel
    [] s = "flipIf"    -> IF Same(k) /\ sel # None THEN Open(sel.id, Flip(sel.st)) ELSE sel
    [] s = "putIf"     -> IF Same(k) THEN Open(k.id, k.got) ELSE sel
    [] Unmounts(s, k)  -> None
    [] OTHER           -> sel

BusyAfter(s, busy, k) ==
  CASE s = "free"       -> Freed(k, busy)
    [] Unmounts(s, k)   -> {l \in busy: l.kind # "panel"}
    [] OTHER            -> busy

FormAfter(s, form, k) == IF s \in {"form", "edit"} THEN k.n ELSE IF s = "shut" THEN 0 ELSE form
EditAfter(s, edit, k) == IF s = "edit" THEN Open(k.id, k.from) ELSE IF s = "shut" THEN None ELSE edit

\* "fetchIf", when another row was open, is not the call but nothing at all
Do(s, u, k) ==
  [u EXCEPT !.list = ListAfter(s, @, k), !.sel = SelAfter(s, @, k), !.busy = BusyAfter(s, @, k),
            !.form = FormAfter(s, @, k), !.edit = EditAfter(s, @, k), !.here = @ /\ s # "leave"]

\* a load shows the spinner instead of the list, whose cards lose their state
StartLoad(u) ==
  IF This.spins
  THEN [u EXCEPT !.shown = FALSE, !.busy = {l \in @: l.kind # "card"}]
  ELSE [u EXCEPT !.shown = TRUE]

\* the next await of a run from its i-th step on; past its end if there is none
NextAwait(run, i) ==
  CHOOSE j \in i .. (Len(run) + 1): /\ j \in DOMAIN run => run[j] \in Async
                                   /\ \A h \in i .. (j - 1): run[h] \notin Async
Calling(run) == NextAwait(run, 1) \in DOMAIN run

\* the page after the steps of a run from the i-th to the n-th
Steps(u, k, run, i, n) ==
  LET done[j \in Nat] == IF j < i THEN u ELSE Do(run[j], done[j - 1], k)
  IN  done[n]

\* the page after the steps up to the next await, and the call that then waits
After(u, k, run, i) ==
  LET stop == NextAwait(run, i)
      done == Steps(u, k, run, i, stop - 1)
  IN  IF stop \in DOMAIN run /\ run[stop] = "reload" THEN StartLoad(done) ELSE done

Waiting(k, run, i) ==
  IF NextAwait(run, i) \in DOMAIN run
  THEN [k EXCEPT !.run = run, !.at = NextAwait(run, i), !.ans = "none", !.got = None] ELSE Idle

Awaits(k) == k.run[k.at]

------------------------------------------------------------------------------
(* What the page offers.                                                   *)

Locked(b, id) ==
  \E l \in ui.busy: /\ l.name = b.lock.name
                    /\ CASE b.lock.kind \in {"whole", "panel"} -> TRUE
                         [] b.lock.kind = "each"  -> FALSE
                         [] b.lock.kind = "form"  -> l.n = ui.form
                         [] OTHER                 -> l.id = id

\* a dialog covers the page; a panel that replaces the page hides the rest
Clear == ui.here /\ ui.form = 0
Library == Clear /\ proposals.view = "library" /\ ~(This.over /\ ui.sel # None)
OffersOnPanel(b, id, st) == b \in This.panel /\ Clear /\ ui.sel # None /\ ui.sel = Open(id, st)
OffersElsewhere(b, id, st) ==
  \/ b \in This.form  /\ ui.here /\ ui.form # 0 /\ ui.edit = None /\ id = None /\ st = ""
  \/ b \in This.edit  /\ ui.here /\ ui.form # 0 /\ ui.edit # None /\ ui.edit = Open(id, st)
  \/ b \in This.bar   /\ Library /\ (This.whole => ui.shown) /\ id = None /\ st = ""
  \/ b \in This.list  /\ Library /\ ui.shown /\ id \in Ids /\ ui.list[id] = st
  \/ b \in This.props /\ Clear /\ proposals.view = "proposals" /\ ~proposals.loading
                       /\ id \in Ids \cap proposals.list /\ st = ""

Take(u, k) ==
  IF k.lock.name = "" THEN u
  ELSE [u EXCEPT !.busy = (IF k.lock.kind \in {"last", "each"} THEN {l \in @: l.name # k.lock.name} ELSE @)
                          \cup {k.lock}]

Untold(S) == ui.sel # None /\ ui.sel.id \in S

\* a call beside others: the list may come to show the older answer, and the panel may
\* be changed by it, whatever it shows by then.  A row selected is a copy of the list's.
\* A switch turns over what it finds: one of a doubtful panel may leave the list wrong,
\* one of a lagging list the panel
Disturbs(run, id, panel) ==
  LET flips == "flipRow" \in Range(run)
  IN  [hist EXCEPT !.events = @ + 1,
                   !.stale = @ \/ (Calling(run) /\ ~Quiet),
                   !.lag   = @ \cup (IF flips /\ panel /\ hist.doubt THEN {id} ELSE {}),
                   !.doubt = \/ IF "select" \in Range(run) THEN hist.stale \/ id \in hist.lag ELSE @
                             \/ ~Quiet
                             \/ flips /\ ~panel /\ id \in hist.lag /\ Untold({id})]

\* whether the panel shows the same row is asked of the render the handler began in
Begun(run, k) == [j \in DOMAIN run |-> IF run[j] = "fetchIf" /\ Same(k) THEN "fetch" ELSE run[j]]

Press(c, b, id, m, panel) ==
  LET k == [Idle EXCEPT !.id = id, !.from = m[1], !.to = m[2], !.filter = ui.filter, !.sel = ui.sel,
                        !.form = ui.form, !.n = hist.events + 1, !.catch = b.catch, !.lock = Key(b, id, hist.events + 1),
                        !.panel = panel,
                        !.all = {i \in Ids: ui.list[i] # None}]
  IN  /\ call[c] = Idle /\ hist.events < MaxEvents
      /\ IF panel THEN OffersOnPanel(b, id, m[1]) ELSE OffersElsewhere(b, id, m[1])
      /\ ~Locked(b, id)
      /\ "addHere" \in Range(b.run) => m[2] \in ui.filter
      /\ ui' = After(Take(ui, k), k, Begun(b.run, k), 1)
      /\ call' = [call EXCEPT ![c] = Waiting(k, Begun(b.run, k), 1)]
      /\ hist' = Disturbs(b.run, id, panel)
      /\ UNCHANGED <<page, rows, proposals>>

\* a new filter is an effect of its own: it loads with the new value, after the
\* pause if the page has one; the pause of an older value is cut short
ChooseFilter(c, f) ==
  LET k == [Idle EXCEPT !.filter = f, !.n = hist.events + 1]
      u == [ui EXCEPT !.filter = f]
      kept == [d \in Calls |-> IF call[d] # Idle /\ Awaits(call[d]) = "debounce" THEN Idle ELSE call[d]]
  IN  /\ call[c] = Idle /\ hist.events < MaxEvents
      /\ Library /\ f \in This.filters \ {ui.filter}
      /\ ui' = After(u, k, This.refilter, 1)
      /\ call' = [kept EXCEPT ![c] = Waiting(k, This.refilter, 1)]
      /\ hist' = Disturbs(This.refilter, None, FALSE)
      /\ UNCHANGED <<page, rows, proposals>>

------------------------------------------------------------------------------
(* The two views of the detections page.  A tab closes the panel, "View    *)
(* Proposals" in the dialog of the log sources does not.  The tab of the   *)
(* view that is shown already loads nothing.                               *)

ShowLibrary ==
  /\ page = "detections" /\ Clear
  /\ \E view \in {"library", proposals.view}: proposals' = [proposals EXCEPT !.view = view]
  /\ ui' = [ui EXCEPT !.sel = None]
  /\ hist' = [hist EXCEPT !.doubt = @ \/ ~Quiet]
  /\ UNCHANGED <<page, rows, call>>

\* an effect of the new view loads the proposals
LoadProposals(n) ==
  /\ hist.events < MaxEvents
  /\ proposals' = [proposals EXCEPT !.view = "proposals", !.loading = TRUE, !.asked = @ + n]

ShowProposals ==
  /\ page = "detections" /\ Clear /\ proposals.view = "library"
  /\ LoadProposals(1)
  /\ ui' = [ui EXCEPT !.sel = None]
  /\ hist' = [hist EXCEPT !.events = @ + 1, !.doubt = @ \/ ~Quiet]
  /\ UNCHANGED <<page, rows, call>>

\* the handler loads them too
ViewProposals ==
  /\ page = "detections" /\ Clear
  /\ LoadProposals(IF proposals.view = "library" THEN 2 ELSE 1)
  /\ hist' = [hist EXCEPT !.events = @ + 1]
  /\ UNCHANGED <<page, rows, ui, call>>

\* the proposals are some of the rows that are off; those of a failed load are none
ServeProposals ==
  /\ proposals.asked > 0
  /\ \E some \in SUBSET {i \in Ids: rows[i] = "disabled"}:
       proposals' = [proposals EXCEPT !.asked = @ - 1, !.answers = @ (+) SetToBag({some})]
  /\ UNCHANGED <<page, rows, ui, call, hist>>

LandProposals ==
  /\ \E some \in DOMAIN proposals.answers:
       proposals' = [proposals EXCEPT !.list = some, !.loading = FALSE, !.answers = @ (-) SetToBag({some})]
  /\ UNCHANGED <<page, rows, ui, call, hist>>

------------------------------------------------------------------------------
(* The server's part of a call, and the answer's part of the page.         *)

Answer(c, a, got) == call' = [call EXCEPT ![c].ans = a, ![c].got = got]

Changed(k) ==
  CASE Awaits(k) \in {"save", "enable", "settle"} -> [rows EXCEPT ![k.id] = k.to]
    [] Awaits(k) = "remove"  -> [rows EXCEPT ![k.id] = Deleted]
    [] Awaits(k) = "saveAll" -> [i \in Ids |-> IF i \in k.all /\ Live(i) THEN k.to ELSE rows[i]]
    [] Awaits(k) = "swap"    -> [i \in Ids |-> IF Live(i) THEN k.to ELSE rows[i]]
    [] OTHER                    -> rows

\* a row is created with an id never used before
ServeAdd(c) ==
  /\ Awaits(call[c]) \in {"add", "addHere"} \/ (Awaits(call[c]) = "put" /\ ~Live(call[c].id))
  /\ \E i \in {i \in Ids: rows[i] = None}:
       /\ rows' = [rows EXCEPT ![i] = call[c].to]
       /\ call' = [call EXCEPT ![c].ans = "ok", ![c].id = i, ![c].got = call[c].to]
  /\ UNCHANGED hist

\* an import creates rows and then switches them on, one by one: it answers that it
\* imported those it switched on
Imported(S, E) == [i \in Ids |-> IF i \in E THEN "enabled" ELSE IF i \in S THEN "disabled" ELSE rows[i]]
ServeMany(c) ==
  /\ Awaits(call[c]) = "addMany"
  /\ \E S \in SUBSET {i \in Ids: rows[i] = None}: \E E \in SUBSET S:
       E # {} /\ rows' = Imported(S, E)
  /\ Answer(c, "ok", None)
  /\ UNCHANGED hist

RowCalls == {"save", "enable", "settle", "touch", "put", "remove", "fetch"}

\* the row a call names must still be there, and a settled one is not settled again;
\* of a proposal that was enabled neither the list nor the panel is told
ServeRow(c) ==
  LET k == call[c]
  IN  /\ Awaits(k) \in RowCalls /\ Live(k.id)
      /\ Awaits(k) = "settle" => rows[k.id] = k.from
      /\ rows' = Changed(k)
      /\ Answer(c, "ok", Changed(k)[k.id])
      /\ hist' = [hist EXCEPT !.doubt = IF Awaits(k) = "fetch" /\ Alone(c) THEN FALSE
                                       ELSE @ \/ (Awaits(k) = "enable" /\ Untold({k.id})),
                              !.lag = @ \cup (IF Awaits(k) = "enable" THEN {k.id} ELSE {})]

\* a call about no row, or about the rows that were listed, of which the panel is not told;
\* or one that puts other rows in the place of all
ServeOthers(c) ==
  /\ Awaits(call[c]) \in {"post", "saveAll", "swap"}
  /\ rows' = Changed(call[c])
  /\ Answer(c, "ok", None)
  /\ hist' = [hist EXCEPT !.doubt = @ \/ (Awaits(call[c]) = "saveAll" /\ Untold(call[c].all)),
                          !.lag = IF Awaits(call[c]) = "swap" THEN Ids ELSE @]

ServeReload(c) ==
  LET k == call[c]
  IN  /\ Awaits(k) = "reload"
      /\ Answer(c, "ok", Shown(k.filter))
      /\ hist' = IF k.filter = ui.filter /\ Alone(c) THEN [hist EXCEPT !.stale = FALSE, !.lag = {}] ELSE hist
      /\ UNCHANGED rows

\* the row is gone, or there is no room for a new one: refused, nothing changed
Refuse(c) ==
  /\ \/ Awaits(call[c]) \in RowCalls \ {"put"} /\ ~Live(call[c].id)
     \/ Awaits(call[c]) = "settle" /\ Live(call[c].id) /\ rows[call[c].id] # call[c].from
     \/ /\ Awaits(call[c]) \in {"add", "addHere", "addMany"} \/ (Awaits(call[c]) = "put" /\ ~Live(call[c].id))
        /\ \A i \in Ids: rows[i] # None
  /\ Answer(c, "error", None)
  /\ UNCHANGED <<rows, hist>>

Effects(c) ==
  LET k == call[c]
  IN  CASE Awaits(k) \in {"add", "addHere"} -> {[rows EXCEPT ![i] = k.to]: i \in {i \in Ids: rows[i] = None}}
        [] Awaits(k) \in RowCalls ->
             IF Live(k.id) /\ (Awaits(k) = "settle" => rows[k.id] = k.from) THEN {Changed(k)} ELSE {}
        [] Awaits(k) = "saveAll" -> {Changed([k EXCEPT !.all = some]): some \in SUBSET k.all}
        [] Awaits(k) = "addMany" -> {Imported(S, E): S, E \in SUBSET {i \in Ids: rows[i] = None}}
        [] OTHER -> {rows}

\* an error reaches the page, whether or not the server did its part
Fault(c) ==
  /\ hist.events < MaxEvents /\ Awaits(call[c]) # "debounce"
  /\ rows' \in {rows} \cup Effects(c)
  /\ Answer(c, "error", None)
  /\ hist' = [hist EXCEPT !.events = @ + 1, !.stale = TRUE, !.doubt = TRUE]

Serve(c) ==
  /\ call[c] # Idle /\ call[c].ans = "none"
  /\ ServeAdd(c) \/ ServeMany(c) \/ ServeRow(c) \/ ServeOthers(c) \/ ServeReload(c) \/ Refuse(c) \/ Fault(c)
  /\ UNCHANGED <<page, ui, proposals>>

Continue(c, u, run, i) ==
  /\ ui' = After(u, call[c], run, i)
  /\ call' = [call EXCEPT ![c] = Waiting(@, run, i)]
  /\ UNCHANGED <<page, rows, hist>>

GoOn(c, u) == Continue(c, u, call[c].run, call[c].at + 1)

LandReload(c) ==
  /\ Awaits(call[c]) = "reload" /\ call[c].ans = "ok"
  /\ GoOn(c, [ui EXCEPT !.list = call[c].got, !.shown = TRUE])
  /\ UNCHANGED proposals

\* a failed load says so and leaves the list it had; some pages then hide it
LandReloadError(c) ==
  /\ Awaits(call[c]) = "reload" /\ call[c].ans = "error"
  /\ GoOn(c, [ui EXCEPT !.shown = This.keeps])
  /\ UNCHANGED proposals

\* the answer of a fetch opens the panel, whatever was done to it meanwhile
LandFetch(c) ==
  /\ Awaits(call[c]) = "fetch" /\ call[c].ans = "ok"
  /\ GoOn(c, [ui EXCEPT !.sel = Open(call[c].id, call[c].got)])
  /\ UNCHANGED proposals

LandWrite(c) ==
  /\ Awaits(call[c]) \notin {"reload", "fetch", "enable"} /\ call[c].ans = "ok"
  /\ GoOn(c, ui) /\ UNCHANGED proposals

\* an enabled proposal is dropped from those that were loaded
LandEnable(c) ==
  /\ Awaits(call[c]) = "enable" /\ call[c].ans = "ok"
  /\ GoOn(c, ui)
  /\ proposals' = [proposals EXCEPT !.list = @ \ {call[c].id}]

\* the catch and finally of the handler
LandError(c) ==
  /\ Awaits(call[c]) # "reload" /\ call[c].ans = "error"
  /\ Continue(c, ui, call[c].catch, 1)
  /\ UNCHANGED proposals

PauseOver(c) == Awaits(call[c]) = "debounce" /\ GoOn(c, ui) /\ UNCHANGED proposals

Land(c) ==
  /\ call[c] # Idle
  /\ \/ LandReload(c) \/ LandReloadError(c) \/ LandFetch(c) \/ LandWrite(c) \/ LandEnable(c)
     \/ LandError(c) \/ PauseOver(c)

\* another analyst, in another browser
OtherWrites ==
  /\ hist.events < MaxEvents
  /\ \E i \in Ids, s \in This.states \cup {Deleted}:
       /\ rows[i] \notin {s, Deleted} /\ (rows[i] = None => s # Deleted)
       /\ rows' = [rows EXCEPT ![i] = s]
  /\ hist' = [hist EXCEPT !.events = @ + 1, !.stale = TRUE, !.doubt = TRUE]
  /\ UNCHANGED <<page, ui, call, proposals>>

ButtonsOf(p) == p.bar \cup p.list \cup p.props \cup p.panel \cup p.form \cup p.edit
Buttons == ButtonsOf(This)

Init ==
  /\ page \in DOMAIN Pages
  /\ rows \in [Ids -> This.states \cup {None}]
  /\ ui = [list |-> [i \in Ids |-> None], filter |-> This.first, sel |-> None, form |-> 0,
           edit |-> None, shown |-> ~This.spins, busy |-> {}, here |-> TRUE]
  /\ \E c \in Calls: call = [d \in Calls |-> IF d = c THEN [Idle EXCEPT !.run = <<"reload">>, !.at = 1, !.filter = This.first]
                                                   ELSE Idle]
  /\ proposals = [view |-> "library", list |-> {}, loading |-> FALSE, asked |-> 0, answers |-> EmptyBag]
  /\ hist = [events |-> 0, stale |-> FALSE, doubt |-> FALSE, lag |-> {}]

Next ==
  \/ \E c \in Calls: Serve(c) \/ Land(c)
  \/ \E c \in Calls, b \in Buttons, id \in Ids \cup {None}, panel \in BOOLEAN: \E m \in b.moves: Press(c, b, id, m, panel)
  \/ \E c \in Calls, f \in This.filters: ChooseFilter(c, f)
  \/ ShowLibrary \/ ShowProposals \/ ViewProposals
  \/ ServeProposals \/ LandProposals
  \/ OtherWrites

Spec == Init /\ [][Next]_vars

------------------------------------------------------------------------------

(* Handlers reload, or patch the list by hand.  When nobody else wrote, no *)
(* call failed and none overlapped since the last load, the list carries   *)
(* the state the server has for every row it shows, and shows the rows its *)
(* filter asks for.  The library of detections keeps the last only while   *)
(* it shows all: its switch patches a row in place, in or out of a filter. *)
(* Three things nobody corrects are excepted, row by row: a proposal that  *)
(* was enabled (detections/page.tsx:332), which the library shows disabled *)
(* until its next load; a row switched on a panel that had come to differ  *)
(* from it, where both copies are turned over; and the deployments of the  *)
(* detection that was open before the one that took its place.             *)
ListIsServer ==
  Quiet /\ ~hist.stale /\ ui.here =>
    \A i \in Ids \ hist.lag:
      /\ ui.list[i] # None => ui.list[i] = rows[i]
      /\ page # "detections" \/ ui.filter = This.states
         => (rows[i] \in ui.filter <=> ui.list[i] # None)

(* The open row is a second copy: every handler that changes or deletes    *)
(* the row has to patch, refetch or close it.  Three do not: the documents *)
(* page goes on showing the old pin (docs/page.tsx:134), the switch of all *)
(* detections patches the list alone (detections/page.tsx:447), and so the *)
(* enabling of a proposal whose detection "View Proposals" left open (332, *)
(* 1871).  A row selected, or switched, in a list that shows it wrongly is *)
(* then wrong in the panel too.                                            *)
PanelIsRow ==
  Quiet /\ ~hist.doubt /\ ui.sel # None /\ page # "docs" => rows[ui.sel.id] = ui.sel.st

(* What a handler asks for was decided on the copy it was pressed on: the  *)
(* next status of a change, the opposite of a switch.  When nothing else   *)
(* interfered and that copy is none of the exceptions above, the server's  *)
(* row is still the one the decision was made on.                          *)
DecidesOnTruth ==
  \A c \in Calls:
    /\ call[c] # Idle /\ Awaits(call[c]) \in {"save", "settle"} /\ call[c].ans = "none"
    /\ Alone(c) /\ ~(IF call[c].panel THEN hist.doubt ELSE hist.stale \/ call[c].id \in hist.lag)
    /\ page = "docs" => ~call[c].panel
    => rows[call[c].id] = call[c].from

(* A lock disables its button until the handler's finally.  Whatever       *)
(* failed, overlapped or closed, no button stays disabled once every call  *)
(* has come back.                                                          *)
NoLockLeft == Quiet => ui.busy = {}

------------------------------------------------------------------------------
(* What is inductive.  First what every script keeps to, whatever its page *)
(* is: a handler writes first, then reloads or patches, never both.        *)

Has(run, s)     == \E j \in DOMAIN run: run[j] = s
Only(run, j, S) == run[j] \in S /\ \A h \in DOMAIN run: run[h] \in S => h = j   \* the one step of S
Lacks(run, S)   == \A j \in DOMAIN run: run[j] \notin S
Later(run, i, S) == \E j \in DOMAIN run: j > i /\ run[j] \in S

Writes    == {"add", "addHere", "addMany", "save", "saveAll", "enable", "settle", "touch", "put", "remove", "post",
              "swap"}
Fetches   == {"fetch", "fetchIf"}
Awaited   == Async \cup Fetches
ListSteps == {"flipRow", "putRow", "putNew", "setAll", "dropRow"}
SelSteps  == {"select", "selectNew", "patchIf", "flipIf", "putIf", "close", "closeIf"}

Script(run) == Len(run) \in Nat /\ DOMAIN run = 1 .. Len(run)

\* a call is made first, after the selection of a row, or not at all; after a reload only
\* a fetch is awaited, and after a fetch nothing
Ordered(run) ==
  /\ Script(run) /\ ~Has(run, "debounce")
  /\ \A j \in DOMAIN run: run[j] \in Writes => j = 1
  /\ \A j \in DOMAIN run: run[j] = "reload" => ~Later(run, j, Async \ {"fetch"})
  /\ \A j \in DOMAIN run: run[j] \in Fetches => ~Later(run, j, Awaited \cup SelSteps)
  /\ (1 \in DOMAIN run /\ run[1] \in Async) \/ Lacks(run, Awaited) \/ run = <<"select", "fetch">>

\* what a failure runs: no step of it touches a copy, and it loads once at most
Recovers(run) ==
  /\ Script(run)
  /\ \A j \in DOMAIN run: run[j] = "free" \/ (run[j] = "reload" /\ Only(run, j, {"reload"}))

Whole(p) == p.filters = {} /\ p.first = p.states

\* a patch of the list says what the write before it did
Patches(n, p, moves, w, s) ==
  \/ s = "putNew"  /\ w = "add" /\ (n = "detections" \/ Whole(p))
  \/ s = "putRow"  /\ w = "touch"
  \/ s = "putRow"  /\ w = "save" /\ Whole(p)
  \/ s = "flipRow" /\ w = "save" /\ n = "detections" /\ \A m \in moves: m[2] = Flip(m[1])
  \/ s = "dropRow" /\ w = "remove"
  \/ s = "dropRow" /\ w = "save" /\ p.filters = {} /\ \A m \in moves: m[2] \notin p.first
  \/ s = "setAll"  /\ w = "saveAll" /\ n = "detections"

KeepsList(n, p, b) ==
  /\ Has(b.run, "leave") => ~Later(b.run, 1, Awaited)
  /\ \A j \in DOMAIN b.run: b.run[j] \in ListSteps =>
       /\ j > 1 /\ Only(b.run, j, ListSteps) /\ b.run[1] \in Writes /\ ~Later(b.run, 1, Awaited)
       /\ Has(b.run, "leave") \/ Patches(n, p, b.moves, b.run[1], b.run[j])
  /\ \A j \in DOMAIN b.run: b.run[j] \in Writes \ {"enable", "touch", "post", "swap"} =>
       Has(b.run, "reload") \/ Has(b.run, "leave") \/ ~Lacks(b.run, ListSteps)

\* the four pages with a panel that is to follow its row; the fifth is docs
WithPanel == {"changes", "requests", "missions", "detections"}

\* how a handler of these, after its write, brings the panel to the row's new state
Mends(p, b, w) ==
  LET by == {b.run[j]: j \in DOMAIN b.run} \cap (SelSteps \cup Fetches)
  IN  \/ w = "save"   /\ by \in {{"patchIf"}, {"closeIf"}, {"fetchIf"}}
      \/ w = "save"   /\ by = {"flipIf"} /\ b \in p.panel /\ Has(b.run, "flipRow") /\ \A m \in b.moves: m[2] = Flip(m[1])
      \/ w = "remove" /\ by = {"closeIf"}
      \/ w = "touch"  /\ by \in {{}, {"fetch"}}
      \/ w = "touch"  /\ by = {"putIf"} /\ ~Later(b.run, 1, Awaited)
      \/ w = "add"    /\ by \in {{}, {"selectNew"}, {"selectNew", "fetch"}}
      \/ w \in {"addMany", "saveAll", "enable", "post"} /\ by = {}

KeepsPanel(n, p, b) ==
  /\ n # "missions" => Lacks(b.run, Fetches)
  /\ \A j \in DOMAIN b.run: b.run[j] = "select" => j = 1
  /\ \A j \in DOMAIN b.run: b.run[j] \in SelSteps => Only(b.run, j, SelSteps)
  /\ n \notin WithPanel \cup {"docs"} => Lacks(b.run, SelSteps) /\ p.panel = {}
  /\ n \in WithPanel =>
       /\ \A j \in DOMAIN b.run: b.run[j] \in Writes => Mends(p, b, b.run[j])
       /\ Lacks(b.run, Writes) => \/ b.run = <<"select", "fetch">>
                                  \/ Lacks(b.run, Fetches \cup (SelSteps \ {"select", "close"}))
       /\ Has(b.run, "reload") /\ Lacks(b.run, Writes) => Lacks(b.run, SelSteps)

Disciplined(n, p, b) ==
  /\ Ordered(b.run) /\ Recovers(b.catch)
  /\ b.lock.name # "" => Has(b.run, "free") /\ Has(b.catch, "free")
  /\ ~Lacks(b.run, Writes \ {"addMany", "touch", "post", "remove"}) => \A m \in b.moves: m[2] \in p.states
  /\ Has(b.run, "addMany") => Switched \subseteq p.states
  /\ KeepsList(n, p, b) /\ KeepsPanel(n, p, b)

\* the buttons that are about no row create one or do without
Adds(run)    == 1 \in DOMAIN run /\ run[1] \in {"add", "addHere"}
Rowless(run) == Lacks(run, RowCalls \cup {"fetchIf", "edit"} \cup (SelSteps \ {"close"}))

\* a row is selected or edited from the list or the panel; a decision on one is made in the
\* list or on the panel, or in both on a page where the list never lags behind the panel
Disciplines(n, p) ==
  /\ \A b \in ButtonsOf(p): Disciplined(n, p, b)
  /\ \A b \in p.bar \cup p.form: Adds(b.run) \/ Rowless(b.run)
  /\ \A b \in p.bar \cup p.props \cup p.form \cup p.edit: Lacks(b.run, {"select", "edit", "save", "settle"})
  /\ \A b \in p.panel: Lacks(b.run, {"select"}) /\ (n = "missions" => Lacks(b.run, {"save", "settle"}))
  /\ \A b \in p.list: \A m \in b.moves: m[1] \in p.states
  /\ p.refilter \in {<<"reload">>, <<"debounce", "reload">>}
  /\ p.first \subseteq p.states /\ \A f \in p.filters: f \subseteq p.states
  /\ {None, Deleted} \cap p.states = {}

------------------------------------------------------------------------------
(* What is known of the state.                                             *)

Formed(k) ==
  k = [run |-> k.run, at |-> k.at, id |-> k.id, from |-> k.from, to |-> k.to, filter |-> k.filter, sel |-> k.sel,
       form |-> k.form, n |-> k.n, catch |-> k.catch, panel |-> k.panel, all |-> k.all, lock |-> k.lock,
       ans |-> k.ans, got |-> k.got]
FormedUi(u) ==
  u = [list |-> u.list, filter |-> u.filter, sel |-> u.sel, form |-> u.form, edit |-> u.edit,
       shown |-> u.shown, busy |-> u.busy, here |-> u.here]
IsList(list) == list = [i \in Ids |-> list[i]]
OpenRow(o) == o = None \/ (o.id \in Ids /\ o = Open(o.id, o.st))

\* a call runs the script of a button, or its catch, or loads
Loads(n, k) == k.run \in {<<"reload">>, Pages[n].refilter} /\ k.catch = <<>> /\ ~k.panel
RunsOf(n, k, b) ==
  /\ k.run \in {Begun(b.run, k), b.catch} /\ k.catch = b.catch
  /\ (\E m \in b.moves: k.from = m[1] /\ k.to = m[2]) /\ (k.panel => b \in Pages[n].panel)
Adding(k) == Awaits(k) \in {"add", "addHere"} /\ k.ans # "ok"

CallKnown(n, k) ==
  /\ Formed(k) /\ k.at \in DOMAIN k.run /\ Awaits(k) \in Async /\ k.ans \in {"none", "ok", "error"}
  /\ Loads(n, k) \/ \E b \in ButtonsOf(Pages[n]): RunsOf(n, k, b)
  /\ k.id \in Ids \/ Adding(k) \/ Rowless(k.run)
  /\ Awaits(k) = "reload" /\ k.ans = "ok" => IsList(k.got)
  /\ Awaits(k) = "debounce" => k.ans = "none"

Known ==
  /\ page \in DOMAIN Pages /\ rows \in [Ids -> This.states \cup {None, Deleted}]
  /\ FormedUi(ui) /\ IsList(ui.list) /\ ui.filter \in {This.first} \cup This.filters
  /\ OpenRow(ui.sel) /\ OpenRow(ui.edit)
  /\ call = [c \in Calls |-> call[c]] /\ \A c \in Calls: call[c] = Idle \/ CallKnown(page, call[c])
  /\ hist \in [events: Nat, stale: BOOLEAN, doubt: BOOLEAN, lag: SUBSET Ids]

\* a lock is in the hands of a call that will give it back, however it ends
LocksHeld ==
  \A l \in ui.busy: \E c \in Calls:
    /\ call[c] # Idle /\ call[c].lock = l
    /\ Later(call[c].run, call[c].at, {"free"}) /\ Has(call[c].catch, "free")

\* calls beside each other make the copies doubtful
Sole == ~(hist.stale /\ hist.doubt) => \A c, d \in Calls: call[c] # Idle /\ call[d] # Idle => c = d

\* the list shows the table for the rows it was told of, or will once the answer under way
\* is applied
Told == Ids \ hist.lag
Shows(n, list, table, filter, told) ==
  \A i \in told:
    /\ list[i] # None => list[i] = table[i] /\ table[i] \in Pages[n].states
    /\ n # "detections" \/ filter = Pages[n].states => (table[i] \in filter <=> list[i] # None)
WillShow(n, list, table, filter, told, k) ==
  \/ Later(k.run, k.at, {"reload", "leave"})
  \/ /\ \A j \in DOMAIN k.run: j > k.at /\ k.run[j] \in ListSteps =>
          Shows(n, ListAfter(k.run[j], list, k), table, filter, told)
     /\ ~Later(k.run, k.at, ListSteps) => Shows(n, list, table, filter, told)
ListHeld(n, list, table, filter, told, k) ==
  IF Awaits(k) \in {"reload", "debounce"}
  THEN k.ans # "error" /\ (k.ans = "ok" => k.got = [i \in Ids |-> IF table[i] \in filter THEN table[i] ELSE None])
  ELSE IF k.ans = "ok" THEN WillShow(n, list, table, filter, told, k)
  ELSE Shows(n, list, table, filter, told) /\ (Awaits(k) = "saveAll" => k.all = {i \in Ids: list[i] # None})
ListInv ==
  ~hist.stale =>
    /\ \A c \in Calls: call[c] # Idle => call[c].filter = ui.filter
    /\ ui.here => /\ Quiet => Shows(page, ui.list, rows, ui.filter, Told)
                  /\ \A c \in Calls: call[c] # Idle => ListHeld(page, ui.list, rows, ui.filter, Told, call[c])

\* the panel shows its row, or will
Follows(sel, table) == sel # None => table[sel.id] = sel.st /\ sel.st \notin {None, Deleted}
WillFollow(sel, table, k) ==
  IF Later(k.run, k.at, {"fetch"}) THEN table[k.id] \notin {None, Deleted}
  ELSE /\ \A j \in DOMAIN k.run: j > k.at /\ k.run[j] \in SelSteps => Follows(SelAfter(k.run[j], sel, k), table)
       /\ ~Later(k.run, k.at, SelSteps) => Follows(sel, table)
PanelHeld(sel, table, k) ==
  IF Awaits(k) = "fetch" THEN k.ans # "error" /\ table[k.id] \notin {None, Deleted} /\ (k.ans = "ok" => k.got = table[k.id])
  ELSE IF k.ans = "ok" \/ Awaits(k) \in {"reload", "debounce"} THEN WillFollow(sel, table, k)
  ELSE Follows(sel, table) /\ k.sel = sel
PanelInv ==
  /\ page \notin WithPanel \cup {"docs"} => ui.sel = None
  /\ page # "missions" /\ hist.stale => hist.doubt
  /\ page \in WithPanel /\ ~hist.doubt =>
       /\ Quiet => Follows(ui.sel, rows)
       /\ \A c \in Calls: call[c] # Idle => PanelHeld(ui.sel, rows, call[c])

\* what a decision was made on is still so, of a row the list was told of, or the panel
Deciding(k) == k # Idle /\ Awaits(k) \in {"save", "settle"} /\ k.ans = "none"
OfList(k)   == ~hist.stale /\ k.id \notin hist.lag /\ (k.panel => Has(k.run, "flipRow"))
OfPanel(k)  == ~hist.doubt /\ (k.panel \/ (page \in WithPanel /\ Has(k.run, "flipIf") /\ Same(k)))
Decided ==
  \A c \in Calls:
    Deciding(call[c]) /\ ~(page = "docs" /\ call[c].panel) /\ (OfList(call[c]) \/ OfPanel(call[c]))
    => rows[call[c].id] = call[c].from

IInv == Known /\ LocksHeld /\ Sole /\ ListInv /\ PanelInv /\ Decided
==============================================================================
