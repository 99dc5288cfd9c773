--------------------------------- MODULE Forms ---------------------------------
(* Widgets that show a status and let it be changed: EditableSelectCell in a row of
   the recommendations table (or, for roles, of RoleTable) and StatusTransitionControl
   on the page of one recommendation.  Both show the choice at once, as if it had been
   saved, take it back if the action is refused, and keep what they show in a state of
   their own, next to the value the page was rendered with.  That value changes with
   each new render: after an action, which revalidates the page, after a refresh, and,
   for a cell, when a filter or another page puts another recommendation into its row,
   as the rows of the table are keyed by position.

   React holds back the renders a transition causes until the actions under way in
   transitions are done, so a page is never rendered anew under a pending choice. *)
EXTENDS Naturals, FiniteSets

CONSTANTS
    Item,           \* recommendations
    FirstItem,      \* the one the page shows at first
    Status,
    FirstStatus,
    MaxElsewhere    \* bound: changes made elsewhere

ASSUME ItemAssumption == FirstItem \in Item /\ FirstStatus \in Status
ASSUME ElsewhereAssumption == MaxElsewhere \in Nat

VARIABLES
    latest,     \* the status each recommendation has
    elsewhere,  \* counts changes made elsewhere
    kind,       \* "cell" or "control": the widget on the page
    widget      \* its state

formVars == <<latest, elsewhere, kind, widget>>

\* What the widget may be bound to by the next render.
RowItems == IF kind = "cell" THEN Item ELSE {widget.item}

\* prop: what the page was rendered with; synced: lastSyncedValue; shown: optimistic;
\* previous: what to go back to, and next, payload: the recommendation and the value that
\* come back, under an action.  Two ghosts: saved, what was last saved through the widget
\* for its recommendation, or news of it; shadowed, that it was last bound to another
\* recommendation by a value that made it keep what it showed of the one before.
Mounted(i, v) ==
    [item |-> i, prop |-> v, synced |-> v, shown |-> v, editing |-> FALSE, phase |-> "rest",
     previous |-> v, next |-> i, payload |-> v, saved |-> v, shadowed |-> FALSE]

FormsTypeOK ==
    /\ latest \in [Item -> Status]
    /\ elsewhere \in 0..MaxElsewhere
    /\ kind \in {"cell", "control"}
    /\ widget \in [item : Item, prop : Status, synced : Status, shown : Status,
                   editing : BOOLEAN,
                   phase : {"rest", "sent", "done", "rendered", "refused"},
                   previous : Status, next : Item, payload : Status,
                   saved : Status, shadowed : BOOLEAN]

FormsInit ==
    /\ latest = [i \in Item |-> FirstStatus]
    /\ elsewhere = 0
    /\ kind \in {"cell", "control"}
    /\ widget = Mounted(FirstItem, FirstStatus)
-------------------------------------------------------------------------------
\* Faulty variant: the cell does not look at the value it is rendered with again.
RenderedOnce(f, i, v) == [f EXCEPT !.item = i, !.prop = v]

\* f rendered with the value v of item i: only the cell compares it with the last.
Rendered(f, i, v) ==
    IF kind = "cell" /\ v # f.synced
    THEN [f EXCEPT !.item = i, !.prop = v, !.synced = v, !.shown = v]
    ELSE [f EXCEPT !.item = i, !.prop = v]

\* The new rendering of f: another recommendation, or another value than the last, is news.
Again(f, i, v) ==
    [Rendered(f, i, v) EXCEPT
        !.saved = IF i # f.item \/ (kind = "cell" /\ v # f.prop) THEN v ELSE @,
        !.shadowed = (v = f.synced /\ (f.shadowed \/ (i # f.item /\ v # f.shown)))]

\* f after the action: what the action needed is forgotten.
AtRest(f) ==
    [f EXCEPT !.phase = "rest", !.previous = f.shown, !.next = f.item, !.payload = f.shown]

Becomes(f) == widget' = f /\ UNCHANGED kind

\* Another user, another widget or a new extraction changes a status.
ChangeElsewhere ==
    /\ elsewhere < MaxElsewhere
    /\ elsewhere' = elsewhere + 1
    /\ \E i \in Item : \E v \in Status \ {latest[i]} : latest' = [latest EXCEPT ![i] = v]
    /\ UNCHANGED <<kind, widget>>

\* The page is fetched again; the table may have another recommendation in the row.
Refresh ==
    /\ widget.phase = "rest"
    /\ \E i \in RowItems : Becomes(AtRest(Again(widget, i, latest[i])))
    /\ UNCHANGED <<latest, elsewhere>>

\* The page is loaded from scratch.
Reload ==
    /\ Becomes(Mounted(FirstItem, latest[FirstItem]))
    /\ UNCHANGED <<latest, elsewhere>>

\* A click on the cell replaces it by its options.
Edit ==
    /\ kind = "cell"
    /\ ~widget.editing
    /\ Becomes([widget EXCEPT !.editing = TRUE])
    /\ UNCHANGED <<latest, elsewhere>>

\* onChange; the options are disabled while a choice is pending.
Choose ==
    /\ widget.phase = "rest"
    /\ kind = "cell" => widget.editing
    /\ \E v \in Status :
          Becomes(IF v = widget.shown
                  THEN [widget EXCEPT !.editing = FALSE]
                  ELSE [widget EXCEPT !.editing = FALSE, !.previous = widget.shown,
                                      !.shown = v, !.phase = "sent"])
    /\ UNCHANGED <<latest, elsewhere>>

\* The action: the status is appended ...
Save ==
    /\ widget.phase = "sent"
    /\ latest' = [latest EXCEPT ![widget.item] = widget.shown]
    /\ Becomes([widget EXCEPT !.phase = "done", !.saved = widget.shown, !.shadowed = FALSE])
    /\ UNCHANGED elsewhere

\* ... or it is refused: the recommendation is gone, the user may not, the last admin.
Refuse ==
    /\ widget.phase = "sent"
    /\ Becomes([widget EXCEPT !.phase = "refused"])
    /\ UNCHANGED <<latest, elsewhere>>

\* revalidatePath: the answer carries the page rendered anew, for the table perhaps
\* with another row in this place.
Revalidate ==
    /\ widget.phase = "done"
    /\ \E i \in RowItems :
          Becomes([widget EXCEPT !.phase = "rendered", !.next = i, !.payload = latest[i]])
    /\ UNCHANGED <<latest, elsewhere>>

Accepted ==
    /\ widget.phase = "rendered"
    /\ Becomes(AtRest(Again(widget, widget.next, widget.payload)))
    /\ UNCHANGED <<latest, elsewhere>>

\* Refused: back to what was shown before.  Nothing is rendered anew.  (The cell's
\* "Save failed" is part of its options, which are closed by now.)
Refused ==
    /\ widget.phase = "refused"
    /\ Becomes(AtRest([widget EXCEPT !.shown = widget.previous]))
    /\ UNCHANGED <<latest, elsewhere>>

FormsNext ==
    \/ ChangeElsewhere \/ Refresh \/ Reload
    \/ Edit \/ Choose \/ Save \/ Refuse \/ Revalidate \/ Accepted \/ Refused

FormsSpec == FormsInit /\ [][FormsNext]_formVars
-------------------------------------------------------------------------------
\* Through refusals, refreshes and rows that are swapped, a widget at rest shows no
\* choice that was not saved for its recommendation: it shows what was saved through it
\* last, or, a cell, what it was rendered with.  Excepted is a cell whose row was swapped
\* while what it shows differs from what it is synced to, by a value equal to the latter.
ShownIsRenderedOrSaved ==
    widget.phase = "rest" =>
        \/ widget.shown = widget.saved
        \/ kind = "cell" /\ (widget.shown = widget.prop \/ widget.shadowed)

\* The same without the exception: "re-sync to the incoming value when (...) a filter
\* change swaps the row bound to this cell instance".
CellShowsItsRow ==
    kind = "cell" /\ widget.phase = "rest" => widget.shown = widget.prop
===============================================================================
