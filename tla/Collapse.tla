------------------------------- MODULE Collapse -------------------------------
(***************************************************************************)
(* The collapse of bootstrap.js: the panels of an accordion, each with a   *)
(* trigger.  The object of a panel is made on its first use and kept in    *)
(* the data of the panel: none, or an object that is idle or transitioning *)
(* and that is linked to the parent or not.  Opening a panel through an    *)
(* object that is linked closes the panels that are open.  A callback that *)
(* waits on a panel is of the object the panel has (`own`), or of one that *)
(* has been dropped since.                                                 *)
(***************************************************************************)
EXTENDS Integers, Sequences, FiniteSets

CONSTANTS Panels,     \* number of panels, in the order of the page
          Animate,    \* transitions are supported, or not
          MaxWaits    \* bound: callbacks that wait on a panel

ASSUME CollapseAssumption ==
    Panels \in Nat \ {0} /\ Animate \subseteq BOOLEAN /\ MaxWaits \in Nat \ {0}

VARIABLES animate, accordion

collapseVars == <<animate, accordion>>

PanelIds == 1..Panels

\* The transition of a panel: its callback, and whether its object is the panel's.
Wait == [callback : {"show", "hide"}, own : BOOLEAN]

Panel == [class : SUBSET {"collapse", "collapsing", "in"},
          data : {"none", "idle", "transitioning"}, linked : BOOLEAN,
          waits : Seq(Wait), collapsed : BOOLEAN]

IsOpen(r) == "in" \in r.class

Moves(r) == r.waits # << >>

\* Mutant of Actives: a panel that moves is not among them.
OpenOnly(q) == {p \in PanelIds : IsOpen(q.panels[p])}

\* children('.in, .collapsing')
Actives(q) == {p \in PanelIds : q.panels[p].class \cap {"in", "collapsing"} # {}}

FirstOf(S) == CHOOSE p \in S : \A o \in S : p <= o

\* A trigger is as the class of its panel.
Read(r) == [r EXCEPT !.collapsed = ~IsOpen(r)]

\* The constructor reads the class of each panel of the accordion.  History:
\* it reads while one of them moves.
Constructed(q, p) ==
    [q EXCEPT !.panels = [o \in PanelIds |-> IF o = p THEN [Read(@[o]) EXCEPT !.linked = TRUE]
                                             ELSE Read(@[o])],
              !.misread = @ \/ \E o \in PanelIds : Moves(q.panels[o])]

-------------------------------------------------------------------------------
\* The callbacks of show and hide; in any order they come to the same.
Complete(r, waits) ==
    LET in == IF \E w \in waits : w.callback = "show" THEN {"in"} ELSE {}
    IN [r EXCEPT !.class = (@ \ {"collapsing"}) \cup {"collapse"} \cup in,
                 !.data = IF \E w \in waits : w.own THEN "idle" ELSE @]

\* transitioning = 1, until the transition ends; without transitions at once.
Begin(r, callback, own) ==
    LET wait == [callback |-> callback, own |-> own]
    IN IF animate THEN [r EXCEPT !.data = IF own THEN "transitioning" ELSE @,
                                 !.waits = Append(@, wait)]
       ELSE Complete(r, {wait})

\* hide
CollapseHide(r) ==
    IF r.data = "transitioning" \/ ~IsOpen(r) THEN r
    ELSE Begin([r EXCEPT !.class = (@ \cup {"collapsing"}) \ {"collapse", "in"},
                         !.collapsed = TRUE], "hide", TRUE)

\* Plugin.call(actives, 'hide'): a panel without an object gets one, which
\* knows no parent and reads its own panel.
HideOne(r) ==
    CollapseHide(IF r.data = "none" THEN [Read(r) EXCEPT !.data = "idle", !.linked = FALSE]
                 ELSE r)

HideEach(q, S) ==
    [q EXCEPT !.panels = [p \in PanelIds |-> IF p \in S THEN HideOne(@[p]) ELSE @[p]],
              !.misread = @ \/ \E p \in S : q.panels[p].data = "none" /\ Moves(q.panels[p])]

\* actives.data('bs.collapse', null): an object that moves is dropped too.
DropOne(r) ==
    [r EXCEPT !.data = "none",
              !.waits = [i \in DOMAIN @ |-> [@[i] EXCEPT !.own = FALSE]]]

DropData(q, S) ==
    [q EXCEPT !.panels = [p \in PanelIds |-> IF p \in S THEN DropOne(@[p]) ELSE @[p]]]

\* show, of the object the panel has or, still in its constructor, will have.
\* Only the first of the actives is asked whether it moves.  History: the show
\* goes on although the object of one that moves has been dropped.
Dropped(r) == \E i \in DOMAIN r.waits : ~r.waits[i].own

ShowPanel(r, own) ==
    Begin([r EXCEPT !.class = (@ \ {"collapse"}) \cup {"collapsing"}, !.collapsed = FALSE],
          "show", own)

CollapseShow(q, p, constructing) ==
    LET actives == IF q.panels[p].linked THEN Actives(q) ELSE {}
        firstData == q.panels[FirstOf(actives)].data
        drops == actives # {} /\ firstData = "none"
        hidden == HideEach(q, actives)
        left == IF drops THEN DropData(hidden, actives) ELSE hidden
    IN IF q.panels[p].data = "transitioning" \/ IsOpen(q.panels[p]) THEN q
       ELSE IF actives # {} /\ firstData = "transitioning" THEN q
       ELSE [left EXCEPT
               !.panels[p] = ShowPanel(@, constructing \/ ~(drops /\ p \in actives)),
               !.lost = @ \/ ~q.panels[p].linked \/
                        \E o \in PanelIds : Dropped(q.panels[o])]

Toggle(q, p, constructing) ==
    IF IsOpen(q.panels[p]) THEN [q EXCEPT !.panels[p] = CollapseHide(@)]
    ELSE CollapseShow(q, p, constructing)

\* A new object with options.toggle, stored when its constructor is done.
Stored(r) == [r EXCEPT !.data = IF @ = "none" THEN "idle" ELSE @, !.linked = TRUE]

ConstructToggled(q, p) ==
    [Toggle(Constructed(q, p), p, TRUE) EXCEPT !.panels[p] = Stored(@)]

-------------------------------------------------------------------------------
Folds(q) == accordion' = q /\ UNCHANGED animate

MayMove(p) == Len(accordion.panels[p].waits) < MaxWaits

HasObject(p) == accordion.panels[p].data # "none"

\* A click on a trigger.
ClickTrigger(p) ==
    /\ MayMove(p)
    /\ Folds(IF HasObject(p) THEN Toggle(accordion, p, FALSE)
             ELSE ConstructToggled(accordion, p))

\* The page initialises a panel: with options.parent and without a toggle.
Initialise(p) ==
    /\ ~HasObject(p)
    /\ Folds([Constructed(accordion, p) EXCEPT !.panels[p].data = "idle"])

\* Calls for a panel that is initialised.
CallPanelShow(p) == /\ HasObject(p) /\ MayMove(p)
                    /\ Folds(CollapseShow(accordion, p, FALSE))

CallPanelHide(p) == /\ HasObject(p)
                    /\ Folds([accordion EXCEPT !.panels[p] = CollapseHide(@)])

\* The transition of a panel ends, or a timer is up.
Ended(r) == Complete([r EXCEPT !.waits = << >>], {r.waits[i] : i \in DOMAIN r.waits})

PanelEnd(p) == /\ Moves(accordion.panels[p])
               /\ Folds([accordion EXCEPT !.panels[p] = Ended(@)])

\* The page comes with one panel open, or none.
CollapseInit ==
    /\ animate \in Animate
    /\ \E open \in {{}} \cup {{p} : p \in PanelIds} :
         accordion = [panels |-> [p \in PanelIds |->
                        [class |-> IF p \in open THEN {"collapse", "in"} ELSE {"collapse"},
                         data |-> "none", linked |-> FALSE, waits |-> << >>,
                         collapsed |-> p \notin open]],
                      misread |-> FALSE, lost |-> FALSE]

CollapseNext == \E p \in PanelIds : \/ ClickTrigger(p) \/ Initialise(p)
                                    \/ CallPanelShow(p) \/ CallPanelHide(p) \/ PanelEnd(p)

CollapseSpec == CollapseInit /\ [][CollapseNext]_collapseVars

-------------------------------------------------------------------------------
CollapseTypeOK ==
    /\ animate \in Animate
    /\ accordion \in [panels : [PanelIds -> Panel], misread : BOOLEAN, lost : BOOLEAN]

\* No two panels are open, or opening, in an accordion ...
Opens(r) == IsOpen(r) \/ \E i \in DOMAIN r.waits : r.waits[i].callback = "show"

OneOpen ==
    \A p, o \in PanelIds : Opens(accordion.panels[p]) /\ Opens(accordion.panels[o]) => p = o

\* ... and a panel at rest is open or closed, as its trigger says.
TriggerAgrees == \A p \in PanelIds :
    LET r == accordion.panels[p]
    IN ~Moves(r) => /\ r.class \in {{"collapse"}, {"collapse", "in"}}
                    /\ r.collapsed = ~IsOpen(r)

\* Whatever the clicks while panels move; unless the line that drops the data
\* of a page's first open panel (590) has made an object forget that it moves
\* and a panel is opened meanwhile, or the constructor (676) has read the class
\* of a panel that moves.
CollapseSettles == ~accordion.lost => OneOpen /\ (accordion.misread \/ TriggerAgrees)
===============================================================================
