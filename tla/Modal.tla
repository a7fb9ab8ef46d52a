-------------------------------- MODULE Modal --------------------------------
(***************************************************************************)
(* The modal of bootstrap.js (bootstrap/js/modal.js is the same code): a   *)
(* dialog, its backdrops, and what it changes in the body of the page.     *)
(* show() and hide() end in callbacks of transitions.  A callback waits on *)
(* an element and runs, with all that wait there, when a transition of the *)
(* element ends or when its own timer (emulateTransitionEnd) is up.  The   *)
(* callbacks of one event are `ending`: they run in their order, one by    *)
(* one, and nothing comes between them.                                    *)
(***************************************************************************)
EXTENDS Integers, Sequences, FiniteSets

CONSTANTS ModalOptions,      \* what the page configures
          DialogDuration,    \* TRANSITION_DURATION, in ticks of the model
          BackdropDuration,  \* BACKDROP_TRANSITION_DURATION
          MaxBackdrops,      \* bound: backdrops and widths of padding when show is called
          MaxPending         \* bound: callbacks that wait on an element then

ASSUME ModalAssumption ==
    /\ BackdropDuration \in Nat \ {0}
    /\ DialogDuration \in Nat /\ DialogDuration > BackdropDuration
    /\ MaxBackdrops \in Nat \ {0} /\ MaxPending \in Nat
    /\ \A o \in ModalOptions : /\ o.backdrop \in {"true", "static", "false"}
                               /\ o.fade \in BOOLEAN /\ o.keyboard \in BOOLEAN
                               /\ o.scrolls \in BOOLEAN

VARIABLES modalOptions, modal

modalVars == <<modalOptions, modal>>

\* The elements of the page: the modal, its dialog, and numbered backdrops.
Element == -2
Dialog == -1
NoBackdrop == 0
BackdropIds == 1..(MaxBackdrops + 1)
Elements == {Element, Dialog} \cup BackdropIds

\* one('bsTransitionEnd', callback).emulateTransitionEnd(duration)
Await(q, element, callback, duration) ==
    [q EXCEPT !.pending[element] = Append(@, [callback |-> callback, left |-> duration])]

NothingWaits(q) == \A e \in Elements : q.pending[e] = << >>

-------------------------------------------------------------------------------
\* setScrollbar, for a body that overflows unless it is open already, and
\* resetScrollbar.
SetScrollbar(q) ==
    [q EXCEPT !.originalBodyPad = q.pad,
              !.pad = IF modalOptions.scrolls /\ ~q.bodyOpen THEN @ + 1 ELSE @]

ResetScrollbar(q) == [q EXCEPT !.pad = q.originalBodyPad]

\* escape and resize, as isShown says.
BindEscape(q) ==
    [q EXCEPT !.handlers = IF ~q.isShown THEN @ \ {"keydown"}
                           ELSE IF modalOptions.keyboard THEN @ \cup {"keydown"} ELSE @]

BindResize(q) ==
    [q EXCEPT !.handlers = IF q.isShown THEN @ \cup {"resize"} ELSE @ \ {"resize"}]

EnforceFocus(q) == [q EXCEPT !.handlers = @ \cup {"focusin"}]

\* The callback of show, and of hideModal.
RunShow(q) ==
    LET shown == EnforceFocus([q EXCEPT !.displayed = TRUE, !.in = TRUE])
    IN IF modalOptions.fade THEN Await(shown, Dialog, "shown", DialogDuration)
       ELSE shown

RunHidden(q) == ResetScrollbar([q EXCEPT !.bodyOpen = FALSE])

Run(q, callback) == IF callback = "show" THEN RunShow(q) ELSE RunHidden(q)

\* Mutant of RemoveBackdrop: the backdrop is forgotten, its element stays.
ForgetBackdrop(q) == [q EXCEPT !.backdrop = NoBackdrop]

\* removeBackdrop: the element goes, and what waits on it.
RemoveBackdrop(q) ==
    [q EXCEPT !.backdrops = @ \ {q.backdrop}, !.backdrop = NoBackdrop,
              !.pending = [e \in Elements |-> IF e = q.backdrop THEN << >> ELSE @[e]]]

\* backdrop(callback): a new one, an old one taken away, or none.
Backdrop(q, callback) ==
    LET id == CHOOSE i \in BackdropIds : i \notin q.backdrops
        added == [q EXCEPT !.backdrop = id, !.backdrops = @ \cup {id},
                           !.handlers = @ \cup {"dismiss"}]
    IN IF q.isShown /\ modalOptions.backdrop # "false"
       THEN IF modalOptions.fade THEN Await(added, id, callback, BackdropDuration)
            ELSE Run(added, callback)
       ELSE IF ~q.isShown /\ q.backdrop # NoBackdrop
       THEN IF modalOptions.fade THEN Await(q, q.backdrop, "remove", BackdropDuration)
            ELSE RunHidden(RemoveBackdrop(q))
       ELSE Run(q, callback)

HideModal(q) == Backdrop([q EXCEPT !.displayed = FALSE], "hidden")

\* show.  History: a show while the hide before it is in its transitions.
ModalShow(q) ==
    LET open == [SetScrollbar(q) EXCEPT !.isShown = TRUE, !.bodyOpen = TRUE]
    IN IF q.isShown THEN q
       ELSE Backdrop([BindResize(BindEscape(open)) EXCEPT
                        !.handlers = @ \cup {"dismiss", "mousedown"},
                        !.hurried = @ \/ ~NothingWaits(q)], "show")

\* hide
ModalHide(q) ==
    LET hiding == [BindResize(BindEscape([q EXCEPT !.isShown = FALSE])) EXCEPT
                     !.in = FALSE,
                     !.handlers = @ \ {"focusin", "dismiss", "mouseup", "mousedown"}]
    IN IF ~q.isShown THEN q
       ELSE IF modalOptions.fade
       THEN Await(hiding, Element, "hideModal", DialogDuration)
       ELSE HideModal(hiding)

\* A transition of an element has ended: what waits there, and what it does.
TransitionEnd(q, element) ==
    [q EXCEPT !.ending = q.pending[element], !.pending[element] = << >>]

ModalFire(q, callback) ==
    CASE callback = "hideModal" -> HideModal(q)
      [] callback = "remove"    -> RunHidden(RemoveBackdrop(q))
      [] callback = "shown"     -> q
      [] callback \in {"show", "hidden"} -> Run(q, callback)

-------------------------------------------------------------------------------
Changes(q) == modal.ending = << >> /\ modal' = q /\ UNCHANGED modalOptions

\* Calls of the page, and clicks on what toggles the modal.
CallShow == /\ Cardinality(modal.backdrops) + Len(modal.pending[Element]) <= MaxBackdrops
            /\ modal.pad < MaxBackdrops
            /\ \A e \in Elements : Len(modal.pending[e]) <= MaxPending
            /\ Changes(ModalShow(modal))

CallHide == Changes(ModalHide(modal))

CallToggle == IF modal.isShown THEN CallHide ELSE CallShow

\* What the user does to the dialog: the handlers are those that are bound.
ClickDismiss == /\ modal.displayed /\ "dismiss" \in modal.handlers
                /\ Changes(ModalHide(modal))

Escape == /\ modal.displayed /\ "keydown" \in modal.handlers
          /\ Changes(ModalHide(modal))

MouseDown == /\ modal.displayed /\ "mousedown" \in modal.handlers
             /\ Changes([modal EXCEPT !.handlers = @ \cup {"mouseup"}])

MouseUp(outside) ==
    /\ modal.displayed /\ "mouseup" \in modal.handlers
    /\ Changes([modal EXCEPT !.handlers = @ \ {"mouseup"},
                             !.ignoreBackdropClick = @ \/ outside])

\* A click beside the dialog; not for a mouse button pressed in it.
ClickBackdrop ==
    /\ modal.displayed /\ "dismiss" \in modal.handlers /\ modalOptions.backdrop # "false"
    /\ Changes(IF modal.ignoreBackdropClick
               THEN [modal EXCEPT !.ignoreBackdropClick = FALSE]
               ELSE IF modalOptions.backdrop = "static" THEN modal
               ELSE ModalHide(modal))

\* The transition itself ends, of an element that is on the screen ...
NativeEnd == \E e \in Elements :
    /\ modal.pending[e] # << >>
    /\ e \in {Element, Dialog} => modal.displayed
    /\ Changes(TransitionEnd(modal, e))

\* ... or the timer of a callback is up.
TimerEnd == \E e \in Elements : \E i \in DOMAIN modal.pending[e] :
    /\ modal.pending[e][i].left = 0
    /\ Changes(TransitionEnd(modal, e))

RunCallback == /\ modal.ending # << >>
               /\ modal' = ModalFire([modal EXCEPT !.ending = Tail(@)],
                                     Head(modal.ending).callback)
               /\ UNCHANGED modalOptions

\* A tick takes one from what is left of each.
Ticked(s) == [i \in DOMAIN s |-> [s[i] EXCEPT !.left = @ - 1]]

TickOf(q) == [q EXCEPT !.pending = [e \in Elements |-> Ticked(q.pending[e])]]

Tick == /\ ~NothingWaits(modal)
        /\ \A e \in Elements : \A i \in DOMAIN modal.pending[e] : modal.pending[e][i].left > 0
        /\ Changes(TickOf(modal))

ModalInit ==
    /\ modalOptions \in ModalOptions
    /\ modal = [isShown |-> FALSE, displayed |-> FALSE, in |-> FALSE, bodyOpen |-> FALSE,
                pad |-> 0, originalBodyPad |-> 0, backdrop |-> NoBackdrop,
                backdrops |-> {}, handlers |-> {}, ignoreBackdropClick |-> FALSE,
                pending |-> [e \in Elements |-> << >>], ending |-> << >>, hurried |-> FALSE]

ModalNext == \/ CallShow \/ CallHide \/ CallToggle
             \/ ClickDismiss \/ Escape \/ ClickBackdrop
             \/ MouseDown \/ (\E outside \in BOOLEAN : MouseUp(outside))
             \/ NativeEnd \/ TimerEnd \/ RunCallback \/ Tick

ModalSpec == ModalInit /\ [][ModalNext]_modalVars

-------------------------------------------------------------------------------
Callback == [callback : {"show", "shown", "hideModal", "hidden", "remove"},
             left : 0..DialogDuration]

Handlers == {"dismiss", "mousedown", "mouseup", "keydown", "resize", "focusin"}

ModalRecord ==
    [isShown : BOOLEAN, displayed : BOOLEAN, in : BOOLEAN, bodyOpen : BOOLEAN,
     pad : 0..MaxBackdrops, originalBodyPad : 0..MaxBackdrops,
     backdrop : {NoBackdrop} \cup BackdropIds, backdrops : SUBSET BackdropIds,
     handlers : SUBSET Handlers, ignoreBackdropClick : BOOLEAN,
     pending : [Elements -> Seq(Callback)], ending : Seq(Callback), hurried : BOOLEAN]

ModalTypeOK == modalOptions \in ModalOptions /\ modal \in ModalRecord

\* When nothing is in transition the page is as isShown says: the dialog, the
\* class and the padding of the body, one backdrop or none; and a hidden modal
\* has no handler left, but the one for the focus that a late callback of show
\* binds again (modal.js:142).  Whatever hides it, a hide in the transitions of
\* its show included; not after a show in the transitions of a hide, which
\* leaves a backdrop behind and hides a modal that is shown (modal.js:59, 193).
ModalSettles ==
    NothingWaits(modal) /\ modal.ending = << >> /\ ~modal.hurried =>
        /\ modal.displayed = modal.isShown /\ modal.bodyOpen = modal.isShown
        /\ modal.backdrops = IF modal.isShown /\ modalOptions.backdrop # "false"
                             THEN {modal.backdrop} \ {NoBackdrop} ELSE {}
        /\ modal.isShown /\ modalOptions.backdrop # "false" => modal.backdrop # NoBackdrop
        /\ modal.pad = IF modal.isShown /\ modalOptions.scrolls THEN 1 ELSE 0
        /\ ~modal.isShown => modal.handlers \subseteq {"focusin"}
===============================================================================
