------------------------------- MODULE Tooltip -------------------------------
(***************************************************************************)
(* The tooltip of bootstrap.js: enter and leave, from hover and focus, each *)
(* with a delay or none, and a tip that fades in and out or does neither.  *)
(* Callbacks wait on the tip; when a transition of it ends they are the    *)
(* `ending` ones, that run one by one with nothing between them.           *)
(***************************************************************************)
EXTENDS Integers, Sequences

CONSTANTS TipOptions,     \* what the page configures
          MaxCallbacks    \* bound: callbacks that wait on the tip

ASSUME TipAssumption ==
    /\ MaxCallbacks \in Nat \ {0}
    /\ \A o \in TipOptions : /\ o.animation \in BOOLEAN
                             /\ o.delayShow \in BOOLEAN /\ o.delayHide \in BOOLEAN

VARIABLES tipOptions, tip

tipVars == <<tipOptions, tip>>

NoState == "null"    \* hoverState is null, "in" or "out"
NoTimer == "none"    \* what self.timeout will do: nothing, "show" or "hide"

Waits(q, callback) == [q EXCEPT !.callbacks = Append(@, callback)]

\* detach, in the callback of hide.
Hidden(q) == IF q.hoverState # "in" THEN [q EXCEPT !.attached = FALSE] ELSE q

\* The callback of destroy takes the handlers away.  History: `abandoned` says
\* that the user was there when it did.
Destroyed(q) == IF q.hoverState = "in" THEN [q EXCEPT !.made = FALSE, !.abandoned = TRUE]
                ELSE [q EXCEPT !.made = FALSE]

TipDone(q, callback) == IF callback = "destroyed" THEN Destroyed(Hidden(q)) ELSE Hidden(q)

\* hide: a tip that has never been shown has no class to fade.
TipHide(q, callback) ==
    LET out == [q EXCEPT !.in = FALSE]
        done == IF q.fade THEN Waits(out, callback) ELSE TipDone(out, callback)
    IN [done EXCEPT !.hoverState = NoState]

\* leave
TipLeave(q) ==
    LET out == [q EXCEPT !.timer = NoTimer, !.hoverState = "out"]
    IN IF tipOptions.delayHide THEN [out EXCEPT !.timer = "hide"]
       ELSE TipHide(out, "hidden")

\* Mutant of Shown: one who has left meanwhile is forgotten.
ShownForgets(q) == [q EXCEPT !.hoverState = NoState]

\* The callback of show.
Shown(q) ==
    LET left == [q EXCEPT !.hoverState = NoState]
    IN IF q.hoverState = "out" THEN TipLeave(left) ELSE left

\* setContent takes the classes of an earlier show away; applyPlacement shows.
SetContent(q) == [q EXCEPT !.in = FALSE, !.fade = FALSE]

ApplyPlacement(q) == [q EXCEPT !.in = TRUE]

\* show: the tip is put in the page and placed.
TipShow(q) ==
    LET fade == tipOptions.animation
        placed == ApplyPlacement([SetContent(q) EXCEPT !.attached = TRUE, !.fade = fade])
    IN IF ~q.enabled THEN q
       ELSE IF fade THEN Waits(placed, "shown") ELSE Shown(placed)

\* enter: for a tip in the page it only notes that the user is there.
TipEnter(q) ==
    LET in == [q EXCEPT !.timer = NoTimer, !.hoverState = "in"]
    IN IF q.attached THEN [q EXCEPT !.hoverState = "in"]
       ELSE IF tipOptions.delayShow THEN [in EXCEPT !.timer = "show"]
       ELSE TipShow(in)

\* The callbacks, when a transition of the tip ends.
TipCallback(q, callback) == IF callback = "shown" THEN Shown(q) ELSE TipDone(q, callback)

-------------------------------------------------------------------------------
Tips(q) == tip.ending = << >> /\ tip' = q /\ UNCHANGED tipOptions

Bounded == tip.made /\ Len(tip.callbacks) < MaxCallbacks

\* The user comes and goes, with the mouse and with the focus; a tooltip that
\* is destroyed does not hear of it.  History: `wanted` is what was asked for
\* last.
Comes(by) ==
    LET come == [tip EXCEPT !.users = @ \cup {by}]
    IN /\ by \notin tip.users
       /\ \/ Bounded /\ Tips(TipEnter([come EXCEPT !.wanted = TRUE]))
          \/ ~tip.made /\ Tips(come)

Goes(by) ==
    LET gone == [tip EXCEPT !.users = @ \ {by}]
    IN /\ by \in tip.users
       /\ \/ Bounded /\ Tips(TipLeave([gone EXCEPT !.wanted = FALSE]))
          \/ ~tip.made /\ Tips([gone EXCEPT !.wanted = FALSE])

\* toggle: by click or by call.
TipToggle == /\ Bounded
             /\ Tips(IF tip.in THEN TipLeave([tip EXCEPT !.wanted = FALSE])
                     ELSE TipEnter([tip EXCEPT !.wanted = TRUE]))

\* Calls of the page.
CallTipShow == Bounded /\ Tips(TipShow([tip EXCEPT !.wanted = TRUE]))

\* hide of a tip the user is at: the user's leaving will hide it.
CallTipHide ==
    Bounded /\ Tips(TipHide([tip EXCEPT !.wanted = @ /\ tip.hoverState = "in"], "hidden"))

SetEnabled(enabled) == Bounded /\ Tips([tip EXCEPT !.enabled = enabled])

\* destroy: the handlers go with the tip, when it has faded out.
Destroy == /\ Bounded
           /\ Tips(TipHide([tip EXCEPT !.timer = NoTimer, !.wanted = FALSE], "destroyed"))

NewTip(users) ==
    [made |-> TRUE, enabled |-> TRUE, attached |-> FALSE, in |-> FALSE, fade |-> FALSE,
     hoverState |-> NoState, timer |-> NoTimer, callbacks |-> << >>, ending |-> << >>,
     users |-> users, wanted |-> FALSE, abandoned |-> FALSE]

\* The plugin is called again.  Bound: not before the destroyed tooltip has left
\* nothing, no tip, no callback and no timeout; one that leaves its tip is
\* followed to the end.
TipAgain == /\ ~tip.made /\ ~tip.attached /\ tip.callbacks = << >> /\ tip.timer = NoTimer
            /\ Tips(NewTip(tip.users))

\* The timeout of a delay: the user may have gone, or come, since.
TipTimer ==
    /\ tip.timer # NoTimer
    /\ LET due == [tip EXCEPT !.timer = NoTimer]
       IN Tips(CASE tip.timer = "show" -> IF tip.hoverState = "in" THEN TipShow(due) ELSE due
                 [] tip.timer = "hide" -> IF tip.hoverState = "out"
                                          THEN TipHide(due, "hidden") ELSE due)

TipEnd == /\ tip.callbacks # << >>
          /\ Tips([tip EXCEPT !.ending = tip.callbacks, !.callbacks = << >>])

TipRun == /\ tip.ending # << >>
          /\ tip' = TipCallback([tip EXCEPT !.ending = Tail(@)], Head(tip.ending))
          /\ UNCHANGED tipOptions

TipInit ==
    /\ tipOptions \in TipOptions
    /\ tip = NewTip({})

TipNext == \/ \E by \in {"hover", "focus"} : Comes(by) \/ Goes(by)
           \/ TipToggle \/ CallTipShow \/ CallTipHide \/ Destroy \/ TipAgain
           \/ \E enabled \in BOOLEAN : SetEnabled(enabled)
           \/ TipTimer \/ TipEnd \/ TipRun

\* Mutant of TipFairness: without emulateTransitionEnd, whose timer ends a
\* transition that the browser does not.
TipFairnessUnemulated == WF_tipVars(TipTimer) /\ WF_tipVars(TipRun)

\* Timeouts run, and emulateTransitionEnd has set one for every callback.
TipFairness == WF_tipVars(TipTimer) /\ WF_tipVars(TipEnd) /\ WF_tipVars(TipRun)

TipSpec == TipInit /\ [][TipNext]_tipVars /\ TipFairness

-------------------------------------------------------------------------------
TipCallbacks == {"shown", "hidden", "destroyed"}

TipTypeOK ==
    /\ tipOptions \in TipOptions
    /\ tip \in [made : BOOLEAN, enabled : BOOLEAN, attached : BOOLEAN, in : BOOLEAN,
                fade : BOOLEAN, wanted : BOOLEAN, abandoned : BOOLEAN,
                hoverState : {NoState, "in", "out"},
                timer : {NoTimer, "show", "hide"}, users : SUBSET {"hover", "focus"},
                callbacks : Seq(TipCallbacks), ending : Seq(TipCallbacks)]

\* A tip that is in the page and not wanted is about to leave: a timeout will
\* hide it, or the callback that detaches it waits, whatever the order of
\* comings, goings, calls, timeouts and ends of transitions (lines 1342 to
\* 1468).  Not so for a tooltip whose destroy is through while the user is
\* there: line 1541 does not detach the tip, a show that a delay has put off
\* (line 1370) still comes, and line 1684 has taken the handlers away.
Detaches(q) == \/ \E i \in DOMAIN q.callbacks : q.callbacks[i] # "shown"
               \/ \E i \in DOMAIN q.ending : q.ending[i] # "shown"

TipIsSeenOff == tip.attached /\ ~tip.wanted /\ ~tip.abandoned =>
    (tip.timer = "hide" /\ tip.hoverState = "out") \/ Detaches(tip)

\* Once the user has left, or the page has destroyed the tooltip, the tip leaves
\* the page, unless it is asked for again or abandoned as said above: a tip that
\* was fading in is seen off by the callback of show, and a timeout that has
\* become stale does nothing (lines 1342 to 1468 and 1680).
TipGoesAway == ~tip.wanted ~> (~tip.attached \/ tip.wanted \/ tip.abandoned)
===============================================================================
