------------------------------ MODULE PageProofs ------------------------------
(***************************************************************************)
(* What the runs check of the page, for any number of panels and items,    *)
(* any durations and any options: the types, that the modal and the        *)
(* collapse settle, that the tip is seen off and that the carousel keeps   *)
(* step.  The methods are operators on the record of a widget; what each   *)
(* of them does to the record is a lemma, and an action is a composition.  *)
(* A lemma is named for the method and for what of its record is kept:     *)
(* MTyped, that M keeps the types; MRoomy, that a backdrop is left for who *)
(* makes one; MCalm, MGood, the phases of the modal; MSettled, MKeeps, the *)
(* order of the accordion; MSame, the wishes of the tooltip's user; InitX  *)
(* and NextX, that X is an invariant.                                      *)
(***************************************************************************)
EXTENDS Page, CarouselProofs

-------------------------------------------------------------------------------
(* The modal.                                                              *)

\* The callbacks that wait on an element, and run when its transition ends.
CallbackOf(e) == IF e = Element THEN {"hideModal"} ELSE IF e = Dialog THEN {"shown"}
                 ELSE {"show", "remove", "hidden"}

WaitsOn(e) == [callback : CallbackOf(e), left : 0..DialogDuration]

Kinds(q) == /\ \A e \in Elements : q.pending[e] \in Seq(WaitsOn(e))
            /\ \E e \in Elements : q.ending \in Seq(WaitsOn(e))

Typed(q) == q \in ModalRecord /\ Kinds(q)

\* Each callback of hide that is due may make a backdrop, if the modal is
\* shown again by then: there is an element left for it.
HidesDue(q) == Len(q.pending[Element]) +
               IF q.ending \in Seq(WaitsOn(Element)) THEN Len(q.ending) ELSE 0

Room(q) == q.isShown => Cardinality(q.backdrops) + HidesDue(q) <= MaxBackdrops + 1

LEMMA ElementsDiffer ==
    /\ Element \in Elements /\ Dialog \in Elements /\ Element # Dialog
    /\ NoBackdrop \notin Elements /\ BackdropIds \subseteq Elements
    /\ Element \notin BackdropIds /\ Dialog \notin BackdropIds /\ NoBackdrop \notin BackdropIds
    /\ MaxBackdrops \in Nat \ {0} /\ BackdropIds = 1..(MaxBackdrops + 1)
  BY ModalAssumption DEF Elements, Element, Dialog, NoBackdrop, BackdropIds

\* Awaiting an end of transition is a callback more on that element.
LEMMA AwaitTyped ==
    ASSUME NEW q, Typed(q), NEW e \in Elements, NEW c \in CallbackOf(e),
           NEW d \in 0..DialogDuration
    PROVE  LET r == Await(q, e, c, d)
           IN /\ Typed(r)
              /\ r = [q EXCEPT !.pending = r.pending]
              /\ r.pending = [q.pending EXCEPT ![e] = Append(@, [callback |-> c, left |-> d])]
  <1> DEFINE one == [callback |-> c, left |-> d]
             p == [q.pending EXCEPT ![e] = Append(@, one)]
             r == Await(q, e, c, d)
  <1>1. c \in {"show", "shown", "hideModal", "hidden", "remove"}
    BY DEF CallbackOf
  <1>2. one \in WaitsOn(e) /\ one \in Callback
    BY <1>1 DEF WaitsOn, Callback
  <1>3. r = [q EXCEPT !.pending = p]
    BY DEF Await, Typed, ModalRecord
  <1> HIDE DEF one
  <1>4. q.pending \in [Elements -> Seq(Callback)]
    BY DEF Typed, ModalRecord
  <1>5. p \in [Elements -> Seq(Callback)]
    BY <1>2, <1>4
  <1>6. \A f \in Elements : p[f] \in Seq(WaitsOn(f))
    BY <1>2, <1>4 DEF Typed, Kinds
  <1> HIDE DEF p, r
  <1>7. r \in ModalRecord /\ r.pending = p /\ r.ending = q.ending
    BY <1>3, <1>5 DEF Typed, ModalRecord
  <1>8. Kinds(r)
    BY <1>6, <1>7 DEF Kinds, Typed
  <1> QED BY <1>3, <1>7, <1>8 DEF Typed, p, r, one

\* The callback of show shows the dialog, and a fade is awaited.
LEMMA RunShowTyped ==
    ASSUME NEW q, Typed(q)
    PROVE  LET r == RunShow(q)
           IN /\ Typed(r)
              /\ r = [q EXCEPT !.displayed = TRUE, !.in = TRUE, !.handlers = r.handlers,
                               !.pending = r.pending]
              /\ r.handlers = q.handlers \cup {"focusin"}
              /\ r.pending = IF modalOptions.fade
                             THEN [q.pending EXCEPT ![Dialog] =
                                     Append(@, [callback |-> "shown", left |-> DialogDuration])]
                             ELSE q.pending
  <1> DEFINE shown == [q EXCEPT !.displayed = TRUE, !.in = TRUE,
                                !.handlers = q.handlers \cup {"focusin"}]
             r == RunShow(q)
  <1>1. shown = EnforceFocus([q EXCEPT !.displayed = TRUE, !.in = TRUE])
    BY DEF EnforceFocus, Typed, ModalRecord
  <1>2. r = IF modalOptions.fade THEN Await(shown, Dialog, "shown", DialogDuration) ELSE shown
    BY <1>1 DEF RunShow
  <1>3. shown \in ModalRecord /\ shown.pending = q.pending /\ shown.ending = q.ending
    BY DEF Typed, ModalRecord, Handlers
  <1>4. Typed(shown)
    BY <1>3 DEF Typed, Kinds
  <1>5. "shown" \in CallbackOf(Dialog) /\ DialogDuration \in 0..DialogDuration
    BY ElementsDiffer, ModalAssumption DEF CallbackOf
  <1> HIDE DEF shown
  <1>6. CASE modalOptions.fade
    <2> DEFINE a == Await(shown, Dialog, "shown", DialogDuration)
    <2>1. /\ Typed(a) /\ a = [shown EXCEPT !.pending = a.pending]
          /\ a.pending = [shown.pending EXCEPT ![Dialog] =
                            Append(@, [callback |-> "shown", left |-> DialogDuration])]
      BY <1>4, <1>5, ElementsDiffer, AwaitTyped, SMTT(40)
    <2>2. r = a
      BY <1>2, <1>6
    <2> HIDE DEF a, r
    <2>3. r = [q EXCEPT !.displayed = TRUE, !.in = TRUE,
                        !.handlers = q.handlers \cup {"focusin"}, !.pending = r.pending]
      BY <2>1, <2>2 DEF Typed, ModalRecord, shown
    <2>4. r.handlers = q.handlers \cup {"focusin"}
      BY <2>3 DEF Typed, ModalRecord
    <2> QED BY <1>3, <1>6, <2>1, <2>2, <2>3, <2>4 DEF r
  <1>7. CASE ~modalOptions.fade
    <2>1. r = shown /\ r.pending = q.pending /\ r.handlers = q.handlers \cup {"focusin"}
      BY <1>2, <1>3, <1>7 DEF Typed, ModalRecord, shown
    <2> HIDE DEF r
    <2>2. r = [q EXCEPT !.displayed = TRUE, !.in = TRUE, !.handlers = r.handlers,
                        !.pending = r.pending]
      BY <2>1 DEF Typed, ModalRecord, shown
    <2> QED BY <1>4, <1>7, <2>1, <2>2 DEF r
  <1> QED BY <1>6, <1>7

LEMMA RunHiddenTyped ==
    ASSUME NEW q, Typed(q)
    PROVE  LET r == RunHidden(q)
           IN Typed(r) /\ r = [q EXCEPT !.bodyOpen = FALSE, !.pad = q.originalBodyPad]
  <1> DEFINE r == RunHidden(q)
  <1>1. r = [q EXCEPT !.bodyOpen = FALSE, !.pad = q.originalBodyPad]
    BY DEF RunHidden, ResetScrollbar, Typed, ModalRecord
  <1> HIDE DEF r
  <1>2. r \in ModalRecord /\ r.pending = q.pending /\ r.ending = q.ending
    BY <1>1 DEF Typed, ModalRecord
  <1> QED BY <1>1, <1>2 DEF Typed, Kinds, r

\* The backdrop that is taken away takes along what waits on it.
LEMMA RemoveBackdropTyped ==
    ASSUME NEW q, Typed(q)
    PROVE  LET r == RemoveBackdrop(q)
           IN /\ Typed(r)
              /\ r = [q EXCEPT !.backdrops = r.backdrops, !.backdrop = NoBackdrop,
                               !.pending = r.pending]
              /\ r.backdrops = q.backdrops \ {q.backdrop}
              /\ r.pending = [e \in Elements |-> IF e = q.backdrop THEN << >> ELSE q.pending[e]]
  <1> DEFINE p == [e \in Elements |-> IF e = q.backdrop THEN << >> ELSE q.pending[e]]
             r == RemoveBackdrop(q)
  <1>1. r = [q EXCEPT !.backdrops = q.backdrops \ {q.backdrop}, !.backdrop = NoBackdrop,
                      !.pending = p]
    BY DEF RemoveBackdrop, Typed, ModalRecord
  <1>2. p \in [Elements -> Seq(Callback)]
    BY DEF Typed, ModalRecord
  <1>3. \A e \in Elements : p[e] \in Seq(WaitsOn(e))
    BY DEF Typed, Kinds
  <1> HIDE DEF p, r
  <1>4. /\ r \in ModalRecord /\ r.pending = p /\ r.ending = q.ending
        /\ r.backdrops = q.backdrops \ {q.backdrop}
        /\ r = [q EXCEPT !.backdrops = r.backdrops, !.backdrop = NoBackdrop,
                         !.pending = r.pending]
    BY <1>1, <1>2 DEF Typed, ModalRecord
  <1>5. Kinds(r)
    BY <1>3, <1>4 DEF Kinds, Typed
  <1> QED BY <1>4, <1>5 DEF Typed, p, r

\* There is an element left for a backdrop.
LEMMA FreeBackdrop ==
    ASSUME NEW S \in SUBSET BackdropIds, Cardinality(S) <= MaxBackdrops
    PROVE  LET id == CHOOSE i \in BackdropIds : i \notin S
           IN /\ id \in BackdropIds \ S
              /\ Cardinality(S \cup {id}) = Cardinality(S) + 1
  <1> DEFINE id == CHOOSE i \in BackdropIds : i \notin S
  <1>1. IsFiniteSet(BackdropIds) /\ Cardinality(BackdropIds) = MaxBackdrops + 1
    BY ElementsDiffer, FS_Interval
  <1>2. IsFiniteSet(S)
    BY <1>1, FS_Subset
  <1>3. S # BackdropIds
    BY <1>1, ElementsDiffer
  <1>4. id \in BackdropIds \ S
    BY <1>3
  <1> HIDE DEF id
  <1>5. Cardinality(S \cup {id}) = Cardinality(S) + 1
    BY <1>2, <1>4, FS_AddElement
  <1> QED BY <1>4, <1>5 DEF id

LEMMA BackdropsFinite ==
    ASSUME NEW q \in ModalRecord
    PROVE  IsFiniteSet(q.backdrops) /\ Cardinality(q.backdrops) \in Nat
  <1>1. q.backdrops \subseteq BackdropIds
    BY DEF ModalRecord
  <1>2. IsFiniteSet(BackdropIds)
    BY ElementsDiffer, FS_Interval
  <1> QED BY <1>1, <1>2, FS_Subset, FS_CardinalityType

\* A backdrop is added for a modal that is shown.
Added(q, id) == [q EXCEPT !.backdrop = id, !.backdrops = q.backdrops \cup {id},
                          !.handlers = q.handlers \cup {"dismiss"}]

LEMMA AddedTyped ==
    ASSUME NEW q, Typed(q), NEW id \in BackdropIds
    PROVE  Typed(Added(q, id)) /\ Added(q, id).pending = q.pending
  <1> DEFINE r == Added(q, id)
  <1>1. r \in ModalRecord /\ r.pending = q.pending /\ r.ending = q.ending
    BY DEF Added, Typed, ModalRecord, Handlers
  <1> HIDE DEF r
  <1> QED BY <1>1 DEF Typed, Kinds, r

\* What backdrop(callback) comes to.
LEMMA BackdropCases ==
    ASSUME NEW q, Typed(q), NEW c,
           q.isShown => Cardinality(q.backdrops) <= MaxBackdrops
    PROVE  LET r == Backdrop(q, c)
               id == CHOOSE i \in BackdropIds : i \notin q.backdrops
           IN /\ q.isShown /\ modalOptions.backdrop # "false" =>
                   /\ id \in BackdropIds \ q.backdrops
                   /\ Cardinality(q.backdrops \cup {id}) = Cardinality(q.backdrops) + 1
                   /\ r = IF modalOptions.fade THEN Await(Added(q, id), id, c, BackdropDuration)
                          ELSE Run(Added(q, id), c)
              /\ ~q.isShown /\ q.backdrop # NoBackdrop =>
                   r = IF modalOptions.fade THEN Await(q, q.backdrop, "remove", BackdropDuration)
                       ELSE RunHidden(RemoveBackdrop(q))
              /\ ~(q.isShown /\ modalOptions.backdrop # "false") =>
                   (q.isShown \/ q.backdrop = NoBackdrop => r = Run(q, c))
  <1> DEFINE id == CHOOSE i \in BackdropIds : i \notin q.backdrops
  <1>1. [q EXCEPT !.backdrop = id, !.backdrops = @ \cup {id},
                  !.handlers = @ \cup {"dismiss"}] = Added(q, id)
    BY DEF Added, Typed, ModalRecord
  <1>2. q.isShown =>
          /\ id \in BackdropIds \ q.backdrops
          /\ Cardinality(q.backdrops \cup {id}) = Cardinality(q.backdrops) + 1
    <2>1. q.backdrops \in SUBSET BackdropIds
      BY DEF Typed, ModalRecord
    <2> QED BY <2>1, FreeBackdrop
  <1> HIDE DEF id
  <1>3. Backdrop(q, c) =
          IF q.isShown /\ modalOptions.backdrop # "false"
          THEN IF modalOptions.fade THEN Await(Added(q, id), id, c, BackdropDuration)
               ELSE Run(Added(q, id), c)
          ELSE IF ~q.isShown /\ q.backdrop # NoBackdrop
          THEN IF modalOptions.fade THEN Await(q, q.backdrop, "remove", BackdropDuration)
               ELSE RunHidden(RemoveBackdrop(q))
          ELSE Run(q, c)
    BY <1>1 DEF Backdrop, id
  <1> QED BY <1>2, <1>3 DEF id

\* What no callback and no backdrop changes.
Alike(q, r) == /\ r.isShown = q.isShown /\ r.hurried = q.hurried /\ r.ending = q.ending
               /\ r.pending[Element] = q.pending[Element]

LEMMA AwaitAlike ==
    ASSUME NEW q, Typed(q), NEW e \in Elements, NEW c \in CallbackOf(e),
           NEW d \in 0..DialogDuration
    PROVE  LET r == Await(q, e, c, d)
           IN /\ Typed(r) /\ r.backdrops = q.backdrops
              /\ e # Element => Alike(q, r)
  <1> DEFINE r == Await(q, e, c, d)
  <1>1. /\ Typed(r) /\ r = [q EXCEPT !.pending = r.pending]
        /\ r.pending = [q.pending EXCEPT ![e] = Append(@, [callback |-> c, left |-> d])]
    BY AwaitTyped, SMTT(40)
  <1> HIDE DEF r
  <1>2. e # Element => r.pending[Element] = q.pending[Element]
    BY <1>1, ElementsDiffer DEF Typed, ModalRecord
  <1>3. /\ r.isShown = q.isShown /\ r.hurried = q.hurried /\ r.ending = q.ending
        /\ r.backdrops = q.backdrops
    BY <1>1 DEF Typed, ModalRecord
  <1> QED BY <1>1, <1>2, <1>3 DEF Alike, r

LEMMA RunTyped ==
    ASSUME NEW q, Typed(q), NEW c
    PROVE  LET r == Run(q, c)
           IN Typed(r) /\ Alike(q, r) /\ r.backdrops = q.backdrops
  <1>1. CASE c = "show"
    <2> DEFINE r == RunShow(q)
    <2>1. /\ Typed(r)
          /\ r = [q EXCEPT !.displayed = TRUE, !.in = TRUE, !.handlers = r.handlers,
                           !.pending = r.pending]
          /\ r.pending = IF modalOptions.fade
                         THEN [q.pending EXCEPT ![Dialog] =
                                 Append(@, [callback |-> "shown", left |-> DialogDuration])]
                         ELSE q.pending
      BY RunShowTyped
    <2>2. Run(q, c) = r
      BY <1>1 DEF Run
    <2> HIDE DEF r
    <2>3. r.pending[Element] = q.pending[Element]
      BY <2>1, ElementsDiffer DEF Typed, ModalRecord
    <2>4. /\ r.isShown = q.isShown /\ r.hurried = q.hurried /\ r.ending = q.ending
          /\ r.backdrops = q.backdrops
      BY <2>1 DEF Typed, ModalRecord
    <2> QED BY <2>1, <2>2, <2>3, <2>4 DEF Alike
  <1>2. CASE c # "show"
    <2> DEFINE r == RunHidden(q)
    <2>1. Typed(r) /\ r = [q EXCEPT !.bodyOpen = FALSE, !.pad = q.originalBodyPad]
      BY RunHiddenTyped
    <2>2. Run(q, c) = r
      BY <1>2 DEF Run
    <2> HIDE DEF r
    <2>3. Alike(q, r) /\ r.backdrops = q.backdrops
      BY <2>1, SMTT(40) DEF Typed, ModalRecord, Alike
    <2> QED BY <2>1, <2>2, <2>3
  <1> QED BY <1>1, <1>2

LEMMA RemovedAlike ==
    ASSUME NEW q, Typed(q)
    PROVE  LET r == RunHidden(RemoveBackdrop(q))
           IN Typed(r) /\ Alike(q, r) /\ r.backdrops \subseteq q.backdrops
  <1> DEFINE s == RemoveBackdrop(q)
             r == RunHidden(s)
  <1>1. /\ Typed(s)
        /\ s = [q EXCEPT !.backdrops = s.backdrops, !.backdrop = NoBackdrop,
                         !.pending = s.pending]
        /\ s.backdrops = q.backdrops \ {q.backdrop}
        /\ s.pending = [e \in Elements |-> IF e = q.backdrop THEN << >> ELSE q.pending[e]]
    BY RemoveBackdropTyped, ZenonT(60)
  <1> HIDE DEF s
  <1>2. Typed(r) /\ r = [s EXCEPT !.bodyOpen = FALSE, !.pad = s.originalBodyPad]
    BY <1>1, RunHiddenTyped
  <1> HIDE DEF r
  <1>3. Element # q.backdrop
    BY ElementsDiffer, SMTT(40) DEF Typed, ModalRecord, Element, NoBackdrop
  <1>4. s.pending[Element] = q.pending[Element]
    BY <1>1, <1>3, ElementsDiffer
  <1>5. /\ s.isShown = q.isShown /\ s.hurried = q.hurried /\ s.ending = q.ending
    BY <1>1, ZenonT(60) DEF Typed, ModalRecord
  <1>6. /\ r.isShown = s.isShown /\ r.hurried = s.hurried /\ r.ending = s.ending
        /\ r.pending = s.pending /\ r.backdrops = s.backdrops
    BY <1>1, <1>2 DEF Typed, ModalRecord
  <1> QED BY <1>1, <1>2, <1>4, <1>5, <1>6 DEF Alike, r, s

LEMMA BackdropTyped ==
    ASSUME NEW q, Typed(q), NEW c \in {"show", "hidden"},
           q.isShown => Cardinality(q.backdrops) <= MaxBackdrops
    PROVE  LET r == Backdrop(q, c)
           IN /\ Typed(r) /\ Alike(q, r)
              /\ r.isShown => Cardinality(r.backdrops) <= Cardinality(q.backdrops) + 1
  <1> DEFINE id == CHOOSE i \in BackdropIds : i \notin q.backdrops
             r == Backdrop(q, c)
             a == Added(q, id)
             T(x) == /\ Typed(x) /\ Alike(q, x)
                     /\ x.isShown => Cardinality(x.backdrops) <= Cardinality(q.backdrops) + 1
  <1>0. BackdropDuration \in 0..DialogDuration
    BY ModalAssumption
  <1>a. Cardinality(q.backdrops) \in Nat
    BY BackdropsFinite DEF Typed
  <1>1. CASE q.isShown /\ modalOptions.backdrop # "false"
    <2>1. /\ id \in BackdropIds /\ Cardinality(q.backdrops \cup {id}) = Cardinality(q.backdrops) + 1
          /\ r = IF modalOptions.fade THEN Await(a, id, c, BackdropDuration) ELSE Run(a, c)
      BY <1>1, BackdropCases
    <2> HIDE DEF id, r
    <2>2. Typed(a) /\ a.pending = q.pending
      BY <2>1, AddedTyped
    <2>3. /\ a.isShown = q.isShown /\ a.hurried = q.hurried /\ a.ending = q.ending
          /\ a.backdrops = q.backdrops \cup {id}
      BY DEF Added, Typed, ModalRecord
    <2> HIDE DEF a
    <2>4. c \in CallbackOf(id) /\ id \in Elements /\ id # Element
      BY <2>1, ElementsDiffer DEF CallbackOf
    <2>5. Typed(r) /\ Alike(a, r) /\ r.backdrops = a.backdrops
      <3>1. CASE modalOptions.fade
        <4>1. r = Await(a, id, c, BackdropDuration)
          BY <2>1, <3>1
        <4> QED BY <4>1, <1>0, <2>2, <2>4, AwaitAlike
      <3>2. CASE ~modalOptions.fade
        BY <3>2, <2>1, <2>2, RunTyped
      <3> QED BY <3>1, <3>2
    <2>6. Cardinality(r.backdrops) = Cardinality(q.backdrops) + 1
      BY <2>1, <2>3, <2>5
    <2>7. Alike(q, r)
      BY <2>2, <2>3, <2>5 DEF Alike
    <2>8. Cardinality(r.backdrops) <= Cardinality(q.backdrops) + 1
      BY <2>6, <1>a
    <2> QED BY <2>5, <2>7, <2>8 DEF r
  <1>2. CASE ~q.isShown /\ q.backdrop # NoBackdrop
    <2>1. r = IF modalOptions.fade THEN Await(q, q.backdrop, "remove", BackdropDuration)
              ELSE RunHidden(RemoveBackdrop(q))
      BY <1>2, BackdropCases
    <2> HIDE DEF r
    <2>2. q.backdrop \in Elements /\ "remove" \in CallbackOf(q.backdrop) /\ q.backdrop # Element
      BY <1>2, ElementsDiffer DEF CallbackOf, Typed, ModalRecord
    <2>3. Typed(r) /\ Alike(q, r)
      <3>1. CASE modalOptions.fade
        <4>1. r = Await(q, q.backdrop, "remove", BackdropDuration)
          BY <2>1, <3>1
        <4> QED BY <4>1, <1>0, <2>2, AwaitAlike
      <3>2. CASE ~modalOptions.fade
        BY <3>2, <2>1, RemovedAlike
      <3> QED BY <3>1, <3>2
    <2> QED BY <1>2, <2>3 DEF Alike, r
  <1>3. CASE /\ ~(q.isShown /\ modalOptions.backdrop # "false")
             /\ q.isShown \/ q.backdrop = NoBackdrop
    <2>1. r = Run(q, c)
      BY <1>3, BackdropCases
    <2> HIDE DEF r
    <2>2. Typed(r) /\ Alike(q, r) /\ r.backdrops = q.backdrops
      BY <2>1, RunTyped
    <2> QED BY <2>2, <1>a DEF r
  <1> QED BY <1>1, <1>2, <1>3

\* show, before the backdrop, of a modal that is hidden.
Opening(q) ==
    [BindResize(BindEscape([SetScrollbar(q) EXCEPT !.isShown = TRUE, !.bodyOpen = TRUE]))
       EXCEPT !.handlers = @ \cup {"dismiss", "mousedown"},
              !.hurried = @ \/ ~NothingWaits(q)]

LEMMA OpeningTyped ==
    ASSUME NEW q, Typed(q), q.pad < MaxBackdrops
    PROVE  LET r == Opening(q)
           IN /\ Typed(r)
              /\ r = [q EXCEPT !.isShown = TRUE, !.bodyOpen = TRUE,
                               !.originalBodyPad = q.pad, !.pad = r.pad,
                               !.handlers = r.handlers, !.hurried = r.hurried]
              /\ r.pad = IF modalOptions.scrolls /\ ~q.bodyOpen THEN q.pad + 1 ELSE q.pad
              /\ r.hurried = (q.hurried \/ ~NothingWaits(q))
  <1> DEFINE pad == IF modalOptions.scrolls /\ ~q.bodyOpen THEN q.pad + 1 ELSE q.pad
             open == [SetScrollbar(q) EXCEPT !.isShown = TRUE, !.bodyOpen = TRUE]
             esc == BindEscape(open)
             res == BindResize(esc)
             r == Opening(q)
  <1>1. pad \in 0..MaxBackdrops
    BY ElementsDiffer, SMTT(40) DEF Typed, ModalRecord
  <1>2. open = [q EXCEPT !.isShown = TRUE, !.bodyOpen = TRUE, !.originalBodyPad = q.pad,
                         !.pad = pad]
    BY DEF SetScrollbar, Typed, ModalRecord
  <1>3. r = [res EXCEPT !.handlers = @ \cup {"dismiss", "mousedown"},
                        !.hurried = @ \/ ~NothingWaits(q)]
    BY DEF Opening
  <1> HIDE DEF pad, open, r
  <1>4. open \in ModalRecord /\ open.pending = q.pending /\ open.ending = q.ending
    BY <1>1, <1>2 DEF Typed, ModalRecord
  <1>5. esc = [open EXCEPT !.handlers = esc.handlers] /\ esc.handlers \in SUBSET Handlers
    BY <1>4 DEF BindEscape, ModalRecord, Handlers
  <1> HIDE DEF esc
  <1>6. esc \in ModalRecord
    BY <1>4, <1>5 DEF ModalRecord
  <1>7. res = [esc EXCEPT !.handlers = res.handlers] /\ res.handlers \in SUBSET Handlers
    BY <1>6 DEF BindResize, ModalRecord, Handlers
  <1> HIDE DEF res
  <1>8. res = [open EXCEPT !.handlers = res.handlers]
    BY <1>4, <1>5, <1>6, <1>7 DEF ModalRecord
  <1>9. res \in ModalRecord /\ res.hurried = q.hurried
    BY <1>2, <1>4, <1>7, <1>8, ZenonT(60) DEF Typed, ModalRecord
  <1> DEFINE hurried == q.hurried \/ ~NothingWaits(q)
  <1>10. hurried \in BOOLEAN
    OBVIOUS
  <1>11. r = [res EXCEPT !.handlers = res.handlers \cup {"dismiss", "mousedown"},
                         !.hurried = hurried]
    BY <1>3, <1>9 DEF ModalRecord
  <1> HIDE DEF hurried
  <1>12. /\ r \in ModalRecord /\ r.hurried = hurried
         /\ r = [res EXCEPT !.handlers = r.handlers, !.hurried = r.hurried]
    BY <1>9, <1>10, <1>11 DEF ModalRecord, Handlers
  <1>a. r = [open EXCEPT !.handlers = r.handlers, !.hurried = r.hurried]
    BY <1>4, <1>8, <1>9, <1>12 DEF ModalRecord
  <1>b. r.pad = pad /\ r.pending = q.pending /\ r.ending = q.ending
    BY <1>a, <1>2, <1>4 DEF Typed, ModalRecord
  <1>c. /\ r = [q EXCEPT !.isShown = TRUE, !.bodyOpen = TRUE, !.originalBodyPad = q.pad,
                         !.pad = pad, !.handlers = r.handlers, !.hurried = r.hurried]
    BY <1>a, <1>2 DEF Typed, ModalRecord
  <1>13. /\ r = [q EXCEPT !.isShown = TRUE, !.bodyOpen = TRUE, !.originalBodyPad = q.pad,
                          !.pad = r.pad, !.handlers = r.handlers, !.hurried = r.hurried]
         /\ r.pad = pad /\ r.pending = q.pending /\ r.ending = q.ending
    BY <1>b, <1>c
  <1>14. Typed(r)
    BY <1>12, <1>13 DEF Typed, Kinds
  <1> QED BY <1>12, <1>13, <1>14 DEF r, pad, hurried

LEMMA ShowIs ==
    ASSUME NEW q
    PROVE  ModalShow(q) = IF q.isShown THEN q ELSE Backdrop(Opening(q), "show")
  BY DEF ModalShow, Opening

\* hide, before the dialog, of a modal that is shown.
Hiding(q) ==
    [BindResize(BindEscape([q EXCEPT !.isShown = FALSE]))
       EXCEPT !.in = FALSE,
              !.handlers = @ \ {"focusin", "dismiss", "mouseup", "mousedown"}]

LEMMA HidingTyped ==
    ASSUME NEW q, Typed(q)
    PROVE  LET r == Hiding(q)
           IN /\ Typed(r)
              /\ r = [q EXCEPT !.isShown = FALSE, !.in = FALSE, !.handlers = {}]
  <1> DEFINE off == [q EXCEPT !.isShown = FALSE]
             esc == BindEscape(off)
             res == BindResize(esc)
             r == Hiding(q)
  <1>1. r = [res EXCEPT !.in = FALSE,
                        !.handlers = @ \ {"focusin", "dismiss", "mouseup", "mousedown"}]
    BY DEF Hiding
  <1>2. off \in ModalRecord /\ ~off.isShown
    BY DEF Typed, ModalRecord
  <1>3. esc = [q EXCEPT !.isShown = FALSE, !.handlers = q.handlers \ {"keydown"}]
    BY <1>2 DEF BindEscape, Typed, ModalRecord
  <1> HIDE DEF off, esc, r
  <1>4. res = [q EXCEPT !.isShown = FALSE, !.handlers = q.handlers \ {"keydown", "resize"}]
    BY <1>3 DEF BindResize, Typed, ModalRecord
  <1> HIDE DEF res
  <1>5. (q.handlers \ {"keydown", "resize"}) \ {"focusin", "dismiss", "mouseup", "mousedown"} = {}
    BY DEF Typed, ModalRecord, Handlers
  <1>6. r = [q EXCEPT !.isShown = FALSE, !.in = FALSE, !.handlers = {}]
    BY <1>1, <1>4, <1>5 DEF Typed, ModalRecord
  <1>7. r \in ModalRecord /\ r.pending = q.pending /\ r.ending = q.ending
    BY <1>6 DEF Typed, ModalRecord
  <1> QED BY <1>6, <1>7 DEF Typed, Kinds, r

LEMMA HideIs ==
    ASSUME NEW q
    PROVE  ModalHide(q) =
             IF ~q.isShown THEN q
             ELSE IF modalOptions.fade
             THEN Await(Hiding(q), Element, "hideModal", DialogDuration)
             ELSE HideModal(Hiding(q))
  BY DEF ModalHide, Hiding

-------------------------------------------------------------------------------
(* Types and room, through every action.                                   *)

Roomy(q) == Typed(q) /\ Room(q)

LEMMA CountsTyped ==
    ASSUME NEW q, Typed(q)
    PROVE  /\ Len(q.pending[Element]) \in Nat /\ HidesDue(q) \in Nat
           /\ HidesDue(q) >= Len(q.pending[Element])
           /\ Cardinality(q.backdrops) \in Nat
           /\ q.ending = << >> => HidesDue(q) = Len(q.pending[Element])
  <1>1. q.pending[Element] \in Seq(WaitsOn(Element))
    BY ElementsDiffer DEF Typed, Kinds
  <1>2. q.ending \in Seq(Callback)
    BY DEF Typed, ModalRecord
  <1>3. Cardinality(q.backdrops) \in Nat
    BY BackdropsFinite DEF Typed
  <1>4. Len(q.pending[Element]) \in Nat /\ Len(q.ending) \in Nat
    BY <1>1, <1>2
  <1>5. q.ending = << >> => Len(q.ending) = 0
    OBVIOUS
  <1> DEFINE n == IF q.ending \in Seq(WaitsOn(Element)) THEN Len(q.ending) ELSE 0
  <1>6. HidesDue(q) = Len(q.pending[Element]) + n
    BY DEF HidesDue
  <1>7. n \in Nat /\ (q.ending = << >> => n = 0)
    BY <1>4, <1>5
  <1> HIDE DEF n
  <1> QED BY <1>3, <1>4, <1>6, <1>7

\* Room is what Alike and the number of backdrops say.
LEMMA RoomAlike ==
    ASSUME NEW q, NEW r, Typed(q), Typed(r), Alike(q, r), NEW n \in Nat,
           r.isShown => Cardinality(r.backdrops) <= Cardinality(q.backdrops) + n,
           q.isShown => Cardinality(q.backdrops) + n + HidesDue(q) <= MaxBackdrops + 1
    PROVE  Room(r)
  <1>1. HidesDue(r) = HidesDue(q)
    BY DEF Alike, HidesDue
  <1>2. Cardinality(q.backdrops) \in Nat /\ Cardinality(r.backdrops) \in Nat /\ HidesDue(q) \in Nat
    BY CountsTyped
  <1> QED BY <1>1, <1>2, ElementsDiffer DEF Room, Alike

LEMMA ShowRoomy ==
    ASSUME NEW q, Roomy(q), q.ending = << >>, q.pad < MaxBackdrops,
           Cardinality(q.backdrops) + Len(q.pending[Element]) <= MaxBackdrops
    PROVE  Roomy(ModalShow(q))
  <1>1. CASE q.isShown
    BY <1>1, ShowIs
  <1>2. CASE ~q.isShown
    <2> DEFINE s == Opening(q)
               r == Backdrop(s, "show")
    <2>1. /\ Typed(s)
          /\ s = [q EXCEPT !.isShown = TRUE, !.bodyOpen = TRUE, !.originalBodyPad = q.pad,
                           !.pad = s.pad, !.handlers = s.handlers, !.hurried = s.hurried]
      BY OpeningTyped DEF Roomy
    <2> HIDE DEF s
    <2>2. s.backdrops = q.backdrops /\ s.pending = q.pending /\ s.ending = << >> /\ s.isShown
      BY <2>1 DEF Roomy, Typed, ModalRecord
    <2>3. /\ Cardinality(s.backdrops) \in Nat /\ Len(s.pending[Element]) \in Nat
          /\ HidesDue(s) = Len(s.pending[Element])
      BY <2>1, <2>2, CountsTyped
    <2>4. Cardinality(s.backdrops) <= MaxBackdrops
      BY <2>2, <2>3, ElementsDiffer
    <2>5. /\ Typed(r) /\ Alike(s, r)
          /\ r.isShown => Cardinality(r.backdrops) <= Cardinality(s.backdrops) + 1
      BY <2>1, <2>4, BackdropTyped
    <2> HIDE DEF r
    <2>6. Cardinality(s.backdrops) + 1 + HidesDue(s) <= MaxBackdrops + 1
      BY <2>2, <2>3, ElementsDiffer
    <2>7. Room(r)
      BY <2>1, <2>5, <2>6, RoomAlike
    <2> QED BY <1>2, <2>5, <2>7, ShowIs DEF Roomy, r, s
  <1> QED BY <1>1, <1>2

LEMMA HideModalTyped ==
    ASSUME NEW q, Typed(q), q.isShown => Cardinality(q.backdrops) <= MaxBackdrops
    PROVE  LET r == HideModal(q)
           IN /\ Typed(r) /\ Alike(q, r)
              /\ r.isShown => Cardinality(r.backdrops) <= Cardinality(q.backdrops) + 1
  <1> DEFINE s == [q EXCEPT !.displayed = FALSE]
             r == Backdrop(s, "hidden")
  <1>1. /\ s \in ModalRecord /\ s.pending = q.pending /\ s.ending = q.ending
        /\ s.isShown = q.isShown /\ s.backdrops = q.backdrops /\ s.hurried = q.hurried
    BY DEF Typed, ModalRecord
  <1>2. HideModal(q) = r
    BY DEF HideModal
  <1> HIDE DEF s
  <1>3. Typed(s)
    BY <1>1 DEF Typed, Kinds
  <1>4. /\ Typed(r) /\ Alike(s, r)
        /\ r.isShown => Cardinality(r.backdrops) <= Cardinality(s.backdrops) + 1
    BY <1>1, <1>3, BackdropTyped
  <1> QED BY <1>1, <1>2, <1>4 DEF Alike

LEMMA HideRoomy ==
    ASSUME NEW q, Roomy(q)
    PROVE  Roomy(ModalHide(q))
  <1>1. CASE ~q.isShown
    BY <1>1, HideIs
  <1>2. CASE q.isShown
    <2> DEFINE s == Hiding(q)
               r == ModalHide(q)
    <2>1. Typed(s) /\ s = [q EXCEPT !.isShown = FALSE, !.in = FALSE, !.handlers = {}]
      BY HidingTyped DEF Roomy
    <2>2. r = IF modalOptions.fade THEN Await(s, Element, "hideModal", DialogDuration)
              ELSE HideModal(s)
      BY <1>2, HideIs
    <2> HIDE DEF s, r
    <2>3. ~s.isShown
      BY <2>1 DEF Roomy, Typed, ModalRecord
    <2>4. CASE modalOptions.fade
      <3>1. /\ "hideModal" \in CallbackOf(Element) /\ DialogDuration \in 0..DialogDuration
            /\ Element \in Elements
        BY ModalAssumption, ElementsDiffer DEF CallbackOf
      <3>5. Typed(s)
        BY <2>1
      <3> DEFINE a == Await(s, Element, "hideModal", DialogDuration)
      <3>2. /\ Typed(a) /\ a = [s EXCEPT !.pending = a.pending]
            /\ a.pending = [s.pending EXCEPT ![Element] =
                              Append(@, [callback |-> "hideModal", left |-> DialogDuration])]
        BY <3>1, <3>5, AwaitTyped
      <3>3. r = a
        BY <2>2, <2>4
      <3> HIDE DEF a
      <3>4. ~r.isShown
        BY <2>1, <2>3, <3>2, <3>3 DEF Typed, ModalRecord
      <3> QED BY <3>2, <3>3, <3>4 DEF Roomy, Room, r
    <2>5. CASE ~modalOptions.fade
      BY <2>1, <2>2, <2>3, <2>5, HideModalTyped DEF Roomy, Room, Alike, r
    <2> QED BY <2>4, <2>5
  <1> QED BY <1>1, <1>2

\* A callback leaves the event; a hideModal less is due when it was one.
LEMMA TailTyped ==
    ASSUME NEW q, Typed(q), q.ending # << >>
    PROVE  LET r == [q EXCEPT !.ending = Tail(@)]
           IN /\ Typed(r)
              /\ r.isShown = q.isShown /\ r.backdrops = q.backdrops
              /\ Head(q.ending).callback = "hideModal" => HidesDue(r) + 1 = HidesDue(q)
              /\ HidesDue(r) <= HidesDue(q)
  <1> DEFINE r == [q EXCEPT !.ending = Tail(@)]
  <1>0. q.ending \in Seq(Callback)
    BY DEF Typed, ModalRecord
  <1>1. Tail(q.ending) \in Seq(Callback)
    BY <1>0
  <1>a. r = [q EXCEPT !.ending = Tail(q.ending)]
    BY DEF Typed, ModalRecord
  <1> HIDE DEF r
  <1>2. /\ r \in ModalRecord /\ r.pending = q.pending /\ r.ending = Tail(q.ending)
        /\ r.isShown = q.isShown /\ r.backdrops = q.backdrops
    BY <1>1, <1>a DEF Typed, ModalRecord
  <1> HIDE DEF r
  <1> PICK e \in Elements : q.ending \in Seq(WaitsOn(e))
    BY DEF Typed, Kinds
  <1>3. Tail(q.ending) \in Seq(WaitsOn(e)) /\ Head(q.ending) \in WaitsOn(e)
        /\ Len(Tail(q.ending)) = Len(q.ending) - 1 /\ Len(q.ending) \in Nat \ {0}
    OBVIOUS
  <1>4. Typed(r)
    BY <1>2, <1>3 DEF Typed, Kinds
  <1>5. Len(q.pending[Element]) \in Nat
    BY CountsTyped
  <1>6. CASE e = Element
    <2>1. HidesDue(q) = Len(q.pending[Element]) + Len(q.ending)
      BY <1>6 DEF HidesDue
    <2>2. HidesDue(r) = Len(q.pending[Element]) + Len(Tail(q.ending))
      BY <1>2, <1>3, <1>6 DEF HidesDue
    <2>3. HidesDue(r) + 1 = HidesDue(q) /\ HidesDue(r) <= HidesDue(q)
      <3> DEFINE m == Len(q.pending[Element])
                 n == Len(q.ending)
      <3>1. m \in Nat /\ n \in Nat /\ HidesDue(q) = m + n /\ HidesDue(r) = m + (n - 1)
        BY <1>3, <1>5, <2>1, <2>2
      <3> HIDE DEF m, n
      <3> QED BY <3>1
    <2> QED BY <1>2, <1>4, <2>3 DEF r
  <1>7. CASE e # Element
    <2>1. Head(q.ending).callback # "hideModal"
      BY <1>3, <1>7 DEF WaitsOn, CallbackOf
    <2>2. HidesDue(r) = Len(q.pending[Element])
      <3>1. CASE Tail(q.ending) = << >>
        BY <3>1, <1>2, <1>4, CountsTyped
      <3>2. CASE Tail(q.ending) # << >>
        <4>1. Head(Tail(q.ending)) \in WaitsOn(e)
          BY <1>3, <3>2
        <4>2. Tail(q.ending) \notin Seq(WaitsOn(Element))
          <5> SUFFICES ASSUME Tail(q.ending) \in Seq(WaitsOn(Element)) PROVE FALSE
            OBVIOUS
          <5>1. Head(Tail(q.ending)) \in WaitsOn(Element)
            BY <3>2
          <5> QED BY <4>1, <5>1, <1>7 DEF WaitsOn, CallbackOf
        <4> DEFINE n == IF r.ending \in Seq(WaitsOn(Element)) THEN Len(r.ending) ELSE 0
        <4>3. n = 0 /\ HidesDue(r) = Len(q.pending[Element]) + n
          BY <1>2, <4>2 DEF HidesDue
        <4> HIDE DEF n
        <4> QED BY <4>3, <1>5
      <3> QED BY <3>1, <3>2
    <2>3. HidesDue(q) >= Len(q.pending[Element])
      BY CountsTyped
    <2> QED BY <1>2, <1>4, <2>1, <2>2, <2>3 DEF r
  <1> QED BY <1>6, <1>7

LEMMA FireRoomy ==
    ASSUME NEW q, Roomy(q), q.ending # << >>
    PROVE  Roomy(ModalFire([q EXCEPT !.ending = Tail(@)], Head(q.ending).callback))
  <1> DEFINE s == [q EXCEPT !.ending = Tail(@)]
             c == Head(q.ending).callback
  <1>1. /\ Typed(s) /\ s.isShown = q.isShown /\ s.backdrops = q.backdrops
        /\ c = "hideModal" => HidesDue(s) + 1 = HidesDue(q)
        /\ HidesDue(s) <= HidesDue(q)
    BY TailTyped DEF Roomy
  <1>2. c \in {"show", "shown", "hideModal", "hidden", "remove"}
    <2>1. Head(q.ending) \in Callback
      BY DEF Roomy, Typed, ModalRecord
    <2> QED BY <2>1 DEF Callback
  <1> HIDE DEF s, c
  <1>3. /\ HidesDue(s) \in Nat /\ HidesDue(q) \in Nat /\ Cardinality(s.backdrops) \in Nat
        /\ q.isShown => Cardinality(q.backdrops) + HidesDue(q) <= MaxBackdrops + 1
    BY <1>1, CountsTyped DEF Roomy, Room
  <1>4. CASE c = "hideModal"
    <2> DEFINE r == HideModal(s)
    <2>1. s.isShown => /\ Cardinality(s.backdrops) <= MaxBackdrops
                       /\ Cardinality(s.backdrops) + 1 + HidesDue(s) <= MaxBackdrops + 1
      BY <1>1, <1>3, <1>4, ElementsDiffer
    <2>2. /\ Typed(r) /\ Alike(s, r)
          /\ r.isShown => Cardinality(r.backdrops) <= Cardinality(s.backdrops) + 1
      BY <1>1, <2>1, HideModalTyped
    <2> HIDE DEF r
    <2>3. Room(r)
      BY <1>1, <2>1, <2>2, RoomAlike
    <2> QED BY <1>4, <2>2, <2>3 DEF ModalFire, Roomy, r, s, c
  <1>5. ASSUME NEW r, Typed(r), Alike(s, r), r.backdrops \subseteq s.backdrops
        PROVE  Roomy(r)
    <2>1. Cardinality(r.backdrops) <= Cardinality(s.backdrops)
      <3>1. IsFiniteSet(s.backdrops)
        BY <1>1, BackdropsFinite DEF Typed
      <3> QED BY <1>5, <3>1, FS_Subset
    <2>2. Cardinality(r.backdrops) \in Nat
      BY <1>5, CountsTyped
    <2>3. Room(r)
      BY <1>1, <1>3, <1>5, <2>1, <2>2, RoomAlike, ElementsDiffer
    <2> QED BY <1>5, <2>3 DEF Roomy
  <1>6. CASE c = "remove"
    <2>1. Typed(RunHidden(RemoveBackdrop(s)))
      BY <1>1, RemovedAlike
    <2>2. Roomy(RunHidden(RemoveBackdrop(s)))
      BY <1>1, <1>5, RemovedAlike
    <2> QED BY <1>6, <2>2 DEF ModalFire, s, c
  <1>7. CASE c = "shown"
    <2>1. Roomy(s)
      BY <1>1, <1>5 DEF Alike
    <2> QED BY <1>7, <2>1 DEF ModalFire, s, c
  <1>8. CASE c \in {"show", "hidden"}
    <2>1. Roomy(Run(s, c))
      BY <1>1, <1>5, RunTyped
    <2>2. ModalFire(s, c) = Run(s, c)
      BY <1>8 DEF ModalFire
    <2> QED BY <2>1, <2>2 DEF s, c
  <1> QED BY <1>2, <1>4, <1>6, <1>7, <1>8

\* The callbacks of an element become those of the event.
LEMMA EndRoomy ==
    ASSUME NEW q, Roomy(q), q.ending = << >>, NEW e \in Elements
    PROVE  LET r == TransitionEnd(q, e)
           IN /\ Roomy(r)
              /\ r = [q EXCEPT !.ending = q.pending[e], !.pending = r.pending]
              /\ r.pending = [q.pending EXCEPT ![e] = << >>]
  <1> DEFINE p == [q.pending EXCEPT ![e] = << >>]
             r == TransitionEnd(q, e)
  <1>0. q.pending \in [Elements -> Seq(Callback)]
    BY DEF Roomy, Typed, ModalRecord
  <1>1. r = [q EXCEPT !.ending = q.pending[e], !.pending = p]
    BY DEF TransitionEnd, Roomy, Typed, ModalRecord
  <1>2. p \in [Elements -> Seq(Callback)] /\ q.pending[e] \in Seq(Callback)
    BY <1>0
  <1>3. /\ \A f \in Elements : p[f] = IF f = e THEN << >> ELSE q.pending[f]
        /\ \A f \in Elements : q.pending[f] \in Seq(WaitsOn(f))
    BY <1>0 DEF Roomy, Typed, Kinds
  <1> HIDE DEF p, r
  <1>4. /\ r \in ModalRecord /\ r.pending = p /\ r.ending = q.pending[e]
        /\ r.isShown = q.isShown /\ r.backdrops = q.backdrops
    BY <1>1, <1>2 DEF Roomy, Typed, ModalRecord
  <1>5. Kinds(r)
    <2>1. ASSUME NEW f \in Elements PROVE r.pending[f] \in Seq(WaitsOn(f))
      <3>1. << >> \in Seq(WaitsOn(f))
        OBVIOUS
      <3> QED BY <1>3, <1>4, <3>1
    <2> QED BY <1>3, <1>4, <2>1 DEF Kinds
  <1>6. HidesDue(r) <= HidesDue(q)
    <2>1. HidesDue(q) = Len(q.pending[Element]) /\ Len(q.pending[Element]) \in Nat
      BY CountsTyped DEF Roomy
    <2> DEFINE n == IF r.ending \in Seq(WaitsOn(Element)) THEN Len(r.ending) ELSE 0
    <2>2. HidesDue(r) = Len(r.pending[Element]) + n
      BY DEF HidesDue
    <2>3. CASE e = Element
      <3>1. n = Len(q.pending[Element])
        BY <1>3, <1>4, <2>3
      <3>2. Len(r.pending[Element]) = 0
        BY <1>3, <1>4, <2>3
      <3> HIDE DEF n
      <3> QED BY <2>1, <2>2, <3>1, <3>2
    <2>4. CASE e # Element
      <3>1. r.pending[Element] = q.pending[Element]
        BY <1>3, <1>4, <2>4, ElementsDiffer
      <3>2. n = 0
        <4>1. CASE q.pending[e] = << >>
          BY <4>1, <1>4
        <4>2. CASE q.pending[e] # << >>
          <5> SUFFICES ASSUME r.ending \in Seq(WaitsOn(Element)) PROVE FALSE
            OBVIOUS
          <5>1. r.ending[1] \in WaitsOn(Element) /\ r.ending[1] \in WaitsOn(e)
            <6>1. r.ending \in Seq(WaitsOn(e)) /\ r.ending # << >>
              BY <1>3, <1>4, <4>2
            <6> QED BY <6>1
          <5> QED BY <5>1, <2>4 DEF WaitsOn, CallbackOf
        <4> QED BY <4>1, <4>2
      <3> HIDE DEF n
      <3> QED BY <2>1, <2>2, <3>1, <3>2
    <2> QED BY <2>3, <2>4
  <1>7. Room(r)
    <2>1. /\ HidesDue(r) \in Nat /\ HidesDue(q) \in Nat /\ Cardinality(q.backdrops) \in Nat
      BY <1>4, <1>5, CountsTyped DEF Roomy, Typed
    <2> QED BY <1>4, <1>6, <2>1, ElementsDiffer DEF Roomy, Room
  <1> QED BY <1>1, <1>4, <1>5, <1>7 DEF Roomy, Typed, p, r

LEMMA TickedSeq ==
    ASSUME NEW e, NEW s \in Seq(WaitsOn(e)), \A i \in DOMAIN s : s[i].left > 0
    PROVE  /\ Ticked(s) \in Seq(WaitsOn(e)) /\ Len(Ticked(s)) = Len(s)
           /\ DOMAIN Ticked(s) = DOMAIN s
           /\ \A i \in DOMAIN s : /\ Ticked(s)[i].callback = s[i].callback
                                  /\ Ticked(s)[i].left = s[i].left - 1
  <1> DEFINE t == Ticked(s)
             n == Len(s)
  <1>1. n \in Nat /\ DOMAIN s = 1..n
    OBVIOUS
  <1>2. \A i \in 1..n : /\ t[i] = [s[i] EXCEPT !.left = @ - 1]
                        /\ s[i] \in WaitsOn(e) /\ s[i].left > 0
    BY <1>1 DEF Ticked
  <1>3. DialogDuration \in Nat
    BY ModalAssumption
  <1>4. \A i \in 1..n : /\ t[i] \in WaitsOn(e) /\ t[i].callback = s[i].callback
                        /\ t[i].left = s[i].left - 1
    <2> SUFFICES ASSUME NEW i \in 1..n
                 PROVE  /\ t[i] \in WaitsOn(e) /\ t[i].callback = s[i].callback
                        /\ t[i].left = s[i].left - 1
      OBVIOUS
    <2> DEFINE c == s[i]
    <2>1. t[i] = [c EXCEPT !.left = c.left - 1] /\ c \in WaitsOn(e) /\ c.left > 0
      BY <1>2
    <2> HIDE DEF c, t
    <2>2. c.left - 1 \in 0..DialogDuration
      BY <1>3, <2>1 DEF WaitsOn
    <2>3. /\ t[i] \in WaitsOn(e) /\ t[i].callback = c.callback /\ t[i].left = c.left - 1
      BY <2>1, <2>2 DEF WaitsOn
    <2> QED BY <2>3 DEF c
  <1>5. t = [i \in 1..n |-> t[i]] /\ DOMAIN t = 1..n
    BY <1>1 DEF Ticked
  <1> HIDE DEF t, n
  <1>6. t \in [1..n -> WaitsOn(e)]
    BY <1>4, <1>5
  <1>7. t \in Seq(WaitsOn(e)) /\ Len(t) = n
    BY <1>1, <1>6
  <1> QED BY <1>1, <1>4, <1>5, <1>7 DEF t, n

LEMMA WaitsAreCallbacks ==
    ASSUME NEW e, NEW s \in Seq(WaitsOn(e))
    PROVE  s \in Seq(Callback)
  <1>1. WaitsOn(e) \subseteq Callback
    BY DEF WaitsOn, Callback, CallbackOf
  <1>2. Len(s) \in Nat /\ s \in [1..Len(s) -> WaitsOn(e)]
    OBVIOUS
  <1>3. s \in [1..Len(s) -> Callback]
    BY <1>1, <1>2
  <1> QED BY <1>2, <1>3

LEMMA TickRoomy ==
    ASSUME NEW q, Roomy(q), q.ending = << >>,
           \A e \in Elements : \A i \in DOMAIN q.pending[e] : q.pending[e][i].left > 0
    PROVE  Roomy(TickOf(q))
  <1> DEFINE p == [e \in Elements |-> Ticked(q.pending[e])]
             r == TickOf(q)
  <1>1. \A e \in Elements : /\ q.pending[e] \in Seq(WaitsOn(e))
                            /\ Ticked(q.pending[e]) \in Seq(WaitsOn(e))
                            /\ Len(Ticked(q.pending[e])) = Len(q.pending[e])
    BY TickedSeq DEF Roomy, Typed, Kinds
  <1>2. p \in [Elements -> Seq(Callback)]
    BY <1>1, WaitsAreCallbacks
  <1>3. \A e \in Elements : p[e] \in Seq(WaitsOn(e)) /\ Len(p[e]) = Len(q.pending[e])
    BY <1>1
  <1>4. r = [q EXCEPT !.pending = p]
    BY DEF TickOf
  <1> HIDE DEF p, r
  <1>5. /\ r \in ModalRecord /\ r.pending = p /\ r.ending = q.ending
        /\ r.isShown = q.isShown /\ r.backdrops = q.backdrops
    BY <1>2, <1>4 DEF Roomy, Typed, ModalRecord
  <1>6. Kinds(r)
    BY <1>3, <1>5 DEF Roomy, Typed, Kinds
  <1>7. HidesDue(r) = HidesDue(q)
    BY <1>3, <1>5, ElementsDiffer DEF HidesDue
  <1> QED BY <1>5, <1>6, <1>7 DEF Roomy, Typed, Room, r

\* A change of the handlers, or of the note about a click.
LEMMA HandlersRoomy ==
    ASSUME NEW q, Roomy(q), NEW h \in SUBSET Handlers, NEW b \in BOOLEAN
    PROVE  LET r == [q EXCEPT !.handlers = h, !.ignoreBackdropClick = b]
           IN Roomy(r)
  <1> DEFINE r == [q EXCEPT !.handlers = h, !.ignoreBackdropClick = b]
  <1>1. /\ r \in ModalRecord /\ r.pending = q.pending /\ r.ending = q.ending
        /\ r.isShown = q.isShown /\ r.backdrops = q.backdrops
    BY DEF Roomy, Typed, ModalRecord
  <1> HIDE DEF r
  <1> QED BY <1>1 DEF Roomy, Typed, Kinds, Room, HidesDue, r

-------------------------------------------------------------------------------
(* A modal that has not been shown in the transitions of its hide.         *)

Ends(q, c) == q.ending # << >> /\ q.ending[1].callback = c

AwaitedOn(q, e, c) == q.pending[e] # << >> /\ q.pending[e][1].callback = c

\* The callback of the backdrop, or of the dialog, is due.
BackdropDue(q, c) ==
    Ends(q, c) \/ (q.backdrop # NoBackdrop /\ AwaitedOn(q, q.backdrop, c))

HideDue(q) == q.pending[Element] # << >> \/ Ends(q, "hideModal")

ShownDue(q) == q.pending[Dialog] # << >> \/ Ends(q, "shown")

Still(q) == NothingWaits(q) /\ q.ending = << >>

\* One callback waits on an element at most, and it is not in the event too.
Slots(q) ==
    /\ \A e \in Elements : Len(q.pending[e]) <= 1
    /\ Len(q.ending) <= 1
    /\ \A e \in BackdropIds : e # q.backdrop => q.pending[e] = << >>
    /\ ~BackdropDue(q, "hidden")
    /\ Ends(q, "hideModal") => q.pending[Element] = << >>
    /\ Ends(q, "shown") => q.pending[Dialog] = << >>
    /\ Ends(q, "show") \/ Ends(q, "remove") =>
         q.backdrop # NoBackdrop /\ q.pending[q.backdrop] = << >>

\* The one backdrop is the one that is held.
Held(q) ==
    /\ q.backdrops = {q.backdrop} \ {NoBackdrop}
    /\ modalOptions.backdrop = "false" => q.backdrop = NoBackdrop
    /\ q.originalBodyPad = 0
    /\ ~modalOptions.fade => Still(q)

\* A backdrop is faster than a dialog: its show comes before a hide made later.
Ordered(q) ==
    /\ BackdropDue(q, "show") => ~ShownDue(q) /\ ~Ends(q, "hideModal")
    /\ q.backdrop # NoBackdrop /\ q.pending[q.backdrop] # << >> =>
         /\ q.pending[q.backdrop][1].left <= BackdropDuration
         /\ q.pending[Element] # << >> =>
              q.pending[q.backdrop][1].left < q.pending[Element][1].left

\* The page of a modal whose dialog is shown, or will be.
Open(q) ==
    /\ q.bodyOpen /\ ~BackdropDue(q, "remove")
    /\ modalOptions.backdrop # "false" => q.backdrop # NoBackdrop
    /\ q.displayed = ~BackdropDue(q, "show")
    /\ q.pad = IF modalOptions.scrolls THEN 1 ELSE 0

\* The phases: shown, hiding its dialog, hiding its backdrop, and hidden.
Phase(q) ==
    /\ q.isShown => Open(q) /\ ~HideDue(q)
    /\ ~q.isShown =>
         /\ q.handlers \subseteq {"focusin"}
         /\ HideDue(q) => Open(q)
         /\ ~HideDue(q) => /\ ~q.displayed /\ ~BackdropDue(q, "show")
                           /\ BackdropDue(q, "remove") => q.bodyOpen
                           /\ ~BackdropDue(q, "remove") =>
                                ~q.bodyOpen /\ q.backdrop = NoBackdrop /\ q.pad = 0

Calm(q) == Slots(q) /\ Held(q) /\ Ordered(q) /\ Phase(q)

\* The inductive invariant.
ModalInv == /\ modalOptions \in ModalOptions /\ Roomy(modal)
            /\ ~modal.hurried => Calm(modal)

\* With nothing to come, the page is as isShown says.
LEMMA StillCalm ==
    ASSUME NEW q, Typed(q), Calm(q), Still(q)
    PROVE  /\ q.displayed = q.isShown /\ q.bodyOpen = q.isShown
           /\ q.isShown /\ modalOptions.backdrop # "false" => q.backdrop # NoBackdrop
           /\ ~q.isShown \/ modalOptions.backdrop = "false" => q.backdrop = NoBackdrop
           /\ q.backdrops = {q.backdrop} \ {NoBackdrop}
           /\ q.pad = IF q.isShown /\ modalOptions.scrolls THEN 1 ELSE 0
           /\ ~q.isShown => q.handlers \subseteq {"focusin"}
           /\ q.originalBodyPad = 0
  <1>1. /\ q.pending[Element] = << >> /\ q.pending[Dialog] = << >> /\ q.ending = << >>
        /\ q.backdrop # NoBackdrop => q.pending[q.backdrop] = << >>
    BY ElementsDiffer DEF Still, NothingWaits, Typed, ModalRecord
  <1>2. /\ ~HideDue(q) /\ \A c : ~BackdropDue(q, c)
    BY <1>1 DEF HideDue, BackdropDue, Ends, AwaitedOn
  <1>3. q.isShown \in BOOLEAN /\ q.displayed \in BOOLEAN /\ q.bodyOpen \in BOOLEAN
    BY DEF Typed, ModalRecord
  <1>4. /\ q.isShown => /\ q.bodyOpen /\ q.displayed
                        /\ modalOptions.backdrop # "false" => q.backdrop # NoBackdrop
                        /\ q.pad = IF modalOptions.scrolls THEN 1 ELSE 0
        /\ ~q.isShown => /\ ~q.bodyOpen /\ ~q.displayed /\ q.backdrop = NoBackdrop
                         /\ q.pad = 0 /\ q.handlers \subseteq {"focusin"}
    BY <1>2, <1>3 DEF Calm, Phase, Open
  <1> QED BY <1>3, <1>4 DEF Calm, Held

\* Nothing waits on any element but one, that has one callback.
LEMMA AppendFirst ==
    ASSUME NEW p, NEW r, NEW e \in Elements, NEW x,
           p \in [Elements -> Seq(Callback)], p[e] = << >>,
           r = [p EXCEPT ![e] = Append(@, x)]
    PROVE  /\ r[e] # << >> /\ r[e][1] = x
           /\ \A f \in Elements : Len(p[f]) <= 1 => Len(r[f]) <= 1
           /\ \A f \in Elements : f # e => r[f] = p[f]
  <1>1. Append(<< >>, x) = <<x>>
    OBVIOUS
  <1>2. r[e] = <<x>>
    BY <1>1
  <1>3. \A f \in Elements : f # e => r[f] = p[f]
    OBVIOUS
  <1>4. Len(r[e]) <= 1
    BY <1>2
  <1> QED BY <1>2, <1>3, <1>4

\* A modal whose dialog is shown, with no callback due but that of the dialog.
LEMMA ShownCalm ==
    ASSUME NEW q, Typed(q), q.isShown, q.bodyOpen, q.displayed, q.ending = << >>,
           \A e \in Elements \ {Dialog} : q.pending[e] = << >>,
           Len(q.pending[Dialog]) <= 1,
           modalOptions.fade \/ q.pending[Dialog] = << >>,
           q.backdrops = {q.backdrop} \ {NoBackdrop},
           (modalOptions.backdrop # "false") = (q.backdrop # NoBackdrop),
           q.originalBodyPad = 0,
           q.pad = IF modalOptions.scrolls THEN 1 ELSE 0
    PROVE  Calm(q)
  <1>1. /\ q.pending[Element] = << >>
        /\ q.backdrop # NoBackdrop => q.pending[q.backdrop] = << >>
        /\ \A e \in BackdropIds : q.pending[e] = << >>
    BY ElementsDiffer DEF Typed, ModalRecord
  <1>2. /\ ~HideDue(q) /\ \A c : ~BackdropDue(q, c) /\ ~Ends(q, c)
    BY <1>1 DEF HideDue, BackdropDue, Ends, AwaitedOn
  <1>3. Slots(q)
    <2>1. \A e \in Elements : Len(q.pending[e]) <= 1
      <3> SUFFICES ASSUME NEW e \in Elements PROVE Len(q.pending[e]) <= 1
        OBVIOUS
      <3>1. e # Dialog => Len(q.pending[e]) = 0
        OBVIOUS
      <3> QED BY <3>1
    <2>2. Len(q.ending) <= 1
      OBVIOUS
    <2> QED BY <1>1, <1>2, <2>1, <2>2 DEF Slots
  <1>4. Held(q)
    BY DEF Held, Still, NothingWaits
  <1>5. Ordered(q)
    BY <1>1, <1>2 DEF Ordered
  <1>6. Phase(q)
    BY <1>2 DEF Phase, Open
  <1> QED BY <1>3, <1>4, <1>5, <1>6 DEF Calm

\* The backdrop of a modal that is shown comes first.
LEMMA ShowingCalm ==
    ASSUME NEW q, Typed(q), NEW id \in BackdropIds, NEW r, Typed(r),
           q.isShown, q.bodyOpen, ~q.displayed, q.ending = << >>,
           \A e \in Elements : q.pending[e] = << >>,
           q.backdrop = id, q.backdrops = {id},
           modalOptions.fade, modalOptions.backdrop # "false",
           q.originalBodyPad = 0,
           q.pad = IF modalOptions.scrolls THEN 1 ELSE 0,
           r = [q EXCEPT !.pending = r.pending],
           r.pending = [q.pending EXCEPT ![id] =
                          Append(@, [callback |-> "show", left |-> BackdropDuration])]
    PROVE  Calm(r)
  <1> DEFINE x == [callback |-> "show", left |-> BackdropDuration]
  <1>1. q.pending \in [Elements -> Seq(Callback)]
    BY DEF Typed, ModalRecord
  <1>2. /\ id \in Elements /\ id # Element /\ id # Dialog /\ id # NoBackdrop
        /\ Element \in Elements /\ Dialog \in Elements /\ BackdropIds \subseteq Elements
    BY ElementsDiffer
  <1>3. /\ r.pending[id] # << >> /\ r.pending[id][1] = x
        /\ \A f \in Elements : Len(r.pending[f]) <= 1
        /\ \A f \in Elements : f # id => r.pending[f] = << >>
    <2>1. \A f \in Elements : Len(q.pending[f]) <= 1
      <3>1. Len(<< >>) <= 1
        OBVIOUS
      <3> QED BY <3>1
    <2> QED BY <1>1, <1>2, <2>1, AppendFirst
  <1>4. x.callback = "show" /\ x.left = BackdropDuration
    OBVIOUS
  <1> HIDE DEF x
  <1>5. /\ r.isShown /\ r.bodyOpen /\ ~r.displayed /\ r.ending = << >>
        /\ r.backdrop = id /\ r.backdrops = {id} /\ r.originalBodyPad = 0
        /\ r.pad = IF modalOptions.scrolls THEN 1 ELSE 0
    BY DEF Typed, ModalRecord
  <1>6. /\ ~HideDue(r) /\ ~ShownDue(r) /\ BackdropDue(r, "show")
        /\ ~BackdropDue(r, "remove") /\ ~BackdropDue(r, "hidden") /\ \A c : ~Ends(r, c)
    BY <1>2, <1>3, <1>4, <1>5 DEF HideDue, ShownDue, BackdropDue, Ends, AwaitedOn
  <1>7. Slots(r)
    <2>1. \A e \in Elements : Len(r.pending[e]) <= 1
      BY <1>3
    <2>2. Len(r.ending) <= 1
      BY <1>5
    <2> QED BY <1>2, <1>3, <1>5, <1>6, <2>1, <2>2 DEF Slots
  <1>8. Held(r)
    BY <1>2, <1>5 DEF Held
  <1>9. Ordered(r)
    <2>1. BackdropDuration <= BackdropDuration
      BY ModalAssumption
    <2> QED BY <1>2, <1>3, <1>4, <1>5, <1>6, <2>1 DEF Ordered
  <1>10. Phase(r)
    <2>1. r.displayed = FALSE /\ r.isShown = TRUE
      BY <1>5 DEF Typed, ModalRecord
    <2> QED BY <1>2, <1>5, <1>6, <2>1 DEF Phase, Open
  <1> QED BY <1>7, <1>8, <1>9, <1>10 DEF Calm

LEMMA FinalShow ==
    ASSUME NEW q, Typed(q), q.isShown, q.bodyOpen, q.ending = << >>,
           \A e \in Elements : q.pending[e] = << >>,
           q.backdrops = {q.backdrop} \ {NoBackdrop},
           (modalOptions.backdrop # "false") = (q.backdrop # NoBackdrop),
           q.originalBodyPad = 0,
           q.pad = IF modalOptions.scrolls THEN 1 ELSE 0
    PROVE  Calm(RunShow(q))
  <1> DEFINE r == RunShow(q)
  <1>1. /\ Typed(r)
        /\ r = [q EXCEPT !.displayed = TRUE, !.in = TRUE, !.handlers = r.handlers,
                         !.pending = r.pending]
        /\ r.pending = IF modalOptions.fade
                       THEN [q.pending EXCEPT ![Dialog] =
                               Append(@, [callback |-> "shown", left |-> DialogDuration])]
                       ELSE q.pending
    BY RunShowTyped
  <1> HIDE DEF r
  <1>2. /\ r.isShown /\ r.bodyOpen /\ r.displayed /\ r.ending = << >>
        /\ r.backdrop = q.backdrop /\ r.backdrops = q.backdrops /\ r.originalBodyPad = 0
        /\ r.pad = IF modalOptions.scrolls THEN 1 ELSE 0
    BY <1>1 DEF Typed, ModalRecord
  <1>3. q.pending \in [Elements -> Seq(Callback)] /\ Dialog \in Elements
    BY ElementsDiffer DEF Typed, ModalRecord
  <1>4. /\ \A e \in Elements \ {Dialog} : r.pending[e] = << >>
        /\ Len(r.pending[Dialog]) <= 1
        /\ modalOptions.fade \/ r.pending[Dialog] = << >>
    <2>1. CASE modalOptions.fade
      BY <2>1, <1>1, <1>3, AppendFirst
    <2>2. CASE ~modalOptions.fade
      BY <2>2, <1>1, <1>3
    <2> QED BY <2>1, <2>2
  <1>5. Calm(r)
    BY <1>1, <1>2, <1>4, ShownCalm
  <1> QED BY <1>5 DEF r

LEMMA ShowCalm ==
    ASSUME NEW q, Roomy(q), Calm(q), Still(q), ~q.isShown, q.pad < MaxBackdrops
    PROVE  Calm(ModalShow(q))
  <1> DEFINE s == Opening(q)
             r == Backdrop(s, "show")
             id == CHOOSE i \in BackdropIds : i \notin s.backdrops
             a == Added(s, id)
  <1>1. /\ Typed(s)
        /\ s = [q EXCEPT !.isShown = TRUE, !.bodyOpen = TRUE, !.originalBodyPad = q.pad,
                         !.pad = s.pad, !.handlers = s.handlers, !.hurried = s.hurried]
        /\ s.pad = IF modalOptions.scrolls /\ ~q.bodyOpen THEN q.pad + 1 ELSE q.pad
    BY OpeningTyped DEF Roomy
  <1>2. ModalShow(q) = r
    BY ShowIs
  <1> HIDE DEF s
  <1>3. /\ ~q.displayed /\ ~q.bodyOpen /\ q.backdrop = NoBackdrop /\ q.backdrops = {}
        /\ q.pad = 0
    BY StillCalm DEF Roomy, Typed, ModalRecord
  <1>4. /\ s.isShown /\ s.bodyOpen /\ ~s.displayed /\ s.backdrop = NoBackdrop
        /\ s.backdrops = {} /\ s.pad = (IF modalOptions.scrolls THEN 1 ELSE 0)
        /\ s.originalBodyPad = 0 /\ s.pending = q.pending /\ s.ending = << >>
    <2>1. q.ending = << >>
      BY DEF Still
    <2>2. s.pad = IF modalOptions.scrolls THEN 1 ELSE 0
      BY <1>1, <1>3
    <2> QED BY <1>1, <1>3, <2>1, <2>2 DEF Roomy, Typed, ModalRecord
  <1>a. Typed(s)
    BY <1>1
  <1>b. s.isShown
    BY <1>4
  <1>5. \A e \in Elements : s.pending[e] = << >>
    BY <1>4 DEF Still, NothingWaits
  <1>6. Cardinality(s.backdrops) <= MaxBackdrops
    BY <1>4, FS_EmptySet, ElementsDiffer
  <1>7. CASE modalOptions.backdrop # "false"
    <2>1. /\ id \in BackdropIds
          /\ r = IF modalOptions.fade THEN Await(a, id, "show", BackdropDuration)
                 ELSE Run(a, "show")
      BY <1>a, <1>b, <1>6, <1>7, BackdropCases
    <2> HIDE DEF id, r
    <2>2. Typed(a) /\ a.pending = s.pending
      BY <1>1, <2>1, AddedTyped
    <2>3. /\ a.isShown /\ a.bodyOpen /\ ~a.displayed /\ a.ending = << >>
          /\ a.backdrop = id /\ a.backdrops = {id} /\ a.originalBodyPad = 0
          /\ a.pad = IF modalOptions.scrolls THEN 1 ELSE 0
      BY <1>1, <1>4 DEF Added, Typed, ModalRecord
    <2> HIDE DEF a
    <2>4. \A e \in Elements : a.pending[e] = << >>
      BY <1>5, <2>2
    <2>5. CASE modalOptions.fade
      <3> DEFINE w == Await(a, id, "show", BackdropDuration)
      <3>1. /\ id \in Elements /\ "show" \in CallbackOf(id)
            /\ BackdropDuration \in 0..DialogDuration
        BY <2>1, ElementsDiffer, ModalAssumption DEF CallbackOf
      <3>2. /\ Typed(w) /\ w = [a EXCEPT !.pending = w.pending]
            /\ w.pending = [a.pending EXCEPT ![id] =
                              Append(@, [callback |-> "show", left |-> BackdropDuration])]
        BY <2>2, <3>1, AwaitTyped, SMTT(40)
      <3>3. r = w
        BY <2>1, <2>5
      <3> HIDE DEF w
      <3>4. Calm(w)
        BY <1>7, <2>1, <2>2, <2>3, <2>4, <2>5, <3>2, ShowingCalm
      <3> QED BY <1>2, <3>3, <3>4 DEF r
    <2>6. CASE ~modalOptions.fade
      <3>1. Calm(RunShow(a))
        <4>1. /\ a.backdrops = {a.backdrop} \ {NoBackdrop}
              /\ (modalOptions.backdrop # "false") = (a.backdrop # NoBackdrop)
          BY <1>7, <2>1, <2>3, ElementsDiffer
        <4> QED BY <2>2, <2>3, <2>4, <4>1, FinalShow
      <3>2. r = RunShow(a)
        BY <2>1, <2>6 DEF Run
      <3> QED BY <1>2, <3>1, <3>2 DEF r
    <2> QED BY <2>5, <2>6
  <1>8. CASE modalOptions.backdrop = "false"
    <2>1. r = Run(s, "show")
      BY <1>1, <1>4, <1>6, <1>8, BackdropCases
    <2>2. r = RunShow(s)
      BY <2>1 DEF Run
    <2>3. Calm(RunShow(s))
      BY <1>1, <1>4, <1>5, <1>8, FinalShow
    <2> QED BY <1>2, <2>2, <2>3
  <1> QED BY <1>7, <1>8

\* hide awaits the dialog, whatever else is due.
LEMMA HidingCalm ==
    ASSUME NEW q, Roomy(q), Calm(q), q.isShown, q.ending = << >>, modalOptions.fade
    PROVE  Calm(ModalHide(q))
  <1> DEFINE s == Hiding(q)
             x == [callback |-> "hideModal", left |-> DialogDuration]
             r == Await(s, Element, "hideModal", DialogDuration)
  <1>1. Typed(s) /\ s = [q EXCEPT !.isShown = FALSE, !.in = FALSE, !.handlers = {}]
    BY HidingTyped DEF Roomy
  <1>2. ModalHide(q) = r
    BY HideIs
  <1> HIDE DEF s
  <1>3. /\ "hideModal" \in CallbackOf(Element) /\ DialogDuration \in 0..DialogDuration
        /\ Element \in Elements /\ Dialog \in Elements /\ Dialog # Element
        /\ Element \notin BackdropIds /\ BackdropIds \subseteq Elements
        /\ BackdropDuration \in Nat /\ DialogDuration \in Nat /\ BackdropDuration < DialogDuration
    BY ModalAssumption, ElementsDiffer DEF CallbackOf
  <1>a. Typed(s)
    BY <1>1
  <1>4. /\ Typed(r) /\ r = [s EXCEPT !.pending = r.pending]
        /\ r.pending = [s.pending EXCEPT ![Element] = Append(@, x)]
    BY <1>a, <1>3, AwaitTyped
  <1> HIDE DEF r
  <1>5. s.pending = q.pending
    BY <1>1 DEF Roomy, Typed, ModalRecord
  <1>6. /\ r.isShown = FALSE /\ r.handlers = {} /\ r.displayed = q.displayed
        /\ r.bodyOpen = q.bodyOpen /\ r.pad = q.pad /\ r.originalBodyPad = q.originalBodyPad
        /\ r.backdrop = q.backdrop /\ r.backdrops = q.backdrops /\ r.ending = q.ending
    BY <1>1, <1>4, ZenonT(60) DEF Roomy, Typed, ModalRecord
  <1>7. q.pending[Element] = << >> /\ q.pending \in [Elements -> Seq(Callback)]
    BY DEF Calm, Phase, HideDue, Roomy, Typed, ModalRecord
  <1>8. /\ r.pending[Element] # << >> /\ r.pending[Element][1] = x
        /\ \A f \in Elements : Len(q.pending[f]) <= 1 => Len(r.pending[f]) <= 1
        /\ \A f \in Elements : f # Element => r.pending[f] = q.pending[f]
    BY <1>3, <1>4, <1>5, <1>7, AppendFirst
  <1>9. x.callback = "hideModal" /\ x.left = DialogDuration
    OBVIOUS
  <1> HIDE DEF x
  <1>10. r.backdrop # NoBackdrop =>
           /\ r.backdrop \in BackdropIds /\ r.pending[r.backdrop] = q.pending[q.backdrop]
    BY <1>3, <1>6, <1>8 DEF Roomy, Typed, ModalRecord
  <1>11. /\ \A c : BackdropDue(r, c) = BackdropDue(q, c)
         /\ HideDue(r) /\ ShownDue(r) = ShownDue(q) /\ \A c : ~Ends(r, c)
    BY <1>3, <1>6, <1>8, <1>10 DEF BackdropDue, AwaitedOn, HideDue, ShownDue, Ends
  <1>12. Slots(r)
    <2>1. \A e \in Elements : Len(r.pending[e]) <= 1
      <3> SUFFICES ASSUME NEW e \in Elements PROVE Len(r.pending[e]) <= 1
        OBVIOUS
      <3>1. Len(q.pending[e]) <= 1
        BY DEF Calm, Slots
      <3> QED BY <1>8, <3>1
    <2>2. \A e \in BackdropIds : e # r.backdrop => r.pending[e] = << >>
      BY <1>3, <1>6, <1>8 DEF Calm, Slots
    <2>3. ~BackdropDue(r, "hidden") /\ Len(r.ending) <= 1
      BY <1>6, <1>11 DEF Calm, Slots
    <2> QED BY <1>11, <2>1, <2>2, <2>3 DEF Slots
  <1>13. Held(r)
    BY <1>6 DEF Calm, Held
  <1>14. Ordered(r)
    <2>1. BackdropDue(r, "show") => ~ShownDue(r) /\ ~Ends(r, "hideModal")
      BY <1>11 DEF Calm, Ordered
    <2>2. ASSUME r.backdrop # NoBackdrop, r.pending[r.backdrop] # << >>
          PROVE  /\ r.pending[r.backdrop][1].left <= BackdropDuration
                 /\ r.pending[r.backdrop][1].left < r.pending[Element][1].left
      <3> DEFINE l == q.pending[q.backdrop][1].left
      <3>1. l <= BackdropDuration /\ r.pending[r.backdrop][1].left = l
        BY <1>6, <1>10, <2>2 DEF Calm, Ordered
      <3>2. l \in Nat
        <4>1. q.pending[q.backdrop] \in Seq(Callback) /\ q.pending[q.backdrop] # << >>
          BY <1>3, <1>6, <1>7, <1>10, <2>2
        <4>2. q.pending[q.backdrop][1] \in Callback
          BY <4>1
        <4> QED BY <4>2 DEF Callback
      <3> HIDE DEF l
      <3>3. l < DialogDuration
        BY <1>3, <3>1, <3>2
      <3> QED BY <1>8, <1>9, <3>1, <3>3
    <2> QED BY <2>1, <2>2 DEF Ordered
  <1>15. Phase(r)
    <2>1. Open(q)
      BY DEF Calm, Phase
    <2>2. Open(r)
      BY <1>6, <1>11, <2>1 DEF Open
    <2> QED BY <1>6, <1>11, <2>2 DEF Phase
  <1> QED BY <1>2, <1>12, <1>13, <1>14, <1>15 DEF Calm

\* A modal that is hidden, with no callback due but that of the dialog.
LEMMA HiddenCalm ==
    ASSUME NEW q, Typed(q), ~q.isShown, ~q.bodyOpen, ~q.displayed, q.ending = << >>,
           \A e \in Elements \ {Dialog} : q.pending[e] = << >>,
           Len(q.pending[Dialog]) <= 1,
           modalOptions.fade \/ q.pending[Dialog] = << >>,
           q.backdrop = NoBackdrop, q.backdrops = {},
           q.handlers \subseteq {"focusin"}, q.pad = 0, q.originalBodyPad = 0
    PROVE  Calm(q)
  <1>1. /\ q.pending[Element] = << >>
        /\ \A e \in BackdropIds : q.pending[e] = << >>
    BY ElementsDiffer
  <1>2. /\ ~HideDue(q) /\ \A c : ~BackdropDue(q, c) /\ ~Ends(q, c)
    BY <1>1, ElementsDiffer DEF HideDue, BackdropDue, Ends
  <1>3. Slots(q)
    <2>1. ASSUME NEW e \in Elements PROVE Len(q.pending[e]) <= 1
      <3>1. e # Dialog => Len(q.pending[e]) = 0
        OBVIOUS
      <3> QED BY <3>1
    <2>2. Len(q.ending) <= 1
      OBVIOUS
    <2> QED BY <1>1, <1>2, <2>1, <2>2, ElementsDiffer DEF Slots
  <1>4. Held(q)
    BY DEF Held, Still, NothingWaits
  <1>5. Ordered(q)
    BY <1>2 DEF Ordered
  <1>6. Phase(q)
    BY <1>2 DEF Phase
  <1> QED BY <1>3, <1>4, <1>5, <1>6 DEF Calm

\* The callbacks of hide, when no backdrop is to fade.
LEMMA RunHiddenCalm ==
    ASSUME NEW q, Typed(q), ~q.isShown, ~q.displayed, q.ending = << >>,
           \A e \in Elements \ {Dialog} : q.pending[e] = << >>,
           Len(q.pending[Dialog]) <= 1,
           modalOptions.fade \/ q.pending[Dialog] = << >>,
           q.backdrop = NoBackdrop, q.backdrops = {},
           q.handlers \subseteq {"focusin"}, q.originalBodyPad = 0
    PROVE  Calm(RunHidden(q))
  <1> DEFINE r == RunHidden(q)
  <1>1. Typed(r) /\ r = [q EXCEPT !.bodyOpen = FALSE, !.pad = q.originalBodyPad]
    BY RunHiddenTyped
  <1> HIDE DEF r
  <1>2. /\ ~r.isShown /\ ~r.bodyOpen /\ ~r.displayed /\ r.ending = << >>
        /\ r.pending = q.pending /\ r.backdrop = NoBackdrop /\ r.backdrops = {}
        /\ r.handlers = q.handlers /\ r.pad = 0 /\ r.originalBodyPad = 0
    BY <1>1 DEF Typed, ModalRecord
  <1>3. Calm(r)
    BY <1>1, <1>2, HiddenCalm
  <1> QED BY <1>3 DEF r

LEMMA RemovedCalm ==
    ASSUME NEW q, Typed(q), ~q.isShown, ~q.displayed, q.ending = << >>,
           \A e \in Elements \ {Dialog} : e # q.backdrop => q.pending[e] = << >>,
           Len(q.pending[Dialog]) <= 1,
           modalOptions.fade \/ q.pending[Dialog] = << >>,
           q.backdrops = {q.backdrop} \ {NoBackdrop},
           q.handlers \subseteq {"focusin"}, q.originalBodyPad = 0
    PROVE  Calm(RunHidden(RemoveBackdrop(q)))
  <1> DEFINE s == RemoveBackdrop(q)
  <1>1. /\ Typed(s)
        /\ s = [q EXCEPT !.backdrops = s.backdrops, !.backdrop = NoBackdrop,
                         !.pending = s.pending]
        /\ s.backdrops = q.backdrops \ {q.backdrop}
        /\ s.pending = [e \in Elements |-> IF e = q.backdrop THEN << >> ELSE q.pending[e]]
    BY RemoveBackdropTyped
  <1> HIDE DEF s
  <1>2. /\ ~s.isShown /\ ~s.displayed /\ s.ending = << >>
        /\ s.backdrop = NoBackdrop /\ s.handlers = q.handlers /\ s.originalBodyPad = 0
    BY <1>1 DEF Typed, ModalRecord
  <1>3. s.backdrops = {}
    BY <1>1
  <1>4. /\ Dialog \in Elements /\ q.backdrop # Dialog
    BY ElementsDiffer DEF Typed, ModalRecord
  <1>5. /\ \A e \in Elements \ {Dialog} : s.pending[e] = << >>
        /\ s.pending[Dialog] = q.pending[Dialog]
    BY <1>1, <1>4
  <1>6. Calm(RunHidden(s))
    BY <1>1, <1>2, <1>3, <1>5, RunHiddenCalm
  <1> QED BY <1>6 DEF s

\* hideModal, of a dialog that was shown: its backdrop fades, or goes.
LEMMA HideModalCalm ==
    ASSUME NEW q, Typed(q), ~q.isShown, q.bodyOpen, q.ending = << >>,
           \A e \in Elements \ {Dialog} : q.pending[e] = << >>,
           Len(q.pending[Dialog]) <= 1,
           modalOptions.fade \/ q.pending[Dialog] = << >>,
           q.backdrops = {q.backdrop} \ {NoBackdrop},
           modalOptions.backdrop = "false" => q.backdrop = NoBackdrop,
           q.handlers \subseteq {"focusin"}, q.originalBodyPad = 0
    PROVE  Calm(HideModal(q))
  <1> DEFINE s == [q EXCEPT !.displayed = FALSE]
             r == Backdrop(s, "hidden")
  <1>1. HideModal(q) = r
    BY DEF HideModal
  <1>2. /\ s \in ModalRecord /\ s.pending = q.pending /\ s.ending = q.ending
        /\ s.isShown = FALSE /\ s.displayed = FALSE /\ s.bodyOpen = TRUE
        /\ s.backdrop = q.backdrop /\ s.backdrops = q.backdrops
        /\ s.handlers = q.handlers /\ s.originalBodyPad = 0
    BY DEF Typed, ModalRecord
  <1> HIDE DEF s
  <1>3. Typed(s)
    BY <1>2 DEF Typed, Kinds
  <1>4. CASE s.backdrop = NoBackdrop
    <2>1. r = Run(s, "hidden")
      BY <1>2, <1>3, <1>4, BackdropCases
    <2>2. r = RunHidden(s)
      BY <2>1 DEF Run
    <2>3. s.backdrops = {}
      BY <1>2, <1>4
    <2>4. Calm(RunHidden(s))
      BY <1>2, <1>3, <1>4, <2>3, RunHiddenCalm
    <2> QED BY <1>1, <2>2, <2>4
  <1>5. CASE s.backdrop # NoBackdrop
    <2> DEFINE w == Await(s, s.backdrop, "remove", BackdropDuration)
    <2>1. r = IF modalOptions.fade THEN w ELSE RunHidden(RemoveBackdrop(s))
      BY <1>2, <1>3, <1>5, BackdropCases
    <2>2. CASE ~modalOptions.fade
      <3>1. Calm(RunHidden(RemoveBackdrop(s)))
        BY <1>2, <1>3, RemovedCalm
      <3> QED BY <1>1, <2>1, <2>2, <3>1
    <2>3. CASE modalOptions.fade
      <3> DEFINE x == [callback |-> "remove", left |-> BackdropDuration]
      <3>0. PICK id : id = s.backdrop
        OBVIOUS
      <3> DEFINE v == Await(s, id, "remove", BackdropDuration)
      <3>1. /\ id \in BackdropIds /\ id \in Elements /\ id # Element /\ id # Dialog
            /\ id # NoBackdrop /\ Element \in Elements /\ Dialog \in Elements
            /\ BackdropIds \subseteq Elements
        BY <3>0, <1>5, <1>2, ElementsDiffer DEF ModalRecord
      <3>2. "remove" \in CallbackOf(id) /\ BackdropDuration \in 0..DialogDuration
        BY <3>1, ModalAssumption DEF CallbackOf
      <3>3. /\ Typed(v) /\ v = [s EXCEPT !.pending = v.pending]
            /\ v.pending = [s.pending EXCEPT ![id] = Append(@, x)]
        BY <1>3, <3>1, <3>2, AwaitTyped
      <3>a. r = v
        BY <2>1, <2>3, <3>0
      <3>4. s.pending \in [Elements -> Seq(Callback)] /\ s.pending[id] = << >>
        BY <1>2, <3>0, <3>1, ElementsDiffer DEF ModalRecord
      <3> HIDE DEF v
      <3>5. /\ v.pending[id] # << >> /\ v.pending[id][1] = x
            /\ \A f \in Elements : Len(s.pending[f]) <= 1 => Len(v.pending[f]) <= 1
            /\ \A f \in Elements : f # id => v.pending[f] = s.pending[f]
        BY <3>1, <3>3, <3>4, AppendFirst
      <3>6. x.callback = "remove" /\ x.left = BackdropDuration
        OBVIOUS
      <3> HIDE DEF x
      <3>7. /\ v.isShown = FALSE /\ v.displayed = FALSE /\ v.bodyOpen = TRUE
            /\ v.ending = << >> /\ v.backdrop = id /\ v.backdrops = {id}
            /\ v.handlers = q.handlers /\ v.originalBodyPad = 0
        BY <1>2, <1>5, <3>0, <3>3, SMTT(40) DEF ModalRecord
      <3>8. /\ ~HideDue(v) /\ ~BackdropDue(v, "show") /\ BackdropDue(v, "remove")
            /\ ~BackdropDue(v, "hidden") /\ \A c : ~Ends(v, c)
            /\ v.pending[Element] = << >> /\ v.pending[Dialog] = q.pending[Dialog]
        BY <1>2, <3>1, <3>5, <3>6, <3>7, ElementsDiffer DEF HideDue, BackdropDue, AwaitedOn, Ends
      <3>9. Slots(v)
        <4>1. ASSUME NEW e \in Elements PROVE Len(v.pending[e]) <= 1
          <5>1. e # Dialog /\ e # id => Len(q.pending[e]) = 0
            BY <1>2, <3>0
          <5>2. Len(s.pending[id]) <= 1
            BY <3>4
          <5>3. Len(s.pending[e]) <= 1
            BY <1>2, <5>1, <5>2
          <5> QED BY <3>5, <5>3
        <4>2. \A e \in BackdropIds : e # v.backdrop => v.pending[e] = << >>
          BY <1>2, <3>1, <3>5, <3>7, ElementsDiffer
        <4>3. Len(v.ending) <= 1
          BY <3>7
        <4> QED BY <3>8, <4>1, <4>2, <4>3 DEF Slots
      <3>10. Held(v)
        BY <1>2, <2>3, <3>0, <3>1, <3>7 DEF Held
      <3>11. Ordered(v)
        <4>1. BackdropDuration <= BackdropDuration
          BY ModalAssumption
        <4> QED BY <3>5, <3>6, <3>7, <3>8, <4>1 DEF Ordered
      <3>12. Phase(v)
        BY <3>7, <3>8 DEF Phase
      <3>13. Calm(v)
        BY <3>9, <3>10, <3>11, <3>12 DEF Calm
      <3> QED BY <1>1, <3>a, <3>13
    <2> QED BY <2>2, <2>3
  <1> QED BY <1>4, <1>5

LEMMA HideCalm ==
    ASSUME NEW q, Roomy(q), Calm(q), q.ending = << >>
    PROVE  Calm(ModalHide(q))
  <1>1. CASE ~q.isShown
    BY <1>1, HideIs
  <1>2. CASE q.isShown /\ modalOptions.fade
    BY <1>2, HidingCalm
  <1>3. CASE q.isShown /\ ~modalOptions.fade
    <2> DEFINE s == Hiding(q)
    <2>1. Typed(s) /\ s = [q EXCEPT !.isShown = FALSE, !.in = FALSE, !.handlers = {}]
      BY HidingTyped DEF Roomy
    <2>2. ModalHide(q) = HideModal(s)
      BY <1>3, HideIs
    <2> HIDE DEF s
    <2>3. Still(q)
      BY <1>3 DEF Calm, Held
    <2>4. /\ q.bodyOpen /\ q.backdrops = {q.backdrop} \ {NoBackdrop}
          /\ modalOptions.backdrop = "false" => q.backdrop = NoBackdrop
          /\ q.originalBodyPad = 0
      BY <1>3, <2>3, StillCalm DEF Roomy
    <2>5. /\ ~s.isShown /\ s.bodyOpen /\ s.ending = << >> /\ s.pending = q.pending
          /\ s.backdrop = q.backdrop /\ s.backdrops = q.backdrops
          /\ s.handlers = {} /\ s.originalBodyPad = 0
      BY <2>1, <2>4 DEF Roomy, Typed, ModalRecord
    <2>6. /\ \A e \in Elements : s.pending[e] = << >>
          /\ s.pending[Dialog] = << >> /\ Len(s.pending[Dialog]) <= 1
      BY <2>3, <2>5, ElementsDiffer DEF Still, NothingWaits
    <2>7. Calm(HideModal(s))
      BY <2>1, <2>4, <2>5, <2>6, HideModalCalm
    <2> QED BY <2>2, <2>7
  <1> QED BY <1>1, <1>2, <1>3

\* The same callbacks are due, of a modal that is the same.
LEMMA SameCalm ==
    ASSUME NEW q, Typed(q), Calm(q), NEW r, Typed(r), Slots(r), Ordered(r),
           r.isShown = q.isShown, r.displayed = q.displayed, r.bodyOpen = q.bodyOpen,
           r.pad = q.pad, r.originalBodyPad = q.originalBodyPad,
           r.backdrop = q.backdrop, r.backdrops = q.backdrops,
           ~q.isShown => r.handlers \subseteq {"focusin"},
           modalOptions.fade \/ Still(r),
           HideDue(r) = HideDue(q),
           BackdropDue(r, "show") = BackdropDue(q, "show"),
           BackdropDue(r, "remove") = BackdropDue(q, "remove")
    PROVE  Calm(r)
  <1>1. Held(r)
    BY DEF Calm, Held
  <1>2. Open(q) => Open(r)
    BY DEF Open
  <1>3. Phase(r)
    BY <1>2 DEF Calm, Phase
  <1> QED BY <1>1, <1>3 DEF Calm

LEMMA HandlersCalm ==
    ASSUME NEW q, Typed(q), Calm(q), NEW h \in SUBSET Handlers, NEW b \in BOOLEAN,
           ~q.isShown => h \subseteq {"focusin"}
    PROVE  Calm([q EXCEPT !.handlers = h, !.ignoreBackdropClick = b])
  <1> DEFINE r == [q EXCEPT !.handlers = h, !.ignoreBackdropClick = b]
  <1>1. /\ r \in ModalRecord /\ r.pending = q.pending /\ r.ending = q.ending
        /\ r.isShown = q.isShown /\ r.displayed = q.displayed /\ r.bodyOpen = q.bodyOpen
        /\ r.pad = q.pad /\ r.originalBodyPad = q.originalBodyPad
        /\ r.backdrop = q.backdrop /\ r.backdrops = q.backdrops /\ r.handlers = h
    BY DEF Typed, ModalRecord
  <1> HIDE DEF r
  <1>2. Typed(r)
    BY <1>1 DEF Typed, Kinds
  <1>3. /\ HideDue(r) = HideDue(q) /\ ShownDue(r) = ShownDue(q)
        /\ \A c : Ends(r, c) = Ends(q, c) /\ BackdropDue(r, c) = BackdropDue(q, c)
    BY <1>1 DEF HideDue, ShownDue, Ends, BackdropDue, AwaitedOn
  <1>4. Slots(r)
    BY <1>1, <1>3 DEF Calm, Slots
  <1>5. Ordered(r)
    BY <1>1, <1>3 DEF Calm, Ordered
  <1>6. modalOptions.fade \/ Still(r)
    BY <1>1 DEF Calm, Held, Still, NothingWaits
  <1>7. Calm(r)
    BY <1>1, <1>2, <1>3, <1>4, <1>5, <1>6, SameCalm
  <1> QED BY <1>7 DEF r

\* What waits on an element is of its kind.
LEMMA KindOf ==
    ASSUME NEW q, Typed(q), NEW e \in Elements, q.pending[e] # << >>
    PROVE  /\ q.pending[e][1].callback \in CallbackOf(e)
           /\ q.pending[e][1].left \in 0..DialogDuration
  <1>1. q.pending[e] \in Seq(WaitsOn(e))
    BY DEF Typed, Kinds
  <1>2. q.pending[e][1] \in WaitsOn(e)
    BY <1>1
  <1> QED BY <1>2 DEF WaitsOn

\* A transition ends: of an element that is on the screen, or whose timer is up.
LEMMA EndCalm ==
    ASSUME NEW q, Roomy(q), Calm(q), q.ending = << >>, NEW e \in Elements,
           q.pending[e] # << >>,
           \/ e \in {Element, Dialog} => q.displayed
           \/ q.pending[e][1].left = 0
    PROVE  Calm(TransitionEnd(q, e))
  <1> DEFINE r == TransitionEnd(q, e)
  <1>1. /\ Roomy(r) /\ r = [q EXCEPT !.ending = q.pending[e], !.pending = r.pending]
        /\ r.pending = [q.pending EXCEPT ![e] = << >>]
    BY EndRoomy
  <1> HIDE DEF r
  <1>2. /\ r.isShown = q.isShown /\ r.displayed = q.displayed /\ r.bodyOpen = q.bodyOpen
        /\ r.pad = q.pad /\ r.originalBodyPad = q.originalBodyPad
        /\ r.backdrop = q.backdrop /\ r.backdrops = q.backdrops /\ r.handlers = q.handlers
        /\ r.ending = q.pending[e]
    BY <1>1 DEF Roomy, Typed, ModalRecord
  <1>3. /\ r.pending[e] = << >> /\ \A f \in Elements : f # e => r.pending[f] = q.pending[f]
        /\ Element \in Elements /\ Dialog \in Elements /\ BackdropIds \subseteq Elements
        /\ NoBackdrop \notin Elements /\ Elements = {Element, Dialog} \cup BackdropIds
        /\ Element # Dialog /\ Element \notin BackdropIds /\ Dialog \notin BackdropIds
    BY <1>1, ElementsDiffer DEF Roomy, Typed, ModalRecord, Elements
  <1> DEFINE c == q.pending[e][1].callback
  <1>4. c \in CallbackOf(e)
    BY KindOf DEF Roomy
  <1>5. \A d : Ends(r, d) = (d = c) /\ ~Ends(q, d)
    BY <1>2 DEF Ends
  <1>6. modalOptions.fade
    BY DEF Calm, Held, Still, NothingWaits
  <1>7. q.backdrop # NoBackdrop => q.backdrop \in BackdropIds
    BY DEF Roomy, Typed, ModalRecord
  <1>8. /\ Slots(q) /\ Ordered(q) /\ Phase(q)
    BY DEF Calm
  <1>a. /\ Len(r.ending) <= 1 /\ \A f \in Elements : Len(r.pending[f]) <= 1
    <2>1. \A f \in Elements : Len(q.pending[f]) <= 1
      BY <1>8 DEF Slots
    <2>2. Len(<< >>) <= 1
      OBVIOUS
    <2> QED BY <1>2, <1>3, <2>1, <2>2
  <1> HIDE DEF c
  <1>9. CASE e = Element
    <2>1. c = "hideModal"
      BY <1>4, <1>9 DEF CallbackOf
    <2>2. q.backdrop # NoBackdrop => r.pending[q.backdrop] = q.pending[q.backdrop]
      BY <1>3, <1>7, <1>9
    <2>3. /\ HideDue(r) = HideDue(q) /\ HideDue(q) /\ ShownDue(r) = ShownDue(q)
          /\ \A d : d # "hideModal" => BackdropDue(r, d) = BackdropDue(q, d)
      <3>1. HideDue(r) = HideDue(q) /\ HideDue(q)
        BY <1>3, <1>5, <1>9, <2>1 DEF HideDue
      <3>2. ShownDue(r) = ShownDue(q)
        BY <1>3, <1>5, <1>9, <2>1 DEF ShownDue
      <3>3. ASSUME NEW d, d # "hideModal" PROVE BackdropDue(r, d) = BackdropDue(q, d)
        BY <1>2, <1>5, <2>1, <2>2, <3>3 DEF BackdropDue, AwaitedOn
      <3> QED BY <3>1, <3>2, <3>3
    <2>4. ~BackdropDue(q, "show")
      <3>1. Open(q)
        BY <1>8, <2>3 DEF Phase
      <3>2. CASE q.displayed
        BY <3>1, <3>2 DEF Open
      <3>3. CASE q.pending[e][1].left = 0
        <4> SUFFICES ASSUME BackdropDue(q, "show") PROVE FALSE
          OBVIOUS
        <4>1. q.backdrop # NoBackdrop /\ q.pending[q.backdrop] # << >>
          BY <1>5 DEF BackdropDue, AwaitedOn
        <4>2. q.pending[q.backdrop][1].left \in 0..DialogDuration
          BY <1>3, <1>7, <4>1, KindOf DEF Roomy
        <4>3. q.pending[q.backdrop][1].left < 0
          BY <1>8, <1>9, <3>3, <4>1 DEF Ordered
        <4> QED BY <4>2, <4>3
      <3> QED BY <1>9, <3>2, <3>3
    <2>5. Slots(r)
      <3>1. \A f \in BackdropIds : f # r.backdrop => r.pending[f] = << >>
        BY <1>2, <1>3, <1>8, <1>9 DEF Slots
      <3>2. ~BackdropDue(r, "hidden")
        BY <1>8, <2>3 DEF Slots
      <3>3. /\ Ends(r, "hideModal") => r.pending[Element] = << >>
            /\ Ends(r, "shown") => r.pending[Dialog] = << >>
            /\ ~Ends(r, "show") /\ ~Ends(r, "remove")
        BY <1>3, <1>5, <1>9, <2>1
      <3> QED BY <1>a, <3>1, <3>2, <3>3 DEF Slots
    <2>6. Ordered(r)
      BY <1>2, <1>3, <1>7, <1>8, <1>9, <2>2, <2>3, <2>4 DEF Ordered
    <2> QED BY <1>1, <1>2, <1>6, <1>8, <2>3, <2>5, <2>6, SameCalm, ZenonT(60) DEF Roomy, Phase, r
  <1>10. CASE e = Dialog
    <2>1. c = "shown"
      BY <1>3, <1>4, <1>10 DEF CallbackOf
    <2>2. q.backdrop # NoBackdrop => r.pending[q.backdrop] = q.pending[q.backdrop]
      BY <1>3, <1>7, <1>10
    <2>3. /\ HideDue(r) = HideDue(q) /\ ShownDue(r) /\ ShownDue(q)
          /\ \A d : d # "shown" => BackdropDue(r, d) = BackdropDue(q, d)
      <3>1. HideDue(r) = HideDue(q)
        BY <1>3, <1>5, <1>10, <2>1 DEF HideDue
      <3>2. ShownDue(r) /\ ShownDue(q)
        BY <1>3, <1>5, <1>10, <2>1 DEF ShownDue
      <3>3. ASSUME NEW d, d # "shown" PROVE BackdropDue(r, d) = BackdropDue(q, d)
        BY <1>2, <1>5, <2>1, <2>2, <3>3 DEF BackdropDue, AwaitedOn
      <3> QED BY <3>1, <3>2, <3>3
    <2>5. Slots(r)
      <3>1. \A f \in BackdropIds : f # r.backdrop => r.pending[f] = << >>
        BY <1>2, <1>3, <1>8, <1>10 DEF Slots
      <3>2. ~BackdropDue(r, "hidden")
        BY <1>8, <2>3 DEF Slots
      <3>3. /\ Ends(r, "hideModal") => r.pending[Element] = << >>
            /\ Ends(r, "shown") => r.pending[Dialog] = << >>
            /\ ~Ends(r, "show") /\ ~Ends(r, "remove")
        BY <1>3, <1>5, <1>10, <2>1
      <3> QED BY <1>a, <3>1, <3>2, <3>3 DEF Slots
    <2>6. Ordered(r)
      BY <1>2, <1>3, <1>7, <1>8, <1>10, <2>2, <2>3 DEF Ordered
    <2> QED BY <1>1, <1>2, <1>6, <1>8, <2>3, <2>5, <2>6, SameCalm, ZenonT(60) DEF Roomy, Phase, r
  <1>11. CASE e \in BackdropIds
    <2>1. e = q.backdrop /\ q.backdrop # NoBackdrop
      BY <1>3, <1>8, <1>11 DEF Slots
    <2>2. c \in {"show", "remove", "hidden"}
      BY <1>3, <1>4, <1>11 DEF CallbackOf
    <2>3. /\ HideDue(r) = HideDue(q) /\ ShownDue(r) = ShownDue(q)
          /\ \A d : BackdropDue(r, d) = BackdropDue(q, d)
      BY <1>2, <1>3, <1>5, <1>11, <2>1, <2>2
         DEF HideDue, ShownDue, BackdropDue, AwaitedOn, c
    <2>5. Slots(r)
      <3>1. \A f \in BackdropIds : f # r.backdrop => r.pending[f] = << >>
        BY <1>2, <1>3, <1>8, <2>1 DEF Slots
      <3>2. ~BackdropDue(r, "hidden")
        BY <1>8, <2>3 DEF Slots
      <3>3. ~Ends(r, "hideModal") /\ ~Ends(r, "shown")
        BY <1>5, <2>2
      <3>4. r.backdrop # NoBackdrop /\ r.pending[r.backdrop] = << >>
        BY <1>2, <1>3, <2>1
      <3> QED BY <1>a, <3>1, <3>2, <3>3, <3>4 DEF Slots
    <2>6. Ordered(r)
      BY <1>2, <1>3, <1>5, <1>8, <1>11, <2>1, <2>2, <2>3 DEF Ordered
    <2> QED BY <1>1, <1>2, <1>6, <1>8, <2>3, <2>5, <2>6, SameCalm DEF Roomy, Phase, r
  <1> QED BY <1>3, <1>9, <1>10, <1>11

\* The callback of the event runs: the dialog is shown, or its hide goes on.
LEMMA FireCalm ==
    ASSUME NEW q, Roomy(q), Calm(q), q.ending # << >>
    PROVE  Calm(ModalFire([q EXCEPT !.ending = Tail(@)], Head(q.ending).callback))
  <1> DEFINE s == [q EXCEPT !.ending = Tail(@)]
             c == Head(q.ending).callback
  <1>1. q.ending \in Seq(Callback) /\ Len(q.ending) <= 1
    BY DEF Roomy, Typed, ModalRecord, Calm, Slots
  <1>2. Tail(q.ending) = << >> /\ Head(q.ending) = q.ending[1] /\ q.ending[1] \in Callback
    BY <1>1
  <1>3. Typed(s)
    BY TailTyped DEF Roomy
  <1>4. /\ s.isShown = q.isShown /\ s.displayed = q.displayed /\ s.bodyOpen = q.bodyOpen
        /\ s.pad = q.pad /\ s.originalBodyPad = q.originalBodyPad
        /\ s.backdrop = q.backdrop /\ s.backdrops = q.backdrops /\ s.handlers = q.handlers
        /\ s.ending = << >> /\ s.pending = q.pending
    BY <1>2 DEF Roomy, Typed, ModalRecord
  <1> HIDE DEF s
  <1>5. \A d : /\ Ends(q, d) = (d = c) /\ ~Ends(s, d)
    BY <1>2, <1>4 DEF Ends
  <1>6. c \in {"show", "shown", "hideModal", "hidden", "remove"}
    BY <1>2 DEF Callback
  <1> HIDE DEF c
  <1>7. modalOptions.fade
    BY DEF Calm, Held, Still
  <1>8. Slots(q) /\ Held(q) /\ Ordered(q) /\ Phase(q)
    BY DEF Calm
  <1>9. /\ Element \in Elements /\ Dialog \in Elements /\ BackdropIds \subseteq Elements
        /\ NoBackdrop \notin Elements /\ Elements = {Element, Dialog} \cup BackdropIds
        /\ Element # Dialog /\ Element \notin BackdropIds /\ Dialog \notin BackdropIds
        /\ q.backdrop # NoBackdrop => q.backdrop \in BackdropIds
    BY ElementsDiffer DEF Elements, Roomy, Typed, ModalRecord
  <1>10. /\ \A e \in Elements : Len(s.pending[e]) <= 1
         /\ \A e \in BackdropIds : e # s.backdrop => s.pending[e] = << >>
    BY <1>4, <1>8 DEF Slots
  <1>11. /\ s.backdrops = {s.backdrop} \ {NoBackdrop}
         /\ modalOptions.backdrop = "false" => s.backdrop = NoBackdrop
         /\ s.originalBodyPad = 0
    BY <1>4, <1>8 DEF Held
  <1>12. CASE c = "hideModal"
    <2>1. HideDue(q) /\ q.pending[Element] = << >> /\ ~BackdropDue(q, "show")
      BY <1>5, <1>8, <1>12 DEF HideDue, Slots, Ordered
    <2>2. ~q.isShown /\ Open(q) /\ q.handlers \subseteq {"focusin"}
      BY <1>8, <2>1 DEF Phase
    <2>3. q.backdrop # NoBackdrop => q.pending[q.backdrop] = << >>
      <3> SUFFICES ASSUME q.backdrop # NoBackdrop, q.pending[q.backdrop] # << >> PROVE FALSE
        OBVIOUS
      <3>1. q.pending[q.backdrop][1].callback \in {"show", "remove", "hidden"}
        BY <1>9, KindOf DEF Roomy, CallbackOf
      <3> QED BY <1>8, <2>1, <2>2, <3>1 DEF Slots, Open, BackdropDue, AwaitedOn
    <2>4. \A e \in Elements \ {Dialog} : s.pending[e] = << >>
      BY <1>4, <1>9, <1>10, <2>1, <2>3
    <2>5. ~s.isShown /\ s.bodyOpen /\ s.handlers \subseteq {"focusin"}
      BY <1>4, <2>2 DEF Open
    <2>6. Calm(HideModal(s))
      BY <1>3, <1>4, <1>7, <1>9, <1>10, <1>11, <2>4, <2>5, HideModalCalm
    <2> QED BY <1>12, <2>6 DEF ModalFire, s, c
  <1>13. CASE c = "remove"
    <2>1. BackdropDue(q, "remove") /\ q.backdrop # NoBackdrop /\ q.pending[q.backdrop] = << >>
      BY <1>5, <1>8, <1>13 DEF BackdropDue, Slots
    <2>2. /\ ~q.isShown /\ ~HideDue(q) /\ ~q.displayed /\ q.handlers \subseteq {"focusin"}
      BY <1>8, <2>1 DEF Phase, Open
    <2>3. \A e \in Elements \ {Dialog} : e # s.backdrop => s.pending[e] = << >>
      BY <1>4, <1>9, <1>10, <2>2 DEF HideDue
    <2>4. Calm(RunHidden(RemoveBackdrop(s)))
      BY <1>3, <1>4, <1>7, <1>9, <1>10, <1>11, <2>2, <2>3, RemovedCalm
    <2> QED BY <1>13, <2>4 DEF ModalFire, s, c
  <1>14. CASE c = "shown"
    <2>1. /\ HideDue(s) = HideDue(q)
          /\ \A d : d # "shown" => BackdropDue(s, d) = BackdropDue(q, d)
      BY <1>4, <1>5, <1>14 DEF HideDue, BackdropDue, AwaitedOn
    <2>2. Slots(s)
      <3>1. Len(s.ending) <= 1
        BY <1>4
      <3>2. ~BackdropDue(s, "hidden")
        BY <1>8, <2>1 DEF Slots
      <3> QED BY <1>5, <1>10, <3>1, <3>2 DEF Slots
    <2>3. Ordered(s)
      <3>1. ~BackdropDue(s, "show")
        BY <1>5, <1>8, <1>14, <2>1 DEF Ordered, ShownDue
      <3> QED BY <1>4, <1>8, <3>1 DEF Ordered
    <2>4. ~q.isShown => s.handlers \subseteq {"focusin"}
      BY <1>4, <1>8 DEF Phase
    <2>5. Calm(s)
      BY <1>3, <1>4, <1>7, <2>1, <2>2, <2>3, <2>4, SameCalm DEF Roomy
    <2> QED BY <1>14, <2>5 DEF ModalFire, s, c
  <1>15. CASE c = "show"
    <2> DEFINE r == RunShow(s)
               x == [callback |-> "shown", left |-> DialogDuration]
    <2>1. /\ Typed(r)
          /\ r = [s EXCEPT !.displayed = TRUE, !.in = TRUE, !.handlers = r.handlers,
                           !.pending = r.pending]
          /\ r.handlers = s.handlers \cup {"focusin"}
          /\ r.pending = IF modalOptions.fade THEN [s.pending EXCEPT ![Dialog] = Append(@, x)]
                         ELSE s.pending
      BY <1>3, RunShowTyped
    <2> HIDE DEF r
    <2>2. BackdropDue(q, "show") /\ q.backdrop # NoBackdrop /\ q.pending[q.backdrop] = << >>
      BY <1>5, <1>8, <1>15 DEF BackdropDue, Slots
    <2>3. q.pending[Dialog] = << >>
      BY <1>8, <2>2 DEF Ordered, ShownDue
    <2>4. Open(q) /\ (~q.isShown => q.handlers \subseteq {"focusin"} /\ HideDue(q))
          /\ (q.isShown => ~HideDue(q))
      BY <1>8, <2>2 DEF Phase
    <2>5. s.pending \in [Elements -> Seq(Callback)]
      BY <1>3 DEF Typed, ModalRecord
    <2>6. /\ \A e \in Elements : Len(r.pending[e]) <= 1
          /\ \A e \in Elements : e # Dialog => r.pending[e] = s.pending[e]
      BY <1>4, <1>7, <1>9, <1>10, <2>1, <2>3, <2>5, AppendFirst
    <2>7. /\ r.isShown = q.isShown /\ r.displayed = TRUE /\ r.bodyOpen = q.bodyOpen
          /\ r.pad = q.pad /\ r.originalBodyPad = 0
          /\ r.backdrop = q.backdrop /\ r.backdrops = q.backdrops
          /\ r.handlers = q.handlers \cup {"focusin"} /\ r.ending = << >>
      BY <1>4, <1>11, <2>1, ZenonT(60) DEF Typed, ModalRecord
    <2>8. /\ HideDue(r) = HideDue(q) /\ \A d : ~Ends(r, d) /\ ~BackdropDue(r, d)
      BY <1>4, <1>5, <1>9, <1>15, <2>2, <2>6, <2>7 DEF HideDue, BackdropDue, AwaitedOn, Ends
    <2>9. Slots(r)
      <3>1. Len(r.ending) <= 1
        BY <2>7
      <3> QED BY <1>4, <1>9, <1>10, <2>6, <2>7, <2>8, <3>1 DEF Slots
    <2>10. Held(r)
      BY <1>4, <1>7, <1>11, <2>7 DEF Held
    <2>11. Ordered(r)
      BY <1>4, <1>9, <2>2, <2>6, <2>7, <2>8 DEF Ordered
    <2>12. Phase(r)
      <3>1. Open(r)
        BY <2>4, <2>7, <2>8 DEF Open
      <3> QED BY <2>4, <2>7, <2>8, <3>1 DEF Phase
    <2>13. Calm(r)
      BY <2>9, <2>10, <2>11, <2>12 DEF Calm
    <2> QED BY <1>15, <2>13 DEF ModalFire, Run, r, s, c
  <1>16. c # "hidden"
    BY <1>5, <1>8 DEF Slots, BackdropDue
  <1> QED BY <1>6, <1>12, <1>13, <1>14, <1>15, <1>16

\* Time goes by for all that wait alike.
LEMMA TickCalm ==
    ASSUME NEW q, Roomy(q), Calm(q), q.ending = << >>,
           \A e \in Elements : \A i \in DOMAIN q.pending[e] : q.pending[e][i].left > 0
    PROVE  Calm(TickOf(q))
  <1> DEFINE r == TickOf(q)
  <1>1. Typed(r)
    BY TickRoomy DEF Roomy
  <1>2. r = [q EXCEPT !.pending = [e \in Elements |-> Ticked(q.pending[e])]]
    BY DEF TickOf
  <1> HIDE DEF r
  <1>3. /\ r.isShown = q.isShown /\ r.displayed = q.displayed /\ r.bodyOpen = q.bodyOpen
        /\ r.pad = q.pad /\ r.originalBodyPad = q.originalBodyPad
        /\ r.backdrop = q.backdrop /\ r.backdrops = q.backdrops /\ r.handlers = q.handlers
        /\ r.ending = q.ending
    BY <1>2 DEF Roomy, Typed, ModalRecord
  <1>4. \A e \in Elements : r.pending[e] = Ticked(q.pending[e])
    BY <1>2 DEF Roomy, Typed, ModalRecord
  <1>5. ASSUME NEW e \in Elements
        PROVE  /\ Len(r.pending[e]) = Len(q.pending[e])
               /\ (r.pending[e] = << >>) = (q.pending[e] = << >>)
               /\ q.pending[e] # << >> =>
                    /\ r.pending[e][1].callback = q.pending[e][1].callback
                    /\ r.pending[e][1].left = q.pending[e][1].left - 1
                    /\ q.pending[e][1].left \in Int
    <2> DEFINE t == q.pending[e]
    <2>1. t \in Seq(WaitsOn(e)) /\ \A i \in DOMAIN t : t[i].left > 0
      BY DEF Roomy, Typed, Kinds
    <2>2. r.pending[e] = Ticked(t)
      BY <1>4
    <2>3. t # << >> => t[1].left \in 0..DialogDuration
      BY KindOf DEF Roomy
    <2> HIDE DEF t
    <2>4. /\ Ticked(t) \in Seq(WaitsOn(e)) /\ Len(Ticked(t)) = Len(t)
          /\ \A i \in DOMAIN t : /\ Ticked(t)[i].callback = t[i].callback
                                 /\ Ticked(t)[i].left = t[i].left - 1
      BY <2>1, TickedSeq
    <2>5. (Ticked(t) = << >>) = (t = << >>)
      BY <2>1, <2>4
    <2>6. t # << >> => 1 \in DOMAIN t
      BY <2>1
    <2> QED BY <2>2, <2>3, <2>4, <2>5, <2>6 DEF t
  <1>6. /\ Element \in Elements /\ Dialog \in Elements /\ BackdropIds \subseteq Elements
        /\ q.backdrop # NoBackdrop => q.backdrop \in Elements
    BY ElementsDiffer DEF Roomy, Typed, ModalRecord
  <1>7. /\ HideDue(r) = HideDue(q) /\ ShownDue(r) = ShownDue(q)
        /\ \A d : Ends(r, d) = Ends(q, d) /\ BackdropDue(r, d) = BackdropDue(q, d)
    BY <1>3, <1>5, <1>6 DEF HideDue, ShownDue, Ends, BackdropDue, AwaitedOn
  <1>8. Slots(r)
    BY <1>3, <1>5, <1>6, <1>7 DEF Calm, Slots
  <1>9. Ordered(r)
    <2>1. BackdropDue(r, "show") => ~ShownDue(r) /\ ~Ends(r, "hideModal")
      BY <1>7 DEF Calm, Ordered
    <2>2. ASSUME r.backdrop # NoBackdrop, r.pending[r.backdrop] # << >>
          PROVE  /\ r.pending[r.backdrop][1].left <= BackdropDuration
                 /\ r.pending[Element] # << >> =>
                      r.pending[r.backdrop][1].left < r.pending[Element][1].left
      <3>1. /\ q.backdrop \in Elements /\ q.pending[q.backdrop] # << >>
            /\ r.pending[r.backdrop][1].left = q.pending[q.backdrop][1].left - 1
            /\ q.pending[q.backdrop][1].left \in Int
        BY <1>3, <1>5, <1>6, <2>2
      <3>2. /\ q.pending[q.backdrop][1].left <= BackdropDuration
            /\ q.pending[Element] # << >> =>
                 q.pending[q.backdrop][1].left < q.pending[Element][1].left
        BY <1>3, <2>2, <3>1 DEF Calm, Ordered
      <3>3. BackdropDuration \in Nat
        BY ModalAssumption
      <3> DEFINE a == q.pending[q.backdrop][1].left
                 b == q.pending[Element][1].left
      <3>4. /\ a \in Int /\ r.pending[r.backdrop][1].left = a - 1
            /\ a <= BackdropDuration
            /\ r.pending[Element] # << >> =>
                 b \in Int /\ a < b /\ r.pending[Element][1].left = b - 1
        BY <1>5, <1>6, <3>1, <3>2
      <3> HIDE DEF a, b
      <3> QED BY <3>3, <3>4
    <2> QED BY <2>1, <2>2 DEF Ordered
  <1>10. modalOptions.fade \/ Still(r)
    BY <1>3, <1>5 DEF Calm, Held, Still, NothingWaits
  <1>11. ~q.isShown => r.handlers \subseteq {"focusin"}
    BY <1>3 DEF Calm, Phase
  <1> QED BY <1>1, <1>3, <1>7, <1>8, <1>9, <1>10, <1>11, SameCalm DEF Roomy, r

\* What a show, a hide, a callback and an end of transition make of Inv(q).
Good(q) == Roomy(q) /\ (~q.hurried => Calm(q))

LEMMA ShowGood ==
    ASSUME NEW q, Good(q), q.ending = << >>, q.pad < MaxBackdrops,
           Cardinality(q.backdrops) + Len(q.pending[Element]) <= MaxBackdrops
    PROVE  Good(ModalShow(q))
  <1> DEFINE r == ModalShow(q)
             s == Opening(q)
  <1>1. Roomy(r)
    BY ShowRoomy DEF Good
  <1>2. CASE q.isShown
    BY <1>2, ShowIs
  <1>3. CASE ~q.isShown
    <2>1. r = Backdrop(s, "show")
      BY <1>3, ShowIs
    <2>2. /\ Typed(s) /\ s.hurried = (q.hurried \/ ~NothingWaits(q))
          /\ s = [q EXCEPT !.isShown = TRUE, !.bodyOpen = TRUE, !.originalBodyPad = q.pad,
                           !.pad = s.pad, !.handlers = s.handlers, !.hurried = s.hurried]
      BY OpeningTyped DEF Good, Roomy
    <2> HIDE DEF s
    <2>3. Cardinality(s.backdrops) <= MaxBackdrops
      <3>1. s.backdrops = q.backdrops
        BY <2>2 DEF Good, Roomy, Typed, ModalRecord
      <3>2. Cardinality(q.backdrops) \in Nat /\ Len(q.pending[Element]) \in Nat
        BY CountsTyped DEF Good, Roomy
      <3> QED BY <3>1, <3>2, ElementsDiffer
    <2>4. Alike(s, Backdrop(s, "show"))
      BY <2>2, <2>3, BackdropTyped
    <2>5. r.hurried = (q.hurried \/ ~NothingWaits(q))
      BY <2>1, <2>2, <2>4 DEF Alike
    <2>6. ~r.hurried => Calm(r)
      BY <1>3, <2>5, ShowCalm DEF Good, Still
    <2> QED BY <1>1, <2>6 DEF Good
  <1> QED BY <1>2, <1>3

LEMMA HideGood ==
    ASSUME NEW q, Good(q), q.ending = << >>
    PROVE  Good(ModalHide(q))
  <1> DEFINE r == ModalHide(q)
             s == Hiding(q)
  <1>1. Roomy(r)
    BY HideRoomy DEF Good
  <1>2. CASE ~q.isShown
    BY <1>2, HideIs
  <1>3. CASE q.isShown
    <2>1. r = IF modalOptions.fade THEN Await(s, Element, "hideModal", DialogDuration)
              ELSE HideModal(s)
      BY <1>3, HideIs
    <2>2. Typed(s) /\ s = [q EXCEPT !.isShown = FALSE, !.in = FALSE, !.handlers = {}]
      BY HidingTyped DEF Good, Roomy
    <2> HIDE DEF s, r
    <2>3. s.hurried = q.hurried /\ ~s.isShown
      BY <2>2 DEF Good, Roomy, Typed, ModalRecord
    <2>4. r.hurried = s.hurried
      <3>1. CASE modalOptions.fade
        <4>1. r = [s EXCEPT !.pending = r.pending]
          <5>1. r = Await(s, Element, "hideModal", DialogDuration)
            BY <2>1, <3>1
          <5>2. /\ "hideModal" \in CallbackOf(Element) /\ DialogDuration \in 0..DialogDuration
                /\ Element \in Elements
            BY ModalAssumption, ElementsDiffer DEF CallbackOf
          <5>3. Typed(s)
            BY <2>2
          <5> DEFINE a == Await(s, Element, "hideModal", DialogDuration)
          <5>4. /\ Typed(a) /\ a = [s EXCEPT !.pending = a.pending]
                /\ a.pending = [s.pending EXCEPT ![Element] =
                                  Append(@, [callback |-> "hideModal", left |-> DialogDuration])]
            BY <5>2, <5>3, AwaitTyped
          <5> QED BY <5>1, <5>4
        <4> QED BY <4>1, <2>2 DEF Typed, ModalRecord
      <3>2. CASE ~modalOptions.fade
        BY <2>1, <2>2, <2>3, <3>2, HideModalTyped DEF Alike
      <3> QED BY <3>1, <3>2
    <2>5. ~r.hurried => Calm(r)
      BY <2>3, <2>4, HideCalm DEF Good, r
    <2> QED BY <1>1, <2>5 DEF Good, r
  <1> QED BY <1>2, <1>3

LEMMA FireHurried ==
    ASSUME NEW q, Good(q), q.ending # << >>
    PROVE  LET r == ModalFire([q EXCEPT !.ending = Tail(@)], Head(q.ending).callback)
           IN r.hurried = q.hurried
  <1> DEFINE s == [q EXCEPT !.ending = Tail(@)]
             c == Head(q.ending).callback
             r == ModalFire(s, c)
  <1>1. /\ Typed(s) /\ s.isShown = q.isShown /\ s.backdrops = q.backdrops
        /\ c = "hideModal" => HidesDue(s) + 1 = HidesDue(q)
    BY TailTyped DEF Good, Roomy
  <1>2. s.hurried = q.hurried
    BY DEF Good, Roomy, Typed, ModalRecord
  <1>3. c \in {"show", "shown", "hideModal", "hidden", "remove"}
    <2>1. Head(q.ending) \in Callback
      BY DEF Good, Roomy, Typed, ModalRecord
    <2> QED BY <2>1 DEF Callback
  <1>4. c = "hideModal" /\ s.isShown => Cardinality(s.backdrops) <= MaxBackdrops
    <2>1. /\ HidesDue(s) \in Nat /\ HidesDue(q) \in Nat /\ Cardinality(s.backdrops) \in Nat
          /\ q.isShown => Cardinality(q.backdrops) + HidesDue(q) <= MaxBackdrops + 1
      BY <1>1, CountsTyped DEF Good, Roomy, Room
    <2> QED BY <1>1, <2>1, ElementsDiffer
  <1>5. r = CASE c = "hideModal" -> HideModal(s)
              [] c = "remove"    -> RunHidden(RemoveBackdrop(s))
              [] c = "shown"     -> s
              [] c \in {"show", "hidden"} -> Run(s, c)
    BY DEF ModalFire
  <1> HIDE DEF s, c, r
  <1>6. CASE c = "hideModal"
    BY <1>1, <1>2, <1>4, <1>5, <1>6, HideModalTyped DEF Alike, r, s, c
  <1>7. CASE c = "remove"
    BY <1>1, <1>2, <1>5, <1>7, RemovedAlike DEF Alike, r, s, c
  <1>8. CASE c = "shown"
    BY <1>2, <1>5, <1>8 DEF r, s, c
  <1>9. CASE c \in {"show", "hidden"}
    <2>1. r = Run(s, c)
      BY <1>5, <1>9
    <2>2. Alike(s, Run(s, c))
      BY <1>1, RunTyped
    <2> QED BY <1>2, <2>1, <2>2 DEF Alike, r, s, c
  <1> QED BY <1>3, <1>6, <1>7, <1>8, <1>9

LEMMA FireGood ==
    ASSUME NEW q, Good(q), q.ending # << >>
    PROVE  Good(ModalFire([q EXCEPT !.ending = Tail(@)], Head(q.ending).callback))
  BY FireRoomy, FireCalm, FireHurried DEF Good

LEMMA EndGood ==
    ASSUME NEW q, Good(q), q.ending = << >>, NEW e \in Elements, q.pending[e] # << >>,
           \/ e \in {Element, Dialog} => q.displayed
           \/ \E i \in DOMAIN q.pending[e] : q.pending[e][i].left = 0
    PROVE  Good(TransitionEnd(q, e))
  <1> DEFINE r == TransitionEnd(q, e)
  <1>1. Roomy(r) /\ r = [q EXCEPT !.ending = q.pending[e], !.pending = r.pending]
    BY EndRoomy DEF Good
  <1> HIDE DEF r
  <1>2. r.hurried = q.hurried
    BY <1>1 DEF Good, Roomy, Typed, ModalRecord
  <1>3. ASSUME ~q.hurried PROVE Calm(r)
    <2>1. Calm(q)
      BY <1>3 DEF Good
    <2>2. q.pending[e] \in Seq(Callback) /\ Len(q.pending[e]) <= 1
      BY <2>1 DEF Good, Roomy, Typed, ModalRecord, Calm, Slots
    <2>3. DOMAIN q.pending[e] \subseteq {1}
      BY <2>2
    <2>4. \/ e \in {Element, Dialog} => q.displayed
          \/ q.pending[e][1].left = 0
      BY <2>3
    <2> QED BY <2>1, <2>4, EndCalm DEF Good, r
  <1> QED BY <1>1, <1>2, <1>3 DEF Good, r

LEMMA TickGood ==
    ASSUME NEW q, Good(q), q.ending = << >>,
           \A e \in Elements : \A i \in DOMAIN q.pending[e] : q.pending[e][i].left > 0
    PROVE  Good(TickOf(q))
  <1>1. TickOf(q).hurried = q.hurried
    BY DEF TickOf, Good, Roomy, Typed, ModalRecord
  <1> QED BY <1>1, TickRoomy, TickCalm DEF Good

LEMMA HandlersGood ==
    ASSUME NEW q, Good(q), NEW h \in SUBSET Handlers, NEW b \in BOOLEAN,
           ~q.hurried /\ ~q.isShown => h \subseteq {"focusin"}
    PROVE  Good([q EXCEPT !.handlers = h, !.ignoreBackdropClick = b])
  <1> DEFINE r == [q EXCEPT !.handlers = h, !.ignoreBackdropClick = b]
  <1>1. Roomy(r)
    BY HandlersRoomy DEF Good
  <1>2. r.hurried = q.hurried
    BY DEF Good, Roomy, Typed, ModalRecord
  <1>3. ASSUME ~q.hurried PROVE Calm(r)
    <2>1. Calm(q) /\ Typed(q)
      BY <1>3 DEF Good, Roomy
    <2> QED BY <1>3, <2>1, HandlersCalm
  <1> QED BY <1>1, <1>2, <1>3 DEF Good

LEMMA ModalInvIs == ModalInv <=> modalOptions \in ModalOptions /\ Good(modal)
  BY DEF ModalInv, Good

LEMMA InitModal == ModalInit => ModalInv
  <1> SUFFICES ASSUME ModalInit PROVE Good(modal)
    BY ModalInvIs DEF ModalInit
  <1>1. modal = [isShown |-> FALSE, displayed |-> FALSE, in |-> FALSE, bodyOpen |-> FALSE,
                 pad |-> 0, originalBodyPad |-> 0, backdrop |-> NoBackdrop,
                 backdrops |-> {}, handlers |-> {}, ignoreBackdropClick |-> FALSE,
                 pending |-> [e \in Elements |-> << >>], ending |-> << >>, hurried |-> FALSE]
    BY DEF ModalInit
  <1>2. modal \in ModalRecord
    <2>1. 0 \in 0..MaxBackdrops
      BY ElementsDiffer
    <2>2. [e \in Elements |-> << >>] \in [Elements -> Seq(Callback)] /\ << >> \in Seq(Callback)
      OBVIOUS
    <2> QED BY <1>1, <2>1, <2>2 DEF ModalRecord
  <1>3. \A e \in Elements : modal.pending[e] = << >>
    BY <1>1
  <1>4. /\ ~modal.isShown /\ ~modal.bodyOpen /\ ~modal.displayed /\ modal.ending = << >>
        /\ modal.backdrop = NoBackdrop /\ modal.backdrops = {} /\ modal.handlers = {}
        /\ modal.pad = 0 /\ modal.originalBodyPad = 0
    BY <1>1
  <1>5. Typed(modal)
    <2>1. \A e \in Elements : << >> \in Seq(WaitsOn(e))
      OBVIOUS
    <2> QED BY <1>2, <1>3, <1>4, <2>1, ElementsDiffer DEF Typed, Kinds
  <1>6. Len(modal.pending[Dialog]) <= 1 /\ modal.pending[Dialog] = << >>
    BY <1>3, ElementsDiffer
  <1>7. Calm(modal)
    BY <1>3, <1>4, <1>5, <1>6, HiddenCalm
  <1> QED BY <1>4, <1>5, <1>7 DEF Good, Roomy, Room

LEMMA NextModal == ModalInv /\ [ModalNext]_modalVars => ModalInv'
  <1> SUFFICES ASSUME modalOptions \in ModalOptions, Good(modal), [ModalNext]_modalVars
               PROVE  ModalInv'
    BY ModalInvIs
  <1>1. ASSUME UNCHANGED modalOptions, NEW q, modal' = q, Good(q) PROVE ModalInv'
    BY <1>1 DEF ModalInv, Good, Roomy, Typed, Kinds, Room, Calm, Slots, Held, Ordered,
                Phase, Open, Ends
  <1>2. ASSUME NEW q, Changes(q), modal.ending = << >> => Good(q) PROVE ModalInv'
    BY <1>1, <1>2 DEF Changes
  <1>3. ASSUME CallShow PROVE ModalInv'
    <2>1. Changes(ModalShow(modal)) /\ modal.pad < MaxBackdrops
          /\ Cardinality(modal.backdrops) + Len(modal.pending[Element]) <= MaxBackdrops
      BY <1>3 DEF CallShow
    <2>2. modal.ending = << >> => Good(ModalShow(modal))
      BY <2>1, ShowGood
    <2> QED BY <1>2, <2>1, <2>2
  <1>4. ASSUME Changes(ModalHide(modal)) PROVE ModalInv'
    BY <1>2, <1>4, HideGood
  <1>5. CASE CallHide \/ CallToggle \/ ClickDismiss \/ Escape
    BY <1>3, <1>4, <1>5 DEF CallHide, CallToggle, ClickDismiss, Escape
  <1>6. ASSUME NEW h \in SUBSET Handlers, NEW b \in BOOLEAN,
               ~modal.hurried /\ ~modal.isShown => h \subseteq {"focusin"},
               Changes([modal EXCEPT !.handlers = h, !.ignoreBackdropClick = b])
        PROVE  ModalInv'
    BY <1>2, <1>6, HandlersGood
  <1>7. /\ modal.handlers \in SUBSET Handlers /\ modal.ignoreBackdropClick \in BOOLEAN
        /\ ~modal.hurried /\ ~modal.isShown => modal.handlers \subseteq {"focusin"}
    BY DEF Good, Roomy, Typed, ModalRecord, Calm, Phase
  <1>8. CASE ClickBackdrop
    <2>1. CASE modal.ignoreBackdropClick
      <3>1. [modal EXCEPT !.ignoreBackdropClick = FALSE] =
              [modal EXCEPT !.handlers = modal.handlers, !.ignoreBackdropClick = FALSE]
        BY DEF Good, Roomy, Typed, ModalRecord
      <3>2. Changes([modal EXCEPT !.handlers = modal.handlers, !.ignoreBackdropClick = FALSE])
        BY <1>8, <2>1, <3>1 DEF ClickBackdrop
      <3> QED BY <1>6, <1>7, <3>2
    <2>2. CASE ~modal.ignoreBackdropClick /\ modalOptions.backdrop = "static"
      <3>1. Changes(modal)
        BY <1>8, <2>2 DEF ClickBackdrop
      <3> QED BY <1>2, <3>1
    <2>3. CASE ~modal.ignoreBackdropClick /\ modalOptions.backdrop # "static"
      BY <1>4, <1>8, <2>3 DEF ClickBackdrop
    <2> QED BY <2>1, <2>2, <2>3
  <1>9. CASE MouseDown
    <2> DEFINE h == modal.handlers \cup {"mouseup"}
    <2>1. [modal EXCEPT !.handlers = @ \cup {"mouseup"}] =
            [modal EXCEPT !.handlers = h, !.ignoreBackdropClick = modal.ignoreBackdropClick]
      BY DEF Good, Roomy, Typed, ModalRecord
    <2>2. /\ h \in SUBSET Handlers
          /\ ~modal.hurried /\ ~modal.isShown => h \subseteq {"focusin"}
      BY <1>7, <1>9 DEF MouseDown, Handlers
    <2>3. Changes([modal EXCEPT !.handlers = h,
                                !.ignoreBackdropClick = modal.ignoreBackdropClick])
      BY <1>9, <2>1 DEF MouseDown
    <2> HIDE DEF h
    <2> QED BY <1>6, <1>7, <2>2, <2>3
  <1>10. ASSUME NEW outside \in BOOLEAN, MouseUp(outside) PROVE ModalInv'
    <2> DEFINE h == modal.handlers \ {"mouseup"}
               b == modal.ignoreBackdropClick \/ outside
    <2>1. [modal EXCEPT !.handlers = @ \ {"mouseup"}, !.ignoreBackdropClick = @ \/ outside] =
            [modal EXCEPT !.handlers = h, !.ignoreBackdropClick = b]
      BY DEF Good, Roomy, Typed, ModalRecord
    <2>2. /\ h \in SUBSET Handlers /\ b \in BOOLEAN
          /\ ~modal.hurried /\ ~modal.isShown => h \subseteq {"focusin"}
      BY <1>7
    <2>3. Changes([modal EXCEPT !.handlers = h, !.ignoreBackdropClick = b])
      BY <1>10, <2>1 DEF MouseUp
    <2> HIDE DEF h, b
    <2> QED BY <1>6, <2>2, <2>3
  <1>11. CASE NativeEnd
    <2> PICK e \in Elements : /\ modal.pending[e] # << >>
                              /\ e \in {Element, Dialog} => modal.displayed
                              /\ Changes(TransitionEnd(modal, e))
      BY <1>11 DEF NativeEnd
    <2> QED BY <1>2, EndGood
  <1>12. CASE TimerEnd
    <2> PICK e \in Elements : /\ \E i \in DOMAIN modal.pending[e] : modal.pending[e][i].left = 0
                              /\ Changes(TransitionEnd(modal, e))
      BY <1>12 DEF TimerEnd
    <2>1. modal.pending[e] # << >>
      BY DEF Good, Roomy, Typed, ModalRecord
    <2> QED BY <1>2, <2>1, EndGood
  <1>13. CASE RunCallback
    <2>1. /\ UNCHANGED modalOptions /\ modal.ending # << >>
          /\ modal' = ModalFire([modal EXCEPT !.ending = Tail(@)], Head(modal.ending).callback)
      BY <1>13 DEF RunCallback
    <2>2. Good(ModalFire([modal EXCEPT !.ending = Tail(@)], Head(modal.ending).callback))
      BY <2>1, FireGood
    <2> QED BY <1>1, <2>1, <2>2
  <1>14. CASE Tick
    <2>1. Changes(TickOf(modal))
      BY <1>14 DEF Tick
    <2>2. modal.ending = << >> => Good(TickOf(modal))
      BY <1>14, TickGood DEF Tick
    <2> QED BY <1>2, <2>1, <2>2
  <1>15. CASE UNCHANGED modalVars
    BY <1>1, <1>15 DEF modalVars
  <1> QED BY <1>3, <1>5, <1>8, <1>9, <1>10, <1>11, <1>12, <1>13, <1>14, <1>15 DEF ModalNext

LEMMA ModalInvSettles == ModalInv => ModalTypeOK /\ ModalSettles
  <1> SUFFICES ASSUME ModalInv PROVE ModalTypeOK /\ ModalSettles
    OBVIOUS
  <1>1. ModalTypeOK
    BY DEF ModalInv, Roomy, Typed, ModalTypeOK
  <1>2. ASSUME NothingWaits(modal), modal.ending = << >>, ~modal.hurried
        PROVE  /\ modal.displayed = modal.isShown /\ modal.bodyOpen = modal.isShown
               /\ modal.isShown /\ modalOptions.backdrop # "false" => modal.backdrop # NoBackdrop
               /\ ~modal.isShown \/ modalOptions.backdrop = "false" =>
                    modal.backdrop = NoBackdrop
               /\ modal.backdrops = {modal.backdrop} \ {NoBackdrop}
               /\ modal.pad = IF modal.isShown /\ modalOptions.scrolls THEN 1 ELSE 0
               /\ ~modal.isShown => modal.handlers \subseteq {"focusin"}
    BY <1>2, StillCalm DEF ModalInv, Roomy, Still
  <1>3. ModalSettles
    BY <1>2 DEF ModalSettles
  <1> QED BY <1>1, <1>3

-------------------------------------------------------------------------------
(* The collapse.                                                           *)

\* The first panel of some of the page.
LEMMA FirstIsOne ==
    ASSUME NEW S \in SUBSET PanelIds, S # {}
    PROVE  FirstOf(S) \in S
  <1> DEFINE T == {1..p : p \in S}
  <1>1. S \subseteq Nat /\ T # {}
    <2>1. PICK p \in S : TRUE
      OBVIOUS
    <2>2. 1..p \in T
      OBVIOUS
    <2> QED BY <2>2, CollapseAssumption DEF PanelIds
  <1>2. T \subseteq FiniteSubsetsOf(Nat)
    <2>1. \A p \in Nat : 1..p \in SUBSET Nat
      OBVIOUS
    <2>2. \A p \in Nat : IsFiniteSet(1..p)
      BY FS_Interval
    <2> QED BY <1>1, <2>1, <2>2 DEF FiniteSubsetsOf
  <1>3. IsWellFoundedOn(StrictSubsetOrdering(Nat), FiniteSubsetsOf(Nat))
    BY FS_StrictSubsetOrderingWellFounded
  <1>4. PICK t \in T : \A u \in T : ~ (<<u, t>> \in StrictSubsetOrdering(Nat))
    <2> HIDE DEF T
    <2> QED BY <1>1, <1>2, <1>3, WFMin
  <1>5. PICK p \in S : t = 1..p
    OBVIOUS
  <1>6. ASSUME NEW o \in S PROVE p <= o
    <2>1. SUFFICES ASSUME o < p PROVE FALSE
      BY <1>1, <2>1
    <2>2. 1..o \subseteq 1..p /\ p \in 1..p /\ p \notin 1..o
      BY <1>1, <2>1, CollapseAssumption DEF PanelIds
    <2>3. 1..o \in SUBSET Nat /\ 1..p \in SUBSET Nat
      OBVIOUS
    <2>4. <<1..o, 1..p>> \in StrictSubsetOrdering(Nat)
      BY <2>2, <2>3 DEF StrictSubsetOrdering
    <2> QED BY <1>4, <1>5, <2>4
  <1> QED BY <1>6 DEF FirstOf

\* A panel is at rest, or in one transition, of which its object knows unless
\* it has been dropped.
Rests(r) == r.waits = << >> /\ r.class \in {{"collapse"}, {"collapse", "in"}}
            /\ r.data # "transitioning"

MovesOnce(r) == \E w \in Wait : /\ r.waits = <<w>> /\ r.class = {"collapsing"}
                                /\ w.own = (r.data = "transitioning")

Settled(r) == Rests(r) \/ MovesOnce(r)

\* The trigger of a panel that opens says so already.
Says(r) == r.collapsed = ~Opens(r)

LEMMA MovesOnceIs ==
    ASSUME NEW r, NEW w \in Wait, r.waits = <<w>>, r.class = {"collapsing"},
           w.own = (r.data = "transitioning")
    PROVE  /\ Settled(r) /\ Moves(r) /\ ~IsOpen(r)
           /\ Opens(r) = (w.callback = "show") /\ Dropped(r) = ~w.own
  <1>1. DOMAIN <<w>> = {1} /\ <<w>>[1] = w /\ <<w>> # << >>
    OBVIOUS
  <1>2. w.own \in BOOLEAN
    BY DEF Wait
  <1>3. \A i \in DOMAIN r.waits : i = 1 /\ r.waits[i] = w
    BY <1>1
  <1>4. (\E i \in DOMAIN r.waits : r.waits[i].callback = "show") <=> w.callback = "show"
    BY <1>1, <1>3
  <1>5. (\E i \in DOMAIN r.waits : ~r.waits[i].own) <=> ~w.own
    BY <1>1, <1>3
  <1>6. ~IsOpen(r) /\ Settled(r) /\ Moves(r)
    BY <1>1 DEF IsOpen, Settled, MovesOnce, Moves
  <1> QED BY <1>4, <1>5, <1>6 DEF Opens, Dropped

LEMMA RestsIs ==
    ASSUME NEW r, r.waits = << >>, r.class \in {{"collapse"}, {"collapse", "in"}},
           r.data # "transitioning"
    PROVE  /\ Settled(r) /\ ~Moves(r) /\ Opens(r) = IsOpen(r) /\ ~Dropped(r)
           /\ IsOpen(r) = (r.class = {"collapse", "in"})
  <1>1. DOMAIN << >> = {}
    OBVIOUS
  <1> QED BY <1>1 DEF Settled, Rests, Moves, IsOpen, Opens, Dropped

\* A transition begins, or is over at once.
LEMMA BeginSettled ==
    ASSUME NEW r \in Panel, r.waits = << >>, r.class = {"collapsing"},
           NEW callback \in {"show", "hide"}, NEW own \in BOOLEAN,
           own \/ r.data # "transitioning"
    PROVE  LET b == Begin(r, callback, own)
           IN /\ b \in Panel /\ Settled(b) /\ b.linked = r.linked /\ b.collapsed = r.collapsed
              /\ Opens(b) = (callback = "show")
              /\ own \/ r.data # "none" => b.data # "none"
              /\ Dropped(b) => ~own
  <1> DEFINE w == [callback |-> callback, own |-> own]
             b == Begin(r, callback, own)
  <1>1. w \in Wait /\ w.callback = callback /\ w.own = own
    BY DEF Wait
  <1>2. CASE animate
    <2>1. b = [r EXCEPT !.data = IF own THEN "transitioning" ELSE r.data,
                        !.waits = Append(<< >>, w)]
      BY <1>2 DEF Begin, Panel
    <2>2. Append(<< >>, w) = <<w>> /\ <<w>> \in Seq(Wait)
      BY <1>1
    <2> HIDE DEF w, b
    <2>3. /\ b \in Panel /\ b.waits = <<w>> /\ b.class = {"collapsing"}
          /\ b.linked = r.linked /\ b.collapsed = r.collapsed
          /\ b.data = IF own THEN "transitioning" ELSE r.data
      BY <2>1, <2>2 DEF Panel
    <2>4. w.own = (b.data = "transitioning")
      BY <1>1, <2>3
    <2> QED BY <1>1, <2>3, <2>4, MovesOnceIs DEF b
  <1>3. CASE ~animate
    <2> DEFINE in == IF callback = "show" THEN {"in"} ELSE {}
    <2>1. b = Complete(r, {w})
      BY <1>3 DEF Begin
    <2>2. b = [r EXCEPT !.class = {"collapse"} \cup in,
                        !.data = IF own THEN "idle" ELSE r.data]
      <3>1. (\E v \in {w} : v.callback = "show") <=> callback = "show"
        BY <1>1
      <3>3. (\E v \in {w} : v.own) <=> own
        BY <1>1
      <3>2. (r.class \ {"collapsing"}) \cup {"collapse"} = {"collapse"}
        OBVIOUS
      <3> QED BY <2>1, <3>1, <3>2, <3>3 DEF Complete, Panel
    <2> HIDE DEF w, b
    <2>3. /\ b \in Panel /\ b.waits = << >> /\ b.class = {"collapse"} \cup in
          /\ b.linked = r.linked /\ b.collapsed = r.collapsed
          /\ b.data = IF own THEN "idle" ELSE r.data
      BY <2>2 DEF Panel
    <2>4. /\ b.class = IF callback = "show" THEN {"collapse", "in"} ELSE {"collapse"}
          /\ b.data # "transitioning"
      BY <2>3
    <2> QED BY <2>3, <2>4, RestsIs, SMTT(40) DEF b
  <1> QED BY <1>2, <1>3

\* Whatever a panel is, what is done to it makes a panel of it.
LEMMA BeginTyped ==
    ASSUME NEW r \in Panel, NEW callback \in {"show", "hide"}, NEW own \in BOOLEAN
    PROVE  Begin(r, callback, own) \in Panel
  <1> DEFINE w == [callback |-> callback, own |-> own]
  <1>1. w \in Wait
    BY DEF Wait
  <1> HIDE DEF w
  <1>2. Append(r.waits, w) \in Seq(Wait)
    BY <1>1 DEF Panel
  <1>3. [r EXCEPT !.data = IF own THEN "transitioning" ELSE @,
                  !.waits = Append(@, w)] \in Panel
    BY <1>2 DEF Panel
  <1>4. \A waits : Complete(r, waits) \in Panel
    BY DEF Complete, Panel
  <1> QED BY <1>3, <1>4 DEF Begin, w

LEMMA HideTyped ==
    ASSUME NEW r \in Panel
    PROVE  CollapseHide(r) \in Panel
  <1> DEFINE s == [r EXCEPT !.class = (@ \cup {"collapsing"}) \ {"collapse", "in"},
                            !.collapsed = TRUE]
  <1>1. s \in Panel
    BY DEF Panel
  <1> HIDE DEF s
  <1>2. Begin(s, "hide", TRUE) \in Panel
    BY <1>1, BeginTyped
  <1> QED BY <1>2 DEF CollapseHide, s

\* The object that Plugin.call makes for a panel without one.
LEMMA FoundTyped ==
    ASSUME NEW r \in Panel
    PROVE  LET g == [Read(r) EXCEPT !.data = "idle", !.linked = FALSE]
           IN /\ g \in Panel /\ g.class = r.class /\ g.waits = r.waits /\ g.data = "idle"
              /\ g.collapsed = ~IsOpen(r)
  BY DEF Read, IsOpen, Panel

LEMMA HideOneTyped ==
    ASSUME NEW r \in Panel
    PROVE  HideOne(r) \in Panel
  BY FoundTyped, HideTyped DEF HideOne

LEMMA DropOneTyped ==
    ASSUME NEW r \in Panel
    PROVE  LET d == DropOne(r)
           IN /\ d \in Panel /\ d.class = r.class /\ d.data = "none"
              /\ d.collapsed = r.collapsed /\ DOMAIN d.waits = DOMAIN r.waits
              /\ \A i \in DOMAIN r.waits : d.waits[i] = [r.waits[i] EXCEPT !.own = FALSE]
  <1> DEFINE ws == [i \in DOMAIN r.waits |-> [r.waits[i] EXCEPT !.own = FALSE]]
  <1>1. r.waits \in Seq(Wait)
    BY DEF Panel
  <1>2. \A i \in DOMAIN r.waits : [r.waits[i] EXCEPT !.own = FALSE] \in Wait
    <2> TAKE i \in DOMAIN r.waits
    <2>1. r.waits[i] \in Wait
      BY <1>1
    <2> QED BY <2>1 DEF Wait
  <1>3. ws \in Seq(Wait)
    <2>1. Len(r.waits) \in Nat /\ DOMAIN r.waits = 1..Len(r.waits)
      BY <1>1
    <2>2. ws \in [1..Len(r.waits) -> Wait]
      BY <1>2, <2>1
    <2> QED BY <2>1, <2>2
  <1> HIDE DEF ws
  <1>4. DropOne(r) = [r EXCEPT !.data = "none", !.waits = ws]
    BY DEF DropOne, ws, Panel
  <1>5. /\ DOMAIN ws = DOMAIN r.waits
        /\ \A i \in DOMAIN r.waits : ws[i] = [r.waits[i] EXCEPT !.own = FALSE]
    BY DEF ws
  <1> QED BY <1>3, <1>4, <1>5 DEF Panel

LEMMA ShowPanelTyped ==
    ASSUME NEW r \in Panel, NEW own \in BOOLEAN
    PROVE  ShowPanel(r, own) \in Panel
  <1> DEFINE s == [r EXCEPT !.class = (@ \ {"collapse"}) \cup {"collapsing"}, !.collapsed = FALSE]
  <1>1. s \in Panel
    BY DEF Panel
  <1> HIDE DEF s
  <1>2. Begin(s, "show", own) \in Panel
    BY <1>1, BeginTyped
  <1> QED BY <1>2 DEF ShowPanel, s

LEMMA StoredTyped ==
    ASSUME NEW r \in Panel
    PROVE  LET s == Stored(r)
           IN /\ s \in Panel /\ s.class = r.class /\ s.waits = r.waits
              /\ s.collapsed = r.collapsed
              /\ s.data = IF r.data = "none" THEN "idle" ELSE r.data
  BY DEF Stored, Panel

LEMMA EndedTyped ==
    ASSUME NEW r \in Panel
    PROVE  Ended(r) \in Panel
  <1>1. << >> \in Seq(Wait)
    OBVIOUS
  <1>2. [r EXCEPT !.waits = << >>] \in Panel
    BY <1>1 DEF Panel
  <1> QED BY <1>2 DEF Ended, Complete, Panel

-------------------------------------------------------------------------------
\* What the methods leave of a panel that is settled.

\* hide closes a panel at rest and leaves one that moves alone.
LEMMA HideSettled ==
    ASSUME NEW r \in Panel, Settled(r)
    PROVE  LET h == CollapseHide(r)
           IN /\ Settled(h) /\ (Opens(h) => Opens(r)) /\ (Rests(r) => ~Opens(h))
              /\ (Says(r) => Says(h))
  <1> DEFINE h == CollapseHide(r)
  <1>1. CASE Rests(r) /\ ~IsOpen(r)
    <2>1. h = r
      BY <1>1 DEF CollapseHide
    <2>2. ~Opens(r)
      BY <1>1, RestsIs DEF Rests
    <2> QED BY <2>1, <2>2
  <1>2. CASE MovesOnce(r)
    <2>1. ~IsOpen(r)
      BY <1>2 DEF MovesOnce, IsOpen
    <2>2. h = r
      BY <2>1 DEF CollapseHide
    <2>3. ~Rests(r)
      BY <1>2 DEF MovesOnce, Rests
    <2> QED BY <2>2, <2>3
  <1>3. CASE Rests(r) /\ IsOpen(r)
    <2> DEFINE s == [r EXCEPT !.class = (@ \cup {"collapsing"}) \ {"collapse", "in"},
                              !.collapsed = TRUE]
    <2>1. (r.class \cup {"collapsing"}) \ {"collapse", "in"} = {"collapsing"}
      BY <1>3 DEF Rests
    <2>2. h = Begin(s, "hide", TRUE)
      BY <1>3 DEF CollapseHide, Rests
    <2>3. /\ s \in Panel /\ s.waits = << >> /\ s.class = {"collapsing"} /\ s.collapsed = TRUE
          /\ s.data = r.data
      BY <1>3, <2>1 DEF Rests, Panel
    <2> HIDE DEF s, h
    <2>4. Settled(h) /\ ~Opens(h) /\ h.collapsed = TRUE
      BY <2>2, <2>3, BeginSettled
    <2> QED BY <2>4 DEF Says, h
  <1> QED BY <1>1, <1>2, <1>3 DEF Settled

\* An object for a panel without one: it does not know that the panel moves.
LEMMA FoundSettled ==
    ASSUME NEW r \in Panel, Settled(r), r.data = "none"
    PROVE  LET g == [Read(r) EXCEPT !.data = "idle", !.linked = FALSE]
           IN /\ Settled(g) /\ Opens(g) = Opens(r) /\ (Rests(r) => Rests(g))
              /\ (Moves(r) \/ Says(g))
  <1> DEFINE g == [Read(r) EXCEPT !.data = "idle", !.linked = FALSE]
  <1>1. /\ g \in Panel /\ g.class = r.class /\ g.waits = r.waits /\ g.data = "idle"
        /\ g.collapsed = ~IsOpen(r)
    BY FoundTyped
  <1> HIDE DEF g
  <1>2. Opens(g) = Opens(r)
    BY <1>1 DEF Opens, IsOpen
  <1>3. Rests(r) => Rests(g) /\ Says(g)
    <2>1. SUFFICES ASSUME Rests(r) PROVE Rests(g) /\ Says(g)
      OBVIOUS
    <2>2. Opens(r) = IsOpen(r)
      BY <2>1, RestsIs DEF Rests
    <2> QED BY <1>1, <1>2, <2>1, <2>2 DEF Rests, Says
  <1>4. MovesOnce(r) => MovesOnce(g) /\ Moves(r)
    <2>1. SUFFICES ASSUME NEW w \in Wait, r.waits = <<w>>, r.class = {"collapsing"},
                          w.own = (r.data = "transitioning")
                   PROVE  MovesOnce(g) /\ Moves(r)
      BY DEF MovesOnce
    <2>2. w.own = (g.data = "transitioning")
      BY <1>1, <2>1
    <2>3. <<w>> # << >>
      OBVIOUS
    <2> QED BY <1>1, <2>1, <2>2, <2>3 DEF MovesOnce, Moves
  <1> QED BY <1>2, <1>3, <1>4 DEF Settled, g

LEMMA HideOneSettled ==
    ASSUME NEW r \in Panel, Settled(r)
    PROVE  LET h == HideOne(r)
           IN /\ Settled(h) /\ (Opens(h) => Opens(r)) /\ (Rests(r) => ~Opens(h))
              /\ (Says(r) /\ ~(r.data = "none" /\ Moves(r)) => Says(h))
  <1> DEFINE g == [Read(r) EXCEPT !.data = "idle", !.linked = FALSE]
  <1>1. CASE r.data # "none"
    <2>1. HideOne(r) = CollapseHide(r)
      BY <1>1 DEF HideOne
    <2> QED BY <2>1, HideSettled
  <1>2. CASE r.data = "none"
    <2>1. HideOne(r) = CollapseHide(g)
      BY <1>2 DEF HideOne
    <2>2. /\ g \in Panel /\ Settled(g) /\ Opens(g) = Opens(r) /\ (Rests(r) => Rests(g))
          /\ (Moves(r) \/ Says(g))
      BY <1>2, FoundTyped, FoundSettled
    <2> HIDE DEF g
    <2> QED BY <1>2, <2>1, <2>2, HideSettled
  <1> QED BY <1>1, <1>2

\* The data of a panel is dropped; what waits on it is of no object then.
LEMMA DropOneSettled ==
    ASSUME NEW r \in Panel, Settled(r)
    PROVE  LET d == DropOne(r)
           IN Settled(d) /\ Opens(d) = Opens(r) /\ (Says(r) => Says(d))
  <1> DEFINE d == DropOne(r)
  <1>1. /\ d \in Panel /\ d.class = r.class /\ d.data = "none"
        /\ d.collapsed = r.collapsed /\ DOMAIN d.waits = DOMAIN r.waits
        /\ \A i \in DOMAIN r.waits : d.waits[i] = [r.waits[i] EXCEPT !.own = FALSE]
    BY DropOneTyped
  <1> HIDE DEF d
  <1>2. r.waits \in Seq(Wait) /\ d.waits \in Seq(Wait)
    BY <1>1 DEF Panel
  <1>3. \A i \in DOMAIN r.waits : d.waits[i].callback = r.waits[i].callback
                                  /\ d.waits[i].own = FALSE
    <2> TAKE i \in DOMAIN r.waits
    <2>1. r.waits[i] \in Wait
      BY <1>2
    <2> QED BY <1>1, <2>1 DEF Wait
  <1>4. Opens(d) = Opens(r)
    BY <1>1, <1>3 DEF Opens, IsOpen
  <1>5. Says(r) => Says(d)
    BY <1>1, <1>4 DEF Says
  <1>6. Rests(r) => Rests(d)
    <2>1. r.waits = << >> => d.waits = << >>
      <3>1. Len(r.waits) \in Nat /\ DOMAIN r.waits = 1..Len(r.waits)
            /\ Len(d.waits) \in Nat /\ DOMAIN d.waits = 1..Len(d.waits)
        BY <1>2
      <3>2. Len(d.waits) = Len(r.waits)
        BY <1>1, <3>1
      <3>3. Len(r.waits) = 0 => Len(d.waits) = 0
        BY <3>2
      <3> QED BY <1>2, <3>3
    <2> QED BY <1>1, <2>1 DEF Rests
  <1>7. MovesOnce(r) => MovesOnce(d)
    <2>1. SUFFICES ASSUME NEW w \in Wait, r.waits = <<w>>, r.class = {"collapsing"}
                   PROVE  MovesOnce(d)
      BY DEF MovesOnce
    <2>2. DOMAIN <<w>> = 1..1 /\ 1 \in 1..1
      OBVIOUS
    <2>3. 1 \in DOMAIN r.waits /\ Len(d.waits) = 1
      BY <1>1, <1>2, <2>1, <2>2
    <2>4. d.waits = <<d.waits[1]>> /\ d.waits[1] \in Wait /\ d.waits[1].own = FALSE
      BY <1>2, <1>3, <2>3
    <2> QED BY <1>1, <2>1, <2>4 DEF MovesOnce
  <1> QED BY <1>4, <1>5, <1>6, <1>7 DEF Settled, d

\* show opens a panel that is closed and at rest.
LEMMA ShowPanelSettled ==
    ASSUME NEW r \in Panel, Rests(r), ~IsOpen(r)
    PROVE  LET s == ShowPanel(r, TRUE)
           IN Settled(s) /\ Opens(s) /\ Says(s)
  <1> DEFINE s == [r EXCEPT !.class = (@ \ {"collapse"}) \cup {"collapsing"}, !.collapsed = FALSE]
             b == Begin(s, "show", TRUE)
  <1>1. (r.class \ {"collapse"}) \cup {"collapsing"} = {"collapsing"}
    BY DEF Rests, IsOpen
  <1>2. /\ s \in Panel /\ s.waits = << >> /\ s.class = {"collapsing"} /\ s.collapsed = FALSE
    BY <1>1 DEF Rests, Panel
  <1> HIDE DEF s
  <1>3. Settled(b) /\ Opens(b) /\ b.collapsed = FALSE
    BY <1>2, BeginSettled
  <1>4. ShowPanel(r, TRUE) = b
    BY DEF ShowPanel, s
  <1> HIDE DEF b
  <1> QED BY <1>3, <1>4 DEF Says

\* The object is stored when its constructor is done.
LEMMA StoredSettled ==
    ASSUME NEW r \in Panel, Settled(r)
    PROVE  LET s == Stored(r)
           IN Settled(s) /\ Opens(s) = Opens(r) /\ Says(s) = Says(r)
  <1> DEFINE s == Stored(r)
  <1>1. /\ s \in Panel /\ s.class = r.class /\ s.waits = r.waits
        /\ s.collapsed = r.collapsed
        /\ s.data = IF r.data = "none" THEN "idle" ELSE r.data
    BY StoredTyped
  <1> HIDE DEF s
  <1>2. Opens(s) = Opens(r)
    BY <1>1 DEF Opens, IsOpen
  <1>3. (s.data = "transitioning") = (r.data = "transitioning")
    BY <1>1
  <1> QED BY <1>1, <1>2, <1>3 DEF Settled, Rests, MovesOnce, Says, s

\* The transition of a panel ends: it is as it was to become.
LEMMA EndedSettled ==
    ASSUME NEW r \in Panel, Settled(r), Moves(r)
    PROVE  LET s == Ended(r)
           IN Settled(s) /\ Opens(s) = Opens(r) /\ Says(s) = Says(r)
  <1> DEFINE s == Ended(r)
  <1>1. PICK w \in Wait : /\ r.waits = <<w>> /\ r.class = {"collapsing"}
                          /\ w.own = (r.data = "transitioning")
    BY DEF Settled, Rests, MovesOnce, Moves
  <1>2. Opens(r) = (w.callback = "show")
    BY <1>1, MovesOnceIs
  <1>3. {r.waits[i] : i \in DOMAIN r.waits} = {w}
    <2>1. DOMAIN <<w>> = {1} /\ <<w>>[1] = w
      OBVIOUS
    <2> QED BY <1>1, <2>1
  <1> DEFINE in == IF w.callback = "show" THEN {"in"} ELSE {}
  <1>4. s = [r EXCEPT !.waits = << >>, !.class = {"collapse"} \cup in,
                      !.data = IF w.own THEN "idle" ELSE r.data]
    <2>1. (\E v \in {w} : v.callback = "show") <=> w.callback = "show"
      OBVIOUS
    <2>2. (\E v \in {w} : v.own) <=> w.own
      OBVIOUS
    <2>3. (r.class \ {"collapsing"}) \cup {"collapse"} = {"collapse"}
      BY <1>1
    <2> QED BY <1>3, <2>1, <2>2, <2>3 DEF Ended, Complete, Panel
  <1> HIDE DEF s
  <1>5. /\ s.waits = << >> /\ s.class = {"collapse"} \cup in /\ s.collapsed = r.collapsed
        /\ s.data = IF w.own THEN "idle" ELSE r.data
    BY <1>4 DEF Panel
  <1>6. s.data # "transitioning"
    BY <1>1, <1>5
  <1>7. s.class = IF w.callback = "show" THEN {"collapse", "in"} ELSE {"collapse"}
    BY <1>5
  <1>8. Settled(s) /\ Opens(s) = (s.class = {"collapse", "in"})
    BY <1>5, <1>6, <1>7, RestsIs
  <1>9. Opens(s) = Opens(r)
    BY <1>2, <1>7, <1>8
  <1> QED BY <1>5, <1>8, <1>9 DEF Says, s

-------------------------------------------------------------------------------
\* What they leave of an accordion.

Accordions == [panels : [PanelIds -> Panel], misread : BOOLEAN, lost : BOOLEAN]

\* All panels are settled, at most one is open or opening, and their triggers
\* say so, unless the constructor has misread one.
Orderly(q) ==
    /\ \A p \in PanelIds : Settled(q.panels[p])
    /\ \A p, o \in PanelIds : Opens(q.panels[p]) /\ Opens(q.panels[o]) => p = o
    /\ q.misread \/ \A p \in PanelIds : Says(q.panels[p])

\* A step that loses the order says so, for good.
Keeps(q, r) == r \in Accordions /\ (~r.lost => ~q.lost /\ (Orderly(q) => Orderly(r)))

\* A panel is replaced by one that opens no more than it did.
LEMMA PanelKeeps ==
    ASSUME NEW q \in Accordions, NEW p \in PanelIds, NEW s \in Panel,
           Settled(q.panels[p]) =>
               /\ Settled(s) /\ (Opens(s) => Opens(q.panels[p]))
               /\ Says(q.panels[p]) => Says(s)
    PROVE  Keeps(q, [q EXCEPT !.panels[p] = s])
  <1> DEFINE r == [q EXCEPT !.panels[p] = s]
  <1>1. /\ r \in Accordions /\ r.lost = q.lost /\ r.misread = q.misread
        /\ \A o \in PanelIds : r.panels[o] = IF o = p THEN s ELSE q.panels[o]
    BY DEF Accordions
  <1> HIDE DEF r
  <1>2. Orderly(q) => Orderly(r)
    BY <1>1 DEF Orderly
  <1> QED BY <1>1, <1>2 DEF Keeps, r

LEMMA HidePanelKeeps ==
    ASSUME NEW q \in Accordions, NEW p \in PanelIds
    PROVE  Keeps(q, [q EXCEPT !.panels[p] = CollapseHide(@)])
  <1>1. q.panels[p] \in Panel
    BY DEF Accordions
  <1>2. CollapseHide(q.panels[p]) \in Panel
    BY <1>1, HideTyped
  <1>3. Keeps(q, [q EXCEPT !.panels[p] = CollapseHide(q.panels[p])])
    BY <1>1, <1>2, HideSettled, PanelKeeps
  <1>4. [q EXCEPT !.panels[p] = CollapseHide(@)]
            = [q EXCEPT !.panels[p] = CollapseHide(q.panels[p])]
    BY DEF Accordions
  <1> QED BY <1>3, <1>4

\* The constructor reads classes; when no panel moves it reads them rightly.
LEMMA ReadIs ==
    ASSUME NEW r \in Panel
    PROVE  /\ Read(r) \in Panel /\ Opens(Read(r)) = Opens(r)
           /\ Settled(Read(r)) = Settled(r) /\ (Settled(r) /\ ~Moves(r) => Says(Read(r)))
           /\ Read(r).data = r.data
  <1> DEFINE s == Read(r)
  <1>1. /\ s \in Panel /\ s.class = r.class /\ s.waits = r.waits /\ s.data = r.data
        /\ s.collapsed = ~IsOpen(r)
    BY DEF Read, IsOpen, Panel
  <1> HIDE DEF s
  <1>2. Opens(s) = Opens(r) /\ Settled(s) = Settled(r)
    BY <1>1 DEF Opens, IsOpen, Settled, Rests, MovesOnce
  <1>3. Settled(r) /\ ~Moves(r) => Opens(r) = IsOpen(r)
    <2>1. SUFFICES ASSUME Settled(r), ~Moves(r) PROVE Opens(r) = IsOpen(r)
      OBVIOUS
    <2>2. Rests(r)
      BY <2>1, MovesOnceIs DEF Settled, MovesOnce
    <2> QED BY <2>2, RestsIs DEF Rests
  <1> QED BY <1>1, <1>2, <1>3 DEF Says, s

LEMMA ConstructedIs ==
    ASSUME NEW q \in Accordions, NEW p \in PanelIds
    PROVE  LET r == Constructed(q, p)
           IN /\ Keeps(q, r)
              /\ \A o \in PanelIds : r.panels[o].data = q.panels[o].data
  <1> DEFINE r == Constructed(q, p)
  <1>1. \A o \in PanelIds : q.panels[o] \in Panel
    BY DEF Accordions
  <1>2. /\ r.lost = q.lost /\ r.misread = (q.misread \/ \E o \in PanelIds : Moves(q.panels[o]))
        /\ DOMAIN r.panels = PanelIds
        /\ r = [q EXCEPT !.panels = r.panels, !.misread = r.misread]
    BY DEF Constructed, Accordions
  <1>3. \A o \in PanelIds :
          r.panels[o] = IF o = p THEN [Read(q.panels[o]) EXCEPT !.linked = TRUE]
                        ELSE Read(q.panels[o])
    BY DEF Constructed, Accordions
  <1>4. r.panels = [o \in PanelIds |-> r.panels[o]]
    BY DEF Constructed, Accordions
  <1> HIDE DEF r
  <1>5. ASSUME NEW o \in PanelIds
        PROVE  /\ r.panels[o] \in Panel /\ Opens(r.panels[o]) = Opens(q.panels[o])
               /\ Settled(r.panels[o]) = Settled(q.panels[o])
               /\ Settled(q.panels[o]) /\ ~Moves(q.panels[o]) => Says(r.panels[o])
               /\ r.panels[o].data = q.panels[o].data
    <2> DEFINE s == Read(q.panels[o])
               t == [s EXCEPT !.linked = TRUE]
    <2>1. /\ s \in Panel /\ Opens(s) = Opens(q.panels[o])
          /\ Settled(s) = Settled(q.panels[o])
          /\ (Settled(q.panels[o]) /\ ~Moves(q.panels[o]) => Says(s))
          /\ s.data = q.panels[o].data
      BY <1>1, ReadIs
    <2>2. r.panels[o] = IF o = p THEN t ELSE s
      BY <1>3
    <2> HIDE DEF s
    <2>3. /\ t \in Panel /\ t.class = s.class /\ t.waits = s.waits /\ t.data = s.data
          /\ t.collapsed = s.collapsed
      BY <2>1 DEF Panel
    <2> HIDE DEF t
    <2>4. Opens(t) = Opens(s) /\ Settled(t) = Settled(s) /\ Says(t) = Says(s)
      BY <2>3 DEF Opens, IsOpen, Settled, Rests, MovesOnce, Says
    <2> QED BY <2>1, <2>2, <2>3, <2>4
  <1>6. r \in Accordions
    <2>1. r.panels \in [PanelIds -> Panel]
      BY <1>4, <1>5
    <2>2. r.misread \in BOOLEAN
      BY <1>2
    <2> QED BY <1>2, <2>1, <2>2 DEF Accordions
  <1>7. Orderly(q) => Orderly(r)
    BY <1>2, <1>5 DEF Orderly
  <1> QED BY <1>2, <1>5, <1>6, <1>7 DEF Keeps, r

\* A panel among some is hidden, and its data may be dropped.
Closed(r, drops) == IF drops THEN DropOne(HideOne(r)) ELSE HideOne(r)

LEMMA ClosedIs ==
    ASSUME NEW r \in Panel, NEW drops \in BOOLEAN
    PROVE  LET c == Closed(r, drops)
           IN /\ c \in Panel
              /\ Settled(r) => /\ Settled(c) /\ (Opens(c) => Opens(r)) /\ (Rests(r) => ~Opens(c))
                               /\ (Says(r) /\ ~(r.data = "none" /\ Moves(r)) => Says(c))
  <1> DEFINE h == HideOne(r)
  <1>1. /\ h \in Panel
        /\ Settled(r) => /\ Settled(h) /\ (Opens(h) => Opens(r)) /\ (Rests(r) => ~Opens(h))
                         /\ (Says(r) /\ ~(r.data = "none" /\ Moves(r)) => Says(h))
    BY HideOneTyped, HideOneSettled
  <1> HIDE DEF h
  <1>2. /\ DropOne(h) \in Panel
        /\ Settled(h) => /\ Settled(DropOne(h)) /\ Opens(DropOne(h)) = Opens(h)
                         /\ Says(h) => Says(DropOne(h))
    BY <1>1, DropOneTyped, DropOneSettled
  <1> QED BY <1>1, <1>2 DEF Closed, h

\* The accordion of which some panels have been closed.
LEMMA LeftIs ==
    ASSUME NEW q \in Accordions, NEW S \in SUBSET PanelIds, NEW drops \in BOOLEAN
    PROVE  LET left == IF drops THEN DropData(HideEach(q, S), S) ELSE HideEach(q, S)
           IN /\ left \in Accordions /\ left.lost = q.lost
              /\ left.misread =
                   (q.misread \/ \E o \in S : q.panels[o].data = "none" /\ Moves(q.panels[o]))
              /\ \A o \in PanelIds :
                   left.panels[o] = IF o \in S THEN Closed(q.panels[o], drops) ELSE q.panels[o]
  <1> DEFINE h == HideEach(q, S)
             d == DropData(h, S)
             left == IF drops THEN d ELSE h
  <1>1. \A o \in PanelIds : q.panels[o] \in Panel
    BY DEF Accordions
  <1>2. /\ h.lost = q.lost
        /\ h.misread = (q.misread \/ \E o \in S : q.panels[o].data = "none" /\ Moves(q.panels[o]))
        /\ h.panels = [o \in PanelIds |-> IF o \in S THEN HideOne(q.panels[o]) ELSE q.panels[o]]
        /\ h = [q EXCEPT !.panels = h.panels, !.misread = h.misread]
    BY DEF HideEach, Accordions
  <1>3. h \in Accordions
    <2>1. \A o \in PanelIds : HideOne(q.panels[o]) \in Panel
      BY <1>1, HideOneTyped
    <2>2. h.panels \in [PanelIds -> Panel]
      BY <1>1, <1>2, <2>1
    <2>3. h.misread \in BOOLEAN
      BY <1>2
    <2> HIDE DEF h
    <2> QED BY <1>2, <2>2, <2>3 DEF Accordions
  <1> HIDE DEF h
  <1>4. /\ d.lost = h.lost /\ d.misread = h.misread
        /\ d.panels = [o \in PanelIds |-> IF o \in S THEN DropOne(h.panels[o]) ELSE h.panels[o]]
        /\ d = [h EXCEPT !.panels = d.panels]
    BY <1>3, SMTT(40) DEF DropData, Accordions
  <1> HIDE DEF d
  <1>5. \A o \in PanelIds :
          left.panels[o] = IF o \in S THEN Closed(q.panels[o], drops) ELSE q.panels[o]
    BY <1>2, <1>4, ZenonT(60) DEF Closed
  <1>6. left \in Accordions
    <2>1. \A o \in PanelIds : left.panels[o] \in Panel
      BY <1>1, <1>5, ClosedIs
    <2>2. d.panels = [o \in PanelIds |-> d.panels[o]]
      BY <1>4
    <2>3. drops => d.panels \in [PanelIds -> Panel]
      BY <2>1, <2>2
    <2>4. drops => d \in Accordions
      BY <1>3, <1>4, <2>3 DEF Accordions
    <2> QED BY <1>3, <2>4
  <1>7. left.lost = q.lost /\ left.misread = h.misread
    BY <1>2, <1>4
  <1> QED BY <1>2, <1>5, <1>6, <1>7 DEF d, h

\* show: of the actives only the first is asked whether it moves.  In an
\* orderly accordion of which no panel has been dropped while it moves, it is
\* the one that is open, and all that are not shown are closed then.
LEMMA ShowKeeps ==
    ASSUME NEW q \in Accordions, NEW p \in PanelIds, NEW c \in BOOLEAN
    PROVE  Keeps(q, CollapseShow(q, p, c))
  <1> DEFINE actives == IF q.panels[p].linked THEN Actives(q) ELSE {}
             firstData == q.panels[FirstOf(actives)].data
             drops == actives # {} /\ firstData = "none"
             hidden == HideEach(q, actives)
             left == IF drops THEN DropData(hidden, actives) ELSE hidden
             own == c \/ ~(drops /\ p \in actives)
             lost == q.lost \/ ~q.panels[p].linked \/ \E o \in PanelIds : Dropped(q.panels[o])
             s == ShowPanel(left.panels[p], own)
             r == [left EXCEPT !.panels[p] = s, !.lost = lost]
  <1>1. CASE q.panels[p].data = "transitioning" \/ IsOpen(q.panels[p])
             \/ (actives # {} /\ firstData = "transitioning")
    <2>1. CollapseShow(q, p, c) = q
      BY <1>1 DEF CollapseShow
    <2> QED BY <2>1 DEF Keeps
  <1>2. CASE /\ q.panels[p].data # "transitioning" /\ ~IsOpen(q.panels[p])
             /\ ~(actives # {} /\ firstData = "transitioning")
    <2>1. actives \in SUBSET PanelIds /\ drops \in BOOLEAN /\ own \in BOOLEAN
      BY DEF Actives
    <2>2. /\ left \in Accordions /\ left.lost = q.lost
          /\ left.misread = (q.misread \/ \E o \in actives : q.panels[o].data = "none"
                                                             /\ Moves(q.panels[o]))
          /\ \A o \in PanelIds : left.panels[o] = IF o \in actives
                                                  THEN Closed(q.panels[o], drops)
                                                  ELSE q.panels[o]
      <3> HIDE DEF actives, drops
      <3> QED BY <2>1, LeftIs
    <2>3. \A o \in PanelIds : q.panels[o] \in Panel /\ left.panels[o] \in Panel
      BY <2>2 DEF Accordions
    <2>4. CollapseShow(q, p, c) = r
      <3>1. CollapseShow(q, p, c) =
              [left EXCEPT !.panels[p] = ShowPanel(@, own),
                           !.lost = @ \/ ~q.panels[p].linked \/
                                    \E o \in PanelIds : Dropped(q.panels[o])]
        BY <1>2 DEF CollapseShow
      <3> HIDE DEF left, own
      <3> QED BY <2>2, <3>1, SMTT(40) DEF Accordions
    <2> HIDE DEF left
    <2>5. s \in Panel
      BY <2>1, <2>3, ShowPanelTyped
    <2> HIDE DEF s
    <2>6. /\ r \in Accordions /\ r.lost = lost /\ r.misread = left.misread
          /\ \A o \in PanelIds : r.panels[o] = IF o = p THEN s ELSE left.panels[o]
      <3>1. lost \in BOOLEAN
        BY DEF Accordions
      <3> HIDE DEF lost
      <3> QED BY <2>2, <2>5, <3>1 DEF Accordions
    <2> HIDE DEF r
    <2>7. ASSUME ~lost, Orderly(q)
          PROVE  Orderly(r)
      <3>1. /\ q.panels[p].linked /\ actives = Actives(q)
            /\ \A o \in PanelIds : Settled(q.panels[o]) /\ ~Dropped(q.panels[o])
        BY <2>7 DEF Orderly
      <3>2. ASSUME NEW o \in PanelIds, q.panels[o].data # "transitioning"
            PROVE  Rests(q.panels[o])
        <4>1. SUFFICES ASSUME MovesOnce(q.panels[o]) PROVE FALSE
          BY <3>1 DEF Settled
        <4>2. PICK w \in Wait : /\ q.panels[o].waits = <<w>>
                                /\ q.panels[o].class = {"collapsing"}
                                /\ w.own = (q.panels[o].data = "transitioning")
          BY <4>1 DEF MovesOnce
        <4>3. Dropped(q.panels[o]) = ~w.own
          BY <4>2, MovesOnceIs
        <4> QED BY <3>1, <3>2, <4>2, <4>3
      <3>3. ASSUME NEW o \in PanelIds, o \notin actives
            PROVE  ~Opens(q.panels[o])
        <4>1. q.panels[o].class \cap {"in", "collapsing"} = {}
          BY <3>1, <3>3 DEF Actives
        <4>2. Rests(q.panels[o])
          BY <3>1, <4>1 DEF Settled, MovesOnce
        <4> QED BY <4>1, <4>2, RestsIs DEF Rests, IsOpen
      <3>4. p \notin actives /\ left.panels[p] = q.panels[p]
        <4>1. Rests(q.panels[p])
          BY <1>2, <3>2
        <4>2. q.panels[p].class = {"collapse"}
          BY <1>2, <4>1 DEF Rests, IsOpen
        <4>3. p \notin actives
          BY <3>1, <4>2 DEF Actives
        <4> QED BY <2>2, <4>3
      <3>5. ASSUME NEW o \in actives
            PROVE  ~Opens(left.panels[o])
        <4> DEFINE f == FirstOf(actives)
        <4>1. f \in actives
          <5> HIDE DEF actives
          <5> QED BY <2>1, FirstIsOne
        <4> HIDE DEF f
        <4>2. f \in PanelIds /\ o \in PanelIds
          BY <2>1, <4>1
        <4>3. q.panels[f].data # "transitioning"
          BY <1>2, <4>1 DEF f
        <4>4. Rests(q.panels[f])
          BY <3>2, <4>2, <4>3
        <4>5. Opens(q.panels[f])
          <5>1. q.panels[f].class \cap {"in", "collapsing"} # {}
            BY <3>1, <4>1 DEF Actives
          <5>2. IsOpen(q.panels[f])
            BY <4>4, <5>1 DEF Rests, IsOpen
          <5> QED BY <5>2 DEF Opens
        <4>6. Opens(q.panels[o]) => o = f
          BY <2>7, <4>2, <4>5 DEF Orderly
        <4>7. left.panels[o] = Closed(q.panels[o], drops)
          BY <2>2, <4>2
        <4>8. /\ Opens(left.panels[o]) => Opens(q.panels[o])
              /\ Rests(q.panels[o]) => ~Opens(left.panels[o])
          <5> HIDE DEF drops
          <5> QED BY <2>1, <2>3, <3>1, <4>2, <4>7, ClosedIs
        <4> QED BY <4>4, <4>6, <4>8
      <3>6. Settled(s) /\ Opens(s) /\ Says(s)
        <4>1. Rests(q.panels[p]) /\ own = TRUE
          BY <1>2, <3>2, <3>4
        <4>2. s = ShowPanel(q.panels[p], TRUE)
          BY <3>4, <4>1 DEF s
        <4> QED BY <1>2, <2>3, <4>1, <4>2, ShowPanelSettled
      <3>7. ASSUME NEW o \in PanelIds, o # p
            PROVE  Settled(r.panels[o]) /\ ~Opens(r.panels[o])
        <4>1. r.panels[o] = left.panels[o]
          BY <2>6, <3>7
        <4>2. CASE o \in actives
          <5>1. Settled(Closed(q.panels[o], drops))
            <6> HIDE DEF drops
            <6> QED BY <2>1, <2>3, <3>1, ClosedIs
          <5> QED BY <2>2, <3>5, <4>1, <4>2, <5>1
        <4>3. CASE o \notin actives
          BY <2>2, <3>1, <3>3, <4>1, <4>3
        <4> QED BY <4>2, <4>3
      <3>8. ASSUME ~r.misread, NEW o \in PanelIds
            PROVE  Says(r.panels[o])
        <4>1. ~q.misread /\ \A a \in actives : ~(q.panels[a].data = "none" /\ Moves(q.panels[a]))
          BY <2>2, <2>6, <3>8
        <4>2. Says(q.panels[o])
          BY <2>7, <4>1 DEF Orderly
        <4>3. o \in actives => Says(Closed(q.panels[o], drops))
          <5> HIDE DEF drops
          <5> QED BY <2>1, <2>3, <3>1, <4>1, <4>2, ClosedIs
        <4> QED BY <2>2, <2>6, <3>6, <4>2, <4>3
      <3>9. r.panels[p] = s
        BY <2>6
      <3> HIDE DEF actives
      <3> QED BY <3>6, <3>7, <3>8, <3>9 DEF Orderly
    <2>8. lost \/ ~q.lost
      OBVIOUS
    <2> QED BY <2>4, <2>6, <2>7, <2>8 DEF Keeps
  <1> QED BY <1>1, <1>2

LEMMA KeepsTwice ==
    ASSUME NEW q, NEW r, NEW s, Keeps(q, r), Keeps(r, s)
    PROVE  Keeps(q, s)
  BY DEF Keeps

LEMMA ToggleKeeps ==
    ASSUME NEW q \in Accordions, NEW p \in PanelIds, NEW c \in BOOLEAN
    PROVE  Keeps(q, Toggle(q, p, c))
  BY HidePanelKeeps, ShowKeeps DEF Toggle

LEMMA ConstructToggledKeeps ==
    ASSUME NEW q \in Accordions, NEW p \in PanelIds
    PROVE  Keeps(q, ConstructToggled(q, p))
  <1> DEFINE r == Constructed(q, p)
             s == Toggle(r, p, TRUE)
             t == Stored(s.panels[p])
  <1>1. Keeps(q, r) /\ r \in Accordions
    BY ConstructedIs DEF Keeps
  <1> HIDE DEF r
  <1>2. Keeps(r, s) /\ s \in Accordions
    BY <1>1, ToggleKeeps DEF Keeps
  <1> HIDE DEF s
  <1>3. s.panels[p] \in Panel
    BY <1>2 DEF Accordions
  <1>4. /\ t \in Panel
        /\ Settled(s.panels[p]) => /\ Settled(t) /\ Opens(t) = Opens(s.panels[p])
                                   /\ Says(t) = Says(s.panels[p])
    BY <1>3, StoredTyped, StoredSettled
  <1> HIDE DEF t
  <1>5. Keeps(s, [s EXCEPT !.panels[p] = t])
    BY <1>2, <1>4, PanelKeeps
  <1>6. ConstructToggled(q, p) = [s EXCEPT !.panels[p] = t]
    BY <1>2 DEF ConstructToggled, Accordions, r, s, t
  <1> QED BY <1>1, <1>2, <1>5, <1>6, KeepsTwice

\* The object of options.parent alone.
LEMMA InitialiseKeeps ==
    ASSUME NEW q \in Accordions, NEW p \in PanelIds, q.panels[p].data = "none"
    PROVE  Keeps(q, [Constructed(q, p) EXCEPT !.panels[p].data = "idle"])
  <1> DEFINE r == Constructed(q, p)
             t == [r.panels[p] EXCEPT !.data = "idle"]
  <1>1. Keeps(q, r) /\ r \in Accordions /\ r.panels[p].data = "none"
    BY ConstructedIs DEF Keeps
  <1> HIDE DEF r
  <1>2. r.panels[p] \in Panel
    BY <1>1 DEF Accordions
  <1>3. /\ t \in Panel /\ t.class = r.panels[p].class /\ t.waits = r.panels[p].waits
        /\ t.collapsed = r.panels[p].collapsed /\ t.data = "idle"
    BY <1>2 DEF Panel
  <1>4. [r EXCEPT !.panels[p].data = "idle"] = [r EXCEPT !.panels[p] = t]
    BY <1>1 DEF Accordions
  <1> HIDE DEF t
  <1>5. /\ Opens(t) = Opens(r.panels[p]) /\ Says(t) = Says(r.panels[p])
        /\ Settled(t) = Settled(r.panels[p])
    <2>1. (t.data = "transitioning") = (r.panels[p].data = "transitioning")
      BY <1>1, <1>3
    <2> QED BY <1>3, <2>1 DEF Opens, IsOpen, Settled, Rests, MovesOnce, Says
  <1>6. Keeps(r, [r EXCEPT !.panels[p] = t])
    BY <1>1, <1>3, <1>5, PanelKeeps
  <1> QED BY <1>1, <1>4, <1>6, KeepsTwice DEF r

LEMMA EndPanelKeeps ==
    ASSUME NEW q \in Accordions, NEW p \in PanelIds, Moves(q.panels[p])
    PROVE  Keeps(q, [q EXCEPT !.panels[p] = Ended(@)])
  <1> DEFINE t == Ended(q.panels[p])
  <1>1. q.panels[p] \in Panel
    BY DEF Accordions
  <1>2. /\ t \in Panel
        /\ Settled(q.panels[p]) => /\ Settled(t) /\ Opens(t) = Opens(q.panels[p])
                                   /\ Says(t) = Says(q.panels[p])
    BY <1>1, EndedTyped, EndedSettled
  <1> HIDE DEF t
  <1>3. Keeps(q, [q EXCEPT !.panels[p] = t])
    BY <1>2, PanelKeeps
  <1>4. [q EXCEPT !.panels[p] = Ended(@)] = [q EXCEPT !.panels[p] = t]
    BY DEF Accordions, t
  <1> QED BY <1>3, <1>4

\* The inductive invariant of the accordion.
CollapseInv == CollapseTypeOK /\ (~accordion.lost => Orderly(accordion))

LEMMA InitCollapse ==
    ASSUME CollapseInit
    PROVE  CollapseInv
  <1>1. PICK open \in {{}} \cup {{p} : p \in PanelIds} :
          accordion = [panels |-> [p \in PanelIds |->
                         [class |-> IF p \in open THEN {"collapse", "in"} ELSE {"collapse"},
                          data |-> "none", linked |-> FALSE, waits |-> << >>,
                          collapsed |-> p \notin open]],
                       misread |-> FALSE, lost |-> FALSE]
    BY DEF CollapseInit
  <1>2. ASSUME NEW p \in PanelIds
        PROVE  LET r == accordion.panels[p]
               IN /\ r \in Panel /\ Settled(r) /\ Says(r)
                  /\ Opens(r) <=> p \in open
    <2> DEFINE r == accordion.panels[p]
    <2>1. << >> \in Seq(Wait)
      OBVIOUS
    <2>2. r = [class |-> IF p \in open THEN {"collapse", "in"} ELSE {"collapse"},
               data |-> "none", linked |-> FALSE, waits |-> << >>, collapsed |-> p \notin open]
      BY <1>1
    <2> HIDE DEF r
    <2>3. /\ r \in Panel /\ r.waits = << >> /\ r.data = "none"
          /\ r.class = IF p \in open THEN {"collapse", "in"} ELSE {"collapse"}
          /\ r.collapsed = (p \notin open)
      BY <2>1, <2>2 DEF Panel
    <2>4. Settled(r) /\ Opens(r) = (r.class = {"collapse", "in"})
      BY <2>3, RestsIs
    <2>5. Opens(r) <=> p \in open
      <3>1. {"collapse", "in"} # {"collapse"}
        OBVIOUS
      <3>2. CASE p \in open
        BY <2>3, <2>4, <3>2
      <3>3. CASE p \notin open
        BY <2>3, <2>4, <3>1, <3>3
      <3> QED BY <3>2, <3>3
    <2> QED BY <2>3, <2>4, <2>5 DEF Says, r
  <1>3. accordion \in Accordions
    <2>1. accordion.panels \in [PanelIds -> Panel]
      BY <1>1, <1>2
    <2> QED BY <1>1, <2>1 DEF Accordions
  <1>4. Orderly(accordion)
    BY <1>2 DEF Orderly
  <1> QED BY <1>3, <1>4 DEF CollapseInv, CollapseTypeOK, CollapseInit, Accordions

\* Every call, click and end of a transition keeps the order.
LEMMA NextCollapse ==
    ASSUME CollapseInv, [CollapseNext]_collapseVars
    PROVE  CollapseInv'
  <1>1. accordion \in Accordions
    BY DEF CollapseInv, CollapseTypeOK, Accordions
  <1>2. SUFFICES ASSUME NEW q, accordion' = q, animate' = animate, Keeps(accordion, q)
                 PROVE  CollapseInv'
    <2>1. CASE UNCHANGED collapseVars
      <3>1. accordion' = accordion /\ animate' = animate /\ Keeps(accordion, accordion)
        BY <1>1, <2>1 DEF collapseVars, Keeps
      <3> QED BY <1>2, <3>1
    <2>2. CASE CollapseNext
      <3>1. PICK p \in PanelIds : \/ ClickTrigger(p) \/ Initialise(p) \/ CallPanelShow(p)
                                  \/ CallPanelHide(p) \/ PanelEnd(p)
        BY <2>2 DEF CollapseNext
      <3>2. CASE ClickTrigger(p)
        BY <1>1, <1>2, <3>2, ToggleKeeps, ConstructToggledKeeps DEF ClickTrigger, Folds
      <3>3. CASE Initialise(p)
        <4>1. accordion.panels[p].data = "none"
          BY <3>3 DEF Initialise, HasObject
        <4> QED BY <1>1, <1>2, <3>3, <4>1, InitialiseKeeps DEF Initialise, Folds
      <3>4. CASE CallPanelShow(p)
        BY <1>1, <1>2, <3>4, ShowKeeps DEF CallPanelShow, Folds
      <3>5. CASE CallPanelHide(p)
        BY <1>1, <1>2, <3>5, HidePanelKeeps DEF CallPanelHide, Folds
      <3>6. CASE PanelEnd(p)
        BY <1>1, <1>2, <3>6, EndPanelKeeps DEF PanelEnd, Folds
      <3> QED BY <3>1, <3>2, <3>3, <3>4, <3>5, <3>6
    <2> QED BY <2>1, <2>2
  <1>3. accordion' \in Accordions /\ (~accordion'.lost => Orderly(accordion'))
    BY <1>2 DEF Keeps, CollapseInv
  <1>4. animate' \in Animate
    BY <1>2 DEF CollapseInv, CollapseTypeOK
  <1> QED BY <1>3, <1>4 DEF CollapseInv, CollapseTypeOK, Accordions

LEMMA CollapseInvSettles ==
    ASSUME CollapseInv
    PROVE  CollapseTypeOK /\ CollapseSettles
  <1>1. ASSUME Orderly(accordion)
        PROVE  OneOpen /\ (accordion.misread \/ TriggerAgrees)
    <2>1. OneOpen
      BY <1>1 DEF Orderly, OneOpen
    <2>2. ASSUME NEW p \in PanelIds, Says(accordion.panels[p]), ~Moves(accordion.panels[p])
          PROVE  /\ accordion.panels[p].class \in {{"collapse"}, {"collapse", "in"}}
                 /\ accordion.panels[p].collapsed = ~IsOpen(accordion.panels[p])
      <3>1. Rests(accordion.panels[p])
        BY <1>1, <2>2, MovesOnceIs DEF Orderly, Settled, MovesOnce
      <3> QED BY <2>2, <3>1, RestsIs DEF Rests, Says
    <2>3. (\A p \in PanelIds : Says(accordion.panels[p])) => TriggerAgrees
      BY <2>2 DEF TriggerAgrees
    <2> QED BY <1>1, <2>1, <2>3 DEF Orderly
  <1> QED BY <1>1 DEF CollapseInv, CollapseSettles

-------------------------------------------------------------------------------
(* The tooltip.                                                            *)

TipRecord ==
    [made : BOOLEAN, enabled : BOOLEAN, attached : BOOLEAN, in : BOOLEAN,
     fade : BOOLEAN, wanted : BOOLEAN, abandoned : BOOLEAN,
     hoverState : {NoState, "in", "out"},
     timer : {NoTimer, "show", "hide"}, users : SUBSET {"hover", "focus"},
     callbacks : Seq(TipCallbacks), ending : Seq(TipCallbacks)]

\* No user is there for a tip that is not wanted, or destroyed ...
TipCalm(q) == ~q.abandoned /\ ~(q.wanted /\ q.made) => q.hoverState # "in"

\* ... which has no tip in the page; and one that is not wanted has something
\* that will take it away.
Gone(q) == ~q.made /\ ~q.abandoned => ~q.attached

SeenOff(q) == q.attached /\ ~q.wanted /\ ~q.abandoned =>
    (q.timer = "hide" /\ q.hoverState = "out") \/ Detaches(q)

TipFine(q) == q \in TipRecord /\ TipCalm(q) /\ Gone(q) /\ SeenOff(q)

\* What a method makes of a tip it was given.
Same(q, r) == /\ r \in TipRecord /\ r.wanted = q.wanted /\ r.made = q.made
              /\ r.abandoned = q.abandoned

LEMMA WantedIsFine ==
    ASSUME NEW q \in TipRecord, (q.wanted /\ q.made) \/ q.abandoned
    PROVE  TipFine(q)
  BY DEF TipFine, TipCalm, Gone, SeenOff

LEMMA WaitsIs ==
    ASSUME NEW q \in TipRecord, NEW c \in TipCallbacks
    PROVE  LET r == Waits(q, c)
           IN /\ r \in TipRecord /\ r = [q EXCEPT !.callbacks = r.callbacks]
              /\ c # "shown" => Detaches(r)
  <1> DEFINE s == Append(q.callbacks, c)
             r == Waits(q, c)
  <1>1. q.callbacks \in Seq(TipCallbacks)
    BY DEF TipRecord
  <1>2. /\ s \in Seq(TipCallbacks) /\ Len(s) \in DOMAIN s /\ s[Len(s)] = c
    BY <1>1
  <1>3. r = [q EXCEPT !.callbacks = s]
    BY DEF Waits, TipRecord
  <1> HIDE DEF r, s
  <1>4. r \in TipRecord /\ r.callbacks = s
    BY <1>2, <1>3 DEF TipRecord
  <1>5. c # "shown" => Detaches(r)
    BY <1>2, <1>4 DEF Detaches
  <1> QED BY <1>3, <1>4, <1>5 DEF r

\* The callbacks of hide and destroy detach the tip, unless the user is there.
LEMMA EndsIs ==
    ASSUME NEW q \in TipRecord, NEW c \in {"hidden", "destroyed"}
    PROVE  LET r == TipDone(q, c)
           IN /\ r \in TipRecord /\ r.wanted = q.wanted /\ r.hoverState = q.hoverState
              /\ r.attached = (q.attached /\ q.hoverState = "in")
              /\ c = "hidden" => r.made = q.made /\ r.abandoned = q.abandoned
              /\ c = "destroyed" => /\ r.made = FALSE
                                    /\ q.hoverState = "in" => r.abandoned = TRUE
  <1> DEFINE h == Hidden(q)
             d == Destroyed(h)
             r == TipDone(q, c)
  <1>1. /\ h \in TipRecord /\ h.wanted = q.wanted /\ h.hoverState = q.hoverState
        /\ h.attached = (q.attached /\ q.hoverState = "in")
        /\ h.made = q.made /\ h.abandoned = q.abandoned
    BY DEF Hidden, TipRecord
  <1>2. r = IF c = "destroyed" THEN d ELSE h
    BY DEF TipDone
  <1> HIDE DEF h, r
  <1>3. /\ d \in TipRecord /\ d.wanted = h.wanted /\ d.hoverState = h.hoverState
        /\ d.attached = h.attached /\ d.made = FALSE
        /\ h.hoverState = "in" => d.abandoned = TRUE
    BY <1>1 DEF Destroyed, TipRecord
  <1> HIDE DEF d
  <1> QED BY <1>1, <1>2, <1>3 DEF r

\* hide leaves a callback that detaches the tip, or detaches it; destroy, also
\* where the user is there, who is then left with it.
LEMMA TipHideFine ==
    ASSUME NEW q \in TipRecord, NEW c \in {"hidden", "destroyed"}
    PROVE  /\ c = "hidden" => Same(q, TipHide(q, c))
           /\ Gone(q) /\ (c = "destroyed" \/ TipCalm(q)) => TipFine(TipHide(q, c))
  <1> DEFINE p == [q EXCEPT !.in = FALSE]
             w == Waits(p, c)
             e == TipDone(p, c)
             r == TipHide(q, c)
  <1>1. /\ p \in TipRecord /\ p.wanted = q.wanted /\ p.abandoned = q.abandoned
        /\ p.hoverState = q.hoverState /\ p.attached = q.attached /\ p.made = q.made
    BY DEF TipRecord
  <1>2. r = [(IF q.fade THEN w ELSE e) EXCEPT !.hoverState = NoState]
    BY DEF TipHide
  <1> HIDE DEF p
  <1>3. CASE q.fade
    <2>1. r = [w EXCEPT !.hoverState = NoState]
      BY <1>2, <1>3
    <2>2. w \in TipRecord /\ w = [p EXCEPT !.callbacks = w.callbacks] /\ Detaches(w)
      BY <1>1, WaitsIs DEF TipCallbacks
    <2> HIDE DEF w
    <2>3. /\ w.wanted = p.wanted /\ w.abandoned = p.abandoned /\ w.made = p.made
          /\ w.attached = p.attached
      BY <1>1, <2>2 DEF TipRecord
    <2> HIDE DEF r
    <2>4. /\ r \in TipRecord /\ r.wanted = w.wanted /\ r.abandoned = w.abandoned
          /\ r.made = w.made /\ r.attached = w.attached
          /\ r.hoverState = NoState /\ r.callbacks = w.callbacks /\ r.ending = w.ending
      BY <2>1, <2>2 DEF TipRecord
    <2>5. Detaches(r)
      BY <2>2, <2>4 DEF Detaches
    <2> QED BY <1>1, <2>3, <2>4, <2>5 DEF TipFine, TipCalm, Gone, SeenOff, Same, NoState, r
  <1>4. CASE ~q.fade
    <2>1. r = [e EXCEPT !.hoverState = NoState]
      BY <1>2, <1>4
    <2>2. /\ e \in TipRecord /\ e.wanted = q.wanted
          /\ e.attached = (q.attached /\ q.hoverState = "in")
          /\ c = "hidden" => e.made = q.made /\ e.abandoned = q.abandoned
          /\ c = "destroyed" => /\ e.made = FALSE
                                /\ q.hoverState = "in" => e.abandoned = TRUE
      BY <1>1, EndsIs
    <2> HIDE DEF e, r
    <2>3. /\ r \in TipRecord /\ r.wanted = e.wanted /\ r.made = e.made
          /\ r.abandoned = e.abandoned /\ r.hoverState = NoState /\ r.attached = e.attached
      BY <2>1, <2>2 DEF TipRecord
    <2>4. c = "hidden" => Same(q, r)
      BY <2>2, <2>3 DEF Same
    <2>5. ASSUME Gone(q), c = "destroyed" \/ TipCalm(q) PROVE TipFine(r)
      <3>1. CASE q.hoverState = "in"
        <4>1. r.abandoned \/ (r.wanted /\ r.made)
          BY <2>2, <2>3, <2>5, <3>1 DEF TipCalm
        <4> QED BY <2>3, <4>1, WantedIsFine
      <3>2. CASE q.hoverState # "in"
        BY <2>2, <2>3, <3>2 DEF TipFine, TipCalm, Gone, SeenOff, NoState
      <3> QED BY <3>1, <3>2
    <2> QED BY <2>4, <2>5 DEF r
  <1> QED BY <1>3, <1>4

\* leave, whatever the tip was.
LEMMA TipLeaveFine ==
    ASSUME NEW q \in TipRecord
    PROVE  Same(q, TipLeave(q)) /\ (Gone(q) => TipFine(TipLeave(q)))
  <1> DEFINE out == [q EXCEPT !.timer = NoTimer, !.hoverState = "out"]
             late == [out EXCEPT !.timer = "hide"]
             r == TipLeave(q)
  <1>1. r = IF tipOptions.delayHide THEN late ELSE TipHide(out, "hidden")
    BY DEF TipLeave
  <1>2. /\ out \in TipRecord /\ out.wanted = q.wanted /\ out.made = q.made
        /\ out.abandoned = q.abandoned /\ out.attached = q.attached /\ out.hoverState = "out"
    BY DEF TipRecord
  <1> HIDE DEF out, r
  <1>3. CASE tipOptions.delayHide
    <2>1. /\ late \in TipRecord /\ late.wanted = out.wanted /\ late.timer = "hide"
          /\ late.made = out.made /\ late.abandoned = out.abandoned
          /\ late.attached = out.attached /\ late.hoverState = "out"
      BY <1>2 DEF TipRecord
    <2> QED BY <1>1, <1>2, <1>3, <2>1 DEF TipFine, TipCalm, Gone, SeenOff, Same, r
  <1>4. CASE ~tipOptions.delayHide
    <2>1. TipCalm(out) /\ (Gone(q) => Gone(out))
      BY <1>2 DEF TipCalm, Gone
    <2>2. /\ Same(out, TipHide(out, "hidden"))
          /\ Gone(q) => TipFine(TipHide(out, "hidden"))
      BY <1>2, <2>1, TipHideFine
    <2> QED BY <1>1, <1>2, <1>4, <2>2 DEF Same, r
  <1> QED BY <1>3, <1>4

\* The callback of show sees off a tip that was left meanwhile.
LEMMA ShownFine ==
    ASSUME NEW q \in TipRecord
    PROVE  /\ Same(q, Shown(q))
           /\ /\ Gone(q)
              /\ q.attached /\ ~q.wanted /\ ~q.abandoned /\ q.hoverState # "out" => Detaches(q)
              => TipFine(Shown(q))
  <1> DEFINE left == [q EXCEPT !.hoverState = NoState]
             r == Shown(q)
  <1>1. r = IF q.hoverState = "out" THEN TipLeave(left) ELSE left
    BY DEF Shown
  <1>2. /\ left \in TipRecord /\ left.wanted = q.wanted /\ left.made = q.made
        /\ left.abandoned = q.abandoned /\ left.hoverState = NoState
        /\ left.attached = q.attached
        /\ left.callbacks = q.callbacks /\ left.ending = q.ending
    BY DEF TipRecord
  <1> HIDE DEF left, r
  <1>3. Gone(q) => Gone(left)
    BY <1>2 DEF Gone
  <1>4. CASE q.hoverState = "out"
    BY <1>1, <1>2, <1>3, <1>4, TipLeaveFine DEF Same, r
  <1>5. CASE q.hoverState # "out"
    <2>1. Detaches(q) => Detaches(left)
      BY <1>2 DEF Detaches
    <2> QED BY <1>1, <1>2, <1>3, <1>5, <2>1 DEF Same, TipFine, TipCalm, SeenOff, NoState, r
  <1> QED BY <1>4, <1>5

\* show and enter.
LEMMA TipShowSame ==
    ASSUME NEW q \in TipRecord, tipOptions \in TipOptions
    PROVE  Same(q, TipShow(q))
  <1> DEFINE fade == tipOptions.animation
             placed == ApplyPlacement([SetContent(q) EXCEPT !.attached = TRUE, !.fade = fade])
             r == TipShow(q)
  <1>1. fade \in BOOLEAN
    BY TipAssumption
  <1>2. r = IF ~q.enabled THEN q
            ELSE IF fade THEN Waits(placed, "shown") ELSE Shown(placed)
    BY DEF TipShow
  <1>3. /\ placed \in TipRecord /\ placed.wanted = q.wanted /\ placed.made = q.made
        /\ placed.abandoned = q.abandoned
    <2> HIDE DEF fade
    <2> QED BY <1>1 DEF ApplyPlacement, SetContent, TipRecord
  <1> HIDE DEF placed, r
  <1>4. Same(placed, Shown(placed))
    BY <1>3, ShownFine
  <1>5. Same(placed, Waits(placed, "shown"))
    <2> DEFINE w == Waits(placed, "shown")
    <2>1. w \in TipRecord /\ w = [placed EXCEPT !.callbacks = w.callbacks]
      BY <1>3, WaitsIs DEF TipCallbacks
    <2> HIDE DEF w
    <2>2. w.wanted = placed.wanted /\ w.made = placed.made /\ w.abandoned = placed.abandoned
      BY <1>3, <2>1 DEF TipRecord
    <2> QED BY <2>1, <2>2 DEF Same, w
  <1> QED BY <1>2, <1>3, <1>4, <1>5 DEF Same, r

LEMMA TipEnterSame ==
    ASSUME NEW q \in TipRecord, tipOptions \in TipOptions
    PROVE  Same(q, TipEnter(q))
  <1> DEFINE in == [q EXCEPT !.timer = NoTimer, !.hoverState = "in"]
             still == [q EXCEPT !.hoverState = "in"]
             late == [in EXCEPT !.timer = "show"]
  <1>1. TipEnter(q) = IF q.attached THEN still
                      ELSE IF tipOptions.delayShow THEN late ELSE TipShow(in)
    BY DEF TipEnter
  <1>2. Same(q, in) /\ Same(q, still)
    BY DEF TipRecord, Same
  <1>3. Same(q, late)
    BY DEF TipRecord, Same
  <1> HIDE DEF in, still, late
  <1> QED BY <1>1, <1>2, <1>3, TipShowSame DEF Same

\* What an end of transition runs, one by one.
LEMMA TipCallbackFine ==
    ASSUME NEW q \in TipRecord, TipFine(q), q.ending # << >>
    PROVE  LET r == TipCallback([q EXCEPT !.ending = Tail(@)], Head(q.ending))
           IN TipFine(r)
  <1> DEFINE c == Head(q.ending)
             t == [q EXCEPT !.ending = Tail(@)]
             r == TipCallback(t, c)
  <1>1. /\ q.ending \in Seq(TipCallbacks) /\ c \in TipCallbacks /\ c = q.ending[1]
        /\ Tail(q.ending) \in Seq(TipCallbacks)
    BY DEF TipRecord
  <1>2. /\ t \in TipRecord /\ t.wanted = q.wanted /\ t.made = q.made
        /\ t.abandoned = q.abandoned
        /\ t.hoverState = q.hoverState /\ t.attached = q.attached
        /\ t.callbacks = q.callbacks /\ t.ending = Tail(q.ending)
    BY <1>1 DEF TipRecord
  <1>3. TipCalm(t) /\ Gone(t)
    BY <1>2 DEF TipCalm, Gone, TipFine
  <1> HIDE DEF t
  <1>4. ASSUME c = "shown" PROVE TipFine(r)
    <2>1. r = Shown(t)
      BY <1>4 DEF TipCallback
    <2>2. Detaches(q) => Detaches(t)
      <3>1. ASSUME NEW i \in DOMAIN q.ending, q.ending[i] # "shown"
            PROVE  i - 1 \in DOMAIN Tail(q.ending) /\ Tail(q.ending)[i - 1] = q.ending[i]
        <4>1. i \in 1..Len(q.ending) /\ i # 1
          BY <1>1, <1>4, <3>1
        <4> QED BY <1>1, <4>1
      <3> QED BY <1>2, <3>1 DEF Detaches
    <2>3. t.attached /\ ~t.wanted /\ ~t.abandoned /\ t.hoverState # "out" => Detaches(t)
      BY <1>2, <2>2 DEF TipFine, SeenOff
    <2> HIDE DEF r
    <2> QED BY <1>2, <1>3, <2>1, <2>3, ShownFine
  <1>5. ASSUME c # "shown" PROVE TipFine(r)
    <2>1. r = TipDone(t, c) /\ c \in {"hidden", "destroyed"}
      BY <1>1, <1>5 DEF TipCallback, TipCallbacks
    <2> HIDE DEF c, r
    <2>2. /\ r \in TipRecord /\ r.wanted = t.wanted /\ r.hoverState = t.hoverState
          /\ r.attached = (t.attached /\ t.hoverState = "in")
          /\ c = "hidden" => r.made = t.made /\ r.abandoned = t.abandoned
          /\ c = "destroyed" => /\ r.made = FALSE
                                /\ t.hoverState = "in" => r.abandoned = TRUE
      BY <1>2, <2>1, EndsIs
    <2>3. CASE t.hoverState = "in"
      <3>1. r.abandoned \/ (r.wanted /\ r.made)
        BY <1>3, <2>1, <2>2, <2>3 DEF TipCalm
      <3> QED BY <2>2, <3>1, WantedIsFine
    <2>4. CASE t.hoverState # "in"
      BY <2>2, <2>4 DEF TipFine, TipCalm, Gone, SeenOff
    <2> QED BY <2>3, <2>4
  <1> QED BY <1>4, <1>5 DEF t

\* An end of transition: what waited is about to run.
LEMMA TipEndFine ==
    ASSUME NEW q \in TipRecord, TipFine(q), q.ending = << >>
    PROVE  TipFine([q EXCEPT !.ending = q.callbacks, !.callbacks = << >>])
  <1> DEFINE r == [q EXCEPT !.ending = q.callbacks, !.callbacks = << >>]
  <1>1. << >> \in Seq(TipCallbacks) /\ DOMAIN << >> = {}
    OBVIOUS
  <1>2. /\ r \in TipRecord /\ r.wanted = q.wanted /\ r.timer = q.timer
        /\ r.made = q.made /\ r.abandoned = q.abandoned
        /\ r.hoverState = q.hoverState /\ r.attached = q.attached
        /\ r.ending = q.callbacks
    BY <1>1 DEF TipRecord
  <1> HIDE DEF r
  <1>3. Detaches(q) => Detaches(r)
    BY <1>1, <1>2 DEF Detaches
  <1> QED BY <1>2, <1>3 DEF TipFine, TipCalm, Gone, SeenOff, r

TipInv == tipOptions \in TipOptions /\ TipFine(tip)

LEMMA NewTipFine ==
    ASSUME NEW users \in SUBSET {"hover", "focus"}
    PROVE  TipFine(NewTip(users))
  <1> DEFINE r == NewTip(users)
  <1>1. << >> \in Seq(TipCallbacks)
    OBVIOUS
  <1>2. r \in TipRecord
    BY <1>1 DEF NewTip, TipRecord
  <1>3. r.hoverState = NoState /\ r.attached = FALSE
    BY DEF NewTip
  <1> HIDE DEF r
  <1> QED BY <1>2, <1>3 DEF TipFine, TipCalm, Gone, SeenOff, NoState, r

LEMMA InitTip == TipInit => TipInv
  BY NewTipFine DEF TipInit, TipInv

\* A tip of which something is changed that does not count.
LEMMA AlikeFine ==
    ASSUME NEW q, TipFine(q), NEW r \in TipRecord,
           r.wanted = q.wanted, r.hoverState = q.hoverState, r.attached = q.attached,
           r.made = q.made, r.abandoned = q.abandoned,
           r.timer = q.timer \/ (r.timer = NoTimer /\ ~(q.timer = "hide" /\ q.hoverState = "out")),
           r.callbacks = q.callbacks, r.ending = q.ending
    PROVE  TipFine(r)
  BY DEF TipFine, TipCalm, Gone, SeenOff, Detaches, NoTimer

\* Whatever comes in whatever order, a tip that is not wanted is seen off.
LEMMA NextTip == TipInv /\ [TipNext]_tipVars => TipInv'
  <1> SUFFICES ASSUME TipInv, [TipNext]_tipVars
               PROVE  tipOptions' = tipOptions /\ TipFine(tip')
    BY DEF TipInv
  <1>1. /\ tip \in TipRecord /\ TipFine(tip) /\ TipCalm(tip) /\ Gone(tip)
        /\ tipOptions \in TipOptions
    BY DEF TipInv, TipFine
  <1> USE DEF Tips
  <1>2. ASSUME NEW q \in TipRecord, (q.wanted /\ q.made) \/ q.abandoned
        PROVE  TipFine(TipEnter(q)) /\ TipFine(TipShow(q))
    <2>1. Same(q, TipEnter(q)) /\ Same(q, TipShow(q))
      BY <1>1, <1>2, TipEnterSame, TipShowSame
    <2> QED BY <1>2, <2>1, WantedIsFine DEF Same
  <1>3. ASSUME NEW by \in {"hover", "focus"}, Comes(by)
        PROVE  tipOptions' = tipOptions /\ TipFine(tip')
    <2> DEFINE come == [tip EXCEPT !.users = @ \cup {by}]
               asks == [come EXCEPT !.wanted = TRUE]
    <2>1. /\ come \in TipRecord /\ come.wanted = tip.wanted /\ come.timer = tip.timer
          /\ come.made = tip.made /\ come.abandoned = tip.abandoned
          /\ come.hoverState = tip.hoverState /\ come.attached = tip.attached
          /\ come.callbacks = tip.callbacks /\ come.ending = tip.ending
      BY <1>1 DEF TipRecord
    <2>2. asks \in TipRecord /\ asks.wanted = TRUE /\ asks.made = tip.made
      BY <1>1 DEF TipRecord
    <2>3. TipFine(come) /\ (tip.made => TipFine(TipEnter(asks)))
      <3> HIDE DEF come, asks
      <3> QED BY <1>1, <1>2, <2>1, <2>2, AlikeFine
    <2> QED BY <1>3, <2>3 DEF Comes, Bounded
  <1>4. ASSUME NEW by \in {"hover", "focus"}, Goes(by)
        PROVE  tipOptions' = tipOptions /\ TipFine(tip')
    <2> DEFINE gone == [tip EXCEPT !.users = @ \ {by}]
               leaves == [gone EXCEPT !.wanted = FALSE]
    <2>1. /\ leaves \in TipRecord /\ leaves.made = tip.made
          /\ leaves.abandoned = tip.abandoned
          /\ leaves.hoverState = tip.hoverState /\ leaves.attached = tip.attached
      BY <1>1 DEF TipRecord
    <2>2. TipFine(TipLeave(leaves)) /\ (~tip.made => TipFine(leaves))
      <3> HIDE DEF leaves
      <3>1. Gone(leaves)
        BY <1>1, <2>1 DEF Gone
      <3>2. ~tip.made => TipFine(leaves)
        BY <1>1, <2>1 DEF TipFine, TipCalm, Gone, SeenOff
      <3> QED BY <2>1, <3>1, <3>2, TipLeaveFine
    <2> QED BY <1>4, <2>2 DEF Goes
  <1>5. CASE TipToggle \/ CallTipShow
    <2> DEFINE asks == [tip EXCEPT !.wanted = TRUE]
               leaves == [tip EXCEPT !.wanted = FALSE]
    <2>1. /\ asks \in TipRecord /\ asks.wanted = TRUE /\ asks.made = tip.made
          /\ leaves \in TipRecord /\ leaves.made = tip.made
      BY <1>1 DEF TipRecord
    <2>2. tip.made
      BY <1>5 DEF TipToggle, CallTipShow, Bounded
    <2>3. TipFine(TipEnter(asks)) /\ TipFine(TipShow(asks)) /\ TipFine(TipLeave(leaves))
      <3> HIDE DEF asks, leaves
      <3>1. Gone(leaves)
        BY <2>1, <2>2 DEF Gone
      <3> QED BY <1>2, <2>1, <2>2, <3>1, TipLeaveFine
    <2> QED BY <1>5, <2>3 DEF TipToggle, CallTipShow
  <1>6. CASE CallTipHide
    <2> DEFINE r == [tip EXCEPT !.wanted = @ /\ tip.hoverState = "in"]
    <2>1. /\ r \in TipRecord /\ r.hoverState = tip.hoverState /\ r.made = tip.made
          /\ r.abandoned = tip.abandoned /\ r.attached = tip.attached
          /\ r.hoverState = "in" => r.wanted = tip.wanted
      BY <1>1 DEF TipRecord
    <2>2. Gone(r) /\ TipCalm(r)
      BY <1>1, <2>1 DEF Gone, TipCalm, TipFine
    <2>3. tip' = TipHide(r, "hidden") /\ tipOptions' = tipOptions
      BY <1>6 DEF CallTipHide, Tips
    <2> HIDE DEF r
    <2> QED BY <2>1, <2>2, <2>3, TipHideFine
  <1>7. ASSUME NEW enabled \in BOOLEAN, SetEnabled(enabled)
        PROVE  tipOptions' = tipOptions /\ TipFine(tip')
    <2> DEFINE r == [tip EXCEPT !.enabled = enabled]
    <2>1. /\ r \in TipRecord /\ r.wanted = tip.wanted /\ r.timer = tip.timer
          /\ r.made = tip.made /\ r.abandoned = tip.abandoned
          /\ r.hoverState = tip.hoverState /\ r.attached = tip.attached
          /\ r.callbacks = tip.callbacks /\ r.ending = tip.ending
      BY <1>1 DEF TipRecord
    <2>2. TipFine(r)
      <3> HIDE DEF r
      <3> QED BY <1>1, <2>1, AlikeFine
    <2> QED BY <1>7, <2>2 DEF SetEnabled
  <1>8. CASE Destroy
    <2> DEFINE r == [tip EXCEPT !.timer = NoTimer, !.wanted = FALSE]
    <2>1. r \in TipRecord /\ r.made = tip.made
      BY <1>1 DEF TipRecord
    <2>2. tip.made
      BY <1>8 DEF Destroy, Bounded
    <2>3. TipFine(TipHide(r, "destroyed"))
      <3> HIDE DEF r
      <3>1. Gone(r)
        BY <2>1, <2>2 DEF Gone
      <3> QED BY <2>1, <3>1, TipHideFine
    <2> QED BY <1>8, <2>3 DEF Destroy
  <1>9. CASE TipAgain
    <2>1. TipFine(NewTip(tip.users))
      BY <1>1, NewTipFine DEF TipRecord
    <2> QED BY <1>9, <2>1 DEF TipAgain
  <1>10. CASE TipTimer
    <2> DEFINE due == [tip EXCEPT !.timer = NoTimer]
    <2>1. /\ due \in TipRecord /\ due.wanted = tip.wanted /\ due.timer = NoTimer
          /\ due.made = tip.made /\ due.abandoned = tip.abandoned
          /\ due.hoverState = tip.hoverState /\ due.attached = tip.attached
          /\ due.callbacks = tip.callbacks /\ due.ending = tip.ending
      BY <1>1 DEF TipRecord
    <2>2. TipCalm(due) /\ Gone(due)
      <3> HIDE DEF due
      <3> QED BY <1>1, <2>1 DEF TipCalm, Gone
    <2>3. tipOptions' = tipOptions /\ (tip.timer = "show" \/ tip.timer = "hide")
      BY <1>1, <1>10 DEF TipTimer, TipRecord, NoTimer
    <2>4. CASE tip.timer = "show"
      <3>1. tip' = IF tip.hoverState = "in" THEN TipShow(due) ELSE due
        BY <1>10, <2>4 DEF TipTimer
      <3> HIDE DEF due
      <3>2. CASE tip.hoverState = "in"
        <4>1. (due.wanted /\ due.made) \/ due.abandoned
          BY <2>1, <2>2, <3>2 DEF TipCalm
        <4> QED BY <1>2, <2>1, <2>3, <3>1, <3>2, <4>1
      <3>3. CASE tip.hoverState # "in"
        BY <1>1, <2>1, <2>3, <2>4, <3>1, <3>3, AlikeFine
      <3> QED BY <3>2, <3>3
    <2>5. CASE tip.timer = "hide"
      <3>1. tip' = IF tip.hoverState = "out" THEN TipHide(due, "hidden") ELSE due
        BY <1>10, <2>5 DEF TipTimer
      <3> HIDE DEF due
      <3>2. CASE tip.hoverState = "out"
        BY <2>1, <2>2, <2>3, <3>1, <3>2, TipHideFine
      <3>3. CASE tip.hoverState # "out"
        BY <1>1, <2>1, <2>3, <3>1, <3>3, AlikeFine
      <3> QED BY <3>2, <3>3
    <2> QED BY <2>3, <2>4, <2>5
  <1>11. CASE TipEnd
    BY <1>1, <1>11, TipEndFine DEF TipEnd
  <1>12. CASE TipRun
    BY <1>1, <1>12, TipCallbackFine DEF TipRun
  <1>13. CASE UNCHANGED tipVars
    BY <1>1, <1>13 DEF tipVars
  <1> QED BY <1>3, <1>4, <1>5, <1>6, <1>7, <1>8, <1>9, <1>10, <1>11, <1>12, <1>13
          DEF TipNext

LEMMA TipInvSeesOff == TipInv => TipTypeOK /\ TipIsSeenOff
  BY DEF TipInv, TipFine, TipRecord, SeenOff, TipTypeOK, TipIsSeenOff

-------------------------------------------------------------------------------
(* The page.                                                               *)

PageInv == ModalInv /\ CarouselInv /\ CarouselFlagged /\ TipInv /\ CollapseInv

LEMMA InitPage == Init => PageInv
  BY InitModal, InitWell, InitFlagged, InitTip, InitCollapse DEF Init, PageInv

\* A step of the page is one of a widget, and the others stay as they are.
LEMMA NextPage == PageInv /\ [Next]_vars => PageInv'
  <1> SUFFICES ASSUME PageInv, [Next]_vars
               PROVE  /\ [ModalNext]_modalVars /\ [CarouselNext]_carouselVars
                      /\ [TipNext]_tipVars /\ [CollapseNext]_collapseVars
    BY NextModal, NextWell, NextFlagged, NextTip, NextCollapse DEF PageInv
  <1> QED BY DEF Next, vars, UseModal, UseCarousel, UseTooltip, UseCollapse

LEMMA PageInvHolds == Spec => []PageInv
  BY InitPage, NextPage, PTL DEF Spec

\* The widgets of a page keep to their types, whatever their options, the
\* number of items and panels, and the durations of their transitions.
THEOREM PageTypes == Spec => []PageTypeOK
  <1>1. PageInv => PageTypeOK
    BY ModalInvSettles, WellTyped, TipInvSeesOff, CollapseInvSettles DEF PageInv, PageTypeOK
  <1> QED BY <1>1, PageInvHolds, PTL

\* When nothing of a modal waits any more it is as it was last asked to be:
\* shown with its backdrop and with the body padded, or away without a trace,
\* whatever was called while it moved (modal.js:51 to 277); but for a modal
\* that was ever shown while a hide was in its transitions.
THEOREM PageModalSettles == Spec => []ModalSettles
  <1>1. PageInv => ModalSettles
    BY ModalInvSettles DEF PageInv
  <1> QED BY <1>1, PageInvHolds, PTL

\* The carousel of a page shows one item, moves one at a time, has one
\* interval at most and makes the calls that wait (lines 345 to 460).
THEOREM PageCarouselKeepsStep == Spec => []CarouselKeepsStep
  <1>1. PageInv => CarouselKeepsStep
    BY WellKeepsStep DEF PageInv
  <1> QED BY <1>1, PageInvHolds, PTL

\* A tip that is in the page and not wanted is about to leave it, whatever the
\* order of comings, goings, calls, timeouts and ends of transitions (lines
\* 1342 to 1468), unless destroy was through while the user was there (lines
\* 1541 and 1684).
THEOREM PageTipIsSeenOff == Spec => []TipIsSeenOff
  <1>1. PageInv => TipIsSeenOff
    BY TipInvSeesOff DEF PageInv
  <1> QED BY <1>1, PageInvHolds, PTL

\* An accordion of any number of panels has no two open, and a panel at rest is
\* as its trigger says, whatever the clicks and calls while panels move; unless
\* line 590 has dropped the object of one that moves, or line 676 misread one.
THEOREM PageCollapseSettles == Spec => []CollapseSettles
  <1>1. PageInv => CollapseSettles
    BY CollapseInvSettles DEF PageInv
  <1> QED BY <1>1, PageInvHolds, PTL
===============================================================================
