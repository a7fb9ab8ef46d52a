--------------------------------- MODULE Page ---------------------------------
(***************************************************************************)
(* A page with the four widgets of bootstrap.js.  They share nothing but   *)
(* transitions and timers, each on elements of its own, so that what one   *)
(* does is the same whatever the others do: a behaviour uses one of them,  *)
(* the widget `used`.                                                      *)
(***************************************************************************)
EXTENDS Modal, Carousel, Tooltip, Collapse

VARIABLE used

vars == <<used, modalVars, carouselVars, tipVars, collapseVars>>

Init == /\ used \in {"modal", "carousel", "tooltip", "collapse"}
        /\ ModalInit /\ CarouselInit /\ TipInit /\ CollapseInit
        /\ used # "modal" => modalOptions = CHOOSE o \in ModalOptions : TRUE
        /\ used # "carousel" => slideOptions = CHOOSE o \in SlideOptions : TRUE
        /\ used # "tooltip" => tipOptions = CHOOSE o \in TipOptions : TRUE
        /\ used # "collapse" => /\ animate = CHOOSE o \in Animate : TRUE
                                /\ \A p \in PanelIds : accordion.panels[p].collapsed

UseModal == /\ used = "modal" /\ ModalNext
            /\ UNCHANGED <<used, carouselVars, tipVars, collapseVars>>

UseCarousel == /\ used = "carousel" /\ CarouselNext
               /\ UNCHANGED <<used, modalVars, tipVars, collapseVars>>

UseTooltip == /\ used = "tooltip" /\ TipNext
              /\ UNCHANGED <<used, modalVars, carouselVars, collapseVars>>

UseCollapse == /\ used = "collapse" /\ CollapseNext
               /\ UNCHANGED <<used, modalVars, carouselVars, tipVars>>

Next == UseModal \/ UseCarousel \/ UseTooltip \/ UseCollapse

Spec == Init /\ [][Next]_vars /\ TipFairness

PageTypeOK == ModalTypeOK /\ CarouselTypeOK /\ TipTypeOK /\ CollapseTypeOK
===============================================================================
