SPECIFICATION Spec
CONSTANTS
    ModalOptions <- MCModalOptions
    DialogDuration = 2
    BackdropDuration = 1
    MaxBackdrops = 2
    MaxPending = 1
    SlideOptions <- MCSlideOptions
    Items = 3
    MaxQueue = 2
    TipOptions <- MCTipOptions
    MaxCallbacks = 3
    Animate = {TRUE, FALSE}
    Panels = 3
    MaxWaits = 2
INVARIANTS PageTypeOK ModalSettles CarouselKeepsStep TipIsSeenOff CollapseSettles
PROPERTIES TipGoesAway
