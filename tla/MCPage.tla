-------------------------------- MODULE MCPage --------------------------------
\* Bounds: three items, three panels; a dialog that takes two ticks to fade
\* and a backdrop that takes one; a show while a hide is in transition, which
\* leaves up to two backdrops; three callbacks on a tip.
EXTENDS Page

MCModalOptions ==
    [backdrop : {"true", "static", "false"}, fade : {TRUE}, keyboard : {TRUE},
     scrolls : {TRUE}]
    \cup [backdrop : {"true", "false"}, fade : {FALSE}, keyboard : {FALSE},
          scrolls : BOOLEAN]

MCSlideOptions == [wrap : BOOLEAN, animate : BOOLEAN, interval : BOOLEAN]

MCTipOptions == [animation : BOOLEAN, delayShow : BOOLEAN, delayHide : BOOLEAN]
===============================================================================
