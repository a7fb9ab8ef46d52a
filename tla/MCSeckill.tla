------------------------------- MODULE MCSeckill -------------------------------
\* Bounds: four buyers for two items, so that buyers conflict, some lose a
\* race and some come too late.
EXTENDS Seckill

CONSTANTS b1, b2, b3, b4

MCBuyers == {b1, b2, b3, b4}
===============================================================================
