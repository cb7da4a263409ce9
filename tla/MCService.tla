------------------------------ MODULE MCService ------------------------------
EXTENDS Service

\* Two times suffice for a row written later; a day of grace is over when the next begins.
MCMaxNow == 1
MCGrace  == 0
=============================================================================
