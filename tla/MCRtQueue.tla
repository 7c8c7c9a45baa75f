------------------------------- MODULE MCRtQueue -------------------------------
(***************************************************************************)
(* RtQueue alone on small rings, and popn's copying loop run as it is        *)
(* written against the closed form that RtQueue uses.                        *)
(***************************************************************************)
EXTENDS RtQueue, SequencesExt

\* for (i = tail + n; i > tail; i--) CopyDown
PopnLoop(n) == FoldLeft(CopyDown, elems, [k \in 1 .. n |-> tail + n + 1 - k])

\* Whatever the ring holds and wherever its tail is, popn's loop leaves n copies
\* of the element it takes, and nothing else changes (rtqueue.c:155-156).
PopnLoopAgrees == \A n \in 0 .. size - 1 : PopnLoop(n) = ShiftedOver(n)
===============================================================================
