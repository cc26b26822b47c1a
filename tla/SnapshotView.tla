--------------------------- MODULE SnapshotView ---------------------------
(***************************************************************************)
(* What a page of the console promises about the data it shows, without    *)
(* saying how it asks for them: whatever it shows was the server's data at *)
(* some moment since the page was opened.  Data never show from before     *)
(* that moment, from the page that was open before, or data the server did  *)
(* not hold.  Two answers may still be shown in the wrong order.           *)
(***************************************************************************)
EXTENDS Naturals

CONSTANT None

VARIABLES
    current,  \* number of the server's present data
    opened,   \* the number when the page was opened; None: no page that shows data
    shown     \* the number of the data on the page; None: nothing shown yet

viewVars == <<current, opened, shown>>

Init == current = 0 /\ opened = None /\ shown = None

Change ==
    /\ current' = current + 1
    /\ UNCHANGED <<opened, shown>>

Open == opened' = current /\ shown' = None /\ UNCHANGED current

Close == opened' = None /\ shown' = None /\ UNCHANGED current

Show ==
    /\ opened # None
    /\ shown' \in opened .. current
    /\ UNCHANGED <<current, opened>>

Next == Change \/ Open \/ Close \/ Show

Spec == Init /\ [][Next]_viewVars
=============================================================================
