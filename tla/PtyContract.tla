----------------------------- MODULE PtyContract -----------------------------
(***************************************************************************)
(* What one supervised PTY promises to those who use it: the chunks the    *)
(* program writes are delivered in order; the session is over (its exit is *)
(* announced, or a Kill of it has returned) only when all of them have     *)
(* been, unless the PTY was torn down before; after that nothing is.       *)
(***************************************************************************)
EXTENDS Integers

VARIABLES
    written,    \* chunks the program has written
    delivered,  \* those in the scrollback
    torn,       \* the PTY has been closed under the program
    over        \* the session is over

vars == <<written, delivered, torn, over>>

Init == written = 0 /\ delivered = 0 /\ ~torn /\ ~over

Write ==
    /\ ~torn /\ ~over
    /\ written' = written + 1
    /\ UNCHANGED <<delivered, torn, over>>

Deliver ==
    /\ ~over
    /\ delivered < written
    /\ delivered' = delivered + 1
    /\ UNCHANGED <<written, torn, over>>

TearDown ==
    /\ torn' = TRUE
    /\ UNCHANGED <<written, delivered, over>>

End ==
    /\ torn \/ delivered = written
    /\ over' = TRUE
    /\ UNCHANGED <<written, delivered, torn>>

Next == Write \/ Deliver \/ TearDown \/ End

Spec == Init /\ [][Next]_vars
=============================================================================
