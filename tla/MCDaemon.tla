------------------------------ MODULE MCDaemon ------------------------------
(* Instances of Daemon for TLC: every session object is created under the   *)
(* one key of the instance, so that creations race for it and ids are       *)
(* reused.                                                                  *)
EXTENDS Daemon, TLC

CONSTANTS TheKey, c1, c2

MCKey == {TheKey}
MCKeyOf == [s \in Sess |-> TheKey]

\* Session objects are interchangeable.
MCSymmetry == Permutations(Sess)

\* One client that creates and attaches and may hang up, one that creates and
\* kills: every pair of handlers that share a session runs side by side.
MCAsksTwo ==
    c1 :> {"new", "attach", "detach", "hangup"} @@ c2 :> {"new", "gc"}

\* One client that creates, attaches and kills, and is cut off only by Close,
\* which kills beside it.
MCAsksOne == c1 :> {"new", "attach", "write", "kill"}
=============================================================================
