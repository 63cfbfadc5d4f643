-------------------------------- MODULE Ctl --------------------------------
(***************************************************************************)
(* runCtl (cmd/pupptyeer/ctl.go): the command line, its subcommand, and    *)
(* what that asks of the daemon.  `attach' goes on for as long as Attach   *)
(* says; `new', `list' and `gc' are one request.                           *)
(***************************************************************************)
EXTENDS Attach, NewArgs

CONSTANTS
    AttachLines,    \* command lines: of `attach', and of the others
    OtherLines

ASSUME LinesAssumption ==
    /\ \A l \in AttachLines : l.cmd = "attach"
    /\ \A l \in OtherLines : l.lead \in Seq(NsWord) /\ l.sub \in Seq(Word)

VARIABLES
    line,       \* [lead, cmd, sub]: flags, the subcommand, what follows it
    request     \* what has come of it

vars == <<line, request, attachVars>>

Unparsed == [error |-> "unparsed"]

Init ==
    /\ request = Unparsed
    /\ Begin("none")
    /\ \/ line \in AttachLines
       \/ /\ LET s == CHOOSE t \in Starts : TRUE IN
             <<config, budget, tty, size>> =
                 <<s.config, s.budget, s.tty, s.size>>
          /\ line \in OtherLines

\* `list' and `gc' take the namespace flags after their name too; the others
\* leave what follows alone, and have no use for --all-namespaces.
Scope(l) ==
    LET lead == ExtractNSFlags(l.lead, TRUE)
        sub  == IF l.cmd \in {"list", "gc"} THEN ExtractNSFlags(l.sub, FALSE)
                ELSE [NoFlags EXCEPT !.rest = l.sub]
    IN  IF \/ lead.failed \/ sub.failed
           \/ (lead.all \/ sub.all) /\ l.cmd \notin {"list", "gc"}
        THEN Failed
        ELSE [ns |-> IF sub.ns # "" THEN sub.ns ELSE lead.ns,
              all |-> lead.all \/ sub.all, rest |-> sub.rest]

RunCtl(l) ==
    IF Scope(l) = Failed THEN Failed
    ELSE IF l.cmd = "new"
         THEN LET o == ParseNewArgs(l.sub)
              IN  IF o = Failed THEN Failed
                  ELSE [env |-> o.env, command |-> o.command,
                        ns |-> Scope(l).ns]
         ELSE Scope(l)

Dispatch ==
    /\ request = Unparsed
    /\ request' = RunCtl(line)
    /\ mode' = IF line.cmd # "attach" \/ request' = Failed THEN "none"
               ELSE IF line.sub[1] = <<"read-only">> THEN "readonly"
               ELSE "interactive"
    /\ UNCHANGED <<line, config, budget, ttyVars, cmdVars, sigVars, pumpVars,
                   netVars, sessVars>>

Next ==
    \/ Dispatch
    \/ mode # "none" /\ AttachNext /\ UNCHANGED <<line, request>>

Spec == Init /\ [][Next]_vars /\ WF_vars(Dispatch) /\ AttachFairness

-----------------------------------------------------------------------------
(* Properties *)

NsFlags(words) == {i \in 1..Len(words) : words[i][1] = "ns"}

LastNs(words) ==
    IF NsFlags(words) = {} THEN ""
    ELSE LET last == CHOOSE i \in NsFlags(words) :
                         \A j \in NsFlags(words) : j <= i
         IN  words[last][2]

Has(words, w) == \E i \in 1..Len(words) : words[i] = w

\* A request means what its line says: `new' asks for the environment that the
\* flags before the command make, each variable from the last that sets it, or
\* for none, and for the command with all its words; the namespace is that of
\* the last -n, where -n is a flag, and after the name of `list' or `gc' an
\* empty one chooses none.
RequestExact ==
    request # Unparsed =>
        /\ request # Failed /\ line.cmd = "new" =>
               request.ns = LastNs(line.lead)
        /\ line.cmd = "new" =>
               \/ Has(line.lead, <<"all">>)
               \/ IsRequest(line.sub, request)
        /\ line.cmd \in {"list", "gc"} =>
               IF Has(line.sub, <<"bad">>) THEN request = Failed
               ELSE /\ request.ns = IF LastNs(line.sub) = ""
                                    THEN LastNs(line.lead)
                                    ELSE LastNs(line.sub)
                    /\ request.all = (\/ Has(line.lead, <<"all">>)
                                      \/ Has(line.sub, <<"all">>))
=============================================================================
