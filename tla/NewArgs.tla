------------------------------ MODULE NewArgs ------------------------------
(***************************************************************************)
(* The command line of `pupptyeer ctl': the flags that select a namespace  *)
(* (extractNSFlags) and the flags of `ctl new' that build the environment  *)
(* of the program (parseNewArgs, readEnvFile); cmd/pupptyeer/ctl.go.       *)
(*                                                                         *)
(* A flag is a tuple, its arguments in it:                                 *)
(*   <<"ns", n>>  <<"all">>          -n n, -A                              *)
(*   <<"copy">>  <<"clean">>         --copy-env, --clean-env or -i         *)
(*   <<"env", k, v>>                 --env k=v                             *)
(*   <<"file", lines>>               --env-file, its lines: <<k, v>>, or   *)
(*                                   <<>> for one that has no name         *)
(*   <<"other">>                     a flag that is not about environments *)
(*   <<"bad">>                       a flag with no or a wrong argument    *)
(*   <<"word", w>>                   no flag: the command, or a word of it *)
(***************************************************************************)
EXTENDS Integers, Sequences

CONSTANT Environ    \* the environment of this process

ASSUME EnvironAssumption ==
    /\ DOMAIN Environ \subseteq STRING
    /\ Environ \in [DOMAIN Environ -> STRING]

NsWord == ({"ns"} \X STRING) \cup {<<"all">>}

EnvLine == (STRING \X STRING) \cup {<<>>}

Word == NsWord \cup {<<"copy">>, <<"clean">>, <<"other">>, <<"bad">>}
               \cup ({"env"} \X STRING \X STRING)
               \cup ({"file"} \X Seq(EnvLine))
               \cup ({"word"} \X STRING)

None == <<>>        \* the empty function, and on the wire: inherit
Failed == [error |-> "usage"]

\* env with what vars sets in it.
Merge(env, vars) ==
    [k \in DOMAIN env \cup DOMAIN vars |->
        IF k \in DOMAIN vars THEN vars[k] ELSE env[k]]

Single(k, v) == [x \in {k} |-> v]

\* The flags are taken from the front, up to the first other word, or, with
\* ~leadingOnly, from anywhere.
NoFlags == [ns |-> "", all |-> FALSE, failed |-> FALSE, rest |-> <<>>]

TakeNsFlag(o, w, leadingOnly) ==
    IF o.failed THEN o
    ELSE IF leadingOnly /\ o.rest # <<>>
    THEN [o EXCEPT !.rest = Append(@, w)]
    ELSE CASE w[1] = "ns"  -> [o EXCEPT !.ns = w[2]]
           [] w[1] = "all" -> [o EXCEPT !.all = TRUE]
           [] w[1] = "bad" -> [o EXCEPT !.failed = TRUE]
           [] OTHER        -> [o EXCEPT !.rest = Append(@, w)]

ExtractNSFlags(words, leadingOnly) ==
    LET taken[i \in 0..Len(words)] ==
            IF i = 0 THEN NoFlags
            ELSE TakeNsFlag(taken[i - 1], words[i], leadingOnly)
    IN  taken[Len(words)]

-----------------------------------------------------------------------------

\* The lines of a file, up to the first that is wrong.
TakeLine(o, line) ==
    IF o.failed THEN o
    ELSE IF line = <<>> THEN [o EXCEPT !.failed = TRUE]
    ELSE [o EXCEPT !.env = Merge(@, Single(line[1], line[2]))]

ReadEnvFile(lines, o) ==
    LET read[i \in 0..Len(lines)] ==
            IF i = 0 THEN [o EXCEPT !.touched = TRUE]
            ELSE TakeLine(read[i - 1], lines[i])
    IN  read[Len(lines)]

\* Mutant: --clean-env says where to start, but forgets nothing.
CleanKeeps(o) == [o EXCEPT !.touched = TRUE, !.base = TRUE]

CleanEnv(o) == [o EXCEPT !.env = None, !.touched = TRUE, !.base = TRUE]

TakeFlag(o, w) ==
    IF o.failed \/ o.command # <<>>
    THEN [o EXCEPT !.command = IF o.failed THEN @ ELSE Append(@, w)]
    ELSE CASE w[1] = "copy"  -> [o EXCEPT !.env = Merge(@, Environ),
                                          !.touched = TRUE, !.base = TRUE]
           [] w[1] = "clean" -> CleanEnv(o)
           [] w[1] = "env"   -> [o EXCEPT !.env = Merge(@, Single(w[2], w[3])),
                                          !.touched = TRUE]
           [] w[1] = "file"  -> ReadEnvFile(w[2], o)
           [] w[1] = "bad"   -> [o EXCEPT !.failed = TRUE]
           [] w[1] = "other" -> o
           [] OTHER          -> [o EXCEPT !.command = <<w>>]

\* What is asked of the daemon: the environment is whole or absent.
NoOptions == [env |-> None, touched |-> FALSE, base |-> FALSE,
              failed |-> FALSE, command |-> <<>>]

ParseNewArgs(words) ==
    LET taken[i \in 0..Len(words)] ==
            IF i = 0 THEN NoOptions ELSE TakeFlag(taken[i - 1], words[i])
        o == taken[Len(words)]
    IN  IF \/ o.failed
           \/ o.command = <<>>
           \/ o.touched /\ ~o.base
           \/ o.touched /\ o.env = None
        THEN Failed
        ELSE [env |-> o.env, command |-> o.command]

-----------------------------------------------------------------------------
(* The same, read off the line: a variable has the value of the last flag   *)
(* that gives it one, unless --clean-env comes later.                       *)

Flags(words) ==
    LET end == {i \in 1..Len(words) : words[i][1] \in {"word", "ns", "all"}}
    IN  IF end = {} THEN words
        ELSE SubSeq(words, 1, (CHOOSE i \in end : \A j \in end : i <= j) - 1)

SetBy(flag) ==
    CASE flag[1] = "copy" -> Environ
      [] flag[1] = "env"  -> Single(flag[2], flag[3])
      [] flag[1] = "file" ->
             [k \in {flag[2][i][1] : i \in 1..Len(flag[2])} |->
                 LET last == CHOOSE i \in 1..Len(flag[2]) :
                         /\ flag[2][i][1] = k
                         /\ \A j \in (i + 1)..Len(flag[2]) : flag[2][j][1] # k
                 IN  flag[2][last][2]]
      [] OTHER -> None

Defines(flags, i, k, v) ==
    /\ k \in DOMAIN SetBy(flags[i])
    /\ SetBy(flags[i])[k] = v
    /\ \A j \in (i + 1)..Len(flags) :
           flags[j] # <<"clean">> /\ k \notin DOMAIN SetBy(flags[j])

Wrong(flag) ==
    \/ flag[1] = "bad"
    \/ flag[1] = "file" /\ \E i \in 1..Len(flag[2]) : flag[2][i] = <<>>

IsRequest(words, answer) ==
    LET flags   == Flags(words)
        kinds   == {flags[i][1] : i \in 1..Len(flags)}
        touched == kinds \cap {"copy", "clean", "env", "file"} # {}
        wrong   == \E i \in 1..Len(flags) : Wrong(flags[i])
    IN  IF answer = Failed
        THEN \/ wrong
             \/ Len(flags) = Len(words)
             \/ touched /\ kinds \cap {"copy", "clean"} = {}
             \/ touched /\ \A i \in 1..Len(flags) :
                    \A k \in DOMAIN SetBy(flags[i]) :
                        ~Defines(flags, i, k, SetBy(flags[i])[k])
        ELSE /\ ~wrong
             /\ answer.command = SubSeq(words, Len(flags) + 1, Len(words))
             /\ touched => kinds \cap {"copy", "clean"} # {}
             /\ touched => answer.env # None
             /\ \A i \in 1..Len(flags) : \A k \in DOMAIN SetBy(flags[i]) :
                    LET v == SetBy(flags[i])[k] IN
                    Defines(flags, i, k, v) =>
                        k \in DOMAIN answer.env /\ answer.env[k] = v
             /\ \A k \in DOMAIN answer.env : \E i \in 1..Len(flags) :
                    Defines(flags, i, k, answer.env[k])
=============================================================================
