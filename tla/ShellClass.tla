----------------------------- MODULE ShellClass -----------------------------
(***************************************************************************)
(* The three tiers of a shell command (internal/approval/shellclass.go):   *)
(* destructive, by the patterns of destructive.go applied to every command *)
(* of the parsed line and to what wrappers carry; harmless, by the read-   *)
(* only list of fastpath.go; normal.  And the narrower list of probes that *)
(* Plan mode and the Explore agent may run.                                *)
(*                                                                         *)
(* A script is the sequence of the simple commands the parser finds in it, *)
(* also those inside pipelines, lists and subshells.  A word is one token  *)
(* of a small vocabulary or a quoted script; a token that is computed at   *)
(* run time is "".  Scripts are built step by step, the way a model may    *)
(* write them: take a program, wrap it, quote it, put it beside another.   *)
(***************************************************************************)
EXTENDS Naturals, Sequences, FiniteSets, FiniteSetsExt, SequencesExt

CONSTANTS
    Programs,       \* command lines without any wrapper, as sequences of tokens
    Irreversible,   \* those of them that destroy something by themselves
    MaxUnwrapDepth, \* maxUnwrapDepth of the code
    MaxSize         \* programs, wrappers and quotes of one script

ASSUME ShellAssumption ==
    /\ Irreversible \subseteq Programs
    /\ MaxUnwrapDepth \in Nat /\ MaxSize \in Nat

Token(t) == [tok |-> t, script |-> <<>>]
Quoted(s) == [tok |-> "quoted", script |-> s]
Words(tokens) == [i \in DOMAIN tokens |-> Token(tokens[i])]

Command(words) == [words |-> words, redirect |-> "none"]
Redirects == {"none", "read", "write", "garbled"}

-----------------------------------------------------------------------------
(***************************************************************************)
(* The vocabulary, by the spelling the code looks at.                      *)
(***************************************************************************)
Assignments == {"NAME=value"}
LongFlags == {"--", "--hard", "--force", "--recursive", "--version", "--signal=KILL"}
CarryingC == {"-c", "-lc"}
ShortFlags == CarryingC \cup {"-r", "-rf", "-fd", "-f", "-R", "-n", "-s", "-I{}", "-k", "-l",
                              "-d", "-D", "-exec", "-delete", "-C"}
Flags == LongFlags \cup ShortFlags
DangerousPaths == {"/", "~", "$HOME/x", "/etc", "/usr/x"}
Escaping == {"/", "~", "$HOME/x", "/etc", "/usr/x", "../x"}
Terminators == {";", "+"}

Shells == {"bash", "sh"}

\* Per wrapper: the flags that eat the next word, how many words are its own, and
\* whether it takes assignments.
ExecWrappers ==
    [cmd \in {"xargs", "nohup", "nice", "timeout", "env"} |->
        [valueFlags |-> CASE cmd = "xargs" -> {"-n", "-s", "-d"}
                          [] cmd = "nice" -> {"-n"}
                          [] cmd = "timeout" -> {"-s", "-k"}
                          [] cmd = "env" -> {"-C"}
                          [] OTHER -> {},
         positionals |-> IF cmd = "timeout" THEN 1 ELSE 0,
         assignments |-> cmd = "env"]]

-----------------------------------------------------------------------------
(***************************************************************************)
(* Reading words.                                                          *)
(***************************************************************************)
Toks(words) == {words[i].tok : i \in DOMAIN words}

From(words, i) == SubSeq(words, i, Len(words))

\* Assignments in front of the command are dropped.
ExtractWords(words) ==
    LET real == {i \in DOMAIN words : words[i].tok \notin Assignments}
    IN IF real = {} THEN <<>> ELSE From(words, Min(real))

\* The argument of the first flag with a c in it, as a script.
ShellStringArg(args) ==
    LET at == {i \in DOMAIN args : args[i].tok \in CarryingC /\ i < Len(args)}
    IN IF at = {} THEN <<>>
       ELSE LET arg == args[Min(at) + 1]
            IN IF arg.tok = "quoted" THEN arg.script
               ELSE IF arg.tok = "" THEN <<>> ELSE <<Command(<<arg>>)>>

RECURSIVE SkipOwn(_, _, _)
SkipOwn(spec, args, positionals) ==
    IF args = <<>> THEN <<>>
    ELSE LET a == Head(args).tok
         IN CASE a = "--" -> Tail(args)
              [] a \in Assignments /\ spec.assignments -> SkipOwn(spec, Tail(args), positionals)
              [] a \in Flags /\ a \in spec.valueFlags ->
                    SkipOwn(spec, From(args, 3), positionals)
              [] a \in Flags -> SkipOwn(spec, Tail(args), positionals)
              [] positionals > 0 -> SkipOwn(spec, Tail(args), positionals - 1)
              [] OTHER -> args

\* Mutant: the wrapper's own flags are taken for the command.
InnerOfExecWrapper_Raw(cmd, args) == args

InnerOfExecWrapper(cmd, args) ==
    SkipOwn(ExecWrappers[cmd], args, ExecWrappers[cmd].positionals)

\* From the first action of find to its terminator.
FindExecInner(args) ==
    LET at == {i \in DOMAIN args : args[i].tok = "-exec"}
    IN IF at = {} THEN <<>>
       ELSE LET rest == From(args, Min(at) + 1)
                ends == {i \in DOMAIN rest : rest[i].tok \in Terminators}
            IN IF ends = {} THEN rest ELSE SubSeq(rest, 1, Min(ends) - 1)

RECURSIVE SkipGlobals(_)
SkipGlobals(args) ==
    IF args = <<>> THEN <<>>
    ELSE IF Head(args).tok \in {"-C", "-c"} THEN SkipGlobals(From(args, 3))
    ELSE IF Head(args).tok \in Flags THEN SkipGlobals(Tail(args))
    ELSE args

-----------------------------------------------------------------------------
(***************************************************************************)
(* Destructive.                                                            *)
(***************************************************************************)
MatchRm(args) ==
    \/ Toks(args) \cap {"-r", "-rf", "-R", "--recursive"} # {}
    \/ Toks(args) \cap DangerousPaths # {}

MatchChmod(args) == "777" \in Toks(args)
MatchChown(args) == Toks(args) \cap {"-R", "--recursive"} # {}

MatchTruncate(args) ==
    \E i \in 1..(Len(args) - 1) : args[i].tok = "-s" /\ args[i + 1].tok = "0"

MatchGit(args) ==
    LET sub == SkipGlobals(args)
        rest == Toks(Tail(sub))
    IN /\ sub # <<>>
       /\ CASE Head(sub).tok = "reset" -> "--hard" \in rest
            [] Head(sub).tok = "clean" -> rest \cap {"-fd", "--force"} # {}
            [] Head(sub).tok = "push" -> rest \cap {"--force", "-f"} # {}
            [] Head(sub).tok \in {"checkout", "restore"} -> "." \in rest
            [] OTHER -> FALSE

RECURSIVE MatchDestructive(_, _)
RECURSIVE ClassifyShellCommand(_, _)

MatchWrapped(cmd, args, depth) ==
    IF depth >= MaxUnwrapDepth
      THEN cmd \in Shells \cup DOMAIN ExecWrappers \cup {"find"}
      ELSE CASE cmd \in Shells ->
                  /\ ShellStringArg(args) # <<>>
                  /\ ClassifyShellCommand(ShellStringArg(args), depth + 1)
             [] cmd \in DOMAIN ExecWrappers ->
                  /\ InnerOfExecWrapper(cmd, args) # <<>>
                  /\ MatchDestructive(InnerOfExecWrapper(cmd, args), depth + 1)
             [] cmd = "find" ->
                  /\ FindExecInner(args) # <<>>
                  /\ MatchDestructive(FindExecInner(args), depth + 1)
             [] OTHER -> FALSE

MatchDestructive(words, depth) ==
    LET cmd == Head(words).tok
        args == Tail(words)
    IN \/ MatchWrapped(cmd, args, depth)
       \/ CASE cmd \in {"sudo", "su", "doas", "mkfs", "fdisk", "shred", "kill", "pkill",
                        "killall"} -> TRUE
            [] cmd = "dd" -> "of=x" \in Toks(args)
            [] cmd = "diskutil" -> "eraseDisk" \in Toks(args)
            [] cmd = "rm" -> MatchRm(args)
            [] cmd = "chmod" -> MatchChmod(args)
            [] cmd = "chown" -> MatchChown(args)
            [] cmd = "truncate" -> MatchTruncate(args)
            [] cmd = "git" -> MatchGit(args)
            [] OTHER -> FALSE

\* A line that does not parse is destructive, and so is one nested too deep.
ClassifyShellCommand(script, depth) ==
    \/ depth > MaxUnwrapDepth
    \/ \E i \in DOMAIN script : script[i].redirect = "garbled"
    \/ \E i \in DOMAIN script :
        LET words == ExtractWords(script[i].words)
        IN words # <<>> /\ MatchDestructive(words, depth)

-----------------------------------------------------------------------------
(***************************************************************************)
(* Harmless, and the probes.                                               *)
(***************************************************************************)
ShellReadOnlyCommands == {"pwd", "ls", "cat", "head", "grep", "rg", "jq", "echo", "which",
                          "env", "sort", "wc"}
ExploreProbeCommands == {"pwd", "ls", "wc", "rg", "jq", "head", "which"}
ExploreVersionCommands == {"go", "node", "cargo"}
GitReadOnlySubcommands == {"status", "log", "show", "diff", "branch", "config", "stash", "tag",
                           "ls-files"}
ExploreGitSubcommands == {"status", "log", "show", "diff", "ls-files"}
HelpFlags == {"--version"}

IsReadOnlyGit(args) ==
    LET sub == SkipGlobals(args)
        rest == Toks(Tail(sub))
    IN /\ sub # <<>>
       /\ Head(sub).tok \in GitReadOnlySubcommands
       /\ Head(sub).tok \in {"branch", "tag"} => rest \cap {"-d", "-D", "--delete"} = {}
       /\ Head(sub).tok = "stash" => rest = {} \/ rest \cap {"list", "show"} # {}
       /\ Head(sub).tok = "config" => rest \cap {"-l", "--get"} # {}

IsReadOnlyInvocation(words) ==
    LET cmd == Head(words).tok
        args == Tail(words)
    IN \/ Toks(args) \cap HelpFlags # {}
       \/ cmd = "find" /\ Toks(args) \cap {"-delete", "-exec"} = {}
       \/ cmd = "git" /\ IsReadOnlyGit(args)
       \/ cmd \in ShellReadOnlyCommands

IsReadOnlyShellCommand(script) ==
    \A i \in DOMAIN script :
        /\ script[i].redirect \notin {"write", "garbled"}
        /\ LET words == ExtractWords(script[i].words)
           IN words = <<>> \/ IsReadOnlyInvocation(words)

IsExploreGitProbe(args) ==
    /\ args # <<>>
    /\ Head(args).tok \in ExploreGitSubcommands
    /\ IsReadOnlyGit(args)

IsExploreProbeCommand(script) ==
    \A i \in DOMAIN script :
        /\ script[i].redirect = "none"
        /\ LET words == ExtractWords(script[i].words)
               args == Tail(words)
           IN /\ words # <<>>
              /\ Toks(words) \cap ({""} \cup Escaping) = {}
              /\ \/ Head(words).tok = "git" /\ IsExploreGitProbe(args)
                 \/ Head(words).tok \in ExploreProbeCommands
                 \/ /\ Head(words).tok \in ExploreVersionCommands
                    /\ Len(args) = 1 /\ Toks(args) \subseteq HelpFlags

ShellClass(script) ==
    IF script = <<>> THEN "normal"
    ELSE IF ClassifyShellCommand(script, 0) THEN "destructive"
    ELSE IF IsReadOnlyShellCommand(script) THEN "harmless"
    ELSE "normal"

-----------------------------------------------------------------------------
VARIABLES
    script,         \* the command line
    size,           \* programs, wrappers and quotes put together so far
    destroys        \* history: one of the programs in it is irreversible

shellVars == <<script, size, destroys>>

ShellTypeOK ==
    /\ \A i \in DOMAIN script : script[i].redirect \in Redirects
    /\ size \in 0..MaxSize /\ destroys \in BOOLEAN

ShellInit == script = <<>> /\ size = 0 /\ destroys = FALSE

\* `;', `&&', `|', a subshell: another command before or after.
PutBeside(p, after) ==
    /\ size < MaxSize
    /\ script' = IF after THEN Append(script, Command(Words(p)))
                          ELSE <<Command(Words(p))>> \o script
    /\ destroys' = (destroys \/ p \in Irreversible)
    /\ size' = size + 1

WrapLast(prefix, suffix) ==
    /\ script # <<>> /\ size < MaxSize
    /\ script' = [script EXCEPT ![Len(script)].words = Words(prefix) \o @ \o Words(suffix)]
    /\ size' = size + 1
    /\ UNCHANGED destroys

\* An assignment is one only in front of a command of the shell, or after env.
StartsPlain(words) == ExtractWords(words) = words

WrapExec ==
    \/ WrapLast(<<"env", "NAME=value">>, <<>>)
    \/ /\ script # <<>> /\ StartsPlain(Last(script).words)
       /\ \E prefix \in {<<"nohup">>, <<"xargs", "-n", "1">>, <<"timeout", "-k", "5", "9">>,
                         <<"nice", "--">>} : WrapLast(prefix, <<>>)

WrapFind ==
    /\ script # <<>> /\ StartsPlain(Last(script).words)
    /\ WrapLast(<<"find", ".", "-exec">>, <<";">>)

Assign == WrapLast(<<"NAME=value">>, <<>>)

QuoteAll ==
    /\ script # <<>> /\ size < MaxSize
    /\ \E call \in {<<"bash", "-lc">>, <<"sh", "-c">>} :
        script' = <<Command(Words(call) \o <<Quoted(script)>>)>>
    /\ size' = size + 1
    /\ UNCHANGED destroys

Redirect(kind) ==
    /\ script # <<>> /\ size < MaxSize
    /\ script[1].redirect = "none"
    /\ script' = [script EXCEPT ![1].redirect = kind]
    /\ size' = size + 1
    /\ UNCHANGED destroys

ShellNext ==
    \/ \E p \in Programs, after \in BOOLEAN : PutBeside(p, after)
    \/ WrapExec \/ WrapFind \/ Assign \/ QuoteAll
    \/ \E kind \in Redirects \ {"none"} : Redirect(kind)

ShellSpec == ShellInit /\ [][ShellNext]_shellVars

-----------------------------------------------------------------------------
\* A line that has an irreversible program anywhere in it is destructive, however
\* many wrappers, quotes, assignments, redirections and tame commands surround it:
\* too deep to look is destructive too.
WrappingNeverCalms == destroys => ShellClass(script) = "destructive"

\* The list of probes is the stricter one: whatever it accepts is harmless, so the
\* Explore agent and Plan mode run nothing the approval policy would ask about.
ProbesAreHarmless ==
    script # <<>> /\ IsExploreProbeCommand(script) => ShellClass(script) = "harmless"

\* Both: the three tiers are ordered the way those who trust them assume.
TiersAreOrdered == WrappingNeverCalms /\ ProbesAreHarmless
=============================================================================
