-------------------------------- MODULE Cli --------------------------------
(***************************************************************************)
(* How the shell reads a line (cli.rs): the command a line stands for, or  *)
(* none.  A line is the sequence of its words, a word the sequence of its  *)
(* fields, which colons separate: DOMAIN:PACKAGE:VERSION has three, and a  *)
(* field may be empty.                                                     *)
(***************************************************************************)
EXTENDS Sequences, FiniteSetsExt

CONSTANTS
    Version,        \* the texts that parse as a version, and the versions they are
    Key,            \* the texts that are 64 hexadecimal digits, and what has that hash
    Address,        \* the words that parse as an IP:PORT
    PrevOption,     \* the words that begin with --prev=, and what follows
    OtherOptions,   \* the other words that begin with --, but for --force
    Stem(_, _),     \* what a file name makes of a domain and a package
    None

ASSUME OptionAssumption == DOMAIN PrevOption \intersect OtherOptions = {} /\ <<"--force">> \notin OtherOptions

Last(s) == s[Len(s)]
Front(s) == SubSeq(s, 1, Len(s) - 1)

(* A parser returns the set of what it has parsed: empty for Err(_), after which the shell says
   why and reads the next line. *)

nothing == [kind |-> "nothing", domain |-> None, package |-> None, version |-> None,
            file |-> None, previous |-> None, force |-> FALSE, key |-> None]

parse_key(word) == IF Len(word) = 1 /\ word[1] \in DOMAIN Key THEN {Key[word[1]]} ELSE {}

\* split_once: the package is all that follows the first colon.
parse_package_name(word) ==
    IF Len(word) >= 2 /\ word[1] # "" /\ Tail(word) # <<"">> /\ Len(Tail(word)) = 1
    THEN {[domain |-> word[1], package |-> word[2]]} ELSE {}

\* rsplit_once: the version is what follows the last colon.
parse_install_name(word) ==
    IF Len(word) >= 2 /\ Last(word) \in DOMAIN Version \union {"latest"}
    THEN {[domain |-> n.domain, package |-> n.package,
           version |-> IF Last(word) = "latest" THEN None ELSE Version[Last(word)]] :
            n \in parse_package_name(Front(word))}
    ELSE {}

\* The state of parse_publish_args' loop.
no_options == [ok |-> TRUE, force |-> FALSE, previous |-> None, positional |-> <<>>]

\* One turn of the loop.
option(acc, word) ==
    CASE word = <<"--force">> -> [acc EXCEPT !.force = TRUE, !.ok = @ /\ ~acc.force]
      [] word \in DOMAIN PrevOption ->
            IF PrevOption[word] \in DOMAIN Version /\ acc.previous = None
            THEN [acc EXCEPT !.previous = Version[PrevOption[word]]] ELSE [acc EXCEPT !.ok = FALSE]
      [] word \in OtherOptions -> [acc EXCEPT !.ok = FALSE]
      [] OTHER -> [acc EXCEPT !.positional = Append(@, word)]

parse_publish_args(words) ==
    LET after[i \in 0..Len(words)] == IF i = 0 THEN no_options ELSE option(after[i - 1], words[i])
        options == after[Len(words)]
        names == IF options.ok /\ Len(options.positional) = 2
                 THEN {n \in parse_install_name(options.positional[1]) : n.version # None} ELSE {}
    IN  {[nothing EXCEPT !.kind = "publish", !.domain = n.domain, !.package = n.package, !.version = n.version,
                         !.file = options.positional[2], !.previous = options.previous,
                         !.force = options.force] : n \in names}

\* The name install gives a file when it is told none: its characters do not all survive, so
\* packages may share one.
default_install_filename(domain, package, version) == <<Stem(domain, package), version>>

(* The arms of run: what each makes of the words that follow its own. *)

ping_arm(args) ==
    {[nothing EXCEPT !.kind = "ping", !.key = a] : a \in IF Len(args) = 1 THEN {args[1]} \intersect Address ELSE {}}

put_arm(args) == IF Len(args) = 1 THEN {[nothing EXCEPT !.kind = "put", !.file = args[1]]} ELSE {}

get_arm(args) ==
    IF Len(args) \in 1..2
    THEN {[nothing EXCEPT !.kind = "get", !.key = k, !.file = IF Len(args) = 2 THEN args[2] ELSE None] :
            k \in parse_key(args[1])}
    ELSE {}

\* A package called rt or ds cannot be shown: it has no domain.
show_arm(args) ==
    CASE args \in {<< <<"rt">> >>, << <<"ds">> >>} -> {[nothing EXCEPT !.kind = args[1][1]]}
      [] Len(args) = 2 /\ args[1] = <<"dns">> -> {[nothing EXCEPT !.kind = "dns", !.domain = args[2]]}
      [] Len(args) = 1 /\ args[1] \notin {<<"rt">>, <<"ds">>} ->
            {[nothing EXCEPT !.kind = "show", !.domain = n.domain, !.package = n.package] : n \in parse_package_name(args[1])}
      [] OTHER -> {}

install_arm(args) ==
    IF Len(args) \in 1..2
    THEN {[nothing EXCEPT !.kind = "install", !.domain = n.domain, !.package = n.package, !.version = n.version,
                          !.file = IF Len(args) = 2 THEN args[2] ELSE None] : n \in parse_install_name(args[1])}
    ELSE {}

\* The arm the first word selects, if the line has one and the arm takes the rest.
parse(line) ==
    LET word == IF line # <<>> /\ Len(line[1]) = 1 THEN line[1][1] ELSE ""
        args == Tail(line) IN
    CASE word = "ping" -> ping_arm(args)
      [] word = "put" -> put_arm(args)
      [] word = "get" -> get_arm(args)
      [] word = "show" -> show_arm(args)
      [] word = "install" -> install_arm(args)
      [] word = "publish" -> parse_publish_args(args)
      [] word \in {"help", "exit"} /\ args = <<>> -> {[nothing EXCEPT !.kind = word]}
      [] OTHER -> {}
=============================================================================
