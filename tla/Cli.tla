-------------------------------- MODULE Cli --------------------------------
(* The command line client (cmd/eidovela/main.go): one command line is     *)
(* read by Go's flag package and main's switches and ends in one call of   *)
(* the SDK or in an exit.  What the call's answer does is not modelled.    *)
(*                                                                         *)
(* An argument is a word, a flag with or without its value attached, or    *)
(* "--".  Its text is the sequence of its comma-separated parts, the only  *)
(* thing a command looks into; which texts are RFC 3339 timestamps and     *)
(* which are numbers is given by constants.                                *)
EXTENDS Naturals, SequencesExt

CONSTANTS
  Texts,        \* texts a user types, each a sequence of parts
  Times,        \* the texts time.Parse accepts
  Numbers,      \* the texts the flag package accepts for an integer
  MaxSettings,  \* bound on the flags of one command line
  MaxRest       \* bound on the operands of one command line

ASSUME TextAssumption ==
  /\ Texts \subseteq Seq(STRING) \ {<<>>} /\ <<"">> \in Texts
  /\ Times \subseteq Texts \ {<<"">>} /\ Numbers \subseteq Texts \ {<<"">>}

ASSUME BoundAssumption == MaxSettings \in Nat /\ MaxRest \in Nat

VARIABLES
  typed,    \* what the user means and how it is laid out; never changes
  args,     \* the arguments that are left
  fs,       \* the flag set being parsed: a command's path, <<>> for main's
  flags,    \* the values of its flags
  server,   \* the value of -server, once main has it
  result    \* how the program ended, or Running

vars == <<typed, args, fs, flags, server, result>>
-----------------------------------------------------------------------------
(* Arguments *)

Word(text) == [name |-> "", text |-> text]
Flag(name) == [name |-> name, text |-> <<>>]
FlagWith(name, text) == [name |-> name, text |-> text]
Terminator == Flag("--")

Words == {Word(t) : t \in Texts}
Blank == Word(<<"">>)
Nothing == Flag("")         \* a flag that ends the line without its value

(* The flag sets and their defaults, and the flags that must be given.     *)
FlagSets == {<<>>, <<"suspend">>, <<"revoke">>, <<"evidence">>,
             <<"federation-trust", "create">>, <<"instance", "lease">>,
             <<"blueprint", "register">>, <<"blueprint", "list">>}

Defaults(path) ==
  LET Unset(names) == [n \in names |-> Blank]
  IN CASE path = <<>> -> [server |-> Word(<<"http://localhost:1966">>)]
       [] path \in {<<"suspend">>, <<"revoke">>} -> Unset({"reason"})
       [] path = <<"evidence">> -> Unset({"type", "since"})
       [] path = <<"instance", "lease">> -> Unset({"expires"})
       [] path = <<"federation-trust", "create">> ->
            [Unset({"jwks-uri", "audiences", "agent-claim", "status"})
               EXCEPT !["agent-claim"] = Word(<<"sub">>),
                      !["status"] = Word(<<"active">>)]
       [] path = <<"blueprint", "register">> ->
            [Unset({"class", "version", "publisher"})
               EXCEPT !["publisher"] = Word(<<"axisrobo">>)]
       [] path = <<"blueprint", "list">> ->
            [Unset({"status", "publisher", "blueprint-id", "limit"})
               EXCEPT !["limit"] = Word(<<"0">>)]
       [] OTHER -> <<>>

Required(path) ==
  CASE path = <<"federation-trust", "create">> -> {"jwks-uri", "audiences"}
    [] path = <<"instance", "lease">> -> {"expires"}
    [] path = <<"blueprint", "register">> -> {"class", "version"}
    [] OTHER -> {}

(* The commands that parse no flags.                                       *)
PlainOne == {<<"register-service">>, <<"register-twin">>, <<"activate">>,
             <<"agent">>, <<"instance", "terminate">>}
            \cup {<<"federation-trust", v>> : v \in {"get", "enable", "disable"}}
            \cup {<<"blueprint", v>> : v \in {"publish", "deprecate"}}
PlainNone == {<<"outbox">>, <<"fed-status">>}
Commands == PlainOne \cup PlainNone \cup (FlagSets \ {<<>>})
              \cup {<<"agents">>, <<"federation-trust", "list">>}

(* The numbers of operands a command takes.                                *)
Arity(path) ==
  CASE path = <<"agents">> -> {0, 1}
    [] path \in PlainOne \cup {<<"suspend">>, <<"revoke">>,
                  <<"federation-trust", "create">>, <<"instance", "lease">>} -> {1}
    [] OTHER -> {0}
-----------------------------------------------------------------------------
(* What users type: a command, settings of flags and operands.  Users also *)
(* type what is no command, forget a subcommand, a flag's name or a value. *)

Paths == Commands \cup {<<>>, <<"instance">>, <<"blueprint">>,
                        <<"federation-trust">>, <<"instance", "list">>}

Settings(path) ==
  LET Names == DOMAIN Defaults(path) \cup {"h", "verbose"}
  IN [name : Names, value : Words, attached : BOOLEAN]
       \cup [name : Names, value : {Flag("h"), Nothing}, attached : {FALSE}]

Layouts == {"flags first", "terminated flags", "operands first"}

CommandWords(path) == [i \in DOMAIN path |-> Word(<<path[i]>>)]

(* A value may be missing at the end of a line only; the operands of what  *)
(* is no command do not complete the name of one.                          *)
Typed(path) ==
  {t \in [path : {path}, server : {Nothing, Word(<<"URL">>)},
          settings : SeqOf(Settings(path), MaxSettings),
          rest : SeqOf(Words, MaxRest), layout : Layouts] :
     /\ \A i \in DOMAIN t.settings :
          t.settings[i].value = Nothing =>
            /\ i = Len(t.settings)
            /\ \/ t.layout = "operands first"
               \/ t.layout = "flags first" /\ t.rest = <<>>
     /\ path \notin Commands =>
          \A c \in Commands : ~IsPrefix(CommandWords(c), CommandWords(path) \o t.rest)}

Spelling(s) ==
  IF s.value = Nothing THEN <<Flag(s.name)>>
  ELSE IF s.attached THEN <<FlagWith(s.name, s.value.text)>>
  ELSE <<Flag(s.name), s.value>>

CommandLine(t) ==
  LET set == FlattenSeq([i \in DOMAIN t.settings |-> Spelling(t.settings[i])])
  IN (IF t.server = Nothing THEN <<>> ELSE <<Flag("server"), t.server>>)
       \o CommandWords(t.path)
       \o CASE t.layout = "flags first" -> set \o t.rest
            [] t.layout = "terminated flags" -> set \o <<Terminator>> \o t.rest
            [] t.layout = "operands first" -> t.rest \o set
-----------------------------------------------------------------------------
Running == [end |-> "running"]
Exit(code) == [end |-> "exit", code |-> code]
Call(path, operands, values, url) ==
  [end |-> "call", of |-> path, with |-> operands, flags |-> values,
   server |-> url]

Init ==
  /\ \E path \in Paths : typed \in Typed(path)
  /\ args = CommandLine(typed)
  /\ fs = <<>>
  /\ flags = Defaults(<<>>)
  /\ server = Nothing
  /\ result = Running

End(r) == result' = r /\ UNCHANGED <<typed, args, fs, flags, server>>
usage == End(Exit(2))

(* One turn of FlagSet.Parse (external: Go's flag package, ExitOnError).   *)
Flagged == args # <<>> /\ Head(args).name \notin {"", "--"}

SetFlag(name, value, left) ==
  IF name = "limit" /\ value \notin {Word(t) : t \in Numbers}
  THEN End(Exit(2))
  ELSE /\ flags' = [flags EXCEPT ![name] = value]
       /\ args' = left
       /\ UNCHANGED <<typed, fs, server, result>>

ParseOne ==
  /\ result = Running /\ Flagged
  /\ LET f == Head(args)
     IN IF f.name \notin DOMAIN flags
        THEN End(Exit(IF f.name = "h" THEN 0 ELSE 2))
        ELSE IF f.text # <<>> THEN SetFlag(f.name, Word(f.text), Tail(args))
        ELSE IF Len(args) > 1
             THEN SetFlag(f.name, args[2], SubSeq(args, 3, Len(args)))
             ELSE End(Exit(2))

(* Parsing stops at the first argument that is no flag, and after "--".    *)
Parsed(set) == result = Running /\ fs = set /\ ~Flagged
Arguments == IF args # <<>> /\ Head(args) = Terminator THEN Tail(args) ELSE args

(* main's switch, and those of the groups: what follows a command's name.  *)
Named(path) == Parsed(<<>>) /\ IsPrefix(CommandWords(path), Arguments)
After(path) == SubSeq(Arguments, Len(path) + 1, Len(Arguments))

CallNow(path) == End(Call(path, After(path), Defaults(path), flags["server"]))
(* Faulty variant: a command starts with the flags of main's set.          *)
ParseFlagsUnset(path) ==
  /\ fs' = path
  /\ args' = After(path)
  /\ server' = flags["server"]
  /\ UNCHANGED <<typed, flags, result>>

ParseFlags(path) ==
  /\ fs' = path
  /\ args' = After(path)
  /\ flags' = Defaults(path)
  /\ server' = flags["server"]
  /\ UNCHANGED <<typed, result>>

Plain(path) ==
  /\ Named(path)
  /\ IF Len(After(path)) \in Arity(path) THEN CallNow(path) ELSE usage

(* list looks at no further argument.                                      *)
ListFederationTrusts ==
  Named(<<"federation-trust", "list">>) /\ CallNow(<<"federation-trust", "list">>)

(* Faulty variant: the operand is taken before the flags are parsed.       *)
lifecycleOperandFirst(path) ==
  /\ Named(path)
  /\ IF Len(After(path)) >= 1 THEN CallNow(path) ELSE ParseFlags(path)

(* A lone argument is the agent's id, whatever it looks like.              *)
lifecycleWithReason(path) ==
  /\ Named(path)
  /\ IF Len(After(path)) = 1 THEN CallNow(path) ELSE ParseFlags(path)

Evidence ==
  /\ Named(<<"evidence">>)
  /\ IF After(<<"evidence">>) = <<>> THEN CallNow(<<"evidence">>)
                                     ELSE ParseFlags(<<"evidence">>)

WithFlags(path) == Named(path) /\ ParseFlags(path)

NoCommand ==
  /\ Parsed(<<>>)
  /\ \A path \in Commands : ~IsPrefix(CommandWords(path), Arguments)
  /\ usage

(* What follows fs.Parse in each command.                                  *)
Given(names) == \A n \in names : flags[n] # Blank
Enough == Len(Arguments) \in Arity(fs) /\ Given(Required(fs))

CallWith(values) == End(Call(fs, Arguments, values, server))
CallIfEnough(path, values) ==
  Parsed(path) /\ IF Enough THEN CallWith(values) ELSE usage

ReasonParsed(path) == CallIfEnough(path, flags)

splitCSV(value) ==
  [value EXCEPT !.text = SelectSeq(@, LAMBDA part : part # "")]

createFederationTrust ==
  CallIfEnough(<<"federation-trust", "create">>,
               [flags EXCEPT !["audiences"] = splitCSV(@)])

IsTime(value) == value \in {Word(t) : t \in Times}

LeaseInstance ==
  /\ Parsed(<<"instance", "lease">>)
  /\ IF Enough /\ ~IsTime(flags["expires"]) THEN End(Exit(1))
     ELSE CallIfEnough(<<"instance", "lease">>, flags)

(* Operands of evidence are not looked at.                                 *)
evidenceSince ==
  /\ Parsed(<<"evidence">>)
  /\ IF Given({"since"}) /\ ~IsTime(flags["since"]) THEN End(Exit(1))
     ELSE CallWith(flags)

RegisterBlueprint == CallIfEnough(<<"blueprint", "register">>, flags)

(* Faulty variant: without its check for operands.                         *)
ListBlueprintsUncounted == Parsed(<<"blueprint", "list">>) /\ CallWith(flags)

ListBlueprints == CallIfEnough(<<"blueprint", "list">>, flags)

main ==
  \/ \E path \in PlainOne \cup PlainNone \cup {<<"agents">>} : Plain(path)
  \/ ListFederationTrusts
  \/ \E path \in {<<"suspend">>, <<"revoke">>} : lifecycleWithReason(path)
  \/ Evidence
  \/ \E path \in {<<"federation-trust", "create">>, <<"instance", "lease">>,
                  <<"blueprint", "register">>, <<"blueprint", "list">>} :
       WithFlags(path)
  \/ NoCommand

Next ==
  \/ ParseOne
  \/ main
  \/ \E path \in {<<"suspend">>, <<"revoke">>} : ReasonParsed(path)
  \/ createFederationTrust
  \/ LeaseInstance
  \/ evidenceSince
  \/ RegisterBlueprint
  \/ ListBlueprints

Spec == Init /\ [][Next]_vars
-----------------------------------------------------------------------------
(* The meaning of a command line, from what was meant and not from how it  *)
(* is parsed: every flag has the value it was given last, or its default.  *)

ValueOf(t, n) ==
  LET at == {i \in DOMAIN t.settings : t.settings[i].name = n}
  IN IF at = {} THEN Defaults(t.path)[n]
     ELSE t.settings[CHOOSE i \in at : \A j \in at : j <= i].value

Complete(t) ==
  /\ t.path \in Commands
  /\ Len(t.rest) \in Arity(t.path)
  /\ t.layout = "terminated flags" => t.path \in FlagSets
  /\ \A i \in DOMAIN t.settings :
       /\ t.settings[i].name \in DOMAIN Defaults(t.path)
       /\ t.settings[i].value # Nothing
       /\ t.settings[i].name = "limit" =>
            t.settings[i].value \in {Word(n) : n \in Numbers}
  /\ \A n \in Required(t.path) : ValueOf(t, n) # Blank
  /\ \A n \in DOMAIN Defaults(t.path) \cap {"expires", "since"} :
       ValueOf(t, n) # Blank => IsTime(ValueOf(t, n))

Meant(t) ==
  Call(t.path, t.rest,
       [n \in DOMAIN Defaults(t.path) |->
          IF n = "audiences" THEN splitCSV(ValueOf(t, n)) ELSE ValueOf(t, n)],
       IF t.server = Nothing THEN Word(<<"http://localhost:1966">>)
       ELSE t.server)

(* The arguments left are a suffix of the command line; the values are     *)
(* those of the flag set being parsed.                                     *)
TypeOK ==
  /\ IsSuffix(args, CommandLine(typed))
  /\ fs \in FlagSets
  /\ DOMAIN flags = DOMAIN Defaults(fs)
  /\ result \in {Running, Exit(0), Exit(1), Exit(2)} \/ result.end = "call"

(* "Flags precede the agent id" (main.go:246): a complete command whose    *)
(* flags come first, in any order, repeated or not, attached to their      *)
(* values or not, with values that look like flags, and with or without    *)
(* "--", ends in the call that was meant.                                  *)
FlagsFirstReachesCall ==
  Complete(typed) /\ typed.layout # "operands first" /\ result # Running =>
    result = Meant(typed)

(* A call is made only when it was meant, with the values that were meant: *)
(* nothing typed is dropped and no default stands in for a value.  evidence *)
(* and federation-trust list are exempt, since they ignore what they do not *)
(* know; so is a lone flag, which the commands without a flag set, suspend *)
(* and revoke take for their operand.                                      *)
NoCallUnlessMeant ==
  result.end = "call" =>
    \/ Complete(typed) /\ result = Meant(typed)
    \/ result.of \in {<<"evidence">>, <<"federation-trust", "list">>}
    \/ \E i \in DOMAIN result.with : result.with[i] \notin Words

(* The usage text (main.go:285, 286) puts the operand of federation-trust  *)
(* create and of instance lease before the flags: a complete command typed *)
(* that way ends in its call.                                              *)
UsageOrderReachesCall ==
  /\ typed.path \in {<<"federation-trust", "create">>, <<"instance", "lease">>}
  /\ Complete(typed) /\ typed.layout = "operands first" /\ result # Running
  /\ \A i \in DOMAIN typed.settings : typed.settings[i].value \in Words \ {Blank}
  => result = Meant(typed)

=============================================================================
