----------------------------- MODULE CliProofs -----------------------------
(***************************************************************************)
(* What a command line ends in, for any texts and any number of flags and  *)
(* operands: Spec implies TypeOK, FlagsFirstReachesCall and                *)
(* NoCallUnlessMeant.                                                      *)
(*                                                                         *)
(* The invariant (IInv) says how far the parser is.  What is left is the   *)
(* command line from the -server flag on, from the command's name on, or   *)
(* from the first flag not yet read or the operands on; and the values     *)
(* that flags hold are what the flags read so far were given.  A program   *)
(* that has ended, ended as its command line deserves (Suits).             *)
(*                                                                         *)
(* FlattenSeq is a fold, so what it is over the first i flags is shown by  *)
(* induction up to their number (UpTo, from WFMin), from the left and from *)
(* the right.                                                              *)
(***************************************************************************)
EXTENDS Cli, TLAPS, SequenceTheorems, WellFoundedInduction

-----------------------------------------------------------------------------
(* Sequences that are flattened.                                           *)

\* Induction over the numbers up to n, for a set of them.
LEMMA UpTo ==
    ASSUME NEW n \in Nat, NEW G \in SUBSET (0 .. n), 0 \in G, \A i \in 1 .. n : i - 1 \in G => i \in G
    PROVE  G = 0 .. n
<1> DEFINE R == {ss \in Nat \X Nat : ss[1] < ss[2]}
           B == (0 .. n) \ G
<1>1. SUFFICES ASSUME B # {} PROVE FALSE
  OBVIOUS
<1>2. IsWellFoundedOn(R, Nat)
  BY NatLessThanWellFounded DEF OpToRel
<1>3. B \in SUBSET Nat
  OBVIOUS
<1>4. PICK x \in B : \A y \in B : ~(<<y, x>> \in R)
  <2>. HIDE DEF R, B
  <2>. QED BY <1>1, <1>2, <1>3, WFMin
<1>5. x \in 1 .. n /\ x - 1 \in 0 .. n /\ x \in Nat /\ x - 1 \in Nat
  BY <1>4
<1>6. <<x - 1, x>> \in R
  BY <1>5
<1>7. x - 1 \in G
  BY <1>4, <1>5, <1>6
<1>. QED BY <1>4, <1>5, <1>7

\* What FlattenSeq computes, from the left.
LEMMA Flattened ==
    ASSUME NEW S, NEW seqs \in Seq(Seq(S))
    PROVE  \E f \in [0 .. Len(seqs) -> Seq(S)] :
              /\ f[0] = << >> /\ f[Len(seqs)] = FlattenSeq(seqs)
              /\ \A i \in 1 .. Len(seqs) : f[i] = f[i - 1] \o seqs[i]
<1> DEFINE n == Len(seqs)
           Rec(g, m) == \A i \in 1 .. m : g[i] = IF i = 1 THEN seqs[i] ELSE g[i - 1] \o seqs[i]
           G == {m \in 0 .. n : \E g \in [1 .. m -> Seq(S)] : Rec(g, m)}
<1>1. n \in Nat /\ \A i \in 1 .. n : seqs[i] \in Seq(S)
  OBVIOUS
<1>2. 0 \in G
  <2>1. << >> \in [1 .. 0 -> Seq(S)]
    OBVIOUS
  <2>2. Rec(<< >>, 0)
    OBVIOUS
  <2>3. 0 \in 0 .. n
    BY <1>1
  <2>. HIDE DEF Rec, n
  <2>. QED BY <2>1, <2>2, <2>3
<1>3. ASSUME NEW i \in 1 .. n, i - 1 \in G PROVE i \in G
  <2>1. PICK g \in [1 .. (i - 1) -> Seq(S)] : Rec(g, i - 1)
    BY <1>3
  <2> DEFINE x == IF i = 1 THEN seqs[i] ELSE g[i - 1] \o seqs[i]
             h == [j \in 1 .. i |-> IF j = i THEN x ELSE g[j]]
  <2>2. x \in Seq(S)
    <3>1. CASE i = 1
      BY <1>1, <3>1
    <3>2. CASE i # 1
      <4>1. g[i - 1] \in Seq(S)
        BY <2>1, <3>2
      <4>. QED BY <1>1, <3>2, <4>1, ConcatProperties
    <3>. QED BY <3>1, <3>2
  <2>3. h \in [1 .. i -> Seq(S)]
    <3>. HIDE DEF x
    <3>. QED BY <2>1, <2>2
  <2>4. Rec(h, i)
    <3>1. ASSUME NEW j \in 1 .. i PROVE h[j] = IF j = 1 THEN seqs[j] ELSE h[j - 1] \o seqs[j]
      <4>1. CASE j = i
        BY <4>1
      <4>2. CASE j # i
        <5>1. j \in 1 .. (i - 1) /\ (j # 1 => j - 1 \in 1 .. i /\ j - 1 # i)
          BY <4>2
        <5>. QED BY <2>1, <4>2, <5>1
      <4>. QED BY <4>1, <4>2
    <3>. QED BY <3>1
  <2>. HIDE DEF Rec, h
  <2>. QED BY <2>3, <2>4
<1>4. n \in G
  <2>1. G \in SUBSET (0 .. n)
    OBVIOUS
  <2>. HIDE DEF G
  <2>2. G = 0 .. n
    BY <1>1, <1>2, <1>3, <2>1, UpTo
  <2>. QED BY <1>1, <2>2
<1>5. PICK g \in [1 .. n -> Seq(S)] : Rec(g, n)
  BY <1>4
<1> DEFINE F == CHOOSE f : f = [i \in 1 .. n |-> IF i = 1 THEN seqs[i] ELSE f[i - 1] \o seqs[i]]
<1>6. g = [i \in 1 .. n |-> IF i = 1 THEN seqs[i] ELSE g[i - 1] \o seqs[i]]
  BY <1>5
<1>7. F = [i \in 1 .. n |-> IF i = 1 THEN seqs[i] ELSE F[i - 1] \o seqs[i]]
  <2>. HIDE DEF n
  <2>. QED BY <1>6
<1>8. n # 0 => FlattenSeq(seqs) = F[n]
  BY DEF FlattenSeq
<1>9. F = g
  <2> DEFINE E == {m \in 0 .. n : \A j \in 1 .. m : F[j] = g[j]}
  <2>. HIDE DEF F
  <2>1. 0 \in E
    BY <1>1
  <2>2. ASSUME NEW i \in 1 .. n, i - 1 \in E PROVE i \in E
    <3>1. F[i] = IF i = 1 THEN seqs[i] ELSE F[i - 1] \o seqs[i]
      BY <1>7
    <3>2. g[i] = IF i = 1 THEN seqs[i] ELSE g[i - 1] \o seqs[i]
      BY <1>6
    <3>3. i # 1 => F[i - 1] = g[i - 1]
      BY <2>2
    <3>4. F[i] = g[i]
      BY <3>1, <3>2, <3>3
    <3>. QED BY <2>2, <3>4
  <2>3. E \in SUBSET (0 .. n)
    OBVIOUS
  <2>4. E = 0 .. n
    <3>. HIDE DEF E
    <3>. QED BY <1>1, <2>1, <2>2, <2>3, UpTo
  <2>5. \A i \in 1 .. n : F[i] = g[i]
    <3>1. n \in 0 .. n
      BY <1>1
    <3>2. n \in E
      BY <2>4, <3>1, Zenon
    <3>. QED BY <3>2, Zenon
  <2>6. F = [i \in 1 .. n |-> F[i]] /\ g = [i \in 1 .. n |-> g[i]]
    BY <1>6, <1>7
  <2>. QED BY <2>5, <2>6
<1> DEFINE f == [i \in 0 .. n |-> IF i = 0 THEN << >> ELSE g[i]]
<1>10. f \in [0 .. n -> Seq(S)] /\ f[0] = << >>
  BY <1>1, <1>5
<1>11. f[n] = FlattenSeq(seqs)
  <2>1. CASE n = 0
    BY <1>1, <2>1 DEF FlattenSeq
  <2>2. CASE n # 0
    <3>. HIDE DEF F
    <3>. QED BY <1>1, <1>8, <1>9, <2>2
  <2>. QED BY <2>1, <2>2
<1>12. \A j \in 1 .. n : f[j] = g[j] /\ (j # 1 => f[j - 1] = g[j - 1])
  OBVIOUS
<1>. HIDE DEF f
<1>13. ASSUME NEW i \in 1 .. n PROVE f[i] = f[i - 1] \o seqs[i]
  <2>1. g[i] = IF i = 1 THEN seqs[i] ELSE g[i - 1] \o seqs[i]
    BY <1>5
  <2>2. i = 1 => i - 1 = 0
    OBVIOUS
  <2>3. seqs[i] = << >> \o seqs[i]
    BY <1>1, ConcatEmptySeq
  <2>. QED BY <1>10, <1>12, <2>1, <2>2, <2>3, Zenon
<1>. QED BY <1>10, <1>11, <1>13

\* And from the right: what is left after each of its parts.
IsLeft(S, seqs, r) ==
  /\ r \in [1 .. Len(seqs) + 1 -> Seq(S)]
  /\ r[1] = FlattenSeq(seqs) /\ r[Len(seqs) + 1] = << >>
  /\ \A i \in 1 .. Len(seqs) : r[i] = seqs[i] \o r[i + 1]

LEMMA Remaining ==
    ASSUME NEW S, NEW seqs \in Seq(Seq(S))
    PROVE  \E r : IsLeft(S, seqs, r)
<1> DEFINE n == Len(seqs)
           All == FlattenSeq(seqs)
<1>1. n \in Nat /\ \A i \in 1 .. n : seqs[i] \in Seq(S)
  OBVIOUS
<1>2. PICK f \in [0 .. n -> Seq(S)] : f[0] = << >> /\ f[n] = All /\ \A i \in 1 .. n : f[i] = f[i - 1] \o seqs[i]
  BY Flattened
<1>3. \A i \in 0 .. n : f[i] \in Seq(S)
  BY <1>2
<1>. HIDE DEF n, All
<1>join. \A a, b \in Seq(S) : a \o b \in Seq(S)
  BY ConcatProperties
<1>cancel. \A a, b, c \in Seq(S) : a \o b = a \o c => b = c
  BY ConcatSimplifications
<1>assoc. \A a, b, c \in Seq(S) : (a \o b) \o c = a \o (b \o c)
  BY ConcatAssociative, SMTT(30)
<1> DEFINE G == {m \in 0 .. n : \E u \in Seq(S) : All = f[n - m] \o u}
<1>4. 0 \in G
  <2>1. << >> \in Seq(S) /\ f[n] \o << >> = f[n] /\ n - 0 = n
    BY <1>1, <1>3, ConcatEmptySeq
  <2>2. All = f[n - 0] \o << >>
    BY <1>2, <2>1, Zenon
  <2>3. 0 \in 0 .. n
    BY <1>1 DEF n
  <2>. QED BY <2>1, <2>2, <2>3, Zenon
<1>5. ASSUME NEW m \in 1 .. n, m - 1 \in G PROVE m \in G
  <2>1. PICK u \in Seq(S) : All = f[n - (m - 1)] \o u
    BY <1>5
  <2> DEFINE i == n - (m - 1)
  <2>2. i \in 1 .. n /\ i - 1 = n - m /\ i - 1 \in 0 .. n
    BY <1>1
  <2>3. f[i] = f[i - 1] \o seqs[i] /\ f[i - 1] \in Seq(S) /\ seqs[i] \in Seq(S)
    BY <1>1, <1>2, <1>3, <2>2
  <2>4. All = f[i - 1] \o (seqs[i] \o u) /\ seqs[i] \o u \in Seq(S)
    <3>1. All = (f[i - 1] \o seqs[i]) \o u
      BY <2>1, <2>3, Zenon
    <3>. HIDE DEF i
    <3>2. (f[i - 1] \o seqs[i]) \o u = f[i - 1] \o (seqs[i] \o u)
      BY <1>assoc, <2>3, Zenon
    <3>3. seqs[i] \o u \in Seq(S)
      BY <1>join, <2>3, Zenon
    <3>. QED BY <3>1, <3>2, <3>3, Zenon
  <2>5. All = f[n - m] \o (seqs[i] \o u)
    BY <2>2, <2>4, Zenon
  <2>6. m \in 0 .. n
    BY <1>1 DEF n
  <2>. QED BY <2>4, <2>5, <2>6, Zenon
<1>6. G = 0 .. n
  <2>1. G \in SUBSET (0 .. n)
    OBVIOUS
  <2>. HIDE DEF G
  <2>. QED BY <1>1, <1>4, <1>5, <2>1, UpTo
<1>7. \A i \in 1 .. n + 1 : \E u \in Seq(S) : All = f[i - 1] \o u
  <2>. TAKE i \in 1 .. n + 1
  <2>1. n - (i - 1) \in 0 .. n /\ n - (n - (i - 1)) = i - 1
    BY <1>1 DEF n
  <2>2. n - (i - 1) \in G
    BY <1>6, <2>1, Zenon
  <2>3. PICK u \in Seq(S) : All = f[n - (n - (i - 1))] \o u
    BY <2>2, Zenon
  <2>. QED BY <2>1, <2>3, Zenon
<1> DEFINE r == [i \in 1 .. n + 1 |-> CHOOSE u \in Seq(S) : All = f[i - 1] \o u]
<1>8. \A i \in 1 .. n + 1 : r[i] \in Seq(S) /\ All = f[i - 1] \o r[i]
  BY <1>7
<1>9. r \in [1 .. n + 1 -> Seq(S)]
  BY <1>8
<1>. HIDE DEF r
<1>10. r[1] = All
  <2>1. 1 \in 1 .. n + 1 /\ 1 - 1 = 0
    BY <1>1
  <2>2. r[1] \in Seq(S) /\ All = << >> \o r[1]
    BY <1>2, <1>8, <2>1
  <2>. QED BY <2>2, ConcatEmptySeq
<1>11. r[n + 1] = << >>
  <2>1. n + 1 \in 1 .. n + 1 /\ (n + 1) - 1 = n /\ n \in 0 .. n
    BY <1>1
  <2>2. r[n + 1] \in Seq(S) /\ All = All \o r[n + 1] /\ All \in Seq(S)
    BY <1>2, <1>3, <1>8, <2>1
  <2>. QED BY <2>2, ConcatEqualIffEmpty
<1>12. ASSUME NEW i \in 1 .. n PROVE r[i] = seqs[i] \o r[i + 1]
  <2>1. i \in 1 .. n + 1 /\ i + 1 \in 1 .. n + 1 /\ (i + 1) - 1 = i /\ i - 1 \in 0 .. n
    BY <1>1
  <2>2. All = f[i - 1] \o r[i] /\ All = f[i] \o r[i + 1] /\ f[i] = f[i - 1] \o seqs[i]
    BY <1>2, <1>8, <2>1
  <2>3. f[i - 1] \in Seq(S) /\ r[i] \in Seq(S) /\ r[i + 1] \in Seq(S) /\ seqs[i] \in Seq(S)
    BY <1>1, <1>3, <1>8, <2>1
  <2>4. All = (f[i - 1] \o seqs[i]) \o r[i + 1]
    BY <2>2, Zenon
  <2>5. (f[i - 1] \o seqs[i]) \o r[i + 1] = f[i - 1] \o (seqs[i] \o r[i + 1])
    BY <1>assoc, <2>3, Zenon
  <2>6. seqs[i] \o r[i + 1] \in Seq(S)
    BY <1>join, <2>3, Zenon
  <2>7. f[i - 1] \o r[i] = f[i - 1] \o (seqs[i] \o r[i + 1])
    BY <2>2, <2>4, <2>5, Zenon
  <2>. QED BY <1>cancel, <2>3, <2>6, <2>7, Zenon
<1>. QED BY <1>9, <1>10, <1>11, <1>12 DEF n, All, IsLeft
-----------------------------------------------------------------------------
(* Arguments and commands.                                                 *)

AllNames == {"server", "reason", "type", "since", "expires", "jwks-uri",
             "audiences", "agent-claim", "status", "class", "version",
             "publisher", "blueprint-id", "limit", "h", "verbose"}

PathWords == {"suspend", "revoke", "evidence", "federation-trust", "create",
              "instance", "lease", "blueprint", "register", "list",
              "register-service", "register-twin", "activate", "agent",
              "terminate", "get", "enable", "disable", "publish", "deprecate",
              "outbox", "fed-status", "agents"}

AllTexts == Texts \cup {<< >>, <<"URL">>, <<"http://localhost:1966">>}
                  \cup {<<w>> : w \in PathWords}

Arg == [name : AllNames \cup {"", "--"}, text : AllTexts]

LEMMA WordIsArg ==
    ASSUME NEW text \in AllTexts
    PROVE  Word(text) \in Arg /\ Word(text).name = "" /\ Word(text).text = text
BY DEF Word, Arg

LEMMA FlagIsArg ==
    ASSUME NEW name \in AllNames \cup {"", "--"}
    PROVE  Flag(name) \in Arg /\ Flag(name).name = name /\ Flag(name).text = << >>
BY DEF Flag, Arg, AllTexts

LEMMA FlagWithIsArg ==
    ASSUME NEW name \in AllNames, NEW text \in AllTexts
    PROVE  /\ FlagWith(name, text) \in Arg
           /\ FlagWith(name, text).name = name /\ FlagWith(name, text).text = text
BY DEF FlagWith, Arg

\* A word has a name of its own and a text, so it is no flag and not nothing.
LEMMA WordsAreArgs ==
    ASSUME NEW w \in Words
    PROVE  /\ w \in Arg /\ w.name = "" /\ w.text # << >> /\ w.text \in Texts /\ w = Word(w.text)
           /\ w # Nothing /\ w # Terminator
<1>1. PICK text \in Texts : w = Word(text)
  BY DEF Words
<1>2. text \in AllTexts /\ text # << >>
  BY TextAssumption DEF AllTexts
<1>3. w \in Arg /\ w.name = "" /\ w.text = text
  BY <1>1, <1>2, WordIsArg
<1>4. Nothing.text = << >> /\ Terminator.text = << >>
  BY FlagIsArg DEF Nothing, Terminator
<1>5. w # Nothing /\ w # Terminator
  BY <1>2, <1>3, <1>4
<1>. QED BY <1>1, <1>2, <1>3, <1>5

LEMMA SpecialArgs ==
    /\ Nothing \in Arg /\ Terminator \in Arg /\ Flag("h") \in Arg /\ Blank \in Words
    /\ Nothing.name = "" /\ Terminator.name = "--" /\ Flag("h").name = "h"
    /\ Flag("h") \notin Words /\ Terminator \notin Words /\ Flag("h") # Nothing
<1>1. /\ Nothing \in Arg /\ Terminator \in Arg /\ Flag("h") \in Arg
      /\ Nothing.name = "" /\ Terminator.name = "--" /\ Flag("h").name = "h"
  BY FlagIsArg DEF Nothing, Terminator, AllNames
<1>2. Blank \in Words
  BY TextAssumption DEF Blank, Words
<1>3. Flag("h") \notin Words /\ Terminator \notin Words
  BY <1>1, WordsAreArgs
<1>4. Flag("h") # Nothing
  BY <1>1
<1>. QED BY <1>1, <1>2, <1>3, <1>4

\* The names of flags.
LEMMA DefaultNames ==
    ASSUME NEW path \in Paths
    PROVE  DOMAIN Defaults(path) \subseteq AllNames
BY DEF Paths, Commands, FlagSets, PlainOne, PlainNone, Defaults, AllNames

LEMMA FlagNames ==
    /\ "" \notin AllNames /\ "--" \notin AllNames
    /\ "h" \in AllNames /\ "verbose" \in AllNames
BY DEF AllNames

LEMMA DefaultsAreFunctions ==
    ASSUME NEW path \in FlagSets
    PROVE  Defaults(path) = [n \in DOMAIN Defaults(path) |-> Defaults(path)[n]]
BY DEF FlagSets, Defaults

\* A command without flags has none by default either.
LEMMA PlainDefaults ==
    ASSUME NEW path \in PlainOne \cup PlainNone \cup {<<"agents">>, <<"federation-trust", "list">>}
    PROVE  Defaults(path) = << >> /\ DOMAIN Defaults(path) = {} /\ path \notin FlagSets
BY DEF Defaults, PlainOne, PlainNone, FlagSets

\* A path is a sequence of at most two words.
LEMMA PathsAreShort ==
    ASSUME NEW path \in Paths
    PROVE  path \in Seq(PathWords) /\ Len(path) \in 0 .. 2
<1>1. \A v, w \in PathWords : /\ <<v>> \in Seq(PathWords) /\ Len(<<v>>) = 1
                             /\ <<v, w>> \in Seq(PathWords) /\ Len(<<v, w>>) = 2
  OBVIOUS
<1>2. << >> \in Seq(PathWords) /\ Len(<< >>) = 0
  OBVIOUS
<1>3. path = << >> \/ (\E v \in PathWords : path = <<v>>) \/ (\E v, w \in PathWords : path = <<v, w>>)
  BY DEF Paths, Commands, FlagSets, PlainOne, PlainNone, PathWords
<1>4. CASE path = << >>
  BY <1>2, <1>4
<1>5. CASE \E v \in PathWords : path = <<v>>
  BY <1>1, <1>5
<1>6. CASE \E v, w \in PathWords : path = <<v, w>>
  BY <1>1, <1>6
<1>. QED BY <1>3, <1>4, <1>5, <1>6

LEMMA CommandsAreNotEmpty ==
    ASSUME NEW c \in Commands
    PROVE  c \in Paths /\ Len(c) \in 1 .. 2
BY DEF Paths, Commands, FlagSets, PlainOne, PlainNone

\* No command's name begins another's: the first word says how many there are.
Groups == {"instance", "blueprint", "federation-trust"}

LEMMA GroupsTakeTwo ==
    ASSUME NEW c \in Commands
    PROVE  Len(c) = IF c[1] \in Groups THEN 2 ELSE 1
BY DEF Commands, FlagSets, PlainOne, PlainNone, Groups

\* What is not a word.
IsFlag(a) == a.name # ""
OnlyWords(s) == \A i \in 1 .. Len(s) : ~IsFlag(s[i])

LEMMA CommandWordsAre ==
    ASSUME NEW path \in Paths
    PROVE  /\ CommandWords(path) \in Seq(Arg) /\ Len(CommandWords(path)) = Len(path)
           /\ \A i \in 1 .. Len(path) : CommandWords(path)[i] = Word(<<path[i]>>)
           /\ OnlyWords(CommandWords(path))
<1>1. path \in Seq(PathWords)
  BY PathsAreShort
<1>2. \A i \in 1 .. Len(path) : <<path[i]>> \in AllTexts
  BY <1>1 DEF AllTexts
<1>3. \A i \in 1 .. Len(path) : Word(<<path[i]>>) \in Arg /\ Word(<<path[i]>>).name = ""
  BY <1>2, WordIsArg
<1>4. CommandWords(path) = [i \in 1 .. Len(path) |-> Word(<<path[i]>>)]
  BY <1>1 DEF CommandWords
<1>5. CommandWords(path) \in [1 .. Len(path) -> Arg]
  BY <1>3, <1>4
<1>6. CommandWords(path) \in Seq(Arg) /\ Len(CommandWords(path)) = Len(path)
  BY <1>1, <1>5
<1>7. \A i \in 1 .. Len(path) : CommandWords(path)[i] = Word(<<path[i]>>)
  BY <1>4
<1>8. OnlyWords(CommandWords(path))
  BY <1>3, <1>6, <1>7 DEF OnlyWords, IsFlag
<1>. QED BY <1>6, <1>7, <1>8

\* A sequence that begins another, element by element.
LEMMA PrefixIs ==
    ASSUME NEW s \in Seq(Arg), NEW t \in Seq(Arg)
    PROVE  IsPrefix(s, t) <=> Len(s) <= Len(t) /\ \A i \in 1 .. Len(s) : s[i] = t[i]
BY DEF IsPrefix

\* What is named by words only ends before the first flag.
LEMMA PrefixEndsAtFlag ==
    ASSUME NEW s \in Seq(Arg), NEW a \in Seq(Arg), NEW b \in Seq(Arg), IsPrefix(s, a \o b),
           OnlyWords(s), b # << >> => IsFlag(b[1])
    PROVE  IsPrefix(s, a)
<1>1. a \o b \in Seq(Arg) /\ Len(a \o b) = Len(a) + Len(b)
  BY ConcatProperties
<1>2. Len(s) <= Len(a) + Len(b) /\ \A i \in 1 .. Len(s) : s[i] = (a \o b)[i]
  BY <1>1, PrefixIs
<1>3. Len(s) <= Len(a)
  <2>1. SUFFICES ASSUME Len(s) > Len(a) PROVE FALSE
    OBVIOUS
  <2>2. Len(b) > 0 /\ b # << >> /\ Len(a) + 1 \in 1 .. Len(s) /\ Len(a) + 1 \in 1 .. Len(a) + Len(b)
    BY <1>2, <2>1, LenProperties
  <2>3. (a \o b)[Len(a) + 1] = b[1]
    BY <2>2, ConcatProperties
  <2>4. s[Len(a) + 1] = b[1]
    BY <1>2, <2>2, <2>3
  <2>. QED BY <2>2, <2>4 DEF OnlyWords
<1>4. \A i \in 1 .. Len(s) : (a \o b)[i] = a[i]
  BY <1>3, ConcatProperties
<1>. QED BY <1>2, <1>3, <1>4, PrefixIs

LEMMA PrefixOfConcat ==
    ASSUME NEW a \in Seq(Arg), NEW b \in Seq(Arg)
    PROVE  IsPrefix(a, a \o b) /\ SubSeq(a \o b, Len(a) + 1, Len(a \o b)) = b
<1>1. /\ a \o b \in Seq(Arg) /\ Len(a \o b) = Len(a) + Len(b) /\ Len(a) \in Nat /\ Len(b) \in Nat
      /\ \A i \in 1 .. Len(a) + Len(b) : (a \o b)[i] = IF i <= Len(a) THEN a[i] ELSE b[i - Len(a)]
  BY ConcatProperties
<1>2. IsPrefix(a, a \o b)
  <2>1. Len(a) <= Len(a \o b) /\ \A i \in 1 .. Len(a) : a[i] = (a \o b)[i]
    BY <1>1
  <2>. QED BY <1>1, <2>1, PrefixIs
<1> DEFINE s == SubSeq(a \o b, Len(a) + 1, Len(a \o b))
<1>3. \A i \in Len(a) + 1 .. Len(a) + Len(b) : (a \o b)[i] \in Arg
  BY <1>1
<1>4. /\ s \in Seq(Arg) /\ Len(s) = Len(b)
      /\ \A i \in 1 .. Len(b) : s[i] = (a \o b)[Len(a) + 1 + i - 1]
  BY <1>1, <1>3, SubSeqProperties
<1>5. \A i \in 1 .. Len(b) : (a \o b)[Len(a) + 1 + i - 1] = b[i]
  BY <1>1
<1>. HIDE DEF s
<1>6. s = b
  BY <1>4, <1>5, SeqEqual
<1>. QED BY <1>2, <1>6 DEF s

LEMMA PrefixExtends ==
    ASSUME NEW s \in Seq(Arg), NEW a \in Seq(Arg), NEW b \in Seq(Arg), IsPrefix(s, a)
    PROVE  IsPrefix(s, a \o b)
<1>1. /\ a \o b \in Seq(Arg) /\ Len(a \o b) = Len(a) + Len(b) /\ Len(a) \in Nat /\ Len(b) \in Nat /\ Len(s) \in Nat
      /\ \A i \in 1 .. Len(a) + Len(b) : (a \o b)[i] = IF i <= Len(a) THEN a[i] ELSE b[i - Len(a)]
  BY ConcatProperties
<1>2. Len(s) <= Len(a) /\ \A i \in 1 .. Len(s) : s[i] = a[i]
  BY PrefixIs
<1>3. Len(s) <= Len(a \o b) /\ \A i \in 1 .. Len(s) : s[i] = (a \o b)[i]
  BY <1>1, <1>2
<1>. QED BY <1>1, <1>3, PrefixIs

\* At most one command is named by what follows.
LEMMA OneCommand ==
    ASSUME NEW c \in Commands, NEW p \in Commands, NEW b \in Seq(Arg), IsPrefix(CommandWords(c), CommandWords(p) \o b)
    PROVE  c = p
<1>1. /\ c \in Paths /\ p \in Paths /\ Len(c) \in 1 .. 2 /\ Len(p) \in 1 .. 2
      /\ c \in Seq(PathWords) /\ p \in Seq(PathWords)
  BY CommandsAreNotEmpty, PathsAreShort
<1>2. /\ CommandWords(c) \in Seq(Arg) /\ Len(CommandWords(c)) = Len(c)
      /\ CommandWords(p) \in Seq(Arg) /\ Len(CommandWords(p)) = Len(p)
      /\ CommandWords(p) \o b \in Seq(Arg)
  BY <1>1, CommandWordsAre, ConcatProperties
<1>3. \A i \in 1 .. Len(c) : CommandWords(c)[i] = (CommandWords(p) \o b)[i]
  <2> DEFINE v == CommandWords(c)
             w == CommandWords(p) \o b
  <2>1. v \in Seq(Arg) /\ w \in Seq(Arg) /\ IsPrefix(v, w) /\ Len(v) = Len(c)
    BY <1>2
  <2>. HIDE DEF v, w
  <2>2. \A i \in 1 .. Len(v) : v[i] = w[i]
    BY <2>1, PrefixIs
  <2>3. \A i \in 1 .. Len(c) : v[i] = w[i]
    BY <2>1, <2>2
  <2>. QED BY <2>3 DEF v, w
<1>4. ASSUME NEW i \in 1 .. Len(c), i <= Len(p) PROVE c[i] = p[i]
  <2>1. i \in 1 .. Len(p)
    BY <1>4
  <2>2. (CommandWords(p) \o b)[i] = CommandWords(p)[i]
    BY <1>2, <2>1
  <2>3. CommandWords(c)[i] = Word(<<c[i]>>) /\ CommandWords(p)[i] = Word(<<p[i]>>)
    BY <1>1, <2>1, CommandWordsAre
  <2>4. Word(<<c[i]>>) = Word(<<p[i]>>)
    BY <1>3, <2>2, <2>3
  <2>. QED BY <2>4 DEF Word
<1>5. c[1] = p[1]
  BY <1>1, <1>4
<1>6. Len(c) = Len(p)
  BY <1>5, GroupsTakeTwo
<1>. QED BY <1>1, <1>4, <1>6
-----------------------------------------------------------------------------
(* Command lines.                                                          *)

IsTyped(t) == t.path \in Paths /\ t \in Typed(t.path)

LEMMA Bounded ==
    ASSUME NEW S, NEW n \in Nat, NEW s \in SeqOf(S, n)
    PROVE  s \in Seq(S)
<1>1. PICK m \in 0 .. n : s \in [1 .. m -> S]
  BY DEF SeqOf
<1>. QED BY <1>1

LEMMA TypedFacts ==
    ASSUME NEW t, IsTyped(t)
    PROVE  /\ t.path \in Paths /\ t.layout \in Layouts
           /\ t.settings \in Seq(Settings(t.path))
           /\ t.rest \in Seq(Words)
           /\ t.server \in {Nothing, Word(<<"URL">>)}
<1>1. /\ t.path \in Paths /\ t.layout \in Layouts
      /\ t.settings \in SeqOf(Settings(t.path), MaxSettings)
      /\ t.rest \in SeqOf(Words, MaxRest)
      /\ t.server \in {Nothing, Word(<<"URL">>)}
  BY DEF IsTyped, Typed
<1>2. t.settings \in Seq(Settings(t.path)) /\ t.rest \in Seq(Words)
  BY <1>1, BoundAssumption, Bounded
<1>. QED BY <1>1, <1>2

LEMMA MissingValue ==
    ASSUME NEW t, IsTyped(t), NEW i \in 1 .. Len(t.settings), t.settings[i].value = Nothing
    PROVE  /\ i = Len(t.settings)
           /\ t.layout = "operands first" \/ (t.layout = "flags first" /\ t.rest = << >>)
<1>1. DOMAIN t.settings = 1 .. Len(t.settings)
  BY TypedFacts
<1>2. \A j \in DOMAIN t.settings :
        t.settings[j].value = Nothing =>
          /\ j = Len(t.settings)
          /\ t.layout = "operands first" \/ (t.layout = "flags first" /\ t.rest = << >>)
  BY DEF IsTyped, Typed
<1>. QED BY <1>1, <1>2

LEMMA NoNameByChance ==
    ASSUME NEW t, IsTyped(t), t.path \notin Commands, NEW c \in Commands
    PROVE  ~IsPrefix(CommandWords(c), CommandWords(t.path) \o t.rest)
BY DEF IsTyped, Typed

LEMMA SettingFacts ==
    ASSUME NEW path \in Paths, NEW s \in Settings(path)
    PROVE  /\ s.name \in AllNames /\ s.value \in Words \cup {Flag("h"), Nothing}
           /\ s.attached \in BOOLEAN /\ (s.attached => s.value \in Words)
           /\ s.value \in Arg
<1>1. DOMAIN Defaults(path) \cup {"h", "verbose"} \subseteq AllNames
  BY DefaultNames, FlagNames
<1>2. /\ s.name \in DOMAIN Defaults(path) \cup {"h", "verbose"}
      /\ s.value \in Words \cup {Flag("h"), Nothing}
      /\ s.attached \in BOOLEAN /\ (s.attached => s.value \in Words)
  BY DEF Settings
<1>3. s.value \in Arg
  BY <1>2, WordsAreArgs, SpecialArgs
<1>. QED BY <1>1, <1>2, <1>3

LEMMA ShortSequences ==
    ASSUME NEW x \in Arg, NEW y \in Arg
    PROVE  /\ <<x>> \in Seq(Arg) /\ <<x>> # << >> /\ <<x>>[1] = x /\ Len(<<x>>) = 1
           /\ <<x, y>> \in Seq(Arg) /\ <<x, y>> # << >> /\ <<x, y>>[1] = x
OBVIOUS

LEMMA SpellingFacts ==
    ASSUME NEW path \in Paths, NEW s \in Settings(path)
    PROVE  /\ Spelling(s) \in Seq(Arg) /\ Spelling(s) # << >>
           /\ Spelling(s)[1].name = s.name /\ IsFlag(Spelling(s)[1])
<1>1. s.name \in AllNames /\ s.value \in Arg /\ s.attached \in BOOLEAN /\ (s.attached => s.value \in Words)
  BY SettingFacts, Zenon
<1>0. s.name # ""
  BY <1>1, FlagNames
<1>2. Flag(s.name) \in Arg /\ Flag(s.name).name = s.name
  BY <1>1, FlagIsArg
<1>3. \E x, y \in Arg : (Spelling(s) = <<x>> \/ Spelling(s) = <<x, y>>) /\ x.name = s.name
  <2>1. CASE s.value = Nothing
    BY <1>1, <1>2, <2>1 DEF Spelling
  <2>2. CASE s.value # Nothing /\ s.attached
    <3>1. s.value.text \in AllTexts
      BY <1>1, <2>2, WordsAreArgs DEF AllTexts
    <3>2. FlagWith(s.name, s.value.text) \in Arg /\ FlagWith(s.name, s.value.text).name = s.name
      BY <1>1, <3>1, FlagWithIsArg
    <3>3. Spelling(s) = <<FlagWith(s.name, s.value.text)>>
      BY <2>2 DEF Spelling
    <3>. QED BY <1>1, <3>2, <3>3
  <2>3. CASE s.value # Nothing /\ ~s.attached
    <3>1. Spelling(s) = <<Flag(s.name), s.value>>
      BY <2>3 DEF Spelling
    <3>. QED BY <1>1, <1>2, <3>1
  <2>. QED BY <1>1, <2>1, <2>2, <2>3
<1>4. PICK x \in Arg, y \in Arg : (Spelling(s) = <<x>> \/ Spelling(s) = <<x, y>>) /\ x.name = s.name
  BY <1>3
<1>5. Spelling(s) \in Seq(Arg) /\ Spelling(s) # << >> /\ Spelling(s)[1] = x
  BY <1>4, ShortSequences, Zenon
<1>6. IsFlag(x)
  BY <1>0, <1>4 DEF IsFlag
<1>. QED BY <1>4, <1>5, <1>6, Zenon

\* What is left of the flags when the first i - 1 of them have been parsed.
Spelled(t) == [i \in DOMAIN t.settings |-> Spelling(t.settings[i])]
Left(t) == CHOOSE r : IsLeft(Arg, Spelled(t), r)

LEMMA LeftIs ==
    ASSUME NEW t, IsTyped(t)
    PROVE  /\ Spelled(t) \in Seq(Seq(Arg)) /\ Len(Spelled(t)) = Len(t.settings)
           /\ IsLeft(Arg, Spelled(t), Left(t))
<1>1. t.path \in Paths /\ t.settings \in Seq(Settings(t.path))
  BY TypedFacts
<1>2. \A i \in 1 .. Len(t.settings) : t.settings[i] \in Settings(t.path)
  BY <1>1
<1>3. \A i \in 1 .. Len(t.settings) : Spelling(t.settings[i]) \in Seq(Arg)
  BY <1>1, <1>2, SpellingFacts
<1>4. Len(t.settings) \in Nat /\ DOMAIN t.settings = 1 .. Len(t.settings)
  BY <1>1
<1>5. Spelled(t) \in [1 .. Len(t.settings) -> Seq(Arg)]
  BY <1>3, <1>4 DEF Spelled
<1>6. Spelled(t) \in Seq(Seq(Arg))
  BY <1>4, <1>5
<1>7. Len(Spelled(t)) = Len(t.settings)
  BY <1>4, <1>5
<1>8. \E r : IsLeft(Arg, Spelled(t), r)
  BY <1>6, Remaining
<1>. QED BY <1>6, <1>7, <1>8 DEF Left

LEMMA LeftFacts ==
    ASSUME NEW t, IsTyped(t)
    PROVE  /\ Len(t.settings) \in Nat
           /\ \A i \in 1 .. Len(t.settings) + 1 : Left(t)[i] \in Seq(Arg)
           /\ Left(t)[1] = FlattenSeq(Spelled(t)) /\ Left(t)[Len(t.settings) + 1] = << >>
           /\ \A i \in 1 .. Len(t.settings) : Left(t)[i] = Spelling(t.settings[i]) \o Left(t)[i + 1]
<1>1. Len(t.settings) \in Nat /\ DOMAIN t.settings = 1 .. Len(t.settings)
  BY TypedFacts
<1>2. Len(Spelled(t)) = Len(t.settings) /\ IsLeft(Arg, Spelled(t), Left(t))
  BY LeftIs
<1>3. \A i \in 1 .. Len(t.settings) : Spelled(t)[i] = Spelling(t.settings[i])
  BY <1>1 DEF Spelled
<1>4. \A i \in 1 .. Len(t.settings) + 1 : Left(t)[i] \in Seq(Arg)
  BY <1>2 DEF IsLeft
<1>5. Left(t)[1] = FlattenSeq(Spelled(t)) /\ Left(t)[Len(t.settings) + 1] = << >>
  BY <1>2 DEF IsLeft
<1>6. \A i \in 1 .. Len(t.settings) : Left(t)[i] = Spelled(t)[i] \o Left(t)[i + 1]
  BY <1>2 DEF IsLeft
<1>7. \A i \in 1 .. Len(t.settings) : Left(t)[i] = Spelling(t.settings[i]) \o Left(t)[i + 1]
  BY <1>3, <1>6
<1>. QED BY <1>1, <1>4, <1>5, <1>7
-----------------------------------------------------------------------------
(* The arguments that a command gets.                                      *)

ServerPart(t) == IF t.server = Nothing THEN << >> ELSE <<Flag("server"), t.server>>
Operands(t) == IF t.layout = "terminated flags" THEN <<Terminator>> \o t.rest ELSE t.rest
Straight(t) == t.layout # "operands first" \/ t.rest = << >> \/ t.settings = << >>
Body(t) == IF Straight(t) THEN Left(t)[1] \o Operands(t) ELSE t.rest \o Left(t)[1]

\* Flagged and Arguments, of any arguments.
Begins(a) == a # << >> /\ Head(a).name \notin {"", "--"}
OperandsOf(a) == IF a # << >> /\ Head(a) = Terminator THEN Tail(a) ELSE a

LEMMA WordFirst ==
    ASSUME NEW a \in Seq(Arg), a # << >>, ~IsFlag(a[1])
    PROVE  ~Begins(a) /\ OperandsOf(a) = a
<1>0. Head(a) = a[1]
  OBVIOUS
<1>1. a[1].name = ""
  BY DEF IsFlag
<1>2. a[1] # Terminator
  BY <1>1, SpecialArgs
<1>. QED BY <1>0, <1>1, <1>2 DEF Begins, OperandsOf

\* Lists are joined in any grouping.
LEMMA Grouping ==
    \A a, b, c \in Seq(Arg) : (a \o b) \o c = a \o (b \o c)
BY ConcatAssociative

LEMMA TailOfConcat ==
    ASSUME NEW x \in Arg, NEW b \in Seq(Arg)
    PROVE  Tail(<<x>> \o b) = b
<1> DEFINE a == <<x>> \o b
<1>1. <<x>> \in Seq(Arg) /\ Len(<<x>>) = 1
  OBVIOUS
<1>2. a \in Seq(Arg) /\ Len(a) = 1 + Len(b) /\ \A i \in 1 .. Len(b) : a[1 + i] = b[i]
  <2>1. /\ a \in Seq(Arg) /\ Len(a) = 1 + Len(b)
        /\ \A i \in 1 .. 1 + Len(b) : a[i] = IF i <= 1 THEN <<x>>[i] ELSE b[i - 1]
    BY <1>1, ConcatProperties
  <2>. HIDE DEF a
  <2>. QED BY <2>1
<1>. HIDE DEF a
<1>3. a # << >>
  BY <1>2
<1>4. Tail(a) \in Seq(Arg) /\ Len(Tail(a)) = Len(b) /\ \A i \in 1 .. Len(Tail(a)) : Tail(a)[i] = a[i + 1]
  BY <1>2, <1>3, HeadTailProperties
<1>5. \A i \in 1 .. Len(Tail(a)) : Tail(a)[i] = b[i]
  BY <1>2, <1>4
<1>6. Tail(a) = b
  BY <1>4, <1>5, SeqEqual
<1>. QED BY <1>6 DEF a

LEMMA Concat ==
    ASSUME NEW a \in Seq(Arg), NEW b \in Seq(Arg)
    PROVE  /\ a \o b \in Seq(Arg) /\ Len(a \o b) = Len(a) + Len(b)
           /\ a # << >> => a \o b # << >> /\ (a \o b)[1] = a[1] /\ Head(a \o b) = a[1]
           /\ \A i \in 1 .. Len(a) : (a \o b)[i] = a[i]
           /\ \A i \in 1 .. Len(b) : (a \o b)[Len(a) + i] = b[i]
<1>1. /\ a \o b \in Seq(Arg) /\ Len(a \o b) = Len(a) + Len(b) /\ Len(a) \in Nat /\ Len(b) \in Nat
      /\ \A i \in 1 .. Len(a) + Len(b) : (a \o b)[i] = IF i <= Len(a) THEN a[i] ELSE b[i - Len(a)]
  BY ConcatProperties
<1>2. ASSUME a # << >> PROVE a \o b # << >> /\ (a \o b)[1] = a[1] /\ Head(a \o b) = a[1]
  BY <1>1, <1>2
<1>. QED BY <1>1, <1>2

LEMMA WordsFirst ==
    ASSUME NEW a \in Seq(Arg), NEW b \in Seq(Arg), a # << >>, OnlyWords(a)
    PROVE  ~Begins(a \o b) /\ OperandsOf(a \o b) = a \o b
<1>1. ~IsFlag(a[1])
  BY DEF OnlyWords
<1>. QED BY <1>1, Concat, WordFirst

LEMMA RestFacts ==
    ASSUME NEW t, IsTyped(t)
    PROVE  t.rest \in Seq(Arg) /\ OnlyWords(t.rest)
<1>1. t.rest \in Seq(Words)
  BY TypedFacts
<1>2. \A w \in Words : w \in Arg /\ ~IsFlag(w)
  BY WordsAreArgs DEF IsFlag
<1>3. Words \subseteq Arg /\ \A i \in 1 .. Len(t.rest) : t.rest[i] \in Words
  BY <1>1, <1>2
<1>4. t.rest \in Seq(Arg)
  BY <1>1, <1>3, SeqMonotonic
<1>. QED BY <1>2, <1>3, <1>4 DEF OnlyWords

\* Parsing stops where the operands begin.
LEMMA OperandsFacts ==
    ASSUME NEW t, IsTyped(t)
    PROVE  /\ Operands(t) \in Seq(Arg)
           /\ ~Begins(Operands(t)) /\ OperandsOf(Operands(t)) = t.rest
<1>1. t.rest \in Seq(Arg) /\ OnlyWords(t.rest)
  BY RestFacts
<1>2. CASE t.layout = "terminated flags"
  <2>1. Operands(t) = <<Terminator>> \o t.rest
    BY <1>2 DEF Operands
  <2>2. <<Terminator>> \in Seq(Arg) /\ <<Terminator>> # << >> /\ <<Terminator>>[1] = Terminator
    BY SpecialArgs, ShortSequences
  <2>3. Operands(t) \in Seq(Arg) /\ Operands(t) # << >> /\ Head(Operands(t)) = Terminator
    BY <1>1, <2>1, <2>2, Concat
  <2>4. Tail(Operands(t)) = t.rest
    BY <1>1, <2>1, SpecialArgs, TailOfConcat
  <2>. QED BY <2>3, <2>4, SpecialArgs DEF Begins, OperandsOf
<1>3. CASE t.layout # "terminated flags"
  <2>1. Operands(t) = t.rest
    BY <1>3 DEF Operands
  <2>2. CASE t.rest = << >>
    BY <1>1, <2>1, <2>2 DEF Begins, OperandsOf
  <2>3. CASE t.rest # << >>
    <3>1. ~IsFlag(t.rest[1])
      BY <1>1, <2>3 DEF OnlyWords
    <3>. QED BY <1>1, <2>1, <2>3, <3>1, WordFirst
  <2>. QED BY <2>2, <2>3
<1>. QED BY <1>2, <1>3

\* A flag that is left comes first.
LEMMA LeftBegins ==
    ASSUME NEW t, IsTyped(t), NEW i \in 1 .. Len(t.settings), NEW b \in Seq(Arg)
    PROVE  /\ Left(t)[i] \in Seq(Arg) /\ Left(t)[i] # << >> /\ IsFlag(Left(t)[i][1])
           /\ Begins(Left(t)[i] \o b) /\ Head(Left(t)[i] \o b).name = t.settings[i].name
           /\ Left(t)[i + 1] \in Seq(Arg)
           /\ Left(t)[i] \o b = Spelling(t.settings[i]) \o (Left(t)[i + 1] \o b)
<1>1. t.path \in Paths /\ t.settings[i] \in Settings(t.path)
  BY TypedFacts
<1> DEFINE s == t.settings[i]
           sp == Spelling(s)
<1>2. /\ sp \in Seq(Arg) /\ sp # << >> /\ sp[1].name = s.name /\ IsFlag(sp[1])
  BY <1>1, SpellingFacts, Zenon
<1>3. s.name \in AllNames
  BY <1>1, SettingFacts, Zenon
<1>4. Left(t)[i] = sp \o Left(t)[i + 1] /\ Left(t)[i + 1] \in Seq(Arg) /\ Left(t)[i] \in Seq(Arg)
  <2>1. Len(t.settings) \in Nat
    BY LeftFacts
  <2>2. i \in 1 .. Len(t.settings) + 1 /\ i + 1 \in 1 .. Len(t.settings) + 1
    BY <2>1
  <2>3. \A j \in 1 .. Len(t.settings) + 1 : Left(t)[j] \in Seq(Arg)
    BY LeftFacts
  <2>4. Left(t)[i] = Spelling(t.settings[i]) \o Left(t)[i + 1]
    BY LeftFacts
  <2>. QED BY <2>2, <2>3, <2>4, Zenon
<1>. HIDE DEF sp, s
<1>5. Left(t)[i] # << >> /\ Left(t)[i][1] = sp[1]
  BY <1>2, <1>4, Concat
<1>6. Left(t)[i] \o b # << >> /\ Head(Left(t)[i] \o b) = sp[1]
  BY <1>4, <1>5, Concat
<1>7. s.name \notin {"", "--"}
  BY <1>3, FlagNames
<1>8. Begins(Left(t)[i] \o b)
  BY <1>2, <1>6, <1>7 DEF Begins
<1>9. Left(t)[i] \o b = sp \o (Left(t)[i + 1] \o b)
  <2>1. (sp \o Left(t)[i + 1]) \o b = sp \o (Left(t)[i + 1] \o b)
    BY <1>2, <1>4, Grouping
  <2>2. Left(t)[i] \o b = (sp \o Left(t)[i + 1]) \o b
    BY <1>4
  <2>. QED BY <2>1, <2>2
<1>. QED BY <1>2, <1>4, <1>5, <1>6, <1>8, <1>9 DEF sp, s

LEMMA NoFlagsLeft ==
    ASSUME NEW t, IsTyped(t)
    PROVE  /\ Left(t)[Len(t.settings) + 1] \o Operands(t) = Operands(t)
           /\ t.settings = << >> <=> Len(t.settings) = 0
           /\ t.settings = << >> => Left(t)[1] = << >>
<1>1. Left(t)[Len(t.settings) + 1] = << >> /\ Operands(t) \in Seq(Arg)
  BY LeftFacts, OperandsFacts
<1>2. t.settings = << >> <=> Len(t.settings) = 0
  BY TypedFacts, EmptySeq
<1>3. << >> \o Operands(t) = Operands(t)
  BY <1>1, ConcatEmptySeq
<1>. QED BY <1>1, <1>2, <1>3

LEMMA BodyIsArguments ==
    ASSUME NEW t, IsTyped(t)
    PROVE  Body(t) \in Seq(Arg) /\ Left(t)[1] \in Seq(Arg)
<1>1. Left(t)[1] \in Seq(Arg)
  <2>1. 1 \in 1 .. Len(t.settings) + 1
    <3>1. Len(t.settings) \in Nat
      BY LeftFacts, Zenon
    <3>. QED BY <3>1
  <2>. QED BY <2>1, LeftFacts, Zenon
<1>. QED BY <1>1, RestFacts, OperandsFacts, Concat DEF Body

LEMMA CommandLineIs ==
    ASSUME NEW t, IsTyped(t)
    PROVE  /\ CommandLine(t) = ServerPart(t) \o (CommandWords(t.path) \o Body(t))
           /\ ServerPart(t) \in Seq(Arg) /\ CommandWords(t.path) \in Seq(Arg)
           /\ CommandLine(t) \in Seq(Arg)
<1>1. Left(t)[1] = FlattenSeq([i \in DOMAIN t.settings |-> Spelling(t.settings[i])])
  BY LeftFacts DEF Spelled
<1>2. Left(t)[1] \in Seq(Arg) /\ t.rest \in Seq(Arg) /\ Body(t) \in Seq(Arg)
  BY BodyIsArguments, RestFacts
<1>3. CommandWords(t.path) \in Seq(Arg)
  BY TypedFacts, CommandWordsAre
<1>4. ServerPart(t) \in Seq(Arg)
  <2>1. t.server \in {Nothing, Word(<<"URL">>)}
    BY TypedFacts
  <2>2. Word(<<"URL">>) \in Arg /\ Flag("server") \in Arg
    BY WordIsArg, FlagIsArg DEF AllTexts, AllNames
  <2>. QED BY <2>1, <2>2, ShortSequences DEF ServerPart
<1>5. Body(t) = CASE t.layout = "flags first" -> Left(t)[1] \o t.rest
                  [] t.layout = "terminated flags" -> Left(t)[1] \o <<Terminator>> \o t.rest
                  [] t.layout = "operands first" -> t.rest \o Left(t)[1]
  <2>1. CASE t.layout = "flags first"
    BY <2>1 DEF Body, Straight, Operands
  <2>2. CASE t.layout = "terminated flags"
    <3>1. <<Terminator>> \in Seq(Arg)
      BY SpecialArgs, ShortSequences
    <3>2. (Left(t)[1] \o <<Terminator>>) \o t.rest = Left(t)[1] \o (<<Terminator>> \o t.rest)
      BY <1>2, <3>1, Grouping, Zenon
    <3>3. Body(t) = Left(t)[1] \o (<<Terminator>> \o t.rest)
      BY <2>2 DEF Body, Straight, Operands
    <3>. QED BY <2>2, <3>2, <3>3
  <2>3. CASE t.layout = "operands first"
    <3>1. Operands(t) = t.rest
      BY <2>3 DEF Operands
    <3>2. CASE ~Straight(t)
      BY <2>3, <3>2 DEF Body
    <3>3. CASE Straight(t)
      <4>1. t.rest = << >> \/ Left(t)[1] = << >>
        BY <2>3, <3>3, NoFlagsLeft DEF Straight
      <4>2. Body(t) = Left(t)[1] \o t.rest
        BY <3>1, <3>3 DEF Body
      <4>3. Left(t)[1] \o t.rest = t.rest \o Left(t)[1]
        BY <1>2, <4>1, ConcatEmptySeq
      <4>. QED BY <2>3, <4>2, <4>3
    <3>. QED BY <3>2, <3>3
  <2>. QED BY <2>1, <2>2, <2>3, TypedFacts DEF Layouts
<1>6. CommandLine(t) = (ServerPart(t) \o CommandWords(t.path)) \o Body(t)
  BY <1>1, <1>5 DEF CommandLine, ServerPart
<1>7. (ServerPart(t) \o CommandWords(t.path)) \o Body(t) = ServerPart(t) \o (CommandWords(t.path) \o Body(t))
  BY <1>2, <1>3, <1>4, Grouping, Zenon
<1>8. ServerPart(t) \o (CommandWords(t.path) \o Body(t)) \in Seq(Arg)
  BY <1>2, <1>3, <1>4, Concat
<1>. QED BY <1>3, <1>4, <1>6, <1>7, <1>8
-----------------------------------------------------------------------------
(* Type correctness: a step ends the program, sets a flag or starts the    *)
(* parsing of a command's flags.                                           *)

LEMMA IsSequence ==
    ASSUME NEW n \in Nat, NEW s \in [1 .. n -> Arg]
    PROVE  s \in Seq(Arg) /\ Len(s) = n
OBVIOUS

LEMMA SuffixIs ==
    ASSUME NEW a \in Seq(Arg), NEW u \in Seq(Arg)
    PROVE  IsSuffix(a, u \o a)
<1> DEFINE c == u \o a
<1>1. /\ c \in Seq(Arg) /\ Len(c) = Len(u) + Len(a) /\ Len(u) \in Nat /\ Len(a) \in Nat
      /\ \A i \in 1 .. Len(a) : c[Len(u) + i] = a[i]
  BY Concat
<1>. HIDE DEF c
<1>2. /\ Reverse(a) = [i \in 1 .. Len(a) |-> a[(Len(a) - i) + 1]]
      /\ Reverse(c) = [i \in 1 .. Len(c) |-> c[(Len(c) - i) + 1]]
  BY DEF Reverse
<1>3. Reverse(a) \in Seq(Arg) /\ Len(Reverse(a)) = Len(a)
  <2>1. \A i \in 1 .. Len(a) : a[(Len(a) - i) + 1] \in Arg
    BY <1>1
  <2>2. Reverse(a) \in [1 .. Len(a) -> Arg]
    BY <1>2, <2>1
  <2>. QED BY <1>1, <2>2, IsSequence
<1>4. Reverse(c) \in Seq(Arg) /\ Len(Reverse(c)) = Len(c)
  <2>1. \A i \in 1 .. Len(c) : c[(Len(c) - i) + 1] \in Arg
    BY <1>1
  <2>2. Reverse(c) \in [1 .. Len(c) -> Arg]
    BY <1>2, <2>1
  <2>3. Len(c) \in Nat
    BY <1>1
  <2>. QED BY <2>2, <2>3, IsSequence
<1>5. ASSUME NEW i \in 1 .. Len(a) PROVE Reverse(a)[i] = Reverse(c)[i]
  <2>1. i \in 1 .. Len(c) /\ (Len(c) - i) + 1 = Len(u) + ((Len(a) - i) + 1) /\ (Len(a) - i) + 1 \in 1 .. Len(a)
    BY <1>1
  <2>2. Reverse(a)[i] = a[(Len(a) - i) + 1] /\ Reverse(c)[i] = c[(Len(c) - i) + 1]
    BY <1>2, <2>1
  <2>3. c[Len(u) + ((Len(a) - i) + 1)] = a[(Len(a) - i) + 1]
    BY <1>1, <2>1
  <2>. QED BY <2>1, <2>2, <2>3
<1>6. Len(Reverse(a)) <= Len(Reverse(c)) /\ \A i \in 1 .. Len(Reverse(a)) : Reverse(a)[i] = Reverse(c)[i]
  BY <1>1, <1>3, <1>4, <1>5
<1>7. IsPrefix(Reverse(a), Reverse(c))
  BY <1>3, <1>4, <1>6, PrefixIs
<1>. QED BY <1>7 DEF IsSuffix, c

\* What is left of the command line.
LeftOver(a, c) == a \in Seq(Arg) /\ \E u \in Seq(Arg) : c = u \o a

LEMMA LessLeftOver ==
    ASSUME NEW a, NEW c, LeftOver(a, c), NEW m \in 1 .. Len(a) + 1
    PROVE  LeftOver(SubSeq(a, m, Len(a)), c)
<1>1. PICK u \in Seq(Arg) : c = u \o a
  BY DEF LeftOver
<1>2. a \in Seq(Arg) /\ Len(a) \in Nat
  BY DEF LeftOver
<1> DEFINE b == SubSeq(a, 1, m - 1)
           d == SubSeq(a, m, Len(a))
<1>3. b \in Seq(Arg) /\ d \in Seq(Arg)
  <2>1. /\ \A i \in 1 .. m - 1 : a[i] \in Arg
        /\ \A i \in m .. Len(a) : a[i] \in Arg
    BY <1>2
  <2>. QED BY <1>2, <2>1, SubSeqProperties
<1>4. b \o d = a
  <2>1. 1 \in 1 .. Len(a) + 1 /\ m - 1 \in 1 - 1 .. Len(a) /\ Len(a) \in m - 1 .. Len(a) /\ (m - 1) + 1 = m
    BY <1>2
  <2>2. SubSeq(a, 1, m - 1) \o SubSeq(a, (m - 1) + 1, Len(a)) = SubSeq(a, 1, Len(a))
    BY <1>2, <2>1, ConcatAdjacentSubSeq
  <2>. QED BY <1>2, <2>1, <2>2, SubSeqFull
<1>. HIDE DEF b, d
<1>5. u \o b \in Seq(Arg)
  BY <1>3, Concat
<1>6. c = (u \o b) \o d
  BY <1>1, <1>3, <1>4, Grouping
<1>. QED BY <1>3, <1>5, <1>6 DEF LeftOver, d

LEMMA TailLeftOver ==
    ASSUME NEW a, NEW c, LeftOver(a, c), a # << >>
    PROVE  LeftOver(Tail(a), c)
<1>1. a \in Seq(Arg) /\ Len(a) \in Nat /\ Len(a) # 0
  BY DEF LeftOver
<1>2. Tail(a) = SubSeq(a, 2, Len(a))
  BY <1>1, TailIsSubSeq
<1>3. 2 \in 1 .. Len(a) + 1
  BY <1>1
<1>. QED BY <1>2, <1>3, LessLeftOver

Results == {Running, Exit(0), Exit(1), Exit(2)}
GoodResult(r) == r \in Results \/ r.end = "call"

TypeInv ==
  /\ IsTyped(typed)
  /\ LeftOver(args, CommandLine(typed))
  /\ fs \in FlagSets
  /\ DOMAIN flags = DOMAIN Defaults(fs)
  /\ GoodResult(result)

SetsFlag ==
  \E n \in DOMAIN flags : \E value :
    /\ flags' = [flags EXCEPT ![n] = value]
    /\ LeftOver(args', CommandLine(typed))
    /\ UNCHANGED <<typed, fs, server, result>>

Ends == \E r : GoodResult(r) /\ End(r)
StartsCommand == \E path \in FlagSets \ {<< >>} : Named(path) /\ ParseFlags(path)

LEMMA GoodResults ==
    /\ \A code \in {0, 1, 2} : GoodResult(Exit(code))
    /\ \A path, operands, values, url : GoodResult(Call(path, operands, values, url))
BY DEF GoodResult, Results, Call

LEMMA ParseOneKinds ==
    ASSUME TypeInv, ParseOne
    PROVE  SetsFlag \/ Ends
<1> DEFINE f == Head(args)
<1>1. result = Running /\ Flagged /\ args # << >> /\ LeftOver(args, CommandLine(typed))
  BY DEF ParseOne, Flagged, TypeInv
<1>2. CASE f.name \notin DOMAIN flags
  <2>1. End(Exit(IF f.name = "h" THEN 0 ELSE 2))
    BY <1>2 DEF ParseOne
  <2>2. GoodResult(Exit(IF f.name = "h" THEN 0 ELSE 2))
    BY GoodResults
  <2>. QED BY <2>1, <2>2 DEF Ends
<1>3. ASSUME f.name \in DOMAIN flags, NEW value, NEW left, LeftOver(left, CommandLine(typed)), SetFlag(f.name, value, left)
      PROVE  SetsFlag \/ Ends
  <2>1. CASE f.name = "limit" /\ value \notin {Word(t) : t \in Numbers}
    <3>1. End(Exit(2))
      BY <1>3, <2>1 DEF SetFlag
    <3>. QED BY <3>1, GoodResults DEF Ends
  <2>2. CASE ~(f.name = "limit" /\ value \notin {Word(t) : t \in Numbers})
    <3>1. /\ flags' = [flags EXCEPT ![f.name] = value] /\ args' = left
          /\ UNCHANGED <<typed, fs, server, result>>
      BY <1>3, <2>2 DEF SetFlag
    <3>. QED BY <1>3, <3>1 DEF SetsFlag
  <2>. QED BY <2>1, <2>2
<1>4. CASE f.name \in DOMAIN flags /\ f.text # << >>
  <2>1. SetFlag(f.name, Word(f.text), Tail(args))
    BY <1>4 DEF ParseOne
  <2>2. LeftOver(Tail(args), CommandLine(typed))
    BY <1>1, TailLeftOver
  <2>. HIDE DEF f
  <2>. QED BY <1>3, <1>4, <2>1, <2>2
<1>5. CASE f.name \in DOMAIN flags /\ f.text = << >> /\ Len(args) > 1
  <2>1. SetFlag(f.name, args[2], SubSeq(args, 3, Len(args)))
    BY <1>5 DEF ParseOne
  <2>2. 3 \in 1 .. Len(args) + 1
    <3>1. Len(args) \in Nat
      BY <1>1 DEF LeftOver
    <3>. QED BY <1>5, <3>1
  <2>3. LeftOver(SubSeq(args, 3, Len(args)), CommandLine(typed))
    BY <1>1, <2>2, LessLeftOver
  <2>. HIDE DEF f
  <2>. QED BY <1>3, <1>5, <2>1, <2>3
<1>6. CASE f.name \in DOMAIN flags /\ f.text = << >> /\ ~(Len(args) > 1)
  <2>1. End(Exit(2))
    BY <1>6 DEF ParseOne
  <2>. QED BY <2>1, GoodResults DEF Ends
<1>. QED BY <1>2, <1>4, <1>5, <1>6

LEMMA MainKinds ==
    ASSUME TypeInv, main
    PROVE  Ends \/ StartsCommand
<1>1. ASSUME NEW path, CallNow(path) PROVE Ends
  BY <1>1, GoodResults DEF CallNow, Ends
<1>2. ASSUME usage PROVE Ends
  BY <1>2, GoodResults DEF usage, Ends
<1>3. ASSUME NEW path \in FlagSets \ {<< >>}, Named(path), ParseFlags(path) PROVE StartsCommand
  BY <1>3 DEF StartsCommand
<1>4. CASE \E path \in PlainOne \cup PlainNone \cup {<<"agents">>} : Plain(path)
  BY <1>1, <1>2, <1>4 DEF Plain
<1>5. CASE ListFederationTrusts
  BY <1>1, <1>5 DEF ListFederationTrusts
<1>6. CASE \E path \in {<<"suspend">>, <<"revoke">>} : lifecycleWithReason(path)
  <2>1. \A path \in {<<"suspend">>, <<"revoke">>} : path \in FlagSets \ {<< >>}
    BY DEF FlagSets
  <2>. QED BY <1>1, <1>3, <1>6, <2>1 DEF lifecycleWithReason
<1>7. CASE Evidence
  <2>1. <<"evidence">> \in FlagSets \ {<< >>}
    BY DEF FlagSets
  <2>. QED BY <1>1, <1>3, <1>7, <2>1 DEF Evidence
<1>8. CASE \E path \in {<<"federation-trust", "create">>, <<"instance", "lease">>,
                  <<"blueprint", "register">>, <<"blueprint", "list">>} : WithFlags(path)
  <2>1. \A path \in {<<"federation-trust", "create">>, <<"instance", "lease">>,
                  <<"blueprint", "register">>, <<"blueprint", "list">>} : path \in FlagSets \ {<< >>}
    BY DEF FlagSets
  <2>. QED BY <1>3, <1>8, <2>1 DEF WithFlags
<1>9. CASE NoCommand
  BY <1>2, <1>9 DEF NoCommand
<1>. QED BY <1>4, <1>5, <1>6, <1>7, <1>8, <1>9 DEF main

LEMMA CommandEnds ==
    ASSUME \/ \E path \in {<<"suspend">>, <<"revoke">>} : ReasonParsed(path)
           \/ createFederationTrust \/ LeaseInstance \/ evidenceSince \/ RegisterBlueprint \/ ListBlueprints
    PROVE  Ends
<1>1. ASSUME NEW path, NEW values, CallIfEnough(path, values) PROVE Ends
  BY <1>1, GoodResults DEF CallIfEnough, CallWith, usage, Ends
<1>2. CASE \E path \in {<<"suspend">>, <<"revoke">>} : ReasonParsed(path)
  BY <1>1, <1>2 DEF ReasonParsed
<1>3. CASE createFederationTrust
  BY <1>1, <1>3 DEF createFederationTrust
<1>4. CASE LeaseInstance
  BY <1>1, <1>4, GoodResults DEF LeaseInstance, Ends
<1>5. CASE evidenceSince
  BY <1>5, GoodResults DEF evidenceSince, CallWith, Ends
<1>6. CASE RegisterBlueprint
  BY <1>1, <1>6 DEF RegisterBlueprint
<1>7. CASE ListBlueprints
  BY <1>1, <1>7 DEF ListBlueprints
<1>. QED BY <1>2, <1>3, <1>4, <1>5, <1>6, <1>7

LEMMA InitInv ==
    ASSUME Init
    PROVE  TypeInv /\ result = Running
<1>1. PICK path \in Paths : typed \in Typed(path)
  BY DEF Init
<1>2. typed.path = path
  BY <1>1 DEF Typed
<1>3. IsTyped(typed)
  BY <1>1, <1>2 DEF IsTyped
<1>4. args = CommandLine(typed) /\ CommandLine(typed) \in Seq(Arg)
  BY <1>3, CommandLineIs DEF Init
<1>5. LeftOver(args, CommandLine(typed))
  <2>1. << >> \in Seq(Arg)
    OBVIOUS
  <2>2. CommandLine(typed) = << >> \o CommandLine(typed)
    BY <1>4, ConcatEmptySeq
  <2>. QED BY <1>4, <2>1, <2>2 DEF LeftOver
<1>6. fs \in FlagSets /\ DOMAIN flags = DOMAIN Defaults(fs) /\ result = Running
  BY DEF Init, FlagSets
<1>7. GoodResult(Running)
  BY DEF GoodResult, Results
<1>. QED BY <1>3, <1>5, <1>6, <1>7 DEF TypeInv

LEMMA TypeEnds ==
    ASSUME TypeInv, Ends
    PROVE  TypeInv'
<1>1. PICK r : GoodResult(r) /\ End(r)
  BY DEF Ends
<1>2. typed' = typed /\ args' = args /\ fs' = fs /\ flags' = flags /\ result' = r
  BY <1>1 DEF End
<1>3. GoodResult(result')
  BY <1>1, <1>2
<1>. QED BY <1>2, <1>3 DEF TypeInv

LEMMA TypeSets ==
    ASSUME TypeInv, SetsFlag
    PROVE  TypeInv'
<1>1. \E n, value : flags' = [flags EXCEPT ![n] = value]
  BY DEF SetsFlag
<1>2. typed' = typed /\ fs' = fs /\ result' = result /\ LeftOver(args', CommandLine(typed))
  BY DEF SetsFlag
<1>3. DOMAIN flags' = DOMAIN flags
  BY <1>1
<1>. QED BY <1>2, <1>3 DEF TypeInv

\* What follows a command's name is left over.
LEMMA AfterLeftOver ==
    ASSUME TypeInv, NEW path \in Paths, Named(path)
    PROVE  LeftOver(After(path), CommandLine(typed))
<1>1. LeftOver(Arguments, CommandLine(typed))
  <2>1. LeftOver(args, CommandLine(typed))
    BY DEF TypeInv
  <2>. QED BY <2>1, TailLeftOver DEF Arguments
<1>2. Arguments \in Seq(Arg) /\ Len(Arguments) \in Nat
  BY <1>1 DEF LeftOver
<1>3. Len(path) <= Len(Arguments)
  <2>1. IsPrefix(CommandWords(path), Arguments)
    BY DEF Named
  <2>2. CommandWords(path) \in Seq(Arg) /\ Len(CommandWords(path)) = Len(path)
    BY CommandWordsAre
  <2>. QED BY <1>2, <2>1, <2>2, PrefixIs
<1>4. Len(path) + 1 \in 1 .. Len(Arguments) + 1
  <2>1. Len(path) \in Nat
    BY PathsAreShort
  <2>. QED BY <1>2, <1>3, <2>1
<1>. QED BY <1>1, <1>4, LessLeftOver DEF After

LEMMA TypeStarts ==
    ASSUME TypeInv, StartsCommand
    PROVE  TypeInv'
<1>1. PICK path \in FlagSets \ {<< >>} : Named(path) /\ ParseFlags(path)
  BY DEF StartsCommand
<1>2. path \in Paths
  BY DEF Paths, Commands
<1>3. /\ fs' = path /\ flags' = Defaults(path) /\ args' = After(path)
      /\ typed' = typed /\ result' = result
  BY <1>1 DEF ParseFlags
<1>4. LeftOver(args', CommandLine(typed))
  BY <1>1, <1>2, <1>3, AfterLeftOver
<1>. QED BY <1>1, <1>3, <1>4 DEF TypeInv

LEMMA NextKinds ==
    ASSUME TypeInv, Next
    PROVE  SetsFlag \/ Ends \/ StartsCommand
BY ParseOneKinds, MainKinds, CommandEnds DEF Next

LEMMA TypeStep ==
    TypeInv /\ [Next]_vars => TypeInv'
<1>. SUFFICES ASSUME TypeInv, [Next]_vars PROVE TypeInv'
  OBVIOUS
<1>1. CASE Next
  BY <1>1, NextKinds, TypeSets, TypeEnds, TypeStarts
<1>2. CASE UNCHANGED vars
  BY <1>2 DEF vars, TypeInv
<1>. QED BY <1>1, <1>2

\* main and the commands (main.go:18-266) read the arguments from the left:
\* whatever is typed, what is left is always a suffix of it, and the values
\* that flags hold are those of the flag set being parsed.
THEOREM TypeCorrect == Spec => []TypeOK
<1>1. Init => TypeInv
  BY InitInv
<1>2. TypeInv => TypeOK
  <2>. SUFFICES ASSUME TypeInv PROVE TypeOK
    OBVIOUS
  <2>1. IsSuffix(args, CommandLine(typed))
    <3>1. args \in Seq(Arg) /\ \E u \in Seq(Arg) : CommandLine(typed) = u \o args
      BY DEF TypeInv, LeftOver
    <3>. QED BY <3>1, SuffixIs
  <2>. QED BY <2>1 DEF TypeInv, TypeOK, GoodResult, Results
<1>. QED BY <1>1, <1>2, TypeStep, PTL DEF Spec
-----------------------------------------------------------------------------
(* What a command line means, as its flags are read one by one.            *)

ServerOf(t) == IF t.server = Nothing THEN Word(<<"http://localhost:1966">>) ELSE t.server

\* The value of a flag when the first i - 1 settings have been read.
SetBefore(t, i, n) == {j \in 1 .. (i - 1) : t.settings[j].name = n}
IsValue(t, i, n, v) ==
  \/ SetBefore(t, i, n) = {} /\ v = Defaults(t.path)[n]
  \/ \E j \in SetBefore(t, i, n) : v = t.settings[j].value /\ \A k \in SetBefore(t, i, n) : k <= j

LEMMA ValueAtFirst ==
    ASSUME NEW t, NEW n
    PROVE  IsValue(t, 1, n, Defaults(t.path)[n])
<1>1. SetBefore(t, 1, n) = {}
  BY DEF SetBefore
<1>. QED BY <1>1 DEF IsValue

LEMMA ValueSet ==
    ASSUME NEW t, NEW i \in Nat \ {0}
    PROVE  IsValue(t, i + 1, t.settings[i].name, t.settings[i].value)
<1> DEFINE n == t.settings[i].name
<1>1. i \in SetBefore(t, i + 1, n) /\ \A k \in SetBefore(t, i + 1, n) : k <= i
  BY DEF SetBefore
<1>. HIDE DEF n
<1>. QED BY <1>1 DEF IsValue, n

LEMMA ValueKept ==
    ASSUME NEW t, NEW i \in Nat \ {0}, NEW n, n # t.settings[i].name, NEW v, IsValue(t, i, n, v)
    PROVE  IsValue(t, i + 1, n, v)
<1>1. SetBefore(t, i + 1, n) = SetBefore(t, i, n)
  <2>1. (i + 1) - 1 = i /\ \A j : j \in 1 .. i <=> j \in 1 .. (i - 1) \/ j = i
    OBVIOUS
  <2>. QED BY <2>1 DEF SetBefore
<1>. QED BY <1>1 DEF IsValue

LEMMA ValueAtLast ==
    ASSUME NEW t, IsTyped(t), NEW n, NEW v, IsValue(t, Len(t.settings) + 1, n, v)
    PROVE  v = ValueOf(t, n)
<1> DEFINE at == {i \in DOMAIN t.settings : t.settings[i].name = n}
<1>1. at \subseteq Nat /\ SetBefore(t, Len(t.settings) + 1, n) = at
  <2>1. DOMAIN t.settings = 1 .. Len(t.settings) /\ Len(t.settings) \in Nat
    BY TypedFacts
  <2>2. (Len(t.settings) + 1) - 1 = Len(t.settings)
    BY <2>1
  <2>. QED BY <2>1, <2>2 DEF SetBefore
<1>2. ValueOf(t, n) = IF at = {} THEN Defaults(t.path)[n]
                      ELSE t.settings[CHOOSE i \in at : \A j \in at : j <= i].value
  BY DEF ValueOf
<1>. HIDE DEF at
<1>3. CASE at = {}
  BY <1>1, <1>2, <1>3 DEF IsValue
<1>4. CASE at # {}
  <2>1. PICK j \in at : v = t.settings[j].value /\ \A k \in at : k <= j
    BY <1>1, <1>4 DEF IsValue
  <2>2. \A i \in at : (\A k \in at : k <= i) => i = j
    BY <1>1, <2>1
  <2>3. j = CHOOSE i \in at : \A k \in at : k <= i
    BY <2>1, <2>2
  <2>. QED BY <1>2, <1>4, <2>1, <2>3
<1>. QED BY <1>3, <1>4

LEMMA ValueUnset ==
    ASSUME NEW t, IsTyped(t), t.settings = << >>, NEW n
    PROVE  ValueOf(t, n) = Defaults(t.path)[n]
<1>1. Len(t.settings) + 1 = 1
  OBVIOUS
<1>. QED BY <1>1, ValueAtFirst, ValueAtLast

\* A setting that its flag set accepts, and the first of them.
Accepted(t, i) ==
  /\ t.settings[i].name \in DOMAIN Defaults(t.path)
  /\ t.settings[i].value # Nothing
  /\ t.settings[i].name = "limit" => t.settings[i].value \in {Word(n) : n \in Numbers}
Settled(t, i) == \A j \in 1 .. (i - 1) : Accepted(t, j)

TimesRead(t) ==
  \A n \in DOMAIN Defaults(t.path) \cap {"expires", "since"} :
    ValueOf(t, n) # Blank => IsTime(ValueOf(t, n))
RequiredGiven(t) == \A n \in Required(t.path) : ValueOf(t, n) # Blank

LEMMA CompleteIs ==
    ASSUME NEW t, IsTyped(t)
    PROVE  Complete(t) <=>
             /\ t.path \in Commands
             /\ Len(t.rest) \in Arity(t.path)
             /\ t.layout = "terminated flags" => t.path \in FlagSets
             /\ \A i \in 1 .. Len(t.settings) : Accepted(t, i)
             /\ RequiredGiven(t) /\ TimesRead(t)
<1>1. DOMAIN t.settings = 1 .. Len(t.settings)
  BY TypedFacts
<1>. QED BY <1>1 DEF Complete, Accepted, RequiredGiven, TimesRead

\* What a command line without flags means.
LEMMA MeantUnset ==
    ASSUME NEW t, IsTyped(t), t.path \in Commands, t.settings = << >>,
           t.path \notin {<<"federation-trust", "create">>}
    PROVE  Meant(t) = Call(t.path, t.rest, Defaults(t.path), ServerOf(t))
<1>1. Defaults(t.path) = [n \in DOMAIN Defaults(t.path) |-> Defaults(t.path)[n]]
  <2>1. CASE t.path \in FlagSets
    BY <2>1, DefaultsAreFunctions
  <2>2. CASE t.path \notin FlagSets
    <3>1. t.path \in PlainOne \cup PlainNone \cup {<<"agents">>, <<"federation-trust", "list">>}
      BY <2>2 DEF Commands
    <3>2. << >> = [n \in DOMAIN << >> |-> << >>[n]]
      OBVIOUS
    <3>. QED BY <3>1, <3>2, PlainDefaults, Zenon
  <2>. QED BY <2>1, <2>2
<1>2. "audiences" \notin DOMAIN Defaults(t.path)
  BY DEF Defaults, Commands, FlagSets, PlainOne, PlainNone
<1>3. Defaults(t.path) = [n \in DOMAIN Defaults(t.path) |->
                            IF n = "audiences" THEN splitCSV(ValueOf(t, n)) ELSE ValueOf(t, n)]
  BY <1>1, <1>2, ValueUnset
<1>. QED BY <1>3 DEF Meant, ServerOf

LEMMA AllAccepted ==
    ASSUME NEW t, t.settings = << >>
    PROVE  \A i \in 1 .. Len(t.settings) : Accepted(t, i)
<1>1. Len(t.settings) = 0
  OBVIOUS
<1>. QED BY <1>1

LEMMA CompleteUnset ==
    ASSUME NEW t, IsTyped(t), t.path \in Commands, t.settings = << >>, Len(t.rest) \in Arity(t.path),
           t.layout = "terminated flags" => t.path \in FlagSets, Required(t.path) = {},
           DOMAIN Defaults(t.path) \cap {"expires", "since"} = {}
    PROVE  Complete(t)
<1>2. \A i \in 1 .. Len(t.settings) : Accepted(t, i)
  BY AllAccepted, Zenon
<1>. QED BY <1>2, CompleteIs DEF RequiredGiven, TimesRead

\* And with flags, once all of them are read.
AllRead(t, values) ==
  /\ values = [n \in DOMAIN Defaults(t.path) |-> values[n]]
  /\ \A n \in DOMAIN Defaults(t.path) : values[n] = ValueOf(t, n)

LEMMA MeantRead ==
    ASSUME NEW t, NEW values, AllRead(t, values)
    PROVE  /\ "audiences" \notin DOMAIN Defaults(t.path) =>
                Meant(t) = Call(t.path, t.rest, values, ServerOf(t))
           /\ "audiences" \in DOMAIN Defaults(t.path) =>
                Meant(t) = Call(t.path, t.rest, [values EXCEPT !["audiences"] = splitCSV(@)], ServerOf(t))
<1> DEFINE D == DOMAIN Defaults(t.path)
           M == [n \in D |-> IF n = "audiences" THEN splitCSV(ValueOf(t, n)) ELSE ValueOf(t, n)]
<1>1. Meant(t) = Call(t.path, t.rest, M, ServerOf(t))
  BY DEF Meant, ServerOf
<1>2. values = [n \in D |-> values[n]] /\ \A n \in D : values[n] = ValueOf(t, n)
  BY DEF AllRead
<1>. HIDE DEF D
<1>3. ASSUME "audiences" \notin D PROVE M = values
  <2>1. \A n \in D : M[n] = values[n]
    BY <1>2, <1>3
  <2>. QED BY <1>2, <2>1
<1>4. ASSUME "audiences" \in D PROVE M = [values EXCEPT !["audiences"] = splitCSV(@)]
  <2> DEFINE V == [values EXCEPT !["audiences"] = splitCSV(@)]
  <2>1. V = [n \in D |-> IF n = "audiences" THEN splitCSV(values[n]) ELSE values[n]]
    BY <1>2
  <2>. QED BY <1>2, <2>1
<1>. QED BY <1>1, <1>3, <1>4 DEF D
-----------------------------------------------------------------------------
(* Names and operands in what a command gets.                              *)

\* What is no command does not become one by what follows.
LEMMA NoCommandInBody ==
    ASSUME NEW t, IsTyped(t), t.path \notin Commands, NEW c \in Commands
    PROVE  ~IsPrefix(CommandWords(c), CommandWords(t.path) \o Body(t))
<1> DEFINE w == CommandWords(c)
           p == CommandWords(t.path)
           l == Left(t)[1]
<1>1. w \in Seq(Arg) /\ OnlyWords(w)
  BY CommandsAreNotEmpty, CommandWordsAre
<1>2. p \in Seq(Arg) /\ t.rest \in Seq(Arg) /\ Body(t) \in Seq(Arg) /\ l \in Seq(Arg)
  BY BodyIsArguments, RestFacts, CommandLineIs
<1>3. ~IsPrefix(w, p \o t.rest)
  BY NoNameByChance
<1>4. ~IsPrefix(w, p)
  BY <1>1, <1>2, <1>3, PrefixExtends
<1>5. t.settings # << >> => l # << >> /\ IsFlag(l[1])
  <2>1. ASSUME t.settings # << >> PROVE 1 \in 1 .. Len(t.settings)
    BY <2>1, TypedFacts, EmptySeq
  <2>2. << >> \in Seq(Arg)
    OBVIOUS
  <2>. QED BY <2>1, <2>2, LeftBegins
<1>. HIDE DEF w, p, l
<1>6. CASE Body(t) # << >> /\ IsFlag(Body(t)[1])
  BY <1>1, <1>2, <1>4, <1>6, PrefixEndsAtFlag DEF w, p
<1>7. CASE Body(t) = t.rest
  BY <1>3, <1>7 DEF w, p
<1>8. CASE Straight(t)
  <2>1. Body(t) = l \o Operands(t) /\ Operands(t) \in Seq(Arg)
    BY <1>8, OperandsFacts DEF Body, l
  <2>2. CASE t.settings # << >>
    <3>1. Body(t) # << >> /\ Body(t)[1] = l[1]
      BY <1>2, <1>5, <2>1, <2>2, Concat
    <3>. QED BY <1>5, <1>6, <2>2, <3>1
  <2>3. CASE t.settings = << >>
    <3>1. Body(t) = Operands(t)
      BY <2>1, <2>3, NoFlagsLeft, ConcatEmptySeq DEF l
    <3>2. CASE t.layout = "terminated flags"
      <4>1. <<Terminator>> \in Seq(Arg) /\ <<Terminator>> # << >> /\ <<Terminator>>[1] = Terminator
        BY SpecialArgs, ShortSequences
      <4>2. Operands(t) # << >> /\ Operands(t)[1] = Terminator
        <5> DEFINE one == <<Terminator>>
        <5>1. Operands(t) = one \o t.rest
          BY <3>2 DEF Operands
        <5>2. one \in Seq(Arg) /\ one # << >> /\ one[1] = Terminator /\ t.rest \in Seq(Arg)
          BY <1>2, <4>1
        <5>. HIDE DEF one
        <5>. QED BY <5>1, <5>2, Concat
      <4>3. IsFlag(Terminator)
        BY SpecialArgs DEF IsFlag
      <4>. QED BY <1>6, <3>1, <4>2, <4>3
    <3>3. CASE t.layout # "terminated flags"
      BY <1>7, <3>1, <3>3 DEF Operands
    <3>. QED BY <3>2, <3>3
  <2>. QED BY <2>2, <2>3
<1>9. CASE ~Straight(t)
  <2>1. Body(t) = t.rest \o l /\ t.settings # << >>
    BY <1>9 DEF Body, Straight, l
  <2>2. p \o Body(t) = (p \o t.rest) \o l
    <3>1. (p \o t.rest) \o l = p \o (t.rest \o l)
      BY <1>2, Grouping, Zenon
    <3>. QED BY <2>1, <3>1
  <2>3. p \o t.rest \in Seq(Arg)
    BY <1>2, Concat
  <2>4. ~IsPrefix(w, (p \o t.rest) \o l)
    BY <1>1, <1>2, <1>3, <1>5, <2>1, <2>3, PrefixEndsAtFlag
  <2>. QED BY <2>2, <2>4 DEF w, p
<1>. QED BY <1>8, <1>9

\* Flags and "--" make more of the operands, and are no words.
LEMMA BodyIs ==
    ASSUME NEW t, IsTyped(t)
    PROVE  \/ t.settings = << >> /\ t.layout # "terminated flags" /\ Body(t) = t.rest
           \/ Len(Body(t)) > Len(t.rest) /\ \E i \in DOMAIN Body(t) : Body(t)[i] \notin Words
<1> DEFINE l == Left(t)[1]
<1>1. t.rest \in Seq(Arg) /\ Body(t) \in Seq(Arg) /\ l \in Seq(Arg) /\ Operands(t) \in Seq(Arg)
  BY BodyIsArguments, RestFacts, OperandsFacts
<1>2. \A x \in Words : ~IsFlag(x)
  BY WordsAreArgs DEF IsFlag
<1>3. t.settings # << >> => l # << >> /\ IsFlag(l[1])
  <2>1. ASSUME t.settings # << >> PROVE 1 \in 1 .. Len(t.settings)
    BY <2>1, TypedFacts, EmptySeq
  <2>2. << >> \in Seq(Arg)
    OBVIOUS
  <2>. QED BY <2>1, <2>2, LeftBegins
<1>. HIDE DEF l
<1>4. Len(Operands(t)) >= Len(t.rest)
  <2>1. CASE t.layout = "terminated flags"
    <3>1. <<Terminator>> \in Seq(Arg) /\ Len(<<Terminator>>) = 1
      BY SpecialArgs, ShortSequences
    <3>2. Len(Operands(t)) = 1 + Len(t.rest)
      BY <1>1, <2>1, <3>1, Concat DEF Operands
    <3>. QED BY <1>1, <3>2
  <2>2. CASE t.layout # "terminated flags"
    <3>1. Operands(t) = t.rest
      BY <2>2 DEF Operands
    <3>2. Len(t.rest) \in Nat
      BY <1>1
    <3>. QED BY <3>1, <3>2
  <2>. QED BY <2>1, <2>2
<1>5. CASE t.settings # << >>
  <2>1. Len(l) \in Nat /\ Len(l) > 0
    BY <1>1, <1>3, <1>5, EmptySeq
  <2>2. CASE Straight(t)
    <3>1. Body(t) = l \o Operands(t)
      BY <2>2 DEF Body, l
    <3>2. Len(Body(t)) = Len(l) + Len(Operands(t)) /\ Body(t)[1] = l[1] /\ Body(t) # << >>
      BY <1>1, <1>3, <1>5, <3>1, Concat
    <3>3. 1 \in DOMAIN Body(t)
      BY <1>1, <3>2
    <3>4. Body(t)[1] \notin Words
      BY <1>2, <1>3, <1>5, <3>2
    <3>5. Len(Body(t)) > Len(t.rest)
      <4>1. Len(Operands(t)) \in Nat /\ Len(t.rest) \in Nat
        BY <1>1
      <4>. QED BY <1>4, <2>1, <3>2, <4>1
    <3>. QED BY <3>3, <3>4, <3>5
  <2>3. CASE ~Straight(t)
    <3>1. Body(t) = t.rest \o l
      BY <2>3 DEF Body, l
    <3>2. Len(Body(t)) = Len(t.rest) + Len(l) /\ \A i \in 1 .. Len(l) : Body(t)[Len(t.rest) + i] = l[i]
      BY <1>1, <3>1, Concat
    <3>3. Len(t.rest) \in Nat
      BY <1>1
    <3>4. 1 \in 1 .. Len(l) /\ Len(t.rest) + 1 \in 1 .. Len(Body(t))
      BY <2>1, <3>2, <3>3
    <3>5. Body(t)[Len(t.rest) + 1] \notin Words
      BY <1>2, <1>3, <1>5, <3>2, <3>4
    <3>6. Len(t.rest) + 1 \in DOMAIN Body(t)
      BY <1>1, <3>4
    <3>7. Len(Body(t)) > Len(t.rest)
      BY <2>1, <3>2, <3>3
    <3>. QED BY <3>5, <3>6, <3>7
  <2>. QED BY <2>2, <2>3
<1>6. CASE t.settings = << >>
  <2>1. Body(t) = Operands(t)
    BY <1>1, <1>6, NoFlagsLeft, ConcatEmptySeq DEF Body, Straight, l
  <2>2. CASE t.layout = "terminated flags"
    <3>1. /\ <<Terminator>> \in Seq(Arg) /\ Len(<<Terminator>>) = 1
          /\ <<Terminator>> # << >> /\ <<Terminator>>[1] = Terminator
      BY SpecialArgs, ShortSequences
    <3>2. Len(Body(t)) = 1 + Len(t.rest) /\ Body(t) # << >> /\ Body(t)[1] = Terminator
      <4>1. Body(t) = <<Terminator>> \o t.rest
        BY <2>1, <2>2 DEF Operands
      <4>. QED BY <1>1, <3>1, <4>1, Concat
    <3>3. 1 \in DOMAIN Body(t)
      BY <1>1, <3>2
    <3>4. Len(Body(t)) > Len(t.rest)
      BY <1>1, <3>2
    <3>. QED BY <3>2, <3>3, <3>4, SpecialArgs
  <2>3. CASE t.layout # "terminated flags"
    BY <1>6, <2>1, <2>3 DEF Operands
  <2>. QED BY <2>2, <2>3
<1>. QED BY <1>5, <1>6

\* Where a program is that runs: at main's flag, at the name of a command,
\* at one of the command's flags, or at operands that are followed by flags.
AtServer(t, a, set) == set = << >> /\ t.server # Nothing /\ a = CommandLine(t)
AtCommand(t, a, set, values) ==
  /\ set = << >> /\ t.path # << >> /\ a = CommandWords(t.path) \o Body(t)
  /\ values["server"] = ServerOf(t)
HasRead(t, i, set, values, url) ==
  /\ Settled(t, i) /\ url = ServerOf(t)
  /\ values = [n \in DOMAIN Defaults(set) |-> values[n]]
  /\ \A n \in DOMAIN Defaults(set) : IsValue(t, i, n, values[n])
AtFlags(t, a, set, values, url, i) ==
  /\ set = t.path /\ Straight(t) /\ i \in 1 .. Len(t.settings) + 1
  /\ a = Left(t)[i] \o Operands(t)
  /\ set # << >> => HasRead(t, i, set, values, url)
AtOperands(t, a, set) == set = t.path /\ ~Straight(t) /\ a = Body(t)
At(t, a, set, values, url) ==
  \/ AtServer(t, a, set) \/ AtCommand(t, a, set, values)
  \/ \E i \in 1 .. Len(t.settings) + 1 : AtFlags(t, a, set, values, url, i)
  \/ AtOperands(t, a, set)

LEMMA AtBody ==
    ASSUME NEW t, IsTyped(t), t.path \in FlagSets, NEW values, NEW url,
           t.path # << >> => url = ServerOf(t) /\ values = Defaults(t.path)
    PROVE  At(t, Body(t), t.path, values, url)
<1>1. CASE ~Straight(t)
  BY <1>1 DEF At, AtOperands
<1>2. CASE Straight(t)
  <2>1. 1 \in 1 .. Len(t.settings) + 1
    <3>1. Len(t.settings) \in Nat
      BY LeftFacts
    <3>. QED BY <3>1
  <2>2. Body(t) = Left(t)[1] \o Operands(t)
    BY <1>2 DEF Body
  <2>3. ASSUME t.path # << >> PROVE HasRead(t, 1, t.path, values, url)
    <3>1. values = Defaults(t.path) /\ url = ServerOf(t)
      BY <2>3
    <3>2. Settled(t, 1)
      BY DEF Settled
    <3>3. values = [n \in DOMAIN Defaults(t.path) |-> values[n]]
      BY <3>1, DefaultsAreFunctions
    <3>4. \A n \in DOMAIN Defaults(t.path) : IsValue(t, 1, n, values[n])
      BY <3>1, ValueAtFirst
    <3>. QED BY <3>1, <3>2, <3>3, <3>4 DEF HasRead
  <2>4. AtFlags(t, Body(t), t.path, values, url, 1)
    BY <1>2, <2>1, <2>2, <2>3 DEF AtFlags
  <2>. QED BY <2>1, <2>4 DEF At
<1>. QED BY <1>1, <1>2
-----------------------------------------------------------------------------
(* Every step keeps to what was typed.                                     *)

Ignoring == {<<"evidence">>, <<"federation-trust", "list">>}
Exempt(r) == r.of \in Ignoring \/ \E i \in DOMAIN r.with : r.with[i] \notin Words

\* An end that the command line may come to.
Suits(t, r) ==
  /\ r # Running
  /\ Complete(t) /\ t.layout # "operands first" => r = Meant(t)
  /\ r.end = "call" => (Complete(t) /\ r = Meant(t)) \/ Exempt(r)

IInv ==
  /\ TypeInv
  /\ result = Running => At(typed, args, fs, flags, server)
  /\ result # Running => Suits(typed, result)

LEMMA ExitSuits ==
    ASSUME NEW t, NEW code, ~Complete(t) \/ t.layout = "operands first"
    PROVE  Suits(t, Exit(code))
<1>1. Exit(code).end = "exit" /\ Running.end = "running"
  BY DEF Exit, Running
<1>2. Exit(code).end # Running.end /\ Exit(code).end # "call"
  BY <1>1
<1>. QED BY <1>2 DEF Suits

LEMMA CallIsEnd ==
    \A path, operands, values, url : Call(path, operands, values, url) # Running
<1> TAKE path, operands, values, url
<1>1. Call(path, operands, values, url).end = "call" /\ Running.end = "running"
  BY DEF Call, Running
<1>. QED BY <1>1

LEMMA CallIsExempt ==
    ASSUME NEW path, NEW operands, NEW values, NEW url,
           path \in Ignoring \/ \E i \in DOMAIN operands : operands[i] \notin Words
    PROVE  Exempt(Call(path, operands, values, url))
BY DEF Call, Exempt

LEMMA MeantSuits ==
    ASSUME NEW t, Complete(t)
    PROVE  Suits(t, Meant(t))
BY CallIsEnd DEF Suits, Meant

LEMMA ExemptSuits ==
    ASSUME NEW t, NEW path, NEW operands, NEW values, NEW url,
           path \in Ignoring \/ \E i \in DOMAIN operands : operands[i] \notin Words,
           Complete(t) /\ t.layout # "operands first" => Call(path, operands, values, url) = Meant(t)
    PROVE  Suits(t, Call(path, operands, values, url))
<1>1. Call(path, operands, values, url) # Running
  BY CallIsEnd
<1>2. Exempt(Call(path, operands, values, url))
  BY CallIsExempt
<1>. QED BY <1>1, <1>2 DEF Suits

\* A step that ends the program as it may end.
LEMMA EndStep ==
    ASSUME IInv, Next, NEW r, End(r), Suits(typed, r)
    PROVE  IInv'
<1>1. TypeInv'
  BY TypeStep DEF IInv
<1>2. typed' = typed /\ result' = r
  BY DEF End
<1>3. Suits(typed', result') /\ result' # Running
  BY <1>2 DEF Suits
<1>. QED BY <1>1, <1>3 DEF IInv

\* And one after which it still runs.
LEMMA MoveStep ==
    ASSUME IInv, Next, result' = Running, At(typed', args', fs', flags', server')
    PROVE  IInv'
<1>1. TypeInv'
  BY TypeStep DEF IInv
<1>. QED BY <1>1 DEF IInv

\* While flags are left nothing else happens.
LEMMA OnlyParseOne ==
    ASSUME Next, Flagged
    PROVE  ParseOne
<1>1. ~main
  BY DEF main, Plain, ListFederationTrusts, lifecycleWithReason, Evidence, WithFlags, NoCommand, Named, Parsed
<1>2. \A path, values : ~CallIfEnough(path, values)
  BY DEF CallIfEnough, Parsed
<1>3. ~LeaseInstance /\ ~evidenceSince
  BY DEF LeaseInstance, evidenceSince, Parsed
<1>. QED BY <1>1, <1>2, <1>3 DEF Next, ReasonParsed, createFederationTrust, RegisterBlueprint, ListBlueprints

\* And then main is at work before a command has flags, and the command after.
CommandStep ==
  \/ \E path \in {<<"suspend">>, <<"revoke">>} : ReasonParsed(path)
  \/ createFederationTrust \/ LeaseInstance \/ evidenceSince \/ RegisterBlueprint \/ ListBlueprints

LEMMA OnlyMain ==
    ASSUME Next, ~Flagged, fs = << >>
    PROVE  main
<1>1. \A path, values : path # << >> => ~CallIfEnough(path, values)
  BY DEF CallIfEnough, Parsed
<1>2. ~LeaseInstance /\ ~evidenceSince
  BY DEF LeaseInstance, evidenceSince, Parsed
<1>3. ~ParseOne
  BY DEF ParseOne
<1>4. ~ReasonParsed(<<"suspend">>) /\ ~ReasonParsed(<<"revoke">>) /\ ~createFederationTrust
  BY <1>1 DEF ReasonParsed, createFederationTrust
<1>5. ~RegisterBlueprint /\ ~ListBlueprints
  BY <1>1 DEF RegisterBlueprint, ListBlueprints
<1>. QED BY <1>2, <1>3, <1>4, <1>5 DEF Next

LEMMA OnlyCommand ==
    ASSUME Next, ~Flagged, fs # << >>
    PROVE  CommandStep
<1>1. ~ParseOne
  BY DEF ParseOne
<1>2. ~main
  BY DEF main, Plain, ListFederationTrusts, lifecycleWithReason, Evidence, WithFlags, NoCommand, Named, Parsed
<1>. QED BY <1>1, <1>2 DEF Next, CommandStep

LEMMA ArgumentsAre ==
    ASSUME TRUE
    PROVE  (Flagged <=> Begins(args)) /\ Arguments = OperandsOf(args)
BY DEF Flagged, Begins, Arguments, OperandsOf

\* main's own flag.
LEMMA FromServer ==
    ASSUME IInv, Next, result = Running, AtServer(typed, args, fs)
    PROVE  IInv'
<1> DEFINE rem == CommandWords(typed.path) \o Body(typed)
           f == Head(args)
<1>1. IsTyped(typed) /\ fs = << >> /\ typed.server # Nothing /\ DOMAIN flags = {"server"}
  BY DEF IInv, TypeInv, AtServer, Defaults
<1>2. /\ CommandWords(typed.path) \in Seq(Arg) /\ Body(typed) \in Seq(Arg) /\ rem \in Seq(Arg)
      /\ args = ServerPart(typed) \o rem
  BY <1>1, CommandLineIs, BodyIsArguments, Concat DEF AtServer
<1>3. Flag("server") \in Arg /\ Flag("server").name = "server" /\ Flag("server").text = << >> /\ typed.server \in Arg
  <2>1. typed.server = Word(<<"URL">>)
    BY <1>1, TypedFacts
  <2>. QED BY <2>1, WordIsArg, FlagIsArg DEF AllTexts, AllNames
<1>4. ServerPart(typed) = <<Flag("server"), typed.server>>
  BY <1>1 DEF ServerPart
<1>. HIDE DEF rem
<1>5. /\ args # << >> /\ f = Flag("server") /\ Len(args) > 1 /\ args[2] = typed.server
      /\ SubSeq(args, 3, Len(args)) = rem
  <2> DEFINE sp == <<Flag("server"), typed.server>>
  <2>1. sp \in Seq(Arg) /\ Len(sp) = 2 /\ sp # << >> /\ sp[1] = Flag("server") /\ sp[2] = typed.server
    BY <1>3
  <2>. HIDE DEF sp
  <2>2. args = sp \o rem
    BY <1>2, <1>4 DEF sp
  <2>3. /\ Len(args) = 2 + Len(rem) /\ args # << >> /\ Head(args) = sp[1]
        /\ \A i \in 1 .. Len(sp) : args[i] = sp[i]
    <3>1. /\ Len(sp \o rem) = Len(sp) + Len(rem)
          /\ sp # << >> => sp \o rem # << >> /\ (sp \o rem)[1] = sp[1] /\ Head(sp \o rem) = sp[1]
          /\ \A i \in 1 .. Len(sp) : (sp \o rem)[i] = sp[i]
      BY <1>2, <2>1, Concat
    <3>. QED BY <2>1, <2>2, <3>1
  <2>6. args[2] = sp[2]
    BY <2>1, <2>3
  <2>4. SubSeq(args, 2 + 1, Len(args)) = rem
    BY <1>2, <2>1, <2>2, PrefixOfConcat
  <2>5. Len(args) > 1
    BY <1>2, <2>3
  <2>. QED BY <2>1, <2>3, <2>4, <2>5, <2>6
<1>6. Flagged
  BY <1>3, <1>5 DEF Flagged
<1>7. ParseOne
  BY <1>6, OnlyParseOne
<1>8. SetFlag("server", typed.server, rem)
  <2>1. f.name = "server" /\ f.text = << >>
    BY <1>3, <1>5
  <2>2. f.name \in DOMAIN flags
    BY <1>1, <2>1
  <2>. HIDE DEF f
  <2>3. SetFlag(f.name, args[2], SubSeq(args, 3, Len(args)))
    BY <1>5, <1>7, <2>1, <2>2 DEF ParseOne, f
  <2>. QED BY <1>5, <2>1, <2>3
<1>9. /\ flags' = [flags EXCEPT !["server"] = typed.server] /\ args' = rem
      /\ typed' = typed /\ fs' = fs /\ server' = server /\ result' = result
  BY <1>8 DEF SetFlag
<1>10. flags'["server"] = ServerOf(typed)
  BY <1>1, <1>9 DEF ServerOf
<1>11. At(typed', args', fs', flags', server')
  <2>1. CASE typed.path # << >>
    <3>1. AtCommand(typed, rem, << >>, flags')
      BY <1>10, <2>1 DEF AtCommand, rem
    <3>. QED BY <1>1, <1>9, <3>1 DEF At
  <2>2. CASE typed.path = << >>
    <3>1. CommandWords(typed.path) = << >>
      BY <2>2 DEF CommandWords
    <3>2. rem = Body(typed)
      BY <1>2, <3>1, ConcatEmptySeq DEF rem
    <3>3. typed.path \in FlagSets
      BY <2>2 DEF FlagSets
    <3>4. At(typed, Body(typed), typed.path, flags', server')
      BY <1>1, <2>2, <3>3, AtBody
    <3>. QED BY <1>1, <1>9, <2>2, <3>2, <3>4
  <2>. QED BY <2>1, <2>2
<1>. QED BY <1>9, <1>11, MoveStep

\* What main does with the name of a command and what follows it.
LEMMA NoFlagCommands ==
    ASSUME NEW t, IsTyped(t), t.path \in PlainOne \cup PlainNone \cup {<<"agents">>, <<"federation-trust", "list">>}
    PROVE  /\ t.path \in Commands /\ Required(t.path) = {}
           /\ DOMAIN Defaults(t.path) \cap {"expires", "since"} = {}
           /\ t.path # <<"federation-trust", "create">>
           /\ Complete(t) => t.settings = << >> /\ t.layout # "terminated flags"
<1>1. t.path \in Commands /\ Required(t.path) = {} /\ t.path # <<"federation-trust", "create">>
  BY DEF Commands, PlainOne, PlainNone, Required
<1>2. DOMAIN Defaults(t.path) = {} /\ t.path \notin FlagSets
  BY PlainDefaults
<1>3. ASSUME Complete(t) PROVE t.settings = << >> /\ t.layout # "terminated flags"
  <2>1. (t.layout = "terminated flags" => t.path \in FlagSets) /\ \A i \in 1 .. Len(t.settings) : Accepted(t, i)
    BY <1>3, CompleteIs
  <2>2. \A i \in 1 .. Len(t.settings) : FALSE
    BY <1>2, <2>1 DEF Accepted
  <2>3. Len(t.settings) = 0
    <3>1. Len(t.settings) \in Nat
      BY LeftFacts
    <3>. QED BY <2>2, <3>1
  <2>. QED BY <1>2, <2>1, <2>3, NoFlagsLeft
<1>. QED BY <1>1, <1>2, <1>3

LEMMA BodyIsRest ==
    ASSUME NEW t, IsTyped(t), t.settings = << >>, t.layout # "terminated flags"
    PROVE  Body(t) = t.rest
<1>1. t.rest \in Seq(Arg) /\ Left(t)[1] = << >> /\ Straight(t) /\ Operands(t) = t.rest
  BY RestFacts, NoFlagsLeft DEF Straight, Operands
<1>. QED BY <1>1, ConcatEmptySeq DEF Body

\* A command without flags takes its operands, and a flag only for one.
LEMMA PlainCallSuits ==
    ASSUME NEW t, IsTyped(t), t.path \in PlainOne \cup PlainNone \cup {<<"agents">>, <<"federation-trust", "list">>},
           Len(Body(t)) \in Arity(t.path) \/ t.path \in Ignoring
    PROVE  Suits(t, Call(t.path, Body(t), Defaults(t.path), ServerOf(t)))
<1>1. ASSUME Complete(t) PROVE Call(t.path, Body(t), Defaults(t.path), ServerOf(t)) = Meant(t)
  BY <1>1, NoFlagCommands, BodyIsRest, MeantUnset
<1>2. CASE Complete(t)
  BY <1>1, <1>2, MeantSuits
<1>3. CASE ~Complete(t)
  <2>1. t.path \in Ignoring \/ \E i \in DOMAIN Body(t) : Body(t)[i] \notin Words
    BY <1>3, BodyIs, NoFlagCommands, CompleteUnset
  <2>. QED BY <1>3, <2>1, ExemptSuits
<1>. QED BY <1>2, <1>3

LEMMA PlainUsage ==
    ASSUME NEW t, IsTyped(t), t.path \in PlainOne \cup PlainNone \cup {<<"agents">>},
           Len(Body(t)) \notin Arity(t.path)
    PROVE  ~Complete(t)
BY NoFlagCommands, BodyIsRest, CompleteIs

LEMMA LoneCommands ==
    /\ \A path \in {<<"suspend">>, <<"revoke">>, <<"evidence">>} :
         path \in FlagSets /\ path \in Commands /\ Required(path) = {} /\ path # <<"federation-trust", "create">>
    /\ \A path \in {<<"suspend">>, <<"revoke">>} : Arity(path) = {1} /\ path # <<"evidence">>
    /\ Arity(<<"evidence">>) = {0}
<1>1. \A path \in {<<"suspend">>, <<"revoke">>, <<"evidence">>} :
         path \in FlagSets /\ path \in Commands /\ path # <<"federation-trust", "create">>
  BY DEF Commands, FlagSets
<1>2. \A path \in {<<"suspend">>, <<"revoke">>, <<"evidence">>} : Required(path) = {}
  BY DEF Required
<1>3. \A path \in {<<"suspend">>, <<"revoke">>} : Arity(path) = {1} /\ path # <<"evidence">>
  BY DEF Arity
<1>4. Arity(<<"evidence">>) = {0}
  <2>1. <<"evidence">> \notin PlainOne
    BY DEF PlainOne
  <2>. QED BY <2>1 DEF Arity
<1>. QED BY <1>1, <1>2, <1>3, <1>4

\* A lone argument of suspend and revoke, and none of evidence.
LEMMA LoneCallSuits ==
    ASSUME NEW t, IsTyped(t),
           \/ t.path \in {<<"suspend">>, <<"revoke">>} /\ Len(Body(t)) = 1
           \/ t.path = <<"evidence">> /\ Body(t) = << >>
    PROVE  Suits(t, Call(t.path, Body(t), Defaults(t.path), ServerOf(t)))
<1>1. /\ t.path \in Commands /\ t.path \in FlagSets /\ Required(t.path) = {}
      /\ t.path # <<"federation-trust", "create">>
  BY LoneCommands
<1>2. Arity(t.path) = {Len(Body(t))} /\ Len(Body(t)) \in Nat
  <2>1. CASE t.path = <<"evidence">>
    <3>1. Body(t) = << >>
      BY <2>1, LoneCommands
    <3>2. Len(Body(t)) = 0
      BY <3>1
    <3>. QED BY <2>1, <3>2, LoneCommands
  <2>2. CASE t.path # <<"evidence">>
    <3>1. t.path \in {<<"suspend">>, <<"revoke">>} /\ Len(Body(t)) = 1
      BY <2>2
    <3>. QED BY <3>1, LoneCommands
  <2>. QED BY <2>1, <2>2
<1>3. CASE t.settings = << >> /\ t.layout # "terminated flags" /\ Body(t) = t.rest
  <2>1. Meant(t) = Call(t.path, Body(t), Defaults(t.path), ServerOf(t))
    BY <1>1, <1>3, MeantUnset
  <2>2. Complete(t) \/ t.path \in Ignoring
    <3>1. CASE t.path = <<"evidence">>
      BY <3>1 DEF Ignoring
    <3>2. CASE t.path # <<"evidence">>
      <4>1. DOMAIN Defaults(t.path) \cap {"expires", "since"} = {}
        BY <3>2 DEF Defaults
      <4>2. Len(t.rest) \in Arity(t.path)
        BY <1>2, <1>3
      <4>. QED BY <1>1, <1>3, <4>1, <4>2, CompleteUnset
    <3>. QED BY <3>1, <3>2
  <2>. QED BY <2>1, <2>2, MeantSuits, ExemptSuits
<1>4. CASE Len(Body(t)) > Len(t.rest) /\ \E i \in DOMAIN Body(t) : Body(t)[i] \notin Words
  <2>1. ~Complete(t)
    <3>1. SUFFICES ASSUME Complete(t) PROVE FALSE
      OBVIOUS
    <3>2. Len(t.rest) \in Arity(t.path)
      BY <3>1, CompleteIs
    <3>3. Len(t.rest) = Len(Body(t))
      BY <1>2, <3>2
    <3>. QED BY <1>2, <1>4, <3>3
  <2>. QED BY <1>4, <2>1, ExemptSuits
<1>. QED BY <1>3, <1>4, BodyIs

LEMMA FromCommand ==
    ASSUME IInv, Next, result = Running, AtCommand(typed, args, fs, flags)
    PROVE  IInv'
<1> DEFINE p == typed.path
<1>1. /\ IsTyped(typed) /\ fs = << >> /\ p # << >> /\ p \in Paths
      /\ args = CommandWords(p) \o Body(typed) /\ flags["server"] = ServerOf(typed)
  BY TypedFacts DEF IInv, TypeInv, AtCommand
<1>2. /\ CommandWords(p) \in Seq(Arg) /\ Body(typed) \in Seq(Arg) /\ OnlyWords(CommandWords(p))
      /\ Len(CommandWords(p)) = Len(p) /\ CommandWords(p) # << >>
  <2>1. /\ CommandWords(p) \in Seq(Arg) /\ OnlyWords(CommandWords(p)) /\ Len(CommandWords(p)) = Len(p)
        /\ p \in Seq(PathWords)
    BY <1>1, CommandWordsAre, PathsAreShort
  <2>2. CommandWords(p) # << >>
    BY <1>1, <2>1, EmptySeq
  <2>. QED BY <1>1, <2>1, <2>2, BodyIsArguments
<1>3. ~Flagged /\ Arguments = args
  BY <1>1, <1>2, WordsFirst, ArgumentsAre
<1>4. main
  BY <1>1, <1>3, OnlyMain
<1>5. ASSUME NEW c \in Commands, Named(c) PROVE c = p
  <2>1. IsPrefix(CommandWords(c), CommandWords(p) \o Body(typed))
    BY <1>1, <1>3, <1>5 DEF Named
  <2>2. p \in Commands
    BY <1>1, <2>1, NoCommandInBody
  <2>. QED BY <1>2, <2>1, <2>2, OneCommand
<1>6. After(p) = Body(typed)
  <2>1. SubSeq(args, Len(CommandWords(p)) + 1, Len(args)) = Body(typed)
    BY <1>1, <1>2, PrefixOfConcat
  <2>. QED BY <1>2, <1>3, <2>1 DEF After
<1>. HIDE DEF p
<1>7. ASSUME CallNow(p), Suits(typed, Call(p, Body(typed), Defaults(p), ServerOf(typed))) PROVE IInv'
  <2>1. End(Call(p, Body(typed), Defaults(p), ServerOf(typed)))
    BY <1>1, <1>6, <1>7 DEF CallNow
  <2>. QED BY <1>7, <2>1, EndStep
<1>8. ASSUME usage, ~Complete(typed) PROVE IInv'
  BY <1>8, ExitSuits, EndStep DEF usage
<1>9. ASSUME p \in FlagSets, ParseFlags(p) PROVE IInv'
  <2>1. /\ fs' = p /\ args' = Body(typed) /\ flags' = Defaults(p) /\ server' = ServerOf(typed)
        /\ typed' = typed /\ result' = Running
    BY <1>1, <1>6, <1>9 DEF ParseFlags
  <2>2. At(typed, Body(typed), p, Defaults(p), ServerOf(typed))
    BY <1>1, <1>9, AtBody DEF p
  <2>. QED BY <2>1, <2>2, MoveStep
<1>10. CASE \E path \in PlainOne \cup PlainNone \cup {<<"agents">>} : Plain(path)
  <2>1. PICK c \in PlainOne \cup PlainNone \cup {<<"agents">>} : Plain(c)
    BY <1>10
  <2>2. c \in Commands /\ Named(c)
    BY <2>1 DEF Commands, Plain
  <2>3. c = p
    BY <1>5, <2>2
  <2>4. IF Len(Body(typed)) \in Arity(p) THEN CallNow(p) ELSE usage
    BY <1>6, <2>1, <2>3 DEF Plain
  <2>5. CASE Len(Body(typed)) \in Arity(p)
    BY <1>1, <1>7, <2>1, <2>3, <2>4, <2>5, PlainCallSuits DEF p
  <2>6. CASE Len(Body(typed)) \notin Arity(p)
    BY <1>1, <1>8, <2>1, <2>3, <2>4, <2>6, PlainUsage DEF p
  <2>. QED BY <2>5, <2>6
<1>11. CASE ListFederationTrusts
  <2>1. /\ <<"federation-trust", "list">> \in Commands /\ Named(<<"federation-trust", "list">>)
        /\ CallNow(<<"federation-trust", "list">>) /\ <<"federation-trust", "list">> \in Ignoring
    BY <1>11 DEF Commands, ListFederationTrusts, Ignoring
  <2>2. p = <<"federation-trust", "list">>
    BY <1>5, <2>1
  <2>3. Suits(typed, Call(p, Body(typed), Defaults(p), ServerOf(typed)))
    BY <1>1, <2>1, <2>2, PlainCallSuits DEF p
  <2>. QED BY <1>7, <2>1, <2>2, <2>3
<1>12. CASE \E path \in {<<"suspend">>, <<"revoke">>} : lifecycleWithReason(path)
  <2>1. PICK c \in {<<"suspend">>, <<"revoke">>} : lifecycleWithReason(c)
    BY <1>12
  <2>2. c \in Commands /\ c \in FlagSets /\ Named(c)
    BY <2>1 DEF Commands, FlagSets, lifecycleWithReason
  <2>3. c = p
    BY <1>5, <2>2
  <2>4. IF Len(Body(typed)) = 1 THEN CallNow(p) ELSE ParseFlags(p)
    BY <1>6, <2>1, <2>3 DEF lifecycleWithReason
  <2>5. CASE Len(Body(typed)) = 1
    BY <1>1, <1>7, <2>1, <2>3, <2>4, <2>5, LoneCallSuits DEF p
  <2>6. CASE Len(Body(typed)) # 1
    BY <1>9, <2>2, <2>3, <2>4, <2>6
  <2>. QED BY <2>5, <2>6
<1>13. CASE Evidence
  <2>1. <<"evidence">> \in Commands /\ <<"evidence">> \in FlagSets /\ Named(<<"evidence">>)
    BY <1>13 DEF Commands, FlagSets, Evidence
  <2>2. p = <<"evidence">>
    BY <1>5, <2>1
  <2>3. IF Body(typed) = << >> THEN CallNow(p) ELSE ParseFlags(p)
    BY <1>6, <1>13, <2>2 DEF Evidence
  <2>4. CASE Body(typed) = << >>
    <3>1. Suits(typed, Call(p, Body(typed), Defaults(p), ServerOf(typed)))
      BY <1>1, <2>2, <2>4, LoneCallSuits DEF p
    <3>. QED BY <1>7, <2>3, <2>4, <3>1
  <2>5. CASE Body(typed) # << >>
    BY <1>9, <2>1, <2>2, <2>3, <2>5
  <2>. QED BY <2>4, <2>5
<1>14. CASE \E path \in {<<"federation-trust", "create">>, <<"instance", "lease">>,
                  <<"blueprint", "register">>, <<"blueprint", "list">>} : WithFlags(path)
  <2>1. PICK c \in {<<"federation-trust", "create">>, <<"instance", "lease">>,
                  <<"blueprint", "register">>, <<"blueprint", "list">>} : WithFlags(c)
    BY <1>14
  <2>2. c \in Commands /\ c \in FlagSets /\ Named(c) /\ ParseFlags(c)
    BY <2>1 DEF Commands, FlagSets, WithFlags
  <2>3. c = p
    BY <1>5, <2>2
  <2>. QED BY <1>9, <2>2, <2>3
<1>15. CASE NoCommand
  <2>1. p \notin Commands
    <3>1. \A c \in Commands : ~IsPrefix(CommandWords(c), Arguments)
      BY <1>15 DEF NoCommand
    <3>2. IsPrefix(CommandWords(p), Arguments)
      BY <1>1, <1>2, <1>3, PrefixOfConcat
    <3>. QED BY <3>1, <3>2
  <2>2. ~Complete(typed)
    BY <1>1, <2>1, CompleteIs DEF p
  <2>. QED BY <1>8, <1>15, <2>2 DEF NoCommand
<1>. QED BY <1>4, <1>10, <1>11, <1>12, <1>13, <1>14, <1>15 DEF main

\* A flag is read: its value is the one that was given last.
LEMMA ReadOne ==
    ASSUME NEW t, IsTyped(t), NEW i \in 1 .. Len(t.settings), NEW set, t.path = set, NEW values, NEW url,
           HasRead(t, i, set, values, url), Accepted(t, i)
    PROVE  HasRead(t, i + 1, set, [values EXCEPT ![t.settings[i].name] = t.settings[i].value], url)
<1> DEFINE n == t.settings[i].name
           v == t.settings[i].value
           D == DOMAIN Defaults(set)
           new == [values EXCEPT ![n] = v]
<1>1. /\ Settled(t, i) /\ url = ServerOf(t) /\ values = [m \in D |-> values[m]]
      /\ \A m \in D : IsValue(t, i, m, values[m])
  BY DEF HasRead
<1>2. i \in Nat \ {0}
  OBVIOUS
<1>3. Settled(t, i + 1)
  <2>1. \A j \in 1 .. ((i + 1) - 1) : j = i \/ j \in 1 .. (i - 1)
    BY <1>2
  <2>. QED BY <1>1, <2>1 DEF Settled
<1>4. n \in D
  BY DEF Accepted
<1>5. IsValue(t, i + 1, n, v)
  BY <1>2, ValueSet
<1>6. \A m \in D : m # n => IsValue(t, i + 1, m, values[m])
  BY <1>1, <1>2, ValueKept
<1>. HIDE DEF n, v, D
<1>7. new = [m \in D |-> IF m = n THEN v ELSE values[m]]
  BY <1>1, <1>4
<1>8. new = [m \in D |-> new[m]] /\ \A m \in D : new[m] = IF m = n THEN v ELSE values[m]
  BY <1>7
<1>. HIDE DEF new
<1>9. \A m \in D : IsValue(t, i + 1, m, new[m])
  BY <1>5, <1>6, <1>8
<1>. QED BY <1>1, <1>3, <1>8, <1>9 DEF HasRead, D, new, n, v

\* How ParseOne finds a setting.
SpeltAs(a, s, rem) ==
  LET f == Head(a)
  IN /\ f.name = s.name
     /\ s.value = Nothing => f.text = << >> /\ Len(a) = 1 + Len(rem)
     /\ s.value # Nothing /\ s.attached => f.text # << >> /\ Word(f.text) = s.value /\ Tail(a) = rem
     /\ s.value # Nothing /\ ~s.attached =>
          f.text = << >> /\ Len(a) > 1 /\ a[2] = s.value /\ SubSeq(a, 3, Len(a)) = rem

LEMMA Spelt ==
    ASSUME NEW t, IsTyped(t), NEW i \in 1 .. Len(t.settings), NEW rem \in Seq(Arg), NEW a,
           a = Spelling(t.settings[i]) \o rem
    PROVE  SpeltAs(a, t.settings[i], rem)
<1> DEFINE s == t.settings[i]
           f == Head(a)
<1>1. t.path \in Paths /\ s \in Settings(t.path)
  BY TypedFacts
<1>2. /\ s.name \in AllNames /\ s.attached \in BOOLEAN /\ (s.attached => s.value \in Words)
      /\ s.value \in Arg
  BY <1>1, SettingFacts, Zenon
<1>3. Spelling(s) \in Seq(Arg)
  BY <1>1, SpellingFacts, Zenon
<1>4. Flag(s.name) \in Arg /\ Flag(s.name).name = s.name /\ Flag(s.name).text = << >>
  BY <1>2, FlagIsArg
<1>5. a = Spelling(s) \o rem
  OBVIOUS
<1>. HIDE DEF s
<1>7. CASE s.value = Nothing
  <2>1. Spelling(s) = <<Flag(s.name)>>
    BY <1>7 DEF Spelling
  <2>2. f = Flag(s.name) /\ Len(a) = 1 + Len(rem)
    BY <1>4, <1>5, <2>1, ShortSequences, Concat
  <2>. QED BY <1>4, <1>7, <2>2 DEF s, SpeltAs
<1>8. CASE s.value # Nothing /\ s.attached
  <2>1. s.value \in Words /\ s.value.text \in AllTexts /\ s.value.text # << >> /\ s.value = Word(s.value.text)
    BY <1>2, <1>8, WordsAreArgs DEF AllTexts
  <2> DEFINE x == FlagWith(s.name, s.value.text)
  <2>2. x \in Arg /\ x.name = s.name /\ x.text = s.value.text
    BY <1>2, <2>1, FlagWithIsArg
  <2>3. Spelling(s) = <<x>>
    BY <1>8 DEF Spelling
  <2>. HIDE DEF x
  <2>4. f = x
    BY <1>5, <2>2, <2>3, ShortSequences, Concat
  <2>5. Tail(a) = rem
    BY <1>5, <2>2, <2>3, TailOfConcat
  <2>. QED BY <1>8, <2>1, <2>2, <2>4, <2>5 DEF s, SpeltAs
<1>9. CASE s.value # Nothing /\ ~s.attached
  <2> DEFINE sp == <<Flag(s.name), s.value>>
  <2>1. Spelling(s) = sp
    BY <1>9 DEF Spelling
  <2>2. sp \in Seq(Arg) /\ Len(sp) = 2 /\ sp # << >> /\ sp[1] = Flag(s.name) /\ sp[2] = s.value
    BY <1>2, <1>4
  <2>. HIDE DEF sp
  <2>3. a = sp \o rem
    BY <1>5, <2>1
  <2>4. /\ Len(sp \o rem) = Len(sp) + Len(rem)
        /\ sp # << >> => sp \o rem # << >> /\ (sp \o rem)[1] = sp[1] /\ Head(sp \o rem) = sp[1]
        /\ \A j \in 1 .. Len(sp) : (sp \o rem)[j] = sp[j]
    BY <2>2, Concat
  <2>5. f = Flag(s.name) /\ a[2] = s.value
    BY <2>2, <2>3, <2>4
  <2>6. Len(a) > 1
    BY <2>2, <2>3, <2>4
  <2>7. SubSeq(sp \o rem, Len(sp) + 1, Len(sp \o rem)) = rem
    BY <2>2, PrefixOfConcat
  <2>8. SubSeq(a, 3, Len(a)) = rem
    BY <2>2, <2>3, <2>7
  <2>. QED BY <1>4, <1>9, <2>5, <2>6, <2>8 DEF s, SpeltAs
<1>. QED BY <1>7, <1>8, <1>9 DEF s

LEMMA FromFlags ==
    ASSUME IInv, Next, result = Running, NEW i \in 1 .. Len(typed.settings),
           AtFlags(typed, args, fs, flags, server, i)
    PROVE  IInv'
<1> DEFINE s == typed.settings[i]
           rem == Left(typed)[i + 1] \o Operands(typed)
           f == Head(args)
<1>1. /\ IsTyped(typed) /\ fs = typed.path /\ Straight(typed) /\ args = Left(typed)[i] \o Operands(typed)
      /\ fs # << >> => HasRead(typed, i, fs, flags, server)
      /\ DOMAIN flags = DOMAIN Defaults(fs)
  BY DEF IInv, TypeInv, AtFlags
<1>2. Operands(typed) \in Seq(Arg)
  BY <1>1, OperandsFacts
<1>3. Flagged /\ args = Spelling(s) \o rem /\ Left(typed)[i + 1] \in Seq(Arg)
  BY <1>1, <1>2, LeftBegins, ArgumentsAre
<1>4. rem \in Seq(Arg)
  BY <1>2, <1>3, Concat
<1>5. ParseOne
  BY <1>3, OnlyParseOne
<1>6. /\ f.name = s.name
      /\ s.value = Nothing => f.text = << >> /\ Len(args) = 1 + Len(rem)
      /\ s.value # Nothing /\ s.attached => f.text # << >> /\ Word(f.text) = s.value /\ Tail(args) = rem
      /\ s.value # Nothing /\ ~s.attached =>
           f.text = << >> /\ Len(args) > 1 /\ args[2] = s.value /\ SubSeq(args, 3, Len(args)) = rem
  <2>1. SpeltAs(args, s, rem)
    BY <1>1, <1>3, <1>4, Spelt
  <2>. QED BY <2>1 DEF SpeltAs
<1>7. i + 1 \in 1 .. Len(typed.settings) + 1
  <2>1. Len(typed.settings) \in Nat
    BY <1>1, LeftFacts, Zenon
  <2>. QED BY <2>1
<1>. HIDE DEF rem
<1>8. ASSUME ~Accepted(typed, i), NEW code, End(Exit(code)) PROVE IInv'
  <2>1. ~Complete(typed)
    BY <1>1, <1>8, CompleteIs
  <2>. QED BY <1>8, <2>1, ExitSuits, EndStep
<1>9. CASE s.name \notin DOMAIN flags
  <2>1. ~Accepted(typed, i)
    BY <1>1, <1>9 DEF Accepted
  <2>2. End(Exit(IF f.name = "h" THEN 0 ELSE 2))
    BY <1>5, <1>6, <1>9 DEF ParseOne
  <2>. QED BY <1>8, <2>1, <2>2
<1>10. CASE s.name \in DOMAIN flags /\ s.value = Nothing
  <2>1. ~Accepted(typed, i)
    BY <1>10 DEF Accepted
  <2>2. i = Len(typed.settings) /\ Operands(typed) = << >>
    <3>1. /\ i = Len(typed.settings)
          /\ typed.layout = "operands first" \/ (typed.layout = "flags first" /\ typed.rest = << >>)
      BY <1>1, <1>10, MissingValue
    <3>2. typed.settings # << >>
      BY <1>1, NoFlagsLeft
    <3>. QED BY <1>1, <3>1, <3>2 DEF Straight, Operands
  <2>3. rem = << >>
    <3>1. Left(typed)[i + 1] = << >>
      BY <1>1, <2>2, LeftFacts
    <3>. QED BY <2>2, <3>1 DEF rem
  <2>4. Len(args) = 1
    BY <1>6, <1>10, <2>3
  <2>5. End(Exit(2))
    BY <1>5, <1>6, <1>10, <2>4 DEF ParseOne
  <2>. QED BY <1>8, <2>1, <2>5
<1>11. CASE s.name \in DOMAIN flags /\ s.value # Nothing
  <2>1. SetFlag(s.name, s.value, rem)
    <3>1. CASE s.attached
      BY <1>5, <1>6, <1>11, <3>1 DEF ParseOne
    <3>2. CASE ~s.attached
      BY <1>5, <1>6, <1>11, <3>2 DEF ParseOne
    <3>. QED BY <3>1, <3>2
  <2>2. CASE s.name = "limit" /\ s.value \notin {Word(t) : t \in Numbers}
    <3>1. End(Exit(2))
      BY <2>1, <2>2 DEF SetFlag
    <3>2. ~Accepted(typed, i)
      BY <2>2 DEF Accepted
    <3>. QED BY <1>8, <3>1, <3>2
  <2>3. CASE ~(s.name = "limit" /\ s.value \notin {Word(t) : t \in Numbers})
    <3>1. /\ flags' = [flags EXCEPT ![s.name] = s.value] /\ args' = rem
          /\ typed' = typed /\ fs' = fs /\ server' = server /\ result' = Running
      BY <2>1, <2>3 DEF SetFlag
    <3>2. Accepted(typed, i)
      BY <1>1, <1>11, <2>3 DEF Accepted
    <3>3. fs # << >> => HasRead(typed, i + 1, fs, flags', server)
      BY <1>1, <3>1, <3>2, ReadOne
    <3>4. AtFlags(typed, rem, fs, flags', server, i + 1)
      BY <1>1, <1>7, <3>3 DEF AtFlags, rem
    <3>5. At(typed', args', fs', flags', server')
      BY <1>7, <3>1, <3>4 DEF At
    <3>. QED BY <3>1, <3>5, MoveStep
  <2>. QED BY <2>2, <2>3
<1>. QED BY <1>9, <1>10, <1>11

\* All flags are read: what is left are the operands.
LEMMA FromMainsEnd ==
    ASSUME IInv, Next, result = Running, fs = typed.path, fs = << >>,
           Arguments = typed.rest \/ Arguments = Body(typed), ~Flagged
    PROVE  IInv'
<1>1. IsTyped(typed) /\ typed.path \notin Commands
  <2>1. << >> \notin Commands
    <3>1. \A c \in Commands : c # << >>
      BY CommandsAreNotEmpty
    <3>. QED BY <3>1
  <2>. QED BY <2>1 DEF IInv, TypeInv
<1>2. CommandWords(typed.path) = << >>
  BY DEF CommandWords
<1>3. << >> \o typed.rest = typed.rest /\ << >> \o Body(typed) = Body(typed)
  BY <1>1, RestFacts, BodyIsArguments, ConcatEmptySeq
<1>4. \A c \in Commands : ~IsPrefix(CommandWords(c), Arguments)
  BY <1>1, <1>2, <1>3, NoNameByChance, NoCommandInBody
<1>5. main
  BY OnlyMain
<1>6. \A c \in Commands : ~Named(c)
  BY <1>4 DEF Named
<1>7. PlainOne \cup PlainNone \cup {<<"agents">>} \subseteq Commands /\ FlagSets \ {<< >>} \subseteq Commands
      /\ <<"federation-trust", "list">> \in Commands
  BY DEF Commands
<1>8. {<<"suspend">>, <<"revoke">>, <<"evidence">>, <<"federation-trust", "create">>, <<"instance", "lease">>,
       <<"blueprint", "register">>, <<"blueprint", "list">>} \subseteq Commands
  BY <1>7 DEF FlagSets
<1>9. NoCommand
  <2>1. ~\E path \in PlainOne \cup PlainNone \cup {<<"agents">>} : Plain(path)
    BY <1>6, <1>7 DEF Plain
  <2>2. ~ListFederationTrusts
    BY <1>6, <1>7 DEF ListFederationTrusts
  <2>3. ~\E path \in {<<"suspend">>, <<"revoke">>} : lifecycleWithReason(path)
    BY <1>6, <1>8 DEF lifecycleWithReason
  <2>4. ~Evidence
    BY <1>6, <1>8 DEF Evidence
  <2>5. ~\E path \in {<<"federation-trust", "create">>, <<"instance", "lease">>,
                  <<"blueprint", "register">>, <<"blueprint", "list">>} : WithFlags(path)
    BY <1>6, <1>8 DEF WithFlags
  <2>. QED BY <1>5, <2>1, <2>2, <2>3, <2>4, <2>5 DEF main
<1>10. End(Exit(2))
  BY <1>9 DEF NoCommand, usage
<1>11. ~Complete(typed)
  BY <1>1, CompleteIs
<1>. QED BY <1>10, <1>11, ExitSuits, EndStep

\* The flags that must be given, and those that must be times.
LEMMA RequiredAreFlags ==
    ASSUME NEW path \in FlagSets
    PROVE  Required(path) \subseteq DOMAIN Defaults(path)
BY DEF FlagSets, Required, Defaults

LEMMA CommandFlags ==
    /\ \A path \in {<<"suspend">>, <<"revoke">>, <<"blueprint", "register">>, <<"blueprint", "list">>} :
         DOMAIN Defaults(path) \cap {"audiences", "expires", "since"} = {}
    /\ DOMAIN Defaults(<<"federation-trust", "create">>) \cap {"audiences", "expires", "since"} = {"audiences"}
    /\ DOMAIN Defaults(<<"instance", "lease">>) \cap {"audiences", "expires", "since"} = {"expires"}
    /\ DOMAIN Defaults(<<"evidence">>) \cap {"audiences", "expires", "since"} = {"since"}
    /\ Required(<<"instance", "lease">>) = {"expires"}
<1>1. \A path \in {<<"suspend">>, <<"revoke">>, <<"blueprint", "register">>, <<"blueprint", "list">>} :
        DOMAIN Defaults(path) \cap {"audiences", "expires", "since"} = {}
  BY DEF Defaults
<1>2. DOMAIN Defaults(<<"federation-trust", "create">>) \cap {"audiences", "expires", "since"} = {"audiences"}
  BY DEF Defaults
<1>3. DOMAIN Defaults(<<"instance", "lease">>) \cap {"audiences", "expires", "since"} = {"expires"}
  BY DEF Defaults
<1>4. DOMAIN Defaults(<<"evidence">>) \cap {"audiences", "expires", "since"} = {"since"}
  BY DEF Defaults
<1>5. Required(<<"instance", "lease">>) = {"expires"}
  BY DEF Required
<1>. QED BY <1>1, <1>2, <1>3, <1>4, <1>5

LEMMA FromLastFlag ==
    ASSUME IInv, Next, result = Running, fs # << >>,
           AtFlags(typed, args, fs, flags, server, Len(typed.settings) + 1)
    PROVE  IInv'
<1> DEFINE n == Len(typed.settings)
           t == typed
<1>1. /\ IsTyped(t) /\ fs = t.path /\ fs \in FlagSets
      /\ args = Left(t)[n + 1] \o Operands(t)
      /\ HasRead(t, n + 1, fs, flags, server)
  BY DEF IInv, TypeInv, AtFlags
<1>2. args = Operands(t)
  BY <1>1, NoFlagsLeft
<1>3. ~Flagged /\ Arguments = t.rest
  BY <1>1, <1>2, OperandsFacts, ArgumentsAre
<1>4. CommandStep
  BY <1>3, OnlyCommand
<1>5. AllRead(t, flags) /\ server = ServerOf(t)
  <2>1. /\ flags = [m \in DOMAIN Defaults(t.path) |-> flags[m]] /\ server = ServerOf(t)
        /\ \A m \in DOMAIN Defaults(t.path) : IsValue(t, n + 1, m, flags[m])
    BY <1>1 DEF HasRead
  <2>2. \A m \in DOMAIN Defaults(t.path) : flags[m] = ValueOf(t, m)
    BY <1>1, <2>1, ValueAtLast
  <2>. QED BY <2>1, <2>2 DEF AllRead
<1>6. \A i \in 1 .. n : Accepted(t, i)
  <2>1. Settled(t, n + 1) /\ n \in Nat
    BY <1>1, LeftFacts DEF HasRead
  <2>2. (n + 1) - 1 = n
    BY <2>1
  <2>. QED BY <2>1, <2>2 DEF Settled
<1>7. t.path \in Commands
  BY <1>1 DEF Commands
<1>8. Enough <=> Len(t.rest) \in Arity(t.path) /\ RequiredGiven(t)
  <2>1. \A m \in Required(t.path) : flags[m] = ValueOf(t, m)
    BY <1>1, <1>5, RequiredAreFlags DEF AllRead
  <2>. QED BY <1>1, <1>3, <2>1 DEF Enough, Given, RequiredGiven
<1>9. Complete(t) <=> Enough /\ TimesRead(t)
  BY <1>1, <1>6, <1>7, <1>8, CompleteIs
<1>. HIDE DEF n, t
<1>10. ASSUME NEW code, ~Complete(t), End(Exit(code)) PROVE IInv'
  BY <1>10, ExitSuits, EndStep DEF t
<1>11. ASSUME NEW path, NEW values, CallIfEnough(path, values), Enough => TimesRead(t),
              Meant(t) = Call(t.path, t.rest, values, ServerOf(t))
       PROVE  IInv'
  <2>1. CASE Enough
    <3>1. End(Meant(t))
      BY <1>1, <1>3, <1>5, <1>11, <2>1 DEF CallIfEnough, CallWith
    <3>2. Complete(t)
      BY <1>9, <1>11, <2>1
    <3>. QED BY <3>1, <3>2, MeantSuits, EndStep DEF t
  <2>2. CASE ~Enough
    <3>1. End(Exit(2))
      BY <1>11, <2>2 DEF CallIfEnough, usage
    <3>. QED BY <1>9, <1>10, <2>2, <3>1
  <2>. QED BY <2>1, <2>2
<1>12. ASSUME DOMAIN Defaults(t.path) \cap {"audiences", "expires", "since"} = {}, CallIfEnough(t.path, flags)
       PROVE  IInv'
  <2>1. "audiences" \notin DOMAIN Defaults(t.path) /\ TimesRead(t)
    BY <1>12 DEF TimesRead
  <2>2. Meant(t) = Call(t.path, t.rest, flags, ServerOf(t))
    BY <1>5, <2>1, MeantRead
  <2>. QED BY <1>11, <1>12, <2>1, <2>2
<1>13. CASE \E path \in {<<"suspend">>, <<"revoke">>} : ReasonParsed(path)
  <2>1. PICK c \in {<<"suspend">>, <<"revoke">>} : ReasonParsed(c)
    BY <1>13
  <2>2. CallIfEnough(c, flags) /\ c = t.path
    BY <1>1, <2>1 DEF ReasonParsed, CallIfEnough, Parsed
  <2>. QED BY <1>12, <2>1, <2>2, CommandFlags
<1>14. CASE RegisterBlueprint
  <2>1. CallIfEnough(<<"blueprint", "register">>, flags) /\ <<"blueprint", "register">> = t.path
    BY <1>1, <1>14 DEF RegisterBlueprint, CallIfEnough, Parsed
  <2>. QED BY <1>12, <2>1, CommandFlags
<1>15. CASE ListBlueprints
  <2>1. CallIfEnough(<<"blueprint", "list">>, flags) /\ <<"blueprint", "list">> = t.path
    BY <1>1, <1>15 DEF ListBlueprints, CallIfEnough, Parsed
  <2>. QED BY <1>12, <2>1, CommandFlags
<1>16. CASE createFederationTrust
  <2>1. /\ CallIfEnough(<<"federation-trust", "create">>, [flags EXCEPT !["audiences"] = splitCSV(@)])
        /\ <<"federation-trust", "create">> = t.path
    BY <1>1, <1>16 DEF createFederationTrust, CallIfEnough, Parsed
  <2>2. "audiences" \in DOMAIN Defaults(t.path) /\ TimesRead(t)
    BY <2>1, CommandFlags DEF TimesRead
  <2>3. Meant(t) = Call(t.path, t.rest, [flags EXCEPT !["audiences"] = splitCSV(@)], ServerOf(t))
    BY <1>5, <2>2, MeantRead
  <2>. QED BY <1>11, <2>1, <2>2, <2>3
<1>17. CASE LeaseInstance
  <2>1. t.path = <<"instance", "lease">>
    BY <1>1, <1>17 DEF LeaseInstance, Parsed
  <2>2. /\ "expires" \in DOMAIN Defaults(t.path) /\ "audiences" \notin DOMAIN Defaults(t.path)
        /\ DOMAIN Defaults(t.path) \cap {"expires", "since"} = {"expires"}
    BY <2>1, CommandFlags
  <2>3. flags["expires"] = ValueOf(t, "expires")
    BY <1>5, <2>2 DEF AllRead
  <2>4. TimesRead(t) <=> (flags["expires"] # Blank => IsTime(flags["expires"]))
    BY <2>2, <2>3 DEF TimesRead
  <2>5. Enough => flags["expires"] # Blank
    BY <1>1, <2>1, CommandFlags DEF Enough, Given
  <2>6. CASE Enough /\ ~IsTime(flags["expires"])
    <3>1. End(Exit(1))
      BY <1>17, <2>6 DEF LeaseInstance
    <3>. QED BY <1>9, <1>10, <2>4, <2>5, <2>6, <3>1
  <2>7. CASE ~(Enough /\ ~IsTime(flags["expires"]))
    <3>1. CallIfEnough(t.path, flags)
      BY <1>17, <2>1, <2>7 DEF LeaseInstance
    <3>2. Meant(t) = Call(t.path, t.rest, flags, ServerOf(t))
      BY <1>5, <2>2, MeantRead
    <3>. QED BY <1>11, <2>4, <2>7, <3>1, <3>2
  <2>. QED BY <2>6, <2>7
<1>18. CASE evidenceSince
  <2>1. t.path = <<"evidence">>
    BY <1>1, <1>18 DEF evidenceSince, Parsed
  <2>2. /\ "since" \in DOMAIN Defaults(t.path) /\ "audiences" \notin DOMAIN Defaults(t.path)
        /\ DOMAIN Defaults(t.path) \cap {"expires", "since"} = {"since"}
    BY <2>1, CommandFlags
  <2>3. flags["since"] = ValueOf(t, "since")
    BY <1>5, <2>2 DEF AllRead
  <2>4. TimesRead(t) <=> (flags["since"] # Blank => IsTime(flags["since"]))
    BY <2>2, <2>3 DEF TimesRead
  <2>5. CASE Given({"since"}) /\ ~IsTime(flags["since"])
    <3>1. End(Exit(1))
      BY <1>18, <2>5 DEF evidenceSince
    <3>2. ~TimesRead(t)
      BY <2>4, <2>5 DEF Given
    <3>. QED BY <1>9, <1>10, <3>1, <3>2
  <2>6. CASE ~(Given({"since"}) /\ ~IsTime(flags["since"]))
    <3>1. End(Call(t.path, t.rest, flags, ServerOf(t)))
      BY <1>1, <1>3, <1>5, <1>18, <2>6 DEF evidenceSince, CallWith
    <3>2. Meant(t) = Call(t.path, t.rest, flags, ServerOf(t))
      BY <1>5, <2>2, MeantRead
    <3>3. t.path \in Ignoring
      BY <2>1 DEF Ignoring
    <3>4. Suits(t, Call(t.path, t.rest, flags, ServerOf(t)))
      BY <3>2, <3>3, ExemptSuits
    <3>. QED BY <3>1, <3>4, EndStep DEF t
  <2>. QED BY <2>5, <2>6
<1>. QED BY <1>4, <1>13, <1>14, <1>15, <1>16, <1>17, <1>18 DEF CommandStep

\* Operands come first: the flags after them are operands too.
LEMMA FromOperands ==
    ASSUME IInv, Next, result = Running, AtOperands(typed, args, fs)
    PROVE  IInv'
<1> DEFINE t == typed
<1>1. /\ IsTyped(t) /\ fs = t.path /\ fs \in FlagSets /\ ~Straight(t) /\ args = Body(t)
      /\ t.layout = "operands first" /\ t.rest # << >> /\ t.settings # << >>
  BY DEF IInv, TypeInv, AtOperands, Straight
<1>2. ~Flagged /\ Arguments = Body(t)
  <2>1. t.rest \in Seq(Arg) /\ OnlyWords(t.rest) /\ Left(t)[1] \in Seq(Arg)
    BY <1>1, RestFacts, BodyIsArguments
  <2>2. args = t.rest \o Left(t)[1]
    BY <1>1 DEF Body
  <2>. QED BY <1>1, <2>1, <2>2, WordsFirst, ArgumentsAre
<1>3. CASE fs = << >>
  BY <1>1, <1>2, <1>3, FromMainsEnd
<1>4. CASE fs # << >>
  <2>1. CommandStep
    BY <1>2, <1>4, OnlyCommand
  <2>2. \E i \in DOMAIN Body(t) : Body(t)[i] \notin Words
    BY <1>1, BodyIs
  <2>3. ASSUME NEW code, End(Exit(code)) PROVE IInv'
    BY <1>1, <2>3, ExitSuits, EndStep
  <2>4. ASSUME NEW values, CallWith(values) PROVE IInv'
    <3>1. End(Call(fs, Body(t), values, server))
      BY <1>2, <2>4 DEF CallWith
    <3>2. Suits(t, Call(fs, Body(t), values, server))
      BY <1>1, <2>2, ExemptSuits
    <3>. QED BY <3>1, <3>2, EndStep
  <2>5. ASSUME NEW path, NEW values, CallIfEnough(path, values) PROVE IInv'
    BY <2>3, <2>4, <2>5 DEF CallIfEnough, usage
  <2>6. CASE \E path \in {<<"suspend">>, <<"revoke">>} : ReasonParsed(path)
    BY <2>5, <2>6 DEF ReasonParsed
  <2>7. CASE createFederationTrust
    BY <2>5, <2>7 DEF createFederationTrust
  <2>8. CASE LeaseInstance
    BY <2>3, <2>5, <2>8 DEF LeaseInstance
  <2>9. CASE evidenceSince
    BY <2>3, <2>4, <2>9 DEF evidenceSince
  <2>10. CASE RegisterBlueprint
    BY <2>5, <2>10 DEF RegisterBlueprint
  <2>11. CASE ListBlueprints
    BY <2>5, <2>11 DEF ListBlueprints
  <2>. QED BY <2>1, <2>6, <2>7, <2>8, <2>9, <2>10, <2>11 DEF CommandStep
<1>. QED BY <1>3, <1>4

LEMMA InitAt ==
    ASSUME Init
    PROVE  IInv
<1>1. TypeInv /\ result = Running /\ IsTyped(typed)
  BY InitInv DEF TypeInv
<1>2. fs = << >> /\ args = CommandLine(typed) /\ flags = Defaults(<< >>) /\ << >> \in FlagSets
  BY DEF Init, FlagSets
<1>3. CASE typed.server # Nothing
  <2>1. AtServer(typed, args, fs)
    BY <1>2, <1>3 DEF AtServer
  <2>. QED BY <1>1, <2>1 DEF IInv, At
<1>4. CASE typed.server = Nothing
  <2>1. args = CommandWords(typed.path) \o Body(typed)
    <3>1. /\ CommandLine(typed) = ServerPart(typed) \o (CommandWords(typed.path) \o Body(typed))
          /\ CommandWords(typed.path) \o Body(typed) \in Seq(Arg)
      BY <1>1, CommandLineIs, BodyIsArguments, Concat
    <3>2. ServerPart(typed) = << >>
      BY <1>4 DEF ServerPart
    <3>. QED BY <1>2, <3>1, <3>2, ConcatEmptySeq
  <2>2. CASE typed.path # << >>
    <3>1. flags["server"] = ServerOf(typed)
      BY <1>2, <1>4 DEF Defaults, ServerOf
    <3>2. AtCommand(typed, args, fs, flags)
      BY <1>2, <2>1, <2>2, <3>1 DEF AtCommand
    <3>. QED BY <1>1, <3>2 DEF IInv, At
  <2>3. CASE typed.path = << >>
    <3>1. CommandWords(typed.path) = << >>
      BY <2>3 DEF CommandWords
    <3>2. args = Body(typed)
      BY <1>1, <2>1, <3>1, BodyIsArguments, ConcatEmptySeq
    <3>3. At(typed, Body(typed), typed.path, flags, server)
      BY <1>1, <1>2, <2>3, AtBody
    <3>. QED BY <1>1, <1>2, <2>3, <3>2, <3>3 DEF IInv
  <2>. QED BY <2>2, <2>3
<1>. QED BY <1>3, <1>4

LEMMA Step ==
    IInv /\ [Next]_vars => IInv'
<1>. SUFFICES ASSUME IInv, [Next]_vars PROVE IInv'
  OBVIOUS
<1>1. CASE Next
  <2>1. result = Running
    <3>1. ~(result # Running /\ main)
      BY DEF main, Plain, ListFederationTrusts, lifecycleWithReason, Evidence, WithFlags, NoCommand, Named, Parsed
    <3>2. \A path, values : result # Running => ~CallIfEnough(path, values)
      BY DEF CallIfEnough, Parsed
    <3>3. result # Running => ~LeaseInstance /\ ~evidenceSince /\ ~ParseOne
      BY DEF LeaseInstance, evidenceSince, Parsed, ParseOne
    <3>. QED BY <1>1, <3>1, <3>2, <3>3
         DEF Next, ReasonParsed, createFederationTrust, RegisterBlueprint, ListBlueprints
  <2>2. IsTyped(typed) /\ At(typed, args, fs, flags, server)
    BY <2>1 DEF IInv, TypeInv
  <2>3. CASE AtServer(typed, args, fs)
    BY <1>1, <2>1, <2>3, FromServer
  <2>4. CASE AtCommand(typed, args, fs, flags)
    BY <1>1, <2>1, <2>4, FromCommand
  <2>5. ASSUME NEW i \in 1 .. Len(typed.settings) + 1, AtFlags(typed, args, fs, flags, server, i)
        PROVE  IInv'
    <3>1. CASE i \in 1 .. Len(typed.settings)
      BY <1>1, <2>1, <2>5, <3>1, FromFlags
    <3>2. CASE i = Len(typed.settings) + 1
      <4>1. CASE fs # << >>
        BY <1>1, <2>1, <2>5, <3>2, <4>1, FromLastFlag
      <4>2. CASE fs = << >>
        <5>1. fs = typed.path /\ args = Operands(typed)
          BY <2>2, <2>5, <3>2, NoFlagsLeft DEF AtFlags
        <5>2. ~Flagged /\ Arguments = typed.rest
          BY <2>2, <5>1, OperandsFacts, ArgumentsAre
        <5>. QED BY <1>1, <2>1, <4>2, <5>1, <5>2, FromMainsEnd
      <4>. QED BY <4>1, <4>2
    <3>3. i \in 1 .. Len(typed.settings) \/ i = Len(typed.settings) + 1
      <4>1. Len(typed.settings) \in Nat
        BY <2>2, LeftFacts, Zenon
      <4>. QED BY <4>1
    <3>. QED BY <3>1, <3>2, <3>3
  <2>6. CASE AtOperands(typed, args, fs)
    BY <1>1, <2>1, <2>6, FromOperands
  <2>. QED BY <2>2, <2>3, <2>4, <2>5, <2>6 DEF At
<1>2. CASE UNCHANGED vars
  BY <1>2, TypeStep DEF vars, IInv
<1>. QED BY <1>1, <1>2

LEMMA Invariant == Spec => []IInv
<1>1. Init => IInv
  BY InitAt
<1>. QED BY <1>1, Step, PTL DEF Spec

\* "Flags precede the agent id" (main.go:246, and the usage text): whatever a
\* complete command's flags are, however they are written and in whatever
\* order, the command that parses them (main.go:127-266) makes the call that
\* was meant.
THEOREM FlagsFirst == Spec => []FlagsFirstReachesCall
<1>1. IInv => FlagsFirstReachesCall
  BY DEF IInv, Suits, FlagsFirstReachesCall
<1>. QED BY <1>1, Invariant, PTL

\* The counts of arguments, the required flags and the conversions that each
\* command checks before its call (main.go:18-266) are enough: no command but
\* evidence and federation-trust list makes a call that was not meant, unless
\* a flag was taken for an operand.
THEOREM NothingButMeant == Spec => []NoCallUnlessMeant
<1>1. IInv => NoCallUnlessMeant
  <2>1. Running.end # "call"
    BY DEF Running
  <2>. QED BY <2>1 DEF IInv, Suits, Exempt, Ignoring, NoCallUnlessMeant
<1>. QED BY <1>1, Invariant, PTL
=============================================================================
