--------------------------- MODULE MCInterpreter ---------------------------
(***************************************************************************)
(* Interpreter on all short programs over a few words, and what a program  *)
(* means, word by word: a definition is its text, local variables are a    *)
(* map from names, and a call performs the text at once.                   *)
(***************************************************************************)
EXTENDS Interpreter

Word(string) == [kind |-> "generic", string |-> string]
Words(strings) == [i \in DOMAIN strings |-> Word(strings[i])]
Numeral(i) == [kind |-> "int", string |-> ToString(i), int_value |-> i]

\* A path in quotes, its segments, and the file that it means.
String(string, path, file) == [kind |-> "string", string |-> string, path |-> path, file |-> file]

Absolute(segments) == [is_absolute |-> TRUE, segment_stack |-> segments]
MainFile == Absolute(<<"home", "main">>)
LibFile == Absolute(<<"home", "std", "lib">>)
BaseFile == Absolute(<<"home", "std", "base">>)
Files == {MainFile, LibFile, BaseFile}
Frames == 1 .. 5

\* inet-forth run ../main ./../std/base /home/std/../main   in /home/work
WorkingDirectory == Absolute(<<"home", "work">>)
Arguments == <<<<"..", "main">>, <<".", "..", "std", "base">>,
               <<"", "home", "std", "..", "main">>>>
FilesMeant == <<MainFile, BaseFile, MainFile>>
PrincipalNames == {"value!", "target!"}

\* define twice dup end   define nothing end
BaseText == Words(<<"define", "twice", "dup", "end", "define", "nothing", "end">>)

\* import twice "../std/base"   define both ( x y ) y x twice end
LibText == Words(<<"import", "twice">>) \o <<String("../std/base", <<"..", "std", "base">>, BaseFile)>>
           \o Words(<<"define", "both", "(", "x", "y", ")", "y", "x", "twice", "end">>)

\* 1 define get import drop end   get both "./std//lib"   import nothing "/std/base"
\* (A path that begins with a slash begins beside the file all the same.)
MainImports == <<Numeral(1)>>
               \o Words(<<"define", "get", "import", "drop", "end", "get", "both">>)
               \o <<String("./std//lib", <<".", "std", "", "lib">>, LibFile)>> \o Words(<<"import", "nothing">>)
               \o <<String("/std/base", <<"", "std", "base">>, BaseFile)>>

Phrases == {Words(s) : s \in {<<"drop">>, <<"swap">>, <<"both">>, <<"nothing">>, <<"(", "x", ")">>,
                              <<"(", "x", "x", ")">>, <<"x">>, <<"f">>, <<"true">>}}
           \union {<<Numeral(3)>>}

Bodies == {FlattenSeq(s) : s \in UNION {[1 .. n -> Phrases] : n \in 0 .. 3}}

\* 1 2 define f <body> end f f : every body of up to three phrases.
DefineAndCall(body) ==
    <<Numeral(1), Numeral(2)>> \o Words(<<"define", "f">>) \o body \o Words(<<"end", "f", "f">>)

\* Words at the top level of the file, among them some that take tokens.
TopLevel ==
    {<<Numeral(1), Numeral(2)>> \o FlattenSeq(s) :
        s \in [1 .. 3 -> {Words(<<"both">>), Words(<<"(", "x", ")">>), Words(<<"x">>),
                          Words(<<"define", "d", "define", "end">>), Words(<<"d", "x", "swap", "end">>),
                          Words(<<"define">>), Words(<<"import", "twice">>), <<String("../home/std/base", <<"..", "home", "std", "base">>, BaseFile)>>,
                          <<String("nowhere", <<"nowhere">>, Nowhere)>>, Words(<<"(">>)}]}

\* Words on nodes, `make` standing for `define-node`: constructors and rules that
\* are there, that are not, and that are defined twice.
NodeText == Words(<<"define", "make", "define-node", "end", "make", "zero", "--", "value!", "end",
                    "define-node", "add", "target!", "addend", "--", "result", "end">>)
NodeWords ==
    {FlattenSeq(s) :
        s \in [1 .. 3 -> {Words(<<"define-rule", "zero", "add", "dup", "end">>),
                          Words(<<"define-rule", "add", "zero", "zero", "end">>),
                          Words(<<"define-rule", "add", "add", "(", "x", ")", "x", "end">>),
                          Words(<<"define-rule", "add", "make", "end">>),
                          Words(<<"define-rule", "zero">>), Words(<<"zero">>), Words(<<"add">>),
                          Words(<<"drop">>), <<Numeral(1)>>,
                          Words(<<"make", "sub", "a", "--", "b", "--", "c", "d", "end">>),
                          Words(<<"sub">>)}]}

\* Numbers at the ends of what a word can hold (WORD_SIZE is 11), and words on
\* them: i j op and what becomes of the result, or the values 1 2 3 in disorder.
Numbers == {-128, -127, -1, 0, 1, 100, 127}

Arithmetic ==
    {<<Numeral(i), Numeral(j), Word(op)>> \o Words(after) :
        i \in Numbers, j \in Numbers, op \in IntWords \union {"eq"},
        after \in {<<>>, <<"ok">>, <<"dup", "isub">>}}
    \union {Words(<<p, q, op>>) \o after :
        p \in {"true", "false"}, q \in {"true", "false"}, op \in {"and", "or", "eq", "iadd"},
        after \in {<<>>, Words(<<"not", "ok">>), <<Numeral(1), Word("or")>>, <<Numeral(1), Word("and")>>}}
    \union {<<Numeral(1), Numeral(2), Numeral(3)>> \o Words(shuffle) :
        shuffle \in [1 .. 3 -> StackWords \union {"isub", "print", "newline", "ok", "true", "not"}]}

\* "lib" imports this file, which imports "lib", itself or, by way of them, "main".
Circles ==
    {BaseText \o Words(<<"import", "both">>) \o <<String("lib", <<"lib">>, LibFile)>>,
     BaseText \o Words(<<"import">>) \o <<String("../std/base", <<"..", "std", "base">>, BaseFile)>>,
     Words(<<"import">>) \o <<String("../main", <<"..", "main">>, MainFile)>> \o BaseText}

File(main) == (MainFile :> main) @@ (LibFile :> LibText) @@ (BaseFile :> BaseText)

Programs ==
    {File(MainImports \o text) :
        text \in {DefineAndCall(body) : body \in Bodies} \union TopLevel}
    \union {File(NodeText \o <<Numeral(1)>> \o text) : text \in NodeWords}
    \union {File(text) : text \in Arithmetic}
    \union {[File(MainImports) EXCEPT ![BaseFile] = text] : text \in Circles}

-----------------------------------------------------------------------------
(* A meaning under construction: the tokens of the file under way, its       *)
(* stack, what is defined (file -> name -> value), the texts of functions,   *)
(* the ports of constructors, the rules in the order of their definition,    *)
(* the files under way, the stacks of the files loaded, and whether nothing  *)
(* has failed.                                                               *)

Fail(s) == [s EXCEPT !.ok = FALSE]
Whole(i) == <<"number", Nowhere, i>>
Truth(b) == <<"truth", Nowhere, b>>

\* What a value of the machine means.
Meant(v) ==
    IF v[1] # "word" THEN v
    ELSE IF is_xint(v[3]) THEN Whole(to_int64(v[3])) ELSE Truth(to_bool(v[3]))

PushValue(s, v) == [s EXCEPT !.values = Append(@, v)]
DefineName(s, m, name, v) ==
    IF name \in DOMAIN s.defs[m] THEN Fail(s)
    ELSE [s EXCEPT !.defs[m] = @ @@ (name :> v)]

\* The place of the first t that is written `string`, or 0.
Place(tokens, string) == SelectInSeq(tokens, LAMBDA t : t.string = string)

Names(tokens) == [i \in DOMAIN tokens |-> tokens[i].string]

\* The names of ( ... ) for the values on top, the first of a name that is
\* there twice.
Environment(names, values) ==
    [x \in Range(names) |->
        values[Len(values) - Len(names) + SelectInSeq(names, LAMBDA n : n = x)]]

\* A text can only be defined when all its words are known.
RECURSIVE AllKnown(_, _, _)
AllKnown(text, locals, defs) ==
    \/ text = <<>>
    \/ /\ Head(text).kind # "int" /\ Head(text).string = "("
       /\ LET close == Place(text, ")")
          IN  /\ close > 0
              /\ AllKnown(SubSeq(text, close + 1, Len(text)),
                          locals \union Range(Names(SubSeq(text, 2, close - 1))), defs)
    \/ /\ Head(text).string # "("
       /\ \/ Head(text).kind = "int"
          \/ Head(text).string \in locals \union DOMAIN defs
       /\ AllKnown(Tail(text), locals, defs)

RECURSIVE Perform(_, _, _, _, _), PerformFile(_, _)

\* `end` closes a definition wherever it is, but for inside ( ... ).
DefineMeaning(s, m) ==
    LET close == Place(Tail(s.rest), "end")
        text == SubSeq(s.rest, 2, close)
        f == Function(m, Head(s.rest).string)
    IN  IF s.rest = <<>> THEN Fail(s)
        ELSE IF close = 0 \/ ~AllKnown(text, {}, s.defs[m]) THEN Fail(s)
        ELSE DefineName([s EXCEPT !.rest = SubSeq(@, close + 2, Len(@)),
                                  !.texts = @ @@ (f :> text)],
                        m, Head(s.rest).string, f)

\* The definitions of the other file, and back to this one.
ImportMeaning(s, m) ==
    LET path == SelectInSeq(s.rest, LAMBDA t : t.kind # "generic")
        names == Names(SubSeq(s.rest, 1, path - 1))
        file == s.rest[path].file
        loaded == IF file \in DOMAIN s.stacks THEN s
                  ELSE PerformFile(file, [s EXCEPT !.rest = code[file], !.values = <<>>,
                                                   !.files = @ \union {file}])
        back == [loaded EXCEPT !.rest = SubSeq(s.rest, path + 1, Len(s.rest)),
                               !.values = s.values, !.files = s.files]
    IN  IF path = 0 \/ s.rest[path].kind # "string" \/ file \notin Module \/ file \in s.files
        THEN Fail(s)
        ELSE IF ~loaded.ok \/ ~(Range(names) \subseteq DOMAIN loaded.defs[file]) THEN Fail(s)
        ELSE FoldSeq(LAMBDA x, b : DefineName(b, m, x, loaded.defs[file][x]), back, names)

\* The ports are a picture: the inputs, dashes, the outputs.
DefineNodeMeaning(s, m) ==
    LET name == Head(s.rest).string
        text == Names(Tail(s.rest))
        end == SelectInSeq(text, LAMBDA x : x = "end")
        ports == SubSeq(text, 1, end - 1)
        dashes == {i \in DOMAIN ports : ports[i] = "--"}
        inputs == {i \in DOMAIN ports \ dashes : \A j \in dashes : i < j}
    IN  IF s.rest = <<>> \/ end = 0 THEN Fail(s)
        ELSE DefineName([s EXCEPT !.rest = SubSeq(@, end + 2, Len(@)),
                                  !.ports = @ @@ (NodeCtor(m, name) :>
                                      [inputs |-> [i \in inputs |-> ports[i]],
                                       outputs |-> Len(ports) - Cardinality(dashes \union inputs)])],
                        m, name, NodeCtor(m, name))

DefineRuleMeaning(s, m) ==
    LET names == Names(SubSeq(s.rest, 1, 2))
        close == Place(s.rest, "end")
        text == SubSeq(s.rest, 3, close - 1)
        ctors == {s.defs[m][x] : x \in Range(names) \intersect DOMAIN s.defs[m]}
    IN  IF \/ Len(s.rest) < 2 \/ close = 0
           \/ ~(Range(names) \subseteq DOMAIN s.defs[m])
           \/ ~(ctors \subseteq DOMAIN s.ports)
           \/ ~AllKnown(text, {}, s.defs[m])
        THEN Fail(s)
        ELSE [s EXCEPT !.rest = SubSeq(@, close + 1, Len(@)),
                       !.rules = Append(@, [ctors |-> ctors, text |-> Names(text)])]

\* A node takes its inputs off the stack, wires where it interacts.
NodeMeaning(s, v) ==
    LET inputs == s.ports[v].inputs
        rest == Len(s.values) - Cardinality(DOMAIN inputs)
        outputs == [i \in 1 .. s.ports[v].outputs |-> Wire]
    IN  IF \/ rest < 0 \/ Cardinality(DOMAIN inputs) + Len(outputs) > NODE_MAX_ARITY
           \/ \E i \in DOMAIN inputs :
                inputs[i] \in PrincipalName /\ s.values[rest + i] # Wire
        THEN Fail(s)
        ELSE [s EXCEPT !.values = SubSeq(@, 1, rest) \o outputs]

\* The nth value from the top.
FromTop(v, n) == v[Len(v) - n + 1]

StackMeaning(s, name) ==
    LET v == s.values
        n == Len(v)
        Without(k) == SubSeq(v, 1, n - k)
    IN  CASE name = "dup"  /\ n > 0 -> [s EXCEPT !.values = v \o <<v[n]>>]
          [] name = "drop" /\ n > 0 -> [s EXCEPT !.values = SubSeq(v, 1, n - 1)]
          [] name = "swap" /\ n > 1 ->
                 [s EXCEPT !.values = [v EXCEPT ![n] = v[n - 1], ![n - 1] = v[n]]]
          [] name = "rot" /\ n > 2 ->
                 [s EXCEPT !.values = Without(3) \o SubSeq(v, n - 1, n) \o <<FromTop(v, 3)>>]
          [] name = "over" /\ n > 1 -> PushValue(s, FromTop(v, 2))
          [] name = "tuck" /\ n > 1 ->
                 [s EXCEPT !.values = Without(2) \o <<v[n]>> \o SubSeq(v, n - 1, n)]
          [] OTHER -> Fail(s)

\* Numbers wrap around in the bits that are left of a word for them.
Wrapped(i) ==
    LET numbers == 2^(WORD_SIZE - 3)
    IN  CHOOSE j \in -(numbers \div 2) .. numbers \div 2 - 1 : (i - j) % numbers = 0

\* Rounded towards zero.
Ratio(i, j) ==
    LET between == {q \in -Magnitude(i) .. Magnitude(i) : Magnitude(q * j) <= Magnitude(i) /\ q * i * j >= 0}
    IN  CHOOSE q \in between : \A r \in between : Magnitude(r) <= Magnitude(q)

Exact(name, i, j) ==
    CASE name = "iadd" -> i + j
      [] name = "isub" -> i - j
      [] name = "imul" -> i * j
      [] name = "idiv" -> Ratio(i, j)
      [] name = "imod" -> i - Ratio(i, j) * j

PureMeaning(s, name) ==
    LET v == s.values
        n == Len(v)
        kind(k) == v[n - k + 1][1]
        top(k) == v[n - k + 1][3]
        Instead(k, value) == [s EXCEPT !.values = SubSeq(v, 1, n - k) \o <<value>>]
    IN  CASE name \in IntWords /\ n > 1 ->
                 IF kind(1) # "number" \/ kind(2) # "number" THEN Fail(s)
                 ELSE IF name \in {"idiv", "imod"} /\ top(1) = 0 THEN Fail(s)
                 ELSE Instead(2, Whole(Wrapped(Exact(name, top(2), top(1)))))
          [] name \in {"and", "or"} /\ n > 1 ->
                 IF kind(2) # "truth" THEN Fail(s)
                 ELSE IF top(2) = (name = "or") THEN Instead(2, v[n - 1])
                 ELSE IF kind(1) = "truth" THEN Instead(2, v[n]) ELSE Fail(s)
          [] name = "eq" /\ n > 1 -> Instead(2, Truth(v[n] = v[n - 1]))
          [] name = "not" /\ n > 0 -> IF kind(1) = "truth" THEN Instead(1, Truth(~top(1))) ELSE Fail(s)
          [] name = "ok" /\ n > 0 ->
                 IF v[n] = Truth(TRUE) THEN [s EXCEPT !.values = Front(v)] ELSE Fail(s)
          [] name = "print" /\ n > 0 -> s
          [] name = "newline" -> s
          [] OTHER -> Fail(s)

\* A value performed while m's file is under way.
ValueMeaning(s, m, v) ==
    CASE v[1] = "function" -> Perform(s.texts[v], v[2], <<>>, s, m)
      [] v = Primitive("define") -> DefineMeaning(s, m)
      [] v = Primitive("import") -> ImportMeaning(s, m)
      [] v = Primitive("define-node") -> DefineNodeMeaning(s, m)
      [] v = Primitive("define-rule") -> DefineRuleMeaning(s, m)
      [] v[1] = "node-ctor" -> NodeMeaning(s, v)
      [] v[1] = "primitive" /\ v[3] \in StackWords -> StackMeaning(s, v[3])
      [] v[1] = "primitive" /\ v[3] \in PureWords \union {"ok"} -> PureMeaning(s, v[3])
      [] OTHER -> PushValue(s, Meant(v))

\* The words of a text of the file `scope`.
Perform(text, scope, env, s, m) ==
    IF text = <<>> \/ ~s.ok THEN s
    ELSE LET t == Head(text)
             close == Place(text, ")")
             names == Names(SubSeq(text, 2, close - 1))
         IN  IF t.kind = "int"
             THEN Perform(Tail(text), scope, env, PushValue(s, Whole(Wrapped(t.int_value))), m)
             ELSE IF t.string = "("
             THEN IF close = 0 \/ Len(s.values) < Len(names) THEN Fail(s)
                  ELSE Perform(SubSeq(text, close + 1, Len(text)), scope,
                               Environment(names, s.values) @@ env,
                               [s EXCEPT !.values = SubSeq(@, 1, Len(@) - Len(names))], m)
             ELSE IF t.string \in DOMAIN env
             THEN Perform(Tail(text), scope, env, PushValue(s, env[t.string]), m)
             ELSE IF t.string \notin DOMAIN s.defs[scope] THEN Fail(s)
             ELSE Perform(Tail(text), scope, env, ValueMeaning(s, m, s.defs[scope][t.string]), m)

\* The words of a file; local variables at its top level last for one word.
PerformFile(m, s) ==
    IF s.rest = <<>> \/ ~s.ok THEN [s EXCEPT !.stacks = @ @@ (m :> s.values)]
    ELSE LET n == IF Head(s.rest).string # "(" THEN 1
                  ELSE IF Place(s.rest, ")") = 0 THEN Len(s.rest) ELSE Place(s.rest, ")")
         IN  PerformFile(m, Perform(SubSeq(s.rest, 1, n), m, <<>>,
                                    [s EXCEPT !.rest = SubSeq(@, n + 1, Len(@))], m))

\* Each file that the command line means, once.
Meaning ==
    FoldLeft(LAMBDA s, m : IF m \in DOMAIN s.stacks THEN s
                           ELSE PerformFile(m, [s EXCEPT !.rest = code[m], !.values = <<>>,
                                                         !.files = {m}]),
             [rest |-> <<>>, values |-> <<>>, defs |-> [m \in Module |-> Prelude],
              texts |-> <<>>, ports |-> <<>>, rules |-> <<>>,
              files |-> {}, stacks |-> <<>>, ok |-> TRUE],
             FilesMeant)

\* A program that comes to its end leaves on the stacks of its files what it
\* means, and one that fails, or comes to a string where a word is expected and
\* stays there, means nothing.
MeansWhatItSays ==
    Over \/ (\E m \in Module : AtString(m)) =>
        LET meaning == Meaning
            left(m) == [i \in DOMAIN worker[m].value_stack |-> Meant(worker[m].value_stack[i])]
        IN  IF status # "running" \/ ~Over THEN ~meaning.ok
            ELSE /\ meaning.ok
                 /\ global_mod_hash = DOMAIN meaning.stacks
                 /\ \A m \in global_mod_hash : left(m) = meaning.stacks[m]

\* The names of the values in a rule's body.
Reads(rule) == [i \in DOMAIN rule.opcodes |-> rule.opcodes[i].value[3]]

\* Two nodes that meet find, at every time, the same rule from either side, and in
\* the end the one that was defined first for their two constructors, whatever the
\* module and the order of the names in its definition, and none only when there
\* is none.  (connect_active_pair searches one constructor's rules, then the other's.)
FirstRuleIsFound ==
    /\ SameRuleEitherWay
    /\ Over /\ status = "running" =>
        LET rules == Meaning.rules
        IN  \A c, d \in DOMAIN node_ctor :
            LET found == connect_active_pair(c, d)
                meant == SelectSeq(rules, LAMBDA rule : rule.ctors = {c, d})
            IN  /\ found = NoRule <=> meant = <<>>
                /\ found # NoRule =>
                    SelectSeq(Reads(found), LAMBDA x : x # "")
                    = SelectSeq(Head(meant).text, LAMBDA x : x \notin {"(", "x", ")"})
=============================================================================
