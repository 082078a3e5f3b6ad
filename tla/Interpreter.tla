---------------------------- MODULE Interpreter ----------------------------
(***************************************************************************)
(* Loading a program: the modules of its files, each with a loader worker  *)
(* that takes the tokens of the file one by one, compiles each into a      *)
(* function of its own and runs that on its stacks (lang/load.c,           *)
(* lang/execute.c, lang/compile_one.c, core/worker_run_until.c,            *)
(* core/worker_apply.c, core/frame.c, prelude/*.c).                        *)
(*                                                                         *)
(* A name is looked up when it is compiled, so `define` can only call what *)
(* was there before.  `define` and `import` are words like others and take *)
(* the tokens they need while they run; an import loads another file in    *)
(* the middle of a step of this one.  A frame is taken off the return      *)
(* stack before its last opcode runs, and freed after it.                  *)
(*                                                                         *)
(* `define-node` and `define-rule` make the constructors and the rules that *)
(* InetRuntime reduces nets by; the nets themselves are InetRuntime's: here *)
(* a wire of whatever kind is just a wire.                                 *)
(***************************************************************************)
EXTENDS FiniteSets, Functions, SequencesExt, Path, TaggedValue

CONSTANTS
    Module,         \* the paths where there is a file
    Cwd,            \* the path of the working directory
    CommandLine,    \* the strings that name the files to run
    Texts,          \* what they may contain: functions Module -> Seq(token)
    PrincipalName,  \* the names that end in "!"
    NODE_MAX_ARITY,
    FrameId         \* bound of the frames alive at once: 1 .. some number

ASSUME TextAssumption ==
    \A text \in Texts : \A m \in Module : text[m] \in Seq(Range(text[m]))

ASSUME FrameAssumption == FrameId \subseteq Nat \ {0} /\ IsFiniteSet(FrameId)

VARIABLES
    code,           \* the text of every module
    value_hash,     \* module -> name -> value
    global_mod_hash,\* the modules that are loaded
    loading,        \* the calls of load_mod under way, the innermost last
    worker,         \* module -> its loader worker
    argv,           \* what is left of the command line
    functions,      \* function -> its opcodes
    node_ctor,      \* constructor -> its arities, principal ports and rule array
    frames,         \* FrameId -> frame, or FREE
    status          \* "running", or how the process ended early

mods == <<code, value_hash, global_mod_hash, loading, argv>>
vars == <<mods, worker, functions, node_ctor, frames, status>>

\* Values are <<kind, module, name>>, with this for no module in particular, or
\* <<"word", Nowhere, word>>.
Nowhere == path_new(<<>>)

NULL == <<"null", Nowhere, "">>
Immediate(w) == <<"word", Nowhere, w>>
Wire == <<"wire", Nowhere, "">>
Primitive(name) == <<"primitive", Nowhere, name>>
Function(m, name) == <<"function", m, name>>
NodeCtor(m, name) == <<"node-ctor", m, name>>

is_node_ctor(value) == value[1] = "node-ctor"

\* The function that execute_generic makes of one token, and destroys.
Scratch(m) == <<"scratch", m, "">>

\* import_prelude: the words that act on the stack, that are functions of the
\* values on top, and that take tokens.
StackWords == {"dup", "drop", "swap", "rot", "over", "tuck"}
IntWords == {"iadd", "isub", "imul", "idiv", "imod"}
PureWords == IntWords \union {"eq", "and", "or", "not", "print", "newline"}
TokenWords == {"define", "import", "define-node", "define-rule"}
Prelude ==
    [name \in StackWords \union PureWords \union TokenWords \union {"ok", "true", "false"} |->
        CASE name = "true"  -> Immediate(xtrue)
          [] name = "false" -> Immediate(xfalse)
          [] OTHER          -> Primitive(name)]

\* The function f, and x mapped to y if it was not mapped.
With(f, x, y) == [z \in DOMAIN f \union {x} |-> IF z \in DOMAIN f THEN f[z] ELSE y]

NoFrame == 0
FREE == [function |-> NULL, cursor |-> 0, variables |-> <<>>]
NotImporting == [module |-> Nowhere, names |-> <<>>, frame |-> NoFrame]

NewWorker(m) == [token_list |-> code[m], value_stack |-> <<>>, return_stack |-> <<>>,
                 import |-> NotImporting]

Init ==
    /\ code \in Texts
    /\ value_hash = [m \in Module |-> Prelude]
    /\ global_mod_hash = {}
    /\ loading = <<>>
    /\ argv = CommandLine
    /\ worker = [m \in Module |-> NewWorker(m)]
    /\ functions = <<>>
    /\ node_ctor = <<>>
    /\ frames = [f \in FrameId |-> FREE]
    /\ status = "running"

-----------------------------------------------------------------------------
(* Compiling.  A compilation is [tokens, opcodes, locals, status]; the hash  *)
(* of local indices is the sequence of the names in the order of indices.    *)

Opcode(op, value, index) == [op |-> op, value |-> value, index |-> index]

Compilation(tokens) == [tokens |-> tokens, opcodes |-> <<>>, locals |-> <<>>, status |-> "running"]

\* The first token is replaced by opcodes.
Emit(c, opcodes) == [c EXCEPT !.tokens = Tail(@), !.opcodes = @ \o opcodes]

IndexOf(locals, name) == SelectInSeq(locals, LAMBDA x : x = name)

\* Fault: a name that is bound again gets a new place, and the old one is read.
Bound_Anew(c, name) ==
    [c EXCEPT !.locals = Append(@, name),
              !.opcodes = Append(@, Opcode("set variable", NULL, Len(c.locals) + 1))]

\* One name of ( ... ), which keeps its place when it is bound again.
Bound(c, name) ==
    LET locals == IF Contains(c.locals, name) THEN c.locals ELSE Append(c.locals, name)
    IN  [c EXCEPT !.locals = locals,
                  !.opcodes = Append(@, Opcode("set variable", NULL, IndexOf(locals, name)))]

\* ( x y ) : the last name takes the top of the stack.
compile_bind(c) ==
    LET close == SelectInSeq(c.tokens, LAMBDA t : t.string = ")")
        after[i \in 0 .. close - 2] ==
            IF i = 0 THEN [c EXCEPT !.tokens = SubSeq(@, close + 1, Len(@))]
            ELSE Bound(after[i - 1], c.tokens[close - i].string)
    IN  IF close = 0 THEN [c EXCEPT !.status = "abort"] ELSE after[close - 2]

\* Names are looked up in the local variables, then in the definitions.
compile_generic(definitions, c) ==
    LET name == Head(c.tokens).string
        value == definitions[name]
        callable == value[1] \in {"function", "primitive", "node-ctor"}
    IN  CASE Contains(c.locals, name) ->
                 Emit(c, <<Opcode("get variable", NULL, IndexOf(c.locals, name))>>)
          [] ~Contains(c.locals, name) /\ name \in DOMAIN definitions ->
                 Emit(c, <<Opcode("literal", value, 0)>>
                         \o IF callable THEN <<Opcode("apply", NULL, 0)>> ELSE <<>>)
          [] OTHER -> [c EXCEPT !.status = "exit"]

compile_one(definitions, c) ==
    LET t == Head(c.tokens)
    IN  CASE t.kind = "int" -> Emit(c, <<Opcode("literal", Immediate(xint(t.int_value)), 0)>>)
          [] t.kind # "int" /\ t.string = "(" -> compile_bind(c)
          [] OTHER -> compile_generic(definitions, c)

\* compile_function: compile_one until `end`; each takes a token at least.
compile_function(definitions, tokens) ==
    LET over(c) == c.status # "running" \/ c.tokens = <<>> \/ Head(c.tokens).string = "end"
        after[i \in 0 .. Len(tokens)] ==
            IF i = 0 THEN Compilation(tokens)
            ELSE LET d == after[i - 1]
                 IN  IF over(d) THEN d ELSE compile_one(definitions, d)
        c == after[Len(tokens)]
    IN  IF c.status # "running" THEN c
        ELSE IF c.tokens = <<>> THEN [c EXCEPT !.status = "abort"]
        ELSE [c EXCEPT !.tokens = Tail(@)]

-----------------------------------------------------------------------------
(* Running.                                                                *)

\* m's worker is the one that runs; it may be in the middle of a function.
Running(m) == status = "running" /\ loading # <<>> /\ Last(loading) = m
InFunction(m) == Scratch(m) \in DOMAIN functions

\* exit(1), or an assertion that fails: nothing is done any more.
Stop(how) ==
    /\ status' = how
    /\ UNCHANGED <<mods, worker, functions, node_ctor, frames>>

Become(m, self) == worker' = [worker EXCEPT ![m] = self]

Finished(f) == frames[f].cursor = Len(functions[frames[f].function])

\* frame_new, of a function that has these opcodes.
NewFrame(function, opcodes) ==
    [function |-> function, cursor |-> 0,
     variables |-> [i \in {opcodes[j].index : j \in DOMAIN opcodes} |-> NULL]]

FreeFrames == {f \in FrameId : frames[f] = FREE}
First(S) == CHOOSE f \in S : \A g \in S : f <= g

ExecuteInt(m) ==
    LET self == worker[m]
        t == Head(self.token_list)
    IN  /\ Running(m) /\ ~InFunction(m) /\ self.token_list # <<>> /\ t.kind = "int"
        /\ Become(m, [self EXCEPT !.token_list = Tail(@),
                                  !.value_stack = Append(@, Immediate(xint(t.int_value)))])
        /\ UNCHANGED <<mods, functions, node_ctor, frames, status>>

\* execute_generic up to the loop: a function of one token, and its frame.
ExecuteGeneric(m) ==
    LET self == worker[m]
        c == compile_one(value_hash[m], Compilation(self.token_list))
    IN  /\ Running(m) /\ ~InFunction(m)
        /\ self.token_list # <<>> /\ Head(self.token_list).kind = "generic"
        /\ IF c.status # "running" THEN Stop(c.status)
           ELSE /\ FreeFrames # {}
                /\ functions' = With(functions, Scratch(m), c.opcodes)
                /\ frames' = [frames EXCEPT ![First(FreeFrames)] = NewFrame(Scratch(m), c.opcodes)]
                /\ Become(m, [self EXCEPT !.token_list = c.tokens,
                                          !.return_stack = <<First(FreeFrames)>>])
                /\ UNCHANGED <<mods, node_ctor, status>>

\* ... and after it: function_destroy.
EndGeneric(m) ==
    /\ Running(m) /\ InFunction(m) /\ worker[m].return_stack = <<>>
    /\ worker[m].import = NotImporting
    /\ functions' = Restrict(functions, DOMAIN functions \ {Scratch(m)})
    /\ UNCHANGED <<mods, worker, node_ctor, frames, status>>

-----------------------------------------------------------------------------
(* One step of a function (worker_run_one_step).                           *)

Top(m) == Last(worker[m].return_stack)

InStep(m) == Running(m) /\ worker[m].return_stack # <<>>

\* The frame of a function without opcodes.
EndFrame(m) ==
    /\ InStep(m) /\ Finished(Top(m))
    /\ frames' = [frames EXCEPT ![Top(m)] = FREE]
    /\ Become(m, [worker[m] EXCEPT !.return_stack = Front(@)])
    /\ UNCHANGED <<mods, functions, node_ctor, status>>

Fetch(m) == functions[frames[Top(m)].function][frames[Top(m)].cursor + 1]

\* Fault: frames are only taken off the stack when the next step finds them there.
IsLast_Never(m) == FALSE
IsLast(m) == frames[Top(m)].cursor + 1 = Len(functions[frames[Top(m)].function])

\* m's worker is about to run an opcode of this kind.
At(m, op) == InStep(m) /\ ~Finished(Top(m)) /\ Fetch(m).op = op

\* proper tail-call = do not push finished frame.
Left(m) == IF IsLast(m) THEN Front(worker[m].return_stack) ELSE worker[m].return_stack

\* Fault: the frame of the last opcode is not freed.
Advanced_Leaks(m) == [frames EXCEPT ![Top(m)].cursor = @ + 1]
\* What the step leaves of the frame: it is destroyed after its last opcode.
Advanced(m) ==
    IF IsLast(m) THEN [frames EXCEPT ![Top(m)] = FREE]
    ELSE [frames EXCEPT ![Top(m)].cursor = @ + 1]

\* The opcode changes the value stack alone.
Values(m, value_stack) ==
    /\ frames' = Advanced(m)
    /\ Become(m, [worker[m] EXCEPT !.return_stack = Left(m), !.value_stack = value_stack])
    /\ UNCHANGED <<mods, functions, node_ctor, status>>

Literal(m) ==
    /\ At(m, "literal")
    /\ Values(m, Append(worker[m].value_stack, Fetch(m).value))

GetVariable(m) ==
    /\ At(m, "get variable")
    /\ Values(m, Append(worker[m].value_stack, frames[Top(m)].variables[Fetch(m).index]))

\* stack_pop of an empty stack fails an assertion.
SetVariable(m) ==
    LET values == worker[m].value_stack
        f == Top(m)
    IN  /\ At(m, "set variable")
        /\ IF values = <<>> THEN Stop("abort")
           ELSE /\ frames' = IF IsLast(m) THEN Advanced(m)
                             ELSE [Advanced(m) EXCEPT
                                      ![f].variables[Fetch(m).index] = Last(values)]
                /\ Become(m, [worker[m] EXCEPT !.return_stack = Left(m),
                                               !.value_stack = Front(values)])
                /\ UNCHANGED <<mods, functions, node_ctor, status>>

\* The opcode is the application of v, which it takes off the stack.
Applies(m, v) ==
    /\ At(m, "apply")
    /\ v = Last(worker[m].value_stack)

ApplyFunction(m) ==
    \E v \in DOMAIN functions :
        /\ Applies(m, v)
        /\ FreeFrames # {}
        /\ frames' = [Advanced(m) EXCEPT ![First(FreeFrames)] = NewFrame(v, functions[v])]
        /\ Become(m, [worker[m] EXCEPT !.return_stack = Append(Left(m), First(FreeFrames)),
                                       !.value_stack = Front(@)])
        /\ UNCHANGED <<mods, functions, node_ctor, status>>

\* How many values a word finds on the stack, at least.
InputArity(name) ==
    CASE name \in {"newline"}                            -> 0
      [] name \in {"dup", "drop", "not", "print"}        -> 1
      [] name \in {"rot"}                                -> 3
      [] OTHER                                           -> 2

\* The values that the word takes off the stack, the top last.
Args(m, name) ==
    LET values == Front(worker[m].value_stack)
    IN  SubSeq(values, Len(values) - InputArity(name) + 1, Len(values))

\* It leaves `results` instead; an assertion fails when there are too few
\* values, or they are not accepted.
Replaces(m, name, accepted, results) ==
    LET values == Front(worker[m].value_stack)
        rest == Len(values) - InputArity(name)
    IN  /\ Applies(m, Primitive(name))
        /\ IF rest < 0 \/ ~accepted THEN Stop("abort")
           ELSE Values(m, SubSeq(values, 1, rest) \o results)

\* x_dup, x_drop, x_swap, x_rot, x_over, x_tuck.
ApplyStackWord(m) ==
    \E name \in StackWords :
        LET a == Args(m, name)
        IN  Replaces(m, name, TRUE,
                CASE name = "dup"  -> <<a[1], a[1]>>
                  [] name = "drop" -> <<>>
                  [] name = "swap" -> <<a[2], a[1]>>
                  [] name = "rot"  -> <<a[2], a[3], a[1]>>
                  [] name = "over" -> <<a[1], a[2], a[1]>>
                  [] name = "tuck" -> <<a[2], a[1], a[2]>>)

IsInt(v) == v[1] = "word" /\ is_xint(v[3])
IsBool(v) == v[1] = "word" /\ is_xbool(v[3])

\* The functions of value/*.c.  A division by zero ends the process, too, and
\* && and || do not look at their second operand when the first one decides.
Accepts(name, a) ==
    CASE name \in IntWords ->
            /\ IsInt(a[1]) /\ IsInt(a[2])
            /\ name \in {"idiv", "imod"} => to_int64(a[2][3]) # 0
      [] name \in {"and", "or"} ->
            IsBool(a[1]) /\ (IsBool(a[2]) \/ (to_bool(a[1][3]) <=> name = "or"))
      [] name = "not" -> IsBool(a[1])
      [] OTHER -> TRUE

Results(name, a) ==
    CASE name \in IntWords -> <<Immediate(xint_op(name, to_int64(a[1][3]), to_int64(a[2][3])))>>
      [] name \in {"and", "or"} ->
            <<Immediate(xbool_op(name, to_bool(a[1][3]), a[2] = Immediate(xtrue)))>>
      [] name = "not" -> <<Immediate(xbool(~to_bool(a[1][3])))>>
      [] name = "eq"  -> <<Immediate(xbool(a[1] = a[2]))>>
      [] name = "print" -> <<a[1]>>
      [] name = "newline" -> <<>>

\* worker_apply_primitive, for a function of C: NULL is not pushed.
ApplyPureWord(m) ==
    \E name \in PureWords :
        LET a == Args(m, name) IN Replaces(m, name, Accepts(name, a), Results(name, a))

\* x_ok: what is not true ends the process.
ApplyOk(m) ==
    LET values == Front(worker[m].value_stack)
    IN  /\ Applies(m, Primitive("ok"))
        /\ IF values = <<>> \/ ~IsBool(Last(values)) THEN Stop("abort")
           ELSE IF ~to_bool(Last(values)[3]) THEN Stop("exit")
           ELSE Values(m, Front(values))

-----------------------------------------------------------------------------
(* Words that take tokens.                                                 *)

\* Fault: a definition is in force while it is compiled.
InForce_Early(m, name) == With(value_hash[m], name, Function(m, name))
InForce(m, name) == value_hash[m]

\* x_define_function.  `define` asserts that the name is new.
ApplyDefine(m) ==
    LET self == worker[m]
        name == Head(self.token_list).string
        c == compile_function(InForce(m, name), Tail(self.token_list))
    IN  /\ Applies(m, Primitive("define"))
        /\ IF self.token_list = <<>> THEN Stop("abort")
           ELSE IF c.status # "running" THEN Stop(c.status)
           ELSE IF name \in DOMAIN value_hash[m] THEN Stop("abort")
           ELSE /\ functions' = With(functions, Function(m, name), c.opcodes)
                /\ value_hash' = [value_hash EXCEPT ![m] = With(@, name, Function(m, name))]
                /\ frames' = Advanced(m)
                /\ Become(m, [self EXCEPT !.token_list = c.tokens, !.return_stack = Left(m),
                                          !.value_stack = Front(@)])
                /\ UNCHANGED <<code, global_mod_hash, loading, argv, node_ctor, status>>

\* The end of import: m gets the names of the imported module, one after the other,
\* up to the first that the module does not have or that m has already.
Imported(m, names, target) ==
    LET unknown(i) == names[i] \notin DOMAIN value_hash[target]
        taken(i) == \/ names[i] \in DOMAIN value_hash[m]
                    \/ \E j \in 1 .. i - 1 : names[j] = names[i]
        stops == {i \in DOMAIN names : unknown(i) \/ taken(i)}
    IN  IF stops = {} THEN "running"
        ELSE IF unknown(Min(stops)) THEN "exit" ELSE "abort"

WithNames(m, names, target) ==
    [value_hash EXCEPT ![m] =
        [name \in DOMAIN @ \union Range(names) |->
            IF name \in DOMAIN @ THEN @[name] ELSE value_hash[target][name]]]

\* The file that m means by a string: beside m, even when the string is absolute.
TargetOf(m, string) ==
    path_join(path_join(path_copy(m), <<"..">>), path_string(path_new(string)))

\* x_import: names up to a string, the file.  One that is loaded is only looked
\* up; another is loaded before the step goes on, and the frame is kept that
\* long if this is its last opcode.  A file that is being loaded is not there
\* yet, and is loaded again, inside itself, until the C stack is full.
ApplyImport(m) ==
    LET self == worker[m]
        tokens == self.token_list
        path == SelectInSeq(tokens, LAMBDA t : t.kind # "generic")
        names == [i \in 1 .. path - 1 |-> tokens[i].string]
        target == TargetOf(m, tokens[path].path)
        after == [self EXCEPT !.token_list = SubSeq(@, path + 1, Len(@)),
                              !.return_stack = Left(m), !.value_stack = Front(@)]
    IN  /\ Applies(m, Primitive("import"))
        /\ IF path = 0 \/ tokens[path].kind = "int" \/ target \notin Module THEN Stop("exit")
           ELSE IF target \in global_mod_hash
           THEN IF Imported(m, names, target) # "running"
                THEN Stop(Imported(m, names, target))
                ELSE /\ value_hash' = WithNames(m, names, target)
                     /\ frames' = Advanced(m)
                     /\ Become(m, after)
                     /\ UNCHANGED <<code, global_mod_hash, loading, argv, functions, node_ctor, status>>
           ELSE IF target \in Range(loading) THEN Stop("overflow")
           ELSE /\ loading' = Append(loading, target)
                /\ Become(m, [after EXCEPT !.import = [module |-> target, names |-> names,
                                 frame |-> IF IsLast(m) THEN Top(m) ELSE NoFrame]])
                /\ frames' = [frames EXCEPT ![Top(m)].cursor = @ + 1]
                /\ UNCHANGED <<code, value_hash, global_mod_hash, argv, functions, node_ctor, status>>

\* The innermost file is at its end.
AtEnd(m) == Running(m) /\ ~InFunction(m) /\ worker[m].token_list = <<>>

\* load_mod keeps the module and returns to the import that asked for it.
EndImport(target) ==
    LET m == loading[Len(loading) - 1]
        import == worker[m].import
    IN  /\ AtEnd(target) /\ Len(loading) > 1
        /\ IF Imported(m, import.names, target) # "running"
           THEN Stop(Imported(m, import.names, target))
           ELSE /\ loading' = Front(loading)
                /\ global_mod_hash' = global_mod_hash \union {target}
                /\ value_hash' = WithNames(m, import.names, target)
                /\ frames' = [f \in FrameId |-> IF f = import.frame THEN FREE ELSE frames[f]]
                /\ Become(m, [worker[m] EXCEPT !.import = NotImporting])
                /\ UNCHANGED <<code, argv, functions, node_ctor, status>>

\* A file of the command line is at its end.
EndFile(m) ==
    /\ AtEnd(m) /\ Len(loading) = 1
    /\ loading' = <<>>
    /\ global_mod_hash' = global_mod_hash \union {m}
    /\ UNCHANGED <<code, value_hash, argv, worker, functions, node_ctor, frames, status>>

\* The next file of the command line, if it is not loaded already.
RunFile ==
    LET path == path_resolve(Cwd, Head(argv))
    IN  /\ status = "running" /\ loading = <<>> /\ argv # <<>>
        /\ IF path \notin Module THEN Stop("exit")
           ELSE /\ argv' = Tail(argv)
                /\ loading' = IF path \in global_mod_hash THEN <<>> ELSE <<path>>
                /\ UNCHANGED <<code, value_hash, global_mod_hash, worker, functions,
                               node_ctor, frames, status>>

-----------------------------------------------------------------------------
(* Nodes and rules.                                                        *)

\* port_info_from_name, for the names before `--` and those after it.
NodePorts(names) ==
    LET dashes == SelectInSeq(names, LAMBDA x : x = "--")
        ports == SelectSeq(names, LAMBDA x : x # "--")
        inputs == IF dashes = 0 THEN Len(names) ELSE dashes - 1
        outputs == {i \in DOMAIN names : dashes \in 1 .. i /\ names[i] # "--"}
    IN  [input_arity |-> inputs, output_arity |-> Cardinality(outputs),
         principal |-> {i \in DOMAIN ports : ports[i] \in PrincipalName},
         rule_array |-> <<>>]

\* x_define_node: a name, and ports up to `end`.
ApplyDefineNode(m) ==
    LET self == worker[m]
        tokens == self.token_list
        name == Head(tokens).string
        end == SelectInSeq(Tail(tokens), LAMBDA t : t.string = "end")
        names == [i \in 1 .. end - 1 |-> tokens[i + 1].string]
    IN  /\ Applies(m, Primitive("define-node"))
        /\ IF tokens = <<>> THEN Stop("abort")
           ELSE IF name \in DOMAIN value_hash[m] THEN Stop("exit")
           ELSE IF end = 0 THEN Stop("abort")
           ELSE /\ node_ctor' = With(node_ctor, NodeCtor(m, name), NodePorts(names))
                /\ value_hash' = [value_hash EXCEPT ![m] = With(@, name, NodeCtor(m, name))]
                /\ frames' = Advanced(m)
                /\ Become(m, [self EXCEPT !.token_list = SubSeq(@, end + 2, Len(@)),
                                          !.return_stack = Left(m), !.value_stack = Front(@)])
                /\ UNCHANGED <<code, global_mod_hash, loading, argv, functions, status>>

\* Fault: only the first of the two constructors gets the rule.
mod_define_rule_First(left, right, rule) ==
    [node_ctor EXCEPT ![left].rule_array = Append(@, rule)]

\* Both constructors get the rule, or the one if they are the same.
mod_define_rule(left, right, rule) ==
    [c \in DOMAIN node_ctor |->
        IF c \in {left, right} THEN [node_ctor[c] EXCEPT !.rule_array = Append(@, rule)]
        ELSE node_ctor[c]]

\* x_define_rule: two names of constructors, and a body up to `end`.
ApplyDefineRule(m) ==
    LET self == worker[m]
        tokens == self.token_list
        known(i) == /\ tokens[i].string \in DOMAIN value_hash[m]
                    /\ is_node_ctor(value_hash[m][tokens[i].string])
        ctor(i) == value_hash[m][tokens[i].string]
        c == compile_function(value_hash[m], SubSeq(tokens, 3, Len(tokens)))
    IN  /\ Applies(m, Primitive("define-rule"))
        /\ IF Len(tokens) < 2 THEN Stop("abort")
           ELSE IF ~known(1) \/ ~known(2) THEN Stop("exit")
           ELSE IF c.status # "running" THEN Stop(c.status)
           ELSE /\ node_ctor' = mod_define_rule(ctor(1), ctor(2),
                       [left |-> ctor(1), right |-> ctor(2), opcodes |-> c.opcodes])
                /\ frames' = Advanced(m)
                /\ Become(m, [self EXCEPT !.token_list = c.tokens, !.return_stack = Left(m),
                                          !.value_stack = Front(@)])
                /\ UNCHANGED <<mods, functions, status>>

\* A node, as far as the stack can tell: a value for every input port, which
\* for a principal port must be a wire, and a wire for every output port.
\* (InetRuntime has what becomes of the net.)
ApplyNodeCtor(m) ==
    \E v \in DOMAIN node_ctor :
        LET values == Front(worker[m].value_stack)
            ctor == node_ctor[v]
            n == Len(values) - ctor.input_arity
        IN  /\ Applies(m, v)
            /\ IF \/ ctor.input_arity + ctor.output_arity > NODE_MAX_ARITY
                  \/ n < 0
                  \/ \E i \in ctor.principal \intersect 1 .. ctor.input_arity :
                        values[n + i] # Wire
               THEN Stop("abort")
               ELSE Values(m, SubSeq(values, 1, n)
                              \o [i \in 1 .. ctor.output_arity |-> Wire])

\* The rule that two connected nodes find: the first that matches them, of the rules
\* of the left one and then of those of the right one.
NoRule == [left |-> NULL, right |-> NULL, opcodes |-> <<>>]

connect_active_pair(left, right) ==
    LET rules == node_ctor[left].rule_array \o node_ctor[right].rule_array
        i == SelectInSeq(rules, LAMBDA rule : {rule.left, rule.right} = {left, right})
    IN  IF i = 0 THEN NoRule ELSE rules[i]

-----------------------------------------------------------------------------
\* A string among the words of a file: execute_one does not take it, and execute_all
\* tries it again.
AtString(m) ==
    /\ Running(m) /\ ~InFunction(m)
    /\ worker[m].token_list # <<>> /\ Head(worker[m].token_list).kind = "string"

RetryString(m) == AtString(m) /\ UNCHANGED vars

\* The process is at its end.
Over == (loading = <<>> /\ argv = <<>>) \/ status # "running"

\* A step that changes something can be taken: not at a string, and not with every
\* frame of the model in use.
CanGoOn == ~Over /\ FreeFrames # {} /\ \A m \in Module : ~AtString(m)

Ended == (Over \/ FreeFrames = {}) /\ UNCHANGED vars

Next ==
    \/ \E m \in Module :
        \/ ExecuteInt(m) \/ ExecuteGeneric(m) \/ EndGeneric(m)
        \/ EndFrame(m) \/ Literal(m) \/ GetVariable(m) \/ SetVariable(m)
        \/ ApplyFunction(m) \/ ApplyStackWord(m) \/ ApplyPureWord(m) \/ ApplyOk(m)
        \/ ApplyDefine(m) \/ ApplyImport(m)
        \/ ApplyDefineNode(m) \/ ApplyDefineRule(m) \/ ApplyNodeCtor(m)
        \/ EndImport(m) \/ EndFile(m) \/ RetryString(m)
    \/ RunFile
    \/ Ended

\* The process goes on while it can.  That is WF_vars(Next), with ENABLED
\* written out; a run that finds no deadlock shows that it is.
Fairness == []<>~CanGoOn \/ []<><<Next>>_vars

Spec == Init /\ [][Next]_vars /\ Fairness

-----------------------------------------------------------------------------
(* Properties.                                                             *)

\* The frames that somebody will still free: those on return stacks, and one
\* whose last opcode waits for an import.
Owners(f) ==
    UNION {{m} \X {i \in DOMAIN worker[m].return_stack \union {0} :
                      IF i = 0 THEN worker[m].import.frame = f
                      ELSE worker[m].return_stack[i] = f} : m \in Module}

\* No frame leaks, is freed twice or used after it: an allocated frame has one
\* owner and a free one none.  Its function is still there, in particular the
\* one that execute_generic destroys, and the variable it is about to read was
\* set before.
FramesAreOwned ==
    \A f \in FrameId :
        IF frames[f] = FREE THEN Owners(f) = {}
        ELSE /\ Cardinality(Owners(f)) = 1
             /\ frames[f].function \in DOMAIN functions
             /\ Finished(f)
                \/ LET op == functions[frames[f].function][frames[f].cursor + 1]
                   IN  op.op = "get variable" => frames[f].variables[op.index] # NULL

\* "proper tail-call = do not push finished frame" (worker_run_until.c:43): no
\* frame waits on a return stack with nothing left to do, but for one that has
\* just been pushed and never had anything.
TailCallsAreProper ==
    \A m \in Module : \A i \in DOMAIN worker[m].return_stack :
        LET f == worker[m].return_stack[i]
        IN  Finished(f) => i = Len(worker[m].return_stack) /\ frames[f].cursor = 0

\* Two nodes that meet find the same rule whichever of them is on the left, although
\* the rules of the left one are searched first: mod_define_rule leaves every rule at
\* both constructors, in the same order.
SameRuleEitherWay ==
    \A c, d \in DOMAIN node_ctor : connect_active_pair(c, d) = connect_active_pair(d, c)

\* The rule that two nodes find is the one that was defined first for them: it is
\* found as soon as it is defined, and nothing that is defined or imported later
\* changes it.
FirstRuleStays ==
    [][\A c, d \in DOMAIN node_ctor :
        IF connect_active_pair(c, d) # NoRule
        THEN connect_active_pair(c, d)' = connect_active_pair(c, d)
        ELSE connect_active_pair(c, d)' # NoRule =>
                connect_active_pair(c, d)' = Last(node_ctor'[c].rule_array)]_vars

\* A program can run for ever in one way only: at a string where a word is expected,
\* which execute_all (execute.c:57-61) tries again and again without taking it.  Every
\* other program comes to its end or fails, and never needs more frames than there
\* are: a definition can only call what was there before it, so that no call goes
\* round, and a file that imports itself in a circle overflows the C stack.
HaltsUnlessAtString == <>Over \/ <>[](\E m \in Module : AtString(m))
=============================================================================
