---------------------------- MODULE MCAutarkyVm ----------------------------
(***************************************************************************)
(* Integers of 4 bits, volumes of 3, a stack of 24 calls.  The texts are   *)
(* all programs of a few shapes over three atoms, recursive and diverging  *)
(* ones, and some that are no programs.  A program runs twice in a sense:  *)
(* in the machine, and by a reference evaluation without environments,     *)
(* which substitutes values for variables.                                 *)
(***************************************************************************)
EXTENDS AutarkyVm, AutarkyParser, TLC

Numbers == "0" :> 0 @@ "1" :> 1 @@ "2" :> 2 @@ "-1" :> -1 @@ "-8" :> -8
MCWords ==
  Keywords \cup DOMAIN Numbers \cup {"1.5", "x", "y", "f", "POLL", "SYS_COMPUTE", "SYS_CREDITS", "Bool", "junk"}
MCLiteral(word) ==
  IF word \in DOMAIN Numbers THEN {IntValue(Numbers[word])}
  ELSE IF word = "1.5" THEN {[kind |-> "float"]} ELSE {}
MCSeeds == "SYS_COMPUTE" :> IntValue(7) @@ "SYS_CREDITS" :> IntValue(5)
MCParse(text) == ParseText(text)

-----------------------------------------------------------------------------
(* Programs *)

N(word) == [op |-> "literal", value |-> CHOOSE v \in MCLiteral(word) : TRUE,
            names |-> <<>>, args |-> <<>>]
V(x) == Node("var", <<x>>, <<>>)
Two(op, l, r) == Node(op, <<>>, <<l, r>>)
App(f, a) == Two("app", f, a)
Lambda(x, b) == Node("lambda", <<x>>, <<b>>)
Let(x, v, b) == Node("let", <<x>>, <<v, b>>)
LetRec(f, v, b) == Node("letrec", <<f>>, <<v, b>>)
Unpack(x, y, p, b) == Node("unpack", <<x, y>>, <<p, b>>)
Match(e, x, l, y, r) == Node("match", <<x, y>>, <<e, l, r>>)

Atoms == {N("2"), V("x"), V("POLL")}
Small ==
  Atoms
    \cup {Two(op, l, r) : op \in {"sub", "div", "lt", "pair"}, l \in Atoms, r \in Atoms}
    \cup {Node(op, <<>>, <<a>>) : op \in {"left", "right"}, a \in Atoms}
    \cup {Lambda(x, Two("sub", V("x"), V("y"))) : x \in {"x", "y"}}
    \cup {Let("x", a, b) : a \in Atoms, b \in Atoms}

Scoping ==
  {Let("x", a, Let("f", Lambda("y", b), Let("x", c, App(V("f"), V("x"))))) :
     a \in Atoms, b \in Small, c \in Atoms}
    \cup {App(Lambda("x", b), v) : b \in Small, v \in Small}
    \cup {Unpack("x", "y", p, Two("sub", V("x"), V("y"))) : p \in Small}
    \cup {Unpack("x", "x", p, b) : p \in {Two("pair", N("2"), V("POLL"))}, b \in Small}

Choices ==
  {Match(e, "x", a, "y", b) : e \in Small, a \in Atoms, b \in {V("y"), N("1")}}
    \cup {Two(op, Let("x", N("-8"), a), N(n)) :
            op \in Arithmetic, a \in Atoms, n \in {"0", "1", "2", "-1", "-8", "1.5"}}

\* f(n) for n <= 0 is base, and for others op(step, f(n - 1)).
Recursive ==
  {LetRec("f", Lambda("x", Match(Two("le", V("x"), N("0")), "y", base, "y",
                                 Two(op, step, App(V("f"), Two("sub", V("x"), N("1")))))),
          App(V("f"), n)) :
     op \in {"add", "mul", "pair"}, base \in Atoms, step \in Atoms,
     n \in {N("2"), V("SYS_CREDITS"), V("POLL")}}

SelfApplied == Lambda("x", App(V("x"), V("x")))
Diverging == {App(SelfApplied, SelfApplied), LetRec("f", Lambda("x", App(V("f"), V("x"))), App(V("f"), N("1")))}

MCPrograms == Scoping \cup Choices \cup Recursive \cup Diverging

\* The words of a term, with or without a comma between the branches.
RECURSIVE Written(_, _)
Written(t, comma) ==
  LET P(i) == Written(t.args[i], comma)
  IN CASE t.op = "literal" -> <<CHOOSE w \in DOMAIN Numbers \cup {"1.5"} : MCLiteral(w) = {t.value}>>
       [] t.op = "var" -> t.names
       [] t.op \in BinaryWords -> <<t.op>> \o P(1) \o P(2)
       [] t.op \in {"left", "right"} ->
            <<IF t.op = "left" THEN "Left" ELSE "Right", "(">> \o P(1) \o <<")">>
       [] t.op = "lambda" -> <<"\\", t.names[1], ":", "Pair", "(", "Int", ",", "Any", ")", "->">> \o P(1)
       [] t.op = "app" -> <<"(", "(">> \o P(1) \o <<")">> \o P(2) \o <<")">>
       [] t.op = "let" -> <<"let", t.names[1], "=">> \o P(1) \o <<"in">> \o P(2)
       [] t.op = "letrec" -> <<"let", "rec", t.names[1], "=">> \o P(1) \o <<"in">> \o P(2)
       [] t.op = "unpack" -> <<"unpack", t.names[1], t.names[2], "=">> \o P(1) \o <<"in">> \o P(2)
       [] t.op = "match" ->
            <<"match">> \o P(1) \o <<"{", "Left", "(", t.names[1], ")", "=>">> \o P(2) \o comma
              \o <<"Right", "(", t.names[2], ")", "=>">> \o P(3) \o <<"}">>

\* Empty, a comment, a term too many, a term too few, an unknown type.
Malformed == {<<>>, <<"@">>, <<"1", "2">>, <<"add", "1">>, <<"\\", "x", ":", "Bool", "->", "x">>}

WithComment(t) == Written(t, <<",">>) \o <<"@", "junk">>
MCSources == {WithComment(t) : t \in MCPrograms} \cup {Written(t, <<>>) : t \in Recursive} \cup Malformed

RECURSIVE Subterms(_)
Subterms(t) == {t} \cup UNION {Subterms(t.args[i]) : i \in DOMAIN t.args}
MCTerms == UNION {Subterms(Parse(s).root) : s \in {s \in Sources : Parse(s).ok}}
MCValues == {t.value : t \in {t \in MCTerms : t.op = "literal"}} \cup {Seeds[x] : x \in DOMAIN Seeds}

\* What the proof of TypeOK asks of a parser.
ASSUME ProgramsAssumption == ProgramsOver(MCValues, MCTerms)

-----------------------------------------------------------------------------
(* The reference *)

\* Subterm i of t is under a binder of x.
Binds(t, i, x) ==
  \/ t.op = "lambda" /\ x = t.names[1]
  \/ t.op = "let" /\ i = 2 /\ x = t.names[1]
  \/ t.op = "letrec" /\ x = t.names[1]  \* a function, which it names too
  \/ t.op = "unpack" /\ i = 2 /\ x \in {t.names[1], t.names[2]}
  \/ t.op = "match" /\ i > 1 /\ x = t.names[i - 1]

Quoted(v) == [op |-> "literal", value |-> v, names |-> <<>>, args |-> <<>>]

RECURSIVE Subst(_, _, _)
Subst(t, x, v) ==
  IF t.op = "var" THEN (IF t.names[1] = x THEN Quoted(v) ELSE t)
  ELSE [t EXCEPT !.args = [i \in DOMAIN t.args |->
          IF Binds(t, i, x) THEN t.args[i] ELSE Subst(t.args[i], x, v)]]

\* The integer of the width that differs from n by rounds only, and the
\* quotient rounded to zero.
Wrapped(n) == CHOOSE m \in -(IntRange \div 2)..(IntRange \div 2 - 1) : (n - m) % IntRange = 0
Divided(a, b) ==
  CHOOSE q \in -IntRange..IntRange :
    /\ Abs(b * q) <= Abs(a) /\ Abs(a) - Abs(b * q) < Abs(b)
    /\ q # 0 => (q < 0 <=> (a < 0) # (b < 0))
Judged(holds) == [kind |-> IF holds THEN "left" ELSE "right", parts |-> <<[kind |-> "int", n |-> 0]>>]

Arith(op, a, b) ==
  CASE op = "add" -> [kind |-> "int", n |-> Wrapped(a + b)]
    [] op = "sub" -> [kind |-> "int", n |-> Wrapped(a - b)]
    [] op = "mul" -> [kind |-> "int", n |-> Wrapped(a * b)]
    [] op = "div" -> [kind |-> "int", n |-> Divided(a, b)]
    [] op = "eq" -> Judged(a = b)
    [] op = "gt" -> Judged(b < a)
    [] op = "lt" -> Judged(a < b)
    [] op = "ge" -> Judged(~(a < b))
    [] op = "le" -> Judged(~(b < a))

Of(v, ps) == [out |-> "value", value |-> v, polls |-> ps]
Bad == [out |-> "fault", value |-> NoValue, polls |-> <<>>]

\* What t evaluates to when the polls return ps.
RECURSIVE Meaning(_, _)
Meaning(t, ps) ==
  LET one == Meaning(t.args[1], ps)
      two == Meaning(t.args[2], one.polls)
      Into(x, v, b) == Subst(b, x, v)
  IN CASE t.op = "literal" -> Of(t.value, ps)
       [] t.op = "var" ->
            IF t.names[1] = "POLL" THEN Of(IntValue(Head(ps)), Tail(ps))
            ELSE IF t.names[1] \in DOMAIN Seeds THEN Of(Seeds[t.names[1]], ps) ELSE Bad
       [] t.op = "lambda" -> Of([kind |-> "function", param |-> t.names[1], body |-> t.args[1]], ps)
       [] one.out = "fault" -> Bad
       [] t.op \in {"left", "right"} -> Of([kind |-> t.op, parts |-> <<one.value>>], one.polls)
       [] t.op = "let" -> Meaning(Into(t.names[1], one.value, t.args[2]), one.polls)
       [] t.op = "letrec" ->
            Meaning(Into(t.names[1], [kind |-> "recursive", name |-> t.names[1], param |-> t.args[1].names[1],
                                      body |-> t.args[1].args[1]], t.args[2]), ps)
       [] t.op = "match" ->
            IF one.value.kind \notin {"left", "right"} THEN Bad
            ELSE LET i == IF one.value.kind = "left" THEN 1 ELSE 2
                 IN Meaning(Into(t.names[i], one.value.parts[1], t.args[i + 1]), one.polls)
       [] t.op = "unpack" ->
            IF one.value.kind # "pair" THEN Bad
            ELSE Meaning(Into(t.names[1], one.value.parts[1],
                              Into(t.names[2], one.value.parts[2], t.args[2])), one.polls)
       [] two.out = "fault" -> Bad
       [] t.op = "pair" -> Of([kind |-> "pair", parts |-> <<one.value, two.value>>], two.polls)
       [] t.op = "app" ->
            IF one.value.kind = "function"
            THEN Meaning(Into(one.value.param, two.value, one.value.body), two.polls)
            ELSE IF one.value.kind = "recursive"
            THEN Meaning(Into(one.value.name, one.value, Into(one.value.param, two.value, one.value.body)),
                         two.polls)
            ELSE Bad
       [] OTHER ->
            IF one.value.kind # "int" \/ two.value.kind # "int" THEN Bad
            ELSE IF t.op = "div" /\ two.value.n = 0 THEN Bad
            ELSE Of(Arith(t.op, one.value.n, two.value.n), two.polls)

\* What is seen of a value: a function shows nothing.
RECURSIVE Shown(_)
Shown(v) ==
  CASE v.kind \in {"closure", "function", "recursive"} -> "function"
    [] v.kind \in {"pair", "left", "right"} -> <<v.kind, [i \in DOMAIN v.parts |-> Shown(v.parts[i])]>>
    [] OTHER -> v

\* What the machine returns is what the program means: operands from left to
\* right, variables by the text around them, integers in their width, and a
\* poll of the network wherever the program says POLL.
EvaluatesAsMeant ==
  phase = "returned" /\ answer # "unwritten" =>
    LET meaning == Meaning(Parse(source).root, polled)
    IN /\ meaning.out = outcome
       /\ outcome = "value" => Shown(result) = Shown(meaning.value) /\ meaning.polls = <<>>

\* The parser builds the term that a programmer wrote, whatever types, comments
\* and optional commas the text has, and an early return is for malformed texts.
ParsesAsWritten ==
  /\ phase = "eval" /\ Len(stack) = 1 =>
       source \in {WithComment(stack[1].node), Written(stack[1].node, <<>>)}
  /\ phase = "returned" /\ answer = "unwritten" => source \in Malformed
=============================================================================
