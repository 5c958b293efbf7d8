---------------------------- MODULE AutarkyRules ----------------------------
(***************************************************************************)
(* What evaluate promises, as rules: how the value of a term follows from  *)
(* those of its parts, with the volumes polled on the way, and how a fault *)
(* of a part becomes one of the term.  Whatever Evaluates and Faults hold  *)
(* of, if they keep to the rules; the least such are what terms mean.      *)
(***************************************************************************)
EXTENDS AutarkyVm, AutarkyGrammar

CONSTANTS
  Evaluates(_, _, _, _),  \* a term, in an environment, polls the volumes, is the value
  Faults(_, _, _)         \* a term, in an environment, polls the volumes, and faults

Polls == Seq(Volumes)

-----------------------------------------------------------------------------
(* Terms without parts *)

LeafRules ==
  \A n, env :
    /\ n.op = "literal" => Evaluates(n, env, <<>>, n.value)
    /\ n.op = "lambda" =>
         Evaluates(n, env, <<>>, [kind |-> "closure", param |-> n.names[1], body |-> n.args[1],
                                  env |-> env, rec_name |-> NoName])
    /\ n.op = "var" /\ n.names[1] = "POLL" =>
         \A v \in Volumes : Evaluates(n, env, <<v>>, IntValue(v))
    /\ n.op = "var" /\ n.names[1] # "POLL" /\ n.names[1] \in DOMAIN env =>
         Evaluates(n, env, <<>>, env[n.names[1]])
    /\ n.op = "var" /\ n.names[1] # "POLL" /\ n.names[1] \notin DOMAIN env =>
         Faults(n, env, <<>>)

-----------------------------------------------------------------------------
(* Terms of which every part is evaluated where the term is *)

InjectionRule ==
  \A n, env, v : \A p \in Polls :
    n.op \in {"left", "right"} /\ Evaluates(n.args[1], env, p, v) =>
      Evaluates(n, env, p, [kind |-> n.op, parts |-> <<v>>])

PairRule ==
  \A n, env, v, w : \A p, q \in Polls :
    n.op = "pair" /\ Evaluates(n.args[1], env, p, v) /\ Evaluates(n.args[2], env, q, w) =>
      Evaluates(n, env, p \o q, [kind |-> "pair", parts |-> <<v, w>>])

\* Numbers of two kinds, or a division by zero; the smallest divided by -1 has
\* no meaning.
ArithmeticRule ==
  \A n, env, v, w : \A p, q \in Polls :
    n.op \in Arithmetic /\ Evaluates(n.args[1], env, p, v) /\ Evaluates(n.args[2], env, q, w) =>
      IF v.kind # "int" \/ w.kind # "int" \/ (n.op = "div" /\ w.n = 0)
      THEN Faults(n, env, p \o q)
      ELSE \/ n.op = "div" /\ w.n = -1 /\ v.n = -(IntRange \div 2)
           \/ Evaluates(n, env, p \o q, Compute(n.op, v.n, w.n))

-----------------------------------------------------------------------------
(* Terms with a body *)

\* The body b in the environment e behind p is what the term n comes to.
BodyDecides(n, env, p, b, e) ==
  \A q \in Polls :
    /\ \A v : Evaluates(b, e, q, v) => Evaluates(n, env, p \o q, v)
    /\ Faults(b, e, q) => Faults(n, env, p \o q)

LetRule ==
  \A n, env, v : \A p \in Polls :
    n.op = "let" /\ Evaluates(n.args[1], env, p, v) =>
      BodyDecides(n, env, p, n.args[2], Extend(env, n.names[1], v))

\* A function knows its own name; other values do not need it.
LetRecRule ==
  \A n, env, v : \A p \in Polls :
    n.op = "letrec" /\ Evaluates(n.args[1], env, p, v) =>
      BodyDecides(n, env, p, n.args[2], Extend(env, n.names[1],
        IF v.kind = "closure" THEN [v EXCEPT !.rec_name = n.names[1]] ELSE v))

MatchRule ==
  \A n, env, v : \A p \in Polls :
    n.op = "match" /\ Evaluates(n.args[1], env, p, v) =>
      /\ v.kind = "left" =>
           BodyDecides(n, env, p, n.args[2], Extend(env, n.names[1], v.parts[1]))
      /\ v.kind = "right" =>
           BodyDecides(n, env, p, n.args[3], Extend(env, n.names[2], v.parts[1]))
      /\ v.kind \notin {"left", "right"} => Faults(n, env, p)

UnpackRule ==
  \A n, env, v : \A p \in Polls :
    n.op = "unpack" /\ Evaluates(n.args[1], env, p, v) =>
      IF v.kind = "pair"
      THEN BodyDecides(n, env, p, n.args[2],
             Extend(Extend(env, n.names[1], v.parts[1]), n.names[2], v.parts[2]))
      ELSE Faults(n, env, p)

\* The body of a closure is evaluated where the closure was made, with its
\* parameter and, behind it, its own name.
AppRule ==
  \A n, env, c, v : \A p, q \in Polls :
    n.op = "app" /\ Evaluates(n.args[1], env, p, c) /\ Evaluates(n.args[2], env, q, v) =>
      /\ c.kind = "closure" /\ c.rec_name = NoName =>
           BodyDecides(n, env, p \o q, c.body, Extend(c.env, c.param, v))
      /\ c.kind = "closure" /\ c.rec_name # NoName =>
           BodyDecides(n, env, p \o q, c.body,
             Extend(Extend(c.env, c.param, v), c.rec_name, c))
      /\ c.kind # "closure" => Faults(n, env, p \o q)

-----------------------------------------------------------------------------
(* Faults *)

\* The fault of an operand is one of the term, and the operands behind it are
\* not evaluated.
OperandFaultRule ==
  \A n, env, v : \A p, q \in Polls :
    /\ Operands(n.op) >= 1 /\ Faults(n.args[1], env, p) => Faults(n, env, p)
    /\ Operands(n.op) = 2 /\ Evaluates(n.args[1], env, p, v) /\ Faults(n.args[2], env, q) =>
         Faults(n, env, p \o q)

Rules ==
  /\ LeafRules /\ InjectionRule /\ PairRule /\ ArithmeticRule
  /\ LetRule /\ LetRecRule /\ MatchRule /\ UnpackRule /\ AppRule
  /\ OperandFaultRule

\* What an execution answers, and commits, is what the rules say of the program
\* in the environment of every program, with the volumes that it polled.
EvaluatesByTheRules ==
  receipts # <<>> \/ answer # "unwritten" =>
    IF outcome = "value"
    THEN Evaluates(Parse(source).root, Seeds, polled, result)
    ELSE Faults(Parse(source).root, Seeds, polled)

\* A programmer who writes a text for a term of N gets what the rules say of
\* that term, and is answered if the execution returns: no such text is
\* rejected.
RunsAsWritten(N) ==
  \A t \in N : IsTextOf(N, source, t) =>
    /\ phase = "returned" => answer # "unwritten"
    /\ receipts # <<>> \/ answer # "unwritten" =>
         IF outcome = "value" THEN Evaluates(t, Seeds, polled, result) ELSE Faults(t, Seeds, polled)
=============================================================================
