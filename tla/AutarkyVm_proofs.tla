------------------------- MODULE AutarkyVm_proofs --------------------------
(***************************************************************************)
(* Proofs about the Autarky VM.  The evaluator: the calls in progress are  *)
(* lexically scoped, a receipt is committed exactly for what is answered   *)
(* as matched, integers keep their width, and what is answered is what the *)
(* rules of module AutarkyRules say of the program, whatever the programs  *)
(* and the size of the stack.  The parser: it reads from a text the one    *)
(* term that the grammar of module AutarkyGrammar writes it for.  Both     *)
(* together: a program does what its text says.                            *)
(***************************************************************************)
EXTENDS AutarkyRules, FiniteSetTheorems, WellFoundedInduction, SequenceTheorems, TLAPS

IsFrame(f) == f = [node |-> f.node, env |-> f.env, vals |-> f.vals]

\* The stack is a sequence of calls, each with its three parts.
StackShape ==
  /\ \E S : stack \in Seq(S)
  /\ \A i \in 1..Len(stack) : IsFrame(stack[i])

\* How far the execution is decides whether there is a receipt.
ReceiptSoFar ==
  /\ phase \in {"idle", "eval", "commit", "overrun"} => receipts = <<>>
  /\ phase = "commit" => outcome = "value"
  /\ receipts # <<>> => outcome = "value"
  /\ phase = "answer" => (outcome = "value" <=> receipts # <<>>)

-----------------------------------------------------------------------------
(* Receipts *)

ReceiptInv == ReceiptPerMatch /\ ReceiptSoFar

LEMMA ReceiptInit == Init => ReceiptInv
BY DEF Init, ReceiptInv, ReceiptPerMatch, ReceiptSoFar

LEMMA ReceiptNext == ReceiptInv /\ [Next]_vars => ReceiptInv'
<1> SUFFICES ASSUME ReceiptInv, [Next]_vars PROVE ReceiptInv'
  OBVIOUS
<1> USE DEF ReceiptInv, ReceiptPerMatch, ReceiptSoFar
<1>1. CASE Reject
  BY <1>1 DEF Reject
<1>2. CASE Start
  BY <1>2 DEF Start
<1>3. CASE Enter
  BY <1>3 DEF Enter, Running
<1>4. CASE Overflow
  BY <1>4 DEF Overflow, Running
<1>5. CASE Yield
  BY <1>5 DEF Yield, Running, Return
<1>6. CASE Poll
  BY <1>6 DEF Poll, Running, Return
<1>7. CASE Fault
  BY <1>7 DEF Fault, Running
<1>8. CASE Panic
  BY <1>8 DEF Panic, Running
<1>9. CASE Commit
  <2>1. receipts = <<>> /\ outcome = "value" /\ answer = "unwritten"
    BY <1>9 DEF Commit
  <2>2. receipts' = <<Volume(result)>>
    BY <1>9, <2>1 DEF Commit
  <2>3. receipts' # <<>>
    BY <2>2
  <2>4. QED
    BY <1>9, <2>1, <2>3 DEF Commit
<1>10. CASE WriteAnswer
  BY <1>10 DEF WriteAnswer
<1>11. CASE NoMemory
  BY <1>11 DEF NoMemory, Running
<1>12. CASE UNCHANGED vars
  BY <1>12 DEF vars
<1>13. QED
  BY <1>1, <1>2, <1>3, <1>4, <1>5, <1>6, <1>7, <1>8, <1>9, <1>10, <1>11, <1>12 DEF Next, Step

\* An execution is answered as matched exactly if it has committed a receipt,
\* whatever the program is and wherever memory or the stack runs out.
THEOREM ReceiptPerMatchHolds == Spec => []ReceiptPerMatch
<1>1. ReceiptInv => ReceiptPerMatch
  BY DEF ReceiptInv
<1>2. QED
  BY ReceiptInit, ReceiptNext, <1>1, PTL DEF Spec

-----------------------------------------------------------------------------
(* The stack *)

StackInv == StackShape /\ StackDiscipline

LEMMA StackInit == Init => StackInv
<1> SUFFICES ASSUME Init PROVE StackInv
  OBVIOUS
<1>1. stack = <<>> /\ Len(stack) = 0 /\ stack \in Seq({})
  BY DEF Init
<1>2. QED
  BY <1>1 DEF StackInv, StackShape, StackDiscipline

\* A new call is the one that its caller waits for.
LEMMA EnterStack == StackInv /\ Enter => StackInv'
<1> SUFFICES ASSUME StackInv, Enter PROVE StackInv'
  OBVIOUS
<1> DEFINE n == Len(stack)
           f == [node |-> NextCall(Top).node, env |-> NextCall(Top).env, vals |-> <<>>]
<1>1. PICK S : stack \in Seq(S)
  BY DEF StackInv, StackShape
<1>2. stack' = Append(stack, f) /\ n \in Nat /\ n > 0
  BY <1>1 DEF Enter, Running
<1>3. stack \in Seq(S \cup {f}) /\ f \in S \cup {f}
  BY <1>1
<1>4. /\ stack' \in Seq(S \cup {f}) /\ Len(stack') = n + 1
      /\ \A i \in 1..n : stack'[i] = stack[i]
      /\ stack'[n + 1] = f
  BY <1>2, <1>3
<1>5. NextCall(Top) = [node |-> NextCall(Top).node, env |-> NextCall(Top).env]
  BY DEF NextCall
<1>6. Top = stack[n]
  BY DEF Top
<1>7. IsFrame(f) /\ f.node = NextCall(Top).node /\ f.env = NextCall(Top).env
  BY DEF IsFrame
<1> HIDE DEF f, n
<1>8. \A i \in 1..(n + 1) : IsFrame(stack'[i])
  BY <1>2, <1>4, <1>7 DEF StackInv, StackShape, n
<1>9. \A i \in 1..n :
        [node |-> stack'[i + 1].node, env |-> stack'[i + 1].env] = NextCall(stack'[i])
  <2> SUFFICES ASSUME NEW i \in 1..n
               PROVE [node |-> stack'[i + 1].node, env |-> stack'[i + 1].env] = NextCall(stack'[i])
    OBVIOUS
  <2>1. CASE i = n
    <3>1. stack'[i] = Top /\ stack'[i + 1] = f
      BY <1>2, <1>4, <1>6, <2>1
    <3>2. QED
      BY <3>1, <1>5, <1>7
  <2>2. CASE i # n
    <3>1. i \in 1..(n - 1) /\ stack'[i] = stack[i] /\ stack'[i + 1] = stack[i + 1]
      BY <1>2, <1>4, <2>2
    <3>2. QED
      BY <3>1 DEF StackInv, StackDiscipline, n
  <2>3. QED
    BY <2>1, <2>2
<1>10. \E T : stack' \in Seq(T)
  BY <1>4
<1>11. Len(stack') - 1 = n
  BY <1>2, <1>4
<1>12. StackShape'
  BY <1>4, <1>8, <1>10 DEF StackShape
<1>13. StackDiscipline'
  BY <1>4, <1>9, <1>11 DEF StackDiscipline
<1>14. QED
  BY <1>12, <1>13 DEF StackInv

\* A call that returns leaves its caller's node and environment as they were.
LEMMA ReturnStack ==
  ASSUME StackInv, stack # <<>>, NEW v, Return(v)
  PROVE  StackInv'
<1> DEFINE n == Len(stack)
<1>1. PICK S : stack \in Seq(S)
  BY DEF StackInv, StackShape
<1>2. n \in Nat /\ n > 0
  BY <1>1
<1>3. CASE n = 1
  <2>1. stack' = <<>>
    BY <1>3 DEF Return
  <2>2. Len(stack') = 0 /\ stack' \in Seq({})
    BY <2>1
  <2>3. QED
    BY <2>2 DEF StackInv, StackShape, StackDiscipline
<1>4. CASE n # 1
  <2> HIDE DEF n
  <2> DEFINE g == [stack[n - 1] EXCEPT !.vals = Append(@, v)]
  <2>1. stack' = [i \in 1..(n - 1) |-> IF i = n - 1 THEN g ELSE stack[i]]
    BY <1>4 DEF Return, n
  <2>2. n - 1 \in Nat /\ n - 1 \in 1..n
    BY <1>2, <1>4
  <2>3. PICK a, b, c : stack[n - 1] = [node |-> a, env |-> b, vals |-> c]
    <3>1. IsFrame(stack[n - 1])
      BY <2>2 DEF StackInv, StackShape, n
    <3>2. QED
      BY <3>1 DEF IsFrame
  <2>4. g = [node |-> a, env |-> b, vals |-> Append(c, v)]
    BY <2>3
  <2>5. IsFrame(g) /\ g.node = stack[n - 1].node /\ g.env = stack[n - 1].env
    BY <2>3, <2>4 DEF IsFrame
  <2> HIDE DEF g
  <2>6. \A i \in 1..(n - 1) : stack'[i] \in S \cup {g}
    <3> SUFFICES ASSUME NEW i \in 1..(n - 1) PROVE stack'[i] \in S \cup {g}
      OBVIOUS
    <3>1. i \in 1..n /\ stack[i] \in S
      BY <1>1, <1>2 DEF n
    <3>2. QED
      BY <2>1, <3>1
  <2>7. stack' \in Seq(S \cup {g}) /\ Len(stack') = n - 1
    <3>1. stack' \in [1..(n - 1) -> S \cup {g}]
      BY <2>1, <2>6, Zenon
    <3>2. QED
      BY <2>2, <3>1
  <2>8. \A i \in 1..(n - 1) : IsFrame(stack'[i])
    <3> SUFFICES ASSUME NEW i \in 1..(n - 1) PROVE IsFrame(stack'[i])
      OBVIOUS
    <3>1. i \in 1..n /\ IsFrame(stack[i])
      BY <1>2 DEF StackInv, StackShape, n
    <3>2. QED
      BY <2>1, <2>5, <3>1
  <2>9. \A i \in 1..(n - 1 - 1) :
          [node |-> stack'[i + 1].node, env |-> stack'[i + 1].env] = NextCall(stack'[i])
    <3> SUFFICES ASSUME NEW i \in 1..(n - 1 - 1)
                 PROVE [node |-> stack'[i + 1].node, env |-> stack'[i + 1].env] = NextCall(stack'[i])
      OBVIOUS
    <3>1. i \in 1..(n - 1) /\ i + 1 \in 1..(n - 1) /\ i # n - 1
      BY <1>2
    <3>2. stack'[i] = stack[i]
      BY <2>1, <3>1
    <3>3. stack'[i + 1].node = stack[i + 1].node /\ stack'[i + 1].env = stack[i + 1].env
      BY <2>1, <2>5, <3>1
    <3>4. [node |-> stack[i + 1].node, env |-> stack[i + 1].env] = NextCall(stack[i])
      BY <3>1 DEF StackInv, StackDiscipline, n
    <3>5. QED
      BY <3>2, <3>3, <3>4
  <2>10. QED
    BY <2>7, <2>8, <2>9 DEF StackInv, StackShape, StackDiscipline
<1>5. QED
  BY <1>3, <1>4

LEMMA StackNext == StackInv /\ [Next]_vars => StackInv'
<1> SUFFICES ASSUME StackInv, [Next]_vars PROVE StackInv'
  OBVIOUS
<1>1. CASE UNCHANGED stack
  BY <1>1 DEF StackInv, StackShape, StackDiscipline
<1>2. CASE stack' = <<>>
  <2>1. Len(stack') = 0 /\ stack' \in Seq({})
    BY <1>2
  <2>2. QED
    BY <2>1 DEF StackInv, StackShape, StackDiscipline
<1>3. CASE Start
  <2> DEFINE f == [node |-> Parse(source').root, env |-> Seeds, vals |-> <<>>]
  <2>1. stack' = <<f>>
    BY <1>3 DEF Start
  <2>2. IsFrame(f)
    BY DEF IsFrame
  <2> HIDE DEF f
  <2>3. stack' \in Seq({f}) /\ Len(stack') = 1 /\ stack'[1] = f
    BY <2>1
  <2>4. QED
    BY <2>2, <2>3 DEF StackInv, StackShape, StackDiscipline
<1>4. CASE Enter
  BY <1>4, EnterStack
<1>5. CASE Yield
  BY <1>5, ReturnStack DEF Yield, Running
<1>6. CASE Poll
  <2>1. PICK v \in Volumes : Return(IntValue(v))
    BY <1>6 DEF Poll
  <2>2. stack # <<>>
    BY <1>6 DEF Poll, Running
  <2>3. QED
    BY <2>1, <2>2, ReturnStack
<1>7. QED
  BY <1>1, <1>2, <1>3, <1>4, <1>5, <1>6
     DEF Next, Step, Reject, Overflow, Fault, Panic, Commit, WriteAnswer, NoMemory, vars

\* Every call in progress is the one that its caller waits for, in the
\* environment that the caller's node and values determine.
THEOREM CallsAreScoped == Spec => []StackDiscipline
<1>1. StackInv => StackDiscipline
  BY DEF StackInv
<1>2. QED
  BY StackInit, StackNext, <1>1, PTL DEF Spec

-----------------------------------------------------------------------------
(* Terms and values *)

\* A call of a node from N, in an environment and with values from V.
FrameOver(f, V, N) ==
  f.node \in N /\ EnvOver(f.env, V) /\ f.vals \in Seq(V) /\ Len(f.vals) <= Operands(f.node.op) + 1

StackOver(V, N) == \A i \in 1..Len(stack) : FrameOver(stack[i], V, N)

\* The calls below the innermost one wait for an operand or for their body.
Waiting == \A i \in 1..(Len(stack) - 1) : Calls(stack[i])

Scalars ==
  /\ phase \in {"idle", "eval", "commit", "answer", "returned", "halted", "overrun"}
  /\ Len(stack) <= MaxFrames
  /\ outcome \in {"value", "fault"} /\ answer \in {"unwritten", "matched", "fault"}
  /\ Len(receipts) <= 1

\* Which values there are grows with the execution.
Grounded == \E V, N : ProgramsOver(V, N) /\ StackOver(V, N)

TypeInv == StackInv /\ ReceiptInv /\ Scalars /\ Waiting /\ Grounded

LEMMA WrapRange ==
  ASSUME NEW n \in Int
  PROVE  Wrap(n, IntRange) \in -(IntRange \div 2)..(IntRange - 1 - (IntRange \div 2))
<1>1. IntRange \in Nat \ {0} /\ IntRange \div 2 \in Int
  BY RangeAssumption
<1> DEFINE m == n + (IntRange \div 2)
<1>2. m \in Int
  BY <1>1
<1>3. (m % IntRange) \in 0..(IntRange - 1)
  <2> HIDE DEF m
  <2> QED
    BY <1>1, <1>2
<1> HIDE DEF m
<1> DEFINE r == m % IntRange
           h == IntRange \div 2
<1>4. Wrap(n, IntRange) = r - h
  BY DEF Wrap, m
<1> HIDE DEF r, h
<1>5. r \in 0..(IntRange - 1) /\ h \in Int
  BY <1>1, <1>3 DEF r, h
<1>6. r - h \in -h..(IntRange - 1 - h)
  BY <1>1, <1>5
<1> QED
  BY <1>4, <1>6 DEF h

\* Every result of the arithmetic is an integer of the width.
LEMMA IntValueOver ==
  ASSUME NEW n \in Int, NEW V, NEW N
  PROVE  ValueOver(IntValue(n), V, N)
<1>1. IntValue(n).kind = "int" /\ IntValue(n).n = Wrap(n, IntRange)
  BY DEF IntValue
<1>2. IntInRange(IntValue(n))
  BY <1>1, WrapRange DEF IntInRange
<1> QED
  BY <1>1, <1>2 DEF ValueOver

LEMMA QuotientInt ==
  ASSUME NEW a \in Int, NEW b \in Int, b # 0
  PROVE  Quotient(a, b) \in Int
<1> DEFINE p == Abs(a)
           q == Abs(b)
<1>1. p \in Nat /\ q \in Nat \ {0}
  BY DEF Abs
<1> HIDE DEF p, q
<1>2. p \div q \in Int
  BY <1>1
<1> DEFINE d == p \div q
<1>3. Quotient(a, b) = d \/ Quotient(a, b) = -d
  BY DEF Quotient, p, q
<1> HIDE DEF d
<1>4. d \in Int
  BY <1>2 DEF d
<1> QED
  BY <1>3, <1>4

\* What is over V stays over more values.
LEMMA Larger ==
  ASSUME NEW V, NEW N, NEW W, V \subseteq W
  PROVE  /\ \A v : ValueOver(v, V, N) => ValueOver(v, W, N)
         /\ \A e : EnvOver(e, V) => EnvOver(e, W)
         /\ \A n : NodeOver(n, V, N) => NodeOver(n, W, N)
         /\ \A f : FrameOver(f, V, N) => FrameOver(f, W, N)
<1>1. \A e : EnvOver(e, V) => EnvOver(e, W)
  BY DEF EnvOver
<1>2. \A v : ValueOver(v, V, N) => ValueOver(v, W, N)
  BY <1>1 DEF ValueOver
<1>3. \A n : NodeOver(n, V, N) => NodeOver(n, W, N)
  BY DEF NodeOver
<1>4. \A s : s \in Seq(V) => s \in Seq(W)
  <2> SUFFICES ASSUME NEW s, s \in Seq(V) PROVE s \in Seq(W)
    OBVIOUS
  <2>1. Len(s) \in Nat /\ s \in [1..Len(s) -> V]
    BY LenProperties
  <2>2. s \in [1..Len(s) -> W]
    BY <2>1
  <2> QED
    BY <2>1, <2>2
<1>5. \A f : FrameOver(f, V, N) => FrameOver(f, W, N)
  BY <1>1, <1>4 DEF FrameOver
<1> QED
  BY <1>1, <1>2, <1>3, <1>5

\* A value made of known values and nodes may join them.
LEMMA Join ==
  ASSUME NEW V, NEW N, NEW v, ProgramsOver(V, N), ValueOver(v, V, N)
  PROVE  /\ ProgramsOver(V \cup {v}, N)
         /\ StackOver(V, N) => StackOver(V \cup {v}, N)
<1> DEFINE W == V \cup {v}
<1>1. V \subseteq W
  OBVIOUS
<1> HIDE DEF W
<1>2. /\ \A u : ValueOver(u, V, N) => ValueOver(u, W, N)
      /\ \A e : EnvOver(e, V) => EnvOver(e, W)
      /\ \A n : NodeOver(n, V, N) => NodeOver(n, W, N)
      /\ \A f : FrameOver(f, V, N) => FrameOver(f, W, N)
  BY <1>1, Larger
<1>3. \A u \in W : ValueOver(u, W, N)
  BY <1>2 DEF W, ProgramsOver, Closed
<1>4. ProgramsOver(W, N)
  BY <1>2, <1>3 DEF ProgramsOver, Closed
<1>5. StackOver(V, N) => StackOver(W, N)
  BY <1>2 DEF StackOver
<1> QED
  BY <1>4, <1>5 DEF W

LEMMA ExtendOver ==
  ASSUME NEW env, NEW x, NEW v, NEW V, EnvOver(env, V), v \in V
  PROVE  EnvOver(Extend(env, x, v), V)
BY DEF EnvOver, Extend

\* The arguments that a call has are values of V, and it has as many as asked.
LEMMA Values ==
  ASSUME NEW V, NEW N, NEW f, FrameOver(f, V, N)
  PROVE  Len(f.vals) \in Nat /\ \A i \in 1..Len(f.vals) : f.vals[i] \in V
<1>1. f.vals \in Seq(V)
  BY DEF FrameOver
<1> QED
  BY <1>1, LenProperties

LEMMA OperandsArity ==
  ASSUME NEW op PROVE Operands(op) \in 0..2 /\ Operands(op) <= Arity(op)
BY DEF Operands, Arity, Arithmetic

\* A binder has evaluated what it binds.
LEMMA Bound ==
  ASSUME NEW V, NEW N, NEW f, FrameOver(f, V, N), ProgramsOver(V, N),
         f.node.op \in Binders, Len(f.vals) >= Operands(f.node.op)
  PROVE  /\ f.node \in N /\ EnvOver(f.env, V)
         /\ f.vals[1] \in V /\ ValueOver(f.vals[1], V, N)
         /\ f.node.op = "app" => f.vals[2] \in V
         /\ NodeOver(f.node, V, N)
         /\ Len(f.vals) >= 1
<1>1. f.node \in N /\ EnvOver(f.env, V)
  BY DEF FrameOver
<1>2. Operands(f.node.op) >= 1 /\ (f.node.op = "app" => Operands(f.node.op) = 2)
  BY DEF Operands, Binders, Arithmetic
<1>3. Operands(f.node.op) \in Int
  BY OperandsArity
<1>4. f.vals[1] \in V /\ (f.node.op = "app" => f.vals[2] \in V) /\ Len(f.vals) >= 1
  BY <1>2, <1>3, Values
<1> QED
  BY <1>1, <1>4 DEF ProgramsOver, Closed

LEMMA BodyOver ==
  ASSUME NEW V, NEW N, NEW f, FrameOver(f, V, N), ProgramsOver(V, N),
         f.node.op \in Binders, Len(f.vals) >= Operands(f.node.op), CanBind(f)
  PROVE  Body(f) \in N
<1>1. /\ NodeOver(f.node, V, N)
      /\ ValueOver(f.vals[1], V, N)
  BY Bound
<1>2. CASE f.node.op = "app"
  BY <1>1, <1>2 DEF Body, CanBind, ValueOver
<1>3. CASE f.node.op # "app"
  <2>1. 2 \in 1..Arity(f.node.op) /\ (f.node.op = "match" => 3 \in 1..Arity(f.node.op))
    BY <1>3 DEF Arity, Binders
  <2>2. f.node.args[2] \in N /\ (f.node.op = "match" => f.node.args[3] \in N)
    BY <1>1, <2>1 DEF NodeOver
  <2> QED
    BY <1>3, <2>2 DEF Body
<1> QED
  BY <1>2, <1>3

\* A closure that is given a name is a closure of the same parts.
LEMMA TaggedOver ==
  ASSUME NEW V, NEW N, NEW v, NEW x, ValueOver(v, V, N)
  PROVE  ValueOver(Tagged(v, x), V, N)
<1>1. CASE v.kind = "closure"
  <2>1. IsClosure(v) /\ v.body \in N /\ EnvOver(v.env, V)
    BY <1>1 DEF ValueOver
  <2>2. Tagged(v, x) = [v EXCEPT !.rec_name = x]
    BY <1>1 DEF Tagged
  <2>3. PICK p, b, e, r : v = [kind |-> "closure", param |-> p, body |-> b, env |-> e, rec_name |-> r]
    BY <2>1 DEF IsClosure
  <2>4. Tagged(v, x) = [kind |-> "closure", param |-> p, body |-> b, env |-> e, rec_name |-> x]
    BY <2>2, <2>3
  <2>5. b \in N /\ EnvOver(e, V)
    BY <2>1, <2>3
  <2> DEFINE w == Tagged(v, x)
  <2>6. w.kind = "closure" /\ w.body = b /\ w.env = e /\ IsClosure(w)
    BY <2>4 DEF IsClosure
  <2> HIDE DEF w
  <2>7. ValueOver(w, V, N)
    BY <2>5, <2>6 DEF ValueOver, IntInRange
  <2> QED
    BY <2>7 DEF w
<1>2. CASE v.kind # "closure"
  BY <1>2 DEF Tagged
<1> QED
  BY <1>1, <1>2

LEMMA ApplyOver ==
  ASSUME NEW V, NEW N, NEW env, NEW c, NEW v, c \in V, v \in V,
         ValueOver(c, V, N), c.kind = "closure"
  PROVE  EnvOver(Apply(env, c, v), V)
<1>1. EnvOver(c.env, V)
  BY DEF ValueOver
<1>2. EnvOver(Extend(c.env, c.param, v), V)
  BY <1>1, ExtendOver
<1>3. EnvOver(Extend(Extend(c.env, c.param, v), c.rec_name, c), V)
  BY <1>2, ExtendOver
<1> QED
  BY <1>2, <1>3 DEF Apply

\* The environment of a body: only the name that letrec gives a function makes
\* a new value.
LEMMA ScopeOver ==
  ASSUME NEW V, NEW N, NEW f, FrameOver(f, V, N), ProgramsOver(V, N),
         f.node.op \in Binders, Len(f.vals) >= Operands(f.node.op), CanBind(f)
  PROVE  EnvOver(Scope(f), V \cup {Tagged(f.vals[1], f.node.names[1])})
<1> DEFINE v == f.vals[1]
           t == Tagged(v, f.node.names[1])
           W == V \cup {t}
<1>1. /\ EnvOver(f.env, V)
      /\ v \in V /\ ValueOver(v, V, N)
      /\ f.node.op = "app" => f.vals[2] \in V
  BY Bound
<1>2. V \subseteq W /\ t \in W
  OBVIOUS
<1> HIDE DEF t, W
<1>3. EnvOver(f.env, W) /\ ValueOver(v, W, N) /\ v \in W
  BY <1>1, <1>2, Larger
<1>4. CASE f.node.op = "app"
  <2>1. f.vals[2] \in W /\ v.kind = "closure"
    BY <1>1, <1>2, <1>4 DEF CanBind
  <2>2. EnvOver(Apply(f.env, v, f.vals[2]), W)
    BY <1>3, <2>1, ApplyOver
  <2> QED
    BY <1>4, <2>2 DEF Scope, W, t
<1>5. CASE f.node.op = "match"
  <2>1. v.kind \in {"left", "right"}
    BY <1>5 DEF CanBind
  <2>2. v.parts[1] \in W
    BY <1>3, <2>1 DEF ValueOver
  <2>3. \A x : EnvOver(Extend(f.env, x, v.parts[1]), W)
    BY <1>3, <2>2, ExtendOver
  <2>4. Scope(f) = Extend(f.env, IF v.kind = "left" THEN f.node.names[1] ELSE f.node.names[2], v.parts[1])
    BY <1>5 DEF Scope
  <2> HIDE DEF v
  <2> QED
    BY <2>3, <2>4 DEF W, t, v
<1>6. CASE f.node.op = "let"
  <2>1. EnvOver(Extend(f.env, f.node.names[1], v), W)
    BY <1>3, ExtendOver
  <2> QED
    BY <1>6, <2>1 DEF Scope, W, t
<1>7. CASE f.node.op = "letrec"
  <2>1. EnvOver(Extend(f.env, f.node.names[1], t), W)
    BY <1>2, <1>3, ExtendOver
  <2> QED
    BY <1>7, <2>1 DEF Scope, W, t
<1>8. CASE f.node.op = "unpack"
  <2>1. v.kind = "pair"
    BY <1>8 DEF CanBind
  <2>2. v.parts[1] \in W /\ v.parts[2] \in W
    BY <1>3, <2>1 DEF ValueOver
  <2>3. EnvOver(Extend(f.env, f.node.names[1], v.parts[1]), W)
    BY <1>3, <2>2, ExtendOver
  <2>4. EnvOver(Extend(Extend(f.env, f.node.names[1], v.parts[1]), f.node.names[2], v.parts[2]), W)
    BY <2>2, <2>3, ExtendOver
  <2> QED
    BY <1>8, <2>4 DEF Scope, W, t
<1> QED
  BY <1>4, <1>5, <1>6, <1>7, <1>8 DEF Binders, W, t

\* The next call of a call is over known terms and at most one more value.
LEMMA NextCallOver ==
  ASSUME NEW V, NEW N, NEW f, FrameOver(f, V, N), ProgramsOver(V, N), StackOver(V, N), Calls(f)
  PROVE  \E W : /\ ProgramsOver(W, N) /\ StackOver(W, N)
                /\ NextCall(f).node \in N /\ EnvOver(NextCall(f).env, W)
<1> DEFINE op == f.node.op
<1>1. Len(f.vals) \in Nat /\ Operands(op) \in 0..2 /\ Operands(op) <= Arity(op)
  BY Values, OperandsArity
<1>2. f.node \in N /\ EnvOver(f.env, V) /\ NodeOver(f.node, V, N)
  BY DEF FrameOver, ProgramsOver, Closed
<1>3. CASE Len(f.vals) < Operands(op)
  <2>1. Arity(op) \in Int
    BY DEF Arity
  <2>2. Len(f.vals) + 1 \in 1..Arity(op)
    BY <1>1, <1>3, <2>1
  <2>3. f.node.args[Len(f.vals) + 1] \in N
    BY <1>2, <2>2 DEF NodeOver
  <2>4. NextCall(f) = [node |-> f.node.args[Len(f.vals) + 1], env |-> f.env]
    BY <1>3 DEF NextCall
  <2> QED
    BY <1>2, <2>3, <2>4
<1>4. CASE ~(Len(f.vals) < Operands(op))
  <2>1. op \in Binders /\ Len(f.vals) = Operands(op) /\ CanBind(f)
    BY <1>4 DEF Calls
  <2>2. Len(f.vals) >= Operands(op)
    BY <1>1, <2>1
  <2>3. NextCall(f) = [node |-> Body(f), env |-> Scope(f)]
    BY <1>4 DEF NextCall
  <2>4. Body(f) \in N
    BY <2>1, <2>2, BodyOver
  <2> DEFINE t == Tagged(f.vals[1], f.node.names[1])
             W == V \cup {t}
  <2>5. EnvOver(Scope(f), W)
    BY <2>1, <2>2, ScopeOver
  <2>6. ValueOver(f.vals[1], V, N)
    BY <2>1, <2>2, Bound
  <2>7. ValueOver(t, V, N)
    BY <2>6, TaggedOver
  <2> HIDE DEF t
  <2>8. ProgramsOver(W, N) /\ StackOver(W, N)
    BY <2>7, Join
  <2> QED
    BY <2>3, <2>4, <2>5, <2>8
<1> QED
  BY <1>3, <1>4

\* Two integers compute an integer of the width, or a choice that holds one.
LEMMA ComputeOver ==
  ASSUME NEW V, NEW N, NEW op \in Arithmetic, NEW a \in Int, NEW b \in Int,
         op = "div" => b # 0, IntValue(0) \in V
  PROVE  ValueOver(Compute(op, a, b), V, N)
<1>1. \A n \in Int : ValueOver(IntValue(n), V, N)
  BY IntValueOver
<1>2. ASSUME NEW holds PROVE ValueOver(Either(holds), V, N)
  <2>1. Either(holds).kind \in {"left", "right"} /\ Either(holds).parts = <<IntValue(0)>>
    BY DEF Either
  <2>2. Either(holds).parts[1] \in V
    BY <2>1
  <2> QED
    BY <2>1, <2>2 DEF ValueOver, IntInRange
<1>3. CASE op \in {"add", "sub", "mul"}
  <2>1. a + b \in Int /\ a - b \in Int /\ a * b \in Int
    OBVIOUS
  <2>2. Compute(op, a, b) \in {IntValue(a + b), IntValue(a - b), IntValue(a * b)}
    BY <1>3 DEF Compute
  <2> QED
    BY <1>1, <2>1, <2>2
<1>4. CASE op = "div"
  <2>1. Quotient(a, b) \in Int
    BY <1>4, QuotientInt
  <2>2. Compute(op, a, b) = IntValue(Quotient(a, b))
    BY <1>4 DEF Compute
  <2> QED
    BY <1>1, <2>1, <2>2
<1>5. CASE op \in {"eq", "gt", "lt", "ge", "le"}
  <2>1. Compute(op, a, b) \in {Either(a = b), Either(a > b), Either(a < b), Either(a >= b), Either(a <= b)}
    BY <1>5 DEF Compute
  <2> QED
    BY <1>2, <2>1
<1> QED
  BY <1>3, <1>4, <1>5 DEF Arithmetic

\* What a call returns is made of what it was given.
LEMMA ValueIsOver ==
  ASSUME NEW V, NEW N, NEW f, FrameOver(f, V, N), ProgramsOver(V, N), IntValue(0) \in V,
         ~Calls(f), ~Faulty(f), ~IsPoll(f)
  PROVE  ValueOver(Value(f), V, N)
<1> DEFINE op == f.node.op
<1>1. f.node \in N /\ EnvOver(f.env, V) /\ NodeOver(f.node, V, N)
  BY DEF FrameOver, ProgramsOver, Closed
<1>2. \A v \in V : ValueOver(v, V, N)
  BY DEF ProgramsOver, Closed
<1>3. Len(f.vals) \in Nat /\ Operands(op) \in 0..2 /\ (\A i \in 1..Len(f.vals) : f.vals[i] \in V)
  BY Values, OperandsArity
<1>4. Len(f.vals) >= Operands(op)
  BY <1>3 DEF Calls
<1>5. CASE op = "literal"
  <2>1. f.node.value \in V /\ Value(f) = f.node.value
    BY <1>1, <1>5 DEF NodeOver, Value, Binders
  <2> QED
    BY <1>2, <2>1
<1>6. CASE op = "var"
  <2>1. f.node.names[1] \in DOMAIN f.env /\ Value(f) = f.env[f.node.names[1]]
    BY <1>6 DEF Faulty, Value, Binders
  <2> QED
    BY <1>1, <1>2, <2>1 DEF EnvOver
<1>7. CASE op = "lambda"
  <2>1. Value(f) = [kind |-> "closure", param |-> f.node.names[1], body |-> f.node.args[1],
                    env |-> f.env, rec_name |-> NoName]
    BY <1>7 DEF Value, Binders
  <2>2. 1 \in 1..Arity(op)
    BY <1>7 DEF Arity
  <2>3. f.node.args[1] \in N
    BY <1>1, <2>2 DEF NodeOver
  <2> DEFINE w == Value(f)
  <2>4. w.kind = "closure" /\ w.body = f.node.args[1] /\ w.env = f.env /\ IsClosure(w)
    BY <2>1 DEF IsClosure
  <2> HIDE DEF w
  <2>5. ValueOver(w, V, N)
    BY <1>1, <2>3, <2>4 DEF ValueOver, IntInRange
  <2> QED
    BY <2>5 DEF w
<1>8. CASE op \in {"pair", "left", "right"}
  <2>1. Value(f) = [kind |-> op, parts |-> f.vals]
    BY <1>8 DEF Value, Binders
  <2>2. Operands(op) >= 1 /\ (op = "pair" => Operands(op) = 2)
    BY <1>8 DEF Operands, Arithmetic
  <2>3. f.vals[1] \in V /\ (op = "pair" => f.vals[2] \in V)
    BY <1>3, <1>4, <2>2
  <2> DEFINE w == Value(f)
  <2>4. w.kind = op /\ w.parts = f.vals
    BY <2>1
  <2> HIDE DEF w
  <2>5. ValueOver(w, V, N)
    BY <1>8, <2>3, <2>4 DEF ValueOver, IntInRange
  <2> QED
    BY <2>5 DEF w
<1>9. CASE op \in Binders
  <2>1. Len(f.vals) >= 1
    BY <1>4, <1>9, Bound
  <2>2. Value(f) = f.vals[Len(f.vals)]
    BY <1>9 DEF Value, Binders
  <2> QED
    BY <1>2, <1>3, <2>1, <2>2
<1>10. CASE op \in Arithmetic
  <2>1. Operands(op) = 2
    BY <1>10 DEF Operands
  <2>2. f.vals[1] \in V /\ f.vals[2] \in V
    BY <1>3, <1>4, <2>1
  <2>3. BothInt(f) /\ (op = "div" => f.vals[2].n # 0)
    BY <1>10 DEF Faulty
  <2>4. IntInRange(f.vals[1]) /\ IntInRange(f.vals[2])
    BY <1>2, <2>2 DEF ValueOver
  <2>5. IntRange \in Nat \ {0} /\ IntRange \div 2 \in Int
    BY RangeAssumption
  <2>6. f.vals[1].n \in Int /\ f.vals[2].n \in Int
    BY <2>3, <2>4, <2>5 DEF BothInt, IntInRange
  <2>7. Value(f) = Compute(op, f.vals[1].n, f.vals[2].n)
    BY <1>10 DEF Value, Arithmetic, Binders
  <2> QED
    BY <1>10, <2>3, <2>6, <2>7, ComputeOver
<1> QED
  BY <1>1, <1>5, <1>6, <1>7, <1>8, <1>9, <1>10 DEF NodeOver

LEMMA YieldOver ==
  ASSUME NEW V, NEW N, NEW f, FrameOver(f, V, N), ProgramsOver(V, N), StackOver(V, N),
         ~Calls(f), ~Faulty(f), ~IsPoll(f)
  PROVE  \E W : ProgramsOver(W, N) /\ StackOver(W, N) /\ Value(f) \in W
<1> DEFINE W == V \cup {IntValue(0)}
<1>1. ValueOver(IntValue(0), V, N)
  BY IntValueOver
<1>2. ProgramsOver(W, N) /\ StackOver(W, N)
  BY <1>1, Join
<1>3. FrameOver(f, W, N)
  BY Larger
<1>4. IntValue(0) \in W
  OBVIOUS
<1> HIDE DEF W
<1>5. ValueOver(Value(f), W, N)
  BY <1>2, <1>3, <1>4, ValueIsOver
<1>6. ProgramsOver(W \cup {Value(f)}, N) /\ StackOver(W \cup {Value(f)}, N)
  BY <1>2, <1>5, Join
<1> QED
  BY <1>6

-----------------------------------------------------------------------------
(* The steps *)

LEMMA TypeInit ==
  ASSUME NEW V, NEW N, ProgramsOver(V, N), Init
  PROVE  TypeInv
<1>1. StackInv /\ ReceiptInv
  BY StackInit, ReceiptInit
<1>2. stack = <<>> /\ Len(stack) = 0 /\ Len(receipts) = 0
  BY DEF Init
<1>3. Scalars
  BY <1>2, FramesAssumption DEF Scalars, Init
<1>4. Waiting /\ StackOver(V, N)
  BY <1>2 DEF Waiting, StackOver
<1> QED
  BY <1>1, <1>3, <1>4 DEF TypeInv, Grounded

\* A stack that is gone, or was not touched, needs no more than the scalars.
LEMMA StackGone ==
  ASSUME Grounded, stack' = <<>>
  PROVE  Waiting' /\ Grounded'
<1>1. Len(stack') = 0
  OBVIOUS
<1> QED
  BY <1>1 DEF Grounded, Waiting, StackOver

LEMMA StackKept ==
  ASSUME Grounded, Waiting, UNCHANGED stack
  PROVE  Waiting' /\ Grounded'
BY DEF Grounded, Waiting, StackOver

LEMMA StartOver ==
  ASSUME Grounded, Start
  PROVE  Waiting' /\ Grounded' /\ Len(stack') = 1
<1>1. PICK V, N : ProgramsOver(V, N)
  BY DEF Grounded
<1> DEFINE f == [node |-> Parse(source').root, env |-> Seeds, vals |-> <<>>]
<1>2. stack' = <<f>> /\ Parse(source').root \in N
  BY <1>1 DEF Start, ProgramsOver
<1>3. Operands(f.node.op) \in 0..2
  BY OperandsArity
<1>4. f.node \in N /\ EnvOver(f.env, V) /\ f.vals \in Seq(V) /\ Len(f.vals) = 0
  BY <1>1, <1>2 DEF ProgramsOver
<1>5. FrameOver(f, V, N)
  BY <1>3, <1>4 DEF FrameOver
<1> HIDE DEF f
<1>6. Len(stack') = 1 /\ stack'[1] = f
  BY <1>2
<1> QED
  BY <1>1, <1>5, <1>6 DEF Grounded, Waiting, StackOver

LEMMA EnterOver ==
  ASSUME TypeInv, Enter
  PROVE  Waiting' /\ Grounded' /\ Len(stack') <= MaxFrames
<1> DEFINE n == Len(stack)
           f == [node |-> NextCall(Top).node, env |-> NextCall(Top).env, vals |-> <<>>]
<1>1. PICK S : stack \in Seq(S)
  BY DEF TypeInv, StackInv, StackShape
<1>2. stack' = Append(stack, f) /\ n \in Nat /\ n > 0 /\ Calls(Top) /\ n < MaxFrames
  BY <1>1 DEF Enter, Running
<1>3. Top = stack[n]
  BY DEF Top
<1>4. PICK V, N : ProgramsOver(V, N) /\ StackOver(V, N)
  BY DEF TypeInv, Grounded
<1>5. FrameOver(Top, V, N)
  BY <1>2, <1>3, <1>4 DEF StackOver
<1>6. PICK W : /\ ProgramsOver(W, N) /\ StackOver(W, N)
               /\ NextCall(Top).node \in N /\ EnvOver(NextCall(Top).env, W)
  BY <1>2, <1>4, <1>5, NextCallOver
<1>7. Operands(f.node.op) \in 0..2
  BY OperandsArity
<1>8. f.node \in N /\ EnvOver(f.env, W) /\ f.vals \in Seq(W) /\ Len(f.vals) = 0
  BY <1>6
<1>9. FrameOver(f, W, N)
  BY <1>7, <1>8 DEF FrameOver
<1> HIDE DEF f
<1>10. stack \in Seq(S \cup {f}) /\ f \in S \cup {f}
  BY <1>1
<1>11. /\ Len(stack') = n + 1
       /\ \A i \in 1..n : stack'[i] = stack[i]
       /\ stack'[n + 1] = f
  BY <1>2, <1>10
<1> HIDE DEF n
<1>12. StackOver(W, N)'
  BY <1>2, <1>6, <1>9, <1>11 DEF StackOver, n
<1>13. Waiting'
  <2> SUFFICES ASSUME NEW i \in 1..(Len(stack') - 1) PROVE Calls(stack'[i])
    BY DEF Waiting
  <2>1. i \in 1..n /\ stack'[i] = stack[i]
    BY <1>2, <1>11
  <2>2. i = n \/ i \in 1..(n - 1)
    BY <1>2, <2>1
  <2>3. \A j \in 1..(n - 1) : Calls(stack[j])
    BY DEF TypeInv, Waiting, n
  <2> QED
    BY <1>2, <1>3, <2>1, <2>2, <2>3
<1>14. Len(stack') <= MaxFrames
  BY <1>2, <1>11, FramesAssumption
<1> QED
  BY <1>6, <1>12, <1>13, <1>14 DEF Grounded

\* The caller had room for the value it waited for.
LEMMA ReturnOver ==
  ASSUME TypeInv, stack # <<>>, NEW V, NEW N, NEW v,
         ProgramsOver(V, N), StackOver(V, N), v \in V, Return(v)
  PROVE  Waiting' /\ Grounded' /\ Len(stack') <= MaxFrames
<1> DEFINE n == Len(stack)
<1>1. PICK S : stack \in Seq(S)
  BY DEF TypeInv, StackInv, StackShape
<1>2. n \in Nat /\ n > 0 /\ n <= MaxFrames
  BY <1>1 DEF TypeInv, Scalars
<1>3. CASE n = 1
  <2>1. stack' = <<>>
    BY <1>3 DEF Return
  <2>2. Len(stack') = 0
    BY <2>1
  <2>3. Grounded
    BY DEF TypeInv
  <2> QED
    BY <2>1, <2>2, <2>3, StackGone, FramesAssumption
<1>4. CASE n # 1
  <2> HIDE DEF n
  <2> DEFINE g == [stack[n - 1] EXCEPT !.vals = Append(@, v)]
  <2>1. stack' = [i \in 1..(n - 1) |-> IF i = n - 1 THEN g ELSE stack[i]]
    BY <1>4 DEF Return, n
  <2>2. n - 1 \in Nat /\ n - 1 \in 1..n /\ n - 1 \in 1..(n - 1)
    BY <1>2, <1>4
  <2>3. PICK a, b, c : stack[n - 1] = [node |-> a, env |-> b, vals |-> c]
    <3>1. IsFrame(stack[n - 1])
      BY <2>2 DEF TypeInv, StackInv, StackShape, n
    <3> QED
      BY <3>1 DEF IsFrame
  <2>4. g = [node |-> a, env |-> b, vals |-> Append(c, v)]
    BY <2>3
  <2>5. FrameOver(stack[n - 1], V, N) /\ Calls(stack[n - 1])
    BY <2>2 DEF TypeInv, Waiting, StackOver, n
  <2>6. a \in N /\ EnvOver(b, V) /\ c \in Seq(V) /\ Len(c) <= Operands(a.op)
    <3>1. a \in N /\ EnvOver(b, V) /\ c \in Seq(V)
      BY <2>3, <2>5 DEF FrameOver
    <3>2. Len(c) \in Nat /\ Operands(a.op) \in 0..2
      BY <3>1, OperandsArity
    <3>3. Len(c) < Operands(a.op) \/ Len(c) = Operands(a.op)
      BY <2>3, <2>5 DEF Calls
    <3> QED
      BY <3>1, <3>2, <3>3
  <2>7. Append(c, v) \in Seq(V) /\ Len(Append(c, v)) <= Operands(a.op) + 1
    <3>1. Operands(a.op) \in 0..2
      BY OperandsArity
    <3>2. Append(c, v) \in Seq(V) /\ Len(Append(c, v)) = Len(c) + 1 /\ Len(c) \in Nat
      BY <2>6
    <3> QED
      BY <2>6, <3>1, <3>2
  <2>8. FrameOver(g, V, N)
    BY <2>4, <2>6, <2>7 DEF FrameOver
  <2> HIDE DEF g
  <2>9. Len(stack') = n - 1
    <3>1. \A i \in 1..(n - 1) : stack'[i] \in S \cup {g}
      <4> SUFFICES ASSUME NEW i \in 1..(n - 1) PROVE stack'[i] \in S \cup {g}
        OBVIOUS
      <4>1. i \in 1..n /\ stack[i] \in S
        BY <1>1, <1>2 DEF n
      <4> QED
        BY <2>1, <4>1
    <3>2. stack' \in [1..(n - 1) -> S \cup {g}]
      BY <2>1, <3>1, Zenon
    <3> QED
      BY <2>2, <3>2
  <2>10. \A i \in 1..(n - 1) : FrameOver(stack'[i], V, N)
    <3> SUFFICES ASSUME NEW i \in 1..(n - 1) PROVE FrameOver(stack'[i], V, N)
      OBVIOUS
    <3>1. i \in 1..n /\ FrameOver(stack[i], V, N)
      BY <1>2 DEF StackOver, n
    <3> QED
      BY <2>1, <2>8, <3>1
  <2>11. \A i \in 1..(n - 1 - 1) : Calls(stack'[i])
    <3> SUFFICES ASSUME NEW i \in 1..(n - 1 - 1) PROVE Calls(stack'[i])
      OBVIOUS
    <3>1. i \in 1..(n - 1) /\ i # n - 1
      BY <1>2
    <3>2. Calls(stack[i])
      BY <3>1 DEF TypeInv, Waiting, n
    <3> QED
      BY <2>1, <3>1, <3>2
  <2>12. Waiting' /\ StackOver(V, N)'
    BY <2>9, <2>10, <2>11 DEF Waiting, StackOver
  <2>13. Len(stack') <= MaxFrames
    BY <1>2, <2>9, FramesAssumption
  <2> QED
    BY <2>12, <2>13 DEF Grounded
<1> QED
  BY <1>3, <1>4

LEMMA YieldType ==
  ASSUME TypeInv, Yield
  PROVE  Waiting' /\ Grounded' /\ Len(stack') <= MaxFrames
<1>1. Running /\ ~Calls(Top) /\ ~Faulty(Top) /\ ~IsPoll(Top) /\ Return(Value(Top))
  BY DEF Yield
<1>2. PICK V, N : ProgramsOver(V, N) /\ StackOver(V, N)
  BY DEF TypeInv, Grounded
<1>3. FrameOver(Top, V, N) /\ stack # <<>>
  <2>1. PICK S : stack \in Seq(S)
    BY DEF TypeInv, StackInv, StackShape
  <2>2. stack # <<>> /\ Len(stack) \in 1..Len(stack)
    BY <1>1, <2>1 DEF Running
  <2> QED
    BY <1>2, <2>2 DEF StackOver, Top
<1>4. PICK W : ProgramsOver(W, N) /\ StackOver(W, N) /\ Value(Top) \in W
  BY <1>1, <1>2, <1>3, YieldOver
<1> QED
  BY <1>1, <1>3, <1>4, ReturnOver

LEMMA PollType ==
  ASSUME TypeInv, Poll
  PROVE  Waiting' /\ Grounded' /\ Len(stack') <= MaxFrames
<1>1. PICK v \in Volumes : Return(IntValue(v))
  BY DEF Poll
<1>2. PICK V, N : ProgramsOver(V, N) /\ StackOver(V, N)
  BY DEF TypeInv, Grounded
<1>3. ValueOver(IntValue(v), V, N)
  BY VolumesAssumption, IntValueOver
<1> DEFINE u == IntValue(v)
           W == V \cup {u}
<1>4. ProgramsOver(W, N) /\ StackOver(W, N)
  BY <1>2, <1>3, Join
<1>5. stack # <<>> /\ u \in W /\ Return(u)
  BY <1>1 DEF Poll, Running
<1> HIDE DEF u, W
<1> QED
  BY <1>4, <1>5, ReturnOver

LEMMA TypeNext == TypeInv /\ [Next]_vars => TypeInv'
<1> SUFFICES ASSUME TypeInv, [Next]_vars PROVE TypeInv'
  OBVIOUS
<1>1. ReceiptInv'
  BY ReceiptNext DEF TypeInv
<1>2. Waiting' /\ Grounded' /\ Len(stack') <= MaxFrames
  <2>1. Waiting /\ Grounded /\ Len(stack) <= MaxFrames
    BY DEF TypeInv, Scalars
  <2>2. CASE stack' = <<>>
    <3>1. Len(stack') = 0
      BY <2>2
    <3> QED
      BY <2>1, <2>2, <3>1, StackGone, FramesAssumption
  <2>3. CASE UNCHANGED stack
    BY <2>1, <2>3, StackKept
  <2>4. CASE Start
    <3>1. Waiting' /\ Grounded' /\ Len(stack') = 1
      BY <2>1, <2>4, StartOver
    <3>2. Len(stack') <= MaxFrames
      BY <3>1, FramesAssumption
    <3> QED
      BY <3>1, <3>2
  <2>5. CASE Enter
    BY <2>5, EnterOver
  <2>6. CASE Yield
    BY <2>6, YieldType
  <2>7. CASE Poll
    BY <2>7, PollType
  <2> QED
    BY <2>2, <2>3, <2>4, <2>5, <2>6, <2>7
       DEF Next, Step, Reject, Overflow, Fault, Panic, Commit, WriteAnswer, NoMemory, vars
<1>3. StackInv'
  BY StackNext DEF TypeInv
<1>4. Scalars'
  <2>1. Scalars /\ ReceiptInv
    BY DEF TypeInv
  <2>2. Len(receipts') <= 1
    <3>1. CASE Commit
      <4>1. receipts = <<>>
        BY <2>1, <3>1 DEF Commit, ReceiptInv, ReceiptSoFar
      <4>2. receipts' = <<Volume(result)>>
        BY <3>1, <4>1 DEF Commit
      <4> QED
        BY <4>2
    <3>2. CASE receipts' = receipts
      BY <2>1, <3>2 DEF Scalars
    <3> QED
      BY <3>1, <3>2
         DEF Next, Step, Reject, Start, Enter, Overflow, Yield, Poll, Fault, Panic, WriteAnswer, NoMemory, vars
  <2>3. /\ phase' \in {"idle", "eval", "commit", "answer", "returned", "halted", "overrun"}
        /\ outcome' \in {"value", "fault"} /\ answer' \in {"unwritten", "matched", "fault"}
    BY <2>1 DEF Scalars, Next, Step, Reject, Start, Enter, Overflow, Yield, Poll, Return, Fault, Panic,
                Commit, WriteAnswer, NoMemory, vars
  <2> QED
    BY <1>2, <2>2, <2>3 DEF Scalars
<1> QED
  BY <1>1, <1>2, <1>3, <1>4 DEF TypeInv

\* Every integer that a call holds is one of 64 bits, and no call holds more
\* values than it has operands and a body, whatever the programs are, if the
\* parser builds nodes of the grammar with literals of 64 bits.
THEOREM TypeCorrect ==
  ASSUME NEW V, NEW N, ProgramsOver(V, N)
  PROVE  Spec => []TypeOK
<1>1. Init => TypeInv
  BY TypeInit
<1>2. TypeInv => TypeOK
  <2> SUFFICES ASSUME TypeInv PROVE TypeOK
    OBVIOUS
  <2>1. PICK W, M : ProgramsOver(W, M) /\ StackOver(W, M)
    BY DEF TypeInv, Grounded
  <2>2. ASSUME NEW i \in 1..Len(stack)
        PROVE  /\ Len(stack[i].vals) <= Operands(stack[i].node.op) + 1
               /\ \A j \in 1..Len(stack[i].vals) : IntInRange(stack[i].vals[j])
    <3>1. FrameOver(stack[i], W, M)
      BY <2>1 DEF StackOver
    <3>2. \A j \in 1..Len(stack[i].vals) : stack[i].vals[j] \in W
      BY <3>1, Values
    <3>3. \A v \in W : IntInRange(v)
      BY <2>1 DEF ProgramsOver, Closed, ValueOver
    <3> QED
      BY <3>1, <3>2, <3>3 DEF FrameOver
  <2> QED
    BY <2>2 DEF TypeInv, Scalars, TypeOK
<1> QED
  BY <1>1, <1>2, TypeNext, PTL DEF Spec

-----------------------------------------------------------------------------
(* The rules: one call *)

OperandDone(f, j, p) == Evaluates(f.node.args[j], f.env, p, f.vals[j])

\* The first m operands are done, with the polls ps.
OperandsDone(f, m, ps) ==
  /\ m \in 0..2
  /\ m = 0 => ps = <<>>
  /\ m = 1 => OperandDone(f, 1, ps)
  /\ m = 2 => \E p, q \in Polls : ps = p \o q /\ OperandDone(f, 1, p) /\ OperandDone(f, 2, q)

BodyDone(f, p, v) == CanBind(f) /\ Evaluates(Body(f), Scope(f), p, v)

\* What the values that a call holds are by the rules.
Progress(f, ps) ==
  \/ Len(f.vals) <= Operands(f.node.op) /\ OperandsDone(f, Len(f.vals), ps)
  \/ /\ Len(f.vals) = Operands(f.node.op) + 1 /\ f.node.op \in Binders
     /\ \E p, q \in Polls :
          /\ ps = p \o q
          /\ OperandsDone(f, Operands(f.node.op), p)
          /\ BodyDone(f, q, f.vals[Len(f.vals)])

\* A call whose operands are done comes to what its body comes to.
LEMMA BodyRule ==
  ASSUME Rules, NEW f, f.node.op \in Binders, NEW p \in Polls,
         OperandsDone(f, Operands(f.node.op), p)
  PROVE  /\ CanBind(f) => BodyDecides(f.node, f.env, p, Body(f), Scope(f))
         /\ ~CanBind(f) => Faults(f.node, f.env, p)
<1> DEFINE op == f.node.op
           v == f.vals[1]
<1>1. CASE op = "app"
  <2>1. Operands(op) = 2
    BY <1>1 DEF Operands
  <2>2. PICK a, b \in Polls : p = a \o b /\ OperandDone(f, 1, a) /\ OperandDone(f, 2, b)
    BY <2>1 DEF OperandsDone
  <2>3. Evaluates(f.node.args[1], f.env, a, v) /\ Evaluates(f.node.args[2], f.env, b, f.vals[2])
    BY <2>2 DEF OperandDone
  <2>4. /\ v.kind = "closure" /\ v.rec_name = NoName =>
             BodyDecides(f.node, f.env, a \o b, v.body, Extend(v.env, v.param, f.vals[2]))
        /\ v.kind = "closure" /\ v.rec_name # NoName =>
             BodyDecides(f.node, f.env, a \o b, v.body,
               Extend(Extend(v.env, v.param, f.vals[2]), v.rec_name, v))
        /\ v.kind # "closure" => Faults(f.node, f.env, a \o b)
    BY <1>1, <2>3 DEF Rules, AppRule
  <2>5. CanBind(f) <=> v.kind = "closure"
    BY <1>1 DEF CanBind
  <2>6. Body(f) = v.body
    BY <1>1 DEF Body
  <2>7. Scope(f) = Apply(f.env, v, f.vals[2])
    BY <1>1 DEF Scope
  <2>8. Apply(f.env, v, f.vals[2]) =
          IF v.rec_name = NoName THEN Extend(v.env, v.param, f.vals[2])
          ELSE Extend(Extend(v.env, v.param, f.vals[2]), v.rec_name, v)
    BY DEF Apply
  <2> HIDE DEF v
  <2>9. CASE v.rec_name = NoName
    <3>1. Scope(f) = Extend(v.env, v.param, f.vals[2])
      BY <2>7, <2>8, <2>9
    <3> QED
      BY <2>2, <2>4, <2>5, <2>6, <2>9, <3>1
  <2>10. CASE v.rec_name # NoName
    <3>1. Scope(f) = Extend(Extend(v.env, v.param, f.vals[2]), v.rec_name, v)
      BY <2>7, <2>8, <2>10
    <3> QED
      BY <2>2, <2>4, <2>5, <2>6, <2>10, <3>1
  <2> QED
    BY <2>9, <2>10
<1>2. CASE op # "app"
  <2>1. Operands(op) = 1
    BY <1>2 DEF Operands, Binders, Arithmetic
  <2>2. Evaluates(f.node.args[1], f.env, p, v)
    BY <2>1 DEF OperandsDone, OperandDone
  <2>3. CASE op = "let"
    <3>1. BodyDecides(f.node, f.env, p, f.node.args[2], Extend(f.env, f.node.names[1], v))
      BY <2>2, <2>3 DEF Rules, LetRule
    <3>2. CanBind(f) /\ Body(f) = f.node.args[2] /\ Scope(f) = Extend(f.env, f.node.names[1], v)
      BY <2>3 DEF CanBind, Body, Scope
    <3> QED
      BY <3>1, <3>2
  <2>4. CASE op = "letrec"
    <3>1. BodyDecides(f.node, f.env, p, f.node.args[2], Extend(f.env, f.node.names[1],
            IF v.kind = "closure" THEN [v EXCEPT !.rec_name = f.node.names[1]] ELSE v))
      BY <2>2, <2>4 DEF Rules, LetRecRule
    <3>2. CanBind(f) /\ Body(f) = f.node.args[2]
      BY <2>4 DEF CanBind, Body
    <3>3. Scope(f) = Extend(f.env, f.node.names[1],
            IF v.kind = "closure" THEN [v EXCEPT !.rec_name = f.node.names[1]] ELSE v)
      BY <2>4 DEF Scope, Tagged
    <3> QED
      BY <3>1, <3>2, <3>3
  <2>5. CASE op = "match"
    <3>1. /\ v.kind = "left" =>
               BodyDecides(f.node, f.env, p, f.node.args[2],
                           Extend(f.env, f.node.names[1], v.parts[1]))
          /\ v.kind = "right" =>
               BodyDecides(f.node, f.env, p, f.node.args[3],
                           Extend(f.env, f.node.names[2], v.parts[1]))
          /\ v.kind \notin {"left", "right"} => Faults(f.node, f.env, p)
      BY <2>2, <2>5 DEF Rules, MatchRule
    <3>2. CanBind(f) <=> v.kind \in {"left", "right"}
      BY <2>5 DEF CanBind
    <3>3. v.kind = "left" => /\ Body(f) = f.node.args[2]
                             /\ Scope(f) = Extend(f.env, f.node.names[1], v.parts[1])
      BY <2>5 DEF Body, Scope
    <3>4. v.kind = "right" => /\ Body(f) = f.node.args[3]
                              /\ Scope(f) = Extend(f.env, f.node.names[2], v.parts[1])
      BY <2>5 DEF Body, Scope
    <3> HIDE DEF v
    <3> QED
      BY <3>1, <3>2, <3>3, <3>4
  <2>6. CASE op = "unpack"
    <3>1. IF v.kind = "pair"
          THEN BodyDecides(f.node, f.env, p, f.node.args[2],
                 Extend(Extend(f.env, f.node.names[1], v.parts[1]), f.node.names[2], v.parts[2]))
          ELSE Faults(f.node, f.env, p)
      BY <2>2, <2>6 DEF Rules, UnpackRule
    <3>2. CanBind(f) <=> v.kind = "pair"
      BY <2>6 DEF CanBind
    <3>3. /\ Body(f) = f.node.args[2]
          /\ Scope(f) = Extend(Extend(f.env, f.node.names[1], v.parts[1]), f.node.names[2], v.parts[2])
      BY <2>6 DEF Body, Scope
    <3> HIDE DEF v
    <3> QED
      BY <3>1, <3>2, <3>3
  <2> QED
    BY <1>2, <2>3, <2>4, <2>5, <2>6 DEF Binders
<1> QED
  BY <1>1, <1>2

LEMMA PollsLaws ==
  /\ <<>> \in Polls
  /\ \A v \in Volumes : <<v>> \in Polls
  /\ \A p \in Polls : p \o <<>> = p /\ <<>> \o p = p
  /\ \A p, q \in Polls : p \o q \in Polls
  /\ \A p, q, r \in Polls : (p \o q) \o r = p \o (q \o r)
<1>1. <<>> \in Polls /\ \A v \in Volumes : <<v>> \in Polls
  BY DEF Polls
<1>2. \A p \in Polls : p \o <<>> = p /\ <<>> \o p = p
  BY ConcatEmptySeq DEF Polls
<1>3. \A p, q \in Polls : p \o q \in Polls
  BY ConcatProperties DEF Polls
<1>4. \A p, q, r \in Polls : (p \o q) \o r = p \o (q \o r)
  BY ConcatAssociative DEF Polls
<1> QED
  BY <1>1, <1>2, <1>3, <1>4

\* A term has at most two operands, and those with a body are no others.
LEMMA Kinds ==
  ASSUME NEW V, NEW N, NEW f, FrameOver(f, V, N), ProgramsOver(V, N)
  PROVE  /\ Len(f.vals) \in Nat /\ Operands(f.node.op) \in 0..2
         /\ f.node.op \in Arithmetic \cup Binders
                          \cup {"pair", "left", "right", "lambda", "var", "literal"}
<1>1. Len(f.vals) \in Nat /\ Operands(f.node.op) \in 0..2
  BY Values, OperandsArity
<1>2. f.node \in N
  BY DEF FrameOver
<1> QED
  BY <1>1, <1>2 DEF ProgramsOver, Closed, NodeOver

\* What makes no call and is no body has its operands.
LEMMA AllDone ==
  ASSUME NEW V, NEW N, NEW f, FrameOver(f, V, N), ProgramsOver(V, N), NEW p \in Polls,
         Progress(f, p), ~Calls(f), f.node.op \notin Binders
  PROVE  Len(f.vals) = Operands(f.node.op) /\ OperandsDone(f, Operands(f.node.op), p)
<1>1. Len(f.vals) \in Nat /\ Operands(f.node.op) \in 0..2
  BY Kinds
<1>2. Len(f.vals) >= Operands(f.node.op)
  BY <1>1 DEF Calls
<1>3. Len(f.vals) <= Operands(f.node.op) /\ OperandsDone(f, Len(f.vals), p)
  BY DEF Progress
<1>4. Len(f.vals) = Operands(f.node.op)
  BY <1>1, <1>2, <1>3
<1> QED
  BY <1>3, <1>4

\* A call that is complete returns what its term is.
LEMMA CompletedRule ==
  ASSUME Rules, NEW V, NEW N, NEW f, FrameOver(f, V, N), ProgramsOver(V, N), NEW p \in Polls,
         Progress(f, p), ~Calls(f), ~Faulty(f), ~Panics(f), ~IsPoll(f)
  PROVE  Evaluates(f.node, f.env, p, Value(f))
<1> DEFINE op == f.node.op
<1>1. /\ Len(f.vals) \in Nat /\ Operands(op) \in 0..2
      /\ op \in Arithmetic \cup Binders \cup {"pair", "left", "right", "lambda", "var", "literal"}
  BY Kinds
<1>2. op \notin Binders => Len(f.vals) = Operands(op) /\ OperandsDone(f, Operands(op), p)
  BY AllDone
<1>3. CASE op \in {"literal", "lambda", "var"}
  <2>1. Operands(op) = 0 /\ op \notin Binders
    BY <1>3 DEF Operands, Arithmetic, Binders
  <2>2. p = <<>>
    BY <1>2, <2>1 DEF OperandsDone
  <2>3. CASE op = "literal"
    <3>1. Value(f) = f.node.value
      BY <2>3 DEF Value, Binders
    <3> QED
      BY <2>2, <2>3, <3>1 DEF Rules, LeafRules
  <2>4. CASE op = "lambda"
    <3>1. Value(f) = [kind |-> "closure", param |-> f.node.names[1], body |-> f.node.args[1],
                      env |-> f.env, rec_name |-> NoName]
      BY <2>4 DEF Value, Binders
    <3>2. Evaluates(f.node, f.env, <<>>,
            [kind |-> "closure", param |-> f.node.names[1], body |-> f.node.args[1],
             env |-> f.env, rec_name |-> NoName])
      BY <2>4 DEF Rules, LeafRules
    <3> QED
      BY <2>2, <3>1, <3>2
  <2>5. CASE op = "var"
    <3>1. f.node.names[1] # "POLL" /\ f.node.names[1] \in DOMAIN f.env
      BY <2>5 DEF IsPoll, Faulty
    <3>2. Value(f) = f.env[f.node.names[1]]
      BY <2>5 DEF Value, Binders
    <3> QED
      BY <2>2, <2>5, <3>1, <3>2 DEF Rules, LeafRules
  <2> QED
    BY <1>3, <2>3, <2>4, <2>5
<1>4. CASE op \in {"left", "right"}
  <2>1. Operands(op) = 1 /\ op \notin Binders
    BY <1>4 DEF Operands, Arithmetic, Binders
  <2>2. Evaluates(f.node.args[1], f.env, p, f.vals[1]) /\ Len(f.vals) = 1
    BY <1>2, <2>1 DEF OperandsDone, OperandDone
  <2>3. f.vals = <<f.vals[1]>>
    <3>1. f.vals \in Seq(V)
      BY DEF FrameOver
    <3> QED
      BY <2>2, <3>1
  <2>4. Value(f) = [kind |-> op, parts |-> f.vals]
    BY <1>4 DEF Value, Binders
  <2>5. Evaluates(f.node, f.env, p, [kind |-> f.node.op, parts |-> <<f.vals[1]>>])
    BY <1>4, <2>2 DEF Rules, InjectionRule
  <2> QED
    BY <2>3, <2>4, <2>5
<1>5. CASE op = "pair" \/ op \in Arithmetic
  <2>1. Operands(op) = 2 /\ op \notin Binders
    BY <1>5 DEF Operands, Arithmetic, Binders
  <2>2. OperandsDone(f, 2, p) /\ Len(f.vals) = 2
    BY <1>2, <2>1
  <2>3. PICK a, b \in Polls : p = a \o b /\ OperandDone(f, 1, a) /\ OperandDone(f, 2, b)
    BY <2>2 DEF OperandsDone
  <2>4. Evaluates(f.node.args[1], f.env, a, f.vals[1]) /\ Evaluates(f.node.args[2], f.env, b, f.vals[2])
    BY <2>3 DEF OperandDone
  <2>5. CASE op = "pair"
    <3>1. f.vals = <<f.vals[1], f.vals[2]>>
      <4>1. f.vals \in Seq(V)
        BY DEF FrameOver
      <4> QED
        BY <2>2, <4>1
    <3>2. Value(f) = [kind |-> "pair", parts |-> f.vals]
      BY <2>5 DEF Value, Binders
    <3>3. Evaluates(f.node, f.env, a \o b, [kind |-> "pair", parts |-> <<f.vals[1], f.vals[2]>>])
      BY <2>4, <2>5 DEF Rules, PairRule
    <3> QED
      BY <2>3, <3>1, <3>2, <3>3
  <2>6. CASE op \in Arithmetic
    <3> DEFINE v == f.vals[1]
               w == f.vals[2]
    <3>1. BothInt(f) /\ (op = "div" => w.n # 0)
      BY <2>6 DEF Faulty
    <3>2. v.kind = "int" /\ w.kind = "int"
      BY <3>1 DEF BothInt
    <3>3. ~(op = "div" /\ w.n = -1 /\ v.n = -(IntRange \div 2))
      BY <3>1 DEF Panics
    <3>4. IF v.kind # "int" \/ w.kind # "int" \/ (op = "div" /\ w.n = 0)
          THEN Faults(f.node, f.env, a \o b)
          ELSE \/ op = "div" /\ w.n = -1 /\ v.n = -(IntRange \div 2)
               \/ Evaluates(f.node, f.env, a \o b, Compute(op, v.n, w.n))
      BY <2>4, <2>6 DEF Rules, ArithmeticRule
    <3>5. Value(f) = Compute(op, v.n, w.n)
      BY <2>6 DEF Value, Arithmetic, Binders
    <3> QED
      BY <2>3, <3>1, <3>2, <3>3, <3>4, <3>5
  <2> QED
    BY <1>5, <2>5, <2>6
<1>6. CASE op \in Binders
  <2>1. Len(f.vals) # Operands(op)
    BY <1>6 DEF Calls, Faulty
  <2>2. Len(f.vals) >= Operands(op)
    BY <1>1 DEF Calls
  <2>3. ~(Len(f.vals) <= Operands(op))
    BY <1>1, <2>1, <2>2
  <2>4. PICK a, b \in Polls : p = a \o b /\ OperandsDone(f, Operands(op), a)
                              /\ BodyDone(f, b, f.vals[Len(f.vals)])
    BY <2>3 DEF Progress
  <2>5. BodyDecides(f.node, f.env, a, Body(f), Scope(f))
    BY <1>6, <2>4, BodyRule DEF BodyDone
  <2>6. Evaluates(f.node, f.env, a \o b, f.vals[Len(f.vals)])
    BY <2>4, <2>5 DEF BodyDone, BodyDecides
  <2>7. Value(f) = f.vals[Len(f.vals)]
    BY <1>6 DEF Value, Binders
  <2> QED
    BY <2>4, <2>6, <2>7
<1> QED
  BY <1>1, <1>3, <1>4, <1>5, <1>6

LEMMA PollRule ==
  ASSUME Rules, NEW V, NEW N, NEW f, FrameOver(f, V, N), ProgramsOver(V, N), NEW p \in Polls,
         Progress(f, p), IsPoll(f), NEW v \in Volumes
  PROVE  p = <<>> /\ Evaluates(f.node, f.env, <<v>>, IntValue(v))
<1>1. f.node.op = "var" /\ f.node.names[1] = "POLL"
  BY DEF IsPoll
<1>2. Operands(f.node.op) = 0 /\ f.node.op \notin Binders
  BY <1>1 DEF Operands, Arithmetic, Binders
<1>3. ~Calls(f)
  <2>1. Len(f.vals) \in Nat
    BY Kinds
  <2> QED
    BY <1>2, <2>1 DEF Calls
<1>4. OperandsDone(f, 0, p)
  BY <1>2, <1>3, AllDone
<1> QED
  BY <1>1, <1>4 DEF OperandsDone, Rules, LeafRules

\* What the code calls an error is a fault of the term.
LEMMA FaultRaised ==
  ASSUME Rules, NEW V, NEW N, NEW f, FrameOver(f, V, N), ProgramsOver(V, N), NEW p \in Polls,
         Progress(f, p), ~Calls(f), Faulty(f)
  PROVE  Faults(f.node, f.env, p)
<1> DEFINE op == f.node.op
<1>1. Len(f.vals) \in Nat /\ Operands(op) \in 0..2
  BY Kinds
<1>2. op \notin Binders => OperandsDone(f, Operands(op), p)
  BY AllDone
<1>3. CASE op \in Binders
  <2>1. Len(f.vals) = Operands(op) /\ ~CanBind(f)
    BY <1>3 DEF Faulty, Binders, Arithmetic
  <2>2. Len(f.vals) # Operands(op) + 1
    BY <1>1, <2>1
  <2>3. OperandsDone(f, Operands(op), p)
    BY <2>1, <2>2 DEF Progress
  <2> QED
    BY <1>3, <2>1, <2>3, BodyRule
<1>4. CASE op \in Arithmetic
  <2>1. Operands(op) = 2 /\ op \notin Binders
    BY <1>4 DEF Operands, Arithmetic, Binders
  <2>2. PICK a, b \in Polls : p = a \o b /\ OperandDone(f, 1, a) /\ OperandDone(f, 2, b)
    BY <1>2, <2>1 DEF OperandsDone
  <2> DEFINE v == f.vals[1]
             w == f.vals[2]
  <2>3. Evaluates(f.node.args[1], f.env, a, v) /\ Evaluates(f.node.args[2], f.env, b, w)
    BY <2>2 DEF OperandDone
  <2>4. v.kind # "int" \/ w.kind # "int" \/ (op = "div" /\ w.n = 0)
    BY <1>4, <2>1 DEF Faulty, BothInt, Arithmetic
  <2>5. IF v.kind # "int" \/ w.kind # "int" \/ (op = "div" /\ w.n = 0)
        THEN Faults(f.node, f.env, a \o b)
        ELSE \/ op = "div" /\ w.n = -1 /\ v.n = -(IntRange \div 2)
             \/ Evaluates(f.node, f.env, a \o b, Compute(op, v.n, w.n))
    BY <1>4, <2>3 DEF Rules, ArithmeticRule
  <2> QED
    BY <2>2, <2>4, <2>5
<1>5. CASE op = "var"
  <2>1. f.node.names[1] # "POLL" /\ f.node.names[1] \notin DOMAIN f.env
    BY <1>5 DEF Faulty, IsPoll, Binders, Arithmetic
  <2>2. OperandsDone(f, 0, p)
    BY <1>2, <1>5 DEF Operands, Arithmetic, Binders
  <2>3. p = <<>>
    BY <2>2 DEF OperandsDone
  <2> QED
    BY <1>5, <2>1, <2>3 DEF Rules, LeafRules
<1>6. op \in Binders \/ op \in Arithmetic \/ op = "var"
  BY DEF Faulty, Arithmetic
<1> QED
  BY <1>3, <1>4, <1>5, <1>6

\* The fault of what a call waits for is its own.
LEMMA FaultPassed ==
  ASSUME Rules, NEW V, NEW N, NEW f, FrameOver(f, V, N), ProgramsOver(V, N),
         NEW p \in Polls, NEW q \in Polls,
         Progress(f, p), Calls(f), Faults(NextCall(f).node, NextCall(f).env, q)
  PROVE  Faults(f.node, f.env, p \o q)
<1> DEFINE op == f.node.op
           k == Len(f.vals)
<1>1. k \in Nat /\ Operands(op) \in 0..2
  BY Kinds
<1> HIDE DEF k
<1>2. CASE k < Operands(op)
  <2>1. OperandsDone(f, k, p)
    BY <1>1, <1>2 DEF Progress, k
  <2>2. Faults(f.node.args[k + 1], f.env, q)
    BY <1>2 DEF NextCall, k
  <2>3. CASE k = 0
    <3>1. p = <<>> /\ Operands(op) >= 1
      BY <1>1, <1>2, <2>1, <2>3 DEF OperandsDone
    <3>2. Faults(f.node, f.env, q)
      BY <2>2, <2>3, <3>1 DEF Rules, OperandFaultRule
    <3> QED
      BY <3>1, <3>2, PollsLaws
  <2>4. CASE k = 1
    <3>1. Operands(op) = 2 /\ OperandDone(f, 1, p)
      BY <1>1, <1>2, <2>1, <2>4 DEF OperandsDone
    <3>2. Evaluates(f.node.args[1], f.env, p, f.vals[1]) /\ Faults(f.node.args[2], f.env, q)
      BY <2>2, <2>4, <3>1 DEF OperandDone
    <3> QED
      BY <3>1, <3>2 DEF Rules, OperandFaultRule
  <2> QED
    BY <1>1, <1>2, <2>3, <2>4
<1>3. CASE ~(k < Operands(op))
  <2>1. op \in Binders /\ k = Operands(op) /\ CanBind(f)
    BY <1>3 DEF Calls, k
  <2>2. OperandsDone(f, Operands(op), p)
    BY <1>1, <2>1 DEF Progress, k
  <2>3. BodyDecides(f.node, f.env, p, Body(f), Scope(f))
    BY <2>1, <2>2, BodyRule
  <2>4. Faults(Body(f), Scope(f), q)
    BY <1>3 DEF NextCall, k
  <2> QED
    BY <2>3, <2>4 DEF BodyDecides
<1> QED
  BY <1>2, <1>3

\* A call that is given a value is otherwise the same.
LEMMA Given ==
  ASSUME NEW f, IsFrame(f), NEW v, NEW g, g = [f EXCEPT !.vals = Append(@, v)]
  PROVE  g.node = f.node /\ g.env = f.env /\ g.vals = Append(f.vals, v)
<1>1. PICK a, b, c : f = [node |-> a, env |-> b, vals |-> c]
  BY DEF IsFrame
<1>2. g = [node |-> a, env |-> b, vals |-> Append(c, v)]
  BY <1>1
<1> QED
  BY <1>1, <1>2

\* A call that has waited for v goes on with it.
LEMMA ReturnedRule ==
  ASSUME NEW V, NEW N, NEW f, IsFrame(f), FrameOver(f, V, N), ProgramsOver(V, N),
         NEW p \in Polls, NEW q \in Polls, NEW v,
         Progress(f, p), Calls(f), Evaluates(NextCall(f).node, NextCall(f).env, q, v)
  PROVE  Progress([f EXCEPT !.vals = Append(@, v)], p \o q)
<1> DEFINE op == f.node.op
           k == Len(f.vals)
           g == [f EXCEPT !.vals = Append(@, v)]
<1>1. k \in Nat /\ Operands(op) \in 0..2
  BY Kinds
<1>2. g.node = f.node /\ g.env = f.env /\ g.vals = Append(f.vals, v)
  BY Given
<1>3. f.vals \in Seq(V \cup {v}) /\ v \in V \cup {v}
  <2>1. f.vals \in Seq(V) /\ V \subseteq V \cup {v}
    BY DEF FrameOver
  <2> QED
    BY <2>1, SeqMonotonic
<1>4. /\ Len(g.vals) = k + 1 /\ g.vals[k + 1] = v
      /\ \A i \in 1..k : g.vals[i] = f.vals[i]
  BY <1>2, <1>3, AppendProperties
<1> HIDE DEF g, k
<1>5. CASE k < Operands(op)
  <2>1. OperandsDone(f, k, p)
    BY <1>1, <1>5 DEF Progress, k
  <2>2. Evaluates(f.node.args[k + 1], f.env, q, v)
    BY <1>5 DEF NextCall, k
  <2>3. OperandDone(g, k + 1, q)
    BY <1>2, <1>4, <2>2 DEF OperandDone
  <2>4. OperandsDone(g, k + 1, p \o q)
    <3>1. CASE k = 0
      <4>1. p \o q = q
        BY <2>1, <3>1, PollsLaws DEF OperandsDone
      <4> QED
        BY <2>3, <3>1, <4>1 DEF OperandsDone
    <3>2. CASE k = 1
      <4>1. OperandDone(g, 1, p)
        BY <1>2, <1>4, <2>1, <3>2 DEF OperandsDone, OperandDone
      <4> QED
        BY <2>3, <3>2, <4>1 DEF OperandsDone
    <3> QED
      BY <1>1, <1>5, <3>1, <3>2
  <2>5. Len(g.vals) <= Operands(g.node.op) /\ Len(g.vals) = k + 1
    BY <1>1, <1>2, <1>4, <1>5
  <2>6. Progress(g, p \o q)
    BY <2>4, <2>5 DEF Progress
  <2> QED
    BY <2>6 DEF g
<1>6. CASE ~(k < Operands(op))
  <2>1. op \in Binders /\ k = Operands(op) /\ CanBind(f)
    BY <1>6 DEF Calls, k
  <2>2. OperandsDone(f, k, p)
    BY <1>1, <2>1 DEF Progress, k
  <2>3. Evaluates(Body(f), Scope(f), q, v)
    BY <1>6 DEF NextCall, k
  <2>4. k >= 1 /\ (op = "app" => k = 2)
    BY <2>1 DEF Operands, Binders, Arithmetic
  <2>5. g.vals[1] = f.vals[1] /\ (op = "app" => g.vals[2] = f.vals[2])
    BY <1>1, <1>4, <2>4
  <2>6. OperandsDone(g, k, p)
    <3>1. CASE k = 1
      <4>1. OperandDone(f, 1, p)
        BY <2>2, <3>1 DEF OperandsDone
      <4>2. OperandDone(g, 1, p)
        BY <1>2, <2>5, <4>1 DEF OperandDone
      <4> QED
        BY <3>1, <4>2 DEF OperandsDone
    <3>2. CASE k = 2
      <4>1. PICK a, b \in Polls : p = a \o b /\ OperandDone(f, 1, a) /\ OperandDone(f, 2, b)
        BY <2>2, <3>2 DEF OperandsDone
      <4>2. g.vals[2] = f.vals[2]
        BY <1>4, <3>2
      <4>3. OperandDone(g, 1, a) /\ OperandDone(g, 2, b)
        BY <1>2, <2>5, <4>1, <4>2 DEF OperandDone
      <4>4. \E r, t \in Polls : p = r \o t /\ OperandDone(g, 1, r) /\ OperandDone(g, 2, t)
        BY <4>1, <4>3
      <4>5. OperandsDone(g, 2, p)
        BY <4>4, 2 \in 0..2, 2 # 0, 2 # 1, Zenon DEF OperandsDone
      <4> QED
        BY <3>2, <4>5
    <3> QED
      BY <1>1, <2>1, <2>4, <3>1, <3>2
  <2>7. (CanBind(g) <=> CanBind(f)) /\ Body(g) = Body(f)
    BY <1>2, <2>5 DEF CanBind, Body
  <2>8. Scope(g) = Scope(f)
    <3>1. CASE op = "app"
      BY <1>2, <2>5, <3>1 DEF Scope
    <3>2. CASE op # "app"
      BY <1>2, <2>1, <2>5, <3>2 DEF Scope, Binders
    <3> QED
      BY <3>1, <3>2
  <2>9. BodyDone(g, q, v)
    BY <2>1, <2>3, <2>7, <2>8 DEF BodyDone
  <2>10. Progress(g, p \o q)
    BY <1>2, <1>4, <2>1, <2>6, <2>9 DEF Progress
  <2> QED
    BY <2>10 DEF g
<1> QED
  BY <1>5, <1>6

-----------------------------------------------------------------------------
(* The rules: the calls in progress *)

Root == Parse(source).root

\* What call i has polled is d[i], behind b[i] of the calls that wait for it.
Account(b, d) ==
  /\ b \in [1..Len(stack) -> Polls] /\ d \in [1..Len(stack) -> Polls]
  /\ b[1] = <<>> /\ polled = b[Len(stack)] \o d[Len(stack)]
  /\ \A i \in 1..(Len(stack) - 1) : b[i + 1] = b[i] \o d[i]
  /\ \A i \in 1..Len(stack) : Progress(stack[i], d[i])

\* A fault of any call is one of the program.
Doomed(b) ==
  \A i \in 1..Len(stack) : \A q \in Polls :
    Faults(stack[i].node, stack[i].env, q) => Faults(Root, Seeds, b[i] \o q)

Verdict ==
  IF outcome = "value" THEN Evaluates(Root, Seeds, polled, result) ELSE Faults(Root, Seeds, polled)

RulesInv ==
  /\ polled \in Polls
  /\ phase = "idle" => polled = <<>>
  /\ phase = "eval" => /\ stack # <<>> /\ stack[1].node = Root /\ stack[1].env = Seeds
                       /\ \E b, d : Account(b, d) /\ Doomed(b)
  /\ phase \in {"commit", "answer"} \/ receipts # <<>> \/ answer # "unwritten" => Verdict

LEMMA RulesInit == Init => RulesInv
BY PollsLaws DEF Init, RulesInv

LEMMA RulesStart ==
  ASSUME Rules, TypeInv, RulesInv, Start
  PROVE  RulesInv'
<1> DEFINE f == [node |-> Parse(source').root, env |-> Seeds, vals |-> <<>>]
           z == [i \in 1..1 |-> <<>>]
<1>1. stack' = <<f>> /\ polled' = <<>> /\ polled = <<>>
  BY DEF Start, RulesInv
<1>2. f.node = Root' /\ f.env = Seeds /\ f.vals = <<>>
  BY DEF Root
<1> HIDE DEF f
<1>3. Len(stack') = 1 /\ stack'[1] = f /\ stack' # <<>>
  BY <1>1
<1>4. Progress(f, <<>>)
  <2>1. Len(f.vals) = 0 /\ Operands(f.node.op) \in 0..2
    BY <1>2, OperandsArity
  <2> QED
    BY <2>1 DEF Progress, OperandsDone
<1>5. z \in [1..1 -> Polls] /\ z[1] = <<>>
  BY PollsLaws
<1> HIDE DEF z
<1>6. Account(z, z)'
  <2>1. <<>> \o <<>> = <<>>
    OBVIOUS
  <2> QED
    BY <1>1, <1>3, <1>4, <1>5, <2>1 DEF Account
<1>7. Doomed(z)'
  <2> SUFFICES ASSUME NEW i \in 1..Len(stack'), NEW q \in Polls,
                      Faults(stack'[i].node, stack'[i].env, q)
               PROVE  Faults(Root', Seeds, z[i] \o q)
    BY DEF Doomed
  <2>1. i = 1
    BY <1>3
  <2>2. z[i] \o q = q
    BY <1>5, <2>1, PollsLaws
  <2> QED
    BY <1>2, <1>3, <2>1, <2>2
<1>8. phase' = "eval" /\ receipts' = <<>> /\ answer' = "unwritten"
  BY DEF Start, TypeInv, ReceiptInv, ReceiptSoFar, ReceiptPerMatch
<1> QED
  BY <1>1, <1>2, <1>3, <1>6, <1>7, <1>8, PollsLaws DEF RulesInv

LEMMA RulesEnter ==
  ASSUME Rules, TypeInv, RulesInv, Enter
  PROVE  RulesInv'
<1> DEFINE f == [node |-> NextCall(Top).node, env |-> NextCall(Top).env, vals |-> <<>>]
<1>1. PICK S : stack \in Seq(S)
  BY DEF TypeInv, StackInv, StackShape
<1>2. PICK n \in Nat : n = Len(stack)
  BY <1>1
<1>3. /\ stack' = Append(stack, f) /\ n > 0 /\ Calls(Top) /\ Top = stack[n] /\ phase = "eval"
      /\ UNCHANGED <<phase, source, outcome, result, receipts, answer, polled>>
  BY <1>1, <1>2 DEF Enter, Running, Top
<1>4. f.node = NextCall(Top).node /\ f.env = NextCall(Top).env /\ f.vals = <<>>
  OBVIOUS
<1> HIDE DEF f
<1>5. stack \in Seq(S \cup {f}) /\ f \in S \cup {f}
  BY <1>1, SeqMonotonic
<1>6. /\ Len(stack') = n + 1 /\ stack'[n + 1] = f /\ stack' # <<>>
      /\ \A i \in 1..n : stack'[i] = stack[i]
  BY <1>2, <1>3, <1>5, AppendProperties
<1>7. PICK b, d : Account(b, d) /\ Doomed(b)
  BY <1>3 DEF RulesInv
<1>8. /\ b \in [1..n -> Polls] /\ d \in [1..n -> Polls] /\ b[1] = <<>>
      /\ polled = b[n] \o d[n] /\ polled \in Polls
      /\ \A i \in 1..(n - 1) : b[i + 1] = b[i] \o d[i]
      /\ \A i \in 1..n : Progress(stack[i], d[i])
  BY <1>2, <1>7 DEF Account, RulesInv
<1>9. PICK c \in [1..(n + 1) -> Polls], e \in [1..(n + 1) -> Polls] :
        /\ c[n + 1] = polled /\ e[n + 1] = <<>>
        /\ \A i \in 1..n : c[i] = b[i] /\ e[i] = d[i]
  <2> DEFINE c == [i \in 1..(n + 1) |-> IF i = n + 1 THEN polled ELSE b[i]]
             e == [i \in 1..(n + 1) |-> IF i = n + 1 THEN <<>> ELSE d[i]]
  <2>1. \A i \in 1..(n + 1) : i # n + 1 => i \in 1..n
    BY <1>2
  <2>2. \A i \in 1..n : i # n + 1 /\ i \in 1..(n + 1)
    BY <1>2
  <2>3. n + 1 \in 1..(n + 1)
    BY <1>2
  <2>4. /\ c \in [1..(n + 1) -> Polls] /\ e \in [1..(n + 1) -> Polls]
        /\ c[n + 1] = polled /\ e[n + 1] = <<>>
        /\ \A i \in 1..n : c[i] = b[i] /\ e[i] = d[i]
    BY <1>8, <2>1, <2>2, <2>3, PollsLaws
  <2> HIDE DEF c, e
  <2> QED
    BY <2>4
<1>10. Progress(f, <<>>)
  <2>1. Len(f.vals) = 0 /\ Operands(f.node.op) \in 0..2
    BY <1>4, OperandsArity
  <2> QED
    BY <2>1 DEF Progress, OperandsDone
<1>11. Account(c, e)'
  <2>1. c[1] = <<>>
    BY <1>2, <1>3, <1>8, <1>9
  <2>2. polled' = c[n + 1] \o e[n + 1]
    BY <1>3, <1>8, <1>9, PollsLaws
  <2>3. ASSUME NEW i \in 1..n PROVE c[i + 1] = c[i] \o e[i]
    <3>1. CASE i = n
      BY <1>8, <1>9, <3>1
    <3>2. CASE i # n
      <4>1. i \in 1..(n - 1) /\ i + 1 \in 1..n
        BY <1>2, <3>2
      <4> QED
        BY <1>8, <1>9, <4>1
    <3> QED
      BY <3>1, <3>2
  <2>4. ASSUME NEW i \in 1..(n + 1) PROVE Progress(stack'[i], e[i])
    <3>1. CASE i = n + 1
      BY <1>6, <1>9, <1>10, <3>1
    <3>2. CASE i # n + 1
      <4>1. i \in 1..n
        BY <1>2, <3>2
      <4> QED
        BY <1>6, <1>8, <1>9, <4>1
    <3> QED
      BY <3>1, <3>2
  <2>5. PICK m \in Nat : m = Len(stack') /\ m = n + 1 /\ m - 1 = n
    BY <1>2, <1>6
  <2>6. c \in [1..m -> Polls] /\ e \in [1..m -> Polls] /\ polled' = c[m] \o e[m]
    BY <1>9, <2>2, <2>5
  <2>7. \A i \in 1..(m - 1) : c[i + 1] = c[i] \o e[i]
    BY <2>3, <2>5
  <2>8. \A i \in 1..m : Progress(stack'[i], e[i])
    BY <2>4, <2>5
  <2> QED
    BY <2>1, <2>5, <2>6, <2>7, <2>8, Zenon DEF Account
<1>12. Root' = Root
  BY <1>3 DEF Root
<1>13. Doomed(c)'
  <2> SUFFICES ASSUME NEW i \in 1..Len(stack'), NEW q \in Polls,
                      Faults(stack'[i].node, stack'[i].env, q)
               PROVE  Faults(Root', Seeds, c[i] \o q)
    BY DEF Doomed
  <2> i \in 1..(n + 1)
    BY <1>6
  <2>1. CASE i = n + 1
    <3>1. PICK V, N : ProgramsOver(V, N) /\ StackOver(V, N)
      BY DEF TypeInv, Grounded
    <3>2. FrameOver(Top, V, N)
      BY <1>2, <1>3, <3>1 DEF StackOver
    <3>3. n \in 1..n /\ d[n] \in Polls /\ b[n] \in Polls
      BY <1>2, <1>3, <1>8
    <3>4. Progress(Top, d[n])
      BY <1>3, <1>8, <3>3
    <3>5. Faults(NextCall(Top).node, NextCall(Top).env, q)
      BY <1>4, <1>6, <2>1
    <3>6. Faults(Top.node, Top.env, d[n] \o q)
      BY <1>3, <3>1, <3>2, <3>3, <3>4, <3>5, FaultPassed
    <3>7. d[n] \o q \in Polls
      BY <3>3, PollsLaws
    <3>8. Faults(Root, Seeds, b[n] \o (d[n] \o q))
      BY <1>2, <1>3, <1>7, <3>3, <3>6, <3>7 DEF Doomed
    <3>9. c[i] \o q = b[n] \o (d[n] \o q)
      <4>1. (b[n] \o d[n]) \o q = b[n] \o (d[n] \o q)
        BY <3>3, PollsLaws
      <4>2. c[i] = b[n] \o d[n]
        BY <1>8, <1>9, <2>1
      <4> QED
        BY <4>1, <4>2
    <3> QED
      BY <1>12, <3>8, <3>9
  <2>2. CASE i # n + 1
    <3>1. i \in 1..n
      BY <1>2, <2>2
    <3> QED
      BY <1>2, <1>6, <1>7, <1>9, <1>12, <3>1 DEF Doomed
  <2> QED
    BY <2>1, <2>2
<1>14. stack'[1] = stack[1] /\ receipts' = <<>> /\ answer' = "unwritten"
  BY <1>2, <1>3, <1>6 DEF TypeInv, ReceiptInv, ReceiptSoFar, ReceiptPerMatch
<1> QED
  BY <1>3, <1>6, <1>11, <1>12, <1>13, <1>14 DEF RulesInv

\* What the innermost call returns is the program's, or its caller's to go on with.
LEMMA RulesReturn ==
  ASSUME Rules, TypeInv, RulesInv, Running, NEW b, NEW d, Account(b, d), Doomed(b),
         NEW e \in Polls, NEW v, Evaluates(Top.node, Top.env, e, v), Return(v),
         polled' = b[Len(stack)] \o e, UNCHANGED <<source, receipts, answer>>
  PROVE  RulesInv'
<1>1. PICK S : stack \in Seq(S)
  BY DEF TypeInv, StackInv, StackShape
<1>2. PICK n \in Nat : n = Len(stack)
  BY <1>1
<1>3. n > 0 /\ Top = stack[n] /\ phase = "eval" /\ polled' = b[n] \o e
  BY <1>1, <1>2 DEF Running, Top
<1>4. /\ b \in [1..n -> Polls] /\ d \in [1..n -> Polls] /\ b[1] = <<>>
      /\ polled = b[n] \o d[n]
      /\ \A i \in 1..(n - 1) : b[i + 1] = b[i] \o d[i]
      /\ \A i \in 1..n : Progress(stack[i], d[i])
  BY <1>2 DEF Account
<1>5. Root' = Root /\ receipts' = <<>> /\ answer' = "unwritten"
  BY <1>3 DEF Root, TypeInv, ReceiptInv, ReceiptSoFar, ReceiptPerMatch
<1>6. stack[1].node = Root /\ stack[1].env = Seeds
  BY <1>3 DEF RulesInv
<1>7. polled' \in Polls
  <2>1. n \in 1..n
    BY <1>3
  <2> QED
    BY <1>3, <1>4, <2>1, PollsLaws
<1>8. CASE n = 1
  <2>1. outcome' = "value" /\ result' = v /\ phase' = "commit"
    BY <1>2, <1>8 DEF Return
  <2>2. polled' = e
    BY <1>3, <1>4, <1>8, PollsLaws
  <2>3. Evaluates(Root, Seeds, e, v)
    BY <1>3, <1>6, <1>8
  <2>4. Verdict'
    BY <1>5, <2>1, <2>2, <2>3 DEF Verdict
  <2> QED
    BY <1>7, <2>1, <2>4 DEF RulesInv
<1>9. CASE n # 1
  <2>1. PICK m \in Nat : m = n - 1 /\ m + 1 = n /\ m >= 1 /\ m \in 1..n /\ m \in 1..m
    BY <1>3, <1>9
  <2>2. PICK g : /\ g = [stack[m] EXCEPT !.vals = Append(@, v)]
                 /\ stack' = [i \in 1..m |-> IF i = m THEN g ELSE stack[i]]
                 /\ phase' = phase
    <3>1. /\ stack' = [i \in 1..(n - 1) |->
                         IF i = n - 1 THEN [stack[i] EXCEPT !.vals = Append(@, v)] ELSE stack[i]]
          /\ phase' = phase
      BY <1>2, <1>9 DEF Return
    <3>2. n - 1 = m
      BY <2>1
    <3>3. /\ stack' = [i \in 1..m |->
                         IF i = m THEN [stack[i] EXCEPT !.vals = Append(@, v)] ELSE stack[i]]
          /\ phase' = phase
      BY <3>1, <3>2, Zenon
    <3>4. PICK g : g = [stack[m] EXCEPT !.vals = Append(@, v)]
      OBVIOUS
    <3>5. \A i \in 1..m : (IF i = m THEN [stack[i] EXCEPT !.vals = Append(@, v)] ELSE stack[i])
                        = (IF i = m THEN g ELSE stack[i])
      BY <3>4, Zenon
    <3>6. stack' = [i \in 1..m |-> IF i = m THEN g ELSE stack[i]]
      BY <3>3, <3>5, Zenon
    <3> QED
      BY <3>3, <3>4, <3>6
  <2>3. IsFrame(stack[m]) /\ Calls(stack[m]) /\ m \in 1..(n - 1)
    BY <1>2, <2>1 DEF TypeInv, StackInv, StackShape, Waiting
  <2>4. PICK V, N : ProgramsOver(V, N) /\ StackOver(V, N)
    BY DEF TypeInv, Grounded
  <2>5. FrameOver(stack[m], V, N)
    BY <1>2, <2>1, <2>4 DEF StackOver
  <2>6. [node |-> Top.node, env |-> Top.env] = NextCall(stack[m])
    BY <1>2, <1>3, <2>1, <2>3 DEF TypeInv, StackInv, StackDiscipline
  <2>7. Evaluates(NextCall(stack[m]).node, NextCall(stack[m]).env, e, v)
    <3>1. NextCall(stack[m]).node = Top.node /\ NextCall(stack[m]).env = Top.env
      BY <2>6
    <3> QED
      BY <3>1
  <2>8. d[m] \in Polls /\ b[m] \in Polls /\ Progress(stack[m], d[m]) /\ b[n] = b[m] \o d[m]
    BY <1>4, <2>1, <2>3
  <2>9. Progress(g, d[m] \o e)
    BY <2>2, <2>3, <2>4, <2>5, <2>7, <2>8, ReturnedRule
  <2>10. g.node = stack[m].node /\ g.env = stack[m].env
    BY <2>2, <2>3, Given
  <2>11. Len(stack') = m
    <3>1. \A i \in 1..m : stack[i] \in S /\ (IF i = m THEN g ELSE stack[i]) \in S \cup {g}
      BY <1>1, <1>2, <2>1
    <3>2. stack' \in [1..m -> S \cup {g}]
      BY <2>2, <3>1, Zenon
    <3> QED
      BY <2>1, <3>2
  <2>12. stack'[m] = g /\ \A i \in 1..m : i # m => stack'[i] = stack[i]
    BY <2>2, <2>1
  <2>13. \A i \in 1..m : stack'[i].node = stack[i].node /\ stack'[i].env = stack[i].env
    BY <2>10, <2>12
  <2>14. PICK a \in [1..m -> Polls], h \in [1..m -> Polls] :
           /\ \A i \in 1..m : a[i] = b[i]
           /\ h[m] = d[m] \o e
           /\ \A i \in 1..m : i # m => h[i] = d[i]
    <3> DEFINE a == [i \in 1..m |-> b[i]]
               h == [i \in 1..m |-> IF i = m THEN d[m] \o e ELSE d[i]]
    <3>1. \A i \in 1..m : i \in 1..n
      BY <2>1
    <3>2. d[m] \o e \in Polls
      BY <2>8, PollsLaws
    <3>3. /\ a \in [1..m -> Polls] /\ h \in [1..m -> Polls]
          /\ \A i \in 1..m : a[i] = b[i]
          /\ h[m] = d[m] \o e
          /\ \A i \in 1..m : i # m => h[i] = d[i]
      BY <1>4, <2>1, <3>1, <3>2
    <3> HIDE DEF a, h
    <3> QED
      BY <3>3
  <2>15. Account(a, h)'
    <3>1. a[1] = <<>>
      BY <1>4, <2>1, <2>14
    <3>2. polled' = a[m] \o h[m]
      <4>1. (b[m] \o d[m]) \o e = b[m] \o (d[m] \o e)
        BY <2>8, PollsLaws
      <4> QED
        BY <1>3, <2>1, <2>8, <2>14, <4>1
    <3>3. ASSUME NEW i \in 1..(m - 1) PROVE a[i + 1] = a[i] \o h[i]
      <4>1. i \in 1..m /\ i + 1 \in 1..m /\ i # m /\ i \in 1..(n - 1)
        BY <2>1
      <4> QED
        BY <1>4, <2>14, <4>1
    <3>4. ASSUME NEW i \in 1..m PROVE Progress(stack'[i], h[i])
      <4>1. CASE i = m
        BY <2>9, <2>12, <2>14, <4>1
      <4>2. CASE i # m
        <5>1. i \in 1..n
          BY <2>1
        <5> QED
          BY <1>4, <2>12, <2>14, <4>2, <5>1
      <4> QED
        BY <4>1, <4>2
    <3> QED
      BY <2>11, <2>14, <3>1, <3>2, <3>3, <3>4 DEF Account
  <2>16. Doomed(a)'
    <3> SUFFICES ASSUME NEW i \in 1..Len(stack'), NEW q \in Polls,
                        Faults(stack'[i].node, stack'[i].env, q)
                 PROVE  Faults(Root', Seeds, a[i] \o q)
      BY DEF Doomed
    <3>1. i \in 1..m /\ i \in 1..Len(stack)
      BY <1>2, <2>1, <2>11
    <3>2. Faults(stack[i].node, stack[i].env, q)
      BY <2>13, <3>1
    <3>3. Faults(Root, Seeds, b[i] \o q)
      BY <3>1, <3>2 DEF Doomed
    <3> QED
      BY <1>5, <2>14, <3>1, <3>3
  <2>17. stack' # <<>> /\ stack'[1].node = Root' /\ stack'[1].env = Seeds
    <3>1. stack' # <<>>
      BY <2>1, <2>11
    <3>2. 1 \in 1..m
      BY <2>1
    <3> QED
      BY <1>5, <1>6, <2>13, <3>1, <3>2
  <2> QED
    BY <1>3, <1>5, <1>7, <2>2, <2>15, <2>16, <2>17 DEF RulesInv
<1> QED
  BY <1>8, <1>9

LEMMA RulesYield ==
  ASSUME Rules, TypeInv, RulesInv, Yield
  PROVE  RulesInv'
<1>1. /\ Running /\ ~Calls(Top) /\ ~Faulty(Top) /\ ~Panics(Top) /\ ~IsPoll(Top)
      /\ Return(Value(Top)) /\ UNCHANGED <<source, receipts, answer, polled>>
  BY DEF Yield
<1>2. PICK b, d : Account(b, d) /\ Doomed(b)
  BY <1>1 DEF RulesInv, Running
<1>3. PICK S : stack \in Seq(S)
  BY DEF TypeInv, StackInv, StackShape
<1>4. PICK n \in Nat : n = Len(stack) /\ n \in 1..n
  BY <1>1, <1>3 DEF Running
<1>5. d[n] \in Polls /\ Progress(Top, d[n]) /\ polled' = b[n] \o d[n]
  BY <1>1, <1>2, <1>4 DEF Account, Top
<1>6. PICK V, N : ProgramsOver(V, N) /\ StackOver(V, N)
  BY DEF TypeInv, Grounded
<1>7. FrameOver(Top, V, N)
  BY <1>4, <1>6 DEF StackOver, Top
<1>8. Evaluates(Top.node, Top.env, d[n], Value(Top))
  BY <1>1, <1>5, <1>6, <1>7, CompletedRule
<1> QED
  BY <1>1, <1>2, <1>4, <1>5, <1>8, RulesReturn

LEMMA RulesPoll ==
  ASSUME Rules, TypeInv, RulesInv, Poll
  PROVE  RulesInv'
<1>1. PICK v \in Volumes : polled' = Append(polled, v) /\ Return(IntValue(v))
  BY DEF Poll
<1>2. Running /\ IsPoll(Top) /\ UNCHANGED <<source, receipts, answer>>
  BY DEF Poll
<1>3. PICK b, d : Account(b, d) /\ Doomed(b)
  BY <1>2 DEF RulesInv, Running
<1>4. PICK S : stack \in Seq(S)
  BY DEF TypeInv, StackInv, StackShape
<1>5. PICK n \in Nat : n = Len(stack) /\ n \in 1..n
  BY <1>2, <1>4 DEF Running
<1>6. d[n] \in Polls /\ b[n] \in Polls /\ Progress(Top, d[n]) /\ polled = b[n] \o d[n]
  BY <1>3, <1>5 DEF Account, Top
<1>7. PICK V, N : ProgramsOver(V, N) /\ StackOver(V, N)
  BY DEF TypeInv, Grounded
<1>8. FrameOver(Top, V, N)
  BY <1>5, <1>7 DEF StackOver, Top
<1>9. d[n] = <<>> /\ Evaluates(Top.node, Top.env, <<v>>, IntValue(v))
  BY <1>2, <1>6, <1>7, <1>8, PollRule
<1>10. polled' = b[n] \o <<v>> /\ <<v>> \in Polls
  <2>1. b[n] \in Seq(Volumes) /\ polled = b[n]
    BY <1>6, <1>9, PollsLaws DEF Polls
  <2>2. Append(b[n], v) = b[n] \o <<v>>
    BY <2>1, AppendIsConcat
  <2> QED
    BY <1>1, <2>1, <2>2, PollsLaws
<1> QED
  BY <1>1, <1>2, <1>3, <1>5, <1>9, <1>10, RulesReturn

LEMMA RulesFault ==
  ASSUME Rules, TypeInv, RulesInv, Fault
  PROVE  RulesInv'
<1>1. /\ Running /\ ~Calls(Top) /\ Faulty(Top) /\ outcome' = "fault" /\ phase' = "answer"
      /\ UNCHANGED <<source, receipts, answer, polled>>
  BY DEF Fault
<1>2. PICK b, d : Account(b, d) /\ Doomed(b)
  BY <1>1 DEF RulesInv, Running
<1>3. PICK S : stack \in Seq(S)
  BY DEF TypeInv, StackInv, StackShape
<1>4. PICK n \in Nat : n = Len(stack) /\ n \in 1..n
  BY <1>1, <1>3 DEF Running
<1>5. d[n] \in Polls /\ Progress(Top, d[n]) /\ polled = b[n] \o d[n]
  BY <1>2, <1>4 DEF Account, Top
<1>6. PICK V, N : ProgramsOver(V, N) /\ StackOver(V, N)
  BY DEF TypeInv, Grounded
<1>7. FrameOver(Top, V, N)
  BY <1>4, <1>6 DEF StackOver, Top
<1>8. Faults(Top.node, Top.env, d[n])
  BY <1>1, <1>5, <1>6, <1>7, FaultRaised
<1>9. Faults(Root, Seeds, polled)
  BY <1>2, <1>4, <1>5, <1>8 DEF Doomed, Top
<1>10. Verdict'
  BY <1>1, <1>9 DEF Verdict, Root
<1> QED
  BY <1>1, <1>10 DEF RulesInv

LEMMA RulesNext ==
  ASSUME Rules, TypeInv, RulesInv, [Next]_vars
  PROVE  RulesInv'
<1>1. CASE Reject
  BY <1>1 DEF Reject, RulesInv, TypeInv, ReceiptInv, ReceiptSoFar, ReceiptPerMatch
<1>2. CASE Start
  BY <1>2, RulesStart
<1>3. CASE Enter
  BY <1>3, RulesEnter
<1>4. CASE Yield
  BY <1>4, RulesYield
<1>5. CASE Poll
  BY <1>5, RulesPoll
<1>6. CASE Fault
  BY <1>6, RulesFault
<1>7. CASE Overflow \/ Panic \/ NoMemory
  <2>1. /\ phase' \in {"overrun", "halted"}
        /\ UNCHANGED <<source, outcome, result, receipts, answer, polled>>
    BY <1>7 DEF Overflow, Panic, NoMemory
  <2>2. Verdict' <=> Verdict
    BY <2>1 DEF Verdict, Root
  <2> QED
    BY <2>1, <2>2 DEF RulesInv
<1>8. CASE Commit \/ WriteAnswer
  <2>1. /\ phase \in {"commit", "answer"} /\ phase' \in {"answer", "returned"}
        /\ UNCHANGED <<source, outcome, result, polled>>
    BY <1>8 DEF Commit, WriteAnswer
  <2>2. Verdict' <=> Verdict
    BY <2>1 DEF Verdict, Root
  <2> QED
    BY <2>1, <2>2 DEF RulesInv
<1>9. CASE UNCHANGED vars
  <2>1. Verdict' <=> Verdict
    BY <1>9 DEF vars, Verdict, Root
  <2>2. \A b, d : (Account(b, d)' <=> Account(b, d)) /\ (Doomed(b)' <=> Doomed(b))
    BY <1>9 DEF vars, Account, Doomed, Root
  <2> QED
    BY <1>9, <2>1, <2>2 DEF vars, RulesInv, Root
<1> QED
  BY <1>1, <1>2, <1>3, <1>4, <1>5, <1>6, <1>7, <1>8, <1>9 DEF Next, Step

\* Whatever the program, an execution that commits or answers has evaluated it
\* by the rules, with the volumes it polled: the calls on the stack, the faults
\* that pass through all of them at once and the environments they are given
\* come to what a term is made of, for the least relations that keep the rules
\* as for any other.
THEOREM RulesAreKept ==
  ASSUME NEW V, NEW N, ProgramsOver(V, N), Rules
  PROVE  Spec => []EvaluatesByTheRules
<1>1. Init => TypeInv /\ RulesInv
  BY TypeInit, RulesInit
<1>2. TypeInv /\ RulesInv /\ [Next]_vars => TypeInv' /\ RulesInv'
  BY TypeNext, RulesNext
<1>3. RulesInv => EvaluatesByTheRules
  BY DEF RulesInv, EvaluatesByTheRules, Verdict, Root
<1> QED
  BY <1>1, <1>2, <1>3, PTL DEF Spec

-----------------------------------------------------------------------------
(* Texts *)

LEMMA TextLaws ==
  /\ <<>> \in Texts /\ Len(<<>>) = 0
  /\ \A a \in Texts : Len(a) \in Nat /\ a \o <<>> = a /\ <<>> \o a = a
  /\ \A a, b \in Texts : a \o b \in Texts /\ Len(a \o b) = Len(a) + Len(b)
  /\ \A a, b, c \in Texts : (a \o b) \o c = a \o (b \o c)
<1>1. <<>> \in Texts /\ Len(<<>>) = 0
  BY DEF Texts
<1>2. \A a \in Texts : Len(a) \in Nat /\ a \o <<>> = a /\ <<>> \o a = a
  BY LenProperties, ConcatEmptySeq DEF Texts
<1>3. \A a, b \in Texts : a \o b \in Texts /\ Len(a \o b) = Len(a) + Len(b)
  BY ConcatProperties DEF Texts
<1>4. \A a, b, c \in Texts : (a \o b) \o c = a \o (b \o c)
  BY ConcatAssociative DEF Texts
<1> QED
  BY <1>1, <1>2, <1>3, <1>4

\* The words of a text that begins with another.
LEMMA Prefix ==
  ASSUME NEW a \in Texts, NEW b \in Texts
  PROVE  /\ Skip(a \o b, Len(a)) = b
         /\ \A i \in 1..Len(a) : Word(a \o b, i) = a[i]
<1>1. a \in Seq(Words) /\ b \in Seq(Words) /\ Len(a) \in Nat /\ Len(b) \in Nat
  BY LenProperties DEF Texts
<1>2. /\ a \o b \in Seq(Words) /\ Len(a \o b) = Len(a) + Len(b)
      /\ \A i \in 1..(Len(a) + Len(b)) :
           (a \o b)[i] = IF i <= Len(a) THEN a[i] ELSE b[i - Len(a)]
  BY <1>1, ConcatProperties
<1>3. Skip(a \o b, Len(a)) = b
  <2> DEFINE k == Len(a)
             m == Len(b)
             c == a \o b
             d == SubSeq(c, k + 1, k + m)
  <2>1. \A i \in (k + 1)..(k + m) : c[i] \in Words
    BY <1>1, <1>2, ElementOfSeq
  <2>2. k \in Nat /\ m \in Nat
    BY <1>1
  <2> HIDE DEF k, m, c
  <2>3. /\ d \in Seq(Words) /\ Len(d) = IF k + 1 <= k + m THEN (k + m) - (k + 1) + 1 ELSE 0
        /\ \A i \in 1..((k + m) - (k + 1) + 1) : d[i] = c[(k + 1) + i - 1]
    BY <2>1, <2>2, SubSeqProperties
  <2>4. Len(d) = m
    BY <2>2, <2>3
  <2>5. \A i \in 1..m : d[i] = b[i]
    <3> SUFFICES ASSUME NEW i \in 1..m PROVE d[i] = b[i]
      OBVIOUS
    <3>1. i \in 1..((k + m) - (k + 1) + 1) /\ (k + 1) + i - 1 = k + i /\ k + i \in 1..(k + m)
          /\ ~(k + i <= k) /\ (k + i) - k = i
      BY <2>2
    <3>2. d[i] = c[k + i]
      BY <2>3, <3>1
    <3> QED
      BY <1>2, <3>1, <3>2 DEF c, k, m
  <2> HIDE DEF d
  <2>6. d = b
    BY <1>1, <2>3, <2>4, <2>5, SeqEqual DEF m
  <2> QED
    BY <1>2, <2>6 DEF Skip, c, d, k, m
<1>4. ASSUME NEW i \in 1..Len(a) PROVE Word(a \o b, i) = a[i]
  <2>1. i \in 1..(Len(a) + Len(b)) /\ i <= Len(a)
    BY <1>1
  <2> QED
    BY <1>2, <2>1 DEF Word
<1> QED
  BY <1>3, <1>4

LEMMA Skipped ==
  ASSUME NEW a \in Texts, NEW n \in Nat
  PROVE  /\ Skip(a, n) \in Texts /\ Len(Skip(a, n)) <= Len(a)
         /\ n > 0 /\ a # <<>> => Len(Skip(a, n)) < Len(a)
<1>1. a \in Seq(Words) /\ Len(a) \in Nat /\ (a # <<>> => Len(a) > 0)
  BY LenProperties DEF Texts
<1> DEFINE k == Len(a)
<1>2. \A i \in (n + 1)..k : a[i] \in Words
  BY <1>1, ElementOfSeq
<1>3. k \in Nat
  BY <1>1
<1> HIDE DEF k
<1>4. /\ SubSeq(a, n + 1, k) \in Seq(Words)
      /\ Len(SubSeq(a, n + 1, k)) = IF n + 1 <= k THEN k - (n + 1) + 1 ELSE 0
  BY <1>2, <1>3, SubSeqProperties
<1>5. Skip(a, n) = SubSeq(a, n + 1, k)
  BY DEF Skip, k
<1> QED
  BY <1>1, <1>3, <1>4, <1>5 DEF k, Texts

-----------------------------------------------------------------------------
(* The parser's functions are what their definitions say *)

LEMMA Least ==
  ASSUME NEW T, T \subseteq Nat, T # {}
  PROVE  \E m \in T : \A k \in T : m <= k
  <1> DEFINE R == StrictSubsetOrdering(Nat)
             U == {1..n : n \in T}
  <1>1. IsWellFoundedOn(R, FiniteSubsetsOf(Nat))
    BY FS_StrictSubsetOrderingWellFounded
  <1>2. U \subseteq FiniteSubsetsOf(Nat) /\ U # {}
    <2>1. ASSUME NEW n \in T PROVE 1..n \in FiniteSubsetsOf(Nat)
      <3>1. IsFiniteSet(1..n)
        BY FS_Interval
      <3> QED
        BY <3>1 DEF FiniteSubsetsOf
    <2> QED
      BY <2>1
  <1>3. \A j, k \in T : k < j => <<1..k, 1..j>> \in R
    BY DEF StrictSubsetOrdering
  <1> HIDE DEF R, U
  <1>4. PICK V \in U : \A W \in U : ~ (<<W, V>> \in R)
    BY <1>1, <1>2, WFMin
  <1>5. PICK m \in T : V = 1..m
    BY DEF U
  <1>6. \A k \in T : 1..k \in U
    BY DEF U
  <1>7. \A k \in T : ~(k < m)
    BY <1>3, <1>4, <1>5, <1>6
  <1>8. m \in Nat /\ \A k \in T : k \in Nat
    OBVIOUS
  <1>9. \A k \in T : m <= k
    BY <1>7, <1>8
  <1> QED
    BY <1>9

LEMMA Induction ==
  ASSUME NEW S, 0 \in S, \A n \in Nat : n \in S => n + 1 \in S
  PROVE  Nat \subseteq S
  <1> SUFFICES ASSUME Nat \ S # {} PROVE FALSE
    OBVIOUS
  <1>1. PICK m \in Nat \ S : \A k \in Nat \ S : m <= k
    BY Least
  <1>2. m # 0 /\ m - 1 \in Nat
    BY <1>1
  <1>3. m - 1 \in S
    BY <1>1, <1>2
  <1>4. (m - 1) + 1 \in S /\ (m - 1) + 1 = m
    BY <1>2, <1>3
  <1> QED
    BY <1>1, <1>4

\* What TypeStep says of a text depends on shorter texts only.
TypesUpTo(T, n) == \A v \in Texts : Len(v) < n => T[v] = TypeStep(T, v) /\ T[v] \in Nat
SameUpTo(F, G, n) == \A v \in Texts : Len(v) < n => F[v] = G[v]

LEMMA TypeLocal ==
  ASSUME NEW T, NEW U, NEW w \in Texts, SameUpTo(T, U, Len(w)), TypesUpTo(T, Len(w))
  PROVE  TypeStep(T, w) = TypeStep(U, w) /\ TypeStep(T, w) \in Nat
<1>1. CASE Word(w, 1) \in {"Pair", "Either"}
  <2>1. w # <<>>
    <3>1. Word(<<>>, 1) = ""
      BY TextLaws DEF Word
    <3> QED
      BY <1>1, <3>1
  <2>2. Skip(w, 2) \in Texts /\ Len(Skip(w, 2)) < Len(w)
    BY <2>1, Skipped
  <2> DEFINE first == T[Skip(w, 2)]
  <2>3. first = U[Skip(w, 2)] /\ first \in Nat
    BY <2>2 DEF SameUpTo, TypesUpTo
  <2>4. Skip(w, 3 + first) \in Texts /\ Len(Skip(w, 3 + first)) < Len(w)
    BY <2>1, <2>3, Skipped
  <2> DEFINE second == T[Skip(w, 3 + first)]
  <2>5. second = U[Skip(w, 3 + first)] /\ second \in Nat
    BY <2>4 DEF SameUpTo, TypesUpTo
  <2>6. TypeStep(T, w) = IF first = 0 \/ second = 0 THEN 0 ELSE 4 + first + second
    BY <1>1 DEF TypeStep
  <2>7. TypeStep(U, w) = IF first = 0 \/ second = 0 THEN 0 ELSE 4 + first + second
    BY <1>1, <2>3, <2>5 DEF TypeStep
  <2> HIDE DEF first, second
  <2>8. (IF first = 0 \/ second = 0 THEN 0 ELSE 4 + first + second) \in Nat
    BY <2>3, <2>5
  <2> QED
    BY <2>6, <2>7, <2>8
<1>2. CASE Word(w, 1) \notin {"Pair", "Either"}
  BY <1>2 DEF TypeStep
<1> QED
  BY <1>1, <1>2

LEMMA SameTypes ==
  ASSUME NEW n \in Nat, NEW T, NEW U, TypesUpTo(T, n), TypesUpTo(U, n)
  PROVE  SameUpTo(T, U, n)
<1> DEFINE S == {k \in Nat : \A F, G : TypesUpTo(F, k) /\ TypesUpTo(G, k) => SameUpTo(F, G, k)}
<1>1. 0 \in S
  <2>1. \A v \in Texts : ~(Len(v) < 0)
    BY TextLaws
  <2> QED
    BY <2>1 DEF SameUpTo
<1>2. ASSUME NEW k \in Nat, k \in S PROVE k + 1 \in S
  <2> SUFFICES ASSUME NEW F, NEW G, TypesUpTo(F, k + 1), TypesUpTo(G, k + 1), NEW v \in Texts, Len(v) < k + 1
               PROVE  F[v] = G[v]
    BY DEF SameUpTo
  <2>1. Len(v) \in Nat /\ \A u \in Texts : Len(u) \in Nat
    BY TextLaws
  <2>2. \A u \in Texts : Len(u) < k => Len(u) < k + 1
    BY <2>1
  <2>3. TypesUpTo(F, k) /\ TypesUpTo(G, k)
    BY <2>2 DEF TypesUpTo
  <2>4. SameUpTo(F, G, k)
    BY <1>2, <2>3
  <2>5. \A u \in Texts : Len(u) < Len(v) => Len(u) < k /\ Len(u) < k + 1
    BY <2>1
  <2>6. SameUpTo(F, G, Len(v)) /\ TypesUpTo(F, Len(v))
    BY <2>4, <2>5 DEF SameUpTo, TypesUpTo
  <2>7. TypeStep(F, v) = TypeStep(G, v)
    BY <2>6, TypeLocal
  <2> QED
    BY <2>7 DEF TypesUpTo
<1> HIDE DEF S
<1>3. n \in S
  BY <1>1, <1>2, Induction
<1> QED
  BY <1>3 DEF S

LEMMA TypesExist ==
  ASSUME NEW n \in Nat
  PROVE  \E T : TypesUpTo(T, n)
<1> DEFINE S == {k \in Nat : \E T : TypesUpTo(T, k)}
<1>1. 0 \in S
  <2>1. \A v \in Texts : ~(Len(v) < 0)
    BY TextLaws
  <2>2. TypesUpTo(<<>>, 0)
    BY <2>1 DEF TypesUpTo
  <2> QED
    BY <2>2
<1>2. ASSUME NEW k \in Nat, k \in S PROVE k + 1 \in S
  <2>1. PICK T : TypesUpTo(T, k)
    BY <1>2
  <2> DEFINE U == [v \in Texts |-> IF Len(v) < k THEN T[v] ELSE TypeStep(T, v)]
  <2>2. \A v \in Texts : U[v] = TypeStep(T, v)
    BY <2>1 DEF TypesUpTo
  <2>3. SameUpTo(T, U, k)
    BY <2>1 DEF SameUpTo
  <2> HIDE DEF U
  <2>4. ASSUME NEW v \in Texts, Len(v) < k + 1 PROVE U[v] = TypeStep(U, v) /\ U[v] \in Nat
    <3>1. Len(v) \in Nat /\ \A u \in Texts : Len(u) \in Nat
      BY TextLaws
    <3>2. \A u \in Texts : Len(u) < Len(v) => Len(u) < k
      BY <2>4, <3>1
    <3>3. SameUpTo(T, U, Len(v)) /\ TypesUpTo(T, Len(v))
      BY <2>1, <2>3, <3>2 DEF SameUpTo, TypesUpTo
    <3> QED
      BY <2>2, <3>3, TypeLocal
  <2>5. TypesUpTo(U, k + 1)
    BY <2>4 DEF TypesUpTo
  <2> QED
    BY <2>5
<1> HIDE DEF S
<1>3. n \in S
  BY <1>1, <1>2, Induction
<1> QED
  BY <1>3 DEF S

\* The definition has the meaning that it seems to have.
LEMMA TypeLengthDef ==
  /\ TypeLength = [w \in Texts |-> TypeStep(TypeLength, w)]
  /\ \A n \in Nat : TypesUpTo(TypeLength, n)
<1> DEFINE Upto(w) == CHOOSE T : TypesUpTo(T, Len(w) + 1)
           F == [w \in Texts |-> Upto(w)[w]]
<1>1. ASSUME NEW w \in Texts PROVE TypesUpTo(Upto(w), Len(w) + 1)
  <2>1. Len(w) + 1 \in Nat
    BY TextLaws
  <2>2. \E T : TypesUpTo(T, Len(w) + 1)
    BY <2>1, TypesExist
  <2> QED
    BY <2>2
<1>2. \A w \in Texts : F[w] = Upto(w)[w]
  OBVIOUS
<1> HIDE DEF F, Upto
<1>3. ASSUME NEW w \in Texts PROVE SameUpTo(Upto(w), F, Len(w)) /\ TypesUpTo(Upto(w), Len(w))
  <2>1. Len(w) \in Nat /\ \A v \in Texts : Len(v) \in Nat
    BY TextLaws
  <2>2. TypesUpTo(Upto(w), Len(w))
    BY <1>1, <2>1 DEF TypesUpTo
  <2>3. ASSUME NEW v \in Texts, Len(v) < Len(w) PROVE Upto(w)[v] = F[v]
    <3>1. \A u \in Texts : Len(u) < Len(v) + 1 => Len(u) < Len(w)
      BY <2>1, <2>3
    <3>2. TypesUpTo(Upto(w), Len(v) + 1)
      BY <2>2, <3>1 DEF TypesUpTo
    <3>3. TypesUpTo(Upto(v), Len(v) + 1)
      BY <1>1
    <3>4. Len(v) + 1 \in Nat /\ Len(v) < Len(v) + 1
      BY <2>1
    <3>5. SameUpTo(Upto(w), Upto(v), Len(v) + 1)
      BY <3>2, <3>3, <3>4, SameTypes
    <3>6. Upto(w)[v] = Upto(v)[v]
      BY <3>4, <3>5 DEF SameUpTo
    <3> QED
      BY <1>2, <3>6
  <2> QED
    BY <2>2, <2>3 DEF SameUpTo
<1>4. ASSUME NEW w \in Texts PROVE F[w] = TypeStep(F, w) /\ F[w] \in Nat
  <2>1. TypeStep(Upto(w), w) = TypeStep(F, w)
    BY <1>3, TypeLocal
  <2>2. Len(w) < Len(w) + 1
    BY TextLaws
  <2>3. Upto(w)[w] = TypeStep(Upto(w), w) /\ Upto(w)[w] \in Nat
    BY <1>1, <2>2 DEF TypesUpTo
  <2> QED
    BY <1>2, <2>1, <2>3
<1>5. F = [w \in Texts |-> TypeStep(F, w)]
  <2>1. F = [w \in Texts |-> F[w]]
    BY DEF F
  <2> QED
    BY <1>4, <2>1, Zenon
<1>6. TypeLength = CHOOSE f : f = [w \in Texts |-> TypeStep(f, w)]
  BY DEF TypeLength
<1>7. TypeLength = [w \in Texts |-> TypeStep(TypeLength, w)]
  BY <1>5, <1>6, Zenon
<1>8. \A w \in Texts : TypeLength[w] = TypeStep(TypeLength, w)
  BY <1>7, Zenon
<1>9. ASSUME NEW n \in Nat PROVE TypesUpTo(TypeLength, n)
  <2> DEFINE S == {k \in Nat : TypesUpTo(TypeLength, k)}
  <2>1. 0 \in S
    <3>1. \A v \in Texts : ~(Len(v) < 0)
      BY TextLaws
    <3> QED
      BY <3>1 DEF TypesUpTo
  <2>2. ASSUME NEW k \in Nat, k \in S PROVE k + 1 \in S
    <3> SUFFICES ASSUME NEW v \in Texts, Len(v) < k + 1 PROVE TypeLength[v] \in Nat
      BY <1>8 DEF TypesUpTo
    <3>1. \A u \in Texts : Len(u) \in Nat
      BY TextLaws
    <3>2. \A u \in Texts : Len(u) < Len(v) => Len(u) < k
      BY <3>1
    <3>3. TypesUpTo(TypeLength, Len(v)) /\ SameUpTo(TypeLength, TypeLength, Len(v))
      BY <2>2, <3>2 DEF TypesUpTo, SameUpTo
    <3> QED
      BY <1>8, <3>3, TypeLocal
  <2> HIDE DEF S
  <2>3. n \in S
    BY <2>1, <2>2, Induction
  <2> QED
    BY <2>3 DEF S
<1> QED
  BY <1>7, <1>9

-----------------------------------------------------------------------------
(* What a step makes of a text, by its first word *)

Starts == BinaryWords \cup {"Left", "Right", "match", "let", "unpack", "\\", "("}

LEMMA EmptyStep == \A F : TermStep(F, <<>>) = Failed
<1>1. Word(<<>>, 1) = ""
  BY TextLaws DEF Word
<1> QED
  BY <1>1 DEF TermStep, BinaryWords

LEMMA LeafStep ==
  ASSUME NEW w, w # <<>>, Word(w, 1) \notin Starts
  PROVE  \A F : TermStep(F, w) =
           IF Literal(Word(w, 1)) = {} THEN Done(Node("var", <<Word(w, 1)>>, <<>>), Skip(w, 1))
           ELSE Done([op |-> "literal", value |-> CHOOSE v \in Literal(Word(w, 1)) : TRUE,
                      names |-> <<>>, args |-> <<>>], Skip(w, 1))
BY DEF TermStep, Starts

LEMMA BinaryStep ==
  ASSUME NEW w, w # <<>>, Word(w, 1) \in BinaryWords
  PROVE  \A F : TermStep(F, w) =
           LET l == F[Skip(w, 1)]
               r == F[l.rest]
           IN Combine(Word(w, 1), <<>>, <<l, r>>, r.rest)
BY DEF TermStep, BinaryWords

LEMMA InjectionStep ==
  ASSUME NEW w, w # <<>>, Word(w, 1) \in {"Left", "Right"}
  PROVE  \A F : TermStep(F, w) =
           LET v == F[Skip(Skip(w, 1), 1)]
           IN Combine(IF Word(w, 1) = "Left" THEN "left" ELSE "right", <<>>, <<v>>, Skip(v.rest, 1))
BY DEF TermStep, BinaryWords

LEMMA MatchStep ==
  ASSUME NEW w, w # <<>>, Word(w, 1) = "match"
  PROVE  \A F : TermStep(F, w) =
           LET e == F[Skip(w, 1)]
               l == F[Skip(e.rest, 6)]
               between == Between(l.rest)
               r == F[Skip(l.rest, between + 4)]
           IN Combine("match", <<Word(e.rest, 4), Word(l.rest, between + 2)>>, <<e, l, r>>, Skip(r.rest, 1))
BY DEF TermStep, BinaryWords

LEMMA LetStep ==
  ASSUME NEW w, w # <<>>, Word(w, 1) = "let"
  PROVE  \A F : TermStep(F, w) =
           LET rest == Skip(w, 1)
               rec == IF Word(rest, 1) = "rec" THEN 1 ELSE 0
               val == F[Skip(rest, rec + 2)]
               body == F[Skip(val.rest, 1)]
           IN Combine(IF rec = 1 THEN "letrec" ELSE "let", <<Word(rest, rec + 1)>>, <<val, body>>, body.rest)
BY DEF TermStep, BinaryWords

LEMMA UnpackStep ==
  ASSUME NEW w, w # <<>>, Word(w, 1) = "unpack"
  PROVE  \A F : TermStep(F, w) =
           LET rest == Skip(w, 1)
               pair == F[Skip(rest, 3)]
               body == F[Skip(pair.rest, 1)]
           IN Combine("unpack", <<Word(rest, 1), Word(rest, 2)>>, <<pair, body>>, body.rest)
BY DEF TermStep, BinaryWords

LEMMA LambdaStep ==
  ASSUME NEW w, w # <<>>, Word(w, 1) = "\\"
  PROVE  \A F : TermStep(F, w) =
           LET rest == Skip(w, 1)
               type == TypeLength[Skip(rest, 2)]
               body == F[Skip(rest, type + 3)]
           IN IF type = 0 THEN Failed ELSE Combine("lambda", <<Word(rest, 1)>>, <<body>>, body.rest)
BY DEF TermStep, BinaryWords

LEMMA BracketStep ==
  ASSUME NEW w, w # <<>>, Word(w, 1) = "("
  PROVE  \A F : TermStep(F, w) =
           LET first == F[Skip(w, 1)]
               second == F[first.rest]
           IN IF Word(first.rest, 1) = ")" THEN [first EXCEPT !.rest = Skip(@, 1)]
              ELSE Combine("app", <<>>, <<first, second>>, Skip(second.rest, 1))
BY DEF TermStep, BinaryWords

-----------------------------------------------------------------------------
(* A step depends on shorter texts only *)

\* A parse that leaves at most n words.
Leaves(p, n) ==
  /\ p = [ok |-> p.ok, node |-> p.node, rest |-> p.rest]
  /\ p.rest \in Texts /\ Len(p.rest) <= n

TermsUpTo(P, n) == \A v \in Texts : Len(v) < n => P[v] = TermStep(P, v) /\ Leaves(P[v], Len(v))

LEMMA LeavesRecord ==
  ASSUME NEW ok, NEW node, NEW r \in Texts, NEW n \in Nat, Len(r) <= n
  PROVE  Leaves([ok |-> ok, node |-> node, rest |-> r], n)
BY DEF Leaves

LEMMA DoneLeaves ==
  ASSUME NEW node, NEW r \in Texts, NEW n \in Nat, Len(r) <= n
  PROVE  Leaves(Done(node, r), n)
BY LeavesRecord DEF Done

LEMMA FailedLeaves == \A n \in Nat : Leaves(Failed, n)
<1> SUFFICES ASSUME NEW n \in Nat PROVE Leaves(Failed, n)
  OBVIOUS
<1>1. <<>> \in Texts /\ Len(<<>>) <= n
  BY TextLaws
<1> QED
  BY <1>1, LeavesRecord DEF Failed

LEMMA CombineLeaves ==
  ASSUME NEW op, NEW names, NEW parts, NEW r \in Texts, NEW n \in Nat, Len(r) <= n
  PROVE  Leaves(Combine(op, names, parts, r), n)
BY DoneLeaves, FailedLeaves DEF Combine

\* A text behind w, of which less is left.
Behind(v, w) == v \in Texts /\ Len(v) < Len(w)

LEMMA BehindSkip ==
  ASSUME NEW w \in Texts, NEW v, NEW k \in Nat, Behind(v, w)
  PROVE  Behind(Skip(v, k), w)
<1>1. Skip(v, k) \in Texts /\ Len(Skip(v, k)) <= Len(v) /\ v \in Texts
  BY Skipped DEF Behind
<1>2. Len(Skip(v, k)) \in Nat /\ Len(v) \in Nat /\ Len(w) \in Nat
  BY <1>1, TextLaws
<1> QED
  BY <1>1, <1>2 DEF Behind

LEMMA BehindParse ==
  ASSUME NEW P, NEW U, NEW w \in Texts, SameUpTo(P, U, Len(w)), TermsUpTo(P, Len(w)),
         NEW v, Behind(v, w)
  PROVE  P[v] = U[v] /\ Behind(P[v].rest, w)
<1>1. v \in Texts /\ Len(v) < Len(w)
  BY DEF Behind
<1>2. P[v] = U[v] /\ Leaves(P[v], Len(v))
  BY <1>1 DEF SameUpTo, TermsUpTo
<1>3. P[v].rest \in Texts /\ Len(P[v].rest) <= Len(v)
  BY <1>2 DEF Leaves
<1>4. Len(P[v].rest) \in Nat /\ Len(v) \in Nat /\ Len(w) \in Nat
  BY <1>1, <1>3, TextLaws
<1> QED
  BY <1>1, <1>2, <1>3, <1>4 DEF Behind

LEMMA TermLocal ==
  ASSUME NEW P, NEW U, NEW w \in Texts, SameUpTo(P, U, Len(w)), TermsUpTo(P, Len(w))
  PROVE  TermStep(P, w) = TermStep(U, w) /\ Leaves(TermStep(P, w), Len(w))
<1> DEFINE word == Word(w, 1)
<1>1. CASE w = <<>>
  BY <1>1, EmptyStep, FailedLeaves, TextLaws
<1>2. CASE w # <<>>
  <2>1. Len(w) \in Nat /\ \A v : Behind(v, w) => v \in Texts /\ Len(v) <= Len(w)
    <3>1. Len(w) \in Nat /\ \A v \in Texts : Len(v) \in Nat
      BY TextLaws
    <3> QED
      BY <3>1 DEF Behind
  <2>2. \A k \in Nat : k > 0 => Behind(Skip(w, k), w)
    BY <1>2, Skipped DEF Behind
  <2>3. \A v : Behind(v, w) => P[v] = U[v] /\ Behind(P[v].rest, w)
    BY BehindParse
  <2>4. \A v, k : Behind(v, w) /\ k \in Nat => Behind(Skip(v, k), w)
    BY BehindSkip
  <2>5. \A op, names, parts, v : Behind(v, w) => Leaves(Combine(op, names, parts, v), Len(w))
    BY <2>1, CombineLeaves
  <2>6. 0 \in Nat /\ 1 \in Nat /\ 2 \in Nat /\ 3 \in Nat /\ 6 \in Nat /\ 1 > 0
    OBVIOUS
  <2>7. Behind(Skip(w, 1), w)
    BY <2>2, <2>6
  <2>8. CASE word \notin Starts
    <3>1. Leaves(Done(Node("var", <<word>>, <<>>), Skip(w, 1)), Len(w))
      BY <2>1, <2>7, DoneLeaves
    <3>2. Leaves(Done([op |-> "literal", value |-> CHOOSE v \in Literal(word) : TRUE,
                       names |-> <<>>, args |-> <<>>], Skip(w, 1)), Len(w))
      BY <2>1, <2>7, DoneLeaves
    <3> QED
      BY <1>2, <2>8, <3>1, <3>2, LeafStep
  <2>9. CASE word \in BinaryWords
    <3> DEFINE l == P[Skip(w, 1)]
               r == P[l.rest]
    <3>1. l = U[Skip(w, 1)] /\ Behind(l.rest, w)
      BY <2>3, <2>7
    <3>2. r = U[l.rest] /\ Behind(r.rest, w)
      BY <2>3, <3>1
    <3>3. TermStep(P, w) = Combine(word, <<>>, <<l, r>>, r.rest)
      BY <1>2, <2>9, BinaryStep
    <3>4. TermStep(U, w) = Combine(word, <<>>, <<l, r>>, r.rest)
      BY <1>2, <2>9, <3>1, <3>2, BinaryStep
    <3> QED
      BY <2>5, <3>2, <3>3, <3>4
  <2>10. CASE word \in {"Left", "Right"}
    <3> DEFINE v == P[Skip(Skip(w, 1), 1)]
    <3>1. Behind(Skip(Skip(w, 1), 1), w)
      BY <2>4, <2>6, <2>7
    <3>2. v = U[Skip(Skip(w, 1), 1)] /\ Behind(v.rest, w)
      BY <2>3, <3>1
    <3>3. Behind(Skip(v.rest, 1), w)
      BY <2>4, <2>6, <3>2
    <3> DEFINE op == IF word = "Left" THEN "left" ELSE "right"
    <3>4. TermStep(P, w) = Combine(op, <<>>, <<v>>, Skip(v.rest, 1))
      BY <1>2, <2>10, InjectionStep
    <3>5. TermStep(U, w) = Combine(op, <<>>, <<v>>, Skip(v.rest, 1))
      BY <1>2, <2>10, <3>2, InjectionStep
    <3> QED
      BY <2>5, <3>3, <3>4, <3>5
  <2>11. CASE word = "match"
    <3> DEFINE e == P[Skip(w, 1)]
               l == P[Skip(e.rest, 6)]
               between == Between(l.rest)
               r == P[Skip(l.rest, between + 4)]
    <3>1. e = U[Skip(w, 1)] /\ Behind(e.rest, w)
      BY <2>3, <2>7
    <3>2. Behind(Skip(e.rest, 6), w)
      BY <2>4, <2>6, <3>1
    <3>3. l = U[Skip(e.rest, 6)] /\ Behind(l.rest, w)
      BY <2>3, <3>2
    <3>4. between + 4 \in Nat
      BY DEF Between
    <3>5. Behind(Skip(l.rest, between + 4), w)
      BY <2>4, <3>3, <3>4
    <3>6. r = U[Skip(l.rest, between + 4)] /\ Behind(r.rest, w)
      BY <2>3, <3>5
    <3>7. Behind(Skip(r.rest, 1), w)
      BY <2>4, <2>6, <3>6
    <3>8. TermStep(P, w) = Combine("match", <<Word(e.rest, 4), Word(l.rest, between + 2)>>, <<e, l, r>>,
                                   Skip(r.rest, 1))
      BY <1>2, <2>11, MatchStep
    <3>9. TermStep(U, w) = Combine("match", <<Word(e.rest, 4), Word(l.rest, between + 2)>>, <<e, l, r>>,
                                   Skip(r.rest, 1))
      BY <1>2, <2>11, <3>1, <3>3, <3>6, MatchStep
    <3> QED
      BY <2>5, <3>7, <3>8, <3>9
  <2>12. CASE word = "let"
    <3> DEFINE rest == Skip(w, 1)
               rec == IF Word(rest, 1) = "rec" THEN 1 ELSE 0
               val == P[Skip(rest, rec + 2)]
               body == P[Skip(val.rest, 1)]
               op == IF rec = 1 THEN "letrec" ELSE "let"
    <3>1. rec + 2 \in Nat
      OBVIOUS
    <3>2. Behind(Skip(rest, rec + 2), w)
      BY <2>4, <2>7, <3>1
    <3>3. val = U[Skip(rest, rec + 2)] /\ Behind(val.rest, w)
      BY <2>3, <3>2
    <3>4. Behind(Skip(val.rest, 1), w)
      BY <2>4, <2>6, <3>3
    <3>5. body = U[Skip(val.rest, 1)] /\ Behind(body.rest, w)
      BY <2>3, <3>4
    <3>6. TermStep(P, w) = Combine(op, <<Word(rest, rec + 1)>>, <<val, body>>, body.rest)
      BY <1>2, <2>12, LetStep
    <3>7. TermStep(U, w) = Combine(op, <<Word(rest, rec + 1)>>, <<val, body>>, body.rest)
      BY <1>2, <2>12, <3>3, <3>5, LetStep
    <3> QED
      BY <2>5, <3>5, <3>6, <3>7
  <2>13. CASE word = "unpack"
    <3> DEFINE rest == Skip(w, 1)
               pair == P[Skip(rest, 3)]
               body == P[Skip(pair.rest, 1)]
    <3>1. Behind(Skip(rest, 3), w)
      BY <2>4, <2>6, <2>7
    <3>2. pair = U[Skip(rest, 3)] /\ Behind(pair.rest, w)
      BY <2>3, <3>1
    <3>3. Behind(Skip(pair.rest, 1), w)
      BY <2>4, <2>6, <3>2
    <3>4. body = U[Skip(pair.rest, 1)] /\ Behind(body.rest, w)
      BY <2>3, <3>3
    <3>5. TermStep(P, w) = Combine("unpack", <<Word(rest, 1), Word(rest, 2)>>, <<pair, body>>, body.rest)
      BY <1>2, <2>13, UnpackStep
    <3>6. TermStep(U, w) = Combine("unpack", <<Word(rest, 1), Word(rest, 2)>>, <<pair, body>>, body.rest)
      BY <1>2, <2>13, <3>2, <3>4, UnpackStep
    <3> QED
      BY <2>5, <3>4, <3>5, <3>6
  <2>14. CASE word = "\\"
    <3> DEFINE rest == Skip(w, 1)
               type == TypeLength[Skip(rest, 2)]
               body == P[Skip(rest, type + 3)]
    <3>1. Behind(Skip(rest, 2), w)
      BY <2>4, <2>6, <2>7
    <3>2. type \in Nat
      <4>1. Skip(rest, 2) \in Texts /\ Len(Skip(rest, 2)) < Len(w)
        BY <3>1 DEF Behind
      <4>2. TypesUpTo(TypeLength, Len(w))
        BY <2>1, TypeLengthDef
      <4> QED
        BY <4>1, <4>2 DEF TypesUpTo
    <3>3. type + 3 \in Nat
      <4> HIDE DEF type
      <4> QED
        BY <3>2
    <3>4. Behind(Skip(rest, type + 3), w)
      BY <2>4, <2>7, <3>3
    <3>5. body = U[Skip(rest, type + 3)] /\ Behind(body.rest, w)
      BY <2>3, <3>4
    <3>6. TermStep(P, w) = IF type = 0 THEN Failed
                           ELSE Combine("lambda", <<Word(rest, 1)>>, <<body>>, body.rest)
      BY <1>2, <2>14, LambdaStep
    <3>7. TermStep(U, w) = IF type = 0 THEN Failed
                           ELSE Combine("lambda", <<Word(rest, 1)>>, <<body>>, body.rest)
      BY <1>2, <2>14, <3>5, LambdaStep
    <3> QED
      BY <2>1, <2>5, <3>5, <3>6, <3>7, FailedLeaves
  <2>15. CASE word = "("
    <3> DEFINE first == P[Skip(w, 1)]
               second == P[first.rest]
    <3>1. first = U[Skip(w, 1)] /\ Behind(first.rest, w)
      BY <2>3, <2>7
    <3>2. second = U[first.rest] /\ Behind(second.rest, w)
      BY <2>3, <3>1
    <3>3. Behind(Skip(first.rest, 1), w) /\ Behind(Skip(second.rest, 1), w)
      BY <2>4, <2>6, <3>1, <3>2
    <3>4. Leaves([first EXCEPT !.rest = Skip(@, 1)], Len(w))
      <4>1. Leaves(first, Len(Skip(w, 1)))
        BY <2>7 DEF Behind, TermsUpTo
      <4>2. PICK ok, node, r : first = [ok |-> ok, node |-> node, rest |-> r]
        BY <4>1 DEF Leaves
      <4>3. [first EXCEPT !.rest = Skip(@, 1)] = [ok |-> ok, node |-> node, rest |-> Skip(r, 1)]
        BY <4>2
      <4>4. first.rest = r
        BY <4>2
      <4>5. Skip(r, 1) \in Texts /\ Len(Skip(r, 1)) <= Len(w)
        BY <2>1, <3>3, <4>4
      <4> HIDE DEF first
      <4> QED
        BY <2>1, <4>3, <4>5, LeavesRecord
    <3>5. TermStep(P, w) = IF Word(first.rest, 1) = ")" THEN [first EXCEPT !.rest = Skip(@, 1)]
                           ELSE Combine("app", <<>>, <<first, second>>, Skip(second.rest, 1))
      BY <1>2, <2>15, BracketStep
    <3>6. TermStep(U, w) = IF Word(first.rest, 1) = ")" THEN [first EXCEPT !.rest = Skip(@, 1)]
                           ELSE Combine("app", <<>>, <<first, second>>, Skip(second.rest, 1))
      BY <1>2, <2>15, <3>1, <3>2, BracketStep
    <3> QED
      BY <2>5, <3>3, <3>4, <3>5, <3>6
  <2> QED
    BY <2>8, <2>9, <2>10, <2>11, <2>12, <2>13, <2>14, <2>15 DEF Starts
<1> QED
  BY <1>1, <1>2

LEMMA SameTerms ==
  ASSUME NEW n \in Nat, NEW T, NEW U, TermsUpTo(T, n), TermsUpTo(U, n)
  PROVE  SameUpTo(T, U, n)
<1> DEFINE S == {k \in Nat : \A F, G : TermsUpTo(F, k) /\ TermsUpTo(G, k) => SameUpTo(F, G, k)}
<1>1. 0 \in S
  <2>1. \A v \in Texts : ~(Len(v) < 0)
    BY TextLaws
  <2> QED
    BY <2>1 DEF SameUpTo
<1>2. ASSUME NEW k \in Nat, k \in S PROVE k + 1 \in S
  <2> SUFFICES ASSUME NEW F, NEW G, TermsUpTo(F, k + 1), TermsUpTo(G, k + 1), NEW v \in Texts, Len(v) < k + 1
               PROVE  F[v] = G[v]
    BY DEF SameUpTo
  <2>1. Len(v) \in Nat /\ \A u \in Texts : Len(u) \in Nat
    BY TextLaws
  <2>2. \A u \in Texts : Len(u) < k => Len(u) < k + 1
    BY <2>1
  <2>3. TermsUpTo(F, k) /\ TermsUpTo(G, k)
    BY <2>2 DEF TermsUpTo
  <2>4. SameUpTo(F, G, k)
    BY <1>2, <2>3
  <2>5. \A u \in Texts : Len(u) < Len(v) => Len(u) < k /\ Len(u) < k + 1
    BY <2>1
  <2>6. SameUpTo(F, G, Len(v)) /\ TermsUpTo(F, Len(v))
    BY <2>4, <2>5 DEF SameUpTo, TermsUpTo
  <2>7. TermStep(F, v) = TermStep(G, v)
    BY <2>6, TermLocal
  <2> QED
    BY <2>7 DEF TermsUpTo
<1> HIDE DEF S
<1>3. n \in S
  BY <1>1, <1>2, Induction
<1> QED
  BY <1>3 DEF S

LEMMA TermsExist ==
  ASSUME NEW n \in Nat
  PROVE  \E T : TermsUpTo(T, n)
<1> DEFINE S == {k \in Nat : \E T : TermsUpTo(T, k)}
<1>1. 0 \in S
  <2>1. \A v \in Texts : ~(Len(v) < 0)
    BY TextLaws
  <2>2. TermsUpTo(<<>>, 0)
    BY <2>1 DEF TermsUpTo
  <2> QED
    BY <2>2
<1>2. ASSUME NEW k \in Nat, k \in S PROVE k + 1 \in S
  <2>1. PICK T : TermsUpTo(T, k)
    BY <1>2
  <2> DEFINE U == [v \in Texts |-> IF Len(v) < k THEN T[v] ELSE TermStep(T, v)]
  <2>2. \A v \in Texts : U[v] = TermStep(T, v)
    BY <2>1 DEF TermsUpTo
  <2>3. SameUpTo(T, U, k)
    BY <2>1 DEF SameUpTo
  <2> HIDE DEF U
  <2>4. ASSUME NEW v \in Texts, Len(v) < k + 1 PROVE U[v] = TermStep(U, v) /\ Leaves(U[v], Len(v))
    <3>1. Len(v) \in Nat /\ \A u \in Texts : Len(u) \in Nat
      BY TextLaws
    <3>2. \A u \in Texts : Len(u) < Len(v) => Len(u) < k
      BY <2>4, <3>1
    <3>3. SameUpTo(T, U, Len(v)) /\ TermsUpTo(T, Len(v))
      BY <2>1, <2>3, <3>2 DEF SameUpTo, TermsUpTo
    <3> QED
      BY <2>2, <3>3, TermLocal
  <2>5. TermsUpTo(U, k + 1)
    BY <2>4 DEF TermsUpTo
  <2> QED
    BY <2>5
<1> HIDE DEF S
<1>3. n \in S
  BY <1>1, <1>2, Induction
<1> QED
  BY <1>3 DEF S

LEMMA ParseTermDef ==
  /\ ParseTerm = [w \in Texts |-> TermStep(ParseTerm, w)]
  /\ \A w \in Texts : ParseTerm[w] = TermStep(ParseTerm, w)
<1> DEFINE Upto(w) == CHOOSE T : TermsUpTo(T, Len(w) + 1)
           F == [w \in Texts |-> Upto(w)[w]]
<1>1. ASSUME NEW w \in Texts PROVE TermsUpTo(Upto(w), Len(w) + 1)
  <2>1. Len(w) + 1 \in Nat
    BY TextLaws
  <2>2. \E T : TermsUpTo(T, Len(w) + 1)
    BY <2>1, TermsExist
  <2> QED
    BY <2>2
<1>2. \A w \in Texts : F[w] = Upto(w)[w]
  OBVIOUS
<1> HIDE DEF F, Upto
<1>3. ASSUME NEW w \in Texts PROVE SameUpTo(Upto(w), F, Len(w)) /\ TermsUpTo(Upto(w), Len(w))
  <2>1. Len(w) \in Nat /\ \A v \in Texts : Len(v) \in Nat
    BY TextLaws
  <2>2. TermsUpTo(Upto(w), Len(w))
    BY <1>1, <2>1 DEF TermsUpTo
  <2>3. ASSUME NEW v \in Texts, Len(v) < Len(w) PROVE Upto(w)[v] = F[v]
    <3>1. \A u \in Texts : Len(u) < Len(v) + 1 => Len(u) < Len(w)
      BY <2>1, <2>3
    <3>2. TermsUpTo(Upto(w), Len(v) + 1)
      BY <2>2, <3>1 DEF TermsUpTo
    <3>3. TermsUpTo(Upto(v), Len(v) + 1)
      BY <1>1
    <3>4. Len(v) + 1 \in Nat /\ Len(v) < Len(v) + 1
      BY <2>1
    <3>5. SameUpTo(Upto(w), Upto(v), Len(v) + 1)
      BY <3>2, <3>3, <3>4, SameTerms
    <3>6. Upto(w)[v] = Upto(v)[v]
      BY <3>4, <3>5 DEF SameUpTo
    <3> QED
      BY <1>2, <3>6
  <2> QED
    BY <2>2, <2>3 DEF SameUpTo
<1>4. ASSUME NEW w \in Texts PROVE F[w] = TermStep(F, w) /\ Leaves(F[w], Len(w))
  <2>1. TermStep(Upto(w), w) = TermStep(F, w)
    BY <1>3, TermLocal
  <2>2. Len(w) < Len(w) + 1
    BY TextLaws
  <2>3. Upto(w)[w] = TermStep(Upto(w), w) /\ Leaves(Upto(w)[w], Len(w))
    BY <1>1, <2>2 DEF TermsUpTo
  <2> QED
    BY <1>2, <2>1, <2>3
<1>5. F = [w \in Texts |-> TermStep(F, w)]
  <2>1. F = [w \in Texts |-> F[w]]
    BY DEF F
  <2> QED
    BY <1>4, <2>1, Zenon
<1>6. ParseTerm = CHOOSE f : f = [w \in Texts |-> TermStep(f, w)]
  BY DEF ParseTerm
<1>7. ParseTerm = [w \in Texts |-> TermStep(ParseTerm, w)]
  BY <1>5, <1>6, Zenon
<1>8. \A w \in Texts : ParseTerm[w] = TermStep(ParseTerm, w)
  BY <1>7, Zenon
<1> QED
  BY <1>7, <1>8

-----------------------------------------------------------------------------
(* Texts, one behind another *)

Cat(a, b) == a \o b

NoComment(w) == \A i \in 1..Len(w) : w[i] # "@"
Clean == {w \in Texts : NoComment(w)}

LEMMA CatLaws ==
  /\ \A a, b \in Texts : Cat(a, b) \in Texts
  /\ \A a, b, c \in Texts : Cat(Cat(a, b), c) = Cat(a, Cat(b, c))
BY TextLaws, Zenon DEF Cat

LEMMA CatLen == \A a, b \in Texts : Len(Cat(a, b)) = Len(a) + Len(b) /\ Len(a) \in Nat /\ Len(b) \in Nat
BY TextLaws DEF Cat

LEMMA CleanCat == \A a, b \in Clean : Cat(a, b) \in Clean
<1> SUFFICES ASSUME NEW a \in Clean, NEW b \in Clean PROVE Cat(a, b) \in Clean
  OBVIOUS
<1>1. a \in Seq(Words) /\ b \in Seq(Words) /\ NoComment(a) /\ NoComment(b)
  BY DEF Texts, Clean
<1>2. PICK m \in Nat, n \in Nat : m = Len(a) /\ n = Len(b)
  BY <1>1, LenProperties
<1>3. /\ a \o b \in Seq(Words) /\ Len(a \o b) = m + n
      /\ \A i \in 1..(m + n) : (a \o b)[i] = IF i <= m THEN a[i] ELSE b[i - m]
  BY <1>1, <1>2, ConcatProperties
<1>4. ASSUME NEW i \in 1..(m + n) PROVE (a \o b)[i] # "@"
  <2>1. CASE i <= m
    <3>1. i \in 1..m
      BY <1>2, <2>1
    <3> QED
      BY <1>1, <1>2, <1>3, <2>1, <3>1 DEF NoComment
  <2>2. CASE ~(i <= m)
    <3>1. i - m \in 1..n
      BY <1>2, <2>2
    <3> QED
      BY <1>1, <1>2, <1>3, <2>2, <3>1 DEF NoComment
  <2> QED
    BY <2>1, <2>2
<1>5. a \o b \in Clean
  BY <1>3, <1>4 DEF NoComment, Texts, Clean
<1> QED
  BY <1>5 DEF Cat

LEMMA CatPrefix ==
  ASSUME NEW a \in Texts, NEW r \in Texts
  PROVE  /\ Cat(a, r) \in Texts /\ Skip(Cat(a, r), Len(a)) = r
         /\ \A i \in 1..Len(a) : Word(Cat(a, r), i) = a[i]
         /\ Len(a) > 0 => Cat(a, r) # <<>>
<1>1. Len(a) > 0 => Cat(a, r) # <<>>
  BY CatLen, TextLaws
<1> QED
  BY <1>1, CatLaws, Prefix DEF Cat

LEMMA CatSplit ==
  \A a, r \in Texts : \A n \in Nat :
    Len(a) = n /\ n > 0 =>
      /\ Cat(a, r) \in Texts /\ Cat(a, r) # <<>> /\ Skip(Cat(a, r), n) = r
      /\ \A i \in 1..n : Word(Cat(a, r), i) = a[i]
BY CatPrefix, Zenon

LEMMA KeywordsAreWords ==
  /\ {"(", ")", "{", "}", ",", "=", ":", "->", "=>", "@", "\\"} \subseteq Words
  /\ {"Left", "Right", "match", "let", "rec", "in", "unpack"} \subseteq Words
  /\ {"Int", "Float", "Any", "Pair", "Either"} \subseteq Words
  /\ BinaryWords \subseteq Words
  /\ "@" \notin BinaryWords /\ ")" \notin BinaryWords
BY WordsAssumption DEF Keywords, BinaryWords

\* A word before a text.
LEMMA CatWord ==
  ASSUME NEW x \in Words, NEW s \in Texts, NEW w \in Texts, NEW n \in Nat, Len(s) = n, Len(w) = n + 1,
         w[1] = x, \A i \in 1..n : w[i + 1] = s[i]
  PROVE  Cat(<<x>>, s) = w
<1>1. <<x>> \in Seq(Words) /\ Len(<<x>>) = 1 /\ <<x>>[1] = x
  OBVIOUS
<1>2. s \in Seq(Words) /\ w \in Seq(Words)
  BY DEF Texts
<1>3. /\ <<x>> \o s \in Seq(Words) /\ Len(<<x>> \o s) = 1 + n
      /\ \A i \in 1..(1 + n) : (<<x>> \o s)[i] = IF i <= 1 THEN <<x>>[i] ELSE s[i - 1]
  BY <1>1, <1>2, ConcatProperties
<1>4. \A i \in 1..(1 + n) : w[i] = IF i <= 1 THEN <<x>>[i] ELSE s[i - 1]
  <2> SUFFICES ASSUME NEW i \in 1..(1 + n) PROVE w[i] = IF i <= 1 THEN <<x>>[i] ELSE s[i - 1]
    OBVIOUS
  <2>1. CASE i <= 1
    <3>1. i = 1
      BY <2>1
    <3> QED
      BY <1>1, <3>1
  <2>2. CASE ~(i <= 1)
    <3>1. i - 1 \in 1..n /\ (i - 1) + 1 = i
      BY <2>2
    <3>2. w[(i - 1) + 1] = s[i - 1]
      BY <3>1
    <3> QED
      BY <2>2, <3>1, <3>2
  <2> QED
    BY <2>1, <2>2
<1> DEFINE v == <<x>> \o s
<1>5. v \in Seq(Words) /\ Len(v) = 1 + n /\ \A i \in 1..(1 + n) : v[i] = w[i]
  BY <1>3, <1>4, Zenon
<1> HIDE DEF v
<1>6. v = w
  BY <1>2, <1>5, SeqEqual
<1> QED
  BY <1>6 DEF Cat, v

\* A text that begins with one word, or with a few.
LEMMA Words1 ==
  ASSUME NEW x \in Words
  PROVE  /\ <<x>> \in Texts /\ (x # "@" => <<x>> \in Clean)
         /\ \A r \in Texts :
              /\ Cat(<<x>>, r) \in Texts /\ Cat(<<x>>, r) # <<>>
              /\ Skip(Cat(<<x>>, r), 1) = r /\ Word(Cat(<<x>>, r), 1) = x
<1>1. <<x>> \in Seq(Words) /\ Len(<<x>>) = 1 /\ <<x>>[1] = x /\ 1 \in 1..1
  OBVIOUS
<1>2. <<x>> \in Texts /\ (x # "@" => <<x>> \in Clean)
  BY <1>1 DEF Texts, Clean, NoComment
<1> QED
  BY <1>1, <1>2, CatPrefix

LEMMA Words2 ==
  ASSUME NEW x \in Words, NEW y \in Words
  PROVE  /\ <<x, y>> \in Texts /\ Cat(<<x>>, <<y>>) = <<x, y>> /\ ("@" \notin {x, y} => <<x, y>> \in Clean)
         /\ \A r \in Texts :
              /\ Cat(<<x, y>>, r) \in Texts /\ Cat(<<x, y>>, r) # <<>>
              /\ Skip(Cat(<<x, y>>, r), 2) = r
              /\ Word(Cat(<<x, y>>, r), 1) = x /\ Word(Cat(<<x, y>>, r), 2) = y
<1>1. /\ <<x, y>> \in Seq(Words) /\ Len(<<x, y>>) = 2
      /\ <<x, y>>[1] = x /\ <<x, y>>[2] = y /\ 1 \in 1..2 /\ 2 \in 1..2
  OBVIOUS
<1>2. <<x, y>> \in Texts /\ ("@" \notin {x, y} => <<x, y>> \in Clean)
  BY <1>1 DEF Texts, Clean, NoComment
<1>3. Cat(<<x>>, <<y>>) = <<x, y>>
  <2>1. <<y>> \in Texts /\ Len(<<y>>) = 1 /\ <<y>>[1] = y
    BY Words1
  <2>2. 1 \in Nat /\ Len(<<x, y>>) = 1 + 1 /\ \A i \in 1..1 : <<x, y>>[i + 1] = <<y>>[i]
    BY <1>1, <2>1
  <2> QED
    BY <1>1, <1>2, <2>1, <2>2, CatWord, Zenon
<1> QED
  BY <1>1, <1>2, <1>3, CatPrefix

LEMMA Words3 ==
  ASSUME NEW x \in Words, NEW y \in Words, NEW z \in Words
  PROVE  /\ <<x, y, z>> \in Texts /\ Cat(<<x>>, <<y, z>>) = <<x, y, z>>
         /\ ("@" \notin {x, y, z} => <<x, y, z>> \in Clean)
         /\ \A r \in Texts :
              /\ Cat(<<x, y, z>>, r) \in Texts /\ Cat(<<x, y, z>>, r) # <<>>
              /\ Skip(Cat(<<x, y, z>>, r), 3) = r
              /\ Word(Cat(<<x, y, z>>, r), 1) = x /\ Word(Cat(<<x, y, z>>, r), 2) = y
              /\ Word(Cat(<<x, y, z>>, r), 3) = z
<1>1. /\ <<x, y, z>> \in Seq(Words) /\ Len(<<x, y, z>>) = 3
      /\ <<x, y, z>>[1] = x /\ <<x, y, z>>[2] = y /\ <<x, y, z>>[3] = z
      /\ 1 \in 1..3 /\ 2 \in 1..3 /\ 3 \in 1..3
  OBVIOUS
<1>2. <<x, y, z>> \in Texts /\ ("@" \notin {x, y, z} => <<x, y, z>> \in Clean)
  BY <1>1 DEF Texts, Clean, NoComment
<1>3. Cat(<<x>>, <<y, z>>) = <<x, y, z>>
  <2>1. <<y, z>> \in Texts /\ Len(<<y, z>>) = 2 /\ <<y, z>>[1] = y /\ <<y, z>>[2] = z
    BY Words2
  <2>2. /\ 2 \in Nat /\ Len(<<x, y, z>>) = 2 + 1
        /\ \A i \in 1..2 : <<x, y, z>>[i + 1] = <<y, z>>[i]
    BY <1>1, <2>1
  <2> QED
    BY <1>1, <1>2, <2>1, <2>2, CatWord, Zenon
<1> DEFINE w == <<x, y, z>>
<1>4. w \in Texts /\ Len(w) = 3 /\ w[1] = x /\ w[2] = y /\ w[3] = z
  BY <1>1, <1>2
<1> HIDE DEF w
<1>5. ASSUME NEW r \in Texts
      PROVE  /\ Cat(w, r) \in Texts /\ Cat(w, r) # <<>> /\ Skip(Cat(w, r), 3) = r
             /\ Word(Cat(w, r), 1) = x /\ Word(Cat(w, r), 2) = y /\ Word(Cat(w, r), 3) = z
  <2>1. 1 \in 1..3 /\ 2 \in 1..3 /\ 3 \in 1..3 /\ 3 \in Nat /\ 3 > 0
    OBVIOUS
  <2> QED
    BY <1>4, <2>1, CatSplit
<1> QED
  BY <1>2, <1>3, <1>5, Zenon DEF w

LEMMA Words4 ==
  ASSUME NEW x \in Words, NEW y \in Words, NEW z \in Words, NEW u \in Words
  PROVE  /\ <<x, y, z, u>> \in Texts /\ Cat(<<x>>, <<y, z, u>>) = <<x, y, z, u>>
         /\ ("@" \notin {x, y, z, u} => <<x, y, z, u>> \in Clean)
<1>1. <<x, y, z, u>> \in Seq(Words) /\ Len(<<x, y, z, u>>) = 4
  OBVIOUS
<1>2. \A i \in 1..4 : <<x, y, z, u>>[i] \in {x, y, z, u}
  OBVIOUS
<1>3. <<x, y, z, u>> \in Texts /\ ("@" \notin {x, y, z, u} => <<x, y, z, u>> \in Clean)
  BY <1>1, <1>2 DEF Texts, Clean, NoComment
<1>4. Cat(<<x>>, <<y, z, u>>) = <<x, y, z, u>>
  <2>1. /\ <<y, z, u>> \in Texts /\ Len(<<y, z, u>>) = 3
        /\ <<y, z, u>>[1] = y /\ <<y, z, u>>[2] = z /\ <<y, z, u>>[3] = u
    BY Words3
  <2>2. /\ <<x, y, z, u>>[1] = x /\ <<x, y, z, u>>[2] = y /\ <<x, y, z, u>>[3] = z
        /\ <<x, y, z, u>>[4] = u
    OBVIOUS
  <2>3. /\ 3 \in Nat /\ Len(<<x, y, z, u>>) = 3 + 1
        /\ \A i \in 1..3 : <<x, y, z, u>>[i + 1] = <<y, z, u>>[i]
    BY <1>1, <2>1, <2>2
  <2> QED
    BY <1>1, <1>3, <2>1, <2>2, <2>3, CatWord, Zenon
<1> QED
  BY <1>3, <1>4

LEMMA Words5 ==
  ASSUME NEW a \in Words, NEW b \in Words, NEW c \in Words, NEW d \in Words, NEW e \in Words
  PROVE  LET w == <<a, b, c, d, e>>
         IN /\ w \in Texts /\ Len(w) = 5 /\ ("@" \notin {a, b, c, d, e} => w \in Clean)
            /\ w[1] = a /\ w[2] = b /\ w[3] = c /\ w[4] = d /\ w[5] = e
<1> DEFINE w == <<a, b, c, d, e>>
<1>1. w \in Seq(Words) /\ Len(w) = 5
  OBVIOUS
<1>2. w[1] = a /\ w[2] = b /\ w[3] = c /\ w[4] = d /\ w[5] = e
  OBVIOUS
<1> HIDE DEF w
<1>3. \A i \in 1..5 : w[i] \in {a, b, c, d, e}
  BY <1>2
<1>4. w \in Texts /\ ("@" \notin {a, b, c, d, e} => w \in Clean)
  BY <1>1, <1>3 DEF Texts, Clean, NoComment
<1> QED
  BY <1>1, <1>2, <1>4 DEF w

LEMMA Words6 ==
  ASSUME NEW a \in Words, NEW b \in Words, NEW c \in Words, NEW d \in Words, NEW e \in Words, NEW f \in Words
  PROVE  LET w == <<a, b, c, d, e, f>>
         IN /\ w \in Texts /\ Len(w) = 6 /\ ("@" \notin {a, b, c, d, e, f} => w \in Clean)
            /\ w[1] = a /\ w[2] = b /\ w[3] = c /\ w[4] = d /\ w[5] = e /\ w[6] = f
            /\ Cat(<<a>>, <<b, c, d, e, f>>) = w
<1> DEFINE w == <<a, b, c, d, e, f>>
           v == <<b, c, d, e, f>>
<1>1. w \in Seq(Words) /\ Len(w) = 6
  OBVIOUS
<1>2. w[1] = a /\ w[2] = b /\ w[3] = c /\ w[4] = d /\ w[5] = e /\ w[6] = f
  OBVIOUS
<1>3. v \in Texts /\ Len(v) = 5 /\ v[1] = b /\ v[2] = c /\ v[3] = d /\ v[4] = e /\ v[5] = f
  BY Words5, Zenon
<1> HIDE DEF w, v
<1>4. \A i \in 1..6 : w[i] \in {a, b, c, d, e, f}
  BY <1>2
<1>5. w \in Texts /\ ("@" \notin {a, b, c, d, e, f} => w \in Clean)
  BY <1>1, <1>4 DEF Texts, Clean, NoComment
<1>6. 5 \in Nat /\ Len(w) = 5 + 1 /\ \A i \in 1..5 : w[i + 1] = v[i]
  BY <1>1, <1>2, <1>3
<1>7. Cat(<<a>>, v) = w
  BY <1>2, <1>3, <1>5, <1>6, CatWord, Zenon
<1> QED
  BY <1>1, <1>2, <1>5, <1>7 DEF w, v

\* The texts of the grammar's fixed words.
One(x) == <<x>>
Two(x, y) == <<x, y>>
Three(x, y, z) == <<x, y, z>>
Four(x, y, z, u) == <<x, y, z, u>>

LEMMA ReadOne ==
  \A x \in Words :
    /\ One(x) \in Texts /\ Len(One(x)) = 1 /\ (x # "@" => One(x) \in Clean)
    /\ \A r \in Texts :
         LET v == Cat(One(x), r)
         IN v \in Texts /\ v # <<>> /\ Skip(v, 1) = r /\ Word(v, 1) = x
<1> SUFFICES ASSUME NEW x \in Words
             PROVE  /\ <<x>> \in Texts /\ Len(<<x>>) = 1 /\ (x # "@" => <<x>> \in Clean)
                    /\ \A r \in Texts :
                         LET v == Cat(<<x>>, r)
                         IN v \in Texts /\ v # <<>> /\ Skip(v, 1) = r /\ Word(v, 1) = x
  BY Zenon DEF One
<1>1. Len(<<x>>) = 1
  OBVIOUS
<1> QED
  BY <1>1, Words1, Zenon

LEMMA ReadTwo ==
  \A x, y \in Words :
    /\ Two(x, y) \in Texts /\ Len(Two(x, y)) = 2 /\ (x # "@" /\ y # "@" => Two(x, y) \in Clean)
    /\ Two(x, y) = Cat(One(x), One(y))
    /\ \A r \in Texts :
         LET v == Cat(Two(x, y), r)
         IN v \in Texts /\ v # <<>> /\ Skip(v, 2) = r /\ Word(v, 1) = x /\ Word(v, 2) = y
<1> SUFFICES ASSUME NEW x \in Words, NEW y \in Words
             PROVE  /\ <<x, y>> \in Texts /\ Len(<<x, y>>) = 2 /\ (x # "@" /\ y # "@" => <<x, y>> \in Clean)
                    /\ <<x, y>> = Cat(<<x>>, <<y>>)
                    /\ \A r \in Texts :
                         LET v == Cat(<<x, y>>, r)
                         IN v \in Texts /\ v # <<>> /\ Skip(v, 2) = r /\ Word(v, 1) = x /\ Word(v, 2) = y
  BY Zenon DEF One, Two
<1>1. Len(<<x, y>>) = 2 /\ (x # "@" /\ y # "@" => "@" \notin {x, y})
  OBVIOUS
<1> QED
  BY <1>1, Words2

LEMMA ReadThree ==
  \A x, y, z \in Words :
    /\ Three(x, y, z) \in Texts
    /\ (x # "@" /\ y # "@" /\ z # "@" => Three(x, y, z) \in Clean)
    /\ Three(x, y, z) = Cat(One(x), Two(y, z))
    /\ \A r \in Texts :
         LET v == Cat(Three(x, y, z), r)
         IN v \in Texts /\ Skip(v, 3) = r /\ Word(v, 1) = x /\ Word(v, 2) = y /\ Word(v, 3) = z
<1> SUFFICES ASSUME NEW x \in Words, NEW y \in Words, NEW z \in Words
             PROVE  /\ Three(x, y, z) \in Texts
                    /\ (x # "@" /\ y # "@" /\ z # "@" => Three(x, y, z) \in Clean)
                    /\ Three(x, y, z) = Cat(One(x), Two(y, z))
                    /\ \A r \in Texts :
                         LET v == Cat(Three(x, y, z), r)
                         IN v \in Texts /\ Skip(v, 3) = r /\ Word(v, 1) = x /\ Word(v, 2) = y /\ Word(v, 3) = z
  BY Zenon
<1>1. x # "@" /\ y # "@" /\ z # "@" => "@" \notin {x, y, z}
  OBVIOUS
<1>2. Three(x, y, z) = <<x, y, z>> /\ One(x) = <<x>> /\ Two(y, z) = <<y, z>>
  BY DEF One, Two, Three
<1> QED
  BY <1>1, <1>2, Words3

LEMMA ReadFour ==
  \A x, y, z, u \in Words :
    /\ (x # "@" /\ y # "@" /\ z # "@" /\ u # "@" => Four(x, y, z, u) \in Clean)
    /\ Four(x, y, z, u) = Cat(One(x), Three(y, z, u))
<1> SUFFICES ASSUME NEW x \in Words, NEW y \in Words, NEW z \in Words, NEW u \in Words
             PROVE  /\ (x # "@" /\ y # "@" /\ z # "@" /\ u # "@" => <<x, y, z, u>> \in Clean)
                    /\ <<x, y, z, u>> = Cat(<<x>>, <<y, z, u>>)
  BY Zenon DEF One, Three, Four
<1>1. x # "@" /\ y # "@" /\ z # "@" /\ u # "@" => "@" \notin {x, y, z, u}
  OBVIOUS
<1> QED
  BY <1>1, Words4, Zenon

\* The words behind the matched term, and those behind its first branch.
LeftWords(x) == <<"{", "Left", "(", x, ")", "=>">>
RightWords(y) == <<"Right", "(", y, ")", "=>">>

LEMMA LeftRead ==
  ASSUME NEW x \in Words, x # "@"
  PROVE  /\ LeftWords(x) \in Clean
         /\ \A r \in Texts :
              /\ Cat(LeftWords(x), r) \in Texts
              /\ Skip(Cat(LeftWords(x), r), 6) = r /\ Word(Cat(LeftWords(x), r), 4) = x
<1> DEFINE w == <<"{", "Left", "(", x, ")", "=>">>
<1>1. "{" \in Words /\ "Left" \in Words /\ "(" \in Words /\ ")" \in Words /\ "=>" \in Words
  BY KeywordsAreWords
<1>2. "@" \notin {"{", "Left", "(", x, ")", "=>"}
  OBVIOUS
<1>3. w \in Texts /\ w \in Clean /\ Len(w) = 6 /\ w[4] = x
  BY <1>1, <1>2, Words6, Zenon
<1> HIDE DEF w
<1>4. 4 \in 1..6
  OBVIOUS
<1>5. \A r \in Texts : Cat(w, r) \in Texts /\ Skip(Cat(w, r), 6) = r /\ Word(Cat(w, r), 4) = x
  BY <1>3, <1>4, CatPrefix
<1> QED
  BY <1>3, <1>5 DEF LeftWords, w

Comma == <<",">>

LEMMA ReadComma ==
  /\ Comma \in Texts /\ Comma \in Clean /\ Len(Comma) = 1
  /\ \A r \in Texts : Skip(Cat(Comma, r), 1) = r
<1>1. "," \in Words /\ "," # "@"
  BY KeywordsAreWords, Zenon
<1>2. Comma = One(",")
  BY Zenon DEF Comma, One
<1> QED
  BY <1>1, <1>2, ReadOne, Zenon

LEMMA RightRead ==
  ASSUME NEW y \in Words, y # "@", NEW comma, comma = <<>> \/ comma = Comma
  PROVE  /\ Cat(comma, RightWords(y)) \in Clean
         /\ \A r \in Texts :
              LET v == Cat(Cat(comma, RightWords(y)), r)
              IN v \in Texts /\ Skip(v, Between(v) + 4) = r /\ Word(v, Between(v) + 2) = y
<1>1. "Right" \in Words /\ "(" \in Words /\ ")" \in Words /\ "=>" \in Words /\ "," \in Words
  BY KeywordsAreWords, Zenon
<1>2. "@" \notin {"Right", "(", y, ")", "=>"} /\ "@" \notin {",", "Right", "(", y, ")", "=>"}
  BY Zenon
<1>3. CASE comma = <<>>
  <2> DEFINE w == RightWords(y)
  <2>1. w \in Texts /\ w \in Clean /\ Len(w) = 5 /\ w[1] = "Right" /\ w[3] = y
    BY <1>1, <1>2, Words5, Zenon DEF RightWords
  <2> HIDE DEF w
  <2>2. Cat(comma, w) = w
    BY <1>3, <2>1, TextLaws DEF Cat
  <2>3. ASSUME NEW r \in Texts, NEW v, v = Cat(w, r)
        PROVE  v \in Texts /\ Skip(v, Between(v) + 4) = r /\ Word(v, Between(v) + 2) = y
    <3>1. 1 \in 1..5 /\ 3 \in 1..5 /\ 5 \in Nat /\ 5 > 0
      OBVIOUS
    <3>2. v \in Texts /\ Skip(v, 5) = r /\ Word(v, 3) = y /\ Word(v, 1) = "Right"
      BY <2>1, <2>3, <3>1, CatSplit
    <3>3. Between(v) = 1
      BY <3>2, Zenon DEF Between
    <3> QED
      BY <3>2, <3>3
  <2> QED
    BY <2>1, <2>2, <2>3, Zenon DEF w
<1>4. CASE comma = Comma
  <2> DEFINE w == <<",", "Right", "(", y, ")", "=>">>
             second == ","
  <2>1. /\ w \in Texts /\ w \in Clean /\ Len(w) = 6 /\ w[1] = second /\ w[4] = y
        /\ Cat(<<",">>, <<"Right", "(", y, ")", "=>">>) = w
    <3> DEFINE right == "Right"
               open == "("
               close == ")"
               arrow == "=>"
    <3>1. /\ second \in Words /\ right \in Words /\ open \in Words /\ close \in Words /\ arrow \in Words
          /\ "@" \notin {second, right, open, y, close, arrow}
      BY <1>1, <1>2, Zenon
    <3> HIDE DEF second, right, open, close, arrow
    <3> DEFINE v == <<second, right, open, y, close, arrow>>
    <3>2. /\ v \in Texts /\ v \in Clean /\ Len(v) = 6 /\ v[1] = second /\ v[4] = y
          /\ Cat(<<second>>, <<right, open, y, close, arrow>>) = v
      BY <3>1, Words6
    <3> QED
      BY <3>2, Zenon DEF second, right, open, close, arrow
  <2>2. Cat(comma, RightWords(y)) = w
    BY <1>4, <2>1, Zenon DEF RightWords, Comma
  <2>3. \A v : Word(v, 1) = second => Between(v) = 2
    BY Zenon DEF Between
  <2> HIDE DEF w, second
  <2>4. ASSUME NEW r \in Texts, NEW v, v = Cat(w, r)
        PROVE  v \in Texts /\ Skip(v, Between(v) + 4) = r /\ Word(v, Between(v) + 2) = y
    <3>1. 1 \in 1..6 /\ 4 \in 1..6 /\ 6 \in Nat /\ 6 > 0
      OBVIOUS
    <3>2. v \in Texts /\ Skip(v, 6) = r /\ Word(v, 4) = y /\ Word(v, 1) = second
      BY <2>1, <2>4, <3>1, CatSplit
    <3>3. Between(v) = 2
      BY <2>3, <3>2
    <3> QED
      BY <3>2, <3>3
  <2> QED
    BY <2>1, <2>2, <2>4, Zenon
<1> QED
  BY <1>3, <1>4

-----------------------------------------------------------------------------
(* Types are read as they are written *)

TypeReads(a) ==
  /\ a \in Clean /\ Len(a) > 0
  /\ \A r \in Texts : TypeLength[Cat(a, r)] = Len(a)

LEMMA TypeUnfold == \A w \in Texts : TypeLength[w] = TypeStep(TypeLength, w)
<1>1. TypeLength = [w \in Texts |-> TypeStep(TypeLength, w)]
  BY TypeLengthDef
<1> QED
  BY <1>1, Zenon

LEMMA SimpleType ==
  ASSUME NEW x \in {"Int", "Float", "Any"}
  PROVE  TypeReads(<<x>>)
<1>1. x \in Words /\ x # "@" /\ Len(<<x>>) = 1
  BY KeywordsAreWords
<1>2. ASSUME NEW r \in Texts PROVE TypeLength[Cat(<<x>>, r)] = 1
  <2>1. Cat(<<x>>, r) \in Texts /\ Word(Cat(<<x>>, r), 1) = x
    BY <1>1, Words1
  <2>2. TypeStep(TypeLength, Cat(<<x>>, r)) = 1
    BY <2>1 DEF TypeStep
  <2> QED
    BY <2>1, <2>2, TypeUnfold
<1>3. <<x>> \in Clean
  BY <1>1, Words1
<1> QED
  BY <1>1, <1>2, <1>3 DEF TypeReads

LEMMA CompoundType ==
  ASSUME NEW x \in {"Pair", "Either"}, NEW a, NEW b, TypeReads(a), TypeReads(b)
  PROVE  TypeReads(<<x, "(">> \o a \o <<",">> \o b \o <<")">>)
<1>1. /\ a \in Texts /\ b \in Texts /\ a \in Clean /\ b \in Clean /\ Len(a) > 0 /\ Len(b) > 0
      /\ x \in Words /\ x # "@" /\ "(" \in Words /\ ")" \in Words
  BY KeywordsAreWords DEF TypeReads, Clean
<1> DEFINE open == Two(x, "(")
           comma == Comma
           close == One(")")
           w == Cat(Cat(Cat(Cat(open, a), comma), b), close)
<1>2. /\ open \in Texts /\ comma \in Texts /\ close \in Texts
      /\ open \in Clean /\ comma \in Clean /\ close \in Clean
      /\ Len(open) = 2 /\ Len(comma) = 1 /\ Len(close) = 1
  BY <1>1, ReadOne, ReadTwo, ReadComma
<1>3. \A r \in Texts : Word(Cat(open, r), 1) = x
  BY <1>1, ReadTwo
<1>4. w = <<x, "(">> \o a \o <<",">> \o b \o <<")">>
  BY Zenon DEF Cat, One, Two, Comma
<1> HIDE DEF open, comma, close
<1>5. w \in Clean
  BY <1>1, <1>2, CleanCat
<1>6. Len(w) = 4 + Len(a) + Len(b) /\ Len(Cat(Cat(open, a), comma)) = 3 + Len(a)
      /\ Len(a) \in Nat /\ Len(b) \in Nat
  <2>1. Cat(open, a) \in Texts /\ Len(Cat(open, a)) = 2 + Len(a) /\ Len(a) \in Nat
    BY <1>1, <1>2, CatLaws, CatLen
  <2>2. Cat(Cat(open, a), comma) \in Texts /\ Len(Cat(Cat(open, a), comma)) = Len(Cat(open, a)) + 1
    BY <1>2, <2>1, CatLaws, CatLen
  <2>3. /\ Cat(Cat(Cat(open, a), comma), b) \in Texts
        /\ Len(Cat(Cat(Cat(open, a), comma), b)) = Len(Cat(Cat(open, a), comma)) + Len(b) /\ Len(b) \in Nat
    BY <1>1, <2>2, CatLaws, CatLen
  <2>4. Len(w) = Len(Cat(Cat(Cat(open, a), comma), b)) + 1
    BY <1>2, <2>3, CatLen, Zenon
  <2> QED
    BY <2>1, <2>2, <2>3, <2>4
<1>7. ASSUME NEW r \in Texts PROVE TypeLength[Cat(w, r)] = Len(w)
  <2> DEFINE y == Cat(close, r)
             z == Cat(comma, Cat(b, y))
             v == Cat(open, Cat(a, z))
  <2>1. y \in Texts /\ Cat(b, y) \in Texts /\ z \in Texts /\ Cat(a, z) \in Texts /\ v \in Texts
    BY <1>1, <1>2, CatLaws
  <2>2. /\ Cat(open, a) \in Texts /\ Cat(Cat(open, a), comma) \in Texts
        /\ Cat(Cat(Cat(open, a), comma), b) \in Texts
    BY <1>1, <1>2, CatLaws
  <2>3. v = Cat(Cat(Cat(open, a), comma), Cat(b, y))
    <3>1. Cat(Cat(Cat(open, a), comma), Cat(b, y)) = Cat(Cat(open, a), z)
      BY <1>2, <2>1, <2>2, CatLaws
    <3>2. Cat(Cat(open, a), z) = v
      BY <1>1, <1>2, <2>1, CatLaws
    <3> QED
      BY <3>1, <3>2, Zenon
  <2>8. Cat(w, r) = v
    <3>1. Cat(w, r) = Cat(Cat(Cat(Cat(open, a), comma), b), y)
      BY <1>2, <2>2, CatLaws
    <3>2. Cat(Cat(Cat(Cat(open, a), comma), b), y) = Cat(Cat(Cat(open, a), comma), Cat(b, y))
      BY <1>1, <2>1, <2>2, CatLaws
    <3> QED
      BY <2>3, <3>1, <3>2, Zenon
  <2>4. Word(v, 1) = x /\ Skip(v, 2) = Cat(a, z)
    <3>1. 2 \in Nat /\ 2 > 0
      OBVIOUS
    <3> QED
      BY <1>2, <1>3, <2>1, <3>1, CatSplit, Zenon
  <2>5. Skip(v, 3 + Len(a)) = Cat(b, y)
    BY <1>6, <2>1, <2>2, <2>3, CatSplit
  <2>6. TypeLength[Cat(a, z)] = Len(a) /\ TypeLength[Cat(b, y)] = Len(b)
    BY <2>1 DEF TypeReads
  <2> HIDE DEF v, y, z
  <2>7. TypeStep(TypeLength, v) = 4 + Len(a) + Len(b)
    BY <1>1, <1>6, <2>4, <2>5, <2>6 DEF TypeStep
  <2> QED
    BY <1>6, <2>1, <2>7, <2>8, TypeUnfold
<1> HIDE DEF w
<1>8. TypeReads(w)
  BY <1>1, <1>5, <1>6, <1>7 DEF TypeReads
<1> QED
  BY <1>4, <1>8

LEMMA TypesRead == \A a \in TypeTexts : TypeReads(a)
<1> DEFINE U == {a \in Texts : TypeReads(a)}
<1>1. TypeGrammar(U)
  <2>1. \A x \in {"Int", "Float", "Any"} : <<x>> \in U
    BY SimpleType DEF TypeReads, Clean
  <2>2. ASSUME NEW x \in {"Pair", "Either"}, NEW a \in U, NEW b \in U
        PROVE  <<x, "(">> \o a \o <<",">> \o b \o <<")">> \in U
    <3>1. TypeReads(<<x, "(">> \o a \o <<",">> \o b \o <<")">>)
      BY CompoundType
    <3> QED
      BY <3>1 DEF TypeReads, Clean
  <2> HIDE DEF U
  <2> QED
    BY <2>1, <2>2 DEF TypeGrammar
<1>2. U \in SUBSET Texts
  OBVIOUS
<1> HIDE DEF U
<1>3. \A a \in TypeTexts : a \in U
  BY <1>1, <1>2 DEF TypeTexts
<1> QED
  BY <1>3 DEF U

-----------------------------------------------------------------------------
(* Terms are read as they are written *)

\* A text that a bracket does not take for its end, and without a comment.
Sound(w) == w \in Clean /\ Len(w) > 0 /\ w[1] # ")"

\* The parser makes t of w, whatever is behind it.
Reads(t, w) == Sound(w) /\ \A s \in Texts : ParseTerm[Cat(w, s)] = Done(t, s)

LEMMA SoundWord == \A x \in Words : x # "@" /\ x # ")" => Sound(One(x))
<1> SUFFICES ASSUME NEW x \in Words, x # "@", x # ")" PROVE Sound(One(x))
  OBVIOUS
<1>1. <<x>>[1] = x
  OBVIOUS
<1>2. One(x)[1] = x
  BY <1>1 DEF One
<1>3. One(x) \in Clean /\ Len(One(x)) = 1
  BY ReadOne
<1> QED
  BY <1>2, <1>3 DEF Sound

LEMMA SoundCat == \A a, b \in Clean : Sound(a) => Sound(Cat(a, b))
<1> SUFFICES ASSUME NEW a \in Clean, NEW b \in Clean, Sound(a) PROVE Sound(Cat(a, b))
  OBVIOUS
<1>1. a \in Texts /\ b \in Texts /\ Len(a) > 0 /\ a[1] # ")" /\ Cat(a, b) \in Clean
  BY CleanCat DEF Sound, Clean
<1>2. Len(a) \in Nat /\ Len(b) \in Nat /\ Len(Cat(a, b)) = Len(a) + Len(b)
  BY <1>1, CatLen
<1>3. 1 \in 1..Len(a) /\ 1 \in 1..Len(Cat(a, b))
  BY <1>1, <1>2
<1>4. Word(Cat(a, b), 1) = a[1]
  BY <1>1, <1>3, CatPrefix
<1>5. Cat(a, b)[1] = a[1]
  BY <1>3, <1>4 DEF Word
<1> QED
  BY <1>1, <1>2, <1>5 DEF Sound

\* What a bracket sees behind its first term.
LEMMA SoundBehind == \A a, s \in Texts : Sound(a) => Word(Cat(a, s), 1) # ")"
<1> SUFFICES ASSUME NEW a \in Texts, NEW s \in Texts, Sound(a) PROVE Word(Cat(a, s), 1) # ")"
  OBVIOUS
<1>1. Len(a) \in Nat /\ Len(a) > 0 /\ a[1] # ")"
  BY CatLen DEF Sound
<1>2. 1 \in 1..Len(a)
  BY <1>1
<1> QED
  BY <1>1, <1>2, CatPrefix

LEMMA ReadsText ==
  \A t, w : Reads(t, w) =>
    w \in Texts /\ w \in Clean /\ Sound(w) /\ \A s \in Texts : ParseTerm[Cat(w, s)] = Done(t, s)
BY DEF Reads, Sound, Clean

LEMMA DoneFields == \A t, s : Done(t, s).rest = s /\ Done(t, s).ok = TRUE /\ Done(t, s).node = t
BY DEF Done

LEMMA ParseUnfold == \A w \in Texts : ParseTerm[w] = TermStep(ParseTerm, w)
BY ParseTermDef

LEMMA CombineOne ==
  \A op, names, t, r, s : Combine(op, names, <<Done(t, r)>>, s) = Done(Node(op, names, <<t>>), s)
<1> SUFFICES ASSUME NEW op, NEW names, NEW t, NEW r, NEW s
             PROVE  Combine(op, names, <<Done(t, r)>>, s) = Done(Node(op, names, <<t>>), s)
  OBVIOUS
<1>1. PICK d : d = Done(t, r)
  OBVIOUS
<1>2. d.ok = TRUE /\ d.node = t
  BY <1>1, DoneFields
<1>3. Len(<<d>>) = 1 /\ <<d>>[1] = d
  OBVIOUS
<1>4. [i \in 1..1 |-> <<d>>[i].node] = <<t>>
  BY <1>2, <1>3
<1>5. \A i \in 1..1 : <<d>>[i].ok
  BY <1>2, <1>3
<1>6. Combine(op, names, <<d>>, s) = Done(Node(op, names, <<t>>), s)
  BY <1>3, <1>4, <1>5 DEF Combine
<1> QED
  BY <1>1, <1>6

LEMMA CombineTwo ==
  \A op, names, t, u, p, q, s :
    Combine(op, names, <<Done(t, p), Done(u, q)>>, s) = Done(Node(op, names, <<t, u>>), s)
<1> SUFFICES ASSUME NEW op, NEW names, NEW t, NEW u, NEW p, NEW q, NEW s
             PROVE  Combine(op, names, <<Done(t, p), Done(u, q)>>, s) = Done(Node(op, names, <<t, u>>), s)
  OBVIOUS
<1>1. PICK d, e : d = Done(t, p) /\ e = Done(u, q)
  OBVIOUS
<1>2. d.ok = TRUE /\ d.node = t /\ e.ok = TRUE /\ e.node = u
  BY <1>1, DoneFields
<1>3. Len(<<d, e>>) = 2 /\ <<d, e>>[1] = d /\ <<d, e>>[2] = e
  OBVIOUS
<1>4. [i \in 1..2 |-> <<d, e>>[i].node] = <<t, u>>
  BY <1>2, <1>3
<1>5. \A i \in 1..2 : <<d, e>>[i].ok
  BY <1>2, <1>3
<1>6. Combine(op, names, <<d, e>>, s) = Done(Node(op, names, <<t, u>>), s)
  BY <1>3, <1>4, <1>5 DEF Combine
<1> QED
  BY <1>1, <1>6

LEMMA CombineThree ==
  \A op, names, t, u, v, p, q, r, s :
    Combine(op, names, <<Done(t, p), Done(u, q), Done(v, r)>>, s) = Done(Node(op, names, <<t, u, v>>), s)
<1> SUFFICES ASSUME NEW op, NEW names, NEW t, NEW u, NEW v, NEW p, NEW q, NEW r, NEW s
             PROVE  Combine(op, names, <<Done(t, p), Done(u, q), Done(v, r)>>, s)
                      = Done(Node(op, names, <<t, u, v>>), s)
  OBVIOUS
<1>1. PICK d, e, f : d = Done(t, p) /\ e = Done(u, q) /\ f = Done(v, r)
  OBVIOUS
<1>2. d.ok = TRUE /\ d.node = t /\ e.ok = TRUE /\ e.node = u /\ f.ok = TRUE /\ f.node = v
  BY <1>1, DoneFields
<1>3. Len(<<d, e, f>>) = 3 /\ <<d, e, f>>[1] = d /\ <<d, e, f>>[2] = e /\ <<d, e, f>>[3] = f
  OBVIOUS
<1>4. [i \in 1..3 |-> <<d, e, f>>[i].node] = <<t, u, v>>
  BY <1>2, <1>3
<1>5. \A i \in 1..3 : <<d, e, f>>[i].ok
  BY <1>2, <1>3
<1>6. Combine(op, names, <<d, e, f>>, s) = Done(Node(op, names, <<t, u, v>>), s)
  BY <1>3, <1>4, <1>5 DEF Combine
<1> QED
  BY <1>1, <1>6

LEMMA Nested3 ==
  \A a, b, c, s \in Texts :
    /\ Cat(Cat(Cat(a, b), c), s) = Cat(a, Cat(b, Cat(c, s)))
    /\ Cat(Cat(a, b), c) \in Texts /\ Cat(c, s) \in Texts /\ Cat(b, Cat(c, s)) \in Texts
    /\ Cat(a, Cat(b, Cat(c, s))) \in Texts
<1> SUFFICES ASSUME NEW a \in Texts, NEW b \in Texts, NEW c \in Texts, NEW s \in Texts
             PROVE  /\ Cat(Cat(Cat(a, b), c), s) = Cat(a, Cat(b, Cat(c, s)))
                    /\ Cat(Cat(a, b), c) \in Texts /\ Cat(c, s) \in Texts /\ Cat(b, Cat(c, s)) \in Texts
                    /\ Cat(a, Cat(b, Cat(c, s))) \in Texts
  OBVIOUS
<1>1. Cat(a, b) \in Texts /\ Cat(c, s) \in Texts /\ Cat(Cat(a, b), c) \in Texts /\ Cat(b, Cat(c, s)) \in Texts
  BY CatLaws
<1>2. Cat(Cat(Cat(a, b), c), s) = Cat(Cat(a, b), Cat(c, s))
  BY <1>1, CatLaws
<1>3. Cat(Cat(a, b), Cat(c, s)) = Cat(a, Cat(b, Cat(c, s)))
  BY <1>1, CatLaws
<1> QED
  BY <1>1, <1>2, <1>3, CatLaws

LEMMA Nested4 ==
  \A a, b, c, d, s \in Texts :
    /\ Cat(Cat(Cat(Cat(a, b), c), d), s) = Cat(a, Cat(b, Cat(c, Cat(d, s))))
    /\ Cat(Cat(Cat(a, b), c), d) \in Texts /\ Cat(d, s) \in Texts /\ Cat(c, Cat(d, s)) \in Texts
    /\ Cat(b, Cat(c, Cat(d, s))) \in Texts /\ Cat(a, Cat(b, Cat(c, Cat(d, s)))) \in Texts
<1> SUFFICES ASSUME NEW a \in Texts, NEW b \in Texts, NEW c \in Texts, NEW d \in Texts, NEW s \in Texts
             PROVE  /\ Cat(Cat(Cat(Cat(a, b), c), d), s) = Cat(a, Cat(b, Cat(c, Cat(d, s))))
                    /\ Cat(Cat(Cat(a, b), c), d) \in Texts /\ Cat(d, s) \in Texts /\ Cat(c, Cat(d, s)) \in Texts
                    /\ Cat(b, Cat(c, Cat(d, s))) \in Texts /\ Cat(a, Cat(b, Cat(c, Cat(d, s)))) \in Texts
  OBVIOUS
<1>1. Cat(d, s) \in Texts /\ Cat(Cat(a, b), c) \in Texts /\ Cat(Cat(Cat(a, b), c), d) \in Texts
  BY CatLaws
<1>2. Cat(Cat(Cat(Cat(a, b), c), d), s) = Cat(Cat(Cat(a, b), c), Cat(d, s))
  BY <1>1, CatLaws
<1>3. /\ Cat(Cat(Cat(a, b), c), Cat(d, s)) = Cat(a, Cat(b, Cat(c, Cat(d, s))))
      /\ Cat(c, Cat(d, s)) \in Texts /\ Cat(b, Cat(c, Cat(d, s))) \in Texts
      /\ Cat(a, Cat(b, Cat(c, Cat(d, s)))) \in Texts
  BY <1>1, Nested3
<1> QED
  BY <1>1, <1>2, <1>3

-----------------------------------------------------------------------------
(* Rule by rule *)

LEMMA PlainWords ==
  \A x \in Plain : x \in Words /\ x \notin Starts /\ x # "@" /\ x # ")" /\ x # "rec"
<1> DEFINE Types == {"Int", "Float", "Any", "Pair", "Either"}
           Others == {"Left", "Right", "match", "let", "unpack", "\\", "(", ")", "@", "rec"}
<1>1. \A k \in BinaryWords : k \in Keywords /\ k \notin Types
  BY Zenon DEF Keywords, BinaryWords
<1>2. \A k \in Others : k \in Keywords /\ k \notin Types
  BY Zenon DEF Keywords
<1>3. Plain = Words \ (Keywords \ Types)
  BY DEF Plain
<1>4. Starts \subseteq BinaryWords \cup Others /\ {"@", ")", "rec"} \subseteq Others
  BY Zenon DEF Starts
<1> HIDE DEF Types, Others
<1>5. \A x \in Plain : x \in Words /\ x \notin BinaryWords \cup Others
  BY <1>1, <1>2, <1>3
<1> QED
  BY <1>4, <1>5

LEMMA DoneSkip == \A t, z : [Done(t, z) EXCEPT !.rest = Skip(@, 1)] = Done(t, Skip(z, 1))
<1> SUFFICES ASSUME NEW t, NEW z PROVE [Done(t, z) EXCEPT !.rest = Skip(@, 1)] = Done(t, Skip(z, 1))
  OBVIOUS
<1>1. PICK d : d = Skip(z, 1)
  OBVIOUS
<1>2. \A k : [[ok |-> k, node |-> t, rest |-> z] EXCEPT !.rest = d] = [ok |-> k, node |-> t, rest |-> d]
  OBVIOUS
<1>3. [Done(t, z) EXCEPT !.rest = Skip(@, 1)] = [[ok |-> TRUE, node |-> t, rest |-> z] EXCEPT !.rest = Skip(z, 1)]
  BY DEF Done
<1> QED
  BY <1>1, <1>2, <1>3, Zenon DEF Done

LEMMA NameWords == \A x \in Names : x \in Plain /\ Literal(x) = {}
BY DEF Names

LEMMA LeafReads ==
  ASSUME NEW x \in Plain, NEW t,
         t = IF Literal(x) = {} THEN Node("var", <<x>>, <<>>)
             ELSE [op |-> "literal", value |-> CHOOSE v \in Literal(x) : TRUE, names |-> <<>>, args |-> <<>>]
  PROVE  Reads(t, One(x))
<1>1. x \in Words /\ x \notin Starts /\ x # "@" /\ x # ")"
  BY PlainWords
<1>2. Sound(One(x))
  BY <1>1, SoundWord
<1>3. ASSUME NEW s \in Texts PROVE ParseTerm[Cat(One(x), s)] = Done(t, s)
  <2>1. PICK v \in Texts : v = Cat(One(x), s)
    BY <1>1, ReadOne
  <2>2. v # <<>> /\ Skip(v, 1) = s /\ Word(v, 1) = x
    BY <1>1, <2>1, ReadOne
  <2>3. TermStep(ParseTerm, v) = Done(t, s)
    BY <1>1, <2>2, LeafStep
  <2> QED
    BY <2>1, <2>3, ParseUnfold
<1> QED
  BY <1>2, <1>3 DEF Reads

LEMMA BinaryReads ==
  ASSUME NEW op \in BinaryWords, NEW l, NEW r, NEW a, NEW b, Reads(l, a), Reads(r, b)
  PROVE  Reads(Node(op, <<>>, <<l, r>>), Cat(Cat(One(op), a), b))
<1>1. op \in Words /\ op # "@" /\ op # ")"
  BY KeywordsAreWords
<1>2. /\ a \in Texts /\ b \in Texts /\ a \in Clean /\ b \in Clean
      /\ One(op) \in Texts /\ One(op) \in Clean
  BY <1>1, ReadsText, ReadOne
<1>3. Sound(Cat(Cat(One(op), a), b))
  <2>1. Sound(One(op))
    BY <1>1, SoundWord
  <2>2. Cat(One(op), a) \in Clean /\ Sound(Cat(One(op), a))
    BY <1>2, <2>1, SoundCat, CleanCat
  <2> QED
    BY <1>2, <2>2, SoundCat
<1>4. ASSUME NEW s \in Texts
      PROVE  ParseTerm[Cat(Cat(Cat(One(op), a), b), s)] = Done(Node(op, <<>>, <<l, r>>), s)
  <2>1. PICK v : v = Cat(One(op), Cat(a, Cat(b, s)))
    OBVIOUS
  <2>2. Cat(Cat(Cat(One(op), a), b), s) = v /\ Cat(b, s) \in Texts /\ Cat(a, Cat(b, s)) \in Texts
    BY <1>2, <2>1, Nested3
  <2>3. v \in Texts /\ v # <<>> /\ Skip(v, 1) = Cat(a, Cat(b, s)) /\ Word(v, 1) = op
    BY <1>1, <2>1, <2>2, ReadOne
  <2>4. ParseTerm[Cat(a, Cat(b, s))] = Done(l, Cat(b, s)) /\ ParseTerm[Cat(b, s)] = Done(r, s)
    BY <2>2, ReadsText
  <2>5. TermStep(ParseTerm, v) = Combine(op, <<>>, <<Done(l, Cat(b, s)), Done(r, s)>>, s)
    BY <2>3, <2>4, BinaryStep, DoneFields
  <2> QED
    BY <2>2, <2>3, <2>5, ParseUnfold, CombineTwo
<1> QED
  BY <1>3, <1>4 DEF Reads

LEMMA InjectionReads ==
  ASSUME NEW word, NEW op, (word = "Left" /\ op = "left") \/ (word = "Right" /\ op = "right"),
         NEW t, NEW a, Reads(t, a)
  PROVE  Reads(Node(op, <<>>, <<t>>), Cat(Cat(Two(word, "("), a), One(")")))
<1>1. /\ word \in Words /\ "(" \in Words /\ ")" \in Words
      /\ word # "@" /\ word # ")" /\ "(" # "@" /\ ")" # "@"
  BY KeywordsAreWords
<1>2. /\ a \in Texts /\ a \in Clean /\ One(word) \in Clean /\ One("(") \in Texts /\ One("(") \in Clean
      /\ Two(word, "(") \in Texts /\ Two(word, "(") \in Clean /\ Two(word, "(") = Cat(One(word), One("("))
      /\ One(")") \in Texts /\ One(")") \in Clean
  BY <1>1, ReadsText, ReadOne, ReadTwo
<1>3. Sound(Cat(Cat(Two(word, "("), a), One(")")))
  <2>1. Sound(Two(word, "("))
    BY <1>1, <1>2, SoundWord, SoundCat
  <2>2. Cat(Two(word, "("), a) \in Clean /\ Sound(Cat(Two(word, "("), a))
    BY <1>2, <2>1, SoundCat, CleanCat
  <2> QED
    BY <1>2, <2>2, SoundCat
<1>4. ASSUME NEW s \in Texts
      PROVE  ParseTerm[Cat(Cat(Cat(Two(word, "("), a), One(")")), s)] = Done(Node(op, <<>>, <<t>>), s)
  <2>1. PICK y : y = Cat(a, Cat(One(")"), s))
    OBVIOUS
  <2>2. PICK v : v = Cat(Two(word, "("), y)
    OBVIOUS
  <2>3. Cat(Cat(Cat(Two(word, "("), a), One(")")), s) = v /\ Cat(One(")"), s) \in Texts /\ y \in Texts
    <3>1. /\ Cat(Cat(Cat(Two(word, "("), a), One(")")), s) = Cat(Two(word, "("), Cat(a, Cat(One(")"), s)))
          /\ Cat(One(")"), s) \in Texts /\ Cat(a, Cat(One(")"), s)) \in Texts
      BY <1>2, Nested3
    <3> QED
      BY <2>1, <2>2, <3>1, Zenon
  <2>4. v \in Texts /\ v # <<>> /\ Word(v, 1) = word
    BY <1>1, <2>2, <2>3, ReadTwo
  <2>5. Skip(Skip(v, 1), 1) = y
    <3>1. Cat(One("("), y) \in Texts /\ Skip(Cat(One("("), y), 1) = y
      BY <1>1, <2>3, ReadOne
    <3>2. v = Cat(One(word), Cat(One("("), y))
      <4>1. One(word) \in Texts
        BY <1>1, ReadOne
      <4> QED
        BY <1>2, <2>2, <2>3, <4>1, CatLaws
    <3>3. Skip(v, 1) = Cat(One("("), y)
      BY <1>1, <3>1, <3>2, ReadOne
    <3> QED
      BY <3>1, <3>3
  <2>6. ParseTerm[y] = Done(t, Cat(One(")"), s))
    BY <2>1, <2>3, ReadsText
  <2>7. Skip(Cat(One(")"), s), 1) = s
    BY <1>1, ReadOne
  <2>8. TermStep(ParseTerm, v) = Combine(op, <<>>, <<Done(t, Cat(One(")"), s))>>, s)
    <3>1. op = IF word = "Left" THEN "left" ELSE "right"
      OBVIOUS
    <3>2. TermStep(ParseTerm, v) =
            LET p == ParseTerm[Skip(Skip(v, 1), 1)]
            IN Combine(op, <<>>, <<p>>, Skip(p.rest, 1))
      BY <2>4, <3>1, InjectionStep
    <3> QED
      BY <2>5, <2>6, <2>7, <3>2, DoneFields
  <2> QED
    BY <2>3, <2>4, <2>8, ParseUnfold, CombineOne
<1> QED
  BY <1>3, <1>4 DEF Reads

LEMMA BracketReads ==
  ASSUME NEW t, NEW a, Reads(t, a)
  PROVE  Reads(t, Cat(Cat(One("("), a), One(")")))
<1>1. "(" \in Words /\ ")" \in Words /\ "(" # "@" /\ "(" # ")" /\ ")" # "@"
  BY KeywordsAreWords
<1>2. /\ a \in Texts /\ a \in Clean /\ One("(") \in Texts /\ One("(") \in Clean
      /\ One(")") \in Texts /\ One(")") \in Clean
  BY <1>1, ReadsText, ReadOne
<1>3. Sound(Cat(Cat(One("("), a), One(")")))
  <2>1. Sound(One("("))
    BY <1>1, SoundWord
  <2>2. Cat(One("("), a) \in Clean /\ Sound(Cat(One("("), a))
    BY <1>2, <2>1, SoundCat, CleanCat
  <2> QED
    BY <1>2, <2>2, SoundCat
<1>4. ASSUME NEW s \in Texts
      PROVE  ParseTerm[Cat(Cat(Cat(One("("), a), One(")")), s)] = Done(t, s)
  <2>1. PICK z, v : z = Cat(One(")"), s) /\ v = Cat(One("("), Cat(a, z))
    OBVIOUS
  <2>2. Cat(Cat(Cat(One("("), a), One(")")), s) = v /\ z \in Texts /\ Cat(a, z) \in Texts
    BY <1>2, <2>1, Nested3
  <2>3. v \in Texts /\ v # <<>> /\ Skip(v, 1) = Cat(a, z) /\ Word(v, 1) = "("
    BY <1>1, <2>1, <2>2, ReadOne
  <2>4. ParseTerm[Cat(a, z)] = Done(t, z)
    BY <2>2, ReadsText
  <2>5. Word(z, 1) = ")" /\ Skip(z, 1) = s
    BY <1>1, <2>1, ReadOne
  <2>6. TermStep(ParseTerm, v) = [Done(t, z) EXCEPT !.rest = Skip(@, 1)]
    <3>1. PICK p : p = ParseTerm[Skip(v, 1)]
      OBVIOUS
    <3>2. p.rest = z /\ p = Done(t, z)
      BY <2>3, <2>4, <3>1, DoneFields
    <3>3. Word(p.rest, 1) = ")" => TermStep(ParseTerm, v) = [p EXCEPT !.rest = Skip(@, 1)]
      BY <2>3, <3>1, BracketStep
    <3> QED
      BY <2>5, <3>2, <3>3
  <2>7. [Done(t, z) EXCEPT !.rest = Skip(@, 1)] = Done(t, s)
    BY <2>5, DoneSkip
  <2> QED
    BY <2>2, <2>3, <2>6, <2>7, ParseUnfold
<1> QED
  BY <1>3, <1>4 DEF Reads

LEMMA AppReads ==
  ASSUME NEW f, NEW x, NEW a, NEW b, Reads(f, a), Reads(x, b)
  PROVE  Reads(Node("app", <<>>, <<f, x>>), Cat(Cat(Cat(One("("), a), b), One(")")))
<1>1. "(" \in Words /\ ")" \in Words /\ "(" # "@" /\ "(" # ")" /\ ")" # "@"
  BY KeywordsAreWords
<1>2. /\ a \in Texts /\ a \in Clean /\ b \in Texts /\ b \in Clean /\ Sound(b)
      /\ One("(") \in Texts /\ One("(") \in Clean /\ One(")") \in Texts /\ One(")") \in Clean
  BY <1>1, ReadsText, ReadOne
<1>3. Sound(Cat(Cat(Cat(One("("), a), b), One(")")))
  <2>1. Sound(One("("))
    BY <1>1, SoundWord
  <2>2. Cat(One("("), a) \in Clean /\ Sound(Cat(One("("), a))
    BY <1>2, <2>1, SoundCat, CleanCat
  <2>3. Cat(Cat(One("("), a), b) \in Clean /\ Sound(Cat(Cat(One("("), a), b))
    BY <1>2, <2>2, SoundCat, CleanCat
  <2> QED
    BY <1>2, <2>3, SoundCat
<1>4. ASSUME NEW s \in Texts
      PROVE  ParseTerm[Cat(Cat(Cat(Cat(One("("), a), b), One(")")), s)] = Done(Node("app", <<>>, <<f, x>>), s)
  <2>1. PICK z, y, v : z = Cat(One(")"), s) /\ y = Cat(b, z) /\ v = Cat(One("("), Cat(a, y))
    OBVIOUS
  <2>2. /\ Cat(Cat(Cat(Cat(One("("), a), b), One(")")), s) = v
        /\ z \in Texts /\ y \in Texts /\ Cat(a, y) \in Texts
    <3>1. /\ Cat(Cat(Cat(Cat(One("("), a), b), One(")")), s) = Cat(One("("), Cat(a, Cat(b, Cat(One(")"), s))))
          /\ Cat(One(")"), s) \in Texts /\ Cat(b, Cat(One(")"), s)) \in Texts
          /\ Cat(a, Cat(b, Cat(One(")"), s))) \in Texts
      BY <1>2, Nested4
    <3> QED
      BY <2>1, <3>1, Zenon
  <2>3. v \in Texts /\ v # <<>> /\ Skip(v, 1) = Cat(a, y) /\ Word(v, 1) = "("
    BY <1>1, <2>1, <2>2, ReadOne
  <2>4. ParseTerm[Cat(a, y)] = Done(f, y) /\ ParseTerm[y] = Done(x, z)
    BY <2>1, <2>2, ReadsText
  <2>5. Skip(z, 1) = s
    BY <1>1, <2>1, ReadOne
  <2>6. Word(y, 1) # ")"
    BY <1>2, <2>1, <2>2, SoundBehind
  <2>7. TermStep(ParseTerm, v) = Combine("app", <<>>, <<Done(f, y), Done(x, z)>>, s)
    BY <2>3, <2>4, <2>5, <2>6, BracketStep, DoneFields
  <2> QED
    BY <2>2, <2>3, <2>7, ParseUnfold, CombineTwo
<1> QED
  BY <1>3, <1>4 DEF Reads

LEMMA LetReads ==
  ASSUME NEW x \in Names, NEW t, NEW u, NEW a, NEW b, Reads(t, a), Reads(u, b)
  PROVE  Reads(Node("let", <<x>>, <<t, u>>), Cat(Cat(Cat(Three("let", x, "="), a), One("in")), b))
<1>1. /\ x \in Words /\ x # "@" /\ x # ")" /\ x # "rec"
      /\ "let" \in Words /\ "=" \in Words /\ "in" \in Words
      /\ "let" # "@" /\ "let" # ")" /\ "=" # "@" /\ "in" # "@"
  BY KeywordsAreWords, PlainWords, NameWords
<1>2. /\ a \in Texts /\ a \in Clean /\ b \in Texts /\ b \in Clean
      /\ Three("let", x, "=") \in Texts /\ Three("let", x, "=") \in Clean
      /\ Three("let", x, "=") = Cat(One("let"), Two(x, "="))
      /\ One("let") \in Texts /\ One("let") \in Clean /\ Two(x, "=") \in Texts /\ Two(x, "=") \in Clean
      /\ One("in") \in Texts /\ One("in") \in Clean
  BY <1>1, ReadsText, ReadOne, ReadTwo, ReadThree
<1>3. Sound(Cat(Cat(Cat(Three("let", x, "="), a), One("in")), b))
  <2>1. Sound(Three("let", x, "="))
    BY <1>1, <1>2, SoundWord, SoundCat
  <2>2. Cat(Three("let", x, "="), a) \in Clean /\ Sound(Cat(Three("let", x, "="), a))
    BY <1>2, <2>1, SoundCat, CleanCat
  <2>3. /\ Cat(Cat(Three("let", x, "="), a), One("in")) \in Clean
        /\ Sound(Cat(Cat(Three("let", x, "="), a), One("in")))
    BY <1>2, <2>2, SoundCat, CleanCat
  <2> QED
    BY <1>2, <2>3, SoundCat
<1>4. ASSUME NEW s \in Texts
      PROVE  ParseTerm[Cat(Cat(Cat(Cat(Three("let", x, "="), a), One("in")), b), s)]
               = Done(Node("let", <<x>>, <<t, u>>), s)
  <2>1. PICK z, y, v : /\ z = Cat(One("in"), Cat(b, s)) /\ y = Cat(a, z)
                       /\ v = Cat(Three("let", x, "="), y)
    OBVIOUS
  <2>2. /\ Cat(Cat(Cat(Cat(Three("let", x, "="), a), One("in")), b), s) = v
        /\ Cat(b, s) \in Texts /\ z \in Texts /\ y \in Texts /\ v \in Texts
    <3>1. Cat(b, s) \in Texts /\ Cat(One("in"), Cat(b, s)) \in Texts
      BY <1>2, CatLaws
    <3>2. Cat(a, Cat(One("in"), Cat(b, s))) \in Texts
      BY <1>2, <3>1, CatLaws
    <3>3. Cat(Three("let", x, "="), Cat(a, Cat(One("in"), Cat(b, s)))) \in Texts
      BY <1>2, <3>2, CatLaws
    <3>4. Cat(Cat(Cat(Cat(Three("let", x, "="), a), One("in")), b), s) = Cat(Three("let", x, "="), Cat(a, Cat(One("in"), Cat(b, s))))
      BY <1>2, Nested4
    <3> QED
      BY <2>1, <3>1, <3>2, <3>3, <3>4, Zenon
  <2>3. PICK r : r = Cat(Two(x, "="), y)
    OBVIOUS
  <2>4. v # <<>> /\ Word(v, 1) = "let" /\ Skip(v, 1) = r
    <3>1. r \in Texts /\ v = Cat(One("let"), r)
      BY <1>2, <2>1, <2>2, <2>3, CatLaws
    <3> QED
      BY <1>1, <3>1, ReadOne
  <2>5. Word(r, 1) = x /\ Skip(r, 2) = y
    BY <1>1, <2>2, <2>3, ReadTwo
  <2>6. ParseTerm[y] = Done(t, z) /\ ParseTerm[Cat(b, s)] = Done(u, s)
    BY <2>1, <2>2, ReadsText
  <2>7. Skip(z, 1) = Cat(b, s)
    BY <1>1, <2>1, <2>2, ReadOne
  <2>8. TermStep(ParseTerm, v) = Combine("let", <<x>>, <<Done(t, z), Done(u, s)>>, s)
    <3>1. TermStep(ParseTerm, v) =
            LET p == ParseTerm[Skip(r, 2)]
                q == ParseTerm[Skip(p.rest, 1)]
            IN Combine("let", <<Word(r, 1)>>, <<p, q>>, q.rest)
      BY <1>1, <2>4, <2>5, LetStep
    <3> QED
      BY <2>5, <2>6, <2>7, <3>1, DoneFields
  <2> QED
    BY <2>2, <2>8, ParseUnfold, CombineTwo
<1> QED
  BY <1>3, <1>4 DEF Reads

LEMMA LetRecReads ==
  ASSUME NEW x \in Names, NEW t, NEW u, NEW a, NEW b, Reads(t, a), Reads(u, b)
  PROVE  Reads(Node("letrec", <<x>>, <<t, u>>), Cat(Cat(Cat(Four("let", "rec", x, "="), a), One("in")), b))
<1>1. /\ x \in Words /\ x # "@" /\ x # ")"
      /\ "let" \in Words /\ "rec" \in Words /\ "=" \in Words /\ "in" \in Words
      /\ "let" # "@" /\ "let" # ")" /\ "rec" # "@" /\ "=" # "@" /\ "in" # "@"
  BY KeywordsAreWords, PlainWords, NameWords
<1> DEFINE start == Four("let", "rec", x, "=")
           names == Three("rec", x, "=")
<1>2. /\ a \in Texts /\ a \in Clean /\ b \in Texts /\ b \in Clean
      /\ start \in Clean /\ start = Cat(One("let"), names)
      /\ One("let") \in Texts /\ One("let") \in Clean /\ names \in Texts /\ names \in Clean
      /\ One("in") \in Texts /\ One("in") \in Clean
  BY <1>1, ReadsText, ReadOne, ReadThree, ReadFour
<1>3. \A r \in Texts : Word(Cat(names, r), 1) = "rec" /\ Word(Cat(names, r), 2) = x /\ Skip(Cat(names, r), 3) = r
  BY <1>1, ReadThree
<1> HIDE DEF start, names
<1>4. start \in Texts
  BY <1>2 DEF Clean
<1>5. Sound(Cat(Cat(Cat(start, a), One("in")), b))
  <2>1. Sound(start)
    BY <1>1, <1>2, SoundWord, SoundCat
  <2>2. Cat(start, a) \in Clean /\ Sound(Cat(start, a))
    BY <1>2, <2>1, SoundCat, CleanCat
  <2>3. Cat(Cat(start, a), One("in")) \in Clean /\ Sound(Cat(Cat(start, a), One("in")))
    BY <1>2, <2>2, SoundCat, CleanCat
  <2> QED
    BY <1>2, <2>3, SoundCat
<1>6. ASSUME NEW s \in Texts
      PROVE  ParseTerm[Cat(Cat(Cat(Cat(start, a), One("in")), b), s)] = Done(Node("letrec", <<x>>, <<t, u>>), s)
  <2>1. PICK z, y, v : z = Cat(One("in"), Cat(b, s)) /\ y = Cat(a, z) /\ v = Cat(start, y)
    OBVIOUS
  <2>2. /\ Cat(Cat(Cat(Cat(start, a), One("in")), b), s) = v
        /\ Cat(b, s) \in Texts /\ z \in Texts /\ y \in Texts /\ v \in Texts
    <3>1. Cat(b, s) \in Texts /\ Cat(One("in"), Cat(b, s)) \in Texts
      BY <1>2, CatLaws
    <3>2. Cat(a, Cat(One("in"), Cat(b, s))) \in Texts
      BY <1>2, <3>1, CatLaws
    <3>3. Cat(start, Cat(a, Cat(One("in"), Cat(b, s)))) \in Texts
      BY <1>2, <1>4, <3>2, CatLaws
    <3>4. Cat(Cat(Cat(Cat(start, a), One("in")), b), s) = Cat(start, Cat(a, Cat(One("in"), Cat(b, s))))
      BY <1>2, <1>4, Nested4
    <3> QED
      BY <2>1, <3>1, <3>2, <3>3, <3>4, Zenon
  <2>3. PICK r : r = Cat(names, y)
    OBVIOUS
  <2>4. v # <<>> /\ Word(v, 1) = "let" /\ Skip(v, 1) = r
    <3>1. r \in Texts /\ v = Cat(One("let"), r)
      BY <1>2, <2>1, <2>2, <2>3, CatLaws
    <3> QED
      BY <1>1, <3>1, ReadOne
  <2>5. Word(r, 1) = "rec" /\ Word(r, 2) = x /\ Skip(r, 3) = y
    BY <1>3, <2>2, <2>3
  <2>6. ParseTerm[y] = Done(t, z) /\ ParseTerm[Cat(b, s)] = Done(u, s)
    BY <2>1, <2>2, ReadsText
  <2>7. Skip(z, 1) = Cat(b, s)
    BY <1>1, <2>1, <2>2, ReadOne
  <2>8. TermStep(ParseTerm, v) = Combine("letrec", <<x>>, <<Done(t, z), Done(u, s)>>, s)
    <3>1. TermStep(ParseTerm, v) =
            LET p == ParseTerm[Skip(r, 3)]
                q == ParseTerm[Skip(p.rest, 1)]
            IN Combine("letrec", <<Word(r, 2)>>, <<p, q>>, q.rest)
      BY <2>4, <2>5, LetStep
    <3> QED
      BY <2>5, <2>6, <2>7, <3>1, DoneFields
  <2> QED
    BY <2>2, <2>8, ParseUnfold, CombineTwo
<1>7. Reads(Node("letrec", <<x>>, <<t, u>>), Cat(Cat(Cat(start, a), One("in")), b))
  BY <1>5, <1>6 DEF Reads
<1> QED
  BY <1>7 DEF start

LEMMA UnpackReads ==
  ASSUME NEW x \in Names, NEW y \in Names, NEW t, NEW u, NEW a, NEW b, Reads(t, a), Reads(u, b)
  PROVE  Reads(Node("unpack", <<x, y>>, <<t, u>>), Cat(Cat(Cat(Four("unpack", x, y, "="), a), One("in")), b))
<1>1. /\ x \in Words /\ x # "@" /\ y \in Words /\ y # "@"
      /\ "unpack" \in Words /\ "=" \in Words /\ "in" \in Words
      /\ "unpack" # "@" /\ "unpack" # ")" /\ "=" # "@" /\ "in" # "@"
  BY KeywordsAreWords, PlainWords, NameWords
<1> DEFINE start == Four("unpack", x, y, "=")
           names == Three(x, y, "=")
<1>2. /\ a \in Texts /\ a \in Clean /\ b \in Texts /\ b \in Clean
      /\ start \in Clean /\ start = Cat(One("unpack"), names)
      /\ One("unpack") \in Texts /\ One("unpack") \in Clean /\ names \in Texts /\ names \in Clean
      /\ One("in") \in Texts /\ One("in") \in Clean
  BY <1>1, ReadsText, ReadOne, ReadThree, ReadFour
<1>3. \A r \in Texts : Word(Cat(names, r), 1) = x /\ Word(Cat(names, r), 2) = y /\ Skip(Cat(names, r), 3) = r
  BY <1>1, ReadThree
<1> HIDE DEF start, names
<1>4. start \in Texts
  BY <1>2 DEF Clean
<1>5. Sound(Cat(Cat(Cat(start, a), One("in")), b))
  <2>1. Sound(start)
    BY <1>1, <1>2, SoundWord, SoundCat
  <2>2. Cat(start, a) \in Clean /\ Sound(Cat(start, a))
    BY <1>2, <2>1, SoundCat, CleanCat
  <2>3. Cat(Cat(start, a), One("in")) \in Clean /\ Sound(Cat(Cat(start, a), One("in")))
    BY <1>2, <2>2, SoundCat, CleanCat
  <2> QED
    BY <1>2, <2>3, SoundCat
<1>6. ASSUME NEW s \in Texts
      PROVE  ParseTerm[Cat(Cat(Cat(Cat(start, a), One("in")), b), s)] = Done(Node("unpack", <<x, y>>, <<t, u>>), s)
  <2>1. PICK z, w, v : z = Cat(One("in"), Cat(b, s)) /\ w = Cat(a, z) /\ v = Cat(start, w)
    OBVIOUS
  <2>2. /\ Cat(Cat(Cat(Cat(start, a), One("in")), b), s) = v
        /\ Cat(b, s) \in Texts /\ z \in Texts /\ w \in Texts /\ v \in Texts
    <3>1. Cat(b, s) \in Texts /\ Cat(One("in"), Cat(b, s)) \in Texts
      BY <1>2, CatLaws
    <3>2. Cat(a, Cat(One("in"), Cat(b, s))) \in Texts
      BY <1>2, <3>1, CatLaws
    <3>3. Cat(start, Cat(a, Cat(One("in"), Cat(b, s)))) \in Texts
      BY <1>2, <1>4, <3>2, CatLaws
    <3>4. Cat(Cat(Cat(Cat(start, a), One("in")), b), s) = Cat(start, Cat(a, Cat(One("in"), Cat(b, s))))
      BY <1>2, <1>4, Nested4
    <3> QED
      BY <2>1, <3>1, <3>2, <3>3, <3>4, Zenon
  <2>3. PICK r : r = Cat(names, w)
    OBVIOUS
  <2>4. v # <<>> /\ Word(v, 1) = "unpack" /\ Skip(v, 1) = r
    <3>1. r \in Texts /\ v = Cat(One("unpack"), r)
      BY <1>2, <2>1, <2>2, <2>3, CatLaws
    <3> QED
      BY <1>1, <3>1, ReadOne
  <2>5. Word(r, 1) = x /\ Word(r, 2) = y /\ Skip(r, 3) = w
    BY <1>3, <2>2, <2>3
  <2>6. ParseTerm[w] = Done(t, z) /\ ParseTerm[Cat(b, s)] = Done(u, s)
    BY <2>1, <2>2, ReadsText
  <2>7. Skip(z, 1) = Cat(b, s)
    BY <1>1, <2>1, <2>2, ReadOne
  <2>8. TermStep(ParseTerm, v) = Combine("unpack", <<x, y>>, <<Done(t, z), Done(u, s)>>, s)
    BY <2>4, <2>5, <2>6, <2>7, UnpackStep, DoneFields
  <2> QED
    BY <2>2, <2>8, ParseUnfold, CombineTwo
<1>7. Reads(Node("unpack", <<x, y>>, <<t, u>>), Cat(Cat(Cat(start, a), One("in")), b))
  BY <1>5, <1>6 DEF Reads
<1> QED
  BY <1>7 DEF start

LEMMA LambdaReads ==
  ASSUME NEW x \in Names, NEW type \in TypeTexts, NEW t, NEW a, Reads(t, a)
  PROVE  Reads(Node("lambda", <<x>>, <<t>>), Cat(Cat(Cat(Three("\\", x, ":"), type), One("->")), a))
<1>1. /\ x \in Words /\ x # "@" /\ "\\" \in Words /\ ":" \in Words /\ "->" \in Words
      /\ "\\" # "@" /\ "\\" # ")" /\ ":" # "@" /\ "->" # "@"
  BY KeywordsAreWords, PlainWords, NameWords
<1>2. TypeReads(type)
  BY TypesRead
<1>3. /\ type \in Texts /\ type \in Clean /\ Len(type) > 0 /\ Len(type) \in Nat
      /\ \A r \in Texts : TypeLength[Cat(type, r)] = Len(type)
  <2>1. type \in Texts /\ type \in Clean /\ Len(type) > 0
    BY <1>2 DEF TypeReads, Clean
  <2> QED
    BY <1>2, <2>1, CatLen DEF TypeReads
<1> DEFINE start == Three("\\", x, ":")
           names == Two(x, ":")
           arrow == One("->")
<1>4. /\ a \in Texts /\ a \in Clean
      /\ start \in Texts /\ start \in Clean /\ start = Cat(One("\\"), names)
      /\ One("\\") \in Texts /\ One("\\") \in Clean /\ names \in Texts /\ names \in Clean /\ Len(names) = 2
      /\ arrow \in Texts /\ arrow \in Clean /\ Len(arrow) = 1
  BY <1>1, ReadsText, ReadOne, ReadTwo, ReadThree
<1>5. \A r \in Texts : Word(Cat(names, r), 1) = x /\ Skip(Cat(names, r), 2) = r
  BY <1>1, ReadTwo
<1> HIDE DEF start, names, arrow
<1>6. Sound(Cat(Cat(Cat(start, type), arrow), a))
  <2>1. Sound(start)
    BY <1>1, <1>4, SoundWord, SoundCat
  <2>2. Cat(start, type) \in Clean /\ Sound(Cat(start, type))
    BY <1>3, <1>4, <2>1, SoundCat, CleanCat
  <2>3. Cat(Cat(start, type), arrow) \in Clean /\ Sound(Cat(Cat(start, type), arrow))
    BY <1>4, <2>2, SoundCat, CleanCat
  <2> QED
    BY <1>4, <2>3, SoundCat
<1>7. ASSUME NEW s \in Texts
      PROVE  ParseTerm[Cat(Cat(Cat(Cat(start, type), arrow), a), s)] = Done(Node("lambda", <<x>>, <<t>>), s)
  <2>1. PICK u : u = Cat(a, s)
    OBVIOUS
  <2>2. PICK y : y = Cat(type, Cat(arrow, u))
    OBVIOUS
  <2>3. PICK v : v = Cat(start, y)
    OBVIOUS
  <2>4. u \in Texts /\ Cat(arrow, u) \in Texts
    BY <1>4, <2>1, CatLaws
  <2>5. y \in Texts /\ v \in Texts
    BY <1>3, <1>4, <2>2, <2>3, <2>4, CatLaws
  <2>6. Cat(Cat(Cat(Cat(start, type), arrow), a), s) = v
    <3>1. Cat(Cat(Cat(Cat(start, type), arrow), a), s) = Cat(start, Cat(type, Cat(arrow, Cat(a, s))))
      BY <1>3, <1>4, Nested4
    <3> QED
      BY <2>1, <2>2, <2>3, <3>1, Zenon
  <2>7. PICK r : r = Cat(names, y)
    OBVIOUS
  <2>8. r \in Texts /\ v # <<>> /\ Word(v, 1) = "\\" /\ Skip(v, 1) = r
    <3>1. r \in Texts /\ v = Cat(One("\\"), r)
      BY <1>4, <2>3, <2>5, <2>7, CatLaws
    <3> QED
      BY <1>1, <3>1, ReadOne
  <2>9. Word(r, 1) = x /\ Skip(r, 2) = y
    BY <1>5, <2>5, <2>7
  <2>10. TypeLength[y] = Len(type)
    BY <1>3, <2>2, <2>4
  <2>11. Skip(r, Len(type) + 3) = u
    <3>1. Cat(names, type) \in Texts /\ Len(Cat(names, type)) = 2 + Len(type)
      BY <1>3, <1>4, CatLaws, CatLen
    <3>2. PICK p : p = Cat(Cat(names, type), arrow)
      OBVIOUS
    <3>3. PICK n \in Nat : n = Len(type) + 3 /\ n > 0
      BY <1>3
    <3>6. p \in Texts /\ Len(p) = Len(Cat(names, type)) + Len(arrow)
      BY <1>4, <3>1, <3>2, CatLaws, CatLen
    <3>7. Len(p) = n
      BY <1>3, <1>4, <3>1, <3>3, <3>6
    <3>4. Cat(Cat(names, type), Cat(arrow, u)) = Cat(p, u)
      BY <1>4, <2>4, <3>1, <3>2, CatLaws
    <3>5. Cat(Cat(names, type), Cat(arrow, u)) = r
      BY <1>3, <1>4, <2>2, <2>4, <2>7, CatLaws
    <3> QED
      <4>1. Skip(Cat(p, u), n) = u
        BY <2>4, <3>3, <3>6, <3>7, CatSplit
      <4>2. r = Cat(p, u)
        BY <3>4, <3>5
      <4> QED
        BY <3>3, <4>1, <4>2
  <2>12. ParseTerm[u] = Done(t, s)
    BY <2>1, ReadsText
  <2>13. TermStep(ParseTerm, v) = Combine("lambda", <<x>>, <<Done(t, s)>>, s)
    <3>1. TermStep(ParseTerm, v) =
            LET q == ParseTerm[Skip(r, Len(type) + 3)]
            IN Combine("lambda", <<x>>, <<q>>, q.rest)
      BY <1>3, <2>8, <2>9, <2>10, LambdaStep
    <3> QED
      BY <2>11, <2>12, <3>1, DoneFields
  <2> QED
    BY <2>5, <2>6, <2>13, ParseUnfold, CombineOne
<1>8. Reads(Node("lambda", <<x>>, <<t>>), Cat(Cat(Cat(start, type), arrow), a))
  BY <1>6, <1>7 DEF Reads
<1> QED
  BY <1>8 DEF start, arrow

Brace == <<"}">>

LEMMA ReadBrace ==
  /\ Brace \in Texts /\ Brace \in Clean
  /\ \A r \in Texts : Skip(Cat(Brace, r), 1) = r
<1>1. "}" \in Words /\ "}" # "@"
  BY KeywordsAreWords, Zenon
<1>2. Brace = One("}")
  BY Zenon DEF Brace, One
<1> QED
  BY <1>1, <1>2, ReadOne, Zenon

LEMMA MatchReads ==
  ASSUME NEW x \in Names, NEW y \in Names, NEW comma, comma = <<>> \/ comma = Comma,
         NEW e, NEW l, NEW r, NEW a, NEW b, NEW c, Reads(e, a), Reads(l, b), Reads(r, c)
  PROVE  Reads(Node("match", <<x, y>>, <<e, l, r>>),
               Cat(Cat(Cat(Cat(Cat(Cat(One("match"), a), LeftWords(x)), b), Cat(comma, RightWords(y))), c), Brace))
<1>1. x \in Words /\ x # "@" /\ y \in Words /\ y # "@" /\ "match" \in Words /\ "match" # "@" /\ "match" # ")"
  BY KeywordsAreWords, PlainWords, NameWords
<1> DEFINE start == One("match")
           left == LeftWords(x)
           right == Cat(comma, RightWords(y))
<1>2. a \in Texts /\ a \in Clean /\ b \in Texts /\ b \in Clean /\ c \in Texts /\ c \in Clean
  BY ReadsText
<1>3. start \in Texts /\ start \in Clean /\ Brace \in Texts /\ Brace \in Clean
  BY <1>1, ReadOne, ReadBrace
<1>4. /\ left \in Clean
      /\ \A s \in Texts : Cat(left, s) \in Texts /\ Skip(Cat(left, s), 6) = s /\ Word(Cat(left, s), 4) = x
  BY <1>1, LeftRead
<1>5. /\ right \in Clean
      /\ \A s \in Texts : LET v == Cat(right, s)
                          IN v \in Texts /\ Skip(v, Between(v) + 4) = s /\ Word(v, Between(v) + 2) = y
  BY <1>1, RightRead
<1>6. \A s \in Texts : /\ Cat(start, s) \in Texts /\ Cat(start, s) # <<>> /\ Skip(Cat(start, s), 1) = s
                       /\ Word(Cat(start, s), 1) = "match"
  BY <1>1, ReadOne
<1>7. Sound(start)
  BY <1>1, SoundWord
<1> HIDE DEF start, left, right
<1>8. left \in Texts /\ right \in Texts
  BY <1>4, <1>5 DEF Clean
<1> DEFINE w == Cat(Cat(Cat(Cat(Cat(Cat(start, a), left), b), right), c), Brace)
<1>9. Sound(w)
  <2>1. Cat(start, a) \in Clean /\ Sound(Cat(start, a))
    BY <1>2, <1>3, <1>7, SoundCat, CleanCat
  <2>2. Cat(Cat(start, a), left) \in Clean /\ Sound(Cat(Cat(start, a), left))
    BY <1>4, <2>1, SoundCat, CleanCat
  <2>3. Cat(Cat(Cat(start, a), left), b) \in Clean /\ Sound(Cat(Cat(Cat(start, a), left), b))
    BY <1>2, <2>2, SoundCat, CleanCat
  <2>4. /\ Cat(Cat(Cat(Cat(start, a), left), b), right) \in Clean
        /\ Sound(Cat(Cat(Cat(Cat(start, a), left), b), right))
    BY <1>5, <2>3, SoundCat, CleanCat
  <2>5. /\ Cat(Cat(Cat(Cat(Cat(start, a), left), b), right), c) \in Clean
        /\ Sound(Cat(Cat(Cat(Cat(Cat(start, a), left), b), right), c))
    BY <1>2, <2>4, SoundCat, CleanCat
  <2> QED
    BY <1>3, <2>5, SoundCat
<1>10. ASSUME NEW s \in Texts
       PROVE  ParseTerm[Cat(w, s)] = Done(Node("match", <<x, y>>, <<e, l, r>>), s)
  <2>1. PICK end : end = Cat(Brace, s)
    OBVIOUS
  <2>2. PICK second : second = Cat(right, Cat(c, end))
    OBVIOUS
  <2>3. PICK first : first = Cat(left, Cat(b, second))
    OBVIOUS
  <2>4. PICK v : v = Cat(start, Cat(a, first))
    OBVIOUS
  <2>5. end \in Texts /\ Cat(c, end) \in Texts /\ second \in Texts
    BY <1>2, <1>3, <1>8, <2>1, <2>2, CatLaws
  <2>6. Cat(b, second) \in Texts /\ first \in Texts /\ Cat(a, first) \in Texts /\ v \in Texts
    BY <1>2, <1>3, <1>8, <2>3, <2>4, <2>5, CatLaws
  <2>7. Cat(w, s) = v
    <3>1. PICK p : p = Cat(start, a)
      OBVIOUS
    <3>2. PICK q : q = Cat(p, left)
      OBVIOUS
    <3>3. PICK f : f = Cat(q, b)
      OBVIOUS
    <3>4. PICK g : g = Cat(f, right)
      OBVIOUS
    <3>5. PICK h : h = Cat(g, c)
      OBVIOUS
    <3>6. w = Cat(h, Brace)
      BY <3>1, <3>2, <3>3, <3>4, <3>5, Zenon
    <3> HIDE DEF w
    <3>7. p \in Texts /\ q \in Texts /\ f \in Texts /\ g \in Texts /\ h \in Texts
      BY <1>2, <1>3, <1>8, <3>1, <3>2, <3>3, <3>4, <3>5, CatLaws
    <3>8. Cat(w, s) = Cat(h, end)
      BY <1>3, <2>1, <3>6, <3>7, CatLaws
    <3>9. Cat(h, end) = Cat(g, Cat(c, end))
      BY <1>2, <2>5, <3>5, <3>7, CatLaws
    <3>10. Cat(g, Cat(c, end)) = Cat(f, second)
      BY <1>8, <2>2, <2>5, <3>4, <3>7, CatLaws
    <3>11. Cat(f, second) = Cat(q, Cat(b, second))
      BY <1>2, <2>5, <3>3, <3>7, CatLaws
    <3>12. Cat(q, Cat(b, second)) = Cat(p, first)
      BY <1>8, <2>3, <2>6, <3>2, <3>7, CatLaws
    <3>13. Cat(p, first) = v
      BY <1>2, <1>3, <2>4, <2>6, <3>1, CatLaws
    <3> QED
      BY <3>8, <3>9, <3>10, <3>11, <3>12, <3>13, Zenon
  <2> HIDE DEF w
  <2>8. v # <<>> /\ Skip(v, 1) = Cat(a, first) /\ Word(v, 1) = "match"
    BY <1>6, <2>4, <2>6
  <2>9. Skip(first, 6) = Cat(b, second) /\ Word(first, 4) = x
    BY <1>4, <2>3, <2>6
  <2>10. Skip(second, Between(second) + 4) = Cat(c, end) /\ Word(second, Between(second) + 2) = y
    BY <1>5, <2>2, <2>5
  <2>11. Skip(end, 1) = s
    BY <2>1, ReadBrace
  <2>12. /\ ParseTerm[Cat(a, first)] = Done(e, first) /\ ParseTerm[Cat(b, second)] = Done(l, second)
         /\ ParseTerm[Cat(c, end)] = Done(r, end)
    BY <2>5, <2>6, ReadsText
  <2>13. TermStep(ParseTerm, v) = Combine("match", <<x, y>>, <<Done(e, first), Done(l, second), Done(r, end)>>, s)
    BY <2>8, <2>9, <2>10, <2>11, <2>12, MatchStep, DoneFields
  <2> QED
    BY <2>6, <2>7, <2>13, ParseUnfold, CombineThree
<1>11. Reads(Node("match", <<x, y>>, <<e, l, r>>), w)
  BY <1>9, <1>10 DEF Reads
<1> QED
  BY <1>11 DEF start, left, right

-----------------------------------------------------------------------------
(* The language *)

\* What the parser reads, of the terms of a set.
Read(N) == {p \in N \X Texts : Reads(p[1], p[2])}

LEMMA ReadPairs ==
  \A N : \A t, w : <<t, w>> \in Read(N) <=> t \in N /\ Reads(t, w)
BY ReadsText DEF Read

LEMMA LeavesKept == \A N : LeafGrammar(Read(N), N)
<1> SUFFICES ASSUME NEW N PROVE LeafGrammar(Read(N), N)
  OBVIOUS
<1>1. ASSUME NEW x \in Names, Node("var", <<x>>, <<>>) \in N
      PROVE  <<Node("var", <<x>>, <<>>), <<x>> >> \in Read(N)
  <2>1. x \in Plain /\ Literal(x) = {}
    BY NameWords
  <2>2. Reads(Node("var", <<x>>, <<>>), One(x))
    BY <2>1, LeafReads
  <2> QED
    BY <1>1, <2>2, ReadPairs, Zenon DEF One
<1>2. ASSUME NEW x \in Plain, NEW v, Literal(x) = {v}, Numeral(v) \in N
      PROVE  <<Numeral(v), <<x>> >> \in Read(N)
  <2>1. Literal(x) # {} /\ (CHOOSE u \in Literal(x) : TRUE) = v
    BY <1>2
  <2>2. Numeral(v) = [op |-> "literal", value |-> CHOOSE u \in Literal(x) : TRUE, names |-> <<>>, args |-> <<>>]
    BY <2>1, Zenon DEF Numeral
  <2>3. Reads(Numeral(v), One(x))
    BY <2>1, <2>2, LeafReads
  <2> QED
    BY <1>2, <2>3, ReadPairs, Zenon DEF One
<1> QED
  BY <1>1, <1>2, Zenon DEF LeafGrammar

LEMMA BinariesKept == \A N : BinaryGrammar(Read(N), N)
<1> SUFFICES ASSUME NEW N, NEW op \in BinaryWords, NEW l, NEW r, NEW a, NEW b,
                    <<l, a>> \in Read(N), <<r, b>> \in Read(N), Node(op, <<>>, <<l, r>>) \in N
             PROVE  <<Node(op, <<>>, <<l, r>>), <<op>> \o a \o b>> \in Read(N)
  BY Zenon DEF BinaryGrammar
<1>1. Reads(l, a) /\ Reads(r, b)
  BY ReadPairs, Zenon
<1>2. Reads(Node(op, <<>>, <<l, r>>), Cat(Cat(One(op), a), b))
  BY <1>1, BinaryReads, Zenon
<1> QED
  BY <1>2, ReadPairs, Zenon DEF Cat, One

LEMMA InjectionsKept == \A N : InjectionGrammar(Read(N), N)
<1> SUFFICES ASSUME NEW N, NEW t, NEW a, <<t, a>> \in Read(N)
             PROVE  /\ Node("left", <<>>, <<t>>) \in N =>
                         <<Node("left", <<>>, <<t>>), <<"Left", "(">> \o a \o <<")">> >> \in Read(N)
                    /\ Node("right", <<>>, <<t>>) \in N =>
                         <<Node("right", <<>>, <<t>>), <<"Right", "(">> \o a \o <<")">> >> \in Read(N)
  BY Zenon DEF InjectionGrammar
<1>1. Reads(t, a)
  BY ReadPairs, Zenon
<1>2. \A word, op :
        (word = "Left" /\ op = "left") \/ (word = "Right" /\ op = "right") =>
          Reads(Node(op, <<>>, <<t>>), Cat(Cat(Two(word, "("), a), One(")")))
  BY <1>1, InjectionReads
<1>3. Reads(Node("left", <<>>, <<t>>), Cat(Cat(Two("Left", "("), a), One(")")))
  <2>1. PICK word, op : word = "Left" /\ op = "left"
    OBVIOUS
  <2>2. Reads(Node(op, <<>>, <<t>>), Cat(Cat(Two(word, "("), a), One(")")))
    BY <1>2, <2>1, Zenon
  <2> QED
    BY <2>1, <2>2, Zenon
<1>4. Reads(Node("right", <<>>, <<t>>), Cat(Cat(Two("Right", "("), a), One(")")))
  <2>1. PICK word, op : word = "Right" /\ op = "right"
    OBVIOUS
  <2>2. Reads(Node(op, <<>>, <<t>>), Cat(Cat(Two(word, "("), a), One(")")))
    BY <1>2, <2>1, Zenon
  <2> QED
    BY <2>1, <2>2, Zenon
<1> QED
  BY <1>3, <1>4, ReadPairs, Zenon DEF Cat, One, Two

LEMMA MatchesKept == \A N : MatchGrammar(Read(N), N)
<1> SUFFICES ASSUME NEW N, NEW x \in Names, NEW y \in Names, NEW comma \in {<<>>, <<",">>}
             PROVE  \A e, l, r, a, b, c :
                      LET t == Node("match", <<x, y>>, <<e, l, r>>)
                      IN <<e, a>> \in Read(N) /\ <<l, b>> \in Read(N) /\ <<r, c>> \in Read(N) /\ t \in N =>
                           <<t, <<"match">> \o a \o <<"{", "Left", "(", x, ")", "=>">> \o b
                                  \o (comma \o <<"Right", "(", y, ")", "=>">>) \o c \o <<"}">> >> \in Read(N)
  BY Zenon DEF MatchGrammar
<1> SUFFICES ASSUME NEW e, NEW l, NEW r, NEW a, NEW b, NEW c,
                    <<e, a>> \in Read(N), <<l, b>> \in Read(N), <<r, c>> \in Read(N),
                    Node("match", <<x, y>>, <<e, l, r>>) \in N
             PROVE  <<Node("match", <<x, y>>, <<e, l, r>>),
                      <<"match">> \o a \o <<"{", "Left", "(", x, ")", "=>">> \o b
                        \o (comma \o <<"Right", "(", y, ")", "=>">>) \o c \o <<"}">> >> \in Read(N)
  BY Zenon
<1>1. Reads(e, a) /\ Reads(l, b) /\ Reads(r, c) /\ (comma = <<>> \/ comma = Comma)
  BY ReadPairs, Zenon DEF Comma
<1>2. Reads(Node("match", <<x, y>>, <<e, l, r>>),
            Cat(Cat(Cat(Cat(Cat(Cat(One("match"), a), LeftWords(x)), b), Cat(comma, RightWords(y))), c), Brace))
  BY <1>1, MatchReads, Zenon
<1> QED
  BY <1>2, ReadPairs, Zenon DEF Cat, One, LeftWords, RightWords, Brace

LEMMA LetsKept == \A N : LetGrammar(Read(N), N)
<1> SUFFICES ASSUME NEW N, NEW x \in Names
             PROVE  \A v, s, a, b :
                      LET let == Node("let", <<x>>, <<v, s>>)
                          letrec == Node("letrec", <<x>>, <<v, s>>)
                      IN <<v, a>> \in Read(N) /\ <<s, b>> \in Read(N) =>
                           /\ let \in N => <<let, <<"let", x, "=">> \o a \o <<"in">> \o b>> \in Read(N)
                           /\ letrec \in N => <<letrec, <<"let", "rec", x, "=">> \o a \o <<"in">> \o b>> \in Read(N)
  BY Zenon DEF LetGrammar
<1> SUFFICES ASSUME NEW t, NEW u, NEW a, NEW b, <<t, a>> \in Read(N), <<u, b>> \in Read(N)
             PROVE  /\ Node("let", <<x>>, <<t, u>>) \in N =>
                         <<Node("let", <<x>>, <<t, u>>), <<"let", x, "=">> \o a \o <<"in">> \o b>> \in Read(N)
                    /\ Node("letrec", <<x>>, <<t, u>>) \in N =>
                         <<Node("letrec", <<x>>, <<t, u>>), <<"let", "rec", x, "=">> \o a \o <<"in">> \o b>>
                           \in Read(N)
  BY Zenon
<1>1. Reads(t, a) /\ Reads(u, b)
  BY ReadPairs, Zenon
<1>2. Reads(Node("let", <<x>>, <<t, u>>), Cat(Cat(Cat(Three("let", x, "="), a), One("in")), b))
  BY <1>1, LetReads, Zenon
<1>3. Reads(Node("letrec", <<x>>, <<t, u>>), Cat(Cat(Cat(Four("let", "rec", x, "="), a), One("in")), b))
  BY <1>1, LetRecReads, Zenon
<1> QED
  BY <1>2, <1>3, ReadPairs, Zenon DEF Cat, One, Three, Four

LEMMA UnpacksKept == \A N : UnpackGrammar(Read(N), N)
<1> SUFFICES ASSUME NEW N, NEW x \in Names, NEW y \in Names, NEW t, NEW u, NEW a, NEW b,
                    <<t, a>> \in Read(N), <<u, b>> \in Read(N), Node("unpack", <<x, y>>, <<t, u>>) \in N
             PROVE  <<Node("unpack", <<x, y>>, <<t, u>>), <<"unpack", x, y, "=">> \o a \o <<"in">> \o b>> \in Read(N)
  BY Zenon DEF UnpackGrammar
<1>1. Reads(t, a) /\ Reads(u, b)
  BY ReadPairs, Zenon
<1>2. Reads(Node("unpack", <<x, y>>, <<t, u>>), Cat(Cat(Cat(Four("unpack", x, y, "="), a), One("in")), b))
  BY <1>1, UnpackReads, Zenon
<1> QED
  BY <1>2, ReadPairs, Zenon DEF Cat, One, Four

LEMMA LambdasKept == \A N : LambdaGrammar(Read(N), N)
<1> SUFFICES ASSUME NEW N, NEW x \in Names, NEW type \in TypeTexts, NEW t, NEW a,
                    <<t, a>> \in Read(N), Node("lambda", <<x>>, <<t>>) \in N
             PROVE  <<Node("lambda", <<x>>, <<t>>), <<"\\", x, ":">> \o type \o <<"->">> \o a>> \in Read(N)
  BY Zenon DEF LambdaGrammar
<1>1. Reads(t, a)
  BY ReadPairs, Zenon
<1>2. Reads(Node("lambda", <<x>>, <<t>>), Cat(Cat(Cat(Three("\\", x, ":"), type), One("->")), a))
  BY <1>1, LambdaReads, Zenon
<1> QED
  BY <1>2, ReadPairs, Zenon DEF Cat, One, Three

LEMMA BracketsKept == \A N : BracketGrammar(Read(N), N)
<1> SUFFICES ASSUME NEW N
             PROVE  /\ \A t, a : <<t, a>> \in Read(N) => <<t, <<"(">> \o a \o <<")">> >> \in Read(N)
                    /\ \A f, x, a, b :
                         <<f, a>> \in Read(N) /\ <<x, b>> \in Read(N) /\ Node("app", <<>>, <<f, x>>) \in N =>
                           <<Node("app", <<>>, <<f, x>>), <<"(">> \o a \o b \o <<")">> >> \in Read(N)
  BY Zenon DEF BracketGrammar
<1>1. ASSUME NEW t, NEW a, <<t, a>> \in Read(N) PROVE <<t, <<"(">> \o a \o <<")">> >> \in Read(N)
  <2>1. t \in N /\ Reads(t, Cat(Cat(One("("), a), One(")")))
    BY <1>1, ReadPairs, BracketReads, Zenon
  <2> QED
    BY <2>1, ReadPairs, Zenon DEF Cat, One
<1>2. ASSUME NEW f, NEW x, NEW a, NEW b, <<f, a>> \in Read(N), <<x, b>> \in Read(N), Node("app", <<>>, <<f, x>>) \in N
      PROVE  <<Node("app", <<>>, <<f, x>>), <<"(">> \o a \o b \o <<")">> >> \in Read(N)
  <2>1. Reads(f, a) /\ Reads(x, b)
    BY <1>2, ReadPairs, Zenon
  <2>2. Reads(Node("app", <<>>, <<f, x>>), Cat(Cat(Cat(One("("), a), b), One(")")))
    BY <2>1, AppReads, Zenon
  <2> QED
    BY <1>2, <2>2, ReadPairs, Zenon DEF Cat, One
<1> QED
  BY <1>1, <1>2, Zenon

\* What is written for a term is read as that term, whatever is behind it.
LEMMA WrittenIsRead == \A N : \A t, w : Writes(N, t, w) => t \in N /\ Reads(t, w)
<1> SUFFICES ASSUME NEW N, NEW t, NEW w, Writes(N, t, w) PROVE t \in N /\ Reads(t, w)
  OBVIOUS
<1>1. TermGrammar(Read(N), N)
  BY LeavesKept, BinariesKept, InjectionsKept, MatchesKept, LetsKept, UnpacksKept, LambdasKept, BracketsKept, Zenon
    DEF TermGrammar
<1>2. Read(N) \in SUBSET (N \X Texts)
  BY DEF Read
<1>3. <<t, w>> \in Read(N)
  BY <1>1, <1>2, Zenon DEF Writes
<1> QED
  BY <1>3, ReadPairs, Zenon

LEMMA CodeClean == \A w \in Clean : Code(w) = w
BY DEF Code, Clean, NoComment

LEMMA CodeBefore ==
  \A w \in Clean : \A junk \in Texts : Code(Cat(w, Cat(One("@"), junk))) = w
<1> SUFFICES ASSUME NEW w \in Clean, NEW junk \in Texts PROVE Code(Cat(w, Cat(One("@"), junk))) = w
  OBVIOUS
<1>1. PICK m \in Nat : m = Len(w)
  BY CatLen DEF Clean
<1>2. PICK at : at = Cat(One("@"), junk)
  OBVIOUS
<1>3. PICK text : text = Cat(w, at)
  OBVIOUS
<1>4. w \in Texts /\ w \in Seq(Words) /\ \A i \in 1..m : w[i] # "@"
  BY <1>1 DEF Clean, NoComment, Texts
<1>5. at \in Texts /\ at # <<>> /\ Word(at, 1) = "@"
  BY <1>2, KeywordsAreWords, ReadOne
<1>6. 1 \in 1..Len(at) /\ at[1] = "@"
  BY <1>5, TextLaws DEF Word
<1>7. PICK n \in Nat : n = Len(at) /\ n > 0
  BY <1>5, <1>6, TextLaws
<1>8. text \in Texts /\ Len(text) = m + n
  BY <1>1, <1>3, <1>4, <1>5, <1>7, CatLaws, CatLen
<1>9. \A i \in 1..m : text[i] = w[i]
  <2> SUFFICES ASSUME NEW i \in 1..m PROVE text[i] = w[i]
    OBVIOUS
  <2>1. Word(text, i) = w[i] /\ i \in 1..(m + n)
    BY <1>1, <1>3, <1>4, <1>5, <1>7, CatPrefix
  <2> QED
    BY <1>8, <2>1 DEF Word
<1>10. text[m + 1] = "@" /\ m + 1 \in 1..(m + n)
  <2>1. w \o at = text /\ at \in Seq(Words) /\ m + 1 \in 1..(m + n) /\ ~(m + 1 <= m) /\ (m + 1) - m = 1
    BY <1>3, <1>5, <1>7 DEF Cat, Texts
  <2>2. \A i \in 1..(m + n) : (w \o at)[i] = IF i <= m THEN w[i] ELSE at[i - m]
    BY <1>1, <1>4, <1>7, <2>1, ConcatProperties
  <2> QED
    BY <1>6, <2>1, <2>2
<1>11. \A i \in 1..(m + n) : text[i] = "@" /\ (\A j \in 1..(i - 1) : text[j] # "@") <=> i = m + 1
  <2> SUFFICES ASSUME NEW i \in 1..(m + n)
               PROVE  text[i] = "@" /\ (\A j \in 1..(i - 1) : text[j] # "@") <=> i = m + 1
    OBVIOUS
  <2>1. CASE i <= m
    <3>1. i \in 1..m /\ i # m + 1
      BY <2>1
    <3> QED
      BY <1>4, <1>9, <3>1
  <2>2. CASE i = m + 1
    <3>1. \A j \in 1..(i - 1) : text[j] # "@"
      BY <1>4, <1>9, <2>2
    <3> QED
      BY <1>10, <2>2, <3>1
  <2>3. CASE i > m + 1
    <3>1. m + 1 \in 1..(i - 1) /\ i # m + 1
      BY <2>3
    <3> QED
      BY <1>10, <3>1
  <2> QED
    BY <2>1, <2>2, <2>3
<1>12. PICK k : k = CHOOSE i \in 1..(m + n) : text[i] = "@" /\ \A j \in 1..(i - 1) : text[j] # "@"
  OBVIOUS
<1>13. k = m + 1
  BY <1>10, <1>11, <1>12
<1>14. SubSeq(text, 1, m) = w
  <2>1. \A i \in 1..m : text[i] \in Words
    BY <1>4, <1>9, <1>1, ElementOfSeq
  <2>2. /\ SubSeq(text, 1, m) \in Seq(Words) /\ Len(SubSeq(text, 1, m)) = m
        /\ \A i \in 1..m : SubSeq(text, 1, m)[i] = text[i]
    <3>1. /\ SubSeq(text, 1, m) \in Seq(Words)
          /\ Len(SubSeq(text, 1, m)) = IF 1 <= m THEN m - 1 + 1 ELSE 0
          /\ \A i \in 1..(m - 1 + 1) : SubSeq(text, 1, m)[i] = text[1 + i - 1]
      BY <2>1, SubSeqProperties
    <3> QED
      BY <3>1
  <2> QED
    BY <1>1, <1>4, <1>9, <2>2, SeqEqual
<1>15. Code(text) = SubSeq(text, 1, k - 1)
  BY <1>8, <1>10, <1>12 DEF Code
<1>16. k - 1 = m
  BY <1>13
<1> QED
  BY <1>2, <1>3, <1>14, <1>15, <1>16

\* The parser makes of a text the term that the grammar lets a programmer write
\* it for, with or without a comment behind it.
THEOREM ParsesWhatIsWritten ==
  ASSUME NEW N, NEW t, NEW text, IsTextOf(N, text, t)
  PROVE  ParseText(text) = [ok |-> TRUE, root |-> t]
<1>1. PICK w \in Texts : /\ Writes(N, t, w)
                         /\ text = w \/ \E junk \in Texts : text = w \o <<"@">> \o junk
  BY DEF IsTextOf
<1>2. Reads(t, w) /\ w \in Clean
  BY <1>1, WrittenIsRead, ReadsText
<1>3. Code(text) = w
  <2>1. CASE text = w
    BY <1>2, <2>1, CodeClean
  <2>2. CASE \E junk \in Texts : text = w \o <<"@">> \o junk
    <3>1. PICK junk \in Texts : text = w \o <<"@">> \o junk
      BY <2>2
    <3>2. text = Cat(Cat(w, One("@")), junk)
      BY <3>1, Zenon DEF Cat, One
    <3>3. One("@") \in Texts
      BY KeywordsAreWords, ReadOne
    <3>4. text = Cat(w, Cat(One("@"), junk))
      BY <3>2, <3>3, CatLaws
    <3> QED
      BY <1>2, <3>4, CodeBefore
  <2> QED
    BY <1>1, <2>1, <2>2
<1>4. ParseTerm[w] = Done(t, <<>>)
  <2>1. Cat(w, <<>>) = w /\ <<>> \in Texts
    BY TextLaws DEF Cat
  <2>2. ParseTerm[Cat(w, <<>>)] = Done(t, <<>>)
    BY <1>2, <2>1, ReadsText
  <2> QED
    BY <2>1, <2>2
<1>5. ParseText(text) = [ok |-> Done(t, <<>>).ok /\ Done(t, <<>>).rest = <<>>, root |-> Done(t, <<>>).node]
  BY <1>3, <1>4, Zenon DEF ParseText
<1>6. (Done(t, <<>>).ok /\ Done(t, <<>>).rest = <<>>) = TRUE
  BY DoneFields
<1> QED
  BY <1>5, <1>6, DoneFields, Zenon

-----------------------------------------------------------------------------
(* From the text to the answer *)

\* What is executed is one of the kernel's texts, and an execution that returns
\* without an answer has rejected it.
SourceInv ==
  /\ phase \notin {"idle", "halted"} => source \in Sources
  /\ receipts # <<>> => source \in Sources
  /\ phase = "returned" /\ answer = "unwritten" => ~Parse(source).ok

LEMMA SourceNext ==
  ASSUME ReceiptInv, SourceInv, [Next]_vars
  PROVE  SourceInv'
<1> USE DEF ReceiptInv, ReceiptPerMatch, ReceiptSoFar, SourceInv
<1>1. CASE Reject \/ Start
  BY <1>1 DEF Reject, Start
<1>2. CASE Enter \/ Overflow \/ Fault \/ Panic
  BY <1>2 DEF Enter, Overflow, Fault, Panic, Running
<1>3. CASE Yield \/ Poll
  <2>1. phase = "eval" /\ phase' \in {"eval", "commit"} /\ source' = source /\ receipts' = receipts
    BY <1>3 DEF Yield, Poll, Running, Return
  <2> QED
    BY <2>1
<1>4. CASE Commit
  BY <1>4 DEF Commit
<1>5. CASE WriteAnswer
  <2>1. phase = "answer" /\ source' = source /\ receipts' = receipts /\ answer' # "unwritten"
    BY <1>5 DEF WriteAnswer
  <2> QED
    BY <2>1
<1>6. CASE NoMemory
  BY <1>6 DEF NoMemory
<1>7. CASE UNCHANGED vars
  BY <1>7 DEF vars
<1> QED
  BY <1>1, <1>2, <1>3, <1>4, <1>5, <1>6, <1>7 DEF Next, Step

\* From a text to its answer: whoever writes a text for a term, as the grammar
\* has it, is not turned away, and is answered, and has committed, what the
\* rules say of that term.
THEOREM WrittenProgramsRun ==
  ASSUME NEW V, NEW N, ProgramsOver(V, N), Rules,
         \A s \in Sources : Parse(s) = ParseText(s)
  PROVE  Spec => []RunsAsWritten(N)
<1>1. Init => ReceiptInv /\ SourceInv
  <2>1. Init => SourceInv
    BY DEF Init, SourceInv
  <2> QED
    BY <2>1, ReceiptInit
<1>2. ReceiptInv /\ SourceInv /\ [Next]_vars => ReceiptInv' /\ SourceInv'
  BY ReceiptNext, SourceNext
<1>3. ReceiptInv /\ SourceInv /\ EvaluatesByTheRules => RunsAsWritten(N)
  <2> SUFFICES ASSUME ReceiptInv, SourceInv, EvaluatesByTheRules,
                      NEW t \in N, IsTextOf(N, source, t)
               PROVE  /\ phase = "returned" => answer # "unwritten"
                      /\ receipts # <<>> \/ answer # "unwritten" =>
                           IF outcome = "value" THEN Evaluates(t, Seeds, polled, result)
                           ELSE Faults(t, Seeds, polled)
    BY DEF RunsAsWritten
  <2>1. source \in Sources => Parse(source) = [ok |-> TRUE, root |-> t]
    <3>1. ParseText(source) = [ok |-> TRUE, root |-> t]
      BY ParsesWhatIsWritten
    <3> QED
      BY <3>1, Zenon
  <2>2. source \in Sources => Parse(source).ok /\ Parse(source).root = t
    BY <2>1
  <2>3. receipts # <<>> \/ answer # "unwritten" => source \in Sources
    BY DEF SourceInv, ReceiptInv, ReceiptPerMatch
  <2>4. phase = "returned" => answer # "unwritten"
    BY <2>2 DEF SourceInv
  <2> QED
    BY <2>2, <2>3, <2>4, Zenon DEF EvaluatesByTheRules
<1>4. Spec => []EvaluatesByTheRules
  BY RulesAreKept
<1> QED
  BY <1>1, <1>2, <1>3, <1>4, PTL DEF Spec
=============================================================================
