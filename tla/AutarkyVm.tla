----------------------------- MODULE AutarkyVm -----------------------------
(***************************************************************************)
(* The evaluator of autarky_vm/src/vm.rs and its entry point in lib.rs.    *)
(* evaluate calls itself on the host's stack, so the model is a machine    *)
(* with that stack: a frame is one call of evaluate, with the node, the    *)
(* environment it was given and the values its own calls have returned.    *)
(* One execution is modelled, since each starts with a new machine and a   *)
(* new environment.                                                        *)
(***************************************************************************)
EXTENDS Integers, Sequences

CONSTANTS
  Sources,      \* the texts the kernel may pass
  Parse(_),     \* [ok, root]: what the parser makes of a text
  Seeds,        \* the environment of every program: SYS_COMPUTE, SYS_CREDITS
  IntRange,     \* values of an i64 (2^64)
  VolumeRange,  \* values of an i32, the volume of a receipt (2^32)
  Volumes,      \* what virtio_net_poll_rx may return
  MaxFrames     \* calls of evaluate for which the kernel's stack has room

ASSUME RangeAssumption == IntRange \in Nat \ {0} /\ VolumeRange \in Nat \ {0}
ASSUME FramesAssumption == MaxFrames \in Nat \ {0}
ASSUME VolumesAssumption == Volumes \subseteq Int

VARIABLES
  phase,     \* "idle", "eval", "commit", "answer", "returned"; "halted" by a fault,
             \* "overrun" when the stack has grown into the data below it
  source,    \* the text, empty before the call
  stack,     \* the calls of evaluate in progress, the innermost last
  outcome,   \* what evaluate returned: "value" or "fault"
  result,    \* the value it returned
  receipts,  \* volumes committed to the watcher
  answer,    \* what out_buf holds: "unwritten", "matched" or "fault"
  polled     \* ghost: the volumes polled so far

vars == <<phase, source, stack, outcome, result, receipts, answer, polled>>

NoName == "no name"

\* Two's complement: the value of n in a width of range values.
WrapNever(n, range) == n  \* mutant: as wide as needed
Wrap(n, range) == ((n + (range \div 2)) % range) - (range \div 2)
IntValue(n) == [kind |-> "int", n |-> Wrap(n, IntRange)]
NoValue == IntValue(0)

-----------------------------------------------------------------------------
(* What a call of evaluate does next *)

Arithmetic == {"add", "sub", "mul", "div", "eq", "gt", "lt", "ge", "le"}
Binders == {"app", "match", "let", "letrec", "unpack"}  \* they end with a body

\* Subterms that are evaluated first, in the environment of the call.
Operands(op) ==
  IF op \in Arithmetic \cup {"pair", "app"} THEN 2
  ELSE IF op \in {"left", "right", "match", "let", "letrec", "unpack"} THEN 1
  ELSE 0

Extend(env, x, v) == [y \in DOMAIN env \cup {x} |-> IF y = x THEN v ELSE env[y]]

\* App: the closure's own environment, its parameter, and its own name.
ApplyDynamic(env, c, v) ==  \* mutant: the environment of the call
  Extend(Extend(env, c.param, v), c.rec_name, c)
Apply(env, c, v) ==
  LET bound == Extend(c.env, c.param, v)
  IN IF c.rec_name = NoName THEN bound ELSE Extend(bound, c.rec_name, c)

\* LetRec: a closure is tagged with its name.
Tagged(v, x) == IF v.kind = "closure" THEN [v EXCEPT !.rec_name = x] ELSE v

\* The first operand has the shape that gives the body its variables.
CanBind(f) ==
  CASE f.node.op = "app" -> f.vals[1].kind = "closure"
    [] f.node.op = "match" -> f.vals[1].kind \in {"left", "right"}
    [] f.node.op = "unpack" -> f.vals[1].kind = "pair"
    [] OTHER -> TRUE

Body(f) ==
  CASE f.node.op = "app" -> f.vals[1].body
    [] f.node.op = "match" /\ f.vals[1].kind = "right" -> f.node.args[3]
    [] OTHER -> f.node.args[2]

Scope(f) ==
  LET v == f.vals[1]
      names == f.node.names
  IN CASE f.node.op = "app" -> Apply(f.env, v, f.vals[2])
       [] f.node.op = "match" ->
            Extend(f.env, IF v.kind = "left" THEN names[1] ELSE names[2], v.parts[1])
       [] f.node.op = "let" -> Extend(f.env, names[1], v)
       [] f.node.op = "letrec" -> Extend(f.env, names[1], Tagged(v, names[1]))
       [] f.node.op = "unpack" -> Extend(Extend(f.env, names[1], v.parts[1]), names[2], v.parts[2])

\* The node and the environment of the call that f makes next.
NextCall(f) ==
  IF Len(f.vals) < Operands(f.node.op)
  THEN [node |-> f.node.args[Len(f.vals) + 1], env |-> f.env]
  ELSE [node |-> Body(f), env |-> Scope(f)]

Calls(f) ==
  \/ Len(f.vals) < Operands(f.node.op)
  \/ f.node.op \in Binders /\ Len(f.vals) = Operands(f.node.op) /\ CanBind(f)

\* Rust's division truncates.
Abs(n) == IF n < 0 THEN -n ELSE n
Quotient(a, b) ==
  IF (a < 0) # (b < 0) THEN -(Abs(a) \div Abs(b)) ELSE Abs(a) \div Abs(b)

Either(holds) == [kind |-> IF holds THEN "left" ELSE "right", parts |-> <<IntValue(0)>>]

Compute(op, a, b) ==
  CASE op = "add" -> IntValue(a + b)
    [] op = "sub" -> IntValue(a - b)
    [] op = "mul" -> IntValue(a * b)
    [] op = "div" -> IntValue(Quotient(a, b))
    [] op = "eq" -> Either(a = b)
    [] op = "gt" -> Either(a > b)
    [] op = "lt" -> Either(a < b)
    [] op = "ge" -> Either(a >= b)
    [] op = "le" -> Either(a <= b)

BothInt(f) == f.vals[1].kind = "int" /\ f.vals[2].kind = "int"
IsPoll(f) == f.node.op = "var" /\ f.node.names[1] = "POLL"

Faulty(f) ==
  \/ f.node.op \in Binders /\ Len(f.vals) = Operands(f.node.op) /\ ~CanBind(f)
  \/ f.node.op \in Arithmetic /\ ~BothInt(f)
  \/ f.node.op = "div" /\ BothInt(f) /\ f.vals[2].n = 0
  \/ f.node.op = "var" /\ ~IsPoll(f) /\ f.node.names[1] \notin DOMAIN f.env

\* The smallest integer divided by -1: Rust panics.
Panics(f) ==
  f.node.op = "div" /\ BothInt(f) /\ f.vals[2].n = -1 /\ f.vals[1].n = -(IntRange \div 2)

Value(f) ==
  LET op == f.node.op
  IN CASE op = "literal" -> f.node.value
       [] op = "var" -> f.env[f.node.names[1]]
       [] op = "lambda" -> [kind |-> "closure", param |-> f.node.names[1], body |-> f.node.args[1],
                            env |-> f.env, rec_name |-> NoName]
       [] op \in {"pair", "left", "right"} -> [kind |-> op, parts |-> f.vals]
       [] op \in Binders -> f.vals[Len(f.vals)]
       [] OTHER -> Compute(op, f.vals[1].n, f.vals[2].n)

-----------------------------------------------------------------------------
(* autarky_execute *)

Init ==
  /\ phase = "idle" /\ source = <<>> /\ stack = <<>>
  /\ outcome = "fault" /\ result = NoValue
  /\ receipts = <<>> /\ answer = "unwritten" /\ polled = <<>>

\* An empty text, an error of the parser or words behind the term: it returns
\* at once, and out_buf stays as it was.
Reject ==
  /\ phase = "idle"
  /\ source' \in Sources /\ ~Parse(source').ok
  /\ phase' = "returned"
  /\ UNCHANGED <<stack, outcome, result, receipts, answer, polled>>

Start ==
  /\ phase = "idle"
  /\ source' \in Sources /\ Parse(source').ok
  /\ stack' = <<[node |-> Parse(source').root, env |-> Seeds, vals |-> <<>>]>>
  /\ phase' = "eval"
  /\ UNCHANGED <<outcome, result, receipts, answer, polled>>

Top == stack[Len(stack)]
Running == phase = "eval" /\ stack # <<>>

EnterLast ==  \* mutant: the last call replaces its caller's frame
  /\ Running /\ Calls(Top) /\ Len(stack) < MaxFrames
  /\ stack' = (IF Len(Top.vals) < Operands(Top.node.op) THEN stack
               ELSE SubSeq(stack, 1, Len(stack) - 1))
              \o <<[node |-> NextCall(Top).node, env |-> NextCall(Top).env, vals |-> <<>>]>>
  /\ UNCHANGED <<phase, source, outcome, result, receipts, answer, polled>>

Enter ==
  /\ Running /\ Calls(Top) /\ Len(stack) < MaxFrames
  /\ stack' = Append(stack, [node |-> NextCall(Top).node, env |-> NextCall(Top).env, vals |-> <<>>])
  /\ UNCHANGED <<phase, source, outcome, result, receipts, answer, polled>>

\* The calls for operands and bodies alike stay on the stack until they return.
\* Nothing guards its end, and what happens behind it is not modelled.
Overflow ==
  /\ Running /\ Calls(Top) /\ Len(stack) = MaxFrames
  /\ phase' = "overrun"
  /\ UNCHANGED <<source, stack, outcome, result, receipts, answer, polled>>

\* The innermost call returns v to its caller, or to autarky_execute.
ReturnLeaky(v) ==  \* mutant: the caller goes on in the environment of the call
  IF Len(stack) = 1
  THEN stack' = <<>> /\ outcome' = "value" /\ result' = v /\ phase' = "commit"
  ELSE /\ stack' = [i \in 1..(Len(stack) - 1) |->
                      IF i = Len(stack) - 1
                      THEN [stack[i] EXCEPT !.vals = Append(@, v), !.env = Top.env] ELSE stack[i]]
       /\ UNCHANGED <<outcome, result, phase>>
Return(v) ==
  IF Len(stack) = 1
  THEN stack' = <<>> /\ outcome' = "value" /\ result' = v /\ phase' = "commit"
  ELSE /\ stack' = [i \in 1..(Len(stack) - 1) |->
                      IF i = Len(stack) - 1
                      THEN [stack[i] EXCEPT !.vals = Append(@, v)] ELSE stack[i]]
       /\ UNCHANGED <<outcome, result, phase>>

Yield ==
  /\ Running /\ ~Calls(Top) /\ ~Faulty(Top) /\ ~Panics(Top) /\ ~IsPoll(Top)
  /\ Return(Value(Top))
  /\ UNCHANGED <<source, receipts, answer, polled>>

Poll ==
  /\ Running /\ IsPoll(Top)
  /\ \E v \in Volumes : polled' = Append(polled, v) /\ Return(IntValue(v))
  /\ UNCHANGED <<source, receipts, answer>>

\* An error passes through every call in progress.
FaultCommitted ==  \* mutant: a receipt for an execution that failed
  /\ Running /\ ~Calls(Top) /\ Faulty(Top)
  /\ stack' = <<>> /\ outcome' = "fault" /\ phase' = "commit"
  /\ UNCHANGED <<source, result, receipts, answer, polled>>

Fault ==
  /\ Running /\ ~Calls(Top) /\ Faulty(Top)
  /\ stack' = <<>> /\ outcome' = "fault" /\ phase' = "answer"
  /\ UNCHANGED <<source, result, receipts, answer, polled>>

Panic ==
  /\ Running /\ ~Calls(Top) /\ Panics(Top)
  /\ phase' = "halted"
  /\ UNCHANGED <<source, stack, outcome, result, receipts, answer, polled>>

\* Steps of a call that take memory: an environment for a body, a boxed or a
\* copied value, the text of an error.
Allocates(f) ==
  CASE Calls(f) -> Len(f.vals) = Operands(f.node.op)
    [] ~Calls(f) /\ Faulty(f) -> TRUE
    [] ~Calls(f) /\ ~Faulty(f) /\ f.node.op = "var" /\ ~IsPoll(f) ->
         Value(f).kind \notin {"int", "float"}
    [] OTHER -> f.node.op \in {"eq", "gt", "lt", "ge", "le", "lambda", "pair", "left", "right"}

\* The heap is never freed: an allocation of the parser, of the evaluator or of
\* the answer's text may meet its end, which halts the core (module DmaHeap).
NoMemory ==
  /\ \/ phase \in {"idle", "answer"}
     \/ Running /\ Allocates(Top)
  /\ phase' = "halted"
  /\ UNCHANGED <<source, stack, outcome, result, receipts, answer, polled>>

\* The receipt of a value that is no integer has volume 0, and that of an
\* integer the lower half of it.
Volume(v) == IF v.kind = "int" THEN Wrap(v.n, VolumeRange) ELSE 0

Commit ==
  /\ phase = "commit"
  /\ receipts' = Append(receipts, Volume(result))
  /\ phase' = "answer"
  /\ UNCHANGED <<source, stack, outcome, result, answer, polled>>

WriteAnswer ==
  /\ phase = "answer"
  /\ answer' = IF outcome = "value" THEN "matched" ELSE "fault"
  /\ phase' = "returned"
  /\ UNCHANGED <<source, stack, outcome, result, receipts, polled>>

Step == Enter \/ Overflow \/ Yield \/ Poll \/ Fault \/ Panic \/ Commit \/ WriteAnswer

Next == Reject \/ Start \/ Step \/ NoMemory

Spec == Init /\ [][Next]_vars

\* Nothing interrupts the kernel while it evaluates.
FairSpec == Spec /\ WF_vars(Step)

-----------------------------------------------------------------------------
(* Properties *)

IntInRange(v) ==
  v.kind = "int" => v.n \in -(IntRange \div 2)..(IntRange - 1 - (IntRange \div 2))

TypeOK ==
  /\ phase \in {"idle", "eval", "commit", "answer", "returned", "halted", "overrun"}
  /\ Len(stack) <= MaxFrames
  /\ \A i \in 1..Len(stack) :
       /\ Len(stack[i].vals) <= Operands(stack[i].node.op) + 1
       /\ \A j \in 1..Len(stack[i].vals) : IntInRange(stack[i].vals[j])
  /\ outcome \in {"value", "fault"} /\ answer \in {"unwritten", "matched", "fault"}
  /\ Len(receipts) <= 1

\* Every call in progress is the one its caller waits for, in the environment
\* the caller gave it: no call changes what its caller sees.
StackDiscipline ==
  \A i \in 1..(Len(stack) - 1) :
    [node |-> stack[i + 1].node, env |-> stack[i + 1].env] = NextCall(stack[i])

\* "Push the immutable receipt": what is answered as matched has committed one
\* receipt, and a fault or an early return none; only memory that runs out while
\* the answer is written leaves a receipt without an answer.
ReceiptPerMatch ==
  /\ receipts # <<>> => outcome = "value" /\ phase \in {"answer", "returned", "halted"}
  /\ phase = "returned" => (answer = "matched" <=> receipts # <<>>)
  /\ phase # "returned" => answer = "unwritten"

\* Every execution returns to the kernel or stops it: one that does not end
\* outgrows the stack.
Terminates == (phase = "eval") ~> (phase \in {"returned", "halted", "overrun"})

-----------------------------------------------------------------------------
(* Terms and values of a program, the ground of TypeOK *)

\* Subterms of a node.
Arity(op) ==
  IF op = "match" THEN 3
  ELSE IF op \in {"left", "right", "lambda"} THEN 1
  ELSE IF op \in {"var", "literal"} THEN 0
  ELSE 2

IsClosure(v) ==
  v = [kind |-> "closure", param |-> v.param, body |-> v.body, env |-> v.env, rec_name |-> v.rec_name]

EnvOver(env, V) == \A x \in DOMAIN env : env[x] \in V

\* An integer in its width, or a value made of parts from V and a body from N.
ValueOver(v, V, N) ==
  /\ IntInRange(v)
  /\ v.kind = "closure" => IsClosure(v) /\ v.body \in N /\ EnvOver(v.env, V)
  /\ v.kind = "pair" => v.parts[1] \in V /\ v.parts[2] \in V
  /\ v.kind \in {"left", "right"} => v.parts[1] \in V

\* A node of the grammar, with subterms from N and a literal from V.
NodeOver(n, V, N) ==
  /\ n.op \in Arithmetic \cup Binders \cup {"pair", "left", "right", "lambda", "var", "literal"}
  /\ \A i \in 1..Arity(n.op) : n.args[i] \in N
  /\ n.op = "literal" => n.value \in V

Closed(V, N) ==
  /\ \A v \in V : ValueOver(v, V, N)
  /\ \A n \in N : NodeOver(n, V, N)

\* Every term that the parser builds, and the first environment, is over V and N.
ProgramsOver(V, N) ==
  /\ Closed(V, N)
  /\ EnvOver(Seeds, V)
  /\ \A s \in Sources : Parse(s).ok => Parse(s).root \in N
=============================================================================
