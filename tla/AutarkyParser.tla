--------------------------- MODULE AutarkyParser ---------------------------
(***************************************************************************)
(* The parser of autarky_vm/src/parser.rs, over words.  It looks at a word *)
(* where it must choose, and skips one, whatever it is, where the grammar  *)
(* leaves no choice.  A parse is [ok, node, rest]: the node and the words  *)
(* behind it.                                                              *)
(***************************************************************************)
EXTENDS Integers, Sequences

CONSTANTS
  Words,       \* the words of texts
  Literal(_)   \* the value of a word that is a number, {} for others

BinaryWords == {"add", "sub", "mul", "div", "eq", "gt", "lt", "ge", "le", "pair"}
Keywords ==
  BinaryWords
    \cup {"Left", "Right", "match", "let", "rec", "in", "unpack", "\\", "Int", "Float", "Any", "Pair", "Either"}
    \cup {"(", ")", "{", "}", ",", "=", ":", "->", "=>", "@"}
ASSUME WordsAssumption == Keywords \subseteq Words

Failed == [ok |-> FALSE, node |-> "none", rest |-> <<>>]

Texts == Seq(Words)

\* An @ ends the text.
Code(words) ==
  IF \E i \in 1..Len(words) : words[i] = "@"
  THEN SubSeq(words, 1, (CHOOSE i \in 1..Len(words) :
                           words[i] = "@" /\ \A j \in 1..(i - 1) : words[j] # "@") - 1)
  ELSE words

Word(words, i) == IF i \in 1..Len(words) THEN words[i] ELSE ""
Skip(words, n) == SubSeq(words, n + 1, Len(words))

\* Words of the type that starts the text, 0 if there is none.
TypeStep(T, words) ==
  CASE Word(words, 1) \in {"Int", "Float", "Any"} -> 1
    [] Word(words, 1) \in {"Pair", "Either"} ->
         LET first == T[Skip(words, 2)]
             second == T[Skip(words, 3 + first)]
         IN IF first = 0 \/ second = 0 THEN 0 ELSE 4 + first + second
    [] OTHER -> 0
TypeLength[words \in Texts] == TypeStep(TypeLength, words)

Node(op, names, args) == [op |-> op, names |-> names, args |-> args]
Done(node, words) == [ok |-> TRUE, node |-> node, rest |-> words]

\* The words between the two branches of a match.
BetweenLong(words) == 2  \* mutant: the comma is required
Between(words) == IF Word(words, 1) = "," THEN 2 ELSE 1

\* A node over parts that have been parsed.
Combine(op, names, parts, rest) ==
  IF \A i \in 1..Len(parts) : parts[i].ok
  THEN Done(Node(op, names, [i \in 1..Len(parts) |-> parts[i].node]), rest)
  ELSE Failed

\* parse, which calls itself: P is what it makes of the texts it calls itself for.
TermStep(P, words) ==
  LET word == Word(words, 1)
      rest == Skip(words, 1)
  IN CASE words = <<>> -> Failed
       [] word \in BinaryWords ->
            LET l == P[rest]
                r == P[l.rest]
            IN Combine(word, <<>>, <<l, r>>, r.rest)
       [] word \in {"Left", "Right"} ->  \* Left ( v )
            LET v == P[Skip(rest, 1)]
            IN Combine(IF word = "Left" THEN "left" ELSE "right", <<>>, <<v>>, Skip(v.rest, 1))
       [] word = "match" ->  \* match e { Left ( x ) => l , Right ( y ) => r }
            LET e == P[rest]
                l == P[Skip(e.rest, 6)]
                between == Between(l.rest)
                r == P[Skip(l.rest, between + 4)]
            IN Combine("match", <<Word(e.rest, 4), Word(l.rest, between + 2)>>, <<e, l, r>>,
                       Skip(r.rest, 1))
       [] word = "let" ->  \* let x = v in b, let rec f = v in b
            LET rec == IF Word(rest, 1) = "rec" THEN 1 ELSE 0
                val == P[Skip(rest, rec + 2)]
                body == P[Skip(val.rest, 1)]
            IN Combine(IF rec = 1 THEN "letrec" ELSE "let", <<Word(rest, rec + 1)>>, <<val, body>>,
                       body.rest)
       [] word = "unpack" ->  \* unpack a b = p in e
            LET pair == P[Skip(rest, 3)]
                body == P[Skip(pair.rest, 1)]
            IN Combine("unpack", <<Word(rest, 1), Word(rest, 2)>>, <<pair, body>>, body.rest)
       [] word = "\\" ->  \* \ x : T -> e
            LET type == TypeLength[Skip(rest, 2)]
                body == P[Skip(rest, type + 3)]
            IN IF type = 0 THEN Failed
               ELSE Combine("lambda", <<Word(rest, 1)>>, <<body>>, body.rest)
       [] word = "(" ->  \* ( e ), ( f a )
            LET first == P[rest]
                second == P[first.rest]
            IN IF Word(first.rest, 1) = ")" THEN [first EXCEPT !.rest = Skip(@, 1)]
               ELSE Combine("app", <<>>, <<first, second>>, Skip(second.rest, 1))
       [] OTHER ->
            IF Literal(word) = {} THEN Done(Node("var", <<word>>, <<>>), rest)
            ELSE Done([op |-> "literal", value |-> CHOOSE v \in Literal(word) : TRUE,
                       names |-> <<>>, args |-> <<>>], rest)
ParseTerm[words \in Texts] == TermStep(ParseTerm, words)

\* The whole text is one term.
ParseText(text) ==
  LET parse == ParseTerm[Code(text)]
  IN [ok |-> parse.ok /\ parse.rest = <<>>, root |-> parse.node]
=============================================================================
