--------------------------- MODULE AutarkyGrammar ---------------------------
(***************************************************************************)
(* How terms are written: the texts that a programmer may mean by a term.  *)
(* A relation between terms and texts keeps to the grammar if it has every *)
(* text that the grammar makes of its own texts, and the least such        *)
(* relation is the language.  Nothing here is about the parser.            *)
(***************************************************************************)
EXTENDS AutarkyParser

\* The names of types are no keywords elsewhere, and a number is no name.
Plain == Words \ (Keywords \ {"Int", "Float", "Any", "Pair", "Either"})
Names == {x \in Plain : Literal(x) = {}}

-----------------------------------------------------------------------------
(* Types *)

TypeGrammar(U) ==
  /\ \A w \in {"Int", "Float", "Any"} : <<w>> \in U
  /\ \A w \in {"Pair", "Either"}, a \in U, b \in U : <<w, "(">> \o a \o <<",">> \o b \o <<")">> \in U

TypeTexts == {a \in Texts : \A U \in SUBSET Texts : TypeGrammar(U) => a \in U}

-----------------------------------------------------------------------------
(* Terms, from a set N of them *)

Numeral(v) == [op |-> "literal", value |-> v, names |-> <<>>, args |-> <<>>]

LeafGrammar(R, N) ==
  /\ \A x \in Names : Node("var", <<x>>, <<>>) \in N => <<Node("var", <<x>>, <<>>), <<x>> >> \in R
  /\ \A x \in Plain : \A v : Literal(x) = {v} /\ Numeral(v) \in N => <<Numeral(v), <<x>> >> \in R

BinaryGrammar(R, N) ==
  \A op \in BinaryWords : \A l, r, a, b :
    LET t == Node(op, <<>>, <<l, r>>)
    IN <<l, a>> \in R /\ <<r, b>> \in R /\ t \in N => <<t, <<op>> \o a \o b>> \in R

InjectionGrammar(R, N) ==
  \A v, a :
    LET left == Node("left", <<>>, <<v>>)
        right == Node("right", <<>>, <<v>>)
    IN <<v, a>> \in R =>
         /\ left \in N => <<left, <<"Left", "(">> \o a \o <<")">> >> \in R
         /\ right \in N => <<right, <<"Right", "(">> \o a \o <<")">> >> \in R

\* match e { Left ( x ) => l , Right ( y ) => r }, with or without the comma
MatchGrammar(R, N) ==
  \A x, y \in Names, comma \in {<<>>, <<",">>} : \A e, l, r, a, b, c :
    LET t == Node("match", <<x, y>>, <<e, l, r>>)
    IN <<e, a>> \in R /\ <<l, b>> \in R /\ <<r, c>> \in R /\ t \in N =>
         <<t, <<"match">> \o a \o <<"{", "Left", "(", x, ")", "=>">> \o b
                \o (comma \o <<"Right", "(", y, ")", "=>">>) \o c \o <<"}">> >> \in R

\* let x = v in b, let rec x = v in b
LetGrammar(R, N) ==
  \A x \in Names : \A v, s, a, b :
    LET let == Node("let", <<x>>, <<v, s>>)
        letrec == Node("letrec", <<x>>, <<v, s>>)
    IN <<v, a>> \in R /\ <<s, b>> \in R =>
         /\ let \in N => <<let, <<"let", x, "=">> \o a \o <<"in">> \o b>> \in R
         /\ letrec \in N => <<letrec, <<"let", "rec", x, "=">> \o a \o <<"in">> \o b>> \in R

\* unpack x y = p in s
UnpackGrammar(R, N) ==
  \A x, y \in Names : \A p, s, a, b :
    LET t == Node("unpack", <<x, y>>, <<p, s>>)
    IN <<p, a>> \in R /\ <<s, b>> \in R /\ t \in N =>
         <<t, <<"unpack", x, y, "=">> \o a \o <<"in">> \o b>> \in R

\* \ x : T -> s
LambdaGrammar(R, N) ==
  \A x \in Names, type \in TypeTexts : \A s, a :
    LET t == Node("lambda", <<x>>, <<s>>)
    IN <<s, a>> \in R /\ t \in N =>
         <<t, <<"\\", x, ":">> \o type \o <<"->">> \o a>> \in R

\* ( f x ), and ( t ) for t itself
BracketGrammar(R, N) ==
  /\ \A t, a : <<t, a>> \in R => <<t, <<"(">> \o a \o <<")">> >> \in R
  /\ \A f, x, a, b :
       LET t == Node("app", <<>>, <<f, x>>)
       IN <<f, a>> \in R /\ <<x, b>> \in R /\ t \in N =>
            <<t, <<"(">> \o a \o b \o <<")">> >> \in R

TermGrammar(R, N) ==
  /\ LeafGrammar(R, N) /\ BinaryGrammar(R, N) /\ InjectionGrammar(R, N) /\ MatchGrammar(R, N)
  /\ LetGrammar(R, N) /\ UnpackGrammar(R, N) /\ LambdaGrammar(R, N) /\ BracketGrammar(R, N)

\* Text w is written for term t.
Writes(N, t, w) ==
  \A R \in SUBSET (N \X Texts) : TermGrammar(R, N) => <<t, w>> \in R

\* A program may have a comment behind it, to the end of the text.
IsTextOf(N, text, t) ==
  \E w \in Texts :
    /\ Writes(N, t, w)
    /\ text = w \/ \E junk \in Texts : text = w \o <<"@">> \o junk
=============================================================================
