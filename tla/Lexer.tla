------------------------------- MODULE Lexer -------------------------------
(***************************************************************************)
(* The lexer (src/src/lexer/lexer.rs): one action per turn of each of the  *)
(* loops get_tokens and next_token run, with the indexing that panics when *)
(* the end of the source is passed.                                        *)
(*                                                                         *)
(* A character is a member of one of the classes below; a token's value is *)
(* the sequence of its characters, at the place of the first of them.      *)
(***************************************************************************)
EXTENDS Naturals, Sequences, SequencesExt

CONSTANTS
  Letters, Digits, Spaces,   \* "\n" is a space
  Keywords,                  \* the values that are keywords, and not names
  Texts                      \* the sources

VARIABLES
  src,      \* Lexer.src: the text and a NUL
  index,    \* Lexer.index (and line_index), from 1
  mode,     \* the loop under way
  start,    \* where its token starts
  braces,   \* the block comments open
  tokens,   \* the tokens get_tokens has pushed
  status    \* "lex", "done" or "panic"

vars == <<src, index, mode, start, braces, tokens, status>>

NUL == "NUL"
Quotes == {"\"", "'"}
Singles == {".", ",", ";", ":", "+", "-", "*", "/", "%", "[", "]", "{", "}", "(", ")",
            "#", "$", "<", ">", "&", "|", "!", "="}
Doubles == {<<":", ":">>, <<"-", ">">>, <<"<", "=">>, <<">", "=">>, <<"&", "&">>,
            <<"|", "|">>, <<"!", "=">>, <<"=", "=">>}
Opener == <<"/", "*">>
Closer == <<"*", "/">>
LineComment == <<"/", "/">>

Curr == src[index]
Two(k) == IF k < Len(src) THEN <<src[k], src[k + 1]>> ELSE <<NUL, NUL>>

Token(typ, value, at) == [typ |-> typ, value |-> value, at |-> at]
Eof == Token("Eof", <<>>, 0)
Word(value, at) == Token(IF value \in Keywords THEN "Keyword" ELSE "Id", value, at)
Number(value, at) == Token(IF Contains(value, ".") THEN "Float" ELSE "Integer", value, at)

-----------------------------------------------------------------------------
Lexing(m) == status = "lex" /\ mode = m

(* advance: past the NUL there is nothing to index. *)
AdvanceTo(k) ==
  /\ index' = k
  /\ status' = IF k > Len(src) THEN "panic" ELSE status

Push(t, k) ==
  /\ tokens' = Append(tokens, t)
  /\ AdvanceTo(k)
  /\ mode' = "token"
  /\ UNCHANGED <<src, start, braces>>

Enter(m, k) ==
  /\ mode' = m
  /\ AdvanceTo(k)
  /\ start' = k
  /\ UNCHANGED <<src, braces, tokens>>

Continue ==
  /\ AdvanceTo(index + 1)
  /\ UNCHANGED <<src, mode, start, braces, tokens>>

SkipSpace == Lexing("token") /\ Curr \in Spaces /\ Continue

LexSymbol ==
  /\ Lexing("token")
  /\ Curr \in Singles
  /\ Two(index) \notin {Opener, LineComment}
  /\ IF Two(index) \in Doubles THEN Push(Token("Symbol", Two(index), index), index + 2)
     ELSE Push(Token("Symbol", <<Curr>>, index), index + 1)

(* number and id. *)
InLoop(c) ==
  CASE mode = "number" -> c \in Digits \cup {"."}
    [] mode = "id" -> c \in Letters \cup Digits \cup {"_"}
LexRun ==
  \/ Lexing("token") /\ Curr \in Digits /\ Enter("number", index)
  \/ Lexing("token") /\ Curr \in Letters /\ Enter("id", index)
  \/ status = "lex" /\ mode \in {"number", "id"} /\ InLoop(Curr) /\ Continue
EndRun ==
  /\ status = "lex" /\ mode \in {"number", "id"} /\ ~InLoop(Curr)
  /\ LET value == SubSeq(src, start, index - 1) IN
       Push(IF mode = "id" THEN Word(value, start) ELSE Number(value, start), index)

(* string and char: whatever stands before the closing quote. *)
LexQuoted ==
  \/ Lexing("token") /\ Curr \in Quotes /\ Enter(Curr, index + 1)
  \/ status = "lex" /\ mode \in Quotes /\ Curr # mode /\ Continue
EndQuoted ==
  /\ status = "lex" /\ mode \in Quotes /\ Curr = mode
  /\ Push(Token(IF mode = "'" THEN "Char" ELSE "String", SubSeq(src, start, index - 1), start), index + 1)

LexLineComment ==
  \/ Lexing("token") /\ Two(index) = LineComment /\ Enter("line", index)
  \/ Lexing("line") /\ Curr # "\n" /\ Continue
  \/ Lexing("line") /\ Curr = "\n" /\ Enter("token", index)

EnterBlockComment == Lexing("token") /\ Two(index) = Opener /\ Enter("comment", index)

(* One turn: an opener, a closer behind it, and the character behind them. *)
Opens_Flat == Two(index) = Opener /\ braces = 0
Opens == Two(index) = Opener
TurnEnd_Stuck(k, closes) == IF closes THEN k + 3 ELSE k
TurnEnd(k, closes) == IF closes THEN k + 3 ELSE k + 1
CommentTurn ==
  /\ Lexing("comment")
  /\ LET opens == Opens
         k == IF opens THEN index + 2 ELSE index
         closes == Two(k) = Closer
         next == TurnEnd(k, closes)
         open == (IF opens THEN braces + 1 ELSE braces) - (IF closes THEN 1 ELSE 0)
         ended == closes /\ open = 0
         atEnd == next = Len(src) IN
       /\ braces' = IF ended \/ atEnd THEN 0 ELSE open
       /\ AdvanceTo(IF ended THEN next - 1 ELSE next)
       /\ mode' = IF ended \/ atEnd THEN "token" ELSE mode
  /\ UNCHANGED <<src, start, tokens>>

(* get_tokens keeps the first token whatever it is. *)
End ==
  /\ Lexing("token")
  /\ Curr = NUL
  /\ tokens' = IF tokens = <<>> THEN <<Eof>> ELSE tokens
  /\ status' = "done"
  /\ UNCHANGED <<src, index, mode, start, braces>>

UnknownToken ==
  /\ Lexing("token")
  /\ Curr \notin Spaces \cup Singles \cup Digits \cup Letters \cup Quotes \cup {NUL}
  /\ status' = "panic"
  /\ UNCHANGED <<src, index, mode, start, braces, tokens>>

-----------------------------------------------------------------------------
Init ==
  /\ \E text \in Texts : src = Append(text, NUL)
  /\ index = 1
  /\ mode = "token"
  /\ start = 1
  /\ braces = 0
  /\ tokens = <<>>
  /\ status = "lex"

Next ==
  \/ SkipSpace \/ LexSymbol \/ LexRun \/ EndRun \/ LexQuoted \/ EndQuoted
  \/ LexLineComment \/ EnterBlockComment \/ CommentTurn \/ End \/ UnknownToken

Spec == Init /\ [][Next]_vars /\ WF_vars(Next)

-----------------------------------------------------------------------------
(***************************************************************************)
(* The tokens of a text by a grammar: from the left, each lexeme as long   *)
(* as it can be; block comments nest.                                      *)
(***************************************************************************)
RECURSIVE CommentEnd(_, _), Lexemes(_, _)

(* The last character of the comment that has n openers unmatched at k. *)
CommentEnd(k, n) ==
  CASE k >= Len(src) -> 0
    [] Two(k) = Opener -> CommentEnd(k + 2, n + 1)
    [] Two(k) = Closer -> IF n = 1 THEN k + 1 ELSE CommentEnd(k + 2, n - 1)
    [] OTHER -> CommentEnd(k + 1, n)

Until(c, k) == SelectInSubSeq(src, k, Len(src) - 1, LAMBDA x : x = c)
BeforeFirst(k, chars) == SelectInSubSeq(src, k, Len(src), LAMBDA x : x \notin chars) - 1

(* The last character of the lexeme at k; 0 where there is none. *)
LexemeEnd(k) ==
  CASE Two(k) = Opener -> CommentEnd(k + 2, 1)
    [] Two(k) = LineComment -> Until("\n", k)
    [] src[k] \in Quotes -> Until(src[k], k + 1)
    [] Two(k) \in Doubles -> k + 1
    [] src[k] \in Digits -> BeforeFirst(k, Digits \cup {"."})
    [] src[k] \in Letters -> BeforeFirst(k, Letters \cup Digits \cup {"_"})
    [] src[k] \in Spaces \cup (Singles \ {"/"}) -> k
    [] src[k] = "/" /\ Two(k) \notin {Opener, LineComment} -> k
    [] OTHER -> 0

Lexeme(k, e) ==
  LET text == SubSeq(src, k, e) IN
    CASE Two(k) \in {Opener, LineComment} \/ src[k] \in Spaces -> <<>>
      [] src[k] \in Quotes ->
           <<Token(IF src[k] = "'" THEN "Char" ELSE "String", SubSeq(src, k + 1, e - 1), k + 1)>>
      [] src[k] \in Digits -> <<Number(text, k)>>
      [] src[k] \in Letters -> <<Word(text, k)>>
      [] OTHER -> <<Token("Symbol", text, k)>>
Lexemes(k, so_far) ==
  CASE k = Len(src) -> [ok |-> TRUE, tokens |-> so_far, at |-> k]
    [] LexemeEnd(k) = 0 -> [ok |-> FALSE, tokens |-> so_far, at |-> k]
    [] OTHER -> Lexemes(LexemeEnd(k) + 1, so_far \o Lexeme(k, LexemeEnd(k)))

(* Delimiters the lexer takes for one: it skips a character behind each. *)
Touching ==
  \E k \in DOMAIN src : k + 3 <= Len(src) /\
    SubSeq(src, k, k + 3) \in {Opener \o Opener, Closer \o Closer, Closer \o Opener}

(***************************************************************************)
(* The tokens are those of the grammar.  What has none is a panic, not a   *)
(* list of other tokens: a string, a character or a `//' line that does    *)
(* not end, or a character no token starts with.  The exceptions: comment  *)
(* delimiters that touch, and a block comment that does not end, which     *)
(* hides the rest of the text.                                             *)
(***************************************************************************)
TokensAsWritten ==
  status # "lex" /\ ~Touching =>
    LET x == Lexemes(1, <<>>) IN
      IF x.ok \/ (Two(x.at) = Opener /\ status = "done")
        THEN /\ status = "done"
             /\ tokens = IF x.tokens = <<>> THEN <<Eof>> ELSE x.tokens
        ELSE status = "panic"

(***************************************************************************)
(* Every loop of the lexer comes to its end, on every text.                *)
(***************************************************************************)
LexingEnds == <>(status # "lex")
=============================================================================
