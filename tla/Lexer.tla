-------------------------------- MODULE Lexer -------------------------------
(***************************************************************************)
(* The lexer of src/cringe/front/lexer.c and the tables that               *)
(* src/meta/lex_meta.c makes for it: an automaton over characters, and a   *)
(* hash of words that no two keywords share.                               *)
(***************************************************************************)
EXTENDS Integers, SequencesExt, FiniteSetsExt

CONSTANTS Letters, Digits, Others,   \* characters that make words, numbers, or stand alone
          Keywords,                  \* the keywords, as sequences of letters
          Slot(_, _),                \* the slot of a word, by multiplier
          Multipliers,               \* the multipliers to try, from 1 on
          MaxLength                  \* the longest source

QUOTE == "quote"
SLASH == "slash"
NEWLINE == "newline"
SPACE == "space"
NUL == "nul"     \* after the last character

Blanks == {SPACE, NEWLINE}
Characters == Letters \cup Digits \cup Others \cup Blanks \cup {QUOTE, SLASH}

ASSUME CharacterAssumption ==
  /\ NUL \notin Characters /\ Letters \cap Digits = {}
  /\ (Letters \cup Digits) \cap (Others \cup Blanks \cup {QUOTE, SLASH}) = {}
  /\ Keywords \subseteq Seq(Letters)

ASSUME LengthAssumption == MaxLength \in Nat

VARIABLES source,   \* the characters of the file
          lexer,    \* where the lexer is: the next character and its line
          loop,     \* the loop of lexer_next it is in: "blanks", "comment" or "scan"
          start,    \* where the token being scanned begins, and its line
          state,    \* the state of the automaton
          tokens    \* the tokens it has returned

lvars == <<source, lexer, loop, start, state, tokens>>

-----------------------------------------------------------------------------
\* The automaton: 0 is where it starts, and where it goes to stop.
ACCEPT_CHAR == 1
ACCEPT_IDENT == 2
ACCEPT_INT == 3
UNTERMINATED_STRING == 4
ACCEPT_STRING == 5

\* Mutated: a word ends at a digit.
dfa_letters(from, c) ==
  CASE from = 0 /\ c \in Letters -> ACCEPT_IDENT
    [] from = 0 /\ c \in Digits  -> ACCEPT_INT
    [] from = 0 /\ c = QUOTE     -> UNTERMINATED_STRING
    [] from = ACCEPT_IDENT /\ c \in Letters -> ACCEPT_IDENT
    [] from = ACCEPT_INT /\ c \in Digits -> ACCEPT_INT
    [] from = UNTERMINATED_STRING /\ c \notin {QUOTE, NUL} -> UNTERMINATED_STRING
    [] from = UNTERMINATED_STRING /\ c = QUOTE -> ACCEPT_STRING
    [] from = 0 /\ c \notin Letters \cup Digits \cup {QUOTE} -> ACCEPT_CHAR
    [] OTHER -> 0

dfa(from, c) ==
  CASE from = 0 /\ c \in Letters -> ACCEPT_IDENT
    [] from = 0 /\ c \in Digits  -> ACCEPT_INT
    [] from = 0 /\ c = QUOTE     -> UNTERMINATED_STRING
    [] from = 0 /\ c \notin Letters \cup Digits \cup {QUOTE} -> ACCEPT_CHAR
    [] from = ACCEPT_IDENT /\ c \in Letters \cup Digits -> ACCEPT_IDENT
    [] from = ACCEPT_INT /\ c \in Digits -> ACCEPT_INT
    [] from = UNTERMINATED_STRING /\ c \notin {QUOTE, NUL} -> UNTERMINATED_STRING
    [] from = UNTERMINATED_STRING /\ c = QUOTE -> ACCEPT_STRING
    [] OTHER -> 0

check_hash_multiplier(m) ==
  \A k, l \in Keywords : k # l => Slot(m, k) # Slot(m, l)

\* The search for a multiplier has no other end.
ASSUME MultiplierAssumption ==
  Multipliers \subseteq Nat /\ \E m \in Multipliers : check_hash_multiplier(m)

PERFECT_HASH_MULTIPLIER == Min({m \in Multipliers : check_hash_multiplier(m)})

\* The keyword of a slot, or the empty word that no identifier is.
keyword_string_table(slot) ==
  LET here == {k \in Keywords : Slot(PERFECT_HASH_MULTIPLIER, k) = slot}
  IN IF here = {} THEN <<>> ELSE CHOOSE k \in here : TRUE

ident_kind(word) ==
  IF keyword_string_table(Slot(PERFECT_HASH_MULTIPLIER, word)) = word THEN "KEYWORD"
  ELSE "IDENTIFIER"

-----------------------------------------------------------------------------
CharAt(c) == IF c <= Len(source) THEN source[c] ELSE NUL

\* One character on, counting the lines.
Past(l) == [c |-> l.c + 1, line |-> l.line + (IF CharAt(l.c) = NEWLINE THEN 1 ELSE 0)]

\* Mutated: the line is looked up after the token.
Token_late(kind, from, end) ==
  [kind |-> kind, start |-> from.c, length |-> end.c - from.c, line |-> end.line]

Token(kind, from, end) ==
  [kind |-> kind, start |-> from.c, length |-> end.c - from.c, line |-> from.line]

KindOf(accepted, word) ==
  CASE accepted = ACCEPT_CHAR   -> "CHAR"
    [] accepted = ACCEPT_INT    -> "INTEGER"
    [] accepted = ACCEPT_IDENT  -> ident_kind(word)
    [] accepted = ACCEPT_STRING -> "STRING"
    [] accepted = UNTERMINATED_STRING -> "ERROR"

LexInit ==
  /\ source \in BoundedSeq(Characters, MaxLength)
  /\ lexer = [c |-> 1, line |-> 1]
  /\ loop = "blanks" /\ start = lexer /\ state = 0
  /\ tokens = <<>>

-----------------------------------------------------------------------------
(* lexer_next, a turn of one of its loops at a time.                       *)
Here == CharAt(lexer.c)
AtComment == Here = SLASH /\ CharAt(lexer.c + 1) = SLASH
Ended == tokens # <<>> /\ Last(tokens).kind = "EOF"

SkipBlank ==
  /\ loop = "blanks" /\ Here \in Blanks
  /\ lexer' = Past(lexer)
  /\ UNCHANGED <<source, loop, start, state, tokens>>

BeginComment ==
  /\ loop = "blanks" /\ AtComment
  /\ loop' = "comment"
  /\ UNCHANGED <<source, lexer, start, state, tokens>>

\* Mutated: a comment ends at a blank.
CommentGoesOn_word == Here \notin Blanks \cup {NUL}

CommentGoesOn == Here \notin {NEWLINE, NUL}

SkipComment ==
  /\ loop = "comment" /\ CommentGoesOn
  /\ lexer' = [lexer EXCEPT !.c = @ + 1]
  /\ UNCHANGED <<source, loop, start, state, tokens>>

EndComment ==
  /\ loop = "comment" /\ ~CommentGoesOn
  /\ loop' = "blanks"
  /\ UNCHANGED <<source, lexer, start, state, tokens>>

ReturnEnd ==
  /\ loop = "blanks" /\ Here = NUL
  /\ tokens' = Append(tokens, Token("EOF", lexer, lexer))
  /\ UNCHANGED <<source, lexer, loop, start, state>>

BeginToken ==
  /\ loop = "blanks" /\ Here \notin Blanks \cup {NUL} /\ ~AtComment
  /\ loop' = "scan" /\ start' = lexer /\ state' = 0
  /\ UNCHANGED <<source, lexer, tokens>>

\* The automaton goes on until it would stop.
ScanCharacter ==
  /\ loop = "scan" /\ dfa(state, Here) # 0
  /\ state' = dfa(state, Here)
  /\ lexer' = Past(lexer)
  /\ UNCHANGED <<source, loop, start, tokens>>

ReturnToken ==
  /\ loop = "scan" /\ dfa(state, Here) = 0
  /\ LET word == SubSeq(source, start.c, lexer.c - 1)
     IN tokens' = Append(tokens, Token(KindOf(state, word), start, lexer))
  /\ loop' = "blanks"
  /\ UNCHANGED <<source, lexer, start, state>>

lexer_next ==
  /\ ~Ended
  /\ \/ SkipBlank \/ BeginComment \/ SkipComment \/ EndComment \/ ReturnEnd
     \/ BeginToken \/ ScanCharacter \/ ReturnToken

LexSpec == LexInit /\ [][lexer_next]_lvars

-----------------------------------------------------------------------------
Text(t) == SubSeq(source, t.start, t.start + t.length - 1)
After(t) == CharAt(t.start + t.length)

IsWord(word) == word # <<>> /\ word[1] \in Letters /\ ToSet(word) \subseteq Letters \cup Digits
IsNumber(word) == word # <<>> /\ ToSet(word) \subseteq Digits
Unquoted(word) == QUOTE \notin ToSet(word)

IsWhole(t) ==
  LET text == Text(t) IN
  CASE t.kind \in {"KEYWORD", "IDENTIFIER"} ->
         /\ IsWord(text) /\ After(t) \notin Letters \cup Digits
         /\ (t.kind = "KEYWORD") <=> (text \in Keywords)
    [] t.kind = "INTEGER" -> IsNumber(text) /\ After(t) \notin Digits
    [] t.kind = "STRING"  -> /\ t.length >= 2 /\ text[1] = QUOTE /\ text[t.length] = QUOTE
                             /\ Unquoted(SubSeq(text, 2, t.length - 1))
    [] t.kind = "ERROR"   -> text[1] = QUOTE /\ Unquoted(Tail(text)) /\ After(t) = NUL
    [] t.kind = "CHAR"    -> t.length = 1 /\ text[1] \in Others \cup {SLASH}
    [] t.kind = "EOF"     -> t.length = 0 /\ t.start = Len(source) + 1

(* lexer_next takes the longest word or number, a string up to its quote,  *)
(* and the rest of the source when there is none; and a word is a keyword  *)
(* just when it is one of them, whatever slots other words hash to.        *)
TokensAreWhole == \A t \in ToSet(tokens) : IsWhole(t)

\* A character that is blank, or in a comment that begins at or after the first.
IsSkipped(first, c) ==
  \/ source[c] \in Blanks
  \/ \E d \in first..c : /\ CharAt(d) = SLASH /\ CharAt(d + 1) = SLASH
                         /\ NEWLINE \notin {source[e] : e \in d..c}

LeavesOutBlanks(first, begin) ==
  /\ begin >= first /\ \A c \in first..(begin - 1) : IsSkipped(first, c)
  /\ begin <= Len(source) => ~IsSkipped(first, begin)

(* lexer_next leaves out only blanks and comments, and no token begins     *)
(* with one: a token begins after the one before and what is left out.     *)
OnlyBlanksAreSkipped ==
  \A i \in DOMAIN tokens :
    LeavesOutBlanks(IF i = 1 THEN 1 ELSE tokens[i - 1].start + tokens[i - 1].length,
                    tokens[i].start)

LineAt(p) == 1 + Cardinality({c \in 1..(p - 1) : source[c] = NEWLINE})

(* The line of a token, and so of an error at it, is that of its first     *)
(* character, after strings of several lines and comments too.             *)
LinesAreCounted == \A t \in ToSet(tokens) : t.line = LineAt(t.start)
=============================================================================
