----------------------------- MODULE LexerProofs ----------------------------
(***************************************************************************)
(* Proofs about the lexer: for every source, alphabet, set of keywords and *)
(* hash, its tokens are the longest ones, it leaves out only blanks and    *)
(* comments, and it knows the line it is on.                               *)
(***************************************************************************)
EXTENDS Lexer, FiniteSetTheorems, SequenceTheorems, WellFoundedInduction, TLAPS

Place == [c : Nat \ {0}, line : Nat]
Kinds == {"KEYWORD", "IDENTIFIER", "INTEGER", "STRING", "ERROR", "CHAR", "EOF"}
TokenSet == [kind : Kinds, start : Nat \ {0}, length : Nat, line : Nat]

TypeOK ==
  /\ source \in Seq(Characters)
  /\ lexer \in Place /\ start \in Place
  /\ loop \in {"blanks", "comment", "scan"}
  /\ state \in {0, ACCEPT_CHAR, ACCEPT_IDENT, ACCEPT_INT, UNTERMINATED_STRING, ACCEPT_STRING}
  /\ tokens \in Seq(TokenSet)
  /\ lexer.c <= Len(source) + 1

\* Where the token before ended: what is left out begins there.
First == IF tokens = <<>> THEN 1 ELSE tokens[Len(tokens)].start + tokens[Len(tokens)].length

OpensComment(d) == CharAt(d) = SLASH /\ CharAt(d + 1) = SLASH
NoNewline(d, c) == \A e \in d..c : source[e] # NEWLINE

Skipped(to) == First <= to /\ \A c \in First..(to - 1) : IsSkipped(First, c)

(* Every comment behind the lexer has had its newline, which may be the    *)
(* character the lexer is at.                                              *)
CommentsEnded ==
  lexer.c <= Len(source) =>
    \A d \in First..(lexer.c - 1) : OpensComment(d) => ~NoNewline(d, lexer.c)

InComment == \E d \in First..lexer.c : OpensComment(d) /\ NoNewline(d, lexer.c - 1)

(* What the automaton has read since the start of the token.               *)
Scanned ==
  LET read == (start.c + 1)..(lexer.c - 1)
      size == lexer.c - start.c
  IN /\ state = 0 => size = 0
     /\ state = ACCEPT_CHAR => size = 1 /\ source[start.c] \in Others \cup {SLASH}
     /\ state = ACCEPT_IDENT => /\ size >= 1 /\ source[start.c] \in Letters
                                /\ \A e \in read : source[e] \in Letters \cup Digits
     /\ state = ACCEPT_INT => /\ size >= 1 /\ source[start.c] \in Digits
                              /\ \A e \in read : source[e] \in Digits
     /\ state = UNTERMINATED_STRING => /\ size >= 1 /\ source[start.c] = QUOTE
                                       /\ \A e \in read : source[e] # QUOTE
     /\ state = ACCEPT_STRING =>
          /\ size >= 2 /\ source[start.c] = QUOTE /\ source[lexer.c - 1] = QUOTE
          /\ \A e \in (start.c + 1)..(lexer.c - 2) : source[e] # QUOTE

Between == loop = "blanks" => Skipped(lexer.c) /\ CommentsEnded
Within == loop = "comment" => Skipped(lexer.c) /\ InComment
Scanning ==
  loop = "scan" => /\ Skipped(start.c) /\ start.c <= Len(source) /\ ~IsSkipped(First, start.c)
                   /\ source[start.c] \notin Blanks
                   /\ Scanned
                   /\ start.line = LineAt(start.c)

IInv == /\ TypeOK
        /\ lexer.line = LineAt(lexer.c)
        /\ Between /\ Within /\ Scanning
        /\ TokensAreWhole /\ OnlyBlanksAreSkipped /\ LinesAreCounted

-----------------------------------------------------------------------------
(* What is at a place of the source.                                       *)
LEMMA CharacterAt ==
  ASSUME TypeOK, NEW p \in Nat \ {0}
  PROVE  /\ p <= Len(source) => /\ CharAt(p) = source[p] /\ source[p] \in Characters
                                /\ CharAt(p) # NUL
         /\ p > Len(source) => CharAt(p) = NUL
         /\ CharAt(p) \in Characters \cup {NUL}
  BY CharacterAssumption DEF TypeOK, CharAt

(* The automaton from its first state, and from each of the others.        *)
LEMMA FromStart ==
  ASSUME NEW c \in Characters \cup {NUL}
  PROVE  /\ dfa(0, c) \in {ACCEPT_CHAR, ACCEPT_IDENT, ACCEPT_INT, UNTERMINATED_STRING}
         /\ dfa(0, c) = ACCEPT_IDENT => c \in Letters
         /\ dfa(0, c) = ACCEPT_INT => c \in Digits
         /\ dfa(0, c) = UNTERMINATED_STRING => c = QUOTE
         /\ dfa(0, c) = ACCEPT_CHAR => c \notin Letters \cup Digits \cup {QUOTE}
  <1>1. c \in Letters => dfa(0, c) = ACCEPT_IDENT
    BY CharacterAssumption
    DEF dfa, ACCEPT_CHAR, ACCEPT_IDENT, ACCEPT_INT, UNTERMINATED_STRING, ACCEPT_STRING
  <1>2. c \in Digits => dfa(0, c) = ACCEPT_INT
    BY CharacterAssumption
    DEF dfa, ACCEPT_CHAR, ACCEPT_IDENT, ACCEPT_INT, UNTERMINATED_STRING, ACCEPT_STRING
  <1>3. c = QUOTE => dfa(0, c) = UNTERMINATED_STRING
    BY CharacterAssumption
    DEF dfa, ACCEPT_CHAR, ACCEPT_IDENT, ACCEPT_INT, UNTERMINATED_STRING, ACCEPT_STRING
  <1>4. c \notin Letters \cup Digits \cup {QUOTE} => dfa(0, c) = ACCEPT_CHAR
    BY DEF dfa, ACCEPT_CHAR, ACCEPT_IDENT, ACCEPT_INT, UNTERMINATED_STRING, ACCEPT_STRING
  <1> QED BY <1>1, <1>2, <1>3, <1>4
    DEF ACCEPT_CHAR, ACCEPT_IDENT, ACCEPT_INT, UNTERMINATED_STRING

LEMMA FromOthers ==
  ASSUME NEW c
  PROVE  /\ dfa(ACCEPT_CHAR, c) = 0 /\ dfa(ACCEPT_STRING, c) = 0
         /\ dfa(ACCEPT_IDENT, c) = IF c \in Letters \cup Digits THEN ACCEPT_IDENT ELSE 0
         /\ dfa(ACCEPT_INT, c) = IF c \in Digits THEN ACCEPT_INT ELSE 0
         /\ dfa(UNTERMINATED_STRING, c) =
              IF c = QUOTE THEN ACCEPT_STRING
              ELSE IF c = NUL THEN 0 ELSE UNTERMINATED_STRING
  BY DEF dfa, ACCEPT_CHAR, ACCEPT_IDENT, ACCEPT_INT, UNTERMINATED_STRING, ACCEPT_STRING,
         QUOTE, NUL

(* A newline more, a line more.                                            *)
LEMMA LineOfNext ==
  ASSUME TypeOK, NEW p \in Nat \ {0}
  PROVE  /\ LineAt(p) \in Nat
         /\ LineAt(p + 1) = LineAt(p) + (IF source[p] = NEWLINE THEN 1 ELSE 0)
  <1> DEFINE Before(q) == {c \in 1..(q - 1) : source[c] = NEWLINE}
  <1>1. IsFiniteSet(1..(p - 1)) BY FS_Interval
  <1>2. Before(p) \in SUBSET (1..(p - 1)) OBVIOUS
  <1>3. IsFiniteSet(Before(p)) BY <1>1, <1>2, FS_Subset
  <1>4. Cardinality(Before(p)) \in Nat BY <1>3, FS_CardinalityType
  <1>5. p \notin Before(p) OBVIOUS
  <1>6. CASE source[p] = NEWLINE
    <2>1. Before(p + 1) = Before(p) \cup {p} BY <1>6
    <2>2. Cardinality(Before(p + 1)) = Cardinality(Before(p)) + 1
      BY <2>1, <1>3, <1>5, FS_AddElement
    <2> QED BY <2>2, <1>4, <1>6 DEF LineAt
  <1>7. CASE source[p] # NEWLINE
    <2>1. Before(p + 1) = Before(p) BY <1>7
    <2> QED BY <2>1, <1>4, <1>7 DEF LineAt
  <1> QED BY <1>6, <1>7

(* Multipliers are tried from the least on.                                *)
LEMMA LeastOf ==
  ASSUME NEW I, I \subseteq Nat, I # {}
  PROVE  Min(I) \in I
  <1>1. PICK i \in I : \A y \in I : ~(<<y, i>> \in OpToRel(<, Nat))
    BY WFMin, NatLessThanWellFounded
  <1>2. ASSUME NEW k \in I
        PROVE  i <= k
    <2>1. /\ <<k, i>> \in Nat \X Nat
          /\ <<k, i>>[1] = k /\ <<k, i>>[2] = i
      OBVIOUS
    <2>2. ~(k < i) BY <1>1, <2>1 DEF OpToRel
    <2> QED BY <2>2
  <1> QED BY <1>2 DEF Min

(* The table of keywords holds each, as no two share a slot; a word that   *)
(* hashes to the slot of another is none.                                  *)
LEMMA KeywordsAreFound ==
  ASSUME NEW word, word # <<>>
  PROVE  /\ ident_kind(word) \in {"KEYWORD", "IDENTIFIER"}
         /\ ident_kind(word) = "KEYWORD" <=> word \in Keywords
  <1> DEFINE m == PERFECT_HASH_MULTIPLIER
             here == {k \in Keywords : Slot(m, k) = Slot(m, word)}
             Fitting == {n \in Multipliers : check_hash_multiplier(n)}
  <1>1. Fitting \subseteq Nat /\ Fitting # {} BY MultiplierAssumption
  <1>2. Min(Fitting) \in Fitting BY <1>1, LeastOf
  <1>3. m \in Fitting BY <1>2 DEF PERFECT_HASH_MULTIPLIER
  <1>4. \A k, l \in Keywords : k # l => Slot(m, k) # Slot(m, l)
    BY <1>3 DEF check_hash_multiplier
  <1>5. keyword_string_table(Slot(m, word)) =
          IF here = {} THEN <<>> ELSE CHOOSE k \in here : TRUE
    BY DEF keyword_string_table
  <1> HIDE DEF m
  <1>6. CASE word \in Keywords
    <2>1. here = {word} BY <1>4, <1>6
    <2> QED BY <2>1, <1>5, <1>6 DEF ident_kind, m
  <1>7. CASE word \notin Keywords
    <2>1. here # {} => (CHOOSE k \in here : TRUE) \in Keywords OBVIOUS
    <2>2. keyword_string_table(Slot(m, word)) # word BY <2>1, <1>5, <1>7
    <2> QED BY <2>2, <1>7 DEF ident_kind, m
  <1> QED BY <1>6, <1>7
-----------------------------------------------------------------------------
(* What a word or a string is, in terms of the places of its characters.   *)
LEMMA TextOf ==
  ASSUME TypeOK, NEW from \in Nat \ {0}, NEW to \in Nat, from <= to, to <= Len(source)
  PROVE  LET text == SubSeq(source, from, to)
         IN /\ text \in Seq(Characters) /\ Len(text) = to - from + 1 /\ text # <<>>
            /\ \A i \in 1..Len(text) : text[i] = source[from + i - 1]
            /\ ToSet(text) = {source[e] : e \in from..to}
  <1> DEFINE text == SubSeq(source, from, to)
  <1>1. source \in Seq(Characters) BY DEF TypeOK
  <1>2. /\ text \in Seq(Characters) /\ Len(text) = to - from + 1
        /\ \A i \in 1..Len(text) : text[i] = source[from + i - 1]
    BY <1>1
  <1>3. text # <<>> BY <1>2
  <1> HIDE DEF text
  <1>4. DOMAIN text = 1..Len(text) BY <1>2
  <1>5. ToSet(text) = {text[i] : i \in 1..Len(text)} BY <1>4 DEF ToSet
  <1>6. ASSUME NEW e \in from..to
        PROVE  source[e] \in ToSet(text)
    <2>1. e - from + 1 \in 1..Len(text) /\ from + (e - from + 1) - 1 = e BY <1>2
    <2>2. text[e - from + 1] = source[e] BY <1>2, <2>1
    <2> QED BY <1>5, <2>1, <2>2
  <1>7. ASSUME NEW i \in 1..Len(text)
        PROVE  text[i] \in {source[e] : e \in from..to}
    <2>1. from + i - 1 \in from..to BY <1>2
    <2> QED BY <1>2, <2>1
  <1>8. ToSet(text) = {source[e] : e \in from..to} BY <1>5, <1>6, <1>7
  <1> QED BY <1>2, <1>3, <1>8 DEF text

Scanner == Token(KindOf(state, SubSeq(source, start.c, lexer.c - 1)), start, lexer)

(* What lexer_next returns of what the automaton has read.                 *)
LEMMA TokenIsWhole ==
  ASSUME TypeOK, Scanned, start.c <= Len(source), dfa(state, Here) = 0
  PROVE  /\ Scanner \in TokenSet /\ IsWhole(Scanner)
         /\ Scanner.start = start.c /\ Scanner.line = start.line
         /\ Scanner.start + Scanner.length = lexer.c
         /\ Scanner.kind # "EOF"
  <1> DEFINE from == start.c
             to == lexer.c - 1
             text == SubSeq(source, from, to)
             kind == KindOf(state, text)
  <1>1. /\ from \in Nat \ {0} /\ start.line \in Nat /\ lexer.c \in Nat \ {0} /\ to \in Nat
        /\ to <= Len(source)
    BY DEF TypeOK, Place
  <1>2. Here \in Characters \cup {NUL} BY <1>1, CharacterAt DEF Here
  <1>3. state # 0 BY <1>2, FromStart
    DEF ACCEPT_CHAR, ACCEPT_IDENT, ACCEPT_INT, UNTERMINATED_STRING
  <1>4. /\ lexer.c - from >= 1 /\ from <= to /\ lexer.c = to + 1
    <2>1. /\ lexer.c - from >= 1
      BY <1>1, <1>3
      DEF Scanned, TypeOK, ACCEPT_CHAR, ACCEPT_IDENT, ACCEPT_INT, UNTERMINATED_STRING, ACCEPT_STRING
    <2> QED BY <2>1, <1>1
  <1>5. /\ text \in Seq(Characters) /\ Len(text) = to - from + 1 /\ text # <<>>
        /\ \A i \in 1..Len(text) : text[i] = source[from + i - 1]
        /\ ToSet(text) = {source[e] : e \in from..to}
    BY <1>1, <1>4, TextOf, ZenonT(30)
  <1> HIDE DEF text, kind
  <1>6. /\ Scanner = [kind |-> kind, start |-> from, length |-> lexer.c - from, line |-> start.line]
        /\ lexer.c - from \in Nat
    BY <1>1, <1>4 DEF Scanner, Token, text, kind
  <1>7. /\ Scanner.kind = kind /\ Scanner.start = from /\ Scanner.length = lexer.c - from
        /\ Scanner.line = start.line /\ Scanner.start + Scanner.length = lexer.c
    BY <1>6, <1>1
  <1>8. Text(Scanner) = text /\ After(Scanner) = Here
    <2>1. from + Scanner.length - 1 = to BY <1>1, <1>4, <1>7
    <2> QED BY <2>1, <1>7 DEF Text, After, Here, text
  <1>9. Len(text) = Scanner.length /\ text[1] = source[from]
    <2>1. 1 \in 1..Len(text) /\ from + 1 - 1 = from BY <1>1, <1>4, <1>5
    <2> QED BY <1>1, <1>4, <1>5, <1>7, <2>1
  <1>10. kind \in Kinds \ {"EOF"} /\ IsWhole(Scanner)
    <2>1. CASE state = ACCEPT_CHAR
      <3>1. kind = "CHAR"
        BY <2>1 DEF kind, KindOf, ACCEPT_CHAR, ACCEPT_IDENT, ACCEPT_INT, UNTERMINATED_STRING, ACCEPT_STRING
      <3>2. lexer.c - from = 1 /\ source[from] \in Others \cup {SLASH}
        BY <2>1 DEF Scanned, ACCEPT_CHAR, ACCEPT_IDENT, ACCEPT_INT, UNTERMINATED_STRING, ACCEPT_STRING
      <3> QED BY <3>1, <3>2, <1>7, <1>8, <1>9 DEF IsWhole, Kinds
    <2>2. CASE state = ACCEPT_IDENT
      <3>1. kind = ident_kind(text)
        BY <2>2 DEF kind, text, KindOf, ACCEPT_CHAR, ACCEPT_IDENT, ACCEPT_INT, UNTERMINATED_STRING, ACCEPT_STRING
      <3>2. kind \in {"KEYWORD", "IDENTIFIER"} /\ (kind = "KEYWORD" <=> text \in Keywords)
        BY <3>1, <1>5, KeywordsAreFound
      <3>3. /\ source[from] \in Letters
            /\ \A e \in (from + 1)..to : source[e] \in Letters \cup Digits
        BY <2>2 DEF Scanned, ACCEPT_CHAR, ACCEPT_IDENT, ACCEPT_INT, UNTERMINATED_STRING, ACCEPT_STRING
      <3>4. \A e \in from..to : e = from \/ e \in (from + 1)..to BY <1>1
      <3>5. ToSet(text) \subseteq Letters \cup Digits BY <1>5, <3>3, <3>4
      <3>6. IsWord(text) BY <1>5, <1>9, <3>3, <3>5 DEF IsWord
      <3>7. Here \notin Letters \cup Digits
        BY <2>2, FromOthers DEF ACCEPT_IDENT
      <3> QED BY <3>2, <3>6, <3>7, <1>7, <1>8 DEF IsWhole, Kinds
    <2>3. CASE state = ACCEPT_INT
      <3>1. kind = "INTEGER"
        BY <2>3 DEF kind, KindOf, ACCEPT_CHAR, ACCEPT_IDENT, ACCEPT_INT, UNTERMINATED_STRING, ACCEPT_STRING
      <3>2. /\ source[from] \in Digits
            /\ \A e \in (from + 1)..to : source[e] \in Digits
        BY <2>3 DEF Scanned, ACCEPT_CHAR, ACCEPT_IDENT, ACCEPT_INT, UNTERMINATED_STRING, ACCEPT_STRING
      <3>3. \A e \in from..to : e = from \/ e \in (from + 1)..to BY <1>1
      <3>4. IsNumber(text) BY <1>5, <3>2, <3>3 DEF IsNumber
      <3>5. Here \notin Digits
        BY <2>3, FromOthers DEF ACCEPT_INT
      <3> QED BY <3>1, <3>4, <3>5, <1>7, <1>8 DEF IsWhole, Kinds
    <2>4. CASE state = UNTERMINATED_STRING
      <3>1. kind = "ERROR"
        BY <2>4 DEF kind, KindOf, ACCEPT_CHAR, ACCEPT_IDENT, ACCEPT_INT, UNTERMINATED_STRING, ACCEPT_STRING
      <3>2. /\ source[from] = QUOTE
            /\ \A e \in (from + 1)..to : source[e] # QUOTE
        BY <2>4 DEF Scanned, ACCEPT_CHAR, ACCEPT_IDENT, ACCEPT_INT, UNTERMINATED_STRING, ACCEPT_STRING
      <3>3. Here = NUL
        BY <2>4, FromOthers DEF ACCEPT_STRING, UNTERMINATED_STRING
      <3>4. /\ Tail(text) \in Seq(Characters) /\ Len(Tail(text)) = Len(text) - 1
            /\ \A i \in 1..Len(Tail(text)) : Tail(text)[i] = text[i + 1]
        BY <1>5
      <3>5. ASSUME NEW i \in 1..Len(Tail(text))
            PROVE  Tail(text)[i] # QUOTE
        <4>1. /\ i + 1 \in 1..Len(text) /\ from + (i + 1) - 1 \in (from + 1)..to
          BY <1>1, <1>5, <3>4
        <4> QED BY <4>1, <3>2, <3>4, <1>5
      <3>6. Unquoted(Tail(text)) BY <3>4, <3>5 DEF Unquoted, ToSet
      <3> QED BY <3>1, <3>2, <3>3, <3>6, <1>7, <1>8, <1>9 DEF IsWhole, Kinds
    <2>5. CASE state = ACCEPT_STRING
      <3>1. kind = "STRING"
        BY <2>5 DEF kind, KindOf, ACCEPT_CHAR, ACCEPT_IDENT, ACCEPT_INT, UNTERMINATED_STRING, ACCEPT_STRING
      <3>2. /\ lexer.c - from >= 2 /\ source[from] = QUOTE /\ source[to] = QUOTE
            /\ \A e \in (from + 1)..(lexer.c - 2) : source[e] # QUOTE
        BY <2>5 DEF Scanned, ACCEPT_CHAR, ACCEPT_IDENT, ACCEPT_INT, UNTERMINATED_STRING, ACCEPT_STRING
      <3>3. Scanner.length \in 1..Len(text) /\ from + Scanner.length - 1 = to
        <4>1. Scanner.length \in Nat /\ Scanner.length >= 2 BY <1>6, <1>7, <3>2
        <4>2. Scanner.length \in 1..Len(text) BY <4>1, <1>9
        <4> QED BY <4>2, <1>1, <1>4, <1>7
      <3>4. text[Scanner.length] = QUOTE BY <1>5, <3>2, <3>3
      <3> DEFINE inner == SubSeq(text, 2, Scanner.length - 1)
      <3>5. /\ inner \in Seq(Characters) /\ Len(inner) = Scanner.length - 2
            /\ \A i \in 1..Len(inner) : inner[i] = text[i + 1]
        <4>1. Scanner.length \in Nat /\ Scanner.length >= 2 BY <1>6, <1>7, <3>2
        <4>2. text \in Seq(Characters) /\ Scanner.length <= Len(text) BY <1>5, <1>9
        <4> QED BY <4>1, <4>2
      <3> HIDE DEF inner
      <3>6. ASSUME NEW i \in 1..Len(inner)
            PROVE  inner[i] # QUOTE
        <4>1. /\ i + 1 \in 1..Len(text)
              /\ from + (i + 1) - 1 \in (from + 1)..(lexer.c - 2)
          <5>1. Len(inner) = lexer.c - from - 2 BY <3>5, <1>7
          <5>2. i \in Nat /\ 1 <= i /\ i <= lexer.c - from - 2 BY <5>1, <1>1
          <5>3. i + 1 \in 1..Len(text)
            <6>1. Len(inner) = Len(text) - 2 /\ Len(text) \in Nat BY <3>5, <1>5, <1>9
            <6> QED BY <6>1
          <5>4. from + (i + 1) - 1 \in (from + 1)..(lexer.c - 2) BY <5>2, <1>1
          <5> QED BY <5>3, <5>4
        <4> QED BY <4>1, <3>2, <3>5, <1>5
      <3>7. Unquoted(inner) BY <3>5, <3>6 DEF Unquoted, ToSet
      <3> QED BY <3>1, <3>2, <3>4, <3>7, <1>7, <1>8, <1>9 DEF IsWhole, Kinds, inner
    <2> QED BY <2>1, <2>2, <2>3, <2>4, <2>5, <1>3 DEF TypeOK
  <1> QED BY <1>1, <1>6, <1>7, <1>10 DEF TokenSet
-----------------------------------------------------------------------------
(* What has been returned stays as it is while the source does.            *)
LEMMA ReturnedKept ==
  ASSUME TokensAreWhole, OnlyBlanksAreSkipped, LinesAreCounted,
         source' = source, tokens' = tokens
  PROVE  TokensAreWhole' /\ OnlyBlanksAreSkipped' /\ LinesAreCounted'
  <1>1. TokensAreWhole'
    <2>1. \A u : IsWhole(u)' <=> IsWhole(u)
      BY DEF IsWhole, Text, After, CharAt, IsWord, IsNumber, Unquoted
    <2> QED BY <2>1 DEF TokensAreWhole
  <1>2. OnlyBlanksAreSkipped'
    BY DEF OnlyBlanksAreSkipped, LeavesOutBlanks, IsSkipped, CharAt
  <1>3. LinesAreCounted' BY DEF LinesAreCounted, LineAt
  <1> QED BY <1>1, <1>2, <1>3

(* A token that is whole, begins where what is left out ends and knows its *)
(* line may be returned.                                                   *)
LEMMA Returned ==
  ASSUME TypeOK, TokensAreWhole, OnlyBlanksAreSkipped, LinesAreCounted,
         NEW t \in TokenSet, IsWhole(t), LeavesOutBlanks(First, t.start), t.line = LineAt(t.start),
         source' = source, tokens' = Append(tokens, t)
  PROVE  /\ tokens' \in Seq(TokenSet)
         /\ TokensAreWhole' /\ OnlyBlanksAreSkipped' /\ LinesAreCounted'
         /\ First' = t.start + t.length
  <1> DEFINE n == Len(tokens)
  <1>1. tokens \in Seq(TokenSet) /\ n \in Nat BY DEF TypeOK
  <1>2. /\ tokens' \in Seq(TokenSet) /\ Len(tokens') = n + 1 /\ tokens' # <<>>
        /\ tokens'[n + 1] = t /\ \A i \in 1..n : tokens'[i] = tokens[i]
    BY <1>1, AppendProperties
  <1>3. First' = t.start + t.length BY <1>2 DEF First
  <1>4. \A u : IsWhole(u)' <=> IsWhole(u)
    BY DEF IsWhole, Text, After, CharAt, IsWord, IsNumber, Unquoted
  <1>5. \A u : (u.line = LineAt(u.start))' <=> u.line = LineAt(u.start)
    BY DEF LineAt
  <1>6. \A f, b : LeavesOutBlanks(f, b)' <=> LeavesOutBlanks(f, b)
    BY DEF LeavesOutBlanks, IsSkipped, CharAt
  <1>7. DOMAIN tokens = 1..n /\ DOMAIN tokens' = 1..(n + 1) BY <1>1, <1>2
  <1>8. \A u \in ToSet(tokens') : u \in ToSet(tokens) \/ u = t
    <2>1. \A i \in 1..(n + 1) : i \in 1..n \/ i = n + 1 BY <1>1
    <2> QED BY <2>1, <1>2, <1>7 DEF ToSet
  <1>9. TokensAreWhole' BY <1>4, <1>8 DEF TokensAreWhole
  <1>10. LinesAreCounted' BY <1>5, <1>8 DEF LinesAreCounted
  <1>11. OnlyBlanksAreSkipped'
    <2> DEFINE first(s, i) == IF i = 1 THEN 1 ELSE s[i - 1].start + s[i - 1].length
    <2> SUFFICES ASSUME NEW i \in 1..(n + 1), NEW f, NEW b,
                        f = first(tokens', i), b = tokens'[i].start
                 PROVE  LeavesOutBlanks(f, b)'
      BY <1>7 DEF OnlyBlanksAreSkipped
    <2>1. CASE i \in 1..n
      <3>1. i # 1 => i - 1 \in 1..n BY <1>1, <2>1
      <3>2. f = first(tokens, i) /\ b = tokens[i].start BY <1>2, <2>1, <3>1
      <3> QED BY <1>6, <1>7, <2>1, <3>2 DEF OnlyBlanksAreSkipped
    <2>2. CASE i = n + 1
      <3>1. n = 0 <=> tokens = <<>> BY <1>1
      <3>2. n # 0 => n \in 1..n BY <1>1
      <3>3. i - 1 = n /\ (i = 1 <=> n = 0) BY <1>1, <2>2
      <3>4. f = First BY <1>2, <3>1, <3>2, <3>3 DEF First
      <3> QED BY <1>2, <1>6, <2>2, <3>4
    <2> QED BY <1>1, <2>1, <2>2
  <1> QED BY <1>2, <1>3, <1>9, <1>10, <1>11
-----------------------------------------------------------------------------
(* The first state.                                                        *)
LEMMA InitIInv == LexInit => IInv
  <1> SUFFICES ASSUME LexInit PROVE IInv OBVIOUS
  <1>1. source \in Seq(Characters)
    BY LengthAssumption DEF LexInit, BoundedSeq, SeqOf
  <1>2. /\ lexer = [c |-> 1, line |-> 1] /\ start = lexer /\ loop = "blanks" /\ state = 0
        /\ tokens = <<>>
    BY DEF LexInit
  <1>3. TypeOK BY <1>1, <1>2 DEF TypeOK, Place
  <1>4. lexer.line = LineAt(lexer.c)
    <2>1. {c \in 1..(1 - 1) : source[c] = NEWLINE} = {} OBVIOUS
    <2> QED BY <1>2, <2>1, FS_EmptySet DEF LineAt
  <1>5. First = 1 BY <1>2 DEF First
  <1>6. Between /\ Within /\ Scanning
    BY <1>2, <1>5 DEF Between, Within, Scanning, Skipped, CommentsEnded
  <1>7. ToSet(tokens) = {} /\ DOMAIN tokens = {} BY <1>2 DEF ToSet
  <1> QED BY <1>3, <1>4, <1>6, <1>7
    DEF IInv, TokensAreWhole, OnlyBlanksAreSkipped, LinesAreCounted

(* What a step keeps that returns nothing and does not move.               *)
LEMMA Standing ==
  ASSUME IInv, UNCHANGED <<source, lexer, tokens>>, start' \in Place, state' \in Nat,
         state' \in {0, ACCEPT_CHAR, ACCEPT_IDENT, ACCEPT_INT, UNTERMINATED_STRING, ACCEPT_STRING},
         loop' \in {"blanks", "comment", "scan"}
  PROVE  /\ TypeOK' /\ (lexer.line = LineAt(lexer.c))'
         /\ TokensAreWhole' /\ OnlyBlanksAreSkipped' /\ LinesAreCounted'
  <1>1. TypeOK' BY DEF IInv, TypeOK
  <1>2. (lexer.line = LineAt(lexer.c))' BY DEF IInv, LineAt
  <1> QED BY <1>1, <1>2, ReturnedKept DEF IInv

(* What a step keeps that takes one character and returns nothing.         *)
LEMMA Moving ==
  ASSUME IInv, Here # NUL, UNCHANGED <<source, loop, start, tokens>>,
         state' \in {0, ACCEPT_CHAR, ACCEPT_IDENT, ACCEPT_INT, UNTERMINATED_STRING, ACCEPT_STRING},
         lexer' = Past(lexer)
  PROVE  /\ TypeOK' /\ (lexer.line = LineAt(lexer.c))'
         /\ lexer'.c = lexer.c + 1 /\ lexer.c \in Nat \ {0} /\ lexer.c <= Len(source)
         /\ Here = source[lexer.c]
         /\ TokensAreWhole' /\ OnlyBlanksAreSkipped' /\ LinesAreCounted'
  <1>1. TypeOK BY DEF IInv
  <1>2. lexer.c \in Nat \ {0} /\ lexer.line \in Nat /\ Len(source) \in Nat
    BY <1>1 DEF TypeOK, Place
  <1>3. lexer.c <= Len(source) /\ Here = source[lexer.c] /\ Here = CharAt(lexer.c)
    BY <1>1, <1>2, CharacterAt DEF Here
  <1>4. lexer' = [c |-> lexer.c + 1,
                  line |-> lexer.line + (IF source[lexer.c] = NEWLINE THEN 1 ELSE 0)]
    BY <1>3 DEF Past
  <1>5. lexer'.c = lexer.c + 1 /\ lexer' \in Place BY <1>2, <1>4 DEF Place
  <1>6. TypeOK' BY <1>1, <1>2, <1>3, <1>5 DEF TypeOK
  <1>7. (lexer.line = LineAt(lexer.c))'
    <2>1. LineAt(lexer.c + 1) = LineAt(lexer.c) + (IF source[lexer.c] = NEWLINE THEN 1 ELSE 0)
      BY <1>1, <1>2, LineOfNext
    <2>2. lexer'.line = LineAt(lexer.c + 1) BY <1>4, <2>1 DEF IInv
    <2> QED BY <2>2, <1>5 DEF LineAt
  <1> QED BY <1>2, <1>3, <1>5, <1>6, <1>7, ReturnedKept DEF IInv

(* What has been left out stays left out.                                  *)
LEMMA SkippedKept ==
  ASSUME UNCHANGED <<source, tokens>>
  PROVE  /\ First' = First
         /\ \A f, c : IsSkipped(f, c)' <=> IsSkipped(f, c)
         /\ \A d : OpensComment(d)' <=> OpensComment(d)
         /\ \A d, c : NoNewline(d, c)' <=> NoNewline(d, c)
  <1>1. First' = First BY DEF First
  <1>2. \A f, c : IsSkipped(f, c)' <=> IsSkipped(f, c) BY DEF IsSkipped, CharAt
  <1>3. \A d : OpensComment(d)' <=> OpensComment(d) BY DEF OpensComment, CharAt
  <1>4. \A d, c : NoNewline(d, c)' <=> NoNewline(d, c) BY DEF NoNewline
  <1> QED BY <1>1, <1>2, <1>3, <1>4

LEMMA FirstIsPlace ==
  ASSUME TypeOK
  PROVE  First \in Nat
  <1>1. tokens # <<>> => Len(tokens) \in DOMAIN tokens BY DEF TypeOK
  <1>2. tokens # <<>> => tokens[Len(tokens)] \in TokenSet BY <1>1 DEF TypeOK
  <1> QED BY <1>2 DEF First, TokenSet
-----------------------------------------------------------------------------
(* The actions, one by one.                                                *)
LEMMA SkipBlankKeeps ==
  ASSUME IInv, SkipBlank
  PROVE  IInv'
  <1>1. TypeOK /\ Between /\ loop = "blanks" /\ Here \in Blanks /\ Here # NUL /\ Here # SLASH
    BY DEF IInv, SkipBlank, Blanks, SPACE, NEWLINE, NUL, SLASH
  <1>2. /\ TypeOK' /\ (lexer.line = LineAt(lexer.c))'
        /\ lexer'.c = lexer.c + 1 /\ lexer.c \in Nat \ {0} /\ lexer.c <= Len(source)
        /\ Here = source[lexer.c]
        /\ TokensAreWhole' /\ OnlyBlanksAreSkipped' /\ LinesAreCounted'
    BY <1>1, Moving DEF SkipBlank, TypeOK
  <1>3. First \in Nat BY <1>1, FirstIsPlace
  <1>4. Skipped(lexer.c) /\ CommentsEnded BY <1>1 DEF Between
  <1>5. loop' = "blanks" /\ UNCHANGED <<source, tokens>> BY <1>1 DEF SkipBlank
  <1>6. /\ First' = First
        /\ \A f, c : IsSkipped(f, c)' <=> IsSkipped(f, c)
        /\ \A d : OpensComment(d)' <=> OpensComment(d)
        /\ \A d, c : NoNewline(d, c)' <=> NoNewline(d, c)
    BY <1>5, SkippedKept
  <1>7. \A c \in First..lexer.c : c \in First..(lexer.c - 1) \/ c = lexer.c BY <1>2, <1>3
  <1>8. IsSkipped(First, lexer.c) BY <1>1, <1>2 DEF IsSkipped
  <1>9. Skipped(lexer.c)'
    <2>1. First <= lexer.c + 1 /\ \A c \in First..lexer.c : IsSkipped(First, c)
      BY <1>2, <1>3, <1>4, <1>7, <1>8 DEF Skipped
    <2>2. (lexer.c + 1) - 1 = lexer.c BY <1>2
    <2> QED BY <1>2, <1>6, <2>1, <2>2 DEF Skipped
  <1>10. CommentsEnded'
    <2> SUFFICES ASSUME lexer.c + 1 <= Len(source), NEW d \in First..lexer.c, OpensComment(d)
                 PROVE  ~NoNewline(d, lexer.c + 1)
      <3>1. source' = source /\ (lexer.c + 1) - 1 = lexer.c BY <1>2, <1>5
      <3> QED BY <1>2, <1>6, <3>1 DEF CommentsEnded
    <2>1. d # lexer.c BY <1>1 DEF OpensComment, Here
    <2>2. d \in First..(lexer.c - 1) BY <1>7, <2>1
    <2>3. ~NoNewline(d, lexer.c) BY <1>2, <1>4, <2>2 DEF CommentsEnded
    <2> QED BY <1>2, <1>3, <2>3 DEF NoNewline
  <1> QED BY <1>2, <1>5, <1>9, <1>10 DEF IInv, Between, Within, Scanning

LEMMA BeginCommentKeeps ==
  ASSUME IInv, BeginComment
  PROVE  IInv'
  <1>1. /\ TypeOK /\ Between /\ loop = "blanks" /\ AtComment
        /\ start \in Place
    BY DEF IInv, BeginComment, TypeOK
  <1>2. loop' = "comment" /\ UNCHANGED <<source, lexer, start, state, tokens>>
    BY DEF BeginComment
  <1>3. /\ TypeOK' /\ (lexer.line = LineAt(lexer.c))'
        /\ TokensAreWhole' /\ OnlyBlanksAreSkipped' /\ LinesAreCounted'
    BY <1>1, <1>2, ReturnedKept DEF IInv, TypeOK, LineAt
  <1>4. Skipped(lexer.c) BY <1>1 DEF Between
  <1>5. First \in Nat /\ lexer.c \in Nat BY <1>1, FirstIsPlace DEF TypeOK, Place
  <1>6. lexer.c \in First..lexer.c /\ NoNewline(lexer.c, lexer.c - 1) /\ OpensComment(lexer.c)
    BY <1>1, <1>4, <1>5 DEF Skipped, NoNewline, OpensComment, AtComment, Here
  <1>7. InComment BY <1>6 DEF InComment
  <1>8. Skipped(lexer.c)' /\ InComment'
    BY <1>2, <1>4, <1>7 DEF Skipped, InComment, First, IsSkipped, CharAt, OpensComment, NoNewline
  <1> QED BY <1>2, <1>3, <1>8 DEF IInv, Between, Within, Scanning

LEMMA SkipCommentKeeps ==
  ASSUME IInv, SkipComment
  PROVE  IInv'
  <1>1. TypeOK /\ Within /\ loop = "comment" /\ Here # NEWLINE /\ Here # NUL
    BY DEF IInv, SkipComment, CommentGoesOn
  <1>2. loop' = "comment" /\ UNCHANGED <<source, start, state, tokens>>
    BY <1>1 DEF SkipComment
  <1>3. lexer.c \in Nat /\ lexer.line \in Nat /\ lexer = [c |-> lexer.c, line |-> lexer.line]
    BY <1>1 DEF TypeOK, Place
  <1>4. lexer' = Past(lexer)
    <2>1. lexer' = [lexer EXCEPT !.c = @ + 1] BY DEF SkipComment
    <2>2. lexer' = [c |-> lexer.c + 1, line |-> lexer.line] BY <1>3, <2>1
    <2>3. Past(lexer) = [c |-> lexer.c + 1, line |-> lexer.line + 0]
      BY <1>1 DEF Past, Here
    <2> QED BY <1>3, <2>2, <2>3
  <1>5. /\ TypeOK' /\ (lexer.line = LineAt(lexer.c))'
        /\ lexer'.c = lexer.c + 1 /\ lexer.c \in Nat \ {0} /\ lexer.c <= Len(source)
        /\ Here = source[lexer.c]
        /\ TokensAreWhole' /\ OnlyBlanksAreSkipped' /\ LinesAreCounted'
    BY <1>1, <1>2, <1>4, Moving DEF TypeOK
  <1>6. First \in Nat BY <1>1, FirstIsPlace
  <1>7. Skipped(lexer.c) /\ InComment BY <1>1 DEF Within
  <1>8. /\ First' = First
        /\ \A f, c : IsSkipped(f, c)' <=> IsSkipped(f, c)
        /\ \A d : OpensComment(d)' <=> OpensComment(d)
        /\ \A d, c : NoNewline(d, c)' <=> NoNewline(d, c)
    BY <1>2, SkippedKept
  <1>9. PICK d \in First..lexer.c : OpensComment(d) /\ NoNewline(d, lexer.c - 1)
    BY <1>7 DEF InComment
  <1>10. d \in First..(lexer.c + 1) /\ NoNewline(d, lexer.c)
    <2>1. \A e \in d..lexer.c : e \in d..(lexer.c - 1) \/ e = lexer.c BY <1>3, <1>6
    <2>2. NoNewline(d, lexer.c) BY <1>1, <1>5, <1>9, <2>1 DEF NoNewline
    <2> QED BY <1>3, <1>6, <2>2
  <1>11. IsSkipped(First, lexer.c)
    BY <1>9, <1>10 DEF IsSkipped, OpensComment, NoNewline
  <1>12. (lexer.c + 1) - 1 = lexer.c BY <1>3
  <1>13. Skipped(lexer.c)'
    <2>1. \A c \in First..lexer.c : c \in First..(lexer.c - 1) \/ c = lexer.c BY <1>3, <1>6
    <2>2. First <= lexer.c + 1 /\ \A c \in First..lexer.c : IsSkipped(First, c)
      BY <1>3, <1>6, <1>7, <1>11, <2>1 DEF Skipped
    <2> QED BY <1>5, <1>8, <1>12, <2>2 DEF Skipped
  <1>14. InComment' BY <1>5, <1>8, <1>9, <1>10, <1>12 DEF InComment
  <1> QED BY <1>2, <1>5, <1>13, <1>14 DEF IInv, Between, Within, Scanning

LEMMA EndCommentKeeps ==
  ASSUME IInv, EndComment
  PROVE  IInv'
  <1>1. TypeOK /\ Within /\ loop = "comment" /\ Here \in {NEWLINE, NUL}
    BY DEF IInv, EndComment, CommentGoesOn
  <1>2. loop' = "blanks" /\ UNCHANGED <<source, lexer, start, state, tokens>>
    BY DEF EndComment
  <1>3. /\ TypeOK' /\ (lexer.line = LineAt(lexer.c))'
        /\ TokensAreWhole' /\ OnlyBlanksAreSkipped' /\ LinesAreCounted'
    BY <1>1, <1>2, ReturnedKept DEF IInv, TypeOK, LineAt
  <1>4. Skipped(lexer.c) BY <1>1 DEF Within
  <1>5. First \in Nat /\ lexer.c \in Nat \ {0} BY <1>1, FirstIsPlace DEF TypeOK, Place
  <1>6. CommentsEnded
    <2> SUFFICES ASSUME lexer.c <= Len(source), NEW d \in First..(lexer.c - 1)
                 PROVE  ~NoNewline(d, lexer.c)
      BY DEF CommentsEnded
    <2>1. source[lexer.c] = NEWLINE BY <1>1, <1>5, CharacterAt DEF Here
    <2>2. lexer.c \in d..lexer.c BY <1>5
    <2> QED BY <2>1, <2>2 DEF NoNewline
  <1>7. Skipped(lexer.c)' /\ CommentsEnded'
    BY <1>2, <1>4, <1>6 DEF Skipped, CommentsEnded, First, IsSkipped, CharAt, OpensComment, NoNewline
  <1> QED BY <1>2, <1>3, <1>7 DEF IInv, Between, Within, Scanning

LEMMA BeginTokenKeeps ==
  ASSUME IInv, BeginToken
  PROVE  IInv'
  <1>1. /\ TypeOK /\ Between /\ loop = "blanks" /\ Here \notin Blanks \cup {NUL} /\ ~AtComment
        /\ lexer.line = LineAt(lexer.c)
    BY DEF IInv, BeginToken
  <1>2. /\ loop' = "scan" /\ start' = lexer /\ state' = 0
        /\ UNCHANGED <<source, lexer, tokens>>
    BY DEF BeginToken
  <1>3. /\ TypeOK' /\ (lexer.line = LineAt(lexer.c))'
        /\ TokensAreWhole' /\ OnlyBlanksAreSkipped' /\ LinesAreCounted'
    BY <1>1, <1>2, ReturnedKept DEF IInv, TypeOK, LineAt
  <1>4. First \in Nat /\ lexer.c \in Nat \ {0} BY <1>1, FirstIsPlace DEF TypeOK, Place
  <1>5. lexer.c <= Len(source) /\ source[lexer.c] = Here
    BY <1>1, <1>4, CharacterAt DEF Here, TypeOK
  <1>6. Skipped(lexer.c) /\ CommentsEnded BY <1>1 DEF Between
  <1>7. ~IsSkipped(First, lexer.c)
    <2> SUFFICES ASSUME NEW d \in First..lexer.c, OpensComment(d), NoNewline(d, lexer.c)
                 PROVE  FALSE
      BY <1>1, <1>5 DEF IsSkipped, OpensComment, NoNewline
    <2>1. d # lexer.c BY <1>1 DEF AtComment, OpensComment, Here
    <2>2. d \in First..(lexer.c - 1) BY <1>4, <2>1
    <2> QED BY <1>5, <1>6, <2>2 DEF CommentsEnded
  <1>8. /\ First' = First
        /\ \A f, c : IsSkipped(f, c)' <=> IsSkipped(f, c)
    BY <1>2, SkippedKept
  <1>9. Skipped(start.c)' /\ (~IsSkipped(First, start.c))'
    BY <1>2, <1>6, <1>7, <1>8 DEF Skipped
  <1>10. Scanned'
    BY <1>2, <1>4
    DEF Scanned, ACCEPT_CHAR, ACCEPT_IDENT, ACCEPT_INT, UNTERMINATED_STRING, ACCEPT_STRING
  <1>11. (start.line = LineAt(start.c))' BY <1>1, <1>2 DEF LineAt
  <1>12. (start.c <= Len(source) /\ source[start.c] \notin Blanks)' BY <1>1, <1>2, <1>5
  <1> QED BY <1>2, <1>3, <1>9, <1>10, <1>11, <1>12 DEF IInv, Between, Within, Scanning
LEMMA ScanCharacterKeeps ==
  ASSUME IInv, ScanCharacter
  PROVE  IInv'
  <1>1. /\ TypeOK /\ Scanning /\ loop = "scan" /\ dfa(state, Here) # 0
        /\ lexer.c \in Nat \ {0} /\ start.c \in Nat \ {0} /\ Len(source) \in Nat
        /\ state \in {0, ACCEPT_CHAR, ACCEPT_IDENT, ACCEPT_INT, UNTERMINATED_STRING, ACCEPT_STRING}
    BY DEF IInv, ScanCharacter, TypeOK, Place
  <1>2. /\ lexer' = Past(lexer) /\ state' = dfa(state, Here)
        /\ UNCHANGED <<source, loop, start, tokens>>
    BY DEF ScanCharacter
  <1>3. /\ Skipped(start.c) /\ start.c <= Len(source) /\ ~IsSkipped(First, start.c)
        /\ source[start.c] \notin Blanks /\ Scanned /\ start.line = LineAt(start.c)
    BY <1>1 DEF Scanning
  <1>4. Here \in Characters \cup {NUL} BY <1>1, CharacterAt DEF Here
  <1>5. state = 0 => lexer.c = start.c BY <1>1, <1>3 DEF Scanned
  <1>6. Here # NUL
    <2>1. CASE state = 0
      BY <1>1, <1>3, <1>5, <2>1, CharacterAt DEF Here
    <2>2. CASE state # 0
      <3>1. NUL \notin Letters /\ NUL \notin Digits /\ NUL # QUOTE
        BY CharacterAssumption DEF Characters
      <3> QED BY <1>1, <2>2, <3>1, FromOthers
    <2> QED BY <2>1, <2>2
  <1>7. /\ state = 0 => state' \in {ACCEPT_CHAR, ACCEPT_IDENT, ACCEPT_INT, UNTERMINATED_STRING}
        /\ state = ACCEPT_IDENT => state' = ACCEPT_IDENT /\ Here \in Letters \cup Digits
        /\ state = ACCEPT_INT => state' = ACCEPT_INT /\ Here \in Digits
        /\ state = UNTERMINATED_STRING =>
             \/ state' = ACCEPT_STRING /\ Here = QUOTE
             \/ state' = UNTERMINATED_STRING /\ Here # QUOTE
        /\ state # ACCEPT_CHAR /\ state # ACCEPT_STRING
    BY <1>1, <1>2, <1>4, FromStart, FromOthers
  <1>8. state' \in {0, ACCEPT_CHAR, ACCEPT_IDENT, ACCEPT_INT, UNTERMINATED_STRING, ACCEPT_STRING}
    BY <1>1, <1>7
  <1>9. /\ TypeOK' /\ (lexer.line = LineAt(lexer.c))'
        /\ lexer'.c = lexer.c + 1 /\ lexer.c \in Nat \ {0} /\ lexer.c <= Len(source)
        /\ Here = source[lexer.c]
        /\ TokensAreWhole' /\ OnlyBlanksAreSkipped' /\ LinesAreCounted'
    BY <1>2, <1>6, <1>8, Moving
  <1>10. /\ First' = First
         /\ \A f, c : IsSkipped(f, c)' <=> IsSkipped(f, c)
    BY <1>2, SkippedKept
  <1>11. Skipped(start.c)' /\ (~IsSkipped(First, start.c))'
    BY <1>2, <1>3, <1>10 DEF Skipped
  <1>12. (start.line = LineAt(start.c))' BY <1>2, <1>3 DEF LineAt
  <1>13. (start.c <= Len(source) /\ source[start.c] \notin Blanks)' BY <1>2, <1>3
  <1>14. Scanned'
    <2>1. start' = start /\ source' = source /\ lexer'.c = lexer.c + 1 BY <1>2, <1>9
    <2>2. CASE state = 0
      <3>1. /\ lexer'.c - start'.c = 1
            /\ \A e \in (start'.c + 1)..(lexer'.c - 1) : FALSE
        <4>1. lexer'.c = start'.c + 1 /\ start'.c \in Nat BY <1>1, <1>5, <2>1, <2>2
        <4> QED BY <4>1
      <3>2. source'[start'.c] = Here BY <1>5, <1>9, <2>1, <2>2
      <3>3. state' = dfa(0, Here) BY <1>2, <2>2
      <3>4. state' = ACCEPT_CHAR => Here \in Others \cup {SLASH}
        <4>1. Here \notin Blanks BY <1>3, <1>5, <1>9, <2>2
        <4> QED BY <1>4, <1>6, <3>3, <4>1, FromStart DEF Characters
      <3>5. /\ state' = ACCEPT_IDENT => Here \in Letters
            /\ state' = ACCEPT_INT => Here \in Digits
            /\ state' = UNTERMINATED_STRING => Here = QUOTE
        BY <1>4, <3>3, FromStart
      <3> QED BY <1>7, <2>2, <3>1, <3>2, <3>4, <3>5
        DEF Scanned, ACCEPT_CHAR, ACCEPT_IDENT, ACCEPT_INT, UNTERMINATED_STRING, ACCEPT_STRING
    <2>3. CASE state # 0
      <3>1. lexer.c - start.c >= 1
        BY <1>1, <1>3, <2>3
        DEF Scanned, ACCEPT_CHAR, ACCEPT_IDENT, ACCEPT_INT, UNTERMINATED_STRING, ACCEPT_STRING
      <3>2. /\ lexer'.c - start'.c >= 2 /\ lexer'.c - 1 = lexer.c /\ lexer'.c - 2 = lexer.c - 1
            /\ \A e \in (start'.c + 1)..(lexer'.c - 1) :
                 e \in (start.c + 1)..(lexer.c - 1) \/ e = lexer.c
        BY <1>1, <2>1, <3>1
      <3>3. CASE state = ACCEPT_IDENT
        <4>1. /\ source[start.c] \in Letters
              /\ \A e \in (start.c + 1)..(lexer.c - 1) : source[e] \in Letters \cup Digits
          BY <1>3, <3>3 DEF Scanned
        <4>2. \A e \in (start'.c + 1)..(lexer'.c - 1) : source'[e] \in Letters \cup Digits
          BY <1>7, <1>9, <2>1, <3>2, <3>3, <4>1
        <4>3. state' = ACCEPT_IDENT /\ lexer'.c - start'.c >= 1 BY <1>1, <1>7, <2>1, <3>1, <3>3
        <4> QED BY <2>1, <4>1, <4>2, <4>3
          DEF Scanned, ACCEPT_CHAR, ACCEPT_IDENT, ACCEPT_INT, UNTERMINATED_STRING, ACCEPT_STRING
      <3>4. CASE state = ACCEPT_INT
        <4>1. /\ source[start.c] \in Digits
              /\ \A e \in (start.c + 1)..(lexer.c - 1) : source[e] \in Digits
          BY <1>3, <3>4 DEF Scanned
        <4>2. \A e \in (start'.c + 1)..(lexer'.c - 1) : source'[e] \in Digits
          BY <1>7, <1>9, <2>1, <3>2, <3>4, <4>1
        <4>3. state' = ACCEPT_INT /\ lexer'.c - start'.c >= 1 BY <1>1, <1>7, <2>1, <3>1, <3>4
        <4> QED BY <2>1, <4>1, <4>2, <4>3
          DEF Scanned, ACCEPT_CHAR, ACCEPT_IDENT, ACCEPT_INT, UNTERMINATED_STRING, ACCEPT_STRING
      <3>5. CASE state = UNTERMINATED_STRING
        <4>1. /\ source[start.c] = QUOTE
              /\ \A e \in (start.c + 1)..(lexer.c - 1) : source[e] # QUOTE
          BY <1>3, <3>5 DEF Scanned
        <4>2. CASE state' = UNTERMINATED_STRING /\ Here # QUOTE
          <5>1. \A e \in (start'.c + 1)..(lexer'.c - 1) : source'[e] # QUOTE
            BY <1>9, <2>1, <3>2, <4>1, <4>2
          <5>2. lexer'.c - start'.c >= 1 BY <1>1, <2>1, <3>1
          <5> QED BY <2>1, <4>1, <4>2, <5>1, <5>2
            DEF Scanned, ACCEPT_CHAR, ACCEPT_IDENT, ACCEPT_INT, UNTERMINATED_STRING, ACCEPT_STRING
        <4>3. CASE state' = ACCEPT_STRING /\ Here = QUOTE
          <5>1. \A e \in (start'.c + 1)..(lexer'.c - 2) : source'[e] # QUOTE
            BY <2>1, <3>2, <4>1
          <5>2. source'[lexer'.c - 1] = QUOTE BY <1>9, <2>1, <3>2, <4>3
          <5> QED BY <2>1, <3>2, <4>1, <4>3, <5>1, <5>2
            DEF Scanned, ACCEPT_CHAR, ACCEPT_IDENT, ACCEPT_INT, UNTERMINATED_STRING, ACCEPT_STRING
        <4> QED BY <1>7, <3>5, <4>2, <4>3
      <3> QED BY <1>1, <1>7, <2>3, <3>3, <3>4, <3>5
    <2> QED BY <2>2, <2>3
  <1> QED BY <1>1, <1>2, <1>9, <1>11, <1>12, <1>13, <1>14 DEF IInv, Between, Within, Scanning

LEMMA ReturnTokenKeeps ==
  ASSUME IInv, ReturnToken
  PROVE  IInv'
  <1>1. /\ TypeOK /\ Scanning /\ loop = "scan" /\ dfa(state, Here) = 0
        /\ TokensAreWhole /\ OnlyBlanksAreSkipped /\ LinesAreCounted
        /\ lexer.c \in Nat \ {0} /\ lexer.line = LineAt(lexer.c)
    BY DEF IInv, ReturnToken, TypeOK, Place
  <1>2. /\ tokens' = Append(tokens, Scanner) /\ loop' = "blanks"
        /\ UNCHANGED <<source, lexer, start, state>>
    BY DEF ReturnToken, Scanner
  <1>3. /\ Skipped(start.c) /\ start.c <= Len(source) /\ ~IsSkipped(First, start.c)
        /\ Scanned /\ start.line = LineAt(start.c)
    BY <1>1 DEF Scanning
  <1>4. /\ Scanner \in TokenSet /\ IsWhole(Scanner)
        /\ Scanner.start = start.c /\ Scanner.line = start.line
        /\ Scanner.start + Scanner.length = lexer.c
    BY <1>1, <1>3, TokenIsWhole
  <1>5. First \in Nat /\ start.c \in Nat BY <1>1, FirstIsPlace DEF TypeOK, Place
  <1>6. LeavesOutBlanks(First, Scanner.start)
    BY <1>3, <1>4, <1>5 DEF LeavesOutBlanks, Skipped
  <1>7. Scanner.line = LineAt(Scanner.start) BY <1>3, <1>4
  <1>8. /\ tokens' \in Seq(TokenSet)
        /\ TokensAreWhole' /\ OnlyBlanksAreSkipped' /\ LinesAreCounted'
        /\ First' = Scanner.start + Scanner.length
    BY <1>1, <1>2, <1>4, <1>6, <1>7, Returned
  <1>9. TypeOK' BY <1>1, <1>2, <1>8 DEF TypeOK
  <1>10. First' = lexer'.c /\ lexer'.c \in Nat BY <1>1, <1>2, <1>4, <1>8
  <1>11. Skipped(lexer.c)' /\ CommentsEnded'
    <2>1. \A c \in First'..(lexer'.c - 1) : FALSE BY <1>10
    <2> QED BY <1>10, <2>1 DEF Skipped, CommentsEnded
  <1>12. (lexer.line = LineAt(lexer.c))' BY <1>1, <1>2 DEF LineAt
  <1> QED BY <1>2, <1>8, <1>9, <1>11, <1>12 DEF IInv, Between, Within, Scanning

LEMMA ReturnEndKeeps ==
  ASSUME IInv, ReturnEnd
  PROVE  IInv'
  <1> DEFINE t == Token("EOF", lexer, lexer)
  <1>1. /\ TypeOK /\ Between /\ loop = "blanks" /\ Here = NUL
        /\ TokensAreWhole /\ OnlyBlanksAreSkipped /\ LinesAreCounted
        /\ lexer.c \in Nat \ {0} /\ lexer.line \in Nat /\ lexer.line = LineAt(lexer.c)
        /\ Len(source) \in Nat /\ lexer.c <= Len(source) + 1
    BY DEF IInv, ReturnEnd, TypeOK, Place
  <1>2. /\ tokens' = Append(tokens, t) /\ loop' = "blanks"
        /\ UNCHANGED <<source, lexer, start, state>>
    BY <1>1 DEF ReturnEnd
  <1>3. lexer.c = Len(source) + 1
    <2>1. ~(lexer.c <= Len(source)) BY <1>1, CharacterAt DEF Here
    <2> QED BY <1>1, <2>1
  <1>4. /\ t = [kind |-> "EOF", start |-> lexer.c, length |-> 0, line |-> lexer.line]
        /\ t \in TokenSet
    BY <1>1 DEF Token, TokenSet, Kinds
  <1> HIDE DEF t
  <1>5. IsWhole(t) BY <1>3, <1>4 DEF IsWhole
  <1>6. First \in Nat BY <1>1, FirstIsPlace
  <1>7. LeavesOutBlanks(First, t.start)
    BY <1>1, <1>3, <1>4, <1>6 DEF LeavesOutBlanks, Between, Skipped
  <1>8. /\ tokens' \in Seq(TokenSet)
        /\ TokensAreWhole' /\ OnlyBlanksAreSkipped' /\ LinesAreCounted'
        /\ First' = t.start + t.length
    BY <1>1, <1>2, <1>4, <1>5, <1>7, Returned
  <1>9. TypeOK' BY <1>1, <1>2, <1>8 DEF TypeOK
  <1>10. First' = lexer'.c /\ lexer'.c \in Nat BY <1>1, <1>2, <1>4, <1>8
  <1>11. Skipped(lexer.c)' /\ CommentsEnded'
    <2>1. \A c \in First'..(lexer'.c - 1) : FALSE BY <1>10
    <2> QED BY <1>10, <2>1 DEF Skipped, CommentsEnded
  <1>12. (lexer.line = LineAt(lexer.c))' BY <1>1, <1>2 DEF LineAt
  <1> QED BY <1>2, <1>8, <1>9, <1>11, <1>12 DEF IInv, Between, Within, Scanning

-----------------------------------------------------------------------------
(* The lexer's place, what its automaton has read and what it has returned *)
(* agree with the source at every turn of its loops.                       *)
THEOREM LexerKept == LexSpec => []IInv
  <1>1. ASSUME IInv, [lexer_next]_lvars
        PROVE  IInv'
    <2>1. CASE lexer_next
      BY <1>1, <2>1, SkipBlankKeeps, BeginCommentKeeps, SkipCommentKeeps, EndCommentKeeps,
         ReturnEndKeeps, BeginTokenKeeps, ScanCharacterKeeps, ReturnTokenKeeps DEF lexer_next
    <2>2. CASE UNCHANGED lvars
      <3>1. UNCHANGED <<source, lexer, loop, start, state, tokens>> BY <2>2 DEF lvars
      <3>2. TokensAreWhole' /\ OnlyBlanksAreSkipped' /\ LinesAreCounted'
        BY <1>1, <3>1, ReturnedKept DEF IInv
      <3>3. TypeOK' /\ (lexer.line = LineAt(lexer.c))'
        BY <1>1, <3>1 DEF IInv, TypeOK, LineAt
      <3>4. Between' /\ Within'
        BY <1>1, <3>1
        DEF IInv, Between, Within, Skipped, CommentsEnded, InComment, First, IsSkipped, CharAt,
            OpensComment, NoNewline
      <3>5. Scanning'
        BY <1>1, <3>1 DEF IInv, Scanning, Skipped, Scanned, First, IsSkipped, CharAt, LineAt
      <3> QED BY <3>2, <3>3, <3>4, <3>5 DEF IInv
    <2> QED BY <1>1, <2>1, <2>2
  <1> QED BY <1>1, InitIInv, PTL DEF LexSpec

(* Whatever the source, the keywords and the hash: a token is the longest  *)
(* word or number, a whole string or one sign, and a word is a keyword     *)
(* just when it is one.                                                    *)
THEOREM LongestTokens == LexSpec => []TokensAreWhole
  BY LexerKept, PTL DEF IInv

(* lexer_next leaves out blanks and comments and nothing else.             *)
THEOREM NothingElseSkipped == LexSpec => []OnlyBlanksAreSkipped
  BY LexerKept, PTL DEF IInv

(* A token's line is one more than the newlines before it, whichever of    *)
(* lexer_next's three loops passed them.                                   *)
THEOREM TokensKnowTheirLine == LexSpec => []LinesAreCounted
  BY LexerKept, PTL DEF IInv
=============================================================================
