-------------------------- MODULE ToolCallsProofs --------------------------
(***************************************************************************)
(* For any environments, config files, projects, prompts, databases and    *)
(* command lines made of texts:                                            *)
(*   A server that is up has a configuration its parsers accept and what   *)
(*     its environment says (StartInv); both come from what is configured  *)
(*     for a field, the environment's value if it says anything            *)
(*     (EnvironmentFirst, LoadedWhenAccepted).                             *)
(*   The ranges of the handlers are those of the schemas but for three     *)
(*     tools and one argument of two more (LimitsAgree), so that a refusal *)
(*     is for a value the schema does not offer (RefusedForLimits), or for *)
(*     one of the limits the property names (Answers).                     *)
(*   A line the blocked patterns refuse has one of a few words in it       *)
(*     (BlockedHasRisky).  The checks a project picks have none of them    *)
(*     but the word format, so the mode's list decides (PicksAdmitted).    *)
(*     Its tokens and its text are folds (TokensAreOfLine, TextHasWords).  *)
(*   A mode's list is within that of the next (ReviewIsCoding).            *)
(***************************************************************************)
EXTENDS ToolCalls, FoldLemmas, SequenceTheorems, FiniteSetTheorems, TLAPS

-----------------------------------------------------------------------------
\* Text and Tokens

TextFold(h, line) ==
    h = [s \in SUBSET DOMAIN line |->
            IF s = {} THEN <<>> ELSE h[s \ {Max(s)}] \o <<Blank>> \o line[Max(s)]]
TokenFold(h, line) ==
    h = [s \in SUBSET DOMAIN line |->
            IF s = {} THEN <<>>
            ELSE IF line[Max(s)] = <<>> THEN h[s \ {Max(s)}] ELSE Append(h[s \ {Max(s)}], line[Max(s)])]

\* Words, a blank, and the words and marks of the checks: the provers know of no word that it
\* is a string.
CheckWords == {"cargo", "flutter", "dart", "pytest", "npm", "pnpm", "yarn", "run", "check", "typecheck",
               "test", "lint", "build", "type", "format", "fmt", "prettier", "clippy", "analyze", "all",
               "targets", "output", "none", "set", "exit", "if", "changed", "-", ":", "=", "."}
Atoms == STRING \cup {Blank} \cup CheckWords
Token == Seq(Atoms)

\* The lines a client sends are made of tokens.
LEMMA WordsAreTokens ==
    /\ Seq(STRING) \subseteq Token
    /\ Seq(Seq(STRING)) \subseteq Seq(Token)
  <1>1. Seq(STRING) \subseteq Token
    BY SeqMonotonic DEF Token, Atoms
  <1> QED
    BY <1>1, SeqMonotonic

\* A text goes on with a blank and another token.
LEMMA JoinIsToken == ASSUME NEW s \in Token, NEW t \in Token PROVE s \o <<Blank>> \o t \in Token
  <1>1. <<Blank>> \in Seq(Atoms)
    BY DEF Atoms
  <1>2. s \o <<Blank>> \in Seq(Atoms)
    BY <1>1 DEF Token
  <1> QED
    BY <1>2 DEF Token

\* The text of a line is the last value of a function that adds one token at a time.
LEMMA TextIs ==
    ASSUME NEW line \in Seq(Token)
    PROVE  \E h : TextFold(h, line) /\ Text(line) = h[DOMAIN line]
  <1> DEFINE g == [i \in 1 .. Len(line) |-> [v \in Token |-> v \o <<Blank>> \o line[i]]]
  <1>1. Len(line) \in Nat /\ DOMAIN line = 1 .. Len(line) /\ <<>> \in Token
    BY DEF Token
  <1>2. ASSUME NEW i \in 1 .. Len(line), NEW v \in Token PROVE v \o <<Blank>> \o line[i] \in Token
    <2>1. line[i] \in Token
      BY <1>1, ElementOfSeq DEF Token
    <2> QED
      BY <2>1, JoinIsToken DEF Token
  <1>3. g \in [1 .. Len(line) -> [Token -> Token]]
    BY <1>2
  <1>4. PICK f \in [SUBSET (1 .. Len(line)) -> Token] : Folds(f, <<>>, g, Len(line))
    <2> HIDE DEF g
    <2> QED
      BY <1>1, <1>3, FoldExists
  <1>5. ASSUME NEW s \in SUBSET DOMAIN line
        PROVE  f[s] = IF s = {} THEN <<>> ELSE f[s \ {Max(s)}] \o <<Blank>> \o line[Max(s)]
    <2>1. f[s] = IF s = {} THEN <<>> ELSE g[Max(s)][f[s \ {Max(s)}]]
      BY <1>1, <1>4, Zenon DEF Folds
    <2>2. CASE s # {}
      <3>1. Max(s) \in 1 .. Len(line) /\ s \ {Max(s)} \in SUBSET (1 .. Len(line))
        BY <1>1, <2>2, MaxOf
      <3>2. f[s \ {Max(s)}] \in Token
        BY <1>4, <3>1
      <3> QED
        BY <2>1, <2>2, <3>1, <3>2
    <2> QED
      BY <2>1, <2>2
  <1>6. TextFold(f, line)
    BY <1>1, <1>4, <1>5 DEF TextFold
  <1> DEFINE h == CHOOSE h : TextFold(h, line)
  <1>7. TextFold(h, line)
    BY <1>6, Zenon
  <1>8. Text(line) = h[DOMAIN line]
    BY Zenon DEF Text, FoldLeft, MapThenFoldSet, TextFold
  <1> QED
    BY <1>7, <1>8, Zenon

\* A word of the joined text is in one of its two parts.
LEMMA JoinHasWords ==
    ASSUME NEW s \in Token, NEW t \in Token, NEW w, w # Blank
    PROVE  Word(s \o <<Blank>> \o t, w) <=> Word(s, w) \/ \E j \in DOMAIN t : t[j] = w
  <1> DEFINE all == s \o <<Blank>> \o t
  <1>1. /\ Len(s) \in Nat /\ Len(t) \in Nat /\ DOMAIN t = 1 .. Len(t)
        /\ Len(all) = Len(s) + 1 + Len(t)
    BY DEF Token
  <1>2. /\ \A i \in 1 .. Len(s) : all[i] = s[i]
        /\ all[Len(s) + 1] = Blank
        /\ \A j \in 1 .. Len(t) : all[Len(s) + 1 + j] = t[j]
    BY <1>1 DEF Token
  <1>3. ASSUME NEW i \in 1 .. Len(all)
        PROVE  i \in 1 .. Len(s) \/ i = Len(s) + 1 \/ \E j \in 1 .. Len(t) : i = Len(s) + 1 + j
    <2>1. i \in 1 .. Len(s) \/ i = Len(s) + 1 \/ i > Len(s) + 1
      BY <1>1
    <2>2. ASSUME i > Len(s) + 1
          PROVE  i - (Len(s) + 1) \in 1 .. Len(t) /\ i = Len(s) + 1 + (i - (Len(s) + 1))
      BY <1>1, <2>2
    <2> QED
      BY <2>1, <2>2
  <1>4. ASSUME NEW i \in 1 .. Len(all), all[i] = w
        PROVE  Word(s, w) \/ \E j \in DOMAIN t : t[j] = w
    BY <1>1, <1>2, <1>3, <1>4 DEF Word
  <1>5. ASSUME NEW i \in 1 .. Len(s), s[i] = w PROVE i \in 1 .. Len(all) /\ all[i] = w
    BY <1>1, <1>2, <1>5
  <1>6. ASSUME NEW j \in 1 .. Len(t), t[j] = w
        PROVE  Len(s) + 1 + j \in 1 .. Len(all) /\ all[Len(s) + 1 + j] = w
    BY <1>1, <1>2, <1>6
  <1> HIDE DEF all
  <1>7. Word(all, w) <=> Word(s, w) \/ \E j \in DOMAIN t : t[j] = w
    BY <1>1, <1>4, <1>5, <1>6 DEF Word
  <1> QED
    BY <1>7 DEF all

\* A word other than a blank is in the text of a line when it is in one of its tokens.
LEMMA TextHasWords ==
    ASSUME NEW line \in Seq(Token), NEW w, w # Blank
    PROVE  Word(Text(line), w) <=> \E i \in DOMAIN line : \E j \in DOMAIN line[i] : line[i][j] = w
  <1> DEFINE In(s) == \E i \in s : \E j \in DOMAIN line[i] : line[i][j] = w
  <1>1. PICK h : TextFold(h, line) /\ Text(line) = h[DOMAIN line]
    BY TextIs
  <1>2. Len(line) \in Nat /\ DOMAIN line = 1 .. Len(line)
    OBVIOUS
  <1> DEFINE S == {k \in Nat : k <= Len(line) =>
                      \A s \in SUBSET (1 .. k) : h[s] \in Token /\ (Word(h[s], w) <=> In(s))}
  <1>3. 0 \in S
    <2>1. ASSUME NEW s \in SUBSET (1 .. 0) PROVE h[s] \in Token /\ (Word(h[s], w) <=> In(s))
      <3>1. s = {} /\ s \in SUBSET DOMAIN line
        OBVIOUS
      <3>2. h[s] = <<>>
        BY <1>1, <3>1 DEF TextFold
      <3> QED
        BY <3>1, <3>2 DEF Word, Token
    <2> QED
      BY <2>1
  <1>4. ASSUME NEW k \in Nat, k \in S PROVE k + 1 \in S
    <2>1. ASSUME k + 1 <= Len(line), NEW s \in SUBSET (1 .. k + 1)
          PROVE  h[s] \in Token /\ (Word(h[s], w) <=> In(s))
      <3>1. k <= Len(line)
        BY <1>2, <2>1
      <3>2. CASE k + 1 \notin s
        <4>1. s \in SUBSET (1 .. k)
          BY <3>2
        <4> QED
          BY <1>4, <3>1, <4>1
      <3>3. CASE k + 1 \in s
        <4> DEFINE r == s \ {k + 1}
        <4>1. r \in SUBSET (1 .. k)
          OBVIOUS
        <4>2. h[r] \in Token /\ (Word(h[r], w) <=> In(r))
          BY <1>4, <3>1, <4>1
        <4>3. Max(s) = k + 1 /\ s \in SUBSET DOMAIN line /\ s # {}
          <5>1. Max(s) = k + 1
            BY <3>3, MaxTop
          <5>2. s \in SUBSET DOMAIN line
            BY <1>2, <2>1
          <5> QED
            BY <3>3, <5>1, <5>2
        <4>4. h[s] = h[r] \o <<Blank>> \o line[k + 1]
          BY <1>1, <4>3, Zenon DEF TextFold
        <4>5. line[k + 1] \in Token
          BY <1>2, <2>1, ElementOfSeq
        <4>6. h[s] \in Token
          BY <4>2, <4>4, <4>5, JoinIsToken
        <4>7. Word(h[s], w) <=> Word(h[r], w) \/ \E j \in DOMAIN line[k + 1] : line[k + 1][j] = w
          BY <4>2, <4>4, <4>5, JoinHasWords
        <4>8. In(s) <=> In(r) \/ \E j \in DOMAIN line[k + 1] : line[k + 1][j] = w
          BY <3>3
        <4> QED
          BY <4>2, <4>6, <4>7, <4>8
      <3> QED
        BY <3>2, <3>3
    <2>2. k + 1 \in Nat
      OBVIOUS
    <2> QED
      BY <2>1, <2>2, Zenon
  <1>5. Len(line) \in S
    <2> HIDE DEF S
    <2> QED
      BY <1>2, <1>3, <1>4, Induction
  <1>6. Word(h[DOMAIN line], w) <=> In(DOMAIN line)
    BY <1>2, <1>5
  <1> QED
    BY <1>1, <1>6

\* So are its tokens, the empty ones left out.
LEMMA TokensIs ==
    ASSUME NEW line \in Seq(Token)
    PROVE  \E h : TokenFold(h, line) /\ Tokens(line) = h[DOMAIN line]
  <1> DEFINE g == [i \in 1 .. Len(line) |->
                     [v \in Seq(Token) |-> IF line[i] = <<>> THEN v ELSE Append(v, line[i])]]
  <1>1. Len(line) \in Nat /\ DOMAIN line = 1 .. Len(line) /\ <<>> \in Seq(Token)
    OBVIOUS
  <1>2. ASSUME NEW i \in 1 .. Len(line), NEW v \in Seq(Token) PROVE Append(v, line[i]) \in Seq(Token)
    BY <1>1, ElementOfSeq
  <1>3. g \in [1 .. Len(line) -> [Seq(Token) -> Seq(Token)]]
    BY <1>2
  <1>4. PICK f \in [SUBSET (1 .. Len(line)) -> Seq(Token)] : Folds(f, <<>>, g, Len(line))
    <2> HIDE DEF g
    <2> QED
      BY <1>1, <1>3, FoldExists
  <1>5. ASSUME NEW s \in SUBSET DOMAIN line
        PROVE  f[s] = IF s = {} THEN <<>>
                      ELSE IF line[Max(s)] = <<>> THEN f[s \ {Max(s)}]
                           ELSE Append(f[s \ {Max(s)}], line[Max(s)])
    <2>1. f[s] = IF s = {} THEN <<>> ELSE g[Max(s)][f[s \ {Max(s)}]]
      BY <1>1, <1>4, Zenon DEF Folds
    <2>2. CASE s # {}
      <3>1. Max(s) \in 1 .. Len(line) /\ s \ {Max(s)} \in SUBSET (1 .. Len(line))
        BY <1>1, <2>2, MaxOf
      <3>2. f[s \ {Max(s)}] \in Seq(Token)
        BY <1>4, <3>1
      <3> QED
        BY <2>1, <2>2, <3>1, <3>2
    <2> QED
      BY <2>1, <2>2
  <1>6. TokenFold(f, line)
    BY <1>1, <1>4, <1>5 DEF TokenFold
  <1> DEFINE h == CHOOSE h : TokenFold(h, line)
  <1>7. TokenFold(h, line)
    BY <1>6, Zenon
  <1>8. Tokens(line) = h[DOMAIN line]
    BY Zenon DEF Tokens, FoldLeft, MapThenFoldSet, TokenFold
  <1> QED
    BY <1>7, <1>8, Zenon

\* The tokens of a line are tokens of the line.
LEMMA TokensAreOfLine ==
    ASSUME NEW line \in Seq(Token)
    PROVE  /\ Tokens(line) \in Seq(Token)
           /\ \A i \in DOMAIN Tokens(line) : \E j \in DOMAIN line : Tokens(line)[i] = line[j]
  <1> DEFINE From(q) == \A i \in DOMAIN q : \E j \in DOMAIN line : q[i] = line[j]
  <1>1. PICK h : TokenFold(h, line) /\ Tokens(line) = h[DOMAIN line]
    BY TokensIs
  <1>2. Len(line) \in Nat /\ DOMAIN line = 1 .. Len(line)
    OBVIOUS
  <1> DEFINE S == {k \in Nat : k <= Len(line) =>
                      \A s \in SUBSET (1 .. k) : h[s] \in Seq(Token) /\ From(h[s])}
  <1>3. 0 \in S
    <2>1. ASSUME NEW s \in SUBSET (1 .. 0) PROVE h[s] \in Seq(Token) /\ From(h[s])
      <3>1. s = {} /\ s \in SUBSET DOMAIN line
        OBVIOUS
      <3>2. h[s] = <<>>
        BY <1>1, <3>1 DEF TokenFold
      <3> QED
        BY <3>2
    <2> QED
      BY <2>1
  <1>4. ASSUME NEW k \in Nat, k \in S PROVE k + 1 \in S
    <2>1. ASSUME k + 1 <= Len(line), NEW s \in SUBSET (1 .. k + 1)
          PROVE  h[s] \in Seq(Token) /\ From(h[s])
      <3>1. k <= Len(line)
        BY <1>2, <2>1
      <3>2. CASE k + 1 \notin s
        <4>1. s \in SUBSET (1 .. k)
          BY <3>2
        <4> QED
          BY <1>4, <3>1, <4>1
      <3>3. CASE k + 1 \in s
        <4> DEFINE r == s \ {k + 1}
        <4>1. r \in SUBSET (1 .. k)
          OBVIOUS
        <4>2. h[r] \in Seq(Token) /\ From(h[r])
          BY <1>4, <3>1, <4>1
        <4>3. Max(s) = k + 1 /\ s \in SUBSET DOMAIN line /\ s # {}
          <5>1. Max(s) = k + 1
            BY <3>3, MaxTop
          <5>2. s \in SUBSET DOMAIN line
            BY <1>2, <2>1
          <5> QED
            BY <3>3, <5>1, <5>2
        <4>4. h[s] = IF line[k + 1] = <<>> THEN h[r] ELSE Append(h[r], line[k + 1])
          BY <1>1, <4>3, Zenon DEF TokenFold
        <4>5. k + 1 \in DOMAIN line /\ line[k + 1] \in Token
          BY <1>2, <2>1, ElementOfSeq
        <4>6. Append(h[r], line[k + 1]) \in Seq(Token) /\ From(Append(h[r], line[k + 1]))
          <5> DEFINE q == h[r]
          <5>1. q \in Seq(Token) /\ From(q)
            BY <4>2
          <5> HIDE DEF q
          <5>2. Append(q, line[k + 1]) \in Seq(Token) /\ From(Append(q, line[k + 1]))
            BY <4>5, <5>1
          <5> QED
            BY <5>2 DEF q
        <4> QED
          BY <4>2, <4>4, <4>6
      <3> QED
        BY <3>2, <3>3
    <2>2. k + 1 \in Nat
      OBVIOUS
    <2> QED
      BY <2>1, <2>2, Zenon
  <1>5. Len(line) \in S
    <2> HIDE DEF S
    <2> QED
      BY <1>2, <1>3, <1>4, Induction
  <1>6. h[DOMAIN line] \in Seq(Token) /\ From(h[DOMAIN line])
    BY <1>2, <1>5
  <1> QED
    BY <1>1, <1>6

-----------------------------------------------------------------------------
\* The command policy

\* The function taken of HasRmRecursiveForce exists.
Takes(f, tokens, n) ==
    f = [i \in 0 .. n |-> i > 1 /\ tokens[i - 1] = W("rm") /\ ~f[i - 1]]

\* Which tokens are the flags of an rm is a function of the place.
LEMMA TakesExists == ASSUME NEW tokens, NEW n \in Nat PROVE \E f : Takes(f, tokens, n)
  <1> DEFINE S == {k \in Nat : \E f : Takes(f, tokens, k)}
  <1>1. 0 \in S
    <2>1. \A i \in 0 .. 0 : ~ (i > 1)
      OBVIOUS
    <2> DEFINE f == [i \in 0 .. 0 |-> i > 1 /\ tokens[i - 1] = W("rm") /\ ~TRUE]
    <2>2. \A i \in 0 .. 0 : f[i] = (i > 1 /\ tokens[i - 1] = W("rm") /\ ~f[i - 1])
      BY <2>1, Zenon
    <2>3. Takes(f, tokens, 0)
      BY <2>2, Zenon DEF Takes
    <2> QED
      BY <2>3, Zenon
  <1>2. ASSUME NEW k \in Nat, k \in S PROVE k + 1 \in S
    <2> PICK e : Takes(e, tokens, k)
      BY <1>2
    <2> DEFINE f == [i \in 0 .. k + 1 |->
                        IF i = k + 1 THEN i > 1 /\ tokens[i - 1] = W("rm") /\ ~e[i - 1] ELSE e[i]]
    <2>1. ASSUME NEW i \in 0 .. k + 1
          PROVE  f[i] = (i > 1 /\ tokens[i - 1] = W("rm") /\ ~f[i - 1])
      <3>1. CASE i = k + 1
        <4>1. i > 1 => i - 1 \in 0 .. k /\ i - 1 \in 0 .. k + 1 /\ i - 1 # k + 1
          BY <3>1
        <4>2. i > 1 => f[i - 1] = e[i - 1]
          BY <4>1
        <4>3. f[i] = (i > 1 /\ tokens[i - 1] = W("rm") /\ ~e[i - 1])
          BY <3>1, Zenon
        <4> HIDE DEF f
        <4> QED
          BY <4>2, <4>3, Zenon
      <3>2. CASE i # k + 1
        <4>1. i \in 0 .. k /\ (i > 1 => i - 1 \in 0 .. k + 1 /\ i - 1 # k + 1)
          BY <3>2
        <4>2. e[i] = (i > 1 /\ tokens[i - 1] = W("rm") /\ ~e[i - 1])
          BY <4>1, Zenon DEF Takes
        <4>3. f[i] = e[i] /\ (i > 1 => f[i - 1] = e[i - 1])
          BY <3>2, <4>1, Zenon
        <4> HIDE DEF f
        <4> QED
          BY <4>2, <4>3, Zenon
      <3> QED
        BY <3>1, <3>2
    <2>2. Takes(f, tokens, k + 1)
      BY <2>1, Zenon DEF Takes
    <2>3. k + 1 \in Nat
      OBVIOUS
    <2> QED
      BY <2>2, <2>3, Zenon
  <1>3. n \in S
    <2> HIDE DEF S
    <2> QED
      BY <1>1, <1>2, Induction
  <1> QED
    BY <1>3

\* Only a line with an rm in it has flags of an rm.
LEMMA RmIsThere ==
    ASSUME NEW tokens, Len(tokens) \in Nat, HasRmRecursiveForce(tokens)
    PROVE  \E i \in 1 .. Len(tokens) : tokens[i] = W("rm")
  <1> DEFINE taken == CHOOSE f : Takes(f, tokens, Len(tokens))
  <1>1. Takes(taken, tokens, Len(tokens))
    BY TakesExists, Zenon
  <1>2. \E i \in 1 .. Len(tokens) : taken[i]
    BY Zenon DEF HasRmRecursiveForce, Takes
  <1>3. PICK i \in 1 .. Len(tokens) : taken[i]
    BY <1>2
  <1>4. i \in 0 .. Len(tokens)
    OBVIOUS
  <1>5. i > 1 /\ tokens[i - 1] = W("rm")
    BY <1>1, <1>3, <1>4, Zenon DEF Takes
  <1> QED
    BY <1>5

\* Each blocked pattern needs one of these words somewhere in a line.
Risky == {"rm", "del", "reg", "net", "sc", "sed", "perl", "invoke", "curl", "wget", "irm", "iwr", ">",
          "format", "shutdown", "reboot", "iex", "tee"}

\* A blocked line has a risky word in one of its tokens.
LEMMA BlockedHasRisky ==
    ASSUME NEW line \in Seq(Token), BlockedPattern(line)
    PROVE  \E i \in DOMAIN line : \E j \in DOMAIN line[i] : line[i][j] \in Risky
  <1> DEFINE tokens == Tokens(line)
             text   == Text(line)
             Has    == \E i \in DOMAIN line : \E j \in DOMAIN line[i] : line[i][j] \in Risky
  <1> SUFFICES Has
    OBVIOUS
  <1>1. tokens \in Seq(Token) /\ \A i \in DOMAIN tokens : \E j \in DOMAIN line : tokens[i] = line[j]
    BY TokensAreOfLine
  <1>2. ASSUME NEW i \in DOMAIN tokens, NEW j \in DOMAIN tokens[i], tokens[i][j] \in Risky PROVE Has
    BY <1>1, <1>2
  <1>3. ASSUME NEW w \in Risky, Word(text, w) PROVE Has
    <2>1. w # Blank
      BY Zenon DEF Risky, Blank
    <2> QED
      BY <1>3, <2>1, TextHasWords
  <1> HIDE DEF tokens, text, Has
  <1>4. Len(tokens) \in Nat /\ DOMAIN tokens = 1 .. Len(tokens)
    BY <1>1
  <1>5. ASSUME NEW i \in DOMAIN tokens, NEW w \in Risky, tokens[i] = W(w) PROVE Has
    <2>1. 1 \in DOMAIN tokens[i] /\ tokens[i][1] = w
      BY <1>5 DEF W
    <2> QED
      BY <1>2, <2>1
  <1>6. ASSUME NEW w \in Risky, NEW second, HasSequence(tokens, W(w), second) PROVE Has
    <2>1. PICK i \in 1 .. Len(tokens) - 1 : tokens[i] = W(w)
      BY <1>6 DEF HasSequence
    <2>2. i \in DOMAIN tokens
      BY <1>4, <2>1
    <2> QED
      BY <1>5, <2>1, <2>2
  <1>7. ASSUME NEW second, NEW third, HasHyphenated(tokens, <<"invoke", second, third>>) PROVE Has
    <2>1. PICK i \in 1 .. Len(tokens) : \E from \in 1 .. Len(tokens[i]) :
              PartAt(tokens[i], from, <<"invoke", second, third>>)
      BY <1>7 DEF HasHyphenated
    <2>2. PICK from \in 1 .. Len(tokens[i]) : PartAt(tokens[i], from, <<"invoke", second, third>>)
      BY <2>1
    <2>3. tokens[i] \in Token /\ DOMAIN tokens[i] = 1 .. Len(tokens[i])
      BY <1>1, <1>4, ElementOfSeq, LenProperties DEF Token
    <2>4. tokens[i][from] = "invoke"
      <3>1. tokens[i][from + 1 - 1] = "invoke"
        BY <2>2 DEF PartAt
      <3> QED
        BY <3>1
    <2> QED
      BY <1>2, <1>4, <2>3, <2>4 DEF Risky
  <1>8. /\ {"rm", "del", "reg", "net", "sc", "sed", "perl", ">"} \subseteq Risky
        /\ {"format", "shutdown", "reboot", "iex", "tee"} \subseteq Risky
        /\ Downloads \subseteq Risky
    BY DEF Risky, Downloads
  <1>9. CASE HasRmRecursiveForce(tokens)
    <2>1. PICK i \in 1 .. Len(tokens) : tokens[i] = W("rm")
      BY <1>4, <1>9, RmIsThere
    <2> QED
      BY <1>4, <1>5, <1>8, <2>1, Zenon
  <1>10. CASE HasDelete(tokens)
    <2>1. PICK flag : HasSequence(tokens, W("del"), flag)
      BY <1>10, Zenon DEF HasDelete
    <2> QED
      BY <1>6, <1>8, <2>1, Zenon
  <1>11. CASE \E pair \in {<<W("reg"), W("delete")>>, <<W("net"), W("user")>>,
                         <<W("sc"), W("delete")>>, <<W("sed"), <<"-", "i">>>>,
                         <<W("perl"), <<"-", "i">>>>} : HasSequence(tokens, pair[1], pair[2])
    <2>1. \E w \in {"reg", "net", "sc", "sed", "perl"} : \E second : HasSequence(tokens, W(w), second)
      BY <1>11
    <2> QED
      BY <1>6, <1>8, <2>1, Zenon
  <1>12. CASE HasDownloadPipe(tokens, text)
    <2>1. (\E w \in Downloads : Word(text, w)) \/ HasHyphenated(tokens, <<"invoke", "-", "webrequest">>)
      BY <1>12, Zenon DEF HasDownloadPipe
    <2> QED
      BY <1>3, <1>7, <1>8, <2>1, Zenon
  <1>13. CASE HasRedirection(text)
    <2>1. Word(text, ">")
      BY <1>13, Zenon DEF HasRedirection, Word
    <2> QED
      BY <1>3, <1>8, <2>1, Zenon
  <1>14. CASE HasHyphenated(tokens, <<"invoke", "-", "expression">>)
    BY <1>7, <1>14, Zenon
  <1>15. CASE \E w \in {"format", "shutdown", "reboot", "iex", "tee"} : Word(text, w)
    BY <1>3, <1>8, <1>15, Zenon
  <1> QED
    BY <1>9, <1>10, <1>11, <1>12, <1>13, <1>14, <1>15, Zenon DEF BlockedPattern, tokens, text

-----------------------------------------------------------------------------
\* The checks of a project

\* A command of one word is its own base name.
LEMMA BaseNameOfWord == ASSUME NEW w, w # "/" PROVE BaseName(<<w>>) = <<w>>
  <1> DEFINE cmd == <<w>>
  <1>1. Len(cmd) = 1 /\ cmd[1] = w
    OBVIOUS
  <1>2. {i \in 1..Len(cmd) : \A j \in i..Len(cmd) : cmd[j] # "/"} = {1}
    BY <1>1
  <1>3. Cardinality({1}) = 1
    BY FS_Singleton
  <1>4. SubSeq(cmd, 1, 1) = cmd
    <2>1. cmd \in Seq({w})
      OBVIOUS
    <2> HIDE DEF cmd
    <2> QED
      BY <1>1, <2>1, SubSeqFull
  <1>5. BaseName(cmd) = SubSeq(cmd, 1 + 1 - 1, 1)
    BY <1>1, <1>2, <1>3 DEF BaseName
  <1> QED
    BY <1>4, <1>5

\* What no pattern blocks is up to the mode's list.
LEMMA Admits ==
    ASSUME NEW w \in Atoms, w \notin Risky, w # "/", <<w>> \notin BlockedCommands,
           NEW args \in Seq(Token),
           \A i \in DOMAIN args : \A j \in DOMAIN args[i] : args[i][j] \notin Risky,
           NEW mode \in {"coding", "full"}, mode = "full" \/ CodingAllowed(<<w>>, args)
    PROVE  ProcessAllowed(<<w>>, args, mode)
  <1> DEFINE line == <<(<<w>>)>> \o args
  <1>1. line \in Seq(Token)
    <2>1. <<w>> \in Token
      BY DEF Token
    <2> QED
      BY <2>1
  <1>2. ASSUME NEW i \in DOMAIN line, NEW j \in DOMAIN line[i] PROVE line[i][j] \notin Risky
    <2>1. Len(args) \in Nat /\ DOMAIN args = 1 .. Len(args) /\ DOMAIN line = 1 .. Len(args) + 1
      OBVIOUS
    <2>2. CASE i = 1
      BY <2>2
    <2>3. CASE i # 1
      <3>1. i - 1 \in DOMAIN args /\ line[i] = args[i - 1]
        BY <2>1, <2>3
      <3> QED
        BY <3>1
    <2> QED
      BY <2>2, <2>3
  <1>3. ~BlockedPattern(line)
    BY <1>1, <1>2, BlockedHasRisky
  <1>4. <<w>> # <<>> /\ BaseName(<<w>>) = <<w>>
    BY BaseNameOfWord
  <1> HIDE DEF line
  <1>5. ProcessAllowed(<<w>>, args, mode) <=> (mode = "full" \/ CodingAllowed(<<w>>, args))
    BY <1>3, <1>4 DEF ProcessAllowed, line
  <1> QED
    BY <1>5

\* The lines of the checks: <<executable, arguments>>.
CargoArgs == {<<W("check")>>, <<W("test")>>, <<W("clippy"), <<"-", "-", "all", "-", "targets">>>>, <<W("build")>>}
Scripts == {W("check"), W("typecheck"), W("test"), W("lint"), W("build"), <<"type", "-", "check">>,
            <<"format", ":", "check">>, <<"fmt", ":", "check">>, <<"prettier", ":", "check">>}
DartFormat == <<W("format"), <<"-", "-", "output", "=", "none">>,
                <<"-", "-", "set", "-", "exit", "-", "if", "-", "changed">>, <<".">>>>

\* The scripts a Node project is asked for.
LEMMA ScriptsTried ==
    ASSUME NEW kind \in Kinds
    PROVE  /\ DOMAIN NodeCandidates(kind) \subseteq Nat
           /\ \A i \in DOMAIN NodeCandidates(kind) : NodeCandidates(kind)[i] \in Scripts
  <1>1. CASE kind = "auto"
    BY <1>1 DEF NodeCandidates, Scripts
  <1>2. CASE kind = "check"
    BY <1>2 DEF NodeCandidates, Scripts
  <1>3. CASE kind = "typecheck"
    BY <1>3 DEF NodeCandidates, Scripts
  <1>4. CASE kind = "format-check"
    BY <1>4 DEF NodeCandidates, Scripts
  <1>5. CASE kind \in {"test", "lint", "build"}
    BY <1>5 DEF NodeCandidates, Scripts
  <1> QED
    BY <1>1, <1>2, <1>3, <1>4, <1>5 DEF Kinds

\* The command lines a check may pick.
LEMMA ChecksChosen ==
    ASSUME NEW project, NEW kind \in Kinds, SelectCheck(project, kind).ok
    PROVE  LET cmd  == SelectCheck(project, kind).command
               args == SelectCheck(project, kind).args
           IN  \/ cmd = W("cargo") /\ (args \in CargoArgs \/ args = FmtCheck)
               \/ cmd = W("flutter") /\ args \in {<<W("test")>>, <<W("analyze")>>}
               \/ cmd = W("dart") /\ args = DartFormat
               \/ cmd = W("pytest") /\ args = <<>>
               \/ cmd = W("npm") /\ args = <<W("test")>>
               \/ cmd \in PackageManagers /\ \E script \in Scripts : args = <<W("run"), script>>
  <1> DEFINE check == SelectCheck(project, kind)
             type  == ProjectType(project.files)
  <1>1. CASE type = "rust"
    <2>1. check = Run("cargo", RustArgs(kind))
      BY <1>1 DEF SelectCheck
    <2>2. RustArgs(kind) \in CargoArgs \/ RustArgs(kind) = FmtCheck
      BY DEF RustArgs, CargoArgs, Kinds
    <2> QED
      BY <2>1, <2>2 DEF Run
  <1>2. CASE type = "flutter/dart"
    <2>1. check = FlutterCheck(kind)
      BY <1>2 DEF SelectCheck
    <2> QED
      BY <2>1 DEF FlutterCheck, Run, Refused, DartFormat, Kinds
  <1>3. CASE type = "node"
    <2> DEFINE found == {i \in DOMAIN NodeCandidates(kind) : NodeCandidates(kind)[i] \in project.scripts}
               script == NodeCandidates(kind)[Min(found)]
               manager == PackageManager(project.files)
    <2>1. check = NodeCheck(project, kind)
      BY <1>3 DEF SelectCheck
    <2>2. found # {}
      BY <2>1 DEF NodeCheck, Refused
    <2>3. script \in Scripts
      <3>1. found \subseteq Nat
        BY ScriptsTried
      <3>2. Min(found) \in found
        <4> HIDE DEF found
        <4> QED
          BY <2>2, <3>1, MinOf
      <3> QED
        BY <3>2, ScriptsTried
    <2>4. W(manager) \in PackageManagers
      BY DEF PackageManager, PackageManagers, W
    <2>5. check = (IF manager = "npm" /\ script = W("test") THEN Run("npm", <<W("test")>>)
                   ELSE Run(manager, <<W("run"), script>>))
      BY <2>1, <2>2 DEF NodeCheck, Refused
    <2> HIDE DEF script, manager
    <2> QED
      BY <2>3, <2>4, <2>5 DEF Run
  <1>4. CASE type = "python"
    BY <1>4 DEF SelectCheck, Run, Refused
  <1>5. CASE type \notin {"rust", "flutter/dart", "node", "python"}
    BY <1>5 DEF SelectCheck, Refused
  <1> QED
    BY <1>1, <1>2, <1>3, <1>4, <1>5

\* The words in them are none of the risky ones, but for format.
LEMMA WordsOfChecks ==
    /\ "cargo" \in CheckWords /\ "flutter" \in CheckWords /\ "dart" \in CheckWords
    /\ "pytest" \in CheckWords /\ "npm" \in CheckWords /\ "pnpm" \in CheckWords
    /\ "yarn" \in CheckWords /\ "run" \in CheckWords /\ "check" \in CheckWords
    /\ "typecheck" \in CheckWords /\ "test" \in CheckWords /\ "lint" \in CheckWords
    /\ "build" \in CheckWords /\ "type" \in CheckWords /\ "format" \in CheckWords
    /\ "fmt" \in CheckWords /\ "prettier" \in CheckWords /\ "clippy" \in CheckWords
    /\ "analyze" \in CheckWords /\ "all" \in CheckWords /\ "targets" \in CheckWords
    /\ "output" \in CheckWords /\ "none" \in CheckWords /\ "set" \in CheckWords
    /\ "exit" \in CheckWords /\ "if" \in CheckWords /\ "changed" \in CheckWords
    /\ "-" \in CheckWords /\ ":" \in CheckWords /\ "=" \in CheckWords
    /\ "." \in CheckWords
  BY DEF CheckWords

\* The words of the checks are atoms, and one of them is a token.
LEMMA CheckTokens ==
    /\ \A a \in CheckWords : a \in Atoms /\ W(a) \in Token
    /\ \A a, b, c \in CheckWords : <<a, b, c>> \in Token
    /\ <<"-", "-">> \in Token /\ <<"-", "-", "all", "-", "targets">> \in Token
  <1>1. \A a \in CheckWords : a \in Atoms
    BY DEF Atoms
  <1> QED
    BY <1>1, WordsOfChecks DEF Token, W

\* Their executables are base names that no list blocks.
LEMMA Executables ==
    \A w \in {"cargo", "flutter", "pytest", "npm", "pnpm", "yarn"} :
        w \in Atoms /\ w \notin Risky /\ w # "/" /\ <<w>> \notin BlockedCommands
  <1>1. ASSUME NEW w \in {"cargo", "flutter", "pytest", "npm", "pnpm", "yarn"}
        PROVE  w \in CheckWords /\ w \notin Risky /\ w # "/"
    BY DEF CheckWords, Risky
  <1>2. ASSUME NEW w \in {"cargo", "flutter", "pytest", "npm", "pnpm", "yarn"}
        PROVE  <<w>> \notin BlockedCommands
    <2>1. ASSUME NEW b, <<w>> = W(b) PROVE w = b
      BY <2>1 DEF W
    <2> QED
      BY <2>1 DEF BlockedCommands
  <1> QED
    BY <1>1, <1>2, CheckTokens

\* The arguments of cargo are tokens without a risky word.
LEMMA CargoTokens ==
    ASSUME NEW args, args \in CargoArgs \/ args = FmtCheck
    PROVE  /\ args \in Seq(Token)
           /\ \A i \in DOMAIN args : \A j \in DOMAIN args[i] : args[i][j] \notin Risky
           /\ CodingAllowed(W("cargo"), args)
  <1>1. ASSUME NEW w \in {"check", "test", "build"}, args = <<W(w)>>
        PROVE  args \in Seq(Token) /\ First(args) \in {W("check"), W("test"), W("build")}
    <2>1. W(w) \in Token
      BY WordsOfChecks, CheckTokens
    <2> QED
      BY <1>1, <2>1 DEF First
  <1>2. CASE args = <<W("clippy"), <<"-", "-", "all", "-", "targets">>>>
    <2>1. W("clippy") \in Token /\ <<"-", "-", "all", "-", "targets">> \in Token
      BY WordsOfChecks, CheckTokens
    <2>2. args \in Seq(Token) /\ First(args) = W("clippy")
      BY <1>2, <2>1 DEF First
    <2> QED
      BY <1>2, <2>2 DEF CodingAllowed, W, Risky
  <1>3. CASE args = FmtCheck
    <2>1. /\ W("fmt") \in Token /\ <<"-", "-", "all">> \in Token /\ <<"-", "-">> \in Token
          /\ <<"-", "-", "check">> \in Token
      BY WordsOfChecks, CheckTokens
    <2>2. args \in Seq(Token) /\ First(args) = W("fmt")
      BY <1>3, <2>1 DEF First, FmtCheck
    <2>3. CodingAllowed(W("cargo"), args)
      BY <2>2 DEF CodingAllowed
    <2>4. \A i \in DOMAIN args : \A j \in DOMAIN args[i] : args[i][j] \notin Risky
      BY <1>3 DEF FmtCheck, W, Risky
    <2> QED
      BY <2>2, <2>3, <2>4
  <1>4. CASE args \in {<<W("check")>>, <<W("test")>>, <<W("build")>>}
    <2>1. args \in Seq(Token) /\ First(args) \in {W("check"), W("test"), W("build")}
      BY <1>1, <1>4
    <2>2. CodingAllowed(W("cargo"), args)
      BY <2>1 DEF CodingAllowed
    <2>3. \A i \in DOMAIN args : \A j \in DOMAIN args[i] : args[i][j] \notin Risky
      BY <1>4 DEF W, Risky
    <2> QED
      BY <2>1, <2>2, <2>3
  <1> QED
    BY <1>2, <1>3, <1>4 DEF CargoArgs

\* So are the scripts.
LEMMA ScriptTokens ==
    ASSUME NEW script \in Scripts
    PROVE  /\ script \in Token
           /\ script # <<"format", ":", "check">> => \A j \in DOMAIN script : script[j] \notin Risky
           /\ script \notin {<<"format", ":", "check">>, <<"type", "-", "check">>} => SafeScript(script)
  <1>1. ASSUME NEW w \in {"check", "typecheck", "test", "lint", "build"}, script = W(w)
        PROVE  script \in Token /\ (\A j \in DOMAIN script : script[j] \notin Risky) /\ SafeScript(script)
    <2>1. script \in Token
      BY <1>1, WordsOfChecks, CheckTokens
    <2>2. Len(script) = 1 /\ script[1] = w /\ DOMAIN script = {1}
      BY <1>1 DEF W
    <2>3. w \notin Risky /\ w \notin Unsafe
      BY DEF Risky, Unsafe
    <2>4. SafeScript(script)
      BY <2>2, <2>3 DEF SafeScript
    <2> QED
      BY <2>1, <2>2, <2>3, <2>4
  <1>2. ASSUME NEW w \in {"fmt", "prettier", "format"}, script = <<w, ":", "check">>
        PROVE  /\ script \in Token
               /\ w # "format" => \A j \in DOMAIN script : script[j] \notin Risky
               /\ SafeScript(script)
    <2>1. script \in Token
      BY <1>2, WordsOfChecks, CheckTokens
    <2>2. /\ Len(script) = 3 /\ DOMAIN script = {1, 2, 3}
          /\ script[1] = w /\ script[2] = ":" /\ script[3] = "check"
      BY <1>2
    <2>3. {w, ":", "check"} \cap Unsafe = {} /\ (w # "format" => {w, ":", "check"} \cap Risky = {})
      BY DEF Risky, Unsafe
    <2>4. SafeScript(script)
      BY <2>2, <2>3 DEF SafeScript
    <2> QED
      BY <2>1, <2>2, <2>3, <2>4
  <1>3. CASE script = <<"type", "-", "check">>
    <2>1. script \in Token
      BY <1>3, WordsOfChecks, CheckTokens
    <2>2. DOMAIN script = {1, 2, 3} /\ script[1] = "type" /\ script[2] = "-" /\ script[3] = "check"
      BY <1>3
    <2>3. {"type", "-", "check"} \cap Risky = {}
      BY DEF Risky
    <2> QED
      BY <1>3, <2>1, <2>2, <2>3
  <1> QED
    BY <1>1, <1>2, <1>3 DEF Scripts

\* The word format is in a line one of whose tokens starts with it.
LEMMA FormatIsThere ==
    ASSUME NEW line \in Seq(Token), NEW i \in DOMAIN line, 1 \in DOMAIN line[i], line[i][1] = "format"
    PROVE  Word(Text(line), "format")
  <1>1. "format" # Blank
    BY Zenon DEF Blank
  <1> QED
    BY <1>1, TextHasWords

\* A check that is picked is admitted but for the two exceptions.
LEMMA PicksAdmitted ==
    ASSUME NEW project, NEW kind \in Kinds, SelectCheck(project, kind).ok,
           NEW mode \in {"coding", "full"}
    PROVE  LET cmd  == SelectCheck(project, kind).command
               args == SelectCheck(project, kind).args
           IN  \/ ProcessAllowed(cmd, args, mode)
               \/ Word(Text(<<cmd>> \o args), "format")
               \/ mode = "coding" /\ <<"type", "-", "check">> \in ToSet(<<cmd>> \o args)
  <1> DEFINE cmd  == SelectCheck(project, kind).command
             args == SelectCheck(project, kind).args
             Goal == \/ ProcessAllowed(cmd, args, mode)
                     \/ Word(Text(<<cmd>> \o args), "format")
                     \/ mode = "coding" /\ <<"type", "-", "check">> \in ToSet(<<cmd>> \o args)
  <1>1. \/ cmd = W("cargo") /\ (args \in CargoArgs \/ args = FmtCheck)
        \/ cmd = W("flutter") /\ args \in {<<W("test")>>, <<W("analyze")>>}
        \/ cmd = W("dart") /\ args = DartFormat
        \/ cmd = W("pytest") /\ args = <<>>
        \/ cmd = W("npm") /\ args = <<W("test")>>
        \/ cmd \in PackageManagers /\ \E script \in Scripts : args = <<W("run"), script>>
    BY ChecksChosen
  <1> SUFFICES Goal
    OBVIOUS
  <1> HIDE DEF cmd, args
  <1>2. CASE cmd = W("cargo") /\ (args \in CargoArgs \/ args = FmtCheck)
    <2>1. ProcessAllowed(<<"cargo">>, args, mode)
      BY <1>2, CargoTokens, Executables, Admits DEF W
    <2> QED
      BY <1>2, <2>1 DEF W
  <1>3. CASE cmd = W("flutter") /\ args \in {<<W("test")>>, <<W("analyze")>>}
    <2>1. PICK w \in {"test", "analyze"} : args = <<W(w)>>
      BY <1>3
    <2>2. W(w) \in Token /\ w \notin Risky
      BY WordsOfChecks, CheckTokens DEF Risky
    <2>3. args \in Seq(Token) /\ \A i \in DOMAIN args : \A j \in DOMAIN args[i] : args[i][j] \notin Risky
      BY <2>1, <2>2 DEF W
    <2>4. CodingAllowed(<<"flutter">>, args)
      BY <2>1 DEF CodingAllowed, First, W
    <2>5. ProcessAllowed(<<"flutter">>, args, mode)
      BY <2>3, <2>4, Executables, Admits
    <2> QED
      BY <1>3, <2>5 DEF W
  <1>4. CASE cmd = W("dart") /\ args = DartFormat
    <2> DEFINE line == <<cmd>> \o args
    <2>1. {"dart", "format", ".", "-", "output", "=", "none", "set", "exit", "if", "changed"} \subseteq Atoms
      BY WordsOfChecks, CheckTokens
    <2>2. cmd \in Token /\ args \in Seq(Token) /\ args[1] = <<"format">> /\ Len(args) = 4
      BY <1>4, <2>1 DEF DartFormat, Token, W
    <2>3. line \in Seq(Token) /\ 2 \in DOMAIN line /\ 1 \in DOMAIN line[2] /\ line[2][1] = "format"
      <3>1. line \in Seq(Token) /\ 2 \in DOMAIN line /\ line[2] = args[1]
        BY <2>2
      <3> QED
        BY <2>2, <3>1
    <2> HIDE DEF line
    <2>4. Word(Text(line), "format")
      BY <2>3, FormatIsThere
    <2> QED
      BY <2>4 DEF line
  <1>5. CASE cmd = W("pytest") /\ args = <<>>
    <2>1. args \in Seq(Token) /\ CodingAllowed(<<"pytest">>, args)
      BY <1>5 DEF CodingAllowed, ReviewAllowed, PackageManagers, W
    <2>2. DOMAIN args = {}
      BY <1>5
    <2>3. ProcessAllowed(<<"pytest">>, args, mode)
      BY <2>1, <2>2, Executables, Admits
    <2> QED
      BY <1>5, <2>3 DEF W
  <1>6. CASE cmd = W("npm") /\ args = <<W("test")>>
    <2>1. W("test") \in Token /\ "test" \notin Risky
      BY WordsOfChecks, CheckTokens DEF Risky
    <2>2. args \in Seq(Token) /\ \A i \in DOMAIN args : \A j \in DOMAIN args[i] : args[i][j] \notin Risky
      BY <1>6, <2>1 DEF W
    <2>3. CodingAllowed(<<"npm">>, args)
      BY <1>6 DEF CodingAllowed, PackageManagers, First, W
    <2>4. ProcessAllowed(<<"npm">>, args, mode)
      BY <2>2, <2>3, Executables, Admits
    <2> QED
      BY <1>6, <2>4 DEF W
  <1>7. ASSUME NEW w \in {"npm", "pnpm", "yarn"}, cmd = W(w),
               NEW script \in Scripts, args = <<W("run"), script>>
        PROVE  Goal
    <2> DEFINE line == <<cmd>> \o args
    <2>1. Len(args) = 2 /\ args[1] = W("run") /\ args[2] = script
      BY <1>7
    <2>2. W(w) \in Token /\ W("run") \in Token /\ "run" \notin Risky
      BY WordsOfChecks, CheckTokens DEF Risky
    <2>0. /\ args \in Seq(Token) /\ line \in Seq(Token) /\ DOMAIN line = {1, 2, 3}
          /\ line[3] = script
      <3>1. args \in Seq(Token)
        BY <1>7, <2>2, ScriptTokens
      <3> QED
        BY <1>7, <2>1, <2>2, <3>1
    <2>3. CASE script = <<"format", ":", "check">>
      <3> HIDE DEF line
      <3>1. line \in Seq(Token) /\ 3 \in DOMAIN line /\ 1 \in DOMAIN line[3] /\ line[3][1] = "format"
        BY <2>0, <2>3
      <3>2. Word(Text(line), "format")
        BY <3>1, FormatIsThere
      <3> QED
        BY <3>2 DEF line
    <2>4. CASE script = <<"type", "-", "check">> /\ mode = "coding"
      <3> HIDE DEF line
      <3>1. script \in ToSet(line)
        BY <2>0 DEF ToSet
      <3> QED
        BY <2>4, <3>1 DEF line
    <2>5. CASE script # <<"format", ":", "check">> /\ (script = <<"type", "-", "check">> => mode = "full")
      <3>1. /\ args \in Seq(Token) /\ Len(args) = 2 /\ DOMAIN args = {1, 2}
            /\ args[1] = W("run") /\ args[2] = script
        BY <2>0, <2>1
      <3>2. mode = "full" \/ SafeScript(script)
        BY <2>5, ScriptTokens
      <3>3. W(w) \in PackageManagers
        BY DEF PackageManagers
      <3>4. SafeScript(script) => CodingAllowed(W(w), args)
        BY <3>1, <3>3 DEF CodingAllowed, First
      <3>5. \A i \in DOMAIN args : \A j \in DOMAIN args[i] : args[i][j] \notin Risky
        <4>1. \A j \in DOMAIN W("run") : W("run")[j] \notin Risky
          BY <2>2 DEF W
        <4> QED
          BY <2>5, <3>1, <4>1, ScriptTokens
      <3>6. w \in Atoms /\ w # "/" /\ w \notin Risky /\ <<w>> \notin BlockedCommands
        BY Executables
      <3>7. ProcessAllowed(<<w>>, args, mode)
        BY <3>1, <3>2, <3>4, <3>5, <3>6, Admits DEF W
      <3> QED
        BY <1>7, <3>7 DEF W
    <2> QED
      BY <2>3, <2>4, <2>5
  <1>8. CASE cmd \in PackageManagers /\ \E script \in Scripts : args = <<W("run"), script>>
    <2>1. \E w \in {"npm", "pnpm", "yarn"} : cmd = W(w)
      BY <1>8 DEF PackageManagers
    <2> HIDE DEF Goal
    <2> QED
      BY <1>7, <1>8, <2>1, Zenon
  <1> HIDE DEF Goal
  <1> QED
    BY <1>1, <1>2, <1>3, <1>4, <1>5, <1>6, <1>8, Zenon

-----------------------------------------------------------------------------
\* The configuration

Loaded(c) ==
    /\ \A f \in DOMAIN Enums : c[f] \in ToSet(Enums[f])
    /\ \A f \in DOMAIN Integers32 : c[f] \in Nat \ {0}
    /\ c.port <= 65535
    /\ \A f \in Booleans : c[f] \in BOOLEAN

Reads(f, value) ==
    CASE f \in DOMAIN Enums      -> value.text
      [] f \in DOMAIN Integers32 -> value.number
      [] f \in DOMAIN Strings    -> value.text
      [] f \in DOMAIN Lists      -> IF value.items = <<>> THEN Lists[f] ELSE value.items
      [] f \in Booleans          -> ParseBoolean(value, FALSE)

\* What is said first of a list with one more value in front.
LEMMA PutFirst ==
    ASSUME NEW x, NEW n \in Nat, NEW S, NEW w \in [1 .. n -> S]
    PROVE  /\ DOMAIN (<<x>> \o w) = 1 .. n + 1
           /\ (<<x>> \o w)[1] = x
           /\ \A i \in 2 .. n + 1 : i - 1 \in 1 .. n /\ (<<x>> \o w)[i] = w[i - 1]
  <1> DEFINE T == S \cup {x}
  <1>1. w \in Seq(T) /\ Len(w) = n
    OBVIOUS
  <1>2. <<x>> \in Seq(T) /\ Len(<<x>>) = 1
    OBVIOUS
  <1> HIDE DEF T
  <1>3. /\ <<x>> \o w \in Seq(T) /\ Len(<<x>> \o w) = 1 + n
        /\ \A i \in 1 .. 1 + n : (<<x>> \o w)[i] = IF i <= 1 THEN <<x>>[i] ELSE w[i - 1]
    BY <1>1, <1>2, ConcatProperties
  <1> QED
    BY <1>3

\* A field has a few names in a file.
LEMMA NamesCount ==
    ASSUME NEW f PROVE \E n \in Nat : DOMAIN JsonNames(f) = 1 .. n
  <1>1. DOMAIN JsonNames(f) = 1 .. 1 \/ DOMAIN JsonNames(f) = 1 .. 2
    BY DEF JsonNames
  <1> QED
    BY <1>1

\* What the environment says is what is configured.
LEMMA EnvironmentFirst ==
    ASSUME NEW env, NEW file, NEW f, Says(env[f]) PROVE Configured(env, file, f) = env[f]
  <1> DEFINE w == Written(file, f)
             values == <<env[f]>> \o w
             said == {i \in DOMAIN values : Says(values[i])}
  <1>1. PICK n \in Nat : DOMAIN JsonNames(f) = 1 .. n
    BY NamesCount
  <1>2. w \in [1 .. n -> {InFile(file, f, JsonNames(f)[i]) : i \in 1 .. n}]
    BY <1>1 DEF Written
  <1> HIDE DEF w
  <1>3. DOMAIN values = 1 .. n + 1 /\ values[1] = env[f]
    BY <1>2, PutFirst
  <1> HIDE DEF values
  <1>4. 1 \in said /\ said \subseteq Nat /\ \A i \in said : 1 <= i
    BY <1>3
  <1> HIDE DEF said
  <1>5. Min(said) = 1
    <2>1. Min(said) \in said /\ \A y \in said : Min(said) <= y
      BY <1>4, MinOf
    <2>2. Min(said) \in Nat /\ 1 <= Min(said) /\ Min(said) <= 1
      BY <1>4, <2>1, Zenon
    <2> QED
      BY <2>2
  <1>6. Configured(env, file, f) = IF said = {} THEN Absent ELSE values[Min(said)]
    BY Zenon DEF Configured, FirstSaid, said, values, w
  <1> QED
    BY <1>3, <1>4, <1>5, <1>6

\* What is configured is absent, the environment's or some value of the file.
LEMMA ConfiguredIsOne ==
    ASSUME NEW env, NEW file, NEW f
    PROVE  \/ Configured(env, file, f) = Absent
           \/ Says(env[f]) /\ Configured(env, file, f) = env[f]
           \/ \E section \in DOMAIN file : \E name \in DOMAIN file[section] :
                Configured(env, file, f) = file[section][name]
  <1> DEFINE w == Written(file, f)
             values == <<env[f]>> \o w
             said == {i \in DOMAIN values : Says(values[i])}
  <1>1. PICK n \in Nat : DOMAIN JsonNames(f) = 1 .. n
    BY NamesCount
  <1>2. /\ w \in [1 .. n -> {InFile(file, f, JsonNames(f)[i]) : i \in 1 .. n}]
        /\ \A i \in 1 .. n : w[i] = InFile(file, f, JsonNames(f)[i])
    BY <1>1 DEF Written
  <1> HIDE DEF w
  <1>3. /\ DOMAIN values = 1 .. n + 1 /\ values[1] = env[f]
        /\ \A i \in 2 .. n + 1 : i - 1 \in 1 .. n /\ values[i] = w[i - 1]
    BY <1>2, PutFirst
  <1> HIDE DEF values
  <1>4. Configured(env, file, f) = IF said = {} THEN Absent ELSE values[Min(said)]
    BY Zenon DEF Configured, FirstSaid, values, w
  <1>5. CASE said # {}
    <2>1. said \subseteq Nat
      BY <1>3
    <2>2. Min(said) \in said
      <3> HIDE DEF said
      <3> QED
        BY <1>5, <2>1, MinOf
    <2>3. PICK k \in 1 .. n + 1 : k = Min(said) /\ Says(values[k])
      BY <1>3, <2>2
    <2>4. Configured(env, file, f) = values[k]
      BY <1>4, <1>5, <2>3
    <2>5. CASE k = 1
      BY <1>3, <2>3, <2>4, <2>5
    <2>6. CASE k # 1
      <3>1. PICK name : values[k] = InFile(file, f, name)
        <4>1. k \in 2 .. n + 1
          BY <2>6
        <4> QED
          BY <1>2, <1>3, <4>1
      <3>2. \/ values[k] = Absent
            \/ Section(f) \in DOMAIN file /\ name \in DOMAIN file[Section(f)]
               /\ values[k] = file[Section(f)][name]
        BY <3>1, Zenon DEF InFile
      <3> QED
        BY <2>4, <3>2, Zenon
    <2> QED
      BY <2>5, <2>6
  <1> QED
    BY <1>4, <1>5

\* A field is read by one parser.
LEMMA FieldsApart ==
    /\ \A f \in DOMAIN Enums : f \notin DOMAIN Integers32 \cup DOMAIN Strings \cup DOMAIN Lists \cup Booleans
    /\ \A f \in DOMAIN Integers32 : f \notin DOMAIN Strings \cup DOMAIN Lists \cup Booleans
    /\ \A f \in DOMAIN Strings : f \notin DOMAIN Lists \cup Booleans
    /\ \A f \in DOMAIN Lists : f \notin Booleans
  BY DEF Enums, Integers32, Strings, Lists, Booleans

\* The defaults are values the parsers accept.
LEMMA DefaultsTyped ==
    /\ \A f \in DOMAIN Enums : Enums[f][1] \in ToSet(Enums[f])
    /\ \A f \in DOMAIN Integers32 : Integers32[f] \in Nat \ {0}
    /\ "port" \in DOMAIN Integers32 /\ Integers32["port"] <= 65535
    /\ {"maxOutputBytes", "sqliteMaxRows"} \subseteq DOMAIN Integers32 /\ "accessMode" \in DOMAIN Enums
    /\ ToSet(Enums["accessMode"]) = Modes
  <1>1. /\ DOMAIN Enums = {"accessMode", "toolProfile", "searchProvider"}
        /\ Enums["accessMode"] = <<"review", "coding", "full">>
        /\ Enums["toolProfile"] = <<"legacy", "coding">>
        /\ Enums["searchProvider"] = <<"none", "searxng">>
    BY DEF Enums
  <1>2. /\ DOMAIN Integers32 = {"port", "codexMaxSessions", "codexRequestTimeoutMs", "maxReadBytes",
               "maxOutputBytes", "webMaxBytes", "webTimeoutMs", "sqliteMaxRows"}
        /\ Integers32["port"] = 3333
        /\ \A f \in DOMAIN Integers32 : Integers32[f] \in Nat \ {0}
    BY DEF Integers32
  <1>3. \A f \in DOMAIN Enums : 1 \in DOMAIN Enums[f]
    BY <1>1
  <1>4. ToSet(Enums["accessMode"]) = Modes
    BY <1>1 DEF ToSet, Modes
  <1>5. \A f \in DOMAIN Enums : Enums[f][1] \in ToSet(Enums[f])
    BY <1>3 DEF ToSet
  <1> QED
    BY <1>1, <1>2, <1>4, <1>5

\* A value that says something is there.
LEMMA SaidIsThere == ASSUME NEW value, Says(value) PROVE value.type # "absent" /\ value # Absent
  <1>1. Absent.type = "absent"
    BY Zenon DEF Absent, Value
  <1>2. value.type # "absent"
    BY Zenon DEF Says
  <1> QED
    BY <1>1, <1>2

\* A field whose value the environment says is what is read in it.
LEMMA FieldFromEnvironment ==
    ASSUME NEW env, NEW file, NEW f \in Fields, Says(env[f])
    PROVE  Field(env, file, f) = Reads(f, env[f])
  <1>1. Configured(env, file, f) = env[f] /\ env[f].type # "absent" /\ env[f] # Absent
    BY EnvironmentFirst, SaidIsThere
  <1>2. CASE f \in DOMAIN Enums
    BY <1>1, <1>2, FieldsApart DEF Field, Reads
  <1>3. CASE f \in DOMAIN Integers32
    BY <1>1, <1>3, FieldsApart DEF Field, Reads
  <1>4. CASE f \in DOMAIN Strings
    BY <1>1, <1>4, FieldsApart DEF Field, Reads
  <1>5. CASE f \in DOMAIN Lists
    BY <1>1, <1>5, FieldsApart DEF Field, Reads
  <1>6. CASE f \in Booleans
    <2>1. \A a, b \in BOOLEAN : ParseBoolean(env[f], a) = ParseBoolean(env[f], b)
      BY <1>1 DEF ParseBoolean
    <2>2. Reads(f, env[f]) = ParseBoolean(env[f], FALSE)
      BY <1>6, FieldsApart DEF Reads
    <2>3. Field(env, file, f) = ParseBoolean(env[f],
              (f = "codexBridge" /\ Configured(env, file, "toolProfile").text = "coding"))
      BY <1>1, <1>6, FieldsApart DEF Field
    <2> QED
      BY <2>1, <2>2, <2>3
  <1> QED
    BY <1>2, <1>3, <1>4, <1>5, <1>6 DEF Fields

\* A field read as a boolean is one.
LEMMA BooleansRead ==
    ASSUME NEW env, NEW file, NEW f \in Booleans PROVE Field(env, file, f) \in BOOLEAN
  <1>1. \A value : \A a \in BOOLEAN : ParseBoolean(value, a) \in BOOLEAN
    BY DEF ParseBoolean
  <1>2. Field(env, file, f) = ParseBoolean(Configured(env, file, f),
            (f = "codexBridge" /\ Configured(env, file, "toolProfile").text = "coding"))
    BY FieldsApart DEF Field
  <1> QED
    BY <1>1, <1>2

\* A configuration its parsers accept has the types a server counts on.
LEMMA LoadedWhenAccepted ==
    ASSUME NEW env \in Environments, NEW disk \in Disks,
           Loads(env, FileConfig(disk, ConfigPath(env))),
           Field(env, FileConfig(disk, ConfigPath(env)), "port") <= 65535
    PROVE  Loaded(Load(env, FileConfig(disk, ConfigPath(env))))
  <1> DEFINE file == FileConfig(disk, ConfigPath(env))
  <1>1. /\ \A f \in Fields : IsNumber(env[f])
        /\ \A section \in DOMAIN file : \A name \in DOMAIN file[section] : IsNumber(file[section][name])
    BY ValuesAssumption
  <1> HIDE DEF file
  <1>2. /\ DOMAIN Enums \subseteq Fields /\ DOMAIN Integers32 \subseteq Fields /\ Booleans \subseteq Fields
    BY DEF Fields
  <1>3. \A f \in DOMAIN Enums : Field(env, file, f) \in ToSet(Enums[f])
    BY DEF Loads, file
  <1>4. ASSUME NEW f \in DOMAIN Integers32 PROVE Field(env, file, f) \in Nat \ {0}
    <2>1. Configured(env, file, f) = Absent \/ IsNumber(Configured(env, file, f))
      BY <1>1, <1>2, ConfiguredIsOne
    <2>2. Field(env, file, f) = IF Configured(env, file, f) = Absent THEN Integers32[f]
                                ELSE Configured(env, file, f).number
      BY FieldsApart DEF Field
    <2>3. Field(env, file, f) >= 1
      BY DEF Loads, file
    <2> QED
      BY <2>1, <2>2, <2>3, DefaultsTyped DEF IsNumber, NoNumber
  <1>5. \A f \in Fields : Load(env, file)[f] = Field(env, file, f)
    BY DEF Load
  <1>6. Load(env, file).port <= 65535
    BY <1>2, <1>5, DefaultsTyped DEF file
  <1> QED
    BY <1>2, <1>3, <1>4, <1>5, <1>6, BooleansRead DEF Loaded, file

-----------------------------------------------------------------------------
\* The limits that are advertised and those that are enforced

\* The limits a handler enforces are the ones advertised, with three differences.
Agree(c, tool) ==
    \A arg \in DOMAIN Advertised(c)[tool] :
        LET l == Advertised(c)[tool][arg]
            k == Accepted(c)[tool][arg]
        IN  /\ {l.min, l.max, k.min, k.max} \subseteq Int
            /\ \/ k = l /\ (l.default = None \/ (l.min <= l.default /\ l.default <= l.max))
               \/ k = l /\ arg = "maxBytes" /\ c.maxOutputBytes < 1000
                  /\ tool \in {"run_project_command", "manage_process"}
               \/ /\ tool \in {"exec_process", "process_start"} /\ k.min = 1 /\ k.max = l.max
                  /\ l.min = 1000 /\ l.default = l.max /\ k.default = l.max /\ l.max >= 1
               \/ tool = "preview_edit" /\ l.default = None /\ k.default = None /\ k.min = l.min /\ k.max = 20

\* For every configuration a server can have, the two tables of limits agree.
LEMMA LimitsAgree ==
    ASSUME NEW c, Loaded(c) PROVE \A tool \in DOMAIN Advertised(c) : Agree(c, tool)
  <1>1. c.maxOutputBytes \in Nat \ {0} /\ c.sqliteMaxRows \in Nat \ {0}
    BY DefaultsTyped DEF Loaded
  <1>2. Agree(c, "search_files")
    BY <1>1 DEF Agree, Advertised, Accepted, SearchLimits, L, None, NoEnd
  <1>3. Agree(c, "find_files")
    BY <1>1 DEF Agree, Advertised, Accepted, FindLimits, L, None, NoEnd
  <1>4. Agree(c, "project_tree")
    BY <1>1 DEF Agree, Advertised, Accepted, TreeLimits, L, None, NoEnd
  <1>5. Agree(c, "git_diff")
    BY <1>1 DEF Agree, Advertised, Accepted, DiffLimits, L, None, NoEnd
  <1>6. Agree(c, "exec_process")
    BY <1>1 DEF Agree, Advertised, Accepted, ProcessLimits, L, None, NoEnd
  <1>7. Agree(c, "process_start")
    BY <1>1 DEF Agree, Advertised, Accepted, ProcessLimits, L, None, NoEnd
  <1>8. Agree(c, "open_project")
    BY <1>1 DEF Agree, Advertised, Accepted, OpenLimits, L, None, NoEnd
  <1>9. Agree(c, "search_code")
    BY <1>1 DEF Agree, Advertised, Accepted, CodeLimits, L, None, NoEnd
  <1>10. Agree(c, "read_files")
    BY <1>1 DEF Agree, Advertised, Accepted, ReadLimits, L, None, NoEnd
  <1>11. Agree(c, "apply_patch")
    BY <1>1 DEF Agree, Advertised, Accepted, PatchLimits, L, None, NoEnd
  <1>12. Agree(c, "preview_edit")
    BY <1>1 DEF Agree, Advertised, Accepted, PreviewLimits, L, None, NoEnd
  <1>13. Agree(c, "run_project_check")
    BY <1>1 DEF Agree, Advertised, Accepted, CheckLimits, L, None, NoEnd
  <1>14. Agree(c, "run_project_command")
    BY <1>1 DEF Agree, Advertised, Accepted, CommandLimits, L, None, NoEnd
  <1>15. Agree(c, "manage_process")
    BY <1>1 DEF Agree, Advertised, Accepted, ManageLimits, L, None, NoEnd
  <1>16. Agree(c, "sqlite_select")
    BY <1>1 DEF Agree, Advertised, Accepted, RowLimits, L, None, NoEnd
  <1>17. Agree(c, "web_search")
    BY <1>1 DEF Agree, Advertised, Accepted, WebLimits, L, None, NoEnd
  <1>18. Agree(c, "codex_read_response")
    BY <1>1 DEF Agree, Advertised, Accepted, WaitLimits, L, None, NoEnd
  <1>19. DOMAIN Advertised(c) =
           {"search_files", "find_files", "project_tree", "git_diff", "exec_process", "process_start",
            "open_project", "search_code", "read_files", "apply_patch", "preview_edit",
            "run_project_check", "run_project_command", "manage_process", "sqlite_select",
            "web_search", "codex_read_response"}
    BY DEF Advertised
  <1> QED
    BY <1>2, <1>3, <1>4, <1>5, <1>6, <1>7, <1>8, <1>9, <1>10, <1>11, <1>12, <1>13, <1>14, <1>15, <1>16,
       <1>17, <1>18, <1>19

\* The arguments of a tool are named in its schema.
LEMMA ArgumentsNamed ==
    ASSUME NEW c, NEW tool, Arguments(tool) # <<>>
    PROVE  /\ tool \in DOMAIN Advertised(c)
           /\ Len(Arguments(tool)) \in {1, 2} /\ DOMAIN Arguments(tool) = 1 .. Len(Arguments(tool))
           /\ \A i \in DOMAIN Arguments(tool) : Arguments(tool)[i] \in DOMAIN Advertised(c)[tool]
  <1>1. CASE tool = "search_files"
    BY <1>1 DEF Arguments, Advertised
  <1>2. CASE tool = "search_code"
    BY <1>2 DEF Arguments, Advertised
  <1>3. CASE tool = "find_files"
    BY <1>3 DEF Arguments, Advertised
  <1>4. CASE tool = "project_tree"
    BY <1>4 DEF Arguments, Advertised
  <1>5. CASE tool = "git_diff"
    BY <1>5 DEF Arguments, Advertised
  <1>6. CASE tool = "open_project"
    BY <1>6 DEF Arguments, Advertised
  <1>7. CASE tool = "read_files"
    BY <1>7 DEF Arguments, Advertised
  <1>8. CASE tool = "apply_patch"
    BY <1>8 DEF Arguments, Advertised
  <1>9. CASE tool = "preview_edit"
    BY <1>9 DEF Arguments, Advertised
  <1>10. CASE tool = "exec_process"
    BY <1>10 DEF Arguments, Advertised
  <1>11. CASE tool = "process_start"
    BY <1>11 DEF Arguments, Advertised
  <1>12. CASE tool = "run_project_command"
    BY <1>12 DEF Arguments, Advertised
  <1>13. CASE tool = "manage_process"
    BY <1>13 DEF Arguments, Advertised
  <1>14. CASE tool = "run_project_check"
    BY <1>14 DEF Arguments, Advertised
  <1>15. CASE tool = "sqlite_select"
    BY <1>15 DEF Arguments, Advertised
  <1>16. CASE tool = "web_search"
    BY <1>16 DEF Arguments, Advertised
  <1>17. CASE tool = "codex_read_response"
    BY <1>17 DEF Arguments, Advertised
  <1> QED
    BY <1>1, <1>2, <1>3, <1>4, <1>5, <1>6, <1>7, <1>8, <1>9, <1>10, <1>11, <1>12, <1>13, <1>14, <1>15, <1>16, <1>17 DEF Arguments

-----------------------------------------------------------------------------
\* What a call is refused for

\* A call has a number for each argument of its tool.
LEMMA ValuesFit ==
    ASSUME Loaded(config), NEW tool, NEW values \in Values(tool)
    PROVE  /\ values # <<>> => Arguments(tool) # <<>>
           /\ DOMAIN values = 1 .. Len(Arguments(tool)) /\ Len(Arguments(tool)) \in {0, 1, 2}
           /\ \A i \in DOMAIN values : values[i] \in Tried(tool, i) /\ values[i] \in Int
  <1>1. CASE Arguments(tool) = <<>>
    <2>1. Len(Arguments(tool)) = 0
      BY <1>1
    <2>2. values = <<>>
      BY <2>1 DEF Values
    <2> QED
      BY <2>1, <2>2
  <1>2. CASE Arguments(tool) # <<>>
    <2>1. /\ tool \in DOMAIN Advertised(config)
          /\ Len(Arguments(tool)) \in {1, 2} /\ DOMAIN Arguments(tool) = 1 .. Len(Arguments(tool))
          /\ \A i \in DOMAIN Arguments(tool) : Arguments(tool)[i] \in DOMAIN Advertised(config)[tool]
      BY <1>2, ArgumentsNamed
    <2>2. ASSUME NEW i \in DOMAIN Arguments(tool), NEW v \in Tried(tool, i) PROVE v \in Int
      <3> DEFINE l == Limit(Advertised(config), tool, i)
                 k == Limit(Accepted(config), tool, i)
      <3>1. {l.min, l.max, k.min, k.max} \subseteq Int
        BY <2>1, LimitsAgree DEF Agree, Limit
      <3> HIDE DEF l, k
      <3>2. v = None \/ \E m \in {l, k} : v \in {m.min - 1, m.min, m.max, m.max + 1}
        BY DEF Tried, l, k
      <3> QED
        BY <3>1, <3>2 DEF None
    <2>3. CASE Len(Arguments(tool)) = 1
      <3>1. PICK v \in Tried(tool, 1) : values = <<v>>
        BY <2>3 DEF Values
      <3> QED
        BY <1>2, <2>1, <2>2, <2>3, <3>1
    <2>4. CASE Len(Arguments(tool)) = 2
      <3>1. PICK v \in Tried(tool, 1), w \in Tried(tool, 2) : values = <<v, w>>
        BY <2>4 DEF Values
      <3> QED
        BY <1>2, <2>1, <2>2, <2>4, <3>1
    <2> QED
      BY <2>1, <2>3, <2>4
  <1> QED
    BY <1>1, <1>2

\* A call that is refused for its limits did not keep to the advertised ones, or is one of two
\* exceptions.
LEMMA RefusedForLimits ==
    ASSUME Loaded(config), NEW tool, NEW values \in Values(tool),
           ~AllWithin(Accepted(config), tool, values)
    PROVE  \/ \E i \in DOMAIN values : ~Kept(Limit(Advertised(config), tool, i), values[i])
           \/ tool = "preview_edit" /\ TooMany(values)
           \/ tool \in {"run_project_command", "manage_process"} /\ LittleOutput(config) /\ values[2] = None
  <1>1. PICK i \in DOMAIN values : ~Within(Limit(Accepted(config), tool, i), values[i])
    BY DEF AllWithin
  <1> DEFINE l == Limit(Advertised(config), tool, i)
             k == Limit(Accepted(config), tool, i)
             v == values[i]
  <1>2. /\ tool \in DOMAIN Advertised(config) /\ v \in Int
        /\ i \in DOMAIN Arguments(tool) /\ Arguments(tool)[i] \in DOMAIN Advertised(config)[tool]
    BY <1>1, ValuesFit, ArgumentsNamed
  <1>3. /\ {l.min, l.max, k.min, k.max} \subseteq Int
        /\ \/ k = l /\ (l.default = None \/ (l.min <= l.default /\ l.default <= l.max))
           \/ k = l /\ Arguments(tool)[i] = "maxBytes" /\ config.maxOutputBytes < 1000
              /\ tool \in {"run_project_command", "manage_process"}
           \/ /\ tool \in {"exec_process", "process_start"} /\ k.min = 1 /\ k.max = l.max
              /\ l.min = 1000 /\ l.default = l.max /\ k.default = l.max /\ l.max >= 1
           \/ tool = "preview_edit" /\ l.default = None /\ k.default = None /\ k.min = l.min /\ k.max = 20
    BY <1>2, LimitsAgree DEF Agree, Limit
  <1> HIDE DEF l, k, v
  <1>4. ~Within(k, v)
    BY <1>1 DEF k, v
  <1>5. CASE k = l /\ (l.default = None \/ (l.min <= l.default /\ l.default <= l.max))
    <2>1. ~Kept(l, v)
      BY <1>4, <1>5 DEF Within, Kept
    <2> QED
      BY <1>1, <2>1 DEF l, v
  <1>6. CASE k = l /\ Arguments(tool)[i] = "maxBytes" /\ config.maxOutputBytes < 1000
             /\ tool \in {"run_project_command", "manage_process"}
    <2>1. i = 2
      BY <1>2, <1>6 DEF Arguments
    <2>2. v # None => ~Kept(l, v)
      BY <1>4, <1>6 DEF Within, Kept
    <2> QED
      BY <1>1, <1>6, <2>1, <2>2 DEF l, v, LittleOutput
  <1>7. CASE tool \in {"exec_process", "process_start"} /\ k.min = 1 /\ k.max = l.max
             /\ l.min = 1000 /\ l.default = l.max /\ k.default = l.max /\ l.max >= 1
    <2>1. ~Kept(l, v)
      BY <1>2, <1>3, <1>4, <1>7 DEF Within, Kept, None
    <2> QED
      BY <1>1, <2>1 DEF l, v
  <1>8. CASE tool = "preview_edit" /\ l.default = None /\ k.default = None /\ k.min = l.min /\ k.max = 20
    <2>1. ~Kept(l, v) \/ v > 20
      BY <1>2, <1>3, <1>4, <1>8 DEF Within, Kept, None
    <2>2. i = 1
      BY <1>2, <1>8 DEF Arguments
    <2> QED
      BY <1>1, <1>8, <2>1, <2>2 DEF l, v, TooMany
  <1> QED
    BY <1>3, <1>5, <1>6, <1>7, <1>8

-----------------------------------------------------------------------------
\* The invariant

\* The configuration is one the parsers accept, and has what its environment says.
StartInv ==
    /\ server = [up |-> server.up, env |-> server.env, config |-> server.config]
    /\ server.up \in BOOLEAN /\ Loaded(config)
    /\ \A f \in Fields : Says(server.env[f]) => config[f] = Reads(f, server.env[f])

\* A reply comes from a tool of the list, and a command that ran was one the mode admits.
ReplyInv ==
    /\ reply.answer # "none" /\ reply.tool # "start" => reply.tool \in Listed(config)
    /\ reply.answer = "ran" =>
         \E cmd \in Token, args \in Seq(Token) :
            reply.line = <<cmd>> \o args /\ ProcessAllowed(cmd, args, config.accessMode)

\* The access mode is one of the three.
LEMMA ModeIsOne == ASSUME Loaded(config) PROVE config.accessMode \in Modes
  BY DefaultsTyped DEF Loaded

-----------------------------------------------------------------------------
\* What the calls answer

Asked(tool, values) == /\ server' = server /\ tool \in Listed(config) /\ values \in Values(tool)

\* Every handler answers for its tool, by one of these rules.
Answers(tool, values) ==
    /\ reply'.tool = tool /\ reply'.values = values
    /\ reply'.answer \notin {"none", "disabled"}
    /\ reply'.answer = "ran" =>
         \E cmd \in Token, args \in Seq(Token) :
            reply'.line = <<cmd>> \o args /\ ProcessAllowed(cmd, args, config.accessMode)
    /\ reply'.answer = "limits" =>
         \/ ~AllWithin(Accepted(config), tool, values)
         \/ ~KeptTo(tool, values, reply'.line)
         \/ Unadvertised(tool, values, reply'.line)
    /\ tool = "run_project_check" /\ reply'.answer = "not allowed" =>
         \/ config.accessMode = "review"
         \/ Word(Text(reply'.line), "format")
         \/ config.accessMode = "coding" /\ <<"type", "-", "check">> \in ToSet(reply'.line)

\* The optional tools are listed only when they are enabled.
LEMMA ListedIsEnabled ==
    /\ "codex_start_session" \in Listed(config) => config.codexBridge
    /\ "web_search" \in Listed(config) => config.webTools
    /\ "sqlite_select" \in Listed(config) => config.sqliteTools
    /\ "sqlite_preview_change" \in Listed(config) => config.sqliteTools
  BY DEF Listed, CoreTools, CodingTools, CodexTools, SqliteTools, WebTools

\* What each handler answers is one of the answers above.
LEMMA OfPlain ==
    ASSUME NEW tool, NEW values, PlainCall(tool, values) PROVE Answers(tool, values)
  <1>1. reply' = [tool |-> tool, values |-> values, line |-> <<>>,
                  answer |-> IF AllWithin(Accepted(config), tool, values) THEN "done" ELSE "limits"]
    BY DEF PlainCall, Answered
  <1> QED
    BY <1>1 DEF Answers

LEMMA OfSearch ==
    ASSUME NEW values, SearchCode(values) PROVE Answers("search_code", values)
  <1>1. PICK pattern \in {"", "x"} :
          reply' = [tool |-> "search_code", values |-> values, line |-> <<pattern>>,
                    answer |-> IF pattern # "" /\ AllWithin(Accepted(config), "search_code", values)
                               THEN "done" ELSE "limits"]
    BY Zenon DEF SearchCode, Answered
  <1>2. pattern = "" => Unadvertised("search_code", values, <<pattern>>)
    <2>1. <<pattern>>[1] = pattern
      OBVIOUS
    <2> QED
      BY <2>1, Zenon DEF Unadvertised
  <1> QED
    BY <1>1, <1>2 DEF Answers

LEMMA OfPreview ==
    ASSUME NEW values, PreviewEdit(values) PROVE Answers("preview_edit", values)
  <1>1. PICK b \in Changes(values) :
          reply' = [tool |-> "preview_edit", values |-> values, line |-> <<b>>,
                    answer |-> IF /\ AllWithin(Accepted(config), "preview_edit", values)
                                  /\ PreviewAccepted(b)
                               THEN "done" ELSE "limits"]
    BY Zenon DEF PreviewEdit, Answered
  <1>2. b.longest \in Nat /\ b.total \in Nat
    BY BatchesAssumption DEF Changes
  <1>3. ~PreviewAccepted(b) => TooLong(b)
    BY <1>2 DEF PreviewAccepted, TooLong
  <1>4. ~PreviewAccepted(b) => Unadvertised("preview_edit", values, <<b>>)
    <2>1. <<b>>[1] = b
      OBVIOUS
    <2> QED
      BY <1>3, <2>1, Zenon DEF Unadvertised
  <1> QED
    BY <1>1, <1>4 DEF Answers

LEMMA OfPatch ==
    ASSUME NEW values, ApplyPatch(values) PROVE Answers("apply_patch", values)
  <1>1. PICK b \in Changes(values) :
          reply' = [tool |-> "apply_patch", values |-> values, line |-> <<b>>,
                    answer |-> IF config.accessMode = "review" THEN "review"
                               ELSE IF /\ AllWithin(Accepted(config), "apply_patch", values)
                                       /\ PatchAccepted(b)
                               THEN "done" ELSE "limits"]
    BY Zenon DEF ApplyPatch, Answered
  <1>2. b.longest \in Nat /\ b.total \in Nat /\ b.kinds \subseteq EditKinds
    BY BatchesAssumption DEF Changes
  <1>3. b.kinds \subseteq AdvertisedEdits => b.kinds \subseteq AcceptedEdits
    BY DEF AcceptedEdits, AdvertisedEdits, EditKinds
  <1>4. ~PatchAccepted(b) => ~(b.kinds \subseteq AdvertisedEdits) \/ TooLong(b) \/ b.emptyAnchor
    BY <1>2, <1>3 DEF PatchAccepted, TooLong
  <1>5. ~PatchAccepted(b) => ~KeptTo("apply_patch", values, <<b>>) \/ Unadvertised("apply_patch", values, <<b>>)
    <2>1. <<b>>[1] = b
      OBVIOUS
    <2> QED
      BY <1>4, <2>1, Zenon DEF KeptTo, Unadvertised
  <1> QED
    BY <1>1, <1>5 DEF Answers

LEMMA OfPrompt ==
    ASSUME NEW tool \in {"codex_start_session", "codex_send_message"}, NEW values,
           Asked(tool, values), CodexPrompt(tool, values)
    PROVE  Answers(tool, values)
  <1>1. PICK p \in Prompts, mode \in {"review", "write", "other"} :
          reply' = [tool |-> tool, values |-> values, line |-> <<p, mode>>,
                    answer |-> IF tool = "codex_start_session" /\ ~config.codexBridge THEN "disabled"
                               ELSE IF /\ tool = "codex_start_session" => mode # "other"
                                       /\ PromptAccepted(tool, p)
                               THEN "done" ELSE "limits"]
    BY Zenon DEF CodexPrompt, Answered
  <1>2. ~(tool = "codex_start_session" /\ ~config.codexBridge)
    BY ListedIsEnabled DEF Asked
  <1>3. ~PromptAccepted(tool, p) => ~PromptAdvertised(tool, p) \/ p.blank \/ p.bytes > p.chars
    BY PromptsAssumption DEF PromptAccepted, PromptAdvertised
  <1>4. (tool = "codex_start_session" /\ mode = "other") \/ ~PromptAccepted(tool, p) =>
          ~KeptTo(tool, values, <<p, mode>>) \/ Unadvertised(tool, values, <<p, mode>>)
    <2>1. <<p, mode>>[1] = p /\ <<p, mode>>[2] = mode
      OBVIOUS
    <2> QED
      BY <1>3, <2>1, Zenon DEF KeptTo, Unadvertised
  <1> QED
    BY <1>1, <1>2, <1>4 DEF Answers

LEMMA OfWeb ==
    ASSUME NEW values, Asked("web_search", values), WebSearch(values) PROVE Answers("web_search", values)
  <1>1. config.webTools
    BY ListedIsEnabled DEF Asked
  <1> QED
    BY <1>1 DEF WebSearch, Answered, Answers

LEMMA OfSelect ==
    ASSUME NEW values, Asked("sqlite_select", values), SqliteSelect(values)
    PROVE  Answers("sqlite_select", values)
  <1>1. PICK path, sql :
          reply' = [tool |-> "sqlite_select", values |-> values, line |-> <<path, sql>>,
                    answer |-> IF AllWithin(Accepted(config), "sqlite_select", values) /\ sql # ""
                               THEN ResolveDb(path) ELSE "limits"]
    BY Zenon DEF SqliteSelect, Answered
  <1>2. ResolveDb(path) \in {"no database", "done"}
    BY ListedIsEnabled DEF Asked, ResolveDb
  <1>3. sql = "" => Unadvertised("sqlite_select", values, <<path, sql>>)
    <2>1. <<path, sql>>[2] = sql
      OBVIOUS
    <2> QED
      BY <2>1, Zenon DEF Unadvertised
  <1> QED
    BY <1>1, <1>2, <1>3 DEF Answers

LEMMA OfChange ==
    ASSUME NEW values, Asked("sqlite_preview_change", values), SqlitePreview(values)
    PROVE  Answers("sqlite_preview_change", values)
  <1>1. PICK path \in Paths, change \in RowChanges :
          reply' = [tool |-> "sqlite_preview_change", values |-> values, line |-> <<change, path>>,
                    answer |-> IF ~ChangeTaken(change) THEN "limits"
                               ELSE IF ResolveDb(path) # "done" THEN ResolveDb(path)
                               ELSE IF ChangeAccepted(change) THEN "done" ELSE "limits"]
    BY Zenon DEF SqlitePreview, Answered
  <1>2. ResolveDb(path) \in {"no database", "done"}
    BY ListedIsEnabled DEF Asked, ResolveDb
  <1>3. ~ChangeTaken(change) \/ ~ChangeAccepted(change) =>
          Unadvertised("sqlite_preview_change", values, <<change, path>>)
    <2>1. ~ChangeTaken(change) \/ ~ChangeAccepted(change) => TooMuch(change)
      BY RowChangesAssumption DEF ChangeTaken, ChangeAccepted, TooMuch
    <2>2. <<change, path>>[1] = change
      OBVIOUS
    <2> QED
      BY <2>1, <2>2, Zenon DEF Unadvertised
  <1> QED
    BY <1>1, <1>2, <1>3 DEF Answers

\* A check that is picked is a line of tokens.
LEMMA ChecksAreTokens ==
    ASSUME NEW project, NEW kind \in Kinds, SelectCheck(project, kind).ok
    PROVE  SelectCheck(project, kind).command \in Token /\ SelectCheck(project, kind).args \in Seq(Token)
  <1> DEFINE cmd  == SelectCheck(project, kind).command
             args == SelectCheck(project, kind).args
  <1>1. \/ cmd = W("cargo") /\ (args \in CargoArgs \/ args = FmtCheck)
        \/ cmd = W("flutter") /\ args \in {<<W("test")>>, <<W("analyze")>>}
        \/ cmd = W("dart") /\ args = DartFormat
        \/ cmd = W("pytest") /\ args = <<>>
        \/ cmd = W("npm") /\ args = <<W("test")>>
        \/ cmd \in PackageManagers /\ \E script \in Scripts : args = <<W("run"), script>>
    BY ChecksChosen
  <1> HIDE DEF cmd, args
  <1>2. /\ {W("cargo"), W("flutter"), W("dart"), W("pytest"), W("npm"), W("pnpm"), W("yarn")} \subseteq Token
        /\ {W("test"), W("analyze"), W("run")} \subseteq Token
    BY WordsOfChecks, CheckTokens
  <1>3. DartFormat \in Seq(Token)
    <2>1. {"format", ".", "-", "output", "=", "none", "set", "exit", "if", "changed"} \subseteq Atoms
      BY WordsOfChecks, CheckTokens
    <2> QED
      BY <2>1 DEF DartFormat, Token, W
  <1>4. cmd \in Token
    BY <1>1, <1>2 DEF PackageManagers
  <1>5. args \in Seq(Token)
    <2>1. CASE args \in CargoArgs \/ args = FmtCheck
      BY <2>1, CargoTokens
    <2>2. ASSUME NEW script \in Scripts, args = <<W("run"), script>> PROVE args \in Seq(Token)
      BY <1>2, <2>2, ScriptTokens
    <2>3. ASSUME NEW t \in Token, args = <<t>> PROVE args \in Seq(Token)
      BY <2>3
    <2>4. CASE args = <<>>
      BY <2>4
    <2> QED
      BY <1>1, <1>2, <1>3, <2>1, <2>2, <2>3, <2>4
  <1> QED
    BY <1>4, <1>5 DEF cmd, args

\* A check that is not allowed is one the policy makes an exception of (PicksAdmitted).
LEMMA OfCheck ==
    ASSUME Loaded(config), NEW values, RunProjectCheck(values) PROVE Answers("run_project_check", values)
  <1>1. PICK project \in Projects, kind \in Kinds :
          LET check == SelectCheck(project, kind) IN
          reply' = [tool |-> "run_project_check", values |-> values,
                    line |-> <<check.command>> \o check.args,
                    answer |-> IF ~AllWithin(Accepted(config), "run_project_check", values) THEN "limits"
                               ELSE IF ~check.ok THEN "no check"
                               ELSE IF ProcessAllowed(check.command, check.args, config.accessMode)
                               THEN "ran" ELSE "not allowed"]
    BY DEF RunProjectCheck, Answered
  <1> DEFINE check == SelectCheck(project, kind)
  <1>2. config.accessMode \in {"review", "coding", "full"}
    BY ModeIsOne DEF Modes
  <1>3. ASSUME check.ok, config.accessMode # "review"
        PROVE  \/ ProcessAllowed(check.command, check.args, config.accessMode)
               \/ Word(Text(<<check.command>> \o check.args), "format")
               \/ config.accessMode = "coding"
                  /\ <<"type", "-", "check">> \in ToSet(<<check.command>> \o check.args)
    BY <1>2, <1>3, PicksAdmitted
  <1>4. check.ok => check.command \in Token /\ check.args \in Seq(Token)
    BY ChecksAreTokens
  <1> HIDE DEF check
  <1> QED
    BY <1>1, <1>3, <1>4 DEF Answers, check

\* A line is a command and its arguments.
LEMMA OfLine ==
    ASSUME NEW line \in Lines PROVE line[1] \in Token /\ line[2] \in Seq(Token)
  BY LinesAssumption, WordsAreTokens

LEMMA OfCommand ==
    ASSUME NEW values, RunProjectCommand(values) PROVE Answers("run_project_command", values)
  <1>1. PICK line \in Lines :
          reply' = [tool |-> "run_project_command", values |-> values, line |-> <<line[1]>> \o line[2],
                    answer |->
                      IF ~AllWithin(Accepted(config), "run_project_command", values) THEN "limits"
                      ELSE IF config.codexBridge /\ IsCodex(line[1])
                      THEN IF LegacyAccepts(line[2]) THEN "delegated" ELSE "not accepted"
                      ELSE IF ProcessAllowed(line[1], line[2], config.accessMode) THEN "ran" ELSE "not allowed"]
    BY Zenon DEF RunProjectCommand, Answered
  <1> DEFINE all == <<line[1]>> \o line[2]
  <1>2. line[1] \in Token /\ line[2] \in Seq(Token) /\ all = <<line[1]>> \o line[2]
    BY OfLine
  <1> HIDE DEF all
  <1>3. /\ reply'.tool = "run_project_command" /\ reply'.values = values /\ reply'.line = all
        /\ reply'.answer \notin {"none", "disabled"}
        /\ reply'.answer = "ran" => ProcessAllowed(line[1], line[2], config.accessMode)
        /\ reply'.answer = "limits" => ~AllWithin(Accepted(config), "run_project_command", values)
    BY <1>1 DEF all
  <1> QED
    BY <1>2, <1>3 DEF Answers

LEMMA OfManaged ==
    ASSUME NEW values, ManageProcess(values) PROVE Answers("manage_process", values)
  <1>1. PICK line \in Lines :
          reply' = [tool |-> "manage_process", values |-> values, line |-> <<line[1]>> \o line[2],
                    answer |->
                      IF ~AllWithin(Accepted(config), "manage_process", values) THEN "limits"
                      ELSE IF ProcessAllowed(line[1], line[2], config.accessMode) THEN "ran" ELSE "not allowed"]
    BY Zenon DEF ManageProcess, Answered
  <1> DEFINE all == <<line[1]>> \o line[2]
  <1>2. line[1] \in Token /\ line[2] \in Seq(Token) /\ all = <<line[1]>> \o line[2]
    BY OfLine
  <1> HIDE DEF all
  <1>3. /\ reply'.tool = "manage_process" /\ reply'.values = values /\ reply'.line = all
        /\ reply'.answer \notin {"none", "disabled"}
        /\ reply'.answer = "ran" => ProcessAllowed(line[1], line[2], config.accessMode)
        /\ reply'.answer = "limits" => ~AllWithin(Accepted(config), "manage_process", values)
    BY <1>1 DEF all
  <1> QED
    BY <1>2, <1>3 DEF Answers

LEMMA OfProcess ==
    ASSUME NEW tool \in {"exec_process", "process_start"}, NEW values, ExecProcess(tool, values)
    PROVE  Answers(tool, values)
  <1>1. PICK line \in Lines :
          reply' = [tool |-> tool, values |-> values, line |-> <<line[1]>> \o line[2],
                    answer |->
                      IF ~ProcessAllowed(line[1], line[2], config.accessMode) THEN "not allowed"
                      ELSE IF AllWithin(Accepted(config), tool, values) THEN "ran" ELSE "limits"]
    BY Zenon DEF ExecProcess, Answered
  <1> DEFINE all == <<line[1]>> \o line[2]
  <1>2. line[1] \in Token /\ line[2] \in Seq(Token) /\ all = <<line[1]>> \o line[2]
    BY OfLine
  <1> HIDE DEF all
  <1>3. /\ reply'.tool = tool /\ reply'.values = values /\ reply'.line = all
        /\ reply'.answer \notin {"none", "disabled"}
        /\ reply'.answer = "ran" => ProcessAllowed(line[1], line[2], config.accessMode)
        /\ reply'.answer = "limits" => ~AllWithin(Accepted(config), tool, values)
    BY <1>1 DEF all
  <1> QED
    BY <1>2, <1>3 DEF Answers

\* So a call answers for a tool of the list.
LEMMA OfCall ==
    ASSUME Loaded(config), NEW tool, Call(tool)
    PROVE  \E values \in Values(tool) : Asked(tool, values) /\ Answers(tool, values)
  <1>1. PICK values \in Values(tool) :
          \/ tool \in Plain /\ PlainCall(tool, values)
          \/ tool = "search_code"         /\ SearchCode(values)
          \/ tool = "preview_edit"        /\ PreviewEdit(values)
          \/ tool = "apply_patch"         /\ ApplyPatch(values)
          \/ tool \in {"codex_start_session", "codex_send_message"} /\ CodexPrompt(tool, values)
          \/ tool = "web_search"          /\ WebSearch(values)
          \/ tool = "sqlite_select"       /\ SqliteSelect(values)
          \/ tool = "sqlite_preview_change" /\ SqlitePreview(values)
          \/ tool = "run_project_check"   /\ RunProjectCheck(values)
          \/ tool = "run_project_command" /\ RunProjectCommand(values)
          \/ tool = "manage_process"      /\ ManageProcess(values)
          \/ tool \in {"exec_process", "process_start"} /\ ExecProcess(tool, values)
    BY Zenon DEF Call
  <1>2. Asked(tool, values)
    BY Zenon DEF Call, Asked
  <1>3. Answers(tool, values)
    BY <1>1, <1>2, OfPlain, OfSearch, OfPreview, OfPatch, OfPrompt, OfWeb, OfSelect, OfChange,
       OfCheck, OfCommand, OfManaged, OfProcess, Zenon
  <1> QED
    BY <1>2, <1>3

-----------------------------------------------------------------------------
\* Start, Stop and the calls keep the invariant

Unset == [f \in Fields \cup {"CTM_CONFIG_PATH", "CONFIG_PATH"} |-> IF f \in Fields THEN Absent ELSE ""]

\* A server that was never started has the defaults.
LEMMA InitStart == ASSUME Init PROVE StartInv /\ ReplyInv
  <1>1. server = [up |-> FALSE, env |-> Unset, config |-> Load(Unset, <<>>)] /\ reply = Nothing
    BY Zenon DEF Init, Unset
  <1>2. ~Says(Absent)
    BY Zenon DEF Says, Absent, Value
  <1>3. \A f \in Fields : Unset[f] = Absent
    BY Zenon DEF Unset
  <1>4. \A f \in Fields : Configured(Unset, <<>>, f) = Absent
    <2>1. DOMAIN <<>> = {}
      OBVIOUS
    <2> QED
      BY <1>2, <1>3, <2>1, ConfiguredIsOne, Zenon
  <1>5. DOMAIN Enums \subseteq Fields /\ DOMAIN Integers32 \subseteq Fields /\ Booleans \subseteq Fields
    BY DEF Fields
  <1>6. \A f \in DOMAIN Enums : Field(Unset, <<>>, f) = Enums[f][1]
    BY <1>4, <1>5, FieldsApart DEF Field
  <1>7. \A f \in DOMAIN Integers32 : Field(Unset, <<>>, f) = Integers32[f]
    BY <1>4, <1>5, FieldsApart DEF Field
  <1>8. \A f \in Fields : config[f] = Field(Unset, <<>>, f)
    BY <1>1 DEF config, Load
  <1>9. Loaded(config)
    BY <1>5, <1>6, <1>7, <1>8, DefaultsTyped, BooleansRead DEF Loaded
  <1>10. StartInv
    BY <1>1, <1>2, <1>3, <1>9 DEF StartInv
  <1>11. ReplyInv
    <2>1. reply.answer = "none"
      BY <1>1, Zenon DEF Nothing
    <2> QED
      BY <2>1 DEF ReplyInv
  <1> QED
    BY <1>10, <1>11

\* A start reads and accepts its configuration, or fails and leaves the server as it was.
LEMMA StartKeeps ==
    ASSUME StartInv, Start
    PROVE  StartInv' /\ (reply' = Nothing \/ (reply'.tool = "start" /\ reply'.answer = "failed"))
  <1>1. PICK env \in Environments, disk \in Disks :
          LET path == ConfigPath(env)
              file == FileConfig(disk, path)
          IN  IF FileReads(disk, path) /\ Loads(env, file) /\ Field(env, file, "port") <= 65535
              THEN server' = [up |-> TRUE, env |-> env, config |-> Load(env, file)] /\ reply' = Nothing
              ELSE Answered("start", <<>>, <<>>, "failed") /\ UNCHANGED server
    BY DEF Start
  <1> DEFINE file == FileConfig(disk, ConfigPath(env))
  <1>2. CASE /\ Loads(env, file) /\ Field(env, file, "port") <= 65535
             /\ server' = [up |-> TRUE, env |-> env, config |-> Load(env, file)] /\ reply' = Nothing
    <2>1. config' = Load(env, file) /\ server'.env = env /\ server'.up = TRUE
      BY <1>2 DEF config
    <2>2. Loaded(config')
      BY <1>2, <2>1, LoadedWhenAccepted
    <2>3. \A f \in Fields : Says(env[f]) => config'[f] = Reads(f, env[f])
      BY <2>1, FieldFromEnvironment DEF Load
    <2>4. server' = [up |-> server'.up, env |-> server'.env, config |-> server'.config]
      BY <1>2
    <2> QED
      <3>1. StartInv'
        BY <2>1, <2>2, <2>3, <2>4 DEF StartInv
      <3> QED
        BY <1>2, <3>1
  <1>3. CASE Answered("start", <<>>, <<>>, "failed") /\ UNCHANGED server
    <2>1. StartInv'
      BY <1>3 DEF StartInv, config
    <2> QED
      BY <1>3, <2>1 DEF Answered
  <1> QED
    BY <1>1, <1>2, <1>3

\* A stop keeps environment and configuration, for the next start to be compared with.
LEMMA StopKeeps == ASSUME StartInv, Stop PROVE StartInv' /\ reply' = Nothing
  <1>1. /\ reply' = Nothing /\ server' = [server EXCEPT !.up = FALSE]
        /\ server = [up |-> server.up, env |-> server.env, config |-> server.config]
    BY Zenon DEF Stop, StartInv
  <1>2. server' = [up |-> FALSE, env |-> server.env, config |-> server.config]
    BY <1>1
  <1>3. server'.up = FALSE /\ server'.env = server.env /\ config' = config
    BY <1>2 DEF config
  <1> QED
    BY <1>1, <1>2, <1>3 DEF StartInv

\* A step leaves no answer, one of a start that failed, or one of a call to the server as it is.
LEMMA StepOf ==
    ASSUME StartInv, [Next]_vars
    PROVE  /\ StartInv'
           /\ \/ reply' = Nothing
              \/ reply'.tool = "start" /\ reply'.answer = "failed"
              \/ UNCHANGED vars
              \/ \E tool \in Tools : \E values \in Values(tool) : Asked(tool, values) /\ Answers(tool, values)
  <1>1. CASE Start
    BY <1>1, StartKeeps
  <1>2. CASE Stop
    BY <1>2, StopKeeps
  <1>3. CASE Taken
    BY <1>3 DEF Taken, StartInv, config
  <1>4. ASSUME NEW tool \in Tools, Call(tool)
        PROVE  /\ StartInv'
               /\ \E values \in Values(tool) : Asked(tool, values) /\ Answers(tool, values)
    <2>1. Loaded(config)
      BY DEF StartInv
    <2>2. PICK values \in Values(tool) : Asked(tool, values) /\ Answers(tool, values)
      BY <1>4, <2>1, OfCall
    <2>3. StartInv'
      BY <2>2 DEF Asked, StartInv, config
    <2> QED
      BY <2>2, <2>3
  <1>5. CASE UNCHANGED vars
    BY <1>5 DEF vars, StartInv, config
  <1> QED
    BY <1>1, <1>2, <1>3, <1>4, <1>5 DEF Next

\* No answer, and no tool.
LEMMA NothingSaid == Nothing.answer = "none" /\ Nothing.tool = "none"
  BY Zenon DEF Nothing

\* The reply keeps its half of the invariant.
LEMMA ReplyStays == ASSUME StartInv, ReplyInv, [Next]_vars PROVE ReplyInv'
  <1>1. CASE reply' = Nothing
    BY <1>1, NothingSaid DEF ReplyInv
  <1>2. CASE reply'.tool = "start" /\ reply'.answer = "failed"
    BY <1>2 DEF ReplyInv
  <1>3. CASE UNCHANGED vars
    BY <1>3 DEF vars, ReplyInv, config
  <1>4. ASSUME NEW tool \in Tools, NEW values \in Values(tool), Asked(tool, values), Answers(tool, values)
        PROVE  ReplyInv'
    <2>1. config' = config /\ tool \in Listed(config) /\ reply'.tool = tool
      BY <1>4 DEF Asked, Answers, config
    <2>2. reply'.answer = "ran" =>
             \E cmd \in Token, args \in Seq(Token) :
                reply'.line = <<cmd>> \o args /\ ProcessAllowed(cmd, args, config.accessMode)
      BY <1>4, Zenon DEF Answers
    <2> QED
      BY <2>1, <2>2, Zenon DEF ReplyInv
  <1> QED
    BY <1>1, <1>2, <1>3, <1>4, StepOf

\* Whatever environment and file a server starts from (src/config.rs), it has a configuration
\* its parsers accept, and a command ran only if the mode admits it (src/process/runner.rs).
THEOREM Started == Spec => [](StartInv /\ ReplyInv)
  <1>1. Init => StartInv /\ ReplyInv
    BY InitStart
  <1>2. StartInv /\ ReplyInv /\ [Next]_vars => (StartInv /\ ReplyInv)'
    BY StepOf, ReplyStays
  <1> QED
    BY <1>1, <1>2, PTL DEF Spec

\* The values the rest of the server reads (src/config.rs) have the types and bounds it counts on.
THEOREM TypeCorrect == Spec => []TypeOK
  <1>1. StartInv /\ ReplyInv => TypeOK
    <2>1. StartInv => DOMAIN server = {"up", "env", "config"}
      BY DEF StartInv
    <2> QED
      BY <2>1 DEF StartInv, ReplyInv, Loaded, TypeOK
  <1> QED
    BY <1>1, Started, PTL

\* The environment wins over the config file (configured, src/config.rs): two starts that agree
\* on a variable agree on its field.
THEOREM EnvironmentKept == Spec => EnvironmentWins
  <1>1. ASSUME StartInv, StartInv', [Next]_vars
        PROVE  [\A f \in Fields :
                  /\ server'.up /\ ~server.up
                  /\ Says(server.env[f]) /\ server'.env[f] = server.env[f]
                  => server'.config[f] = server.config[f]]_vars
    BY <1>1, Zenon DEF StartInv, config
  <1> QED
    BY <1>1, Started, PTL DEF Spec, EnvironmentWins

\* A line apart into its command and arguments.
LEMMA LineOf ==
    ASSUME NEW cmd \in Token, NEW args \in Seq(Token)
    PROVE  Head(<<cmd>> \o args) = cmd /\ Tail(<<cmd>> \o args) = args
  OBVIOUS

\* What review mode admits coding mode does, except a script a package manager runs.
LEMMA ReviewIsCoding ==
    ASSUME NEW exe, NEW args, ReviewAllowed(exe, args)
    PROVE  CodingAllowed(exe, args) \/ (exe \in PackageManagers /\ First(args) = W("run"))
  <1>1. CASE exe \notin PackageManagers
    BY <1>1, Zenon DEF CodingAllowed
  <1>2. CASE exe \in PackageManagers
    <2>1. exe # W("git") /\ exe \notin {W(w) : w \in {"node", "python", "python3", "py"}}
      BY <1>2 DEF PackageManagers, W
    <2>2. exe \notin {W("pytest"), W("rg"), W("grep"), W("where")}
      BY <1>2 DEF PackageManagers, W
    <2>3. First(args) \in {W("test"), W("run")}
      BY <2>1, <2>2, Zenon DEF ReviewAllowed
    <2> QED
      BY <1>2, <2>3, Zenon DEF CodingAllowed
  <1> QED
    BY <1>1, <1>2

\* And so does the policy as a whole, with its blocked commands and patterns.
LEMMA ModesWiden ==
    ASSUME NEW cmd, NEW args, NEW mode \in Modes, ProcessAllowed(cmd, args, mode)
    PROVE  /\ ProcessAllowed(cmd, args, "full")
           /\ mode = "review" =>
                \/ ProcessAllowed(cmd, args, "coding")
                \/ BaseName(cmd) \in PackageManagers /\ First(args) = W("run")
  <1>1. cmd # <<>> /\ BaseName(cmd) \notin BlockedCommands /\ ~BlockedPattern(<<cmd>> \o args)
    BY Zenon DEF ProcessAllowed
  <1>2. ProcessAllowed(cmd, args, "full")
    BY <1>1 DEF ProcessAllowed
  <1>3. ASSUME mode = "review" PROVE ReviewAllowed(BaseName(cmd), args)
    BY <1>3 DEF ProcessAllowed
  <1>4. ReviewAllowed(BaseName(cmd), args) =>
          \/ CodingAllowed(BaseName(cmd), args)
          \/ BaseName(cmd) \in PackageManagers /\ First(args) = W("run")
    BY ReviewIsCoding
  <1>5. CodingAllowed(BaseName(cmd), args) => ProcessAllowed(cmd, args, "coding")
    BY <1>1 DEF ProcessAllowed
  <1> QED
    BY <1>2, <1>3, <1>4, <1>5

\* A command that ran in one access mode runs in the wider ones (assert_process_allowed,
\* src/process/runner.rs), but for the scripts of a package manager.
THEOREM ModesNest == Spec => []ModesNested
  <1>1. StartInv /\ ReplyInv => ModesNested
    <2> SUFFICES ASSUME StartInv, ReplyInv, reply.answer = "ran"
                 PROVE  /\ ProcessAllowed(Head(reply.line), Tail(reply.line), "full")
                        /\ config.accessMode = "review" =>
                             \/ ProcessAllowed(Head(reply.line), Tail(reply.line), "coding")
                             \/ /\ BaseName(Head(reply.line)) \in PackageManagers
                                /\ First(Tail(reply.line)) = W("run")
      BY DEF ModesNested
    <2>1. PICK cmd \in Token, args \in Seq(Token) :
            reply.line = <<cmd>> \o args /\ ProcessAllowed(cmd, args, config.accessMode)
      BY DEF ReplyInv
    <2>2. Head(reply.line) = cmd /\ Tail(reply.line) = args
      BY <2>1, LineOf
    <2>3. config.accessMode \in Modes
      BY ModeIsOne DEF StartInv
    <2> QED
      BY <2>1, <2>2, <2>3, ModesWiden
  <1> QED
    BY <1>1, Started, PTL

-----------------------------------------------------------------------------
\* The answers of the handlers

\* Outside review mode run_project_check is not refused the command it picks (src/project.rs,
\* src/process/runner.rs), unless the word format is in it or coding mode gets type-check.
THEOREM ChecksAdmit == Spec => []ChecksAdmitted
  <1>1. Init => ChecksAdmitted
    <2>1. Init => reply = Nothing
      BY Zenon DEF Init
    <2> QED
      BY <2>1, NothingSaid DEF ChecksAdmitted
  <1>2. ASSUME StartInv, ChecksAdmitted, [Next]_vars PROVE ChecksAdmitted'
    <2>1. CASE reply' = Nothing
      BY <2>1, NothingSaid DEF ChecksAdmitted
    <2>2. CASE reply'.tool = "start" /\ reply'.answer = "failed"
      BY <2>2 DEF ChecksAdmitted
    <2>3. CASE UNCHANGED vars
      BY <1>2, <2>3, Zenon DEF vars, ChecksAdmitted, config
    <2>4. ASSUME NEW tool \in Tools, NEW values \in Values(tool), Asked(tool, values), Answers(tool, values)
          PROVE  ChecksAdmitted'
      <3>1. config' = config
        BY <2>4 DEF Asked, config
      <3> QED
        BY <2>4, <3>1, Zenon DEF Answers, ChecksAdmitted
    <2> QED
      BY <1>2, <2>1, <2>2, <2>3, <2>4, StepOf
  <1>3. Spec => []StartInv
    BY Started, PTL
  <1> QED
    BY <1>1, <1>2, <1>3, PTL DEF Spec

\* No listed tool is disabled, and a client that keeps to the advertised limits
\* (src/server/tool_metadata.rs) is not refused for a limit of a handler, but for those the
\* property names.
THEOREM OffersKept == Spec => []AdvertisedAccepted
  <1>1. Init => AdvertisedAccepted
    <2>1. Init => reply = Nothing
      BY Zenon DEF Init
    <2> QED
      BY <2>1, NothingSaid DEF AdvertisedAccepted
  <1>2. ASSUME StartInv, AdvertisedAccepted, [Next]_vars PROVE AdvertisedAccepted'
    <2>1. CASE reply' = Nothing
      BY <2>1, NothingSaid DEF AdvertisedAccepted
    <2>2. CASE reply'.tool = "start" /\ reply'.answer = "failed"
      BY <2>2 DEF AdvertisedAccepted
    <2>3. CASE UNCHANGED vars
      BY <1>2, <2>3, Zenon DEF vars, AdvertisedAccepted, KeptTo, Unadvertised, config
    <2>4. ASSUME NEW tool \in Tools, NEW values \in Values(tool), Asked(tool, values), Answers(tool, values)
          PROVE  AdvertisedAccepted'
      <3>1. config' = config /\ Loaded(config) /\ tool \in Listed(config)
        BY <1>2, <2>4 DEF Asked, StartInv, config
      <3>2. reply'.answer # "disabled" /\ reply'.tool = tool /\ reply'.values = values
        BY <2>4, Zenon DEF Answers
      <3>3. ASSUME ~AllWithin(Accepted(config), tool, values)
            PROVE  \/ \E i \in DOMAIN values : ~Kept(Limit(Advertised(config), tool, i), values[i])
                   \/ tool = "preview_edit" /\ TooMany(values)
                   \/ /\ tool \in {"run_project_command", "manage_process"}
                      /\ LittleOutput(config) /\ values[2] = None
        BY <3>1, <3>3, RefusedForLimits
      <3>4. ~AllWithin(Accepted(config), tool, values) =>
              ~KeptTo(tool, values, reply'.line) \/ Unadvertised(tool, values, reply'.line)
        BY <3>3, Zenon DEF KeptTo, Unadvertised
      <3>5. reply'.answer = "limits" =>
              ~KeptTo(tool, values, reply'.line) \/ Unadvertised(tool, values, reply'.line)
        BY <2>4, <3>4, Zenon DEF Answers
      <3>6. KeptTo(reply.tool, reply.values, reply.line)' <=> KeptTo(tool, values, reply'.line)
        BY <3>1, <3>2, Zenon DEF KeptTo
      <3>7. Unadvertised(reply.tool, reply.values, reply.line)' <=> Unadvertised(tool, values, reply'.line)
        BY <3>1, <3>2, Zenon DEF Unadvertised
      <3> QED
        BY <3>2, <3>5, <3>6, <3>7, Zenon DEF AdvertisedAccepted
    <2> QED
      BY <1>2, <2>1, <2>2, <2>3, <2>4, StepOf
  <1>3. Spec => []StartInv
    BY Started, PTL
  <1> QED
    BY <1>1, <1>2, <1>3, PTL DEF Spec
=============================================================================
