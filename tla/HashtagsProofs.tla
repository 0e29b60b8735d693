--------------------------- MODULE HashtagsProofs ---------------------------
(***************************************************************************)
(* The bank fills a list and the merge keeps the order, for any tags of a  *)
(* provider and any count asked for: what the loops compute is proved from *)
(* the recursive functions they are written as.                            *)
(*                                                                         *)
(* The induction theorems of the library take a predicate as a parameter;  *)
(* the one about minimal elements takes a set, and that is enough to have  *)
(* induction over the positions of a list.                                 *)
(***************************************************************************)
EXTENDS Hashtags, FunctionTheorems, WellFoundedInduction, TLAPS

-----------------------------------------------------------------------------
(* Induction over numbers, and loops over the positions of a list. *)

\* Every set of numbers has a least member.
LEMMA Least ==
  ASSUME NEW T \in SUBSET Nat, T # {}
  PROVE  \E n \in T : \A m \in T : n <= m
<1>1. PICK n \in T : \A m \in T : <<m, n>> \notin OpToRel(<, Nat)
  BY WFMin, NatLessThanWellFounded, Zenon
<1>2. OpToRel(<, Nat) = {ss \in Nat \X Nat : ss[1] < ss[2]}
  BY DEF OpToRel
<1>3. \A m \in T : ~(m < n)
  BY <1>1, <1>2
<1>. QED
  BY <1>3

\* What holds of zero and of the successor of every number it holds of, holds of
\* every number.
LEMMA Induction ==
  ASSUME NEW T, 0 \in T, \A n \in Nat : n \in T => n + 1 \in T
  PROVE  Nat \subseteq T
<1>1. SUFFICES ASSUME Nat \ T # {} PROVE FALSE
  OBVIOUS
<1>2. PICK n \in Nat \ T : \A m \in Nat \ T : n <= m
  BY <1>1, Least
<1>3. n # 0 /\ n - 1 \in Nat /\ n - 1 \in T
  BY <1>2
<1>. QED
  BY <1>2, <1>3

\* The same up to a bound.
LEMMA InductionUpTo ==
  ASSUME NEW L \in Nat, NEW T, 0 \in T, \A n \in 0..(L - 1) : n \in T => n + 1 \in T
  PROVE  0..L \subseteq T
<1> DEFINE U == {n \in Nat : n <= L => n \in T}
<1>1. 0 \in U
  OBVIOUS
<1>2. ASSUME NEW n \in Nat, n \in U PROVE n + 1 \in U
  BY <1>2
<1>3. Nat \subseteq U
  <2>. HIDE DEF U
  <2>. QED BY <1>1, <1>2, Induction
<1>. QED
  BY <1>3

-----------------------------------------------------------------------------
\* What a loop over the L positions of a list computes: the value after each,
\* the base before the first.
Steps(V, base, L, step, I) ==
  /\ I \in [0..L -> V] /\ I[0] = base
  /\ \A i \in 1..L : I[i] = step[i][I[i - 1]]

\* There is such a function, whatever the steps.
LEMMA StepsExist ==
  ASSUME NEW V, NEW base \in V, NEW L \in Nat, NEW step \in [1..L -> [V -> V]]
  PROVE  \E I : Steps(V, base, L, step, I)
<1> DEFINE T == {k \in Nat : k <= L => \E I : Steps(V, base, k, step, I)}
<1>1. 0 \in T
  <2>1. Steps(V, base, 0, step, [i \in 0..0 |-> base])
    BY DEF Steps
  <2>. QED BY <2>1
<1>2. ASSUME NEW k \in Nat, k \in T PROVE k + 1 \in T
  <2>1. SUFFICES ASSUME k + 1 <= L PROVE \E I : Steps(V, base, k + 1, step, I)
    OBVIOUS
  <2>2. PICK I : Steps(V, base, k, step, I)
    BY <1>2, <2>1
  <2> DEFINE next == step[k + 1][I[k]]
             J == [i \in 0..(k + 1) |-> IF i = k + 1 THEN next ELSE I[i]]
  <2>3. next \in V
    <3>1. I[k] \in V /\ step[k + 1] \in [V -> V]
      BY <2>1, <2>2 DEF Steps
    <3>. QED BY <3>1
  <2>4. J \in [0..(k + 1) -> V] /\ J[0] = base
    <3>. HIDE DEF next
    <3>. QED BY <2>2, <2>3 DEF Steps
  <2>5. ASSUME NEW i \in 1..(k + 1) PROVE J[i] = step[i][J[i - 1]]
    <3>1. i - 1 \in 0..k /\ J[i - 1] = I[i - 1]
      OBVIOUS
    <3>2. CASE i = k + 1
      BY <3>1, <3>2
    <3>3. CASE i # k + 1
      <4>1. i \in 1..k /\ J[i] = I[i]
        BY <3>3
      <4>. QED BY <2>2, <3>1, <4>1 DEF Steps
    <3>. QED BY <3>2, <3>3
  <2>6. Steps(V, base, k + 1, step, J)
    <3>. HIDE DEF J
    <3>. QED BY <2>4, <2>5 DEF Steps
  <2>. QED BY <2>6
<1>3. Nat \subseteq T
  <2>. HIDE DEF T
  <2>. QED BY <1>1, <1>2, Induction
<1>. QED
  BY <1>3

-----------------------------------------------------------------------------
(* The three loops, turn by turn. *)

\* The characters of a tag: those of the provider's, and the symbols of the bank,
\* which the provers do not know to be strings.
FallbackSymbols ==
  {"kelal", "ethiopia", "smallbusiness", "madewithkelal",
   "addisababa", "ethiopianbusiness", "supportlocal", "madeinethiopia"}
Topics == {"generic", "food", "fashion", "coffee", "tech", "beauty", "travel", "art",
           "business", "fitness"}
Numerals == {"1", "2", "3", "4", "5", "6", "7", "8", "9"}
Chars == STRING \cup FallbackSymbols \cup Topics \cup Numerals \cup {"ethiopian"}

Words  == Seq(Chars)
States == [tags: Seq(Words), stop: BOOLEAN]

\* What Append gives.
LEMMA AppendIs ==
  ASSUME NEW S, NEW s \in Seq(S), NEW e \in S
  PROVE  /\ Append(s, e) \in Seq(S) /\ Len(Append(s, e)) = Len(s) + 1
         /\ \A i \in 1..Len(s) : Append(s, e)[i] = s[i]
         /\ Append(s, e)[Len(s) + 1] = e
OBVIOUS

\* Normalising a tag goes through its characters.
LEMMA NormalTurns ==
  ASSUME NEW tag \in Words
  PROVE  \E F : /\ NormalizeHashtag(tag) = F[Len(tag)] /\ F[0] = <<>>
                /\ \A i \in 1..Len(tag) :
                     F[i] = IF tag[i] \in Dropped THEN F[i - 1] ELSE Append(F[i - 1], tag[i])
<1> DEFINE L == Len(tag)
           step == [i \in 1..L |-> [v \in Words |-> IF tag[i] \in Dropped THEN v ELSE Append(v, tag[i])]]
           Solves(J) == J = [i \in 0..L |-> IF i = 0 THEN <<>>
                                             ELSE IF tag[i] \in Dropped THEN J[i - 1]
                                             ELSE Append(J[i - 1], tag[i])]
           iter == CHOOSE J : Solves(J)
<1>1. L \in Nat /\ DOMAIN tag = 1..L /\ <<>> \in Words /\ step \in [1..L -> [Words -> Words]]
  <2>1. L \in Nat /\ DOMAIN tag = 1..L /\ <<>> \in Words /\ \A i \in 1..L : tag[i] \in Chars
    BY DEF Words
  <2>2. \A v \in Words, c \in Chars : Append(v, c) \in Words
    BY AppendIs DEF Words
  <2>. QED
    <3>. HIDE DEF L
    <3>. QED BY <2>1, <2>2
<1>2. PICK I : Steps(Words, <<>>, L, step, I)
  <2>. HIDE DEF step, L
  <2>. QED BY <1>1, StepsExist
<1>3. Solves(I)
  <2>1. ASSUME NEW i \in 1..L PROVE I[i] = IF tag[i] \in Dropped THEN I[i - 1] ELSE Append(I[i - 1], tag[i])
    <3>1. i - 1 \in 0..L /\ I[i] = step[i][I[i - 1]] /\ I[i - 1] \in Words
      <4>. HIDE DEF step, L
      <4>. QED BY <1>1, <1>2 DEF Steps
    <3>. QED BY <3>1
  <2>2. I[0] = <<>> /\ I = [i \in 0..L |-> I[i]]
    <3>. HIDE DEF step, L
    <3>. QED BY <1>2 DEF Steps
  <2>3. ASSUME NEW i \in 0..L PROVE i = 0 \/ i \in 1..L
    <3>. HIDE DEF L
    <3>. QED BY <1>1
  <2>. HIDE DEF L
  <2>. QED BY <2>1, <2>2, <2>3
<1>4. Solves(iter)
  <2>. HIDE DEF Solves
  <2>. QED BY <1>3
<1>5. NormalizeHashtag(tag) = iter[L]
  BY Zenon DEF NormalizeHashtag
<1>6. iter[0] = <<>>
  <2>1. 0 \in 0..L
    <3>. HIDE DEF L
    <3>. QED BY <1>1
  <2>. HIDE DEF iter, L
  <2>. QED BY <1>4, <2>1
<1>7. ASSUME NEW i \in 1..L
      PROVE  iter[i] = IF tag[i] \in Dropped THEN iter[i - 1] ELSE Append(iter[i - 1], tag[i])
  <2>1. i \in 0..L /\ i # 0
    <3>. HIDE DEF L
    <3>. QED BY <1>1
  <2>. HIDE DEF iter, L
  <2>. QED BY <1>4, <2>1
<1>. QED
  <2>. HIDE DEF iter
  <2>. QED BY <1>5, <1>6, <1>7

\* A list of one, and the empty list.
LEMMA OneIs ==
  /\ \A S : <<>> \in Seq(S)
  /\ \A S : \A c \in S : <<c>> \in Seq(S) /\ Len(<<c>>) = 1 /\ <<c>>[1] = c /\ <<c>> # <<>>
OBVIOUS

\* Normalising leaves a word.
LEMMA NormalIsWord ==
  ASSUME NEW tag \in Words
  PROVE  NormalizeHashtag(tag) \in Words
<1>1. PICK F : /\ NormalizeHashtag(tag) = F[Len(tag)] /\ F[0] = <<>>
               /\ \A i \in 1..Len(tag) :
                    F[i] = IF tag[i] \in Dropped THEN F[i - 1] ELSE Append(F[i - 1], tag[i])
  BY NormalTurns
<1>2. Len(tag) \in Nat /\ \A i \in 1..Len(tag) : tag[i] \in Chars
  BY DEF Words
<1> DEFINE L == Len(tag)
           T == {i \in 0..L : F[i] \in Words}
<1>3. 0 \in T
  <2>1. <<>> \in Words
    BY OneIs DEF Words
  <2>2. 0 \in 0..L
    BY <1>2
  <2>. QED BY <1>1, <2>1, <2>2
<1>4. ASSUME NEW i \in 0..(L - 1), i \in T PROVE i + 1 \in T
  <2>1. i + 1 \in 1..L /\ (i + 1) - 1 = i /\ F[i] \in Words /\ i + 1 \in 0..L
    BY <1>2, <1>4
  <2>2. F[i + 1] = IF tag[i + 1] \in Dropped THEN F[i] ELSE Append(F[i], tag[i + 1])
    BY <1>1, <2>1
  <2>3. Append(F[i], tag[i + 1]) \in Words
    BY <1>2, <2>1, AppendIs DEF Words
  <2>. QED BY <2>1, <2>2, <2>3
<1>5. 0..L \subseteq T
  <2>. HIDE DEF T
  <2>. QED BY <1>2, <1>3, <1>4, InductionUpTo
<1>. QED
  BY <1>1, <1>2, <1>5

\* A word of one symbol that is kept is left as it is.
LEMMA NormalOfSymbol ==
  ASSUME NEW c \in Chars, c \notin Dropped
  PROVE  NormalizeHashtag(<<c>>) = <<c>>
<1>1. <<c>> \in Words /\ Len(<<c>>) = 1 /\ <<c>>[1] = c
  BY OneIs DEF Words
<1>2. PICK F : /\ NormalizeHashtag(<<c>>) = F[1] /\ F[0] = <<>>
               /\ \A i \in 1..1 : F[i] = IF <<c>>[i] \in Dropped THEN F[i - 1] ELSE Append(F[i - 1], <<c>>[i])
  BY <1>1, NormalTurns
<1>3. F[1] = Append(F[0], c)
  <2>1. 1 \in 1..1 /\ 1 - 1 = 0
    OBVIOUS
  <2>2. F[1] = IF <<c>>[1] \in Dropped THEN F[1 - 1] ELSE Append(F[1 - 1], <<c>>[1])
    BY <1>2, <2>1
  <2>. QED BY <1>1, <2>1, <2>2
<1>4. NormalizeHashtag(<<c>>) = Append(<<>>, c)
  BY <1>2, <1>3, Zenon
<1>5. Append(<<>>, c) = <<c>>
  OBVIOUS
<1>. QED
  BY <1>4, <1>5

\* AppendNew goes through the list to append.
LEMMA AppendTurns ==
  ASSUME NEW tags \in Seq(Words), NEW more \in Seq(Words), NEW n \in Int
  PROVE  \E F : /\ AppendNew(tags, more, n) = F[Len(more)].tags
                /\ F[0] = [tags |-> tags, stop |-> FALSE]
                /\ \A i \in 1..Len(more) : F[i] = AppendTurn(F[i - 1], NormalizeHashtag(more[i]), n)
<1> DEFINE L == Len(more)
           base == [tags |-> tags, stop |-> FALSE]
           step == [i \in 1..L |-> [v \in States |-> AppendTurn(v, NormalizeHashtag(more[i]), n)]]
           Solves(J) == J = [i \in 0..L |-> IF i = 0 THEN base
                                             ELSE AppendTurn(J[i - 1], NormalizeHashtag(more[i]), n)]
           iter == CHOOSE J : Solves(J)
<1>1. L \in Nat /\ DOMAIN more = 1..L /\ base \in States /\ step \in [1..L -> [States -> States]]
  <2>1. L \in Nat /\ DOMAIN more = 1..L /\ base \in States
    BY DEF States, Words
  <2>2. ASSUME NEW v \in States, NEW i \in 1..L
        PROVE  AppendTurn(v, NormalizeHashtag(more[i]), n) \in States
    <3>1. NormalizeHashtag(more[i]) \in Words
      BY NormalIsWord DEF Words
    <3>2. Append(v.tags, NormalizeHashtag(more[i])) \in Seq(Words)
      BY <3>1, AppendIs DEF States
    <3>3. CASE v.stop \/ ~Unseen(v.tags, NormalizeHashtag(more[i]))
      BY <3>3 DEF AppendTurn
    <3>4. CASE ~(v.stop \/ ~Unseen(v.tags, NormalizeHashtag(more[i])))
      <4>1. AppendTurn(v, NormalizeHashtag(more[i]), n) =
              [tags |-> Append(v.tags, NormalizeHashtag(more[i])), stop |-> Len(v.tags) + 1 >= n]
        BY <3>4, Zenon DEF AppendTurn
      <4>2. CASE Len(v.tags) + 1 >= n
        BY <3>2, <4>1, <4>2 DEF States
      <4>3. CASE ~(Len(v.tags) + 1 >= n)
        BY <3>2, <4>1, <4>3 DEF States
      <4>. QED BY <4>2, <4>3
    <3>. QED BY <3>3, <3>4
  <2>. QED
    <3>. HIDE DEF L, base
    <3>. QED BY <2>1, <2>2
<1>2. PICK I : Steps(States, base, L, step, I)
  <2>. HIDE DEF step, base, L
  <2>. QED BY <1>1, StepsExist
<1>3. Solves(I)
  <2>1. ASSUME NEW i \in 1..L PROVE I[i] = AppendTurn(I[i - 1], NormalizeHashtag(more[i]), n)
    <3>1. i - 1 \in 0..L /\ I[i] = step[i][I[i - 1]] /\ I[i - 1] \in States
      <4>. HIDE DEF step, base, L
      <4>. QED BY <1>1, <1>2 DEF Steps
    <3>. QED BY <3>1
  <2>2. I[0] = base /\ I = [i \in 0..L |-> I[i]]
    <3>. HIDE DEF step, base, L
    <3>. QED BY <1>2 DEF Steps
  <2>3. ASSUME NEW i \in 0..L PROVE i = 0 \/ i \in 1..L
    <3>. HIDE DEF L
    <3>. QED BY <1>1
  <2>. HIDE DEF base, L
  <2>. QED BY <2>1, <2>2, <2>3
<1>4. Solves(iter)
  <2>. HIDE DEF Solves
  <2>. QED BY <1>3
<1>5. AppendNew(tags, more, n) = iter[L].tags
  BY Zenon DEF AppendNew
<1>6. iter[0] = base
  <2>1. 0 \in 0..L
    <3>. HIDE DEF L
    <3>. QED BY <1>1
  <2>. HIDE DEF iter, base, L
  <2>. QED BY <1>4, <2>1
<1>7. ASSUME NEW i \in 1..L PROVE iter[i] = AppendTurn(iter[i - 1], NormalizeHashtag(more[i]), n)
  <2>1. i \in 0..L /\ i # 0
    <3>. HIDE DEF L
    <3>. QED BY <1>1
  <2>. HIDE DEF iter, base, L
  <2>. QED BY <1>4, <2>1
<1>. QED
  <2>. HIDE DEF iter
  <2>. QED BY <1>5, <1>6, <1>7

\* The fallbacks: eight words, each of one symbol that normalising keeps.
LEMMA FallbacksAre ==
  /\ Len(Fallbacks) = 8 /\ Fallbacks \in Seq(Words) /\ DOMAIN Fallbacks = 1..8
  /\ \A i \in 1..8 : Fallbacks[i] \in Words /\ Fallbacks[i] # <<>>
  /\ \A i \in 1..8 : NormalizeHashtag(Fallbacks[i]) = Fallbacks[i]
  /\ \A i, j \in 1..8 : Fallbacks[i] = Fallbacks[j] => i = j
<1>1. Len(Fallbacks) = 8 /\ DOMAIN Fallbacks = 1..8
  BY DEF Fallbacks
<1>2. \A i \in 1..8 : \E c \in FallbackSymbols : Fallbacks[i] = <<c>>
  <2>1. /\ Fallbacks[1] = <<"kelal">>
        /\ Fallbacks[2] = <<"ethiopia">>
        /\ Fallbacks[3] = <<"smallbusiness">>
        /\ Fallbacks[4] = <<"madewithkelal">>
        /\ Fallbacks[5] = <<"addisababa">>
        /\ Fallbacks[6] = <<"ethiopianbusiness">>
        /\ Fallbacks[7] = <<"supportlocal">>
        /\ Fallbacks[8] = <<"madeinethiopia">>
    BY DEF Fallbacks
  <2>2. \A i \in 1..8 : i = 1 \/ i = 2 \/ i = 3 \/ i = 4 \/ i = 5 \/ i = 6 \/ i = 7 \/ i = 8
    OBVIOUS
  <2>. QED BY <2>1, <2>2 DEF FallbackSymbols
<1>3. FallbackSymbols \subseteq Chars /\ \A c \in FallbackSymbols : c \notin Dropped
  BY DEF FallbackSymbols, Dropped, Chars
<1>4. ASSUME NEW i \in 1..8 PROVE Fallbacks[i] \in Words /\ Fallbacks[i] # <<>>
  <2>1. PICK c \in FallbackSymbols : Fallbacks[i] = <<c>>
    BY <1>2
  <2>2. <<c>> \in Words /\ <<c>> # <<>>
    <3>1. c \in Chars
      BY <1>3
    <3>. QED BY <3>1, OneIs DEF Words
  <2>. QED BY <2>1, <2>2
<1>5. Fallbacks \in Seq(Words)
  BY <1>1, <1>4 DEF Fallbacks
<1>6. \A i \in 1..8 : NormalizeHashtag(Fallbacks[i]) = Fallbacks[i]
  BY <1>2, <1>3, NormalOfSymbol
<1>7. \A i, j \in 1..8 : Fallbacks[i] = Fallbacks[j] => i = j
  BY DEF Fallbacks
<1>. QED
  BY <1>1, <1>4, <1>5, <1>6, <1>7

\* TopUp goes through the fallbacks.
LEMMA TopUpTurns ==
  ASSUME NEW tags \in Seq(Words), NEW n \in Int
  PROVE  \E F : /\ TopUp(tags, n) = F[Len(Fallbacks)].tags
                /\ F[0] = [tags |-> tags, stop |-> FALSE]
                /\ \A i \in 1..Len(Fallbacks) : F[i] = TopUpTurn(F[i - 1], Fallbacks[i], n)
<1> DEFINE L == Len(Fallbacks)
           base == [tags |-> tags, stop |-> FALSE]
           step == [i \in 1..L |-> [v \in States |-> TopUpTurn(v, Fallbacks[i], n)]]
           Solves(J) == J = [i \in 0..L |-> IF i = 0 THEN base
                                             ELSE TopUpTurn(J[i - 1], Fallbacks[i], n)]
           iter == CHOOSE J : Solves(J)
<1>1. L \in Nat /\ DOMAIN Fallbacks = 1..L /\ base \in States /\ step \in [1..L -> [States -> States]]
  <2>1. L \in Nat /\ DOMAIN Fallbacks = 1..L /\ base \in States
    BY FallbacksAre DEF States, Words
  <2>2. ASSUME NEW v \in States, NEW i \in 1..L
        PROVE  TopUpTurn(v, Fallbacks[i], n) \in States
    <3>1. v.tags \in Seq(Words) /\ Fallbacks[i] \in Words
      <4>1. v.tags \in Seq(Words)
        BY DEF States
      <4>2. i \in 1..8 /\ \A j \in 1..8 : Fallbacks[j] \in Words
        BY FallbacksAre
      <4>. QED BY <4>1, <4>2
    <3>2. Append(v.tags, Fallbacks[i]) \in Seq(Words)
      BY <3>1, AppendIs
    <3>3. Added(v.tags, Fallbacks[i]) \in Seq(Words)
      BY <3>1, <3>2 DEF Added
    <3>4. CASE v.stop
      BY <3>4 DEF TopUpTurn
    <3>5. CASE ~v.stop
      <4>1. TopUpTurn(v, Fallbacks[i], n) =
              [tags |-> Added(v.tags, Fallbacks[i]), stop |-> Len(Added(v.tags, Fallbacks[i])) >= n]
        BY <3>5, Zenon DEF TopUpTurn
      <4>2. CASE Len(Added(v.tags, Fallbacks[i])) >= n
        BY <3>3, <4>1, <4>2 DEF States
      <4>3. CASE ~(Len(Added(v.tags, Fallbacks[i])) >= n)
        BY <3>3, <4>1, <4>3 DEF States
      <4>. QED BY <4>2, <4>3
    <3>. QED BY <3>4, <3>5
  <2>. QED
    <3>. HIDE DEF L, base
    <3>. QED BY <2>1, <2>2
<1>2. PICK I : Steps(States, base, L, step, I)
  <2>. HIDE DEF step, base, L
  <2>. QED BY <1>1, StepsExist
<1>3. Solves(I)
  <2>1. ASSUME NEW i \in 1..L PROVE I[i] = TopUpTurn(I[i - 1], Fallbacks[i], n)
    <3>1. i - 1 \in 0..L /\ I[i] = step[i][I[i - 1]] /\ I[i - 1] \in States
      <4>. HIDE DEF step, base, L
      <4>. QED BY <1>1, <1>2 DEF Steps
    <3>. QED BY <3>1
  <2>2. I[0] = base /\ I = [i \in 0..L |-> I[i]]
    <3>. HIDE DEF step, base, L
    <3>. QED BY <1>2 DEF Steps
  <2>3. ASSUME NEW i \in 0..L PROVE i = 0 \/ i \in 1..L
    <3>. HIDE DEF L
    <3>. QED BY <1>1
  <2>. HIDE DEF base, L
  <2>. QED BY <2>1, <2>2, <2>3
<1>4. Solves(iter)
  <2>. HIDE DEF Solves
  <2>. QED BY <1>3
<1>5. TopUp(tags, n) = iter[L].tags
  BY Zenon DEF TopUp
<1>6. iter[0] = base
  <2>1. 0 \in 0..L
    <3>. HIDE DEF L
    <3>. QED BY <1>1
  <2>. HIDE DEF iter, base, L
  <2>. QED BY <1>4, <2>1
<1>7. ASSUME NEW i \in 1..L PROVE iter[i] = TopUpTurn(iter[i - 1], Fallbacks[i], n)
  <2>1. i \in 0..L /\ i # 0
    <3>. HIDE DEF L
    <3>. QED BY <1>1
  <2>. HIDE DEF iter, base, L
  <2>. QED BY <1>4, <2>1
<1>. QED
  <2>. HIDE DEF iter
  <2>. QED BY <1>5, <1>6, <1>7

-----------------------------------------------------------------------------
(* What the loops keep. *)

\* No tag twice, and none that is empty.
Clean(tags) ==
  /\ \A a, b \in 1..Len(tags) : tags[a] = tags[b] => a = b
  /\ \A a \in 1..Len(tags) : tags[a] # <<>>

\* Adding a tag keeps what is there, and the tag is there afterwards.
LEMMA AddedIs ==
  ASSUME NEW tags \in Seq(Words), NEW tag \in Words
  PROVE  /\ Added(tags, tag) \in Seq(Words)
         /\ Len(Added(tags, tag)) \in {Len(tags), Len(tags) + 1}
         /\ \A a \in 1..Len(tags) : Added(tags, tag)[a] = tags[a]
         /\ tag # <<>> => \E a \in 1..Len(Added(tags, tag)) : Added(tags, tag)[a] = tag
         /\ Clean(tags) => Clean(Added(tags, tag))
<1>0. Len(tags) \in Nat
  OBVIOUS
<1>1. CASE ~Unseen(tags, tag)
  <2>1. Added(tags, tag) = tags
    BY <1>1 DEF Added
  <2>2. tag # <<>> => \E a \in 1..Len(tags) : tags[a] = tag
    BY <1>1 DEF Unseen, Range
  <2>. QED BY <1>0, <2>1, <2>2
<1>2. CASE Unseen(tags, tag)
  <2> DEFINE new == Append(tags, tag)
  <2>1. Added(tags, tag) = new
    BY <1>2 DEF Added
  <2>2. tag # <<>> /\ \A a \in 1..Len(tags) : tags[a] # tag
    BY <1>2 DEF Unseen, Range
  <2>3. /\ new \in Seq(Words) /\ Len(new) = Len(tags) + 1
        /\ \A a \in 1..Len(tags) : new[a] = tags[a]
        /\ new[Len(tags) + 1] = tag
    BY AppendIs
  <2>. HIDE DEF new
  <2>4. Clean(tags) => Clean(new)
    BY <1>0, <2>2, <2>3 DEF Clean
  <2>5. Len(tags) + 1 \in 1..Len(new)
    BY <1>0, <2>3
  <2>. QED BY <2>1, <2>3, <2>4, <2>5
<1>. QED
  BY <1>1, <1>2

\* The state that a turn leaves.
LEMMA TurnLeaves ==
  ASSUME NEW r, NEW new \in Seq(Words), NEW x \in Int, NEW n \in Int,
         r = [tags |-> new, stop |-> x >= n]
  PROVE  r \in States /\ r.tags = new /\ (r.stop <=> x >= n)
<1>1. r.tags = new /\ (r.stop <=> x >= n)
  OBVIOUS
<1>2. r \in States
  <2>1. CASE x >= n
    BY <2>1 DEF States
  <2>2. CASE ~(x >= n)
    BY <2>2 DEF States
  <2>. QED BY <2>1, <2>2
<1>. QED
  BY <1>1, <1>2

\* A turn of AppendNew adds the tag or nothing.
LEMMA AppendTurnIs ==
  ASSUME NEW s \in States, NEW tag \in Words, NEW n \in Int
  PROVE  /\ AppendTurn(s, tag, n) \in States
         /\ s.stop => AppendTurn(s, tag, n) = s
         /\ ~s.stop => /\ AppendTurn(s, tag, n).tags = Added(s.tags, tag)
                       /\ \/ AppendTurn(s, tag, n) = s
                          \/ /\ Len(Added(s.tags, tag)) = Len(s.tags) + 1
                             /\ AppendTurn(s, tag, n).stop <=> Len(s.tags) + 1 >= n
<1>1. CASE s.stop \/ ~Unseen(s.tags, tag)
  BY <1>1 DEF AppendTurn, Added
<1>2. CASE ~(s.stop \/ ~Unseen(s.tags, tag))
  <2>1. AppendTurn(s, tag, n) = [tags |-> Append(s.tags, tag), stop |-> Len(s.tags) + 1 >= n]
    BY <1>2, Zenon DEF AppendTurn
  <2>2. Added(s.tags, tag) = Append(s.tags, tag)
    BY <1>2 DEF Added
  <2>3. /\ Append(s.tags, tag) \in Seq(Words)
        /\ Len(Append(s.tags, tag)) = Len(s.tags) + 1
    BY AppendIs DEF States
  <2> DEFINE r == AppendTurn(s, tag, n)
  <2>4. /\ r \in States /\ r.tags = Append(s.tags, tag)
        /\ r.stop <=> Len(s.tags) + 1 >= n
    <3>1. Len(s.tags) + 1 \in Int
      BY DEF States
    <3>. QED BY <2>1, <2>3, <3>1, TurnLeaves
  <2>. HIDE DEF r
  <2>. QED BY <1>2, <2>2, <2>3, <2>4 DEF r
<1>. QED
  BY <1>1, <1>2

\* A turn of TopUp adds the tag, unless the loop has stopped.
LEMMA TopUpTurnIs ==
  ASSUME NEW s \in States, NEW tag \in Words, NEW n \in Int
  PROVE  /\ TopUpTurn(s, tag, n) \in States
         /\ s.stop => TopUpTurn(s, tag, n) = s
         /\ ~s.stop => /\ TopUpTurn(s, tag, n).tags = Added(s.tags, tag)
                       /\ TopUpTurn(s, tag, n).stop <=> Len(Added(s.tags, tag)) >= n
<1>1. CASE s.stop
  BY <1>1 DEF TopUpTurn
<1>2. CASE ~s.stop
  <2> DEFINE new == Added(s.tags, tag)
  <2>1. TopUpTurn(s, tag, n) = [tags |-> new, stop |-> Len(new) >= n]
    BY <1>2, Zenon DEF TopUpTurn
  <2>2. new \in Seq(Words)
    BY AddedIs DEF States
  <2>. HIDE DEF new
  <2>3. Len(new) \in Int
    BY <2>2
  <2>. QED BY <1>2, <2>1, <2>2, <2>3, TurnLeaves DEF new
<1>. QED
  BY <1>1, <1>2

\* AppendNew leaves a clean list clean.
LEMMA AppendNewIsClean ==
  ASSUME NEW tags \in Seq(Words), NEW more \in Seq(Words), NEW n \in Int, Clean(tags)
  PROVE  AppendNew(tags, more, n) \in Seq(Words) /\ Clean(AppendNew(tags, more, n))
<1> DEFINE L == Len(more)
<1>1. PICK F : /\ AppendNew(tags, more, n) = F[L].tags
               /\ F[0] = [tags |-> tags, stop |-> FALSE]
               /\ \A i \in 1..L : F[i] = AppendTurn(F[i - 1], NormalizeHashtag(more[i]), n)
  BY AppendTurns
<1> DEFINE T == {i \in 0..L : F[i] \in States /\ Clean(F[i].tags)}
<1>2. L \in Nat /\ \A i \in 1..L : NormalizeHashtag(more[i]) \in Words
  BY NormalIsWord
<1>. HIDE DEF L
<1>3. 0 \in T
  <2>1. F[0] \in States /\ F[0].tags = tags
    BY <1>1 DEF States
  <2>. QED BY <1>2, <2>1
<1>4. ASSUME NEW i \in 0..(L - 1), i \in T PROVE i + 1 \in T
  <2>1. i + 1 \in 1..L /\ (i + 1) - 1 = i /\ i + 1 \in 0..L /\ F[i] \in States /\ Clean(F[i].tags)
    BY <1>2, <1>4
  <2>2. F[i + 1] = AppendTurn(F[i], NormalizeHashtag(more[i + 1]), n)
    BY <1>1, <2>1
  <2>3. NormalizeHashtag(more[i + 1]) \in Words /\ F[i].tags \in Seq(Words)
    BY <1>2, <2>1 DEF States
  <2>4. Clean(Added(F[i].tags, NormalizeHashtag(more[i + 1])))
    BY <2>1, <2>3, AddedIs
  <2>5. F[i + 1] \in States /\ Clean(F[i + 1].tags)
    BY <2>1, <2>2, <2>3, <2>4, AppendTurnIs, ZenonT(60)
  <2>. QED BY <2>1, <2>5
<1>5. 0..L \subseteq T
  <2>. HIDE DEF T
  <2>. QED BY <1>2, <1>3, <1>4, InductionUpTo
<1>6. F[L] \in States /\ Clean(F[L].tags)
  BY <1>2, <1>5
<1>. QED
  BY <1>1, <1>6 DEF States

\* A list that holds the eight fallbacks has eight tags.
LEMMA EightFallbacks ==
  ASSUME NEW s \in Seq(Words), \A k \in 1..8 : \E a \in 1..Len(s) : s[a] = Fallbacks[k]
  PROVE  Len(s) >= 8
<1> DEFINE at == [k \in 1..8 |-> CHOOSE a \in 1..Len(s) : s[a] = Fallbacks[k]]
<1>1. \A k \in 1..8 : at[k] \in 1..Len(s) /\ s[at[k]] = Fallbacks[k]
  OBVIOUS
<1>2. \A j, k \in 1..8 : at[j] = at[k] => j = k
  <2>. HIDE DEF at
  <2>. SUFFICES ASSUME NEW j \in 1..8, NEW k \in 1..8, at[j] = at[k] PROVE j = k
    OBVIOUS
  <2>1. Fallbacks[j] = Fallbacks[k]
    BY <1>1
  <2>. QED BY <2>1, FallbacksAre
<1>3. at \in Injection(1..8, 1..Len(s))
  BY <1>1, <1>2 DEF Injection, IsInjective
<1>4. 8 <= Len(s)
  <2>1. ExistsInjection(1..8, 1..Len(s))
    BY <1>3 DEF ExistsInjection
  <2>2. 8 \in Nat /\ Len(s) \in Nat
    OBVIOUS
  <2>. QED BY <2>1, <2>2, Fun_NatInjLeq
<1>. QED
  BY <1>4

\* TopUp fills a clean list up to eight tags, and it stays clean.
LEMMA TopUpFills ==
  ASSUME NEW tags \in Seq(Words), NEW n \in Int, n <= 8, Clean(tags)
  PROVE  TopUp(tags, n) \in Seq(Words) /\ Clean(TopUp(tags, n)) /\ Len(TopUp(tags, n)) >= n
<1>1. PICK F : /\ TopUp(tags, n) = F[8].tags
               /\ F[0] = [tags |-> tags, stop |-> FALSE]
               /\ \A i \in 1..8 : F[i] = TopUpTurn(F[i - 1], Fallbacks[i], n)
  <2>1. Len(Fallbacks) = 8
    BY FallbacksAre
  <2>2. \E F : /\ TopUp(tags, n) = F[Len(Fallbacks)].tags
               /\ F[0] = [tags |-> tags, stop |-> FALSE]
               /\ \A i \in 1..Len(Fallbacks) : F[i] = TopUpTurn(F[i - 1], Fallbacks[i], n)
    BY TopUpTurns, Zenon
  <2>. QED BY <2>1, <2>2, Zenon
<1> DEFINE Holds(s, k) == \E a \in 1..Len(s) : s[a] = Fallbacks[k]
           T == {i \in 0..8 : /\ F[i] \in States /\ Clean(F[i].tags)
                              /\ F[i].stop => Len(F[i].tags) >= n
                              /\ ~F[i].stop => \A k \in 1..i : Holds(F[i].tags, k)}
<1>2. 0 \in T
  <2>1. F[0] \in States /\ F[0].tags = tags /\ ~F[0].stop
    BY <1>1 DEF States
  <2>2. 1..0 = {} /\ 0 \in 0..8
    OBVIOUS
  <2>. QED BY <2>1, <2>2
<1>3. ASSUME NEW i \in 0..(8 - 1), i \in T PROVE i + 1 \in T
  <2>1. i + 1 \in 1..8 /\ (i + 1) - 1 = i /\ i + 1 \in 0..8 /\ F[i] \in States
    BY <1>3
  <2>2. F[i + 1] = TopUpTurn(F[i], Fallbacks[i + 1], n)
    BY <1>1, <2>1
  <2>3. Fallbacks[i + 1] \in Words /\ Fallbacks[i + 1] # <<>> /\ F[i].tags \in Seq(Words)
    BY <2>1, FallbacksAre DEF States
  <2>4. CASE F[i].stop
    <3>1. F[i + 1] = F[i]
      BY <2>1, <2>2, <2>3, <2>4, TopUpTurnIs
    <3>. QED BY <1>3, <2>1, <2>4, <3>1
  <2>5. CASE ~F[i].stop
    <3> DEFINE old == F[i].tags
               new == Added(old, Fallbacks[i + 1])
    <3>1. /\ F[i + 1] \in States /\ F[i + 1].tags = new
          /\ F[i + 1].stop => Len(new) >= n
      BY <2>1, <2>2, <2>3, <2>5, TopUpTurnIs
    <3>2. Clean(old) /\ \A k \in 1..i : Holds(old, k)
      BY <1>3, <2>5
    <3>3. /\ Clean(new) /\ Holds(new, i + 1)
          /\ Len(old) \in Nat /\ Len(new) \in Nat /\ Len(new) >= Len(old)
          /\ \A a \in 1..Len(old) : new[a] = old[a]
      <4>1. old \in Seq(Words) /\ Clean(old) /\ Len(old) \in Nat
        BY <2>3, <3>2
      <4>2. /\ new \in Seq(Words) /\ Len(new) \in {Len(old), Len(old) + 1} /\ Clean(new)
            /\ \A a \in 1..Len(old) : new[a] = old[a]
            /\ \E a \in 1..Len(new) : new[a] = Fallbacks[i + 1]
        <5>. HIDE DEF old
        <5>. QED BY <2>3, <4>1, AddedIs
      <4>. HIDE DEF new, old
      <4>. QED BY <4>1, <4>2
    <3>4. \A k \in 1..i : Holds(new, k)
      <4>. HIDE DEF new, old
      <4>. QED BY <3>2, <3>3
    <3>5. \A k \in 1..(i + 1) : Holds(new, k)
      <4>. HIDE DEF Holds
      <4>. QED BY <3>3, <3>4
    <3>. QED
      <4>. HIDE DEF new, Holds
      <4>. QED BY <2>1, <3>1, <3>3, <3>5
  <2>. QED BY <2>4, <2>5
<1>4. 0..8 \subseteq T
  <2>. HIDE DEF T
  <2>. QED BY <1>2, <1>3, InductionUpTo
<1>5. 8 \in T
  <2>. HIDE DEF T
  <2>. QED BY <1>4
<1>6. F[8].tags \in Seq(Words) /\ Clean(F[8].tags)
  BY <1>5 DEF States
<1>7. Len(F[8].tags) >= n
  <2>1. CASE F[8].stop
    BY <1>5, <2>1
  <2>2. CASE ~F[8].stop
    <3>1. Len(F[8].tags) >= 8
      BY <1>5, <1>6, <2>2, EightFallbacks
    <3>. QED BY <1>6, <3>1
  <2>. QED BY <2>1, <2>2
<1>. QED
  BY <1>1, <1>6, <1>7

-----------------------------------------------------------------------------
(* The bank fills a list. *)

\* The numbered tags of a topic are words.
LEMMA TableIsWords ==
  ASSUME NEW topic \in Topics, NEW m \in 0..9
  PROVE  Table(topic, m) \in Seq(Words)
<1>1. ASSUME NEW i \in 1..m PROVE <<topic, Numbers[i]>> \in Words
  <2>1. i \in 1..9
    OBVIOUS
  <2>2. Numbers[i] \in Numerals
    BY <2>1 DEF Numbers, Numerals
  <2>3. topic \in Chars /\ Numbers[i] \in Chars
    BY <2>2 DEF Chars
  <2>. QED BY <2>3 DEF Words
<1>. QED
  BY <1>1 DEF Table

\* So are the tags of a platform for any topic, known to its table or not.
LEMMA TopicsAreWords ==
  ASSUME NEW platform \in DOMAIN Sizes, NEW topic
  PROVE  PlatformTopics(platform, topic) \in Seq(Words)
<1>1. platform \in {"instagram", "tiktok", "telegram"}
  BY DEF Sizes
<1>2. CASE topic \notin DOMAIN Sizes[platform]
  BY <1>2, OneIs DEF PlatformTopics
<1>3. CASE topic \in DOMAIN Sizes[platform]
  <2>1. topic \in Topics /\ Sizes[platform][topic] \in 0..9
    BY <1>1, <1>3 DEF Sizes, Topics
  <2>2. Shared[platform] \in Seq(Words)
    <3>1. \A c \in FallbackSymbols : <<c>> \in Words
      BY OneIs DEF Words, Chars
    <3>2. /\ <<"ethiopianbusiness">> \in Words /\ <<"smallbusiness">> \in Words
          /\ <<"supportlocal">> \in Words
      BY <3>1 DEF FallbackSymbols
    <3>. HIDE DEF Words
    <3>3. <<<<"ethiopianbusiness">>, <<"smallbusiness">>, <<"supportlocal">>>> \in Seq(Words)
      BY <3>2
    <3>4. <<<<"smallbusiness">>>> \in Seq(Words) /\ <<>> \in Seq(Words)
      BY <3>2, OneIs
    <3>5. /\ Shared["instagram"] = <<<<"ethiopianbusiness">>, <<"smallbusiness">>, <<"supportlocal">>>>
          /\ Shared["tiktok"] = <<<<"smallbusiness">>>> /\ Shared["telegram"] = <<>>
      BY DEF Shared
    <3>. QED BY <1>1, <3>3, <3>4, <3>5
  <2>3. Table(topic, Sizes[platform][topic]) \in Seq(Words)
    BY <2>1, TableIsWords
  <2>4. (IF topic = "business" THEN Shared[platform] ELSE <<>>) \in Seq(Words)
    BY <2>2, OneIs
  <2>. QED BY <1>3, <2>3, <2>4 DEF PlatformTopics
<1>. QED
  BY <1>2, <1>3

\* What Suggest returns is clean and long enough.
LEMMA SuggestFills ==
  ASSUME NEW platform \in DOMAIN Sizes, NEW topic, NEW n \in Int
  PROVE  /\ Suggest(platform, topic, n) \in Seq(Words) /\ Clean(Suggest(platform, topic, n))
         /\ Len(Suggest(platform, topic, n)) >= IF n <= 0 THEN 5 ELSE IF n > 8 THEN 8 ELSE n
<1> DEFINE limit == IF n <= 0 THEN 5 ELSE IF n > 8 THEN 8 ELSE n
           candidates == PlatformTopics(platform, topic) \o GlobalTopics
                           \o PlatformTopics(platform, "generic")
           picked == AppendNew(<<>>, candidates, limit)
<1>1. limit \in Int /\ limit <= 8
  OBVIOUS
<1>2. candidates \in Seq(Words)
  <2>1. GlobalTopics \in Seq(Words)
    <3>1. /\ <<"kelal">> \in Words /\ <<"ethiopia">> \in Words /\ <<"ethiopian">> \in Words
          /\ <<"addisababa">> \in Words /\ <<"madewithkelal">> \in Words
      <4>1. \A c \in FallbackSymbols \cup {"ethiopian"} : <<c>> \in Words
        BY OneIs DEF Words, Chars
      <4>. QED BY <4>1 DEF FallbackSymbols
    <3>. QED BY <3>1 DEF GlobalTopics
  <2>. QED BY <2>1, TopicsAreWords
<1>3. <<>> \in Seq(Words) /\ Clean(<<>>)
  BY OneIs DEF Clean
<1>4. picked \in Seq(Words) /\ Clean(picked)
  <2>. HIDE DEF limit, candidates
  <2>. QED BY <1>1, <1>2, <1>3, AppendNewIsClean
<1>5. Suggest(platform, topic, n) = TopUp(picked, limit)
  BY Zenon DEF Suggest
<1>. HIDE DEF picked
<1>6. /\ TopUp(picked, limit) \in Seq(Words) /\ Clean(TopUp(picked, limit))
      /\ Len(TopUp(picked, limit)) >= limit
  <2>. HIDE DEF limit
  <2>. QED BY <1>1, <1>4, TopUpFills
<1>. QED
  BY <1>5, <1>6

-----------------------------------------------------------------------------
(* The merge keeps the order. *)

\* The lists that come about when the tags of a list are added one by one.
Run(r, all) ==
  /\ r \in [0..Len(all) -> Seq(Words)] /\ r[0] = <<>>
  /\ \A i \in 1..Len(all) : r[i] = Added(r[i - 1], NormalizeHashtag(all[i]))

\* Every list has a run.
LEMMA RunExists ==
  ASSUME NEW all \in Seq(Words)
  PROVE  \E r : Run(r, all)
<1> DEFINE L == Len(all)
<1>0. L \in Nat /\ L + 1 \in Int /\ <<>> \in Seq(Words)
  BY OneIs
<1>1. PICK F : /\ F[0] = [tags |-> <<>>, stop |-> FALSE]
               /\ \A i \in 1..L : F[i] = AppendTurn(F[i - 1], NormalizeHashtag(all[i]), L + 1)
  <2>. HIDE DEF Words
  <2>1. \E F : /\ AppendNew(<<>>, all, L + 1) = F[Len(all)].tags
               /\ F[0] = [tags |-> <<>>, stop |-> FALSE]
               /\ \A i \in 1..Len(all) :
                    F[i] = AppendTurn(F[i - 1], NormalizeHashtag(all[i]), L + 1)
    BY <1>0, AppendTurns
  <2>. QED BY <2>1
<1>2. \A i \in 1..L : NormalizeHashtag(all[i]) \in Words
  BY NormalIsWord
<1> DEFINE T == {i \in 0..L : F[i] \in States /\ ~F[i].stop /\ Len(F[i].tags) <= i}
<1>3. 0 \in T
  <2>1. F[0] \in States /\ F[0].tags = <<>> /\ ~F[0].stop
    BY <1>0, <1>1 DEF States
  <2>. QED BY <1>0, <2>1
<1>. HIDE DEF L
<1>4. ASSUME NEW i \in 0..(L - 1), i \in T
      PROVE  i + 1 \in T /\ F[i + 1].tags = Added(F[i].tags, NormalizeHashtag(all[i + 1]))
  <2>1. /\ i + 1 \in 1..L /\ (i + 1) - 1 = i /\ i + 1 \in 0..L
        /\ F[i] \in States /\ ~F[i].stop /\ Len(F[i].tags) <= i
    BY <1>0, <1>4
  <2>2. F[i + 1] = AppendTurn(F[i], NormalizeHashtag(all[i + 1]), L + 1)
    BY <1>1, <2>1
  <2>3. NormalizeHashtag(all[i + 1]) \in Words /\ F[i].tags \in Seq(Words) /\ Len(F[i].tags) \in Nat
    BY <1>2, <2>1 DEF States
  <2>4. /\ F[i + 1] \in States /\ F[i + 1].tags = Added(F[i].tags, NormalizeHashtag(all[i + 1]))
        /\ \/ F[i + 1] = F[i]
           \/ F[i + 1].stop <=> Len(F[i].tags) + 1 >= L + 1
    BY <1>0, <2>1, <2>2, <2>3, AppendTurnIs
  <2>5. ~F[i + 1].stop
    BY <1>0, <2>1, <2>3, <2>4
  <2>6. Len(F[i + 1].tags) \in {Len(F[i].tags), Len(F[i].tags) + 1}
    BY <2>3, <2>4, AddedIs
  <2>. QED BY <2>1, <2>3, <2>4, <2>5, <2>6
<1>5. 0..L \subseteq T
  <2>. HIDE DEF T
  <2>. QED BY <1>0, <1>3, <1>4, InductionUpTo
<1> DEFINE r == [i \in 0..L |-> F[i].tags]
<1>6. r \in [0..L -> Seq(Words)] /\ r[0] = <<>>
  BY <1>0, <1>1, <1>5 DEF States
<1>7. ASSUME NEW i \in 1..L PROVE r[i] = Added(r[i - 1], NormalizeHashtag(all[i]))
  <2>1. i - 1 \in 0..(L - 1) /\ (i - 1) + 1 = i /\ i - 1 \in 0..L /\ i \in 0..L
    BY <1>0
  <2>2. i - 1 \in T
    <3>. HIDE DEF T
    <3>. QED BY <1>5, <2>1
  <2>3. F[(i - 1) + 1].tags = Added(F[i - 1].tags, NormalizeHashtag(all[(i - 1) + 1]))
    <3>. HIDE DEF T
    <3>. QED BY <1>4, <2>1, <2>2
  <2>. QED BY <2>1, <2>3
<1>8. Run(r, all)
  <2>. HIDE DEF r
  <2>. QED BY <1>6, <1>7 DEF Run, L
<1>. QED
  BY <1>8

\* A step of a run adds at most one tag, at the end.
LEMMA RunStep ==
  ASSUME NEW all \in Seq(Words), NEW r, Run(r, all), NEW i \in 0..(Len(all) - 1)
  PROVE  /\ i \in 0..Len(all) /\ i + 1 \in 0..Len(all) /\ i + 1 \in 1..Len(all)
         /\ r[i] \in Seq(Words) /\ r[i + 1] \in Seq(Words)
         /\ NormalizeHashtag(all[i + 1]) \in Words
         /\ r[i + 1] = Added(r[i], NormalizeHashtag(all[i + 1]))
         /\ Len(r[i + 1]) \in {Len(r[i]), Len(r[i]) + 1}
         /\ \A a \in 1..Len(r[i]) : r[i + 1][a] = r[i][a]
<1>1. i \in 0..Len(all) /\ i + 1 \in 0..Len(all) /\ i + 1 \in 1..Len(all) /\ (i + 1) - 1 = i
  OBVIOUS
<1>2. r[i] \in Seq(Words) /\ r[i + 1] \in Seq(Words)
  BY <1>1 DEF Run
<1>3. NormalizeHashtag(all[i + 1]) \in Words
  BY <1>1, NormalIsWord
<1>4. r[i + 1] = Added(r[i], NormalizeHashtag(all[i + 1]))
  BY <1>1 DEF Run
<1> DEFINE tag == NormalizeHashtag(all[i + 1])
           s == r[i]
<1>5. /\ Len(Added(s, tag)) \in {Len(s), Len(s) + 1}
      /\ \A a \in 1..Len(s) : Added(s, tag)[a] = s[a]
  <2>. s \in Seq(Words) /\ tag \in Words
    BY <1>2, <1>3
  <2>. HIDE DEF s, tag
  <2>. QED BY AddedIs
<1>. QED
  BY <1>1, <1>2, <1>3, <1>4, <1>5

\* A run grows by at most one tag a turn, and what it has it keeps in place.
LEMMA RunGrows ==
  ASSUME NEW all \in Seq(Words), NEW r, Run(r, all)
  PROVE  /\ \A i \in 0..Len(all) : r[i] \in Seq(Words) /\ Len(r[i]) \in 0..i
         /\ \A i, k \in 0..Len(all) :
              i <= k => Len(r[i]) <= Len(r[k]) /\ r[i] = SubSeq(r[k], 1, Len(r[i]))
<1> DEFINE L == Len(all)
<1>0. L \in Nat /\ \A i \in 0..L : r[i] \in Seq(Words) /\ Len(r[i]) \in Nat
  BY DEF Run
<1>1. \A i \in 0..L : Len(r[i]) \in 0..i
  <2> DEFINE T == {i \in 0..L : Len(r[i]) \in 0..i}
  <2>1. 0 \in T
    BY <1>0 DEF Run
  <2>2. ASSUME NEW i \in 0..(L - 1), i \in T PROVE i + 1 \in T
    <3>1. Len(r[i + 1]) \in {Len(r[i]), Len(r[i]) + 1} /\ i + 1 \in 0..L
      BY RunStep
    <3>. HIDE DEF L
    <3>. QED BY <2>2, <3>1
  <2>3. 0..L \subseteq T
    <3>. HIDE DEF T, L
    <3>. QED BY <1>0, <2>1, <2>2, InductionUpTo
  <2>. QED BY <2>3
<1>2. ASSUME NEW i \in 0..L
      PROVE  \A k \in 0..L :
               i <= k => Len(r[i]) <= Len(r[k]) /\ \A a \in 1..Len(r[i]) : r[k][a] = r[i][a]
  <2> DEFINE T == {k \in 0..L : i <= k => /\ Len(r[i]) <= Len(r[k])
                                          /\ \A a \in 1..Len(r[i]) : r[k][a] = r[i][a]}
  <2>. HIDE DEF L
  <2>1. 0 \in T
    BY <1>0
  <2>2. ASSUME NEW k \in 0..(L - 1), k \in T PROVE k + 1 \in T
    <3>1. /\ k + 1 \in 0..L /\ k \in 0..L /\ Len(r[k + 1]) \in {Len(r[k]), Len(r[k]) + 1}
          /\ \A a \in 1..Len(r[k]) : r[k + 1][a] = r[k][a]
      BY RunStep DEF L
    <3>2. Len(r[k]) \in Nat /\ Len(r[i]) \in Nat
      BY <1>0, <3>1
    <3>3. CASE i = k + 1
      BY <3>1, <3>2, <3>3, <1>0
    <3>4. CASE i # k + 1
      <4>1. SUFFICES ASSUME i <= k + 1
                     PROVE  Len(r[i]) <= Len(r[k + 1]) /\ \A a \in 1..Len(r[i]) : r[k + 1][a] = r[i][a]
        BY <3>1
      <4>2. i <= k
        BY <3>4, <4>1
      <4>3. Len(r[i]) <= Len(r[k]) /\ \A a \in 1..Len(r[i]) : r[k][a] = r[i][a]
        BY <2>2, <4>2
      <4>. QED BY <3>1, <3>2, <4>3
    <3>. QED BY <3>3, <3>4
  <2>3. 0..L \subseteq T
    <3>. HIDE DEF T
    <3>. QED BY <1>0, <2>1, <2>2, InductionUpTo
  <2>. QED BY <2>3
<1>3. ASSUME NEW i \in 0..L, NEW k \in 0..L, i <= k
      PROVE  Len(r[i]) <= Len(r[k]) /\ r[i] = SubSeq(r[k], 1, Len(r[i]))
  <2>1. /\ r[i] \in Seq(Words) /\ r[k] \in Seq(Words)
        /\ Len(r[i]) <= Len(r[k]) /\ \A a \in 1..Len(r[i]) : r[k][a] = r[i][a]
    BY <1>0, <1>2, <1>3
  <2> DEFINE s == r[i]
             t == r[k]
  <2>2. ASSUME NEW u \in Seq(Words), NEW v \in Seq(Words), Len(u) <= Len(v),
               \A a \in 1..Len(u) : v[a] = u[a]
        PROVE  u = SubSeq(v, 1, Len(u))
    BY <2>2
  <2>. QED BY <2>1, <2>2
<1>. QED
  BY <1>0, <1>1, <1>3

\* A list is part of another, behind an offset.
PartOf(more, o, all) ==
  o + Len(more) <= Len(all) /\ \A i \in 1..Len(more) : all[o + i] = more[i]

\* Seen from a run, AppendNew goes along it: to the end of the list it appends, or
\* to where it stops, which is at most one tag beyond the count.
LEMMA AppendRuns ==
  ASSUME NEW all \in Seq(Words), NEW r, Run(r, all), NEW o \in Nat, NEW more \in Seq(Words),
         PartOf(more, o, all), NEW n \in Int
  PROVE  \E j \in 0..Len(more) :
           /\ AppendNew(r[o], more, n) = r[o + j]
           /\ j = Len(more) \/ Len(r[o + j]) >= n
           /\ Len(r[o + j]) <= Len(r[o]) + 1 \/ Len(r[o + j]) <= n
<1> DEFINE L == Len(more)
<1>0. /\ L \in Nat /\ Len(all) \in Nat /\ o \in 0..Len(all)
      /\ r[o] \in Seq(Words) /\ Len(r[o]) \in Nat
      /\ o + L <= Len(all) /\ \A i \in 1..L : all[o + i] = more[i]
  <2>1. /\ L \in Nat /\ Len(all) \in Nat /\ o \in 0..Len(all)
        /\ o + L <= Len(all) /\ \A i \in 1..L : all[o + i] = more[i]
    BY DEF PartOf
  <2>. QED BY <2>1, RunGrows
<1>1. PICK F : /\ AppendNew(r[o], more, n) = F[L].tags
               /\ F[0] = [tags |-> r[o], stop |-> FALSE]
               /\ \A i \in 1..L : F[i] = AppendTurn(F[i - 1], NormalizeHashtag(more[i]), n)
  BY <1>0, AppendTurns
<1> DEFINE Along(i, j) ==
             /\ F[i].tags = r[o + j]
             /\ F[i].stop => /\ Len(F[i].tags) >= n
                             /\ Len(F[i].tags) <= Len(r[o]) + 1 \/ Len(F[i].tags) <= n
             /\ ~F[i].stop => j = i /\ (F[i].tags = r[o] \/ Len(F[i].tags) < n)
           T == {i \in 0..L : F[i] \in States /\ \E j \in 0..i : Along(i, j)}
<1>2. 0 \in T
  <2>1. F[0] \in States /\ F[0].tags = r[o] /\ ~F[0].stop
    BY <1>0, <1>1 DEF States
  <2>2. Along(0, 0)
    BY <2>1
  <2>. HIDE DEF Along
  <2>. QED BY <1>0, <2>1, <2>2
<1>. HIDE DEF L
<1>3. ASSUME NEW i \in 0..(L - 1), i \in T PROVE i + 1 \in T
  <2>1. i + 1 \in 1..L /\ (i + 1) - 1 = i /\ i + 1 \in 0..L /\ F[i] \in States
    BY <1>0, <1>3
  <2>2. PICK j \in 0..i : Along(i, j)
    BY <1>3
  <2> DEFINE tag == NormalizeHashtag(more[i + 1])
  <2>3. tag \in Words /\ F[i].tags \in Seq(Words) /\ Len(F[i].tags) \in Nat
    BY <2>1, NormalIsWord DEF States, L
  <2>4. F[i + 1] = AppendTurn(F[i], tag, n)
    BY <1>1, <2>1
  <2>5. CASE F[i].stop
    <3>1. F[i + 1] = F[i]
      <4>. HIDE DEF tag
      <4>. QED BY <2>1, <2>3, <2>4, <2>5, AppendTurnIs
    <3>2. Along(i + 1, j) /\ j \in 0..(i + 1)
      BY <2>2, <2>5, <3>1
    <3>. HIDE DEF Along
    <3>. QED BY <2>1, <3>1, <3>2
  <2>6. CASE ~F[i].stop
    <3>1. j = i /\ F[i].tags = r[o + i] /\ (F[i].tags = r[o] \/ Len(F[i].tags) < n)
      BY <2>2, <2>6
    <3>2. /\ o + i \in 0..(Len(all) - 1) /\ (o + i) + 1 = o + (i + 1)
          /\ all[o + (i + 1)] = more[i + 1]
      BY <1>0, <2>1 DEF L
    <3>3. r[o + (i + 1)] = Added(r[o + i], tag)
      BY <3>2, RunStep
    <3>4. /\ F[i + 1] \in States /\ F[i + 1].tags = Added(F[i].tags, tag)
          /\ \/ F[i + 1] = F[i]
             \/ /\ Len(Added(F[i].tags, tag)) = Len(F[i].tags) + 1
                /\ F[i + 1].stop <=> Len(F[i].tags) + 1 >= n
      <4>. HIDE DEF tag
      <4>. QED BY <2>1, <2>3, <2>4, <2>6, AppendTurnIs
    <3>. HIDE DEF tag
    <3>5. F[i + 1].tags = r[o + (i + 1)]
      BY <3>1, <3>3, <3>4
    <3>6. CASE F[i + 1] = F[i]
      <4>1. Along(i + 1, i + 1)
        BY <2>6, <3>1, <3>5, <3>6
      <4>. HIDE DEF Along
      <4>. QED BY <2>1, <3>4, <4>1
    <3>7. CASE F[i + 1] # F[i]
      <4>1. /\ Len(F[i + 1].tags) = Len(F[i].tags) + 1
            /\ F[i + 1].stop <=> Len(F[i].tags) + 1 >= n
        BY <3>4, <3>7
      <4>2. F[i + 1].stop => /\ Len(F[i + 1].tags) >= n
                             /\ Len(F[i + 1].tags) <= Len(r[o]) + 1 \/ Len(F[i + 1].tags) <= n
        BY <1>0, <2>3, <3>1, <4>1, SMTT(30)
      <4>3. ~F[i + 1].stop => Len(F[i + 1].tags) < n
        BY <2>3, <4>1
      <4>4. Along(i + 1, i + 1)
        BY <3>5, <4>2, <4>3
      <4>. HIDE DEF Along
      <4>. QED BY <2>1, <3>4, <4>4
    <3>. QED BY <3>6, <3>7
  <2>. QED BY <2>5, <2>6
<1>4. 0..L \subseteq T
  <2>. HIDE DEF T
  <2>. QED BY <1>0, <1>2, <1>3, InductionUpTo
<1>5. PICK j \in 0..L : Along(L, j)
  <2>1. L \in T
    <3>. HIDE DEF T
    <3>. QED BY <1>0, <1>4
  <2>. QED BY <2>1
<1>6. o + j \in 0..Len(all) /\ Len(r[o + j]) \in Nat
  <2>1. o + j \in 0..Len(all)
    BY <1>0, <1>5 DEF L
  <2>. QED BY <2>1, RunGrows
<1>7. CASE F[L].stop
  BY <1>1, <1>5, <1>7 DEF L
<1>8. CASE ~F[L].stop
  <2>1. j = L /\ F[L].tags = r[o + j] /\ (F[L].tags = r[o] \/ Len(F[L].tags) < n)
    BY <1>5, <1>8
  <2>2. Len(r[o + j]) <= Len(r[o]) + 1 \/ Len(r[o + j]) <= n
    BY <1>0, <1>6, <2>1
  <2>. QED BY <1>1, <2>1, <2>2 DEF L
<1>. QED
  BY <1>7, <1>8

\* So does TopUp, which stops at the count.
LEMMA TopUpRuns ==
  ASSUME NEW all \in Seq(Words), NEW r, Run(r, all), NEW o \in Nat, PartOf(Fallbacks, o, all),
         NEW n \in Int, Len(r[o]) < n
  PROVE  \E j \in 0..Len(Fallbacks) : TopUp(r[o], n) = r[o + j] /\ Len(r[o + j]) <= n
<1> DEFINE L == Len(Fallbacks)
<1>0. /\ Len(all) \in Nat /\ o \in 0..Len(all) /\ r[o] \in Seq(Words)
      /\ Len(r[o]) \in Nat
      /\ o + L <= Len(all) /\ \A i \in 1..L : all[o + i] = Fallbacks[i]
  <2>1. /\ Len(all) \in Nat /\ o \in 0..Len(all)
        /\ o + L <= Len(all) /\ \A i \in 1..L : all[o + i] = Fallbacks[i]
    BY FallbacksAre, SMTT(30) DEF PartOf
  <2>. QED BY <2>1, RunGrows
<1>1. PICK F : /\ TopUp(r[o], n) = F[L].tags
               /\ F[0] = [tags |-> r[o], stop |-> FALSE]
               /\ \A i \in 1..L : F[i] = TopUpTurn(F[i - 1], Fallbacks[i], n)
  BY <1>0, TopUpTurns
<1>9. L \in Nat /\ \A i \in 1..L : Fallbacks[i] \in Words /\ NormalizeHashtag(Fallbacks[i]) = Fallbacks[i]
  BY FallbacksAre
<1> DEFINE Along(i, j) == /\ F[i].tags = r[o + j] /\ Len(F[i].tags) <= n
                          /\ ~F[i].stop => j = i /\ Len(F[i].tags) < n
           T == {i \in 0..L : F[i] \in States /\ \E j \in 0..i : Along(i, j)}
<1>2. 0 \in T
  <2>1. F[0] \in States /\ F[0].tags = r[o] /\ ~F[0].stop
    BY <1>0, <1>1 DEF States
  <2>2. Along(0, 0)
    BY <1>0, <2>1
  <2>. HIDE DEF Along
  <2>. QED BY <1>9, <2>1, <2>2
<1>. HIDE DEF L
<1>3. ASSUME NEW i \in 0..(L - 1), i \in T PROVE i + 1 \in T
  <2>1. i + 1 \in 1..L /\ (i + 1) - 1 = i /\ i + 1 \in 0..L /\ F[i] \in States
    BY <1>9, <1>3
  <2>2. PICK j \in 0..i : Along(i, j)
    BY <1>3
  <2> DEFINE tag == Fallbacks[i + 1]
  <2>3. /\ tag \in Words /\ NormalizeHashtag(tag) = tag
        /\ F[i].tags \in Seq(Words) /\ Len(F[i].tags) \in Nat
    BY <1>9, <2>1 DEF States
  <2>4. F[i + 1] = TopUpTurn(F[i], tag, n)
    BY <1>1, <2>1
  <2>5. CASE F[i].stop
    <3>1. F[i + 1] = F[i]
      <4>. HIDE DEF tag
      <4>. QED BY <2>1, <2>3, <2>4, <2>5, TopUpTurnIs
    <3>2. Along(i + 1, j) /\ j \in 0..(i + 1)
      BY <2>2, <2>5, <3>1
    <3>. HIDE DEF Along
    <3>. QED BY <2>1, <3>1, <3>2
  <2>6. CASE ~F[i].stop
    <3>1. j = i /\ F[i].tags = r[o + i] /\ Len(F[i].tags) < n
      BY <2>2, <2>6
    <3>2. /\ o + i \in 0..(Len(all) - 1) /\ (o + i) + 1 = o + (i + 1)
          /\ all[o + (i + 1)] = tag
      BY <1>0, <1>9, <2>1 DEF L
    <3>3. r[o + (i + 1)] = Added(r[o + i], tag)
      <4>1. r[(o + i) + 1] = Added(r[o + i], NormalizeHashtag(all[(o + i) + 1]))
        BY <3>2, RunStep
      <4>. QED BY <2>3, <3>2, <4>1
    <3>. HIDE DEF tag
    <3>4. /\ F[i + 1] \in States /\ F[i + 1].tags = Added(F[i].tags, tag)
          /\ F[i + 1].stop <=> Len(Added(F[i].tags, tag)) >= n
      BY <2>1, <2>3, <2>4, <2>6, TopUpTurnIs
    <3>5. Len(Added(F[i].tags, tag)) \in {Len(F[i].tags), Len(F[i].tags) + 1}
      BY <2>3, AddedIs
    <3>6. Along(i + 1, i + 1)
      BY <2>3, <3>1, <3>3, <3>4, <3>5
    <3>. HIDE DEF Along
    <3>. QED BY <2>1, <3>4, <3>6
  <2>. QED BY <2>5, <2>6
<1>4. L \in T
  <2>1. 0..L \subseteq T
    <3>. HIDE DEF T
    <3>. QED BY <1>9, <1>2, <1>3, InductionUpTo
  <2>. HIDE DEF T
  <2>. QED BY <1>9, <2>1
<1>. QED
  BY <1>1, <1>4 DEF L

\* A list of members of a set is one of members of a larger set.
LEMMA SeqLarger ==
  ASSUME NEW S, NEW U, S \subseteq U, NEW s \in Seq(S)
  PROVE  s \in Seq(U)
OBVIOUS

\* Where the elements of three lists are when they are put together.
LEMMA ThreeLists ==
  ASSUME NEW S, NEW u \in Seq(S), NEW v \in Seq(S), NEW w \in Seq(S)
  PROVE  /\ u \o v \o w \in Seq(S) /\ Len(u \o v \o w) = Len(u) + Len(v) + Len(w)
         /\ PartOf(u, 0, u \o v \o w) /\ PartOf(v, Len(u), u \o v \o w)
         /\ PartOf(w, Len(u) + Len(v), u \o v \o w)
BY DEF PartOf

\* The merged list is what the provider, the bank and the fallbacks give, cut off.
LEMMA MergeIs ==
  ASSUME NEW provider \in Seq(Words), NEW bank \in Seq(Words), NEW n \in Int
  PROVE  LET merge == MergeHashtags(provider, bank, n)
             all   == Distinct(provider \o bank \o Fallbacks)
             own   == Len(Distinct(provider))
         IN  /\ merge = SubSeq(all, 1, Len(merge))
             /\ Len(merge) >= own /\ Len(merge) >= Limit(n)
             /\ Len(merge) <= IF own < Limit(n) THEN Limit(n) ELSE own + 1
<1> DEFINE all == provider \o bank \o Fallbacks
           p == Len(provider)
           b == Len(bank)
           L == Len(all)
           lim == Limit(n)
<1>1. /\ p \in Nat /\ b \in Nat /\ L = p + b + 8 /\ all \in Seq(Words)
      /\ PartOf(provider, 0, all) /\ PartOf(bank, p, all) /\ PartOf(Fallbacks, p + b, all)
  <2>1. Fallbacks \in Seq(Words) /\ Len(Fallbacks) = 8
    BY FallbacksAre
  <2>2. p \in Nat /\ b \in Nat
    OBVIOUS
  <2>3. /\ all \in Seq(Words) /\ Len(all) = p + b + Len(Fallbacks)
        /\ PartOf(provider, 0, all) /\ PartOf(bank, p, all) /\ PartOf(Fallbacks, p + b, all)
    <3>. HIDE DEF Words
    <3>. QED BY <2>1, ThreeLists
  <2>. HIDE DEF all, p, b
  <2>. QED BY <2>1, <2>2, <2>3
<1>2. lim \in Int /\ lim <= 8 /\ <<>> \in Seq(Words) /\ Clean(<<>>)
  BY OneIs DEF Limit, Clean
<1>3. PICK r : Run(r, all)
  BY <1>1, RunExists
<1>. HIDE DEF all, lim
<1>4. /\ r[0] = <<>> /\ \A i \in 0..L : r[i] \in Seq(Words) /\ Len(r[i]) \in 0..i
      /\ \A i, k \in 0..L : i <= k => Len(r[i]) <= Len(r[k]) /\ r[i] = SubSeq(r[k], 1, Len(r[i]))
  BY <1>1, <1>3, RunGrows DEF Run
<1>5. Distinct(provider) = r[p]
  <2>1. PICK j \in 0..p : /\ AppendNew(r[0], provider, p + 1) = r[0 + j]
                          /\ j = p \/ Len(r[0 + j]) >= p + 1
    <3>1. 0 \in Nat /\ p + 1 \in Int
      BY <1>1
    <3>. HIDE DEF Words, p
    <3>3. \E j \in 0..Len(provider) :
             /\ AppendNew(r[0], provider, p + 1) = r[0 + j]
             /\ j = Len(provider) \/ Len(r[0 + j]) >= p + 1
             /\ Len(r[0 + j]) <= Len(r[0]) + 1 \/ Len(r[0 + j]) <= p + 1
      BY <1>1, <1>3, <3>1, AppendRuns, ZenonT(60)
    <3>. QED BY <3>3 DEF p
  <2>2. 0 + j = j /\ Len(r[j]) <= p
    <3>1. j \in 0..L /\ j \in 0..p /\ p \in Nat
      BY <1>1
    <3>2. Len(r[j]) \in 0..j
      BY <1>4, <3>1
    <3>. HIDE DEF p, L
    <3>. QED BY <3>1, <3>2
  <2>3. j = p
    BY <1>1, <1>4, <2>1, <2>2
  <2>. QED BY <1>4, <2>1, <2>2, <2>3 DEF Distinct, Whole
<1>6. Distinct(all) = r[L]
  <2>1. PICK j \in 0..L : /\ AppendNew(r[0], all, L + 1) = r[0 + j]
                          /\ j = L \/ Len(r[0 + j]) >= L + 1
    <3>1. 0 \in Nat /\ L + 1 \in Int /\ all \in Seq(Words)
      BY <1>1
    <3>2. PartOf(all, 0, all)
      BY <1>1 DEF PartOf
    <3>. HIDE DEF L
    <3>3. \E j \in 0..Len(all) :
             /\ AppendNew(r[0], all, L + 1) = r[0 + j]
             /\ j = Len(all) \/ Len(r[0 + j]) >= L + 1
             /\ Len(r[0 + j]) <= Len(r[0]) + 1 \/ Len(r[0 + j]) <= L + 1
      BY <1>3, <3>1, <3>2, AppendRuns, ZenonT(60)
    <3>. QED BY <3>3 DEF L
  <2>2. 0 + j = j /\ Len(r[j]) <= L
    BY <1>1, <1>4
  <2>3. j = L
    BY <1>1, <1>4, <2>1, <2>2
  <2>. QED BY <1>4, <2>1, <2>2, <2>3 DEF Distinct, Whole
<1> DEFINE most == AppendNew(r[p], bank, lim)
           merge == MergeHashtags(provider, bank, n)
<1>7. merge = IF Len(most) < lim THEN TopUp(most, lim) ELSE most
  BY <1>5, Zenon DEF MergeHashtags, Distinct, lim
<1>8. PICK j \in 0..b : /\ most = r[p + j] /\ (j = b \/ Len(r[p + j]) >= lim)
                        /\ Len(r[p + j]) <= Len(r[p]) + 1 \/ Len(r[p + j]) <= lim
  <2>1. p \in Nat /\ all \in Seq(Words) /\ PartOf(bank, p, all)
    BY <1>1
  <2>. HIDE DEF p, Words
  <2>2. \E j \in 0..Len(bank) :
           /\ AppendNew(r[p], bank, lim) = r[p + j]
           /\ j = Len(bank) \/ Len(r[p + j]) >= lim
           /\ Len(r[p + j]) <= Len(r[p]) + 1 \/ Len(r[p + j]) <= lim
    BY <1>2, <1>3, <2>1, AppendRuns, ZenonT(60)
  <2>. QED BY <2>2
<1>9. p \in 0..L /\ p + j \in 0..L /\ p + b \in 0..L /\ L \in 0..L /\ L \in Nat
  BY <1>1
<1>10. Clean(most) /\ most \in Seq(Words)
  <2>1. r[p] \in Seq(Words) /\ Clean(r[p])
    <3>1. Whole(provider) \in Int
      BY <1>1 DEF Whole
    <3>. QED BY <1>2, <1>5, <3>1, AppendNewIsClean DEF Distinct
  <2>. QED BY <1>2, <2>1, AppendNewIsClean
<1>11. \E x \in 0..L : /\ merge = r[x] /\ p <= x /\ Len(r[x]) >= lim
                       /\ Len(r[x]) <= Len(r[p]) + 1 \/ Len(r[x]) <= lim
  <2>1. CASE Len(most) < lim
    <3>1. j = b /\ most = r[p + b] /\ Len(r[p + b]) < lim
      <4>1. Len(most) \in Nat /\ lim \in Int
        <5>. HIDE DEF most, lim
        <5>. QED BY <1>2, <1>10
      <4>2. ~(Len(most) >= lim)
        <5>. HIDE DEF most, lim
        <5>. QED BY <2>1, <4>1
      <4>3. most = r[p + j] /\ (j = b \/ Len(r[p + j]) >= lim)
        BY <1>8, Zenon
      <4>. HIDE DEF most, lim, p, b
      <4>. QED BY <2>1, <4>2, <4>3
    <3>2. PICK k \in 0..8 : TopUp(r[p + b], lim) = r[(p + b) + k] /\ Len(r[(p + b) + k]) <= lim
      <4>1. p + b \in Nat /\ Len(Fallbacks) = 8 /\ PartOf(Fallbacks, p + b, all)
        BY <1>1, FallbacksAre
      <4> DEFINE o == p + b
      <4>. HIDE DEF o
      <4>2. \E k \in 0..Len(Fallbacks) : TopUp(r[o], lim) = r[o + k] /\ Len(r[o + k]) <= lim
        BY <1>1, <1>2, <1>3, <3>1, <4>1, TopUpRuns DEF o
      <4>. QED BY <4>1, <4>2 DEF o
    <3>3. merge = TopUp(r[p + b], lim) /\ Len(TopUp(r[p + b], lim)) >= lim
      <4>1. Len(TopUp(most, lim)) >= lim
        <5>. HIDE DEF most
        <5>. QED BY <1>2, <1>10, TopUpFills
      <4>. QED BY <1>7, <2>1, <3>1, <4>1
    <3>4. (p + b) + k \in 0..L /\ p <= (p + b) + k
      BY <1>1
    <3>. QED BY <3>2, <3>3, <3>4
  <2>2. CASE ~(Len(most) < lim)
    <3>1. merge = r[p + j] /\ p <= p + j
      BY <1>1, <1>7, <1>8, <2>2
    <3>2. Len(r[p + j]) \in Int /\ Len(r[p + j]) >= lim
      BY <1>2, <1>4, <1>8, <1>9, <2>2
    <3>. QED BY <1>8, <1>9, <3>1, <3>2
  <2>. QED BY <2>1, <2>2
<1>12. PICK x \in 0..L : /\ merge = r[x] /\ p <= x /\ Len(r[x]) >= lim
                         /\ Len(r[x]) <= Len(r[p]) + 1 \/ Len(r[x]) <= lim
  BY <1>11
<1>13. Len(r[p]) <= Len(r[x]) /\ r[x] = SubSeq(r[L], 1, Len(r[x]))
  <2>1. x <= L /\ p <= x /\ p \in 0..L /\ L \in 0..L
    BY <1>9, <1>12
  <2>. HIDE DEF p, L
  <2>. QED BY <1>4, <2>1
<1>14. Len(r[x]) \in Nat /\ Len(r[p]) \in Nat
  BY <1>4, <1>9
<1>15. /\ merge = SubSeq(Distinct(all), 1, Len(merge))
       /\ Len(merge) >= Len(Distinct(provider)) /\ Len(merge) >= lim
       /\ Len(merge) <= IF Len(Distinct(provider)) < lim THEN lim ELSE Len(Distinct(provider)) + 1
  <2>. HIDE DEF merge
  <2>. QED BY <1>2, <1>5, <1>6, <1>12, <1>13, <1>14
<1>. QED
  BY <1>15, Zenon DEF all, lim

-----------------------------------------------------------------------------
(* What was suggested and merged is what the two functions return. *)

TagInv ==
  /\ ask \in TagAsks
  /\ suggested = Nothing \/ suggested = Suggest(ask.platform, MatchTopic(ask.found), ask.n)
  /\ merged = Nothing \/ (suggested # Nothing /\ merged = MergeHashtags(ask.provider, suggested, ask.n))

\* What is asked for: a platform of the bank, a number, words of a provider.
LEMMA AskIs ==
  ASSUME ask \in TagAsks
  PROVE  ask.platform \in DOMAIN Sizes /\ ask.n \in Int /\ ask.provider \in Seq(Words)
<1>1. ask.platform \in DOMAIN Sizes /\ ask.n \in Wanted /\ ask.provider \in Suggestions
  BY DEF TagAsks
<1>2. ask.provider \in Seq(Seq(STRING))
  BY <1>1, TagAssumption
<1>3. Seq(STRING) \subseteq Words
  <2>1. STRING \subseteq Chars
    BY DEF Chars
  <2>. QED BY <2>1, SeqLarger DEF Words
<1>4. ask.provider \in Seq(Words)
  <2>. HIDE DEF Words
  <2>. QED BY <1>2, <1>3, SeqLarger
<1>. QED
  BY <1>1, <1>4, TagAssumption

\* The invariant gives what was promised of the tags.
LEMMA InvPromises == TagInv => TagsAsPromised
<1>. SUFFICES ASSUME TagInv PROVE BankFills /\ MergedInOrder
  BY DEF TagsAsPromised
<1>1. ask.platform \in DOMAIN Sizes /\ ask.n \in Int /\ ask.provider \in Seq(Words)
  BY AskIs DEF TagInv
<1>2. ASSUME suggested # Nothing
      PROVE  /\ suggested \in Seq(Words) /\ Clean(suggested)
             /\ Len(suggested) >= IF ask.n <= 0 THEN 5 ELSE IF ask.n > 8 THEN 8 ELSE ask.n
  <2>1. suggested = Suggest(ask.platform, MatchTopic(ask.found), ask.n)
    BY <1>2 DEF TagInv
  <2> DEFINE t == MatchTopic(ask.found)
             f == ask.platform
             m == ask.n
  <2>. HIDE DEF t, f, m
  <2>. QED BY <1>1, <2>1, SuggestFills DEF t, f, m
<1>3. BankFills
  <2>. SUFFICES ASSUME suggested # Nothing
                PROVE  /\ Len(suggested) >= (IF ask.n <= 0 THEN 5 ELSE IF ask.n > 8 THEN 8 ELSE ask.n)
                       /\ IsInjective(suggested) /\ <<>> \notin Range(suggested)
    BY Zenon DEF BankFills
  <2>1. IsInjective(suggested)
    BY <1>2 DEF Clean, IsInjective
  <2>2. <<>> \notin Range(suggested)
    BY <1>2 DEF Clean, Range
  <2>. QED BY <1>2, <2>1, <2>2
<1>4. MergedInOrder
  <2>1. CASE merged = Nothing
    BY <2>1 DEF MergedInOrder
  <2>2. CASE merged # Nothing
    <3>1. suggested # Nothing /\ merged = MergeHashtags(ask.provider, suggested, ask.n)
      BY <2>2 DEF TagInv
    <3>2. suggested \in Seq(Words)
      BY <1>2, <3>1
    <3> DEFINE merge == MergeHashtags(ask.provider, suggested, ask.n)
               all   == Distinct(ask.provider \o suggested \o Fallbacks)
               own   == Len(Distinct(ask.provider))
    <3>3. /\ merge = SubSeq(all, 1, Len(merge))
          /\ Len(merge) >= own /\ Len(merge) >= Limit(ask.n)
          /\ Len(merge) <= IF own < Limit(ask.n) THEN Limit(ask.n) ELSE own + 1
      BY <1>1, <3>2, MergeIs
    <3>. QED BY <3>1, <3>3, Zenon DEF MergedInOrder
  <2>. QED BY <2>1, <2>2
<1>. QED
  BY <1>3, <1>4

\* The tags the bank suggests fill a list without a repetition, and the merged list
\* is the provider's tags, the bank's and the fallbacks in order, each once: none of
\* the provider's lost, enough of them, and at most one too many.
THEOREM TagsKeepTheirPromise == TagSpec => []TagsAsPromised
<1>1. TagInit => TagInv
  BY DEF TagInit, TagInv
<1>2. TagInv /\ [TagNext]_tagVars => TagInv'
  <2>. SUFFICES ASSUME TagInv, [TagNext]_tagVars PROVE TagInv'
    OBVIOUS
  <2>1. CASE UNCHANGED tagVars
    BY <2>1 DEF TagInv, tagVars
  <2>2. CASE SuggestTags
    BY <2>2 DEF TagInv, SuggestTags
  <2>3. CASE MergeTags
    BY <2>3 DEF TagInv, MergeTags
  <2>. QED BY <2>1, <2>2, <2>3 DEF TagNext
<1>. QED
  BY <1>1, <1>2, InvPromises, PTL DEF TagSpec
=============================================================================
