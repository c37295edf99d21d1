------------------------- MODULE ConversationProofs -------------------------
(***************************************************************************)
(* Theorems about a conversation.  First what the chat shows of it: for    *)
(* any texts, updates and failures.  Then its summaries and prompts, for   *)
(* any number of processes that build prompts from one database, any       *)
(* number of rows, any costs and any settings of the compactor.            *)
(***************************************************************************)
EXTENDS TelegramBot, HistoryCompactor, WellFoundedInduction, SequenceTheorems, TLAPS

\* A set of numbers has a least one.
LEMMA LeastNumber ==
  ASSUME NEW T, T \subseteq Nat, T # {}
  PROVE  \E x \in T : \A y \in T : x <= y
<1> DEFINE R == OpToRel(<, Nat)
<1>1. IsWellFoundedOn(R, Nat)
  BY NatLessThanWellFounded
<1>2. \A x, y \in Nat : <<x, y>> \in R <=> x < y
  BY DEF OpToRel
<1> HIDE DEF R
<1>3. PICK x \in T : \A y \in T : ~(<<y, x>> \in R)
  BY <1>1, WFMin
<1>4. \A y \in T : x \in Nat /\ y \in Nat /\ ~(y < x)
  BY <1>2, <1>3
<1>5. \A y \in T : x <= y
  BY <1>4
<1>6. QED
  BY <1>5

-----------------------------------------------------------------------------
(* _split_text *)

\* The least of a set of numbers.
LEMMA MinOfNumbers ==
  ASSUME NEW T, T \subseteq Nat, T # {}
  PROVE  Min(T) \in T /\ \A y \in T : Min(T) <= y
<1>1. \E x \in T : \A y \in T : x <= y
  BY LeastNumber
<1>2. QED
  BY <1>1 DEF Min

\* The greatest of a set of numbers that has a bound.
LEMMA MaxOfNumbers ==
  ASSUME NEW n \in Nat, NEW T, T \subseteq 0..n, T # {}
  PROVE  Max(T) \in T /\ \A y \in T : Max(T) >= y
<1> DEFINE below == {n - y : y \in T}
<1>1. below \subseteq Nat /\ below # {}
  <2>1. \A y \in T : n - y \in Nat
    OBVIOUS
  <2>2. PICK y \in T : TRUE
    OBVIOUS
  <2>3. n - y \in below
    OBVIOUS
  <2>4. QED
    BY <2>1, <2>3
<1>2. PICK d \in below : \A e \in below : d <= e
  <2> HIDE DEF below
  <2>1. QED
    BY <1>1, LeastNumber
<1>3. PICK x \in T : d = n - x
  OBVIOUS
<1>4. \A y \in T : x >= y
  <2> SUFFICES ASSUME NEW y \in T
               PROVE  x >= y
    OBVIOUS
  <2>1. n - x <= n - y
    BY <1>2, <1>3
  <2>2. x \in Int /\ y \in Int /\ n \in Int
    OBVIOUS
  <2>3. QED
    BY <2>1, <2>2
<1>5. QED
  BY <1>4 DEF Max

\* The longest message is long enough for the heading.
LEMMA LimitIsNumber == Limit \in Nat /\ Limit >= 3
<1>1. Len(Heading) = 3
  BY DEF Heading
<1>2. QED
  BY <1>1, BotAssumption

\* A piece of a text.
LEMMA Piece ==
  ASSUME NEW text \in Texts, NEW i \in Nat \ {0}, NEW j \in Nat, i <= j + 1, j <= Len(text)
  PROVE  /\ SubSeq(text, i, j) \in Texts /\ Len(SubSeq(text, i, j)) = j - i + 1
         /\ \A k \in 1..j - i + 1 : SubSeq(text, i, j)[k] = text[i + k - 1]
<1>1. Len(text) \in Nat
  BY LenProperties DEF Texts
<1>2. \A k \in i..j : text[k] \in Nat
  <2> SUFFICES ASSUME NEW k \in i..j
               PROVE  text[k] \in Nat
    OBVIOUS
  <2>1. k \in 1..Len(text)
    BY <1>1
  <2>2. QED
    BY <2>1, ElementOfSeq DEF Texts
<1>3. /\ SubSeq(text, i, j) \in Seq(Nat)
      /\ Len(SubSeq(text, i, j)) = IF i <= j THEN j - i + 1 ELSE 0
      /\ \A k \in 1..j - i + 1 : SubSeq(text, i, j)[k] = text[i + k - 1]
  BY <1>2, SubSeqProperties
<1>4. QED
  BY <1>3 DEF Texts

\* A piece of a piece.
LEMMA PieceOfPiece ==
  ASSUME NEW text \in Texts, NEW i \in Nat \ {0}, NEW j \in Nat, i <= j + 1, j <= Len(text),
         NEW m \in Nat \ {0}, NEW n \in Nat, m <= n + 1, n <= j - i + 1
  PROVE  SubSeq(SubSeq(text, i, j), m, n) = SubSeq(text, i + m - 1, i + n - 1)
<1> DEFINE piece == SubSeq(text, i, j)
           inner == SubSeq(piece, m, n)
           outer == SubSeq(text, i + m - 1, i + n - 1)
<1>1. /\ piece \in Texts /\ Len(piece) = j - i + 1
      /\ \A k \in 1..j - i + 1 : piece[k] = text[i + k - 1]
  BY Piece
<1> HIDE DEF piece
<1>2. /\ inner \in Texts /\ Len(inner) = n - m + 1
      /\ \A k \in 1..n - m + 1 : inner[k] = piece[m + k - 1]
  <2>1. n <= Len(piece)
    BY <1>1
  <2>2. QED
    BY <1>1, <2>1, Piece
<1>3. Len(text) \in Nat
  BY LenProperties DEF Texts
<1>4. /\ i + m - 1 \in Nat \ {0} /\ i + n - 1 \in Nat /\ i + m - 1 <= (i + n - 1) + 1
      /\ i + n - 1 <= Len(text) /\ (i + n - 1) - (i + m - 1) + 1 = n - m + 1
  BY <1>3
<1>5. /\ outer \in Texts /\ Len(outer) = (i + n - 1) - (i + m - 1) + 1
      /\ \A k \in 1..(i + n - 1) - (i + m - 1) + 1 : outer[k] = text[(i + m - 1) + k - 1]
  BY <1>4, Piece
<1> HIDE DEF inner, outer
<1>6. Len(outer) = n - m + 1 /\ \A k \in 1..n - m + 1 : outer[k] = text[(i + m - 1) + k - 1]
  BY <1>4, <1>5
<1>7. ASSUME NEW k \in 1..n - m + 1
      PROVE  inner[k] = outer[k]
  <2>1. m + k - 1 \in 1..j - i + 1 /\ i + (m + k - 1) - 1 = (i + m - 1) + k - 1
    OBVIOUS
  <2>2. piece[m + k - 1] = text[i + (m + k - 1) - 1]
    BY <1>1, <2>1
  <2>3. QED
    BY <1>2, <1>6, <2>1, <2>2
<1>8. inner = outer
  BY <1>2, <1>5, <1>6, <1>7, SeqEqual DEF Texts
<1>9. QED
  BY <1>8 DEF inner, outer, piece

\* A part that is cut off is not empty and not too long.
LEMMA CutBounds ==
  ASSUME NEW text
  PROVE  Cut(text) \in 1..Limit
<1> DEFINE at == {i \in 2..Limit : text[i] = NL}
<1>1. Limit \in Nat /\ Limit >= 3
  BY LimitIsNumber
<1>2. CASE at = {}
  BY <1>1, <1>2 DEF Cut
<1>3. CASE at # {}
  <2>1. at \subseteq 0..Limit /\ at \subseteq 2..Limit
    BY <1>1
  <2>2. Cut(text) = Max(at) - 1
    BY <1>3 DEF Cut
  <2> HIDE DEF at
  <2>3. Max(at) \in at
    BY <1>1, <1>3, <2>1, MaxOfNumbers
  <2>4. Max(at) \in 2..Limit
    BY <2>1, <2>3
  <2>5. QED
    BY <1>1, <2>2, <2>4
<1>4. QED
  BY <1>2, <1>3

\* The first part is the beginning of the text, and empty only if the text is.
LEMMA PartIsBeginning ==
  ASSUME NEW text \in Texts
  PROVE  /\ Part(text) \in Texts /\ Len(Part(text)) \in Nat
         /\ Len(Part(text)) <= Limit /\ Len(Part(text)) <= Len(text)
         /\ Part(text) = SubSeq(text, 1, Len(Part(text)))
         /\ \A k \in 1..Len(Part(text)) : Part(text)[k] = text[k]
         /\ text # <<>> => Len(Part(text)) >= 1
<1>1. Len(text) \in Nat /\ Limit \in Nat /\ (text # <<>> => Len(text) # 0)
  BY LimitIsNumber, LenProperties, EmptySeq DEF Texts
<1>2. CASE Len(text) <= Limit
  <2>1. Part(text) = text
    BY <1>2 DEF Part
  <2>2. SubSeq(text, 1, Len(text)) = text
    BY SubSeqFull DEF Texts
  <2>3. QED
    BY <1>1, <1>2, <2>1, <2>2
<1>3. CASE ~(Len(text) <= Limit)
  <2> DEFINE cut == Cut(text)
  <2>1. cut \in Nat /\ 1 <= cut /\ cut <= Limit /\ cut <= Len(text)
    BY <1>1, <1>3, CutBounds
  <2>2. Part(text) = SubSeq(text, 1, cut)
    BY <1>3 DEF Part
  <2> HIDE DEF cut
  <2>3. /\ SubSeq(text, 1, cut) \in Texts /\ Len(SubSeq(text, 1, cut)) = cut - 1 + 1
        /\ \A k \in 1..cut - 1 + 1 : SubSeq(text, 1, cut)[k] = text[1 + k - 1]
    BY <2>1, Piece
  <2>4. Len(Part(text)) = cut /\ Part(text) \in Texts
    BY <2>1, <2>2, <2>3
  <2>5. \A k \in 1..cut : Part(text)[k] = text[k]
    BY <2>1, <2>2, <2>3
  <2>6. QED
    BY <1>1, <2>1, <2>2, <2>4, <2>5
<1>4. QED
  BY <1>2, <1>3

\* Strip takes newlines from the beginning, and all of them.
LEMMA StripTakesNewlines ==
  ASSUME NEW text \in Texts
  PROVE  \E i \in 1..Len(text) + 1 :
           /\ Strip(text) = SubSeq(text, i, Len(text)) /\ OnlyNewlines(text, 1, i - 1)
           /\ i <= Len(text) => text[i] # NL
<1> DEFINE at == {i \in DOMAIN text : text[i] # NL}
<1>1. Len(text) \in Nat /\ DOMAIN text = 1..Len(text)
  BY LenProperties DEF Texts
<1>2. CASE at = {}
  <2>1. Strip(text) = <<>>
    BY <1>2 DEF Strip
  <2>2. SubSeq(text, Len(text) + 1, Len(text)) = <<>>
    BY <1>1, SubSeqEmpty
  <2>3. OnlyNewlines(text, 1, Len(text))
    BY <1>1, <1>2 DEF OnlyNewlines
  <2>4. Len(text) + 1 \in 1..Len(text) + 1 /\ (Len(text) + 1) - 1 = Len(text)
        /\ ~(Len(text) + 1 <= Len(text))
    BY <1>1
  <2>5. QED
    BY <2>1, <2>2, <2>3, <2>4
<1>3. CASE at # {}
  <2> DEFINE i == Min(at)
  <2>1. Strip(text) = SubSeq(text, i, Len(text))
    BY <1>3 DEF Strip
  <2>2. at \subseteq Nat
    BY <1>1
  <2>3. i \in at /\ \A y \in at : i <= y
    <3> HIDE DEF at
    <3>1. QED
      BY <1>3, <2>2, MinOfNumbers
  <2> HIDE DEF i
  <2>4. i \in 1..Len(text) /\ text[i] # NL
    BY <1>1, <2>3
  <2>5. OnlyNewlines(text, 1, i - 1)
    <3> SUFFICES ASSUME NEW k \in 1..i - 1
                 PROVE  text[k] = NL
      BY DEF OnlyNewlines
    <3>1. k \in 1..Len(text) /\ ~(i <= k)
      BY <1>1, <2>4
    <3>2. QED
      BY <1>1, <2>3, <3>1
  <2>6. QED
    BY <1>1, <2>1, <2>4, <2>5
<1>4. QED
  BY <1>2, <1>3

\* The rest of a text is what comes after its first part and the newlines there.
LEMMA RestIsTheEnd ==
  ASSUME NEW text \in Texts
  PROVE  \E i \in Len(Part(text)) + 1..Len(text) + 1 :
           /\ Rest(text) = SubSeq(text, i, Len(text))
           /\ OnlyNewlines(text, Len(Part(text)) + 1, i - 1)
           /\ i <= Len(text) => text[i] # NL
<1> DEFINE size == Len(Part(text))
           n == Len(text)
           after == SubSeq(text, size + 1, n)
<1>1. n \in Nat /\ size \in Nat /\ size <= n
  BY PartIsBeginning, LenProperties DEF Texts
<1>2. CASE n <= Limit
  <2>1. Part(text) = text /\ Rest(text) = <<>>
    BY <1>2 DEF Part, Rest
  <2>2. size = n
    BY <2>1
  <2>3. SubSeq(text, n + 1, n) = <<>>
    BY <1>1, SubSeqEmpty
  <2>4. OnlyNewlines(text, size + 1, (n + 1) - 1)
    BY <1>1, <2>2 DEF OnlyNewlines
  <2>5. n + 1 \in size + 1..n + 1 /\ ~(n + 1 <= n)
    BY <1>1, <2>2
  <2> HIDE DEF n, size
  <2>6. Rest(text) = SubSeq(text, n + 1, n)
    BY <2>1, <2>3
  <2>7. QED
    BY <2>4, <2>5, <2>6 DEF n, size
<1>3. CASE ~(n <= Limit)
  <2>1. Cut(text) \in Nat /\ 1 <= Cut(text) /\ Cut(text) <= n
    BY <1>1, <1>3, CutBounds, LimitIsNumber
  <2>2. Part(text) = SubSeq(text, 1, Cut(text))
    BY <1>3 DEF Part
  <2>3. Len(SubSeq(text, 1, Cut(text))) = Cut(text) - 1 + 1
    BY <2>1, Piece
  <2>4. size = Cut(text)
    BY <2>1, <2>2, <2>3
  <2>5. Rest(text) = Strip(after)
    BY <1>3, <2>4 DEF Rest
  <2> HIDE DEF n, size
  <2>6. size + 1 \in Nat \ {0} /\ size + 1 <= n + 1 /\ n <= Len(text)
    BY <1>1 DEF n
  <2>7. /\ after \in Texts /\ Len(after) = n - (size + 1) + 1
        /\ \A k \in 1..n - (size + 1) + 1 : after[k] = text[(size + 1) + k - 1]
    BY <1>1, <2>6, Piece
  <2>8. Len(after) = n - size /\ \A k \in 1..n - size : after[k] = text[size + k]
    <3>1. n - (size + 1) + 1 = n - size
      BY <1>1
    <3>2. \A k \in 1..n - size : (size + 1) + k - 1 = size + k
      BY <1>1
    <3>3. QED
      BY <2>7, <3>1, <3>2
  <2>9. PICK j \in 1..Len(after) + 1 :
          /\ Strip(after) = SubSeq(after, j, Len(after)) /\ OnlyNewlines(after, 1, j - 1)
          /\ j <= Len(after) => after[j] # NL
    BY <2>7, StripTakesNewlines
  <2> DEFINE i == size + j
  <2>10. j \in Nat \ {0} /\ j <= n - size + 1
    BY <1>1, <2>8, <2>9
  <2>11. Rest(text) = SubSeq(text, i, n)
    <3>1. SubSeq(after, j, n - size) = SubSeq(text, (size + 1) + j - 1, (size + 1) + (n - size) - 1)
      <4>1. n - size \in Nat /\ n - size <= n - (size + 1) + 1
        BY <1>1
      <4>2. QED
        BY <1>1, <2>6, <2>10, <4>1, PieceOfPiece
    <3>2. (size + 1) + j - 1 = i /\ (size + 1) + (n - size) - 1 = n
      BY <1>1, <2>10
    <3>3. QED
      BY <2>5, <2>8, <2>9, <3>1, <3>2
  <2>12. OnlyNewlines(text, size + 1, i - 1)
    <3> SUFFICES ASSUME NEW k \in size + 1..i - 1
                 PROVE  text[k] = NL
      BY DEF OnlyNewlines
    <3>1. k - size \in 1..j - 1 /\ k - size \in 1..n - size /\ size + (k - size) = k
      BY <1>1, <2>10
    <3>2. after[k - size] = NL
      BY <2>9, <3>1 DEF OnlyNewlines
    <3>3. QED
      BY <2>8, <3>1, <3>2
  <2>13. i <= n => text[i] # NL
    <3>1. SUFFICES ASSUME i <= n
                   PROVE  text[i] # NL
      OBVIOUS
    <3>2. j \in 1..n - size
      BY <1>1, <2>10, <3>1
    <3>3. after[j] = text[size + j] /\ j <= Len(after)
      BY <1>1, <2>8, <3>2
    <3>4. QED
      BY <2>9, <3>3
  <2>14. i \in size + 1..n + 1
    BY <1>1, <2>10
  <2> HIDE DEF i
  <2>15. QED
    BY <2>11, <2>12, <2>13, <2>14 DEF n, size
<1>4. QED
  BY <1>2, <1>3

\* Whatever the text: its first part fits, the rest is what comes after it but for
\* newlines, and is shorter, so that the splitting ends (_split_text).
THEOREM SplitLosesOnlyNewlines ==
  ASSUME NEW text \in Texts
  PROVE  /\ Len(Part(text)) <= Limit
         /\ Part(text) = SubSeq(text, 1, Len(Part(text)))
         /\ \E i \in Len(Part(text)) + 1..Len(text) + 1 :
              /\ Rest(text) = SubSeq(text, i, Len(text))
              /\ OnlyNewlines(text, Len(Part(text)) + 1, i - 1)
         /\ text # <<>> => Len(Rest(text)) < Len(text)
<1>1. /\ Len(Part(text)) \in Nat /\ Len(Part(text)) <= Limit
      /\ Part(text) = SubSeq(text, 1, Len(Part(text)))
      /\ text # <<>> => Len(Part(text)) >= 1
  BY PartIsBeginning
<1>2. PICK i \in Len(Part(text)) + 1..Len(text) + 1 :
        /\ Rest(text) = SubSeq(text, i, Len(text))
        /\ OnlyNewlines(text, Len(Part(text)) + 1, i - 1)
  BY RestIsTheEnd
<1>3. Len(text) \in Nat
  BY LenProperties DEF Texts
<1>4. i \in Nat \ {0} /\ i <= Len(text) + 1 /\ Len(Part(text)) + 1 <= i
  BY <1>1, <1>2, <1>3
<1>5. Len(Rest(text)) = Len(text) - i + 1
  <2>1. Len(SubSeq(text, i, Len(text))) = Len(text) - i + 1
    BY <1>3, <1>4, Piece
  <2>2. QED
    BY <1>2, <2>1
<1>6. text # <<>> => Len(Rest(text)) < Len(text)
  BY <1>1, <1>3, <1>4, <1>5
<1>7. QED
  BY <1>1, <1>2, <1>6

-----------------------------------------------------------------------------
(* The parts of a text *)

Shown == [text : Texts, at : Nat]

PartsFit(parts) ==
  \A i \in DOMAIN parts : Len(parts[i].text) <= Limit /\ ~Refused(parts[i].text)

\* What is left of a text that is being sent: all of it, or it begins with a character.
Begins(s) == s.left = s.full \/ (s.left # <<>> /\ s.left[1] # NL)

Sending(parts, s) ==
  /\ s.full \in Texts /\ s.left \in Texts /\ Len(s.left) <= Len(s.full)
  /\ Begins(s) /\ InOrder(parts, s)

\* A part is refused only if the text has none, and then it is the whole text or its
\* beginning; and where no rest is, only newlines are left out.
LEMMA NothingIsLost ==
  ASSUME NEW parts, NEW s, Sending(parts, s)
  PROVE  NothingLost(s)
<1> DEFINE part == Part(s.left)
<1>1. /\ s.left \in Texts /\ part \in Texts /\ Len(part) \in Nat
      /\ \A k \in 1..Len(part) : part[k] = s.left[k]
      /\ s.left # <<>> => Len(part) >= 1
  BY PartIsBeginning DEF Sending
<1>2. DOMAIN part = 1..Len(part)
  BY <1>1, LenProperties DEF Texts
<1> HIDE DEF part
<1>3. ASSUME Refused(part)
      PROVE  s.left = s.full /\ (s.full = <<>> \/ s.full[1] = NL)
  <2>1. s.left # <<>> => s.left[1] = NL
    <3>1. SUFFICES ASSUME s.left # <<>>
                   PROVE  s.left[1] = NL
      OBVIOUS
    <3>2. 1 \in 1..Len(part)
      BY <1>1, <3>1
    <3>3. part[1] = NL /\ part[1] = s.left[1]
      BY <1>1, <1>2, <1>3, <3>2 DEF Refused
    <3>4. QED
      BY <3>3
  <2>2. QED
    BY <2>1 DEF Sending, Begins
<1>4. ASSUME Rest(s.left) = <<>>
      PROVE  OnlyNewlines(s.left, Len(part) + 1, Len(s.left))
  <2>1. PICK i \in Len(part) + 1..Len(s.left) + 1 :
          /\ Rest(s.left) = SubSeq(s.left, i, Len(s.left))
          /\ OnlyNewlines(s.left, Len(part) + 1, i - 1)
    BY <1>1, RestIsTheEnd DEF part
  <2>2. Len(s.left) \in Nat
    BY <1>1, LenProperties DEF Texts
  <2>3. i = Len(s.left) + 1
    <3>1. Len(SubSeq(s.left, i, Len(s.left))) = Len(s.left) - i + 1
      BY <1>1, <2>1, <2>2, Piece
    <3>2. Len(SubSeq(s.left, i, Len(s.left))) = 0
      BY <1>4, <2>1, EmptySeq
    <3>3. QED
      BY <1>1, <2>1, <2>2, <3>1, <3>2
  <2>4. QED
    BY <2>1, <2>2, <2>3
<1>5. QED
  BY <1>3, <1>4 DEF NothingLost, part

\* The sending of a text begins.
LEMMA SendingBegins ==
  ASSUME NEW s, s.full \in Texts, s.left = s.full
  PROVE  Sending(<<>>, s)
<1>1. Len(s.full) \in Nat /\ SubSeq(s.full, 1, Len(s.full)) = s.full
  BY LenProperties, SubSeqFull DEF Texts
<1>2. Len(s.full) - Len(s.left) + 1 = 1 /\ Len(<<>>) = 0
  BY <1>1, EmptySeq
<1>3. InOrder(<<>>, s)
  BY <1>1, <1>2 DEF InOrder
<1>4. QED
  BY <1>1, <1>3 DEF Sending, Begins

\* A part that is sent, and not refused, fits.
LEMMA PartFits ==
  ASSUME NEW parts \in Seq(Shown), PartsFit(parts), NEW s, Sending(parts, s),
         ~Refused(Part(s.left))
  PROVE  /\ PartOf(s) \in Shown /\ Append(parts, PartOf(s)) \in Seq(Shown)
         /\ PartsFit(Append(parts, PartOf(s)))
<1> DEFINE part == PartOf(s)
           more == Append(parts, part)
<1>1. part.text = Part(s.left) /\ Len(part.text) <= Limit /\ part \in Shown
  <2>1. Part(s.left) \in Texts /\ Len(Part(s.left)) <= Limit
    BY PartIsBeginning DEF Sending
  <2>2. Len(s.full) - Len(s.left) + 1 \in Nat
    <3>1. Len(s.full) \in Nat /\ Len(s.left) \in Nat /\ Len(s.left) <= Len(s.full)
      BY LenProperties DEF Sending, Texts
    <3>2. QED
      BY <3>1
  <2>3. QED
    BY <2>1, <2>2 DEF PartOf, Shown
<1> HIDE DEF part
<1>2. /\ more \in Seq(Shown) /\ Len(more) = Len(parts) + 1 /\ Len(parts) \in Nat
      /\ \A i \in 1..Len(parts) : more[i] = parts[i]
      /\ more[Len(parts) + 1] = part
  BY <1>1, AppendProperties, LenProperties
<1>3. DOMAIN more = 1..Len(parts) + 1 /\ DOMAIN parts = 1..Len(parts)
  BY <1>2, LenProperties
<1> HIDE DEF more
<1>4. ASSUME NEW i \in DOMAIN more
      PROVE  Len(more[i].text) <= Limit /\ ~Refused(more[i].text)
  <2>1. CASE i \in DOMAIN parts
    BY <1>2, <1>3, <2>1 DEF PartsFit
  <2>2. CASE i \notin DOMAIN parts
    <3>1. i = Len(parts) + 1
      BY <1>2, <1>3, <2>2
    <3>2. QED
      BY <1>1, <1>2, <3>1
  <2>3. QED
    BY <2>1, <2>2
<1>5. QED
  BY <1>1, <1>2, <1>4 DEF PartsFit, part, more

\* The rest of a text follows on the part that was sent.
LEMMA PartFollows ==
  ASSUME NEW parts \in Seq(Shown), NEW s, Sending(parts, s), PartOf(s) \in Shown,
         Rest(s.left) # <<>>, NEW r, r.full = s.full, r.left = Rest(s.left)
  PROVE  Sending(Append(parts, PartOf(s)), r)
<1> DEFINE full == s.full
           left == s.left
           size == Len(Part(left))
           n == Len(full)
           from == n - Len(left) + 1
           part == PartOf(s)
           more == Append(parts, part)
<1>1. /\ full \in Texts /\ left \in Texts /\ left = SubSeq(full, from, n)
      /\ n \in Nat /\ Len(left) \in Nat /\ Len(left) <= n
  BY LenProperties DEF Sending, InOrder, Texts
<1>2. from \in Nat \ {0} /\ from + Len(left) - 1 = n
  BY <1>1
<1>3. \A k \in 1..Len(left) : left[k] = full[from + k - 1]
  <2>1. from <= n + 1 /\ n <= Len(full)
    <3>1. n = Len(full)
      OBVIOUS
    <3> HIDE DEF n, left, full
    <3>2. from <= n + 1
      BY <1>1
    <3>3. QED
      BY <1>1, <3>1, <3>2
  <2> HIDE DEF from, n, left, full
  <2>2. \A k \in 1..n - from + 1 : SubSeq(full, from, n)[k] = full[from + k - 1]
    BY <1>1, <1>2, <2>1, Piece
  <2>3. n - from + 1 = Len(left)
    BY <1>1, <1>2
  <2>4. QED
    BY <1>1, <2>2, <2>3
<1>4. size \in Nat /\ size <= Len(left) /\ Part(left) = SubSeq(left, 1, size)
  BY <1>1, PartIsBeginning
<1>5. PICK i \in size + 1..Len(left) + 1 :
        /\ Rest(left) = SubSeq(left, i, Len(left)) /\ OnlyNewlines(left, size + 1, i - 1)
        /\ i <= Len(left) => left[i] # NL
  BY <1>1, RestIsTheEnd
<1>6. part.text = Part(left) /\ part.at = from
  BY DEF PartOf
<1>7. /\ more \in Seq(Shown) /\ Len(more) = Len(parts) + 1 /\ Len(parts) \in Nat
      /\ \A k \in 1..Len(parts) : more[k] = parts[k]
      /\ more[Len(parts) + 1] = part
  BY AppendProperties, LenProperties
<1> HIDE DEF full, left, size, n, from, part, more
<1>8. Len(left) \in Nat /\ size \in Nat /\ n \in Nat /\ Len(left) <= n
  BY <1>1, <1>4
<1>9. i \in Nat \ {0} /\ i <= Len(left) + 1 /\ size + 1 <= i
  <2>1. i \in size + 1..Len(left) + 1
    BY <1>5
  <2>2. QED
    BY <1>8, <2>1
<1>10. /\ Rest(left) \in Texts /\ Len(Rest(left)) = Len(left) - i + 1
      /\ \A k \in 1..Len(left) - i + 1 : Rest(left)[k] = left[i + k - 1]
  <2>1. Len(left) <= Len(left) /\ Len(left) \in Nat
    BY <1>8
  <2>2. /\ SubSeq(left, i, Len(left)) \in Texts
        /\ Len(SubSeq(left, i, Len(left))) = Len(left) - i + 1
        /\ \A k \in 1..Len(left) - i + 1 : SubSeq(left, i, Len(left))[k] = left[i + k - 1]
    BY <1>1, <1>9, <2>1, Piece
  <2>3. QED
    BY <1>5, <2>2
<1>11. i <= Len(left) /\ Rest(left)[1] # NL
  <2>1. Len(Rest(left)) # 0
    BY <1>10, EmptySeq DEF Texts, left
  <2>2. i <= Len(left)
    <3>1. Len(Rest(left)) = Len(left) - i + 1
      BY <1>10
    <3>2. QED
      BY <1>9, <1>8, <2>1, <3>1
  <2>3. 1 \in 1..Len(left) - i + 1 /\ i + 1 - 1 = i
    BY <1>9, <1>8, <2>2
  <2>4. Rest(left)[1] = left[i]
    BY <1>10, <2>3
  <2>5. QED
    BY <1>5, <2>2, <2>4
<1> DEFINE next == n - Len(Rest(left)) + 1
<1>12. next = from + i - 1 /\ next <= n /\ next \in Nat \ {0}
  BY <1>1, <1>2, <1>9, <1>10, <1>11
<1>13. Rest(left) = SubSeq(full, next, n)
  <2>1. SubSeq(SubSeq(full, from, n), i, Len(left)) =
          SubSeq(full, from + i - 1, from + Len(left) - 1)
    <3>1. from <= n + 1 /\ n <= Len(full) /\ Len(left) <= n - from + 1
      BY <1>1, <1>2 DEF n
    <3>2. QED
      BY <1>1, <1>2, <1>9, <3>1, PieceOfPiece
  <2>2. QED
    BY <1>1, <1>2, <1>5, <1>12, <2>1
<1>14. Part(left) = SubSeq(full, from, from + size - 1)
  <2>1. SubSeq(SubSeq(full, from, n), 1, size) = SubSeq(full, from + 1 - 1, from + size - 1)
    <3>1. from <= n + 1 /\ n <= Len(full) /\ size <= n - from + 1 /\ 1 <= size + 1
      BY <1>1, <1>2, <1>4 DEF n
    <3>2. QED
      BY <1>1, <1>2, <1>4, <3>1, PieceOfPiece
  <2>2. QED
    BY <1>1, <1>2, <1>4, <2>1
<1>15. OnlyNewlines(full, from + size, next - 1)
  <2> SUFFICES ASSUME NEW k \in from + size..next - 1
               PROVE  full[k] = NL
    BY DEF OnlyNewlines
  <2>1. k - from + 1 \in size + 1..i - 1 /\ from + (k - from + 1) - 1 = k
    BY <1>2, <1>4, <1>9, <1>12
  <2>2. k - from + 1 \in 1..Len(left)
    BY <1>9, <1>11, <1>8, <2>1
  <2>3. left[k - from + 1] = NL
    BY <1>5, <2>1 DEF OnlyNewlines
  <2>4. QED
    BY <1>3, <2>1, <2>2, <2>3
<1> DEFINE m == Len(parts)
           start(k) == IF k > m + 1 THEN next ELSE more[k].at
           end(k) == more[k].at + Len(more[k].text) - 1
           was(k) == IF k > m THEN from ELSE parts[k].at
           ended(k) == parts[k].at + Len(parts[k].text) - 1
<1>16. /\ was(1) = 1
       /\ \A k \in 1..m : /\ parts[k].text = SubSeq(full, parts[k].at, ended(k))
                          /\ ended(k) < was(k + 1)
                          /\ OnlyNewlines(full, ended(k) + 1, was(k + 1) - 1)
  BY DEF Sending, InOrder, full, left, from, n
<1>17. \A k \in 1..m + 1 : start(k) = was(k)
  <2>1. ASSUME NEW k \in 1..m
        PROVE  start(k) = was(k)
    BY <1>7, <2>1
  <2>2. start(m + 1) = was(m + 1)
    BY <1>6, <1>7
  <2>3. \A k \in 1..m + 1 : k \in 1..m \/ k = m + 1
    BY <1>7
  <2> HIDE DEF start, was, m
  <2>4. QED
    BY <2>1, <2>2, <2>3
<1>18. start(1) = 1
  <2>1. 1 \in 1..m + 1
    BY <1>7
  <2> HIDE DEF start, was, m
  <2>2. QED
    BY <1>16, <1>17, <2>1
<1>19. ASSUME NEW k \in 1..m + 1
       PROVE  /\ more[k].text = SubSeq(full, more[k].at, end(k))
              /\ end(k) < start(k + 1)
              /\ OnlyNewlines(full, end(k) + 1, start(k + 1) - 1)
  <2>1. CASE k \in 1..m
    <3>1. more[k] = parts[k] /\ k + 1 \in 1..m + 1
      BY <1>7, <2>1
    <3>2. end(k) = ended(k)
      BY <3>1
    <3>3. start(k + 1) = was(k + 1)
      BY <1>17, <3>1
    <3> HIDE DEF start, was, end, ended, m
    <3>4. QED
      BY <1>16, <2>1, <3>1, <3>2, <3>3 DEF ended, end
  <2>2. CASE k \notin 1..m
    <3>1. k = m + 1 /\ more[k] = part
      BY <1>7, <2>2
    <3>2. end(k) = from + size - 1 /\ more[k].at = from /\ more[k].text = Part(left)
      BY <1>6, <3>1 DEF size
    <3>3. start(k + 1) = next
      BY <1>7, <3>1
    <3>4. from + size - 1 < next /\ (from + size - 1) + 1 = from + size
      BY <1>2, <1>4, <1>9, <1>12
    <3> HIDE DEF start, end, next
    <3>5. QED
      BY <1>14, <1>15, <3>2, <3>3, <3>4
  <2>3. QED
    BY <2>1, <2>2
<1>20. InOrder(more, r)
  <2>1. Len(more) = m + 1
    BY <1>7
  <2>2. r.full = full /\ r.left = Rest(left)
    BY DEF full, left
  <2>3. n = Len(full)
    BY DEF n
  <2> HIDE DEF m
  <2>4. QED
    BY <1>13, <1>18, <1>19, <2>1, <2>2, <2>3 DEF InOrder
<1>21. Begins(r)
  <2>1. Rest(left) # <<>> /\ r.left = Rest(left)
    BY DEF left
  <2>2. QED
    BY <1>11, <2>1 DEF Begins
<1>22. r.full \in Texts /\ r.left \in Texts /\ Len(r.left) <= Len(r.full)
  <2>1. r.full = full /\ r.left = Rest(left) /\ n = Len(full)
    BY DEF full, left, n
  <2>2. Len(Rest(left)) <= n
    <3>1. Len(Rest(left)) = Len(left) - i + 1
      BY <1>10
    <3>2. QED
      BY <1>9, <1>8, <3>1
  <2>3. QED
    BY <1>1, <1>10, <2>1, <2>2
<1>23. QED
  BY <1>20, <1>21, <1>22 DEF Sending, more, part

-----------------------------------------------------------------------------
(* The bot: what it holds of the update it handles *)

\* The fields of an update; path and answered are known where the steps after them are.
UpdateOK ==
  /\ update = [pc |-> update.pc, kind |-> update.kind, full |-> update.full,
               left |-> update.left, path |-> update.path, answered |-> update.answered]
  /\ update.kind \in Kinds \cup {"none"}
  /\ update.pc \in {"idle", "ack", "fetch", "write", "handle", "send", "sorry"}
  /\ update.path \in BOOLEAN /\ update.answered \in BOOLEAN
  /\ update.pc \in {"idle", "ack", "fetch", "write"} => ~update.path
  /\ update.pc \in {"ack", "fetch", "write", "handle"} => ~update.answered
  /\ update.kind = "none" => UpdateAt("idle")

BotInv ==
  /\ UpdateOK /\ files \in Nat /\ orphans \in Nat
  /\ FilesGone /\ SorryOnlyUnanswered

\* What the invariant is about.
botState == <<update, files, orphans>>

\* A handler goes on with the same text: the path and the answer stay as they were.
LEMMA HandlerGoesOn ==
  ASSUME BotInv, NEW pc \in {"fetch", "write", "handle", "sorry"}, UpdateGoes(pc),
         \/ UpdateAt("ack") /\ pc = "fetch"
         \/ UpdateAt("fetch") /\ pc # "fetch"
         \/ pc = "sorry" /\ ~UpdateAt("idle")
  PROVE  /\ UpdateOK'
         /\ update'.path = update.path
         /\ SorryOnlyUnanswered'
<1>1. update' = [update EXCEPT !.pc = pc]
  BY DEF UpdateGoes
<1>2. /\ update'.pc = pc /\ update'.kind = update.kind /\ update'.full = update.full
      /\ update'.left = update.left
      /\ update'.path = update.path /\ update'.answered = update.answered
  BY <1>1 DEF BotInv, UpdateOK
<1>3. update' = [pc |-> update'.pc, kind |-> update'.kind, full |-> update'.full,
                 left |-> update'.left, path |-> update'.path, answered |-> update'.answered]
  BY <1>1 DEF BotInv, UpdateOK
<1>4. UpdateOK'
  BY <1>2, <1>3 DEF BotInv, UpdateOK, UpdateAt
<1>5. SorryOnlyUnanswered'
  BY <1>2 DEF BotInv, SorryOnlyUnanswered
<1>6. QED
  BY <1>2, <1>4, <1>5

\* The bot with no update.
LEMMA NothingHandled ==
  ASSUME update' = NoUpdate
  PROVE  UpdateOK' /\ ~update'.path /\ SorryOnlyUnanswered'
BY DEF NoUpdate, UpdateOK, UpdateAt, SorryOnlyUnanswered, Kinds

\* A handler is left: the file goes with it.
LEMMA HandlerEnds ==
  ASSUME BotInv, Ends, orphans' = orphans
  PROVE  BotInv'
<1>1. UpdateOK' /\ ~update'.path /\ SorryOnlyUnanswered'
  BY NothingHandled DEF Ends
<1>2. files' = orphans
  BY DEF BotInv, UpdateOK, FilesGone, Ends
<1>3. QED
  BY <1>1, <1>2 DEF BotInv, FilesGone

\* An exception: the handler is left, or apologises.
LEMMA HandlerRaising ==
  ASSUME BotInv, HandlerRaises, ~UpdateAt("idle"), orphans' = orphans
  PROVE  BotInv'
<1>1. CASE ~Caught
  BY <1>1, HandlerEnds DEF HandlerRaises
<1>2. CASE Caught /\ update.kind = "text"
  <2>1. /\ update' = [update EXCEPT !.pc = "send", !.full = Apology, !.left = Apology]
        /\ files' = files /\ UpdateAt("handle")
    BY <1>2 DEF HandlerRaises, SendsText, Caught
  <2>2. /\ update'.pc = "send" /\ update'.kind = update.kind
        /\ update'.path = update.path /\ update'.answered = update.answered
    BY <2>1 DEF BotInv, UpdateOK
  <2>3. update' = [pc |-> update'.pc, kind |-> update'.kind, full |-> update'.full,
                   left |-> update'.left, path |-> update'.path, answered |-> update'.answered]
    BY <2>1 DEF BotInv, UpdateOK
  <2>4. ~update'.answered
    BY <2>1, <2>2 DEF BotInv, UpdateOK, UpdateAt
  <2>5. UpdateOK'
    BY <2>2, <2>3, <2>4 DEF BotInv, UpdateOK, UpdateAt, Kinds
  <2>6. QED
    BY <1>2, <2>1, <2>2, <2>4, <2>5 DEF BotInv, FilesGone, SorryOnlyUnanswered
<1>3. CASE Caught /\ update.kind # "text"
  <2>1. UpdateGoes("sorry") /\ files' = files
    BY <1>3 DEF HandlerRaises
  <2>2. UpdateOK' /\ update'.path = update.path /\ SorryOnlyUnanswered'
    BY <2>1, HandlerGoesOn
  <2>3. QED
    BY <2>1, <2>2 DEF BotInv, FilesGone
<1>4. QED
  BY <1>1, <1>2, <1>3

\* The agent answers, once, with a text that is no apology.
LEMMA Answers ==
  ASSUME BotInv, NEW reply \in Replies, Answer(reply)
  PROVE  BotInv'
<1> DEFINE text == IF update.kind = "voice" THEN Heading \o reply ELSE reply
<1>1. /\ UpdateAt("handle") /\ files' = files /\ orphans' = orphans
      /\ update' = [update EXCEPT !.pc = "send", !.full = text, !.left = text,
                                  !.answered = TRUE]
  BY DEF Answer
<1>2. update.kind = "text" => text # Apology
  BY BotAssumption
<1> HIDE DEF text
<1>3. /\ update'.pc = "send" /\ update'.kind = update.kind /\ update'.full = text
      /\ update'.path = update.path /\ update'.answered = TRUE
  BY <1>1 DEF BotInv, UpdateOK
<1>4. update' = [pc |-> update'.pc, kind |-> update'.kind, full |-> update'.full,
                 left |-> update'.left, path |-> update'.path, answered |-> update'.answered]
  BY <1>1 DEF BotInv, UpdateOK
<1>5. UpdateOK'
  BY <1>1, <1>3, <1>4 DEF BotInv, UpdateOK, UpdateAt, Kinds
<1>6. QED
  BY <1>1, <1>2, <1>3, <1>5 DEF BotInv, FilesGone, SorryOnlyUnanswered

\* A part is sent; after the last one the handler is left.
LEMMA PartSent ==
  ASSUME BotInv, SendPart
  PROVE  BotInv'
<1>1. CASE Ends
  BY <1>1, HandlerEnds DEF SendPart
<1>2. CASE update' = [update EXCEPT !.left = Rest(@)] /\ UNCHANGED files
  <2>1. /\ update'.pc = update.pc /\ update'.kind = update.kind /\ update'.full = update.full
        /\ update'.path = update.path /\ update'.answered = update.answered
    BY <1>2 DEF BotInv, UpdateOK
  <2>2. update' = [pc |-> update'.pc, kind |-> update'.kind, full |-> update'.full,
                   left |-> update'.left, path |-> update'.path, answered |-> update'.answered]
    BY <1>2 DEF BotInv, UpdateOK
  <2>3. UpdateOK'
    BY <2>1, <2>2 DEF BotInv, UpdateOK, UpdateAt
  <2>4. QED
    BY <1>2, <2>1, <2>3 DEF BotInv, FilesGone, SorryOnlyUnanswered, SendPart
<1>3. QED
  BY <1>1, <1>2 DEF SendPart

\* Each step keeps the invariant.
LEMMA BotStep ==
  ASSUME BotInv, [BotNext]_botVars
  PROVE  BotInv'
<1>1. CASE UNCHANGED botState
  BY <1>1 DEF botState, BotInv, UpdateOK, UpdateAt, FilesGone, SorryOnlyUnanswered
<1>2. ASSUME NEW u \in Updates, Take(u)
      PROVE  BotInv'
  <2> DEFINE pc == IF u.kind \in {"voice", "pdf"} THEN "ack" ELSE "handle"
  <2>1. /\ UpdateAt("idle") /\ files' = files /\ orphans' = orphans
        /\ update' = [NoUpdate EXCEPT !.kind = u.kind, !.pc = pc]
    BY <1>2 DEF Take
  <2>2. u.kind \in Kinds /\ pc \in {"ack", "handle"}
    BY DEF Updates
  <2> HIDE DEF pc
  <2>3. /\ update'.pc = pc /\ update'.kind = u.kind /\ update'.full = <<>>
        /\ update'.path = FALSE /\ update'.answered = FALSE
    BY <2>1 DEF NoUpdate
  <2>4. update' = [pc |-> update'.pc, kind |-> update'.kind, full |-> update'.full,
                   left |-> update'.left, path |-> update'.path, answered |-> update'.answered]
    BY <2>1 DEF NoUpdate
  <2>5. UpdateOK'
    BY <2>2, <2>3, <2>4 DEF UpdateOK, UpdateAt, Kinds
  <2>6. ~update.path
    BY <2>1 DEF BotInv, UpdateOK, UpdateAt
  <2>7. QED
    BY <2>1, <2>3, <2>5, <2>6 DEF BotInv, FilesGone, SorryOnlyUnanswered
<1>3. CASE Ack \/ Fetched
  <2>1. \E pc \in {"fetch", "write", "handle"} :
          /\ UpdateGoes(pc)
          /\ (UpdateAt("ack") /\ pc = "fetch") \/ (UpdateAt("fetch") /\ pc # "fetch")
    BY <1>3 DEF Ack, Fetched
  <2>2. UpdateOK' /\ update'.path = update.path /\ SorryOnlyUnanswered'
    BY <2>1, HandlerGoesOn
  <2>3. QED
    BY <1>3, <2>2 DEF Ack, Fetched, BotInv, FilesGone
<1>4. CASE Written
  <2>1. /\ UpdateAt("write") /\ files' = files + 1 /\ orphans' = orphans
        /\ update' = [update EXCEPT !.pc = "handle", !.path = TRUE]
    BY <1>4 DEF Written
  <2>2. /\ update'.pc = "handle" /\ update'.kind = update.kind /\ update'.full = update.full
        /\ update'.path = TRUE /\ update'.answered = update.answered
    BY <2>1 DEF BotInv, UpdateOK
  <2>3. update' = [pc |-> update'.pc, kind |-> update'.kind, full |-> update'.full,
                   left |-> update'.left, path |-> update'.path, answered |-> update'.answered]
    BY <2>1 DEF BotInv, UpdateOK
  <2>4. UpdateOK'
    BY <2>1, <2>2, <2>3 DEF BotInv, UpdateOK, UpdateAt
  <2>5. ~update.path
    BY <2>1 DEF BotInv, UpdateOK, UpdateAt
  <2>6. QED
    BY <2>1, <2>2, <2>4, <2>5 DEF BotInv, FilesGone, SorryOnlyUnanswered
<1>5. CASE WriteFails
  <2>1. UpdateOK' /\ update'.path = update.path /\ SorryOnlyUnanswered'
    BY <1>5, HandlerGoesOn DEF WriteFails, UpdateAt
  <2>2. QED
    BY <1>5, <2>1 DEF WriteFails, BotInv, FilesGone
<1>6. CASE \E reply \in Replies : Answer(reply)
  BY <1>6, Answers
<1>7. CASE SendPart
  BY <1>7, PartSent
<1>8. CASE Sorry
  BY <1>8, HandlerEnds DEF Sorry
<1>9. CASE Fails
  BY <1>9, HandlerRaising DEF Fails, UpdateAt
<1>10. CASE BotCrash
  <2>1. UpdateOK' /\ ~update'.path /\ SorryOnlyUnanswered'
    BY <1>10, NothingHandled DEF BotCrash
  <2>2. QED
    BY <1>10, <2>1 DEF BotCrash, BotInv, FilesGone
<1>11. CASE (\E text \in JobTexts : JobSends(text)) \/ JobPart \/ JobFails \/ UNCHANGED botVars
  BY <1>1, <1>11 DEF JobSends, JobPart, JobFails, botVars, botState
<1>12. QED
  BY <1>2, <1>3, <1>4, <1>5, <1>6, <1>7, <1>8, <1>9, <1>10, <1>11 DEF BotNext, Handling

\* The bot holds of the update what its handler needs, for any texts and users.
THEOREM BotInvariant == BotSpec => []BotInv
<1>1. BotInit => BotInv
  <2> SUFFICES ASSUME BotInit
               PROVE  BotInv
    OBVIOUS
  <2>1. update = NoUpdate /\ files = 0 /\ orphans = 0
    BY DEF BotInit
  <2>2. QED
    BY <2>1 DEF NoUpdate, BotInv, UpdateOK, UpdateAt, FilesGone, SorryOnlyUnanswered, Kinds
<1>2. BotInv /\ [BotNext]_botVars => BotInv'
  BY BotStep
<1>3. QED
  BY <1>1, <1>2, PTL DEF BotSpec

\* The file of a PDF is gone when its update is, however the handler ends (_on_document).
THEOREM FilesAreGone == BotSpec => []FilesGone
<1>1. BotInv => FilesGone
  BY DEF BotInv
<1>2. QED
  BY <1>1, BotInvariant, PTL

\* Who sent a text and is told to try again has not been answered (_on_message).
THEOREM SorryBeforeAnswer == BotSpec => []SorryOnlyUnanswered
<1>1. BotInv => SorryOnlyUnanswered
  BY DEF BotInv
<1>2. QED
  BY <1>1, BotInvariant, PTL
-----------------------------------------------------------------------------
(* The bot: what the chat shows *)

\* The parts of both texts fit.  Nothing is shown before the answer; then what is left
\* follows on it.  So do the texts of jobs.
SendsUpdate ==
  /\ UpdateAt("send") => Sending(shown.update, update)
  /\ update.pc \in {"ack", "fetch", "write", "handle"} => shown.update = <<>>
SendsJob ==
  /\ job = [busy |-> job.busy, full |-> job.full, left |-> job.left]
  /\ job.busy => Sending(shown.job, job)
ShownOK ==
  /\ shown = [update |-> shown.update, job |-> shown.job]
  /\ shown.update \in Seq(Shown) /\ PartsFit(shown.update)
  /\ shown.job \in Seq(Shown) /\ PartsFit(shown.job)

ChatInv == SendsUpdate /\ SendsJob /\ ShownOK

\* Nothing was sent.
LEMMA NothingShown == <<>> \in Seq(Shown) /\ PartsFit(<<>>)
BY EmptySeq DEF PartsFit

\* A handler goes on to a place where it sends nothing, or ends.
LEMMA NothingSent ==
  ASSUME ChatInv, UNCHANGED <<job, shown>>, ~UpdateAt("send")',
         update'.pc \in {"ack", "fetch", "write", "handle"} => shown.update = <<>>
  PROVE  ChatInv'
BY DEF ChatInv, SendsUpdate, SendsJob, ShownOK

\* A handler begins to send a text, and nothing was shown before.
LEMMA TextSent ==
  ASSUME ChatInv, UpdateOK, UNCHANGED <<job, shown>>, NEW text \in Texts,
         shown.update = <<>>, update'.pc = "send", update'.full = text, update'.left = text
  PROVE  ChatInv'
<1>1. Sending(<<>>, update')
  BY SendingBegins
<1>2. SendsUpdate'
  BY <1>1 DEF SendsUpdate
<1>3. QED
  BY <1>2 DEF ChatInv, SendsJob, ShownOK

\* The texts of agents and jobs are texts.
LEMMA TextsAreTexts ==
  /\ Apology \in Texts /\ Heading \in Texts
  /\ \A text \in Replies \cup JobTexts : text \in Texts /\ Heading \o text \in Texts
<1>1. Apology \in Texts /\ Heading \in Texts
  BY DEF Apology, Heading, Texts, NL
<1>2. ASSUME NEW text \in Replies \cup JobTexts
      PROVE  text \in Texts /\ Heading \o text \in Texts
  <2>1. text \in Texts
    BY BotAssumption
  <2>2. QED
    BY <1>1, <2>1, ConcatProperties DEF Texts
<1>3. QED
  BY <1>1, <1>2

\* An exception shows nothing.
LEMMA RaisingShows ==
  ASSUME ChatInv, BotInv, HandlerRaises, ~UpdateAt("idle"), UNCHANGED <<job, shown>>
  PROVE  ChatInv'
<1>1. CASE ~Caught
  <2>1. update' = NoUpdate
    BY <1>1 DEF HandlerRaises, Ends
  <2>2. QED
    BY <2>1, NothingSent DEF NoUpdate, UpdateAt
<1>2. CASE Caught /\ update.kind = "text"
  <2>1. /\ update' = [update EXCEPT !.pc = "send", !.full = Apology, !.left = Apology]
        /\ UpdateAt("handle")
    BY <1>2 DEF HandlerRaises, SendsText, Caught
  <2>2. update'.pc = "send" /\ update'.full = Apology /\ update'.left = Apology
    BY <2>1 DEF BotInv, UpdateOK
  <2>3. shown.update = <<>>
    BY <2>1 DEF ChatInv, SendsUpdate, UpdateAt
  <2>4. QED
    BY <2>2, <2>3, TextsAreTexts, TextSent DEF BotInv
<1>3. CASE Caught /\ update.kind # "text"
  <2>1. update' = [update EXCEPT !.pc = "sorry"]
    BY <1>3 DEF HandlerRaises, UpdateGoes
  <2>2. update'.pc = "sorry"
    BY <2>1 DEF BotInv, UpdateOK
  <2>3. QED
    BY <2>2, NothingSent DEF UpdateAt
<1>4. QED
  BY <1>1, <1>2, <1>3

\* The parts of one of the two texts are shown, and those of the other stay.
LEMMA OneShown ==
  ASSUME ShownOK, NEW parts \in Seq(Shown), PartsFit(parts)
  PROVE  /\ shown' = [shown EXCEPT !.update = parts] =>
              ShownOK' /\ shown'.update = parts /\ shown'.job = shown.job
         /\ shown' = [shown EXCEPT !.job = parts] =>
              ShownOK' /\ shown'.job = parts /\ shown'.update = shown.update
<1>1. ASSUME shown' = [shown EXCEPT !.update = parts]
      PROVE  ShownOK' /\ shown'.update = parts /\ shown'.job = shown.job
  <2>1. shown'.update = parts /\ shown'.job = shown.job
    BY <1>1 DEF ShownOK
  <2>2. shown' = [update |-> shown'.update, job |-> shown'.job]
    BY <1>1 DEF ShownOK
  <2>3. QED
    BY <2>1, <2>2 DEF ShownOK
<1>2. ASSUME shown' = [shown EXCEPT !.job = parts]
      PROVE  ShownOK' /\ shown'.job = parts /\ shown'.update = shown.update
  <2>1. shown'.job = parts /\ shown'.update = shown.update
    BY <1>2 DEF ShownOK
  <2>2. shown' = [update |-> shown'.update, job |-> shown'.job]
    BY <1>2 DEF ShownOK
  <2>3. QED
    BY <2>1, <2>2 DEF ShownOK
<1>3. QED
  BY <1>1, <1>2

\* A part of the answer is shown.
LEMMA PartShows ==
  ASSUME ChatInv, BotInv, SendPart
  PROVE  ChatInv'
<1> DEFINE part == PartOf(update)
           parts == Append(shown.update, part)
<1>1. /\ UpdateAt("send") /\ ~Refused(Part(update.left)) /\ job' = job
      /\ shown' = [shown EXCEPT !.update = parts]
      /\ IF Rest(update.left) = <<>> THEN Ends
         ELSE update' = [update EXCEPT !.left = Rest(@)] /\ UNCHANGED files
  BY DEF SendPart
<1>2. /\ shown.update \in Seq(Shown) /\ PartsFit(shown.update)
      /\ Sending(shown.update, update)
  BY <1>1 DEF ChatInv, ShownOK, SendsUpdate
<1>3. part \in Shown /\ parts \in Seq(Shown) /\ PartsFit(parts)
  BY <1>1, <1>2, PartFits
<1>4. ShownOK' /\ shown'.update = parts /\ shown'.job = shown.job
  <2> HIDE DEF parts
  <2>1. QED
    BY <1>1, <1>3, OneShown DEF ChatInv
<1>5. SendsUpdate'
  <2>1. CASE Rest(update.left) = <<>>
    BY <1>1, <2>1 DEF Ends, NoUpdate, SendsUpdate, UpdateAt
  <2>2. CASE Rest(update.left) # <<>>
    <3>1. update' = [update EXCEPT !.left = Rest(@)]
      BY <1>1, <2>2
    <3>2. update'.pc = "send" /\ update'.full = update.full /\ update'.left = Rest(update.left)
      BY <1>1, <3>1 DEF BotInv, UpdateOK, UpdateAt
    <3>3. Sending(parts, update')
      BY <1>2, <1>3, <2>2, <3>2, PartFollows
    <3>4. QED
      BY <1>4, <3>2, <3>3 DEF SendsUpdate
  <2>3. QED
    BY <2>1, <2>2
<1>6. SendsJob'
  BY <1>1, <1>4 DEF ChatInv, SendsJob
<1>7. QED
  BY <1>4, <1>5, <1>6 DEF ChatInv

\* A part of a job's text is shown.
LEMMA JobPartShows ==
  ASSUME ChatInv, JobPart
  PROVE  ChatInv'
<1> DEFINE part == PartOf(job)
           parts == Append(shown.job, part)
<1>1. /\ job.busy /\ ~Refused(Part(job.left)) /\ update' = update
      /\ shown' = [shown EXCEPT !.job = parts]
      /\ job' = IF Rest(job.left) = <<>> THEN NoJob ELSE [job EXCEPT !.left = Rest(@)]
  BY DEF JobPart
<1>2. /\ shown.job \in Seq(Shown) /\ PartsFit(shown.job) /\ Sending(shown.job, job)
      /\ job = [busy |-> job.busy, full |-> job.full, left |-> job.left]
  BY <1>1 DEF ChatInv, ShownOK, SendsJob
<1>3. part \in Shown /\ parts \in Seq(Shown) /\ PartsFit(parts)
  BY <1>1, <1>2, PartFits
<1>4. ShownOK' /\ shown'.job = parts /\ shown'.update = shown.update
  <2> HIDE DEF parts
  <2>1. QED
    BY <1>1, <1>3, OneShown DEF ChatInv
<1>5. SendsJob'
  <2>1. CASE Rest(job.left) = <<>>
    BY <1>1, <2>1 DEF NoJob, SendsJob
  <2>2. CASE Rest(job.left) # <<>>
    <3>1. job' = [job EXCEPT !.left = Rest(@)]
      BY <1>1, <2>2
    <3>2. job'.full = job.full /\ job'.left = Rest(job.left)
      BY <1>2, <3>1
    <3>3. job' = [busy |-> job'.busy, full |-> job'.full, left |-> job'.left]
      BY <1>2, <3>1
    <3>4. Sending(parts, job')
      BY <1>2, <1>3, <2>2, <3>2, PartFollows
    <3>5. QED
      BY <1>4, <3>3, <3>4 DEF SendsJob
  <2>3. QED
    BY <2>1, <2>2
<1>6. SendsUpdate'
  BY <1>1, <1>4 DEF ChatInv, SendsUpdate, UpdateAt
<1>7. QED
  BY <1>4, <1>5, <1>6 DEF ChatInv

\* A job begins to send.
LEMMA JobBeginsShows ==
  ASSUME ChatInv, NEW text \in JobTexts, JobSends(text)
  PROVE  ChatInv'
<1>1. /\ update' = update /\ job' = [busy |-> TRUE, full |-> text, left |-> text]
      /\ shown' = [shown EXCEPT !.job = <<>>]
  BY DEF JobSends
<1>2. ShownOK' /\ shown'.job = <<>> /\ shown'.update = shown.update
  BY <1>1, NothingShown, OneShown DEF ChatInv
<1>3. Sending(<<>>, job')
  BY <1>1, TextsAreTexts, SendingBegins
<1>4. SendsJob'
  BY <1>1, <1>2, <1>3 DEF SendsJob
<1>5. SendsUpdate'
  BY <1>1, <1>2 DEF ChatInv, SendsUpdate, UpdateAt
<1>6. QED
  BY <1>2, <1>4, <1>5 DEF ChatInv

\* An update is begun: nothing of it is shown.
LEMMA TakeShows ==
  ASSUME ChatInv, NEW u \in Updates, Take(u)
  PROVE  ChatInv'
<1>1. /\ job' = job /\ shown' = [shown EXCEPT !.update = <<>>]
      /\ update'.pc \in {"ack", "handle"}
  BY DEF Take, NoUpdate
<1>2. ShownOK' /\ shown'.update = <<>> /\ shown'.job = shown.job
  BY <1>1, NothingShown, OneShown DEF ChatInv
<1>3. SendsUpdate'
  BY <1>1, <1>2 DEF SendsUpdate, UpdateAt
<1>4. SendsJob'
  BY <1>1, <1>2 DEF ChatInv, SendsJob
<1>5. QED
  BY <1>2, <1>3, <1>4 DEF ChatInv

\* Each step keeps what the chat shows in order.
LEMMA ChatStep ==
  ASSUME ChatInv, BotInv, [BotNext]_botVars
  PROVE  ChatInv'
<1>1. CASE Ack \/ Fetched \/ Written \/ WriteFails
  <2>1. /\ UNCHANGED <<job, shown>> /\ update.pc \in {"ack", "fetch", "write"}
        /\ update'.pc \in {"fetch", "write", "handle", "sorry"}
    BY <1>1 DEF Ack, Fetched, Written, WriteFails, UpdateGoes, UpdateAt, BotInv, UpdateOK
  <2>2. shown.update = <<>>
    BY <2>1 DEF ChatInv, SendsUpdate
  <2>3. QED
    BY <2>1, <2>2, NothingSent DEF UpdateAt
<1>2. ASSUME NEW reply \in Replies, Answer(reply)
      PROVE  ChatInv'
  <2> DEFINE text == IF update.kind = "voice" THEN Heading \o reply ELSE reply
  <2>1. /\ UpdateAt("handle") /\ UNCHANGED <<job, shown>>
        /\ update' = [update EXCEPT !.pc = "send", !.full = text, !.left = text,
                                    !.answered = TRUE]
    BY <1>2 DEF Answer
  <2>2. text \in Texts
    BY TextsAreTexts
  <2> HIDE DEF text
  <2>3. update'.pc = "send" /\ update'.full = text /\ update'.left = text
    BY <2>1 DEF BotInv, UpdateOK
  <2>4. shown.update = <<>>
    BY <2>1 DEF ChatInv, SendsUpdate, UpdateAt
  <2>5. QED
    BY <2>1, <2>2, <2>3, <2>4, TextSent DEF BotInv
<1>3. CASE Sorry \/ JobFails \/ BotCrash
  <2>1. /\ shown' = shown /\ update' \in {update, NoUpdate} /\ job' \in {job, NoJob}
    BY <1>3 DEF Sorry, Ends, JobFails, BotCrash
  <2>2. SendsUpdate'
    BY <2>1 DEF ChatInv, SendsUpdate, UpdateAt, NoUpdate
  <2>3. SendsJob'
    BY <2>1 DEF ChatInv, SendsJob, NoJob
  <2>4. QED
    BY <2>1, <2>2, <2>3 DEF ChatInv, ShownOK
<1>4. CASE Fails
  BY <1>4, RaisingShows DEF Fails, UpdateAt
<1>5. CASE UNCHANGED botVars
  BY <1>5 DEF botVars, ChatInv, SendsUpdate, SendsJob, ShownOK, UpdateAt
<1>6. QED
  BY <1>1, <1>2, <1>3, <1>4, <1>5, PartShows, JobPartShows, JobBeginsShows, TakeShows
     DEF BotNext, Handling

\* What the chat shows, for any texts, users and failures.
THEOREM ChatInvariant == BotSpec => []ChatInv
<1>1. BotInit => ChatInv
  <2> SUFFICES ASSUME BotInit
               PROVE  ChatInv
    OBVIOUS
  <2>1. update = NoUpdate /\ job = NoJob /\ shown = [update |-> <<>>, job |-> <<>>]
    BY DEF BotInit
  <2>2. QED
    BY <2>1, NothingShown DEF NoUpdate, NoJob, ChatInv, SendsUpdate, SendsJob, ShownOK, UpdateAt
<1>2. ChatInv /\ BotInv /\ [BotNext]_botVars => ChatInv'
  BY ChatStep
<1>3. QED
  BY <1>1, <1>2, BotInvariant, PTL DEF BotSpec

\* What the chat shows of a text is its beginning, in parts that Telegram takes, and
\* nothing but newlines is left out (_split_text, send).
THEOREM PartsAreInOrder == BotSpec => []PartsInOrder
<1>1. ChatInv => PartsInOrder
  <2> SUFFICES ASSUME ChatInv
               PROVE  PartsInOrder
    OBVIOUS
  <2>1. UpdateAt("send") => InOrder(shown.update, update) /\ NothingLost(update)
    BY NothingIsLost DEF ChatInv, SendsUpdate, Sending
  <2>2. job.busy => InOrder(shown.job, job) /\ NothingLost(job)
    BY NothingIsLost DEF ChatInv, SendsJob, Sending
  <2>3. PartsFit(shown.update) /\ PartsFit(shown.job)
    BY DEF ChatInv, ShownOK
  <2>4. \A by \in {"update", "job"} : \A i \in DOMAIN shown[by] :
          Len(shown[by][i].text) <= Limit /\ ~Refused(shown[by][i].text)
    BY <2>3 DEF PartsFit
  <2>5. QED
    BY <2>1, <2>2, <2>4 DEF PartsInOrder
<1>2. QED
  BY <1>1, ChatInvariant, PTL

-----------------------------------------------------------------------------
(* The bot: updates go on *)

\* The places of a handler, by how far the end is.
Stage(pc) ==
  CASE pc = "idle" -> 0
    [] pc = "sorry" -> 1
    [] pc = "send" -> 2
    [] pc = "handle" -> 3
    [] pc = "write" -> 4
    [] pc = "fetch" -> 5
    [] OTHER -> 6

\* A handler comes to a place nearer to its end, or less of its text is left to send.
Nearer ==
  \/ Stage(update'.pc) < Stage(update.pc)
  \/ /\ UpdateAt("send") /\ UpdateAt("send")'
     /\ Len(update'.left) < Len(update.left)

\* Each step of a handler, and whatever else befalls the update in hand.
UpdateGoesOn == Handling \/ (~UpdateAt("idle") /\ update' # update) => Nearer

\* A handler that is left is as near to its end as it can be.
LEMMA EndIsNearer ==
  ASSUME UpdateOK, ~UpdateAt("idle"), update' = NoUpdate
  PROVE  Nearer
<1>1. update'.pc = "idle"
  BY DEF NoUpdate
<1>2. update.pc \in {"ack", "fetch", "write", "handle", "send", "sorry"}
  BY DEF UpdateOK, UpdateAt
<1>3. QED
  BY <1>1, <1>2 DEF Nearer, Stage

\* A handler that goes to a later place.
LEMMA PlaceIsNearer ==
  ASSUME UpdateOK, NEW pc, UpdateGoes(pc),
         \/ UpdateAt("ack") /\ pc = "fetch"
         \/ UpdateAt("fetch") /\ pc \in {"write", "handle"}
         \/ update.pc \in {"ack", "fetch", "write", "handle", "send"} /\ pc = "sorry"
  PROVE  Nearer
<1>1. update'.pc = pc
  BY DEF UpdateGoes, UpdateOK
<1>2. QED
  BY <1>1 DEF Nearer, Stage, UpdateAt

\* An exception leaves the handler or goes to its apology, which nothing catches.
LEMMA RaisingIsNearer ==
  ASSUME UpdateOK, ~UpdateAt("idle"), HandlerRaises
  PROVE  Nearer
<1>1. CASE ~Caught
  BY <1>1, EndIsNearer DEF HandlerRaises, Ends
<1>2. CASE Caught /\ update.kind = "text"
  <2>1. UpdateAt("handle") /\ SendsText(Apology)
    BY <1>2 DEF HandlerRaises, Caught
  <2>2. update'.pc = "send" /\ update.pc = "handle"
    BY <2>1 DEF SendsText, UpdateOK, UpdateAt
  <2>3. QED
    BY <2>2 DEF Nearer, Stage
<1>3. CASE Caught /\ update.kind # "text"
  <2>1. UpdateGoes("sorry") /\ update.pc \in {"handle", "fetch", "send"}
    BY <1>3 DEF HandlerRaises, Caught, UpdateAt
  <2>2. QED
    BY <2>1, PlaceIsNearer
<1>4. QED
  BY <1>1, <1>2, <1>3

\* A part that is sent leaves a shorter text, or none.
LEMMA SendingIsNearer ==
  ASSUME UpdateOK, ChatInv, SendPart
  PROVE  Nearer
<1>1. CASE Rest(update.left) = <<>>
  BY <1>1, EndIsNearer DEF SendPart, Ends, UpdateAt
<1>2. CASE Rest(update.left) # <<>>
  <2>1. update' = [update EXCEPT !.left = Rest(@)] /\ update.pc = "send"
    BY <1>2 DEF SendPart, UpdateAt
  <2>2. update'.pc = "send" /\ update'.left = Rest(update.left)
    BY <2>1 DEF UpdateOK
  <2>3. update.left \in Texts
    BY <2>1 DEF ChatInv, SendsUpdate, Sending, UpdateAt
  <2>4. update.left # <<>>
    <3>1. ASSUME update.left = <<>>
          PROVE  Rest(update.left) = <<>>
      BY <3>1, LimitIsNumber DEF Rest
    <3>2. QED
      BY <1>2, <3>1
  <2>5. Len(Rest(update.left)) < Len(update.left)
    BY <2>3, <2>4, SplitLosesOnlyNewlines
  <2>6. QED
    BY <2>1, <2>2, <2>5 DEF Nearer, UpdateAt
<1>3. QED
  BY <1>1, <1>2

\* Every step of a handler brings its update nearer to the end, whatever fails, however
\* long the text and whatever jobs do meanwhile; so an update takes finitely many steps
\* and the next one waits for no more than these (_on_message, _on_document, send).
THEOREM UpdatesGoOn == BotSpec => [][UpdateGoesOn]_botVars
<1>1. BotInv /\ ChatInv /\ [BotNext]_botVars => [UpdateGoesOn]_botVars
  <2> SUFFICES ASSUME BotInv, ChatInv, BotNext
               PROVE  UpdateGoesOn
    BY DEF botVars
  <2>1. UpdateOK
    BY DEF BotInv
  <2>2. ASSUME Handling
        PROVE  Nearer
    <3>1. CASE Ack \/ Fetched
      <4>1. \E pc \in {"fetch", "write", "handle"} :
              /\ UpdateGoes(pc)
              /\ \/ UpdateAt("ack") /\ pc = "fetch"
                 \/ UpdateAt("fetch") /\ pc \in {"write", "handle"}
        BY <3>1 DEF Ack, Fetched
      <4>2. QED
        BY <2>1, <4>1, PlaceIsNearer
    <3>2. CASE Written
      <4>1. update' = [update EXCEPT !.pc = "handle", !.path = TRUE] /\ update.pc = "write"
        BY <3>2 DEF Written, UpdateAt
      <4>2. update'.pc = "handle"
        BY <2>1, <4>1 DEF UpdateOK
      <4>3. QED
        BY <4>1, <4>2 DEF Nearer, Stage
    <3>3. CASE WriteFails
      BY <2>1, <3>3, PlaceIsNearer DEF WriteFails, UpdateAt
    <3>4. ASSUME NEW reply \in Replies, Answer(reply)
          PROVE  Nearer
      <4>1. update.pc = "handle" /\ update'.pc = "send"
        BY <2>1, <3>4 DEF Answer, UpdateAt, UpdateOK
      <4>2. QED
        BY <4>1 DEF Nearer, Stage
    <3>5. CASE SendPart
      BY <2>1, <3>5, SendingIsNearer
    <3>6. CASE Sorry
      BY <2>1, <3>6, EndIsNearer DEF Sorry, Ends, UpdateAt
    <3>7. CASE Fails
      BY <2>1, <3>7, RaisingIsNearer DEF Fails, UpdateAt
    <3>8. QED
      BY <2>2, <3>1, <3>2, <3>3, <3>4, <3>5, <3>6, <3>7 DEF Handling
  <2>3. ASSUME ~UpdateAt("idle"), update' # update, ~Handling
        PROVE  Nearer
    <3>1. update' = NoUpdate
      BY <2>3 DEF BotNext, Take, JobSends, JobPart, JobFails, BotCrash
    <3>2. QED
      BY <2>1, <2>3, <3>1, EndIsNearer
  <2>4. QED
    BY <2>2, <2>3 DEF UpdateGoesOn
<1>2. QED
  BY <1>1, BotInvariant, ChatInvariant, PTL DEF BotSpec

-----------------------------------------------------------------------------
(* The compactor: what builds hold *)

USE CompactorAssumption

Summaries == [covers : Nat, cost : Nat, made : Seq(Nat)]
ProcState == [pc : {"idle", "fetch", "summarize", "ask", "reply"},
              read : Summaries, first : Nat, last : Nat]
Prompts == [made : Seq(Nat), first : Nat, last : Nat, compacted : BOOLEAN]

TypesOK ==
  /\ rows \in Seq(Nat)
  /\ summary \in Summaries
  /\ proc \in [Procs -> ProcState]
  /\ prompt \in [Procs -> Prompts]

\* A summary made of the rows that it covers, each once and in order.
Whole(s) == s.made = Interval(1, s.covers)

\* What a build is about to summarise begins after what it has read and ends before the
\* newest KeepVerbatim rows.
Summarizes(s) ==
  s.pc = "summarize" =>
    /\ s.read.covers + 1 < s.first
    /\ s.first - 1 <= s.last - KeepVerbatim
    /\ s.last <= Len(rows)

BuildInv == \A p \in Procs : Whole(proc[p].read) /\ Summarizes(proc[p])

IInv == TypesOK /\ BuildInv /\ SummaryIsThePrefix /\ PromptSeamless

-----------------------------------------------------------------------------
(* Numbers and intervals *)

\* An interval of numbers, as a sequence.
LEMMA IntervalIsSeq ==
  ASSUME NEW i \in Nat, NEW j \in Nat, i <= j + 1
  PROVE  /\ Interval(i, j) \in Seq(Nat) /\ Len(Interval(i, j)) = j - i + 1
         /\ \A k \in 1..j - i + 1 : Interval(i, j)[k] = i + k - 1
<1>1. \A k \in 1..j - i + 1 : i + k - 1 \in Nat
  OBVIOUS
<1>2. j - i + 1 \in Nat
  OBVIOUS
<1>3. QED
  BY <1>1, <1>2 DEF Interval

\* The numbers up to n.
LEMMA FirstInterval ==
  ASSUME NEW n \in Nat
  PROVE  /\ Interval(1, n) \in Seq(Nat) /\ Len(Interval(1, n)) = n
         /\ \A k \in 1..n : Interval(1, n)[k] = k
<1>1. 1 \in Nat /\ 1 <= n + 1 /\ n - 1 + 1 = n
  OBVIOUS
<1>2. /\ Interval(1, n) \in Seq(Nat) /\ Len(Interval(1, n)) = n - 1 + 1
      /\ \A k \in 1..n - 1 + 1 : Interval(1, n)[k] = 1 + k - 1
  BY <1>1, IntervalIsSeq
<1>3. QED
  BY <1>1, <1>2

\* The rows of a summary and the rows after them.
LEMMA IntervalsJoin ==
  ASSUME NEW c \in Nat, NEW n \in Nat, c <= n
  PROVE  Interval(1, c) \o Interval(c + 1, n) = Interval(1, n)
<1> DEFINE a == Interval(1, c)
           b == Interval(c + 1, n)
           w == Interval(1, n)
<1>1. a \in Seq(Nat) /\ Len(a) = c /\ \A k \in 1..c : a[k] = k
  BY FirstInterval
<1>2. b \in Seq(Nat) /\ Len(b) = n - c /\ \A k \in 1..n - c : b[k] = c + k
  <2>1. c + 1 \in Nat /\ c + 1 <= n + 1 /\ n - (c + 1) + 1 = n - c
    OBVIOUS
  <2>2. /\ b \in Seq(Nat) /\ Len(b) = n - (c + 1) + 1
        /\ \A k \in 1..n - (c + 1) + 1 : b[k] = (c + 1) + k - 1
    BY <2>1, IntervalIsSeq
  <2>3. QED
    BY <2>1, <2>2
<1>3. w \in Seq(Nat) /\ Len(w) = n /\ \A k \in 1..n : w[k] = k
  BY FirstInterval
<1> HIDE DEF a, b, w
<1>4. /\ a \o b \in Seq(Nat) /\ Len(a \o b) = n
      /\ \A k \in 1..n : (a \o b)[k] = IF k <= c THEN a[k] ELSE b[k - c]
  <2>1. /\ a \o b \in Seq(Nat) /\ Len(a \o b) = Len(a) + Len(b)
        /\ \A k \in 1..Len(a) + Len(b) :
             (a \o b)[k] = IF k <= Len(a) THEN a[k] ELSE b[k - Len(a)]
    BY <1>1, <1>2, ConcatProperties
  <2>2. Len(a) + Len(b) = n
    BY <1>1, <1>2
  <2>3. QED
    BY <1>1, <2>1, <2>2
<1>5. ASSUME NEW k \in 1..n
      PROVE  (a \o b)[k] = w[k]
  <2>1. CASE k <= c
    BY <1>1, <1>3, <1>4, <2>1
  <2>2. CASE ~(k <= c)
    <3>1. k - c \in 1..n - c /\ c + (k - c) = k
      BY <2>2
    <3>2. QED
      BY <1>2, <1>3, <1>4, <2>2, <3>1
  <2>3. QED
    BY <2>1, <2>2
<1>6. a \o b = w
  BY <1>3, <1>4, <1>5, SeqEqual
<1>7. QED
  BY <1>6 DEF a, b, w

\* Where build stops adding older rows: at the rows the summary covers, or at the first
\* that does not fit; and what it leaves out is not of the newest KeepVerbatim rows.
LEMMA FirstVerbatimBounds ==
  ASSUME NEW read \in Summaries, NEW last \in Nat
  PROVE  /\ FirstVerbatim(read, last) \in Nat
         /\ read.covers + 1 <= FirstVerbatim(read, last)
         /\ read.covers + 1 < FirstVerbatim(read, last) =>
              FirstVerbatim(read, last) - 1 <= last - KeepVerbatim
<1> DEFINE c == read.covers
           pinned == FirstPinned(c, last)
           fitting == {i \in (c + 1)..pinned : Fits(i, read, last)}
           first == FirstVerbatim(read, last)
<1>1. c \in Nat
  BY DEF Summaries
<1>2. /\ pinned \in Nat /\ c + 1 <= pinned
      /\ c + 1 < pinned => pinned - 1 <= last - KeepVerbatim
  BY <1>1 DEF FirstPinned
<1>3. Fits(pinned, read, last)
  BY DEF Fits
<1> HIDE DEF c, pinned
<1>4. pinned \in fitting /\ fitting \subseteq Nat
  BY <1>1, <1>2, <1>3
<1>5. PICK x \in fitting : \A y \in fitting : x <= y
  BY <1>4, LeastNumber
<1>6. x > c + 1 => ~Fits(x - 1, read, last)
  <2>1. x \in (c + 1)..pinned
    BY <1>5
  <2>2. SUFFICES ASSUME x > c + 1, Fits(x - 1, read, last)
                 PROVE  FALSE
    OBVIOUS
  <2>3. x - 1 \in (c + 1)..pinned /\ ~(x <= x - 1)
    BY <1>1, <1>2, <2>1, <2>2
  <2>4. QED
    BY <1>5, <2>2, <2>3
<1>7. \E i \in (c + 1)..pinned :
        Fits(i, read, last) /\ (i > c + 1 => ~Fits(i - 1, read, last))
  BY <1>5, <1>6
<1>8. first \in (c + 1)..pinned
  BY <1>7 DEF FirstVerbatim, c, pinned
<1> HIDE DEF first
<1>9. /\ first \in Nat /\ c + 1 <= first
      /\ c + 1 < first => first - 1 <= last - KeepVerbatim
  BY <1>1, <1>2, <1>8
<1>10. QED
  BY <1>9 DEF first, c

\* A summary of what was read and of the rows left out is whole.
LEMMA NewSummaryIsWhole ==
  ASSUME NEW s \in ProcState, NEW cost \in Nat,
         Whole(s.read), s.read.covers + 1 < s.first
  PROVE  /\ NewSummary(s, cost) \in Summaries /\ Whole(NewSummary(s, cost))
         /\ NewSummary(s, cost).covers = s.first - 1
<1>1. /\ s.read.covers \in Nat /\ s.first \in Nat /\ s.first - 1 \in Nat
      /\ s.read.covers <= s.first - 1
  BY DEF ProcState, Summaries
<1>2. s.read.made \o Interval(s.read.covers + 1, s.first - 1) = Interval(1, s.first - 1)
  BY <1>1, IntervalsJoin DEF Whole
<1>3. Interval(1, s.first - 1) \in Seq(Nat)
  BY <1>1, FirstInterval
<1>4. QED
  BY <1>1, <1>2, <1>3 DEF NewSummary, Summaries, Whole

-----------------------------------------------------------------------------
(* The steps *)

\* Nothing that was summarised, and no prompt.
LEMMA Empty ==
  /\ NoSummary \in Summaries /\ Whole(NoSummary) /\ NoSummary.covers = 0
  /\ Idle \in ProcState /\ Idle.pc = "idle" /\ Idle.read = NoSummary
  /\ NoPrompt \in Prompts /\ NoPrompt.made = Interval(1, 0) /\ Len(NoPrompt.made) = 0
  /\ NoPrompt.first = 1 /\ NoPrompt.compacted = FALSE
<1>1. NoSummary \in Summaries
  BY DEF NoSummary, Summaries
<1>2. Interval(1, 0) = <<>>
  BY DEF Interval
<1>3. Whole(NoSummary) /\ NoSummary.covers = 0
  BY <1>2 DEF Whole, NoSummary
<1>4. Idle \in ProcState /\ Idle.pc = "idle" /\ Idle.read = NoSummary
  BY <1>1 DEF Idle, ProcState
<1>5. NoPrompt \in Prompts
  BY DEF NoPrompt, Prompts
<1>6. /\ NoPrompt.made = Interval(1, 0) /\ Len(NoPrompt.made) = 0
      /\ NoPrompt.first = 1 /\ NoPrompt.compacted = FALSE
  BY <1>2 DEF NoPrompt
<1>7. QED
  BY <1>1, <1>3, <1>4, <1>5, <1>6

\* The records of a process that is idle, or reads or writes rows.
LEMMA Records ==
  /\ \A s \in Summaries :
       LET r == [Idle EXCEPT !.pc = "fetch", !.read = s]
       IN  r \in ProcState /\ r.pc = "fetch" /\ r.read = s
  /\ \A pc \in {"idle", "reply"} :
       LET r == [Idle EXCEPT !.pc = pc]
       IN  r \in ProcState /\ r.pc = pc /\ r.read = NoSummary
  BY Empty DEF Idle, ProcState

\* An empty conversation.
LEMMA InitInv ==
  ASSUME Init
  PROVE  IInv
<1>1. TypesOK
  <2>1. proc \in [Procs -> ProcState] /\ prompt \in [Procs -> Prompts]
    BY Empty DEF Init
  <2>2. QED
    BY <2>1, Empty DEF Init, TypesOK
<1>2. BuildInv
  <2>1. \A p \in Procs : proc[p] = Idle
    BY DEF Init
  <2>2. QED
    BY <2>1, Empty DEF BuildInv, Summarizes
<1>3. SummaryIsThePrefix
  <2>1. summary = NoSummary
    BY DEF Init
  <2>2. QED
    BY <2>1, Empty DEF SummaryIsThePrefix, Whole
<1>4. PromptSeamless
  <2>1. \A p \in Procs : prompt[p] = NoPrompt
    BY DEF Init
  <2>2. QED
    BY <2>1, Empty DEF PromptSeamless
<1>5. QED
  BY <1>1, <1>2, <1>3, <1>4 DEF IInv

\* A step of one process, by which the conversation at most grows.
LEMMA OneProcess ==
  ASSUME IInv, NEW p \in Procs, NEW s \in ProcState, proc' = [proc EXCEPT ![p] = s],
         rows' \in Seq(Nat), Len(rows) <= Len(rows'), Whole(s.read), Summarizes(s)
  PROVE  proc' \in [Procs -> ProcState] /\ BuildInv'
<1>1. /\ proc' \in [Procs -> ProcState] /\ proc'[p] = s
      /\ \A q \in Procs : q # p => proc'[q] = proc[q]
  BY DEF IInv, TypesOK
<1>2. Len(rows) \in Nat /\ Len(rows') \in Nat
  BY LenProperties DEF IInv, TypesOK
<1>3. ASSUME NEW r \in ProcState, Summarizes(r)
      PROVE  r.pc = "summarize" => /\ r.read.covers + 1 < r.first
                                   /\ r.first - 1 <= r.last - KeepVerbatim
                                   /\ r.last <= Len(rows')
  <2>1. r.last \in Nat
    BY DEF ProcState
  <2>2. QED
    BY <1>2, <1>3, <2>1 DEF Summarizes
<1>4. BuildInv'
  <2> SUFFICES ASSUME NEW q \in Procs
               PROVE  Whole(proc'[q].read) /\ Summarizes(proc[q])'
    BY DEF BuildInv, Whole
  <2>1. proc'[q] \in ProcState /\ Whole(proc'[q].read) /\ Summarizes(proc'[q])
    BY <1>1 DEF IInv, BuildInv, TypesOK
  <2>2. QED
    BY <1>3, <2>1 DEF Summarizes
<1>5. QED
  BY <1>1, <1>4

\* What a process shows its LLM: a whole summary, and rows that come after it.
LEMMA ShowsKeeps ==
  ASSUME IInv, NEW p \in Procs, NEW s \in Summaries, NEW first \in Nat, NEW last \in Nat,
         NEW compacted \in BOOLEAN, Shows(p, s, first, last, compacted),
         Whole(s), s.covers < first, compacted => first = s.covers + 1
  PROVE  prompt' \in [Procs -> Prompts] /\ PromptSeamless'
<1> DEFINE r == [made |-> s.made, first |-> first, last |-> last, compacted |-> compacted]
<1>1. r \in Prompts
  BY DEF Prompts, Summaries
<1>2. r.made = s.made /\ r.first = first /\ r.compacted = compacted
  OBVIOUS
<1>3. s.covers \in Nat /\ s.made = Interval(1, s.covers) /\ Len(s.made) = s.covers
  <2>1. s.covers \in Nat
    BY DEF Summaries
  <2>2. Len(Interval(1, s.covers)) = s.covers
    BY <2>1, FirstInterval
  <2>3. QED
    BY <2>1, <2>2 DEF Whole
<1>4. prompt' = [prompt EXCEPT ![p] = r]
  BY DEF Shows
<1> HIDE DEF r
<1>5. /\ prompt' \in [Procs -> Prompts] /\ prompt'[p] = r
      /\ \A q \in Procs : q # p => prompt'[q] = prompt[q]
  BY <1>1, <1>4 DEF IInv, TypesOK
<1>6. PromptSeamless'
  <2> SUFFICES ASSUME NEW q \in Procs
               PROVE  /\ prompt'[q].made = Interval(1, Len(prompt'[q].made))
                      /\ Len(prompt'[q].made) < prompt'[q].first
                      /\ prompt'[q].compacted =>
                           prompt'[q].first = Len(prompt'[q].made) + 1
    BY DEF PromptSeamless, Interval
  <2>1. CASE q = p
    BY <1>2, <1>3, <1>5, <2>1
  <2>2. CASE q # p
    BY <1>5, <2>2 DEF IInv, PromptSeamless
  <2>3. QED
    BY <2>1, <2>2
<1>7. QED
  BY <1>5, <1>6

\* build reads the summary.
LEMMA ReadSummaryKeeps ==
  ASSUME IInv, NEW p \in Procs, ReadSummary(p)
  PROVE  IInv'
<1> DEFINE s == [Idle EXCEPT !.pc = "fetch", !.read = summary]
<1>1. proc' = [proc EXCEPT ![p] = s] /\ UNCHANGED <<rows, summary, prompt>>
  BY DEF ReadSummary
<1>2. s \in ProcState /\ s.pc = "fetch" /\ s.read = summary
  BY Records DEF IInv, TypesOK
<1> HIDE DEF s
<1>3. Whole(s.read) /\ Summarizes(s)
  BY <1>2 DEF IInv, SummaryIsThePrefix, Whole, Summarizes
<1>4. proc' \in [Procs -> ProcState] /\ BuildInv'
  <2>1. rows' \in Seq(Nat) /\ Len(rows) <= Len(rows')
    BY <1>1, LenProperties DEF IInv, TypesOK
  <2>2. QED
    BY <1>1, <1>2, <1>3, <2>1, OneProcess
<1>5. TypesOK' /\ SummaryIsThePrefix' /\ PromptSeamless'
  BY <1>1, <1>4 DEF IInv, TypesOK, SummaryIsThePrefix, PromptSeamless, Interval
<1>6. QED
  BY <1>4, <1>5 DEF IInv

\* build reads the rows, and goes on to the LLM or to the summarizer.
LEMMA FetchKeeps ==
  ASSUME IInv, NEW p \in Procs, Fetch(p)
  PROVE  IInv'
<1> DEFINE read == proc[p].read
           last == Len(rows)
           first == FirstVerbatim(read, last)
<1>1. /\ proc[p] \in ProcState /\ read \in Summaries /\ read.covers \in Nat
      /\ last \in Nat /\ Whole(read)
  <2>1. proc[p] \in ProcState /\ Whole(read) /\ last \in Nat
    BY LenProperties DEF IInv, TypesOK, BuildInv
  <2>2. QED
    BY <2>1 DEF ProcState, Summaries
<1>2. /\ first \in Nat /\ read.covers + 1 <= first
      /\ read.covers + 1 < first => first - 1 <= last - KeepVerbatim
  BY <1>1, FirstVerbatimBounds
<1>3. UNCHANGED <<rows, summary>> /\ rows' \in Seq(Nat) /\ Len(rows) <= Len(rows')
  BY <1>1 DEF Fetch, IInv, TypesOK
<1>4. CASE first > read.covers + 1 /\ UsedUp(read, first, last)
  <2> DEFINE s == [proc[p] EXCEPT !.pc = "summarize", !.first = first, !.last = last]
  <2>1. proc' = [proc EXCEPT ![p] = s] /\ prompt' = prompt
    BY <1>4 DEF Fetch
  <2>2. /\ s \in ProcState /\ s.read = read /\ s.first = first /\ s.last = last
    BY <1>1, <1>2 DEF ProcState
  <2> HIDE DEF s, first
  <2>3. Whole(s.read) /\ Summarizes(s)
    BY <1>1, <1>2, <1>4, <2>2 DEF Summarizes
  <2>4. proc' \in [Procs -> ProcState] /\ BuildInv'
    BY <1>3, <2>1, <2>2, <2>3, OneProcess
  <2>5. TypesOK' /\ SummaryIsThePrefix' /\ PromptSeamless'
    BY <1>3, <2>1, <2>4 DEF IInv, TypesOK, SummaryIsThePrefix, PromptSeamless, Interval
  <2>6. QED
    BY <2>4, <2>5 DEF IInv
<1>5. CASE ~(first > read.covers + 1 /\ UsedUp(read, first, last))
  <2> DEFINE s == [proc[p] EXCEPT !.pc = "ask"]
  <2>1. proc' = [proc EXCEPT ![p] = s] /\ Shows(p, read, first, last, FALSE)
    BY <1>5 DEF Fetch
  <2>2. s \in ProcState /\ s.read = read /\ s.pc = "ask"
    BY <1>1 DEF ProcState
  <2> HIDE DEF s, first
  <2>3. Whole(s.read) /\ Summarizes(s)
    BY <1>1, <2>2 DEF Summarizes
  <2>4. proc' \in [Procs -> ProcState] /\ BuildInv'
    BY <1>3, <2>1, <2>2, <2>3, OneProcess
  <2>5. prompt' \in [Procs -> Prompts] /\ PromptSeamless'
    <3>1. read.covers < first
      BY <1>1, <1>2
    <3>2. QED
      BY <1>1, <1>2, <2>1, <3>1, ShowsKeeps
  <2>6. TypesOK' /\ SummaryIsThePrefix'
    BY <1>3, <2>4, <2>5 DEF IInv, TypesOK, SummaryIsThePrefix, Interval
  <2>7. QED
    BY <2>4, <2>5, <2>6 DEF IInv
<1>6. QED
  BY <1>4, <1>5

\* The rows left out are summarised, and the summary replaces the one in the database,
\* whatever another process made of that meanwhile.
LEMMA CompactKeeps ==
  ASSUME IInv, NEW p \in Procs, Compact(p)
  PROVE  IInv'
<1> DEFINE r == proc[p]
           s == [r EXCEPT !.pc = "ask"]
<1>1. /\ r \in ProcState /\ r.pc = "summarize" /\ Whole(r.read) /\ Summarizes(r)
      /\ r.first \in Nat /\ r.last \in Nat /\ Len(rows) \in Nat
  <2>1. r \in ProcState /\ r.pc = "summarize" /\ Whole(r.read) /\ Summarizes(r)
    BY DEF Compact, At, IInv, TypesOK, BuildInv
  <2>2. QED
    BY <2>1, LenProperties DEF ProcState, IInv, TypesOK
<1>2. /\ r.read.covers + 1 < r.first
      /\ r.first - 1 <= r.last - KeepVerbatim /\ r.last <= Len(rows)
  BY <1>1 DEF Summarizes
<1>3. PICK cost \in Nat : summary' = NewSummary(r, cost)
  BY DEF Compact
<1>4. /\ proc' = [proc EXCEPT ![p] = s]
      /\ Shows(p, summary', r.first, r.last, TRUE) /\ rows' = rows
  BY DEF Compact
<1>5. s \in ProcState /\ s.read = r.read /\ s.pc = "ask"
  BY <1>1 DEF ProcState
<1> HIDE DEF s, r
<1>6. /\ summary' \in Summaries /\ Whole(summary') /\ summary'.covers = r.first - 1
  BY <1>1, <1>2, <1>3, NewSummaryIsWhole
<1>7. proc' \in [Procs -> ProcState] /\ BuildInv'
  <2>1. rows' \in Seq(Nat) /\ Len(rows) <= Len(rows')
    BY <1>1, <1>4 DEF IInv, TypesOK
  <2>2. Whole(s.read) /\ Summarizes(s)
    BY <1>1, <1>5 DEF Summarizes
  <2>3. QED
    BY <1>4, <1>5, <2>1, <2>2, OneProcess
<1>8. prompt' \in [Procs -> Prompts] /\ PromptSeamless'
  <2>1. summary'.covers < r.first /\ r.first = summary'.covers + 1
    BY <1>1, <1>6
  <2>2. QED
    BY <1>1, <1>4, <1>6, <2>1, ShowsKeeps
<1>9. SummaryIsThePrefix'
  <2>1. summary'.covers <= Len(rows) - KeepVerbatim
    BY <1>1, <1>2, <1>6
  <2>2. QED
    BY <1>4, <1>6, <2>1 DEF SummaryIsThePrefix, Whole, Interval
<1>10. TypesOK'
  BY <1>4, <1>6, <1>7, <1>8 DEF IInv, TypesOK
<1>11. QED
  BY <1>7, <1>8, <1>9, <1>10 DEF IInv

\* A message that ends, or writes a row.
LEMMA MessageKeeps ==
  ASSUME IInv, NEW p \in Procs, Breaks(p) \/ Ask(p) \/ Reply(p)
  PROVE  IInv'
<1>1. PICK pc \in {"idle", "reply"} : proc' = [proc EXCEPT ![p] = [Idle EXCEPT !.pc = pc]]
  <2>1. Idle = [Idle EXCEPT !.pc = "idle"]
    BY DEF Idle
  <2>2. QED
    BY <2>1 DEF Breaks, Ask, Reply, AppendRow
<1>2. UNCHANGED <<summary, prompt>>
  BY DEF Breaks, Ask, Reply, AppendRow
<1>3. rows' \in Seq(Nat) /\ Len(rows) <= Len(rows') /\ Len(rows) \in Nat /\ Len(rows') \in Nat
  <2>1. rows \in Seq(Nat)
    BY DEF IInv, TypesOK
  <2>2. rows' = rows \/ \E cost \in Nat : rows' = Append(rows, cost)
    BY DEF Breaks, Ask, Reply, AppendRow
  <2>3. QED
    BY <2>1, <2>2
<1> DEFINE s == [Idle EXCEPT !.pc = pc]
<1>4. s \in ProcState /\ s.pc = pc /\ s.read = NoSummary
  BY Records
<1> HIDE DEF s
<1>5. Whole(s.read) /\ Summarizes(s)
  BY <1>4, Empty DEF Summarizes
<1>6. proc' \in [Procs -> ProcState] /\ BuildInv'
  BY <1>1, <1>3, <1>4, <1>5, OneProcess DEF s
<1>7. SummaryIsThePrefix'
  <2>1. summary.covers \in Nat
    BY DEF IInv, TypesOK, Summaries
  <2>2. QED
    BY <1>2, <1>3, <2>1 DEF IInv, SummaryIsThePrefix, Interval
<1>8. TypesOK' /\ PromptSeamless'
  BY <1>2, <1>3, <1>6 DEF IInv, TypesOK, PromptSeamless, Interval
<1>9. QED
  BY <1>6, <1>7, <1>8 DEF IInv

-----------------------------------------------------------------------------

\* The invariant that the theorems follow from.
THEOREM CompactorInvariant == Spec => []IInv
<1>1. Init => IInv
  BY InitInv
<1>2. IInv /\ [Next]_vars => IInv'
  <2>1. ASSUME IInv, UNCHANGED vars
        PROVE  IInv'
    BY <2>1 DEF vars, IInv, TypesOK, BuildInv, Whole, Summarizes, SummaryIsThePrefix,
       PromptSeamless, Interval
  <2>2. QED
    BY <2>1, ReadSummaryKeeps, FetchKeeps, CompactKeeps, MessageKeeps DEF Next
<1>3. QED
  BY <1>1, <1>2, PTL DEF Spec

\* However the builds of several processes interleave, the summary is made of the rows
\* it covers, each once and in order, and of none of the newest keep_verbatim
\* (HistoryCompactor.build, and its test_keep_verbatim_always_pinned).
THEOREM SummariesAreWhole == Spec => []SummaryIsThePrefix
<1>1. IInv => SummaryIsThePrefix
  BY DEF IInv
<1>2. QED
  BY <1>1, CompactorInvariant, PTL

\* No prompt repeats a row that its summary covers, and none leaves out a row right
\* after a compaction (HistoryCompactor.build).
THEOREM PromptsAreSeamless == Spec => []PromptSeamless
<1>1. IInv => PromptSeamless
  BY DEF IInv
<1>2. QED
  BY <1>1, CompactorInvariant, PTL
=============================================================================
