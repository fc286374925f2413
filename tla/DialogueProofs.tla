----------------------------- MODULE DialogueProofs -----------------------------
(***************************************************************************)
(* For every buffer, listing and number of choices: answers are behind by  *)
(* one question for each slip at most, client and session never wait for   *)
(* one another, replies left unseen are the last one or one for each slip, *)
(* and what follows a question is a question of the menus or the end.      *)
(***************************************************************************)
EXTENDS Dialogue, TLAPS

Lines == [nr : Int, whole : BOOLEAN]

Shape ==
    /\ asked \in Nat /\ slips \in Nat /\ shown \in Int /\ input \in Int
    /\ toClient \in Seq(Token) /\ buffer \in Seq(Token) /\ lost \in Seq(Token)
    /\ toServer \in Seq(Lines)
    /\ answer \in [asked : Int, typed : Int]

(* Replies follow one another: the number goes up after a final token and  *)
(* nowhere else.                                                           *)
Ordered(s) ==
    \A i, j \in DOMAIN s : i < j =>
        /\ s[i].nr <= s[j].nr
        /\ s[i].kind \in Final => s[i].nr < s[j].nr
        /\ s[i].nr < s[j].nr => \E k \in i..(j - 1) : s[k].kind \in Final
        /\ j = i + 1 => s[j].nr <= s[i].nr + 1

Halves(s) == \A i \in DOMAIN s :
                s[i].kind = "half" => i < Len(s) /\ s[i + 1].kind = "enter"

(* The stream ends with the question asked last.                           *)
StreamInv ==
    /\ Ordered(toClient) /\ Halves(toClient)
    /\ toClient # <<>> => toClient[Len(toClient)].nr = asked
    /\ place # "exit" /\ toClient # <<>> => toClient[Len(toClient)].kind \in Final

(* What the buffer holds belongs to the reply that comes next.             *)
Coming == IF toClient = <<>> THEN asked ELSE toClient[1].nr

BufferInv == \A i \in DOMAIN buffer :
                /\ buffer[i].kind \notin Asking
                /\ buffer[i].nr = Coming

WaitInv ==
    place # "exit" =>
       /\ lost = <<>>
       /\ toClient = <<>> => buffer = <<>> /\ (client = "type" \/ toServer # <<>>)

(* The last question that has been received to its end.                    *)
Received == IF toClient = <<>> THEN asked ELSE toClient[1].nr - 1

(* uses[i]: the highest number of the question the i-th line may be used   *)
(* for; after the last line, that of a line yet to be typed.               *)
Uses(uses) ==
    LET n == Len(toServer) IN
    /\ uses \in [1..(n + 1) -> Int]
    /\ asked <= uses[1]
    /\ \A i, j \in 1..(n + 1) : i < j => uses[i] <= uses[j]
    /\ \A i \in 1..n : /\ toServer[i].whole => uses[i] < uses[i + 1]
                       /\ uses[i] <= toServer[i].nr + slips
                       /\ toServer[i].nr <= asked
    /\ uses[n + 1] <= Received + slips + (IF client = "type" THEN 0 ELSE 1)
    /\ input # 0 => uses[n + 1] <= input + slips + 1

LagInv ==
    /\ place # "exit" => \E uses \in [1..(Len(toServer) + 1) -> Int] : Uses(uses)
    /\ input <= asked
    /\ client = "type" /\ place # "exit" => Received <= shown /\ shown <= asked
    /\ AnswersLag

(* Also when the session is over, and until the client ends: the questions *)
(* it has not received to their end are one for each slip and, while it    *)
(* receives, one more.                                                     *)
BehindInv ==
    client \in {"receive", "type"} =>
       /\ lost = <<>>
       /\ asked <= Received + slips + (IF client = "type" THEN 0 ELSE 1)

IInv == /\ Shape /\ StreamInv /\ BufferInv /\ WaitInv /\ LagInv
        /\ BehindInv /\ UnseenWithinSlips

-----------------------------------------------------------------------------
(* Sequences of tokens.                                                    *)

LEMMA SuffixFacts ==
    ASSUME NEW S, NEW s \in Seq(S), NEW n \in 1..Len(s)
    PROVE  /\ SubSeq(s, n + 1, Len(s)) \in Seq(S)
           /\ Len(SubSeq(s, n + 1, Len(s))) = Len(s) - n
           /\ \A i \in 1..(Len(s) - n) : SubSeq(s, n + 1, Len(s))[i] = s[i + n]
  OBVIOUS

(* The first n elements of a sequence.                                     *)
LEMMA PrefixFacts ==
    ASSUME NEW S, NEW s \in Seq(S), NEW n \in 1..Len(s)
    PROVE  /\ SubSeq(s, 1, n) \in Seq(S)
           /\ Len(SubSeq(s, 1, n)) = n
           /\ \A i \in 1..n : SubSeq(s, 1, n)[i] = s[i]
<1>1. SubSeq(s, 1, n) \in Seq(S)
  OBVIOUS
<1>2. Len(SubSeq(s, 1, n)) = n
  OBVIOUS
<1>3. \A i \in 1..n : SubSeq(s, 1, n)[i] = s[i]
  OBVIOUS
<1>4. QED
  BY <1>1, <1>2, <1>3

LEMMA OrderedSuffix ==
    ASSUME NEW s \in Seq(Token), NEW n \in 1..Len(s), Ordered(s), Halves(s)
    PROVE  /\ Ordered(SubSeq(s, n + 1, Len(s)))
           /\ Halves(SubSeq(s, n + 1, Len(s)))
<1> DEFINE t == SubSeq(s, n + 1, Len(s))
<1>1. t \in Seq(Token) /\ Len(t) = Len(s) - n /\ \A i \in 1..(Len(s) - n) : t[i] = s[i + n]
  BY SuffixFacts
<1> HIDE DEF t
<1>2. DOMAIN t = 1..(Len(s) - n) /\ DOMAIN s = 1..Len(s)
  BY <1>1
<1>3. Halves(t)
  <2> SUFFICES ASSUME NEW i \in 1..(Len(s) - n), t[i].kind = "half"
               PROVE  i < Len(t) /\ t[i + 1].kind = "enter"
    BY <1>2 DEF Halves
  <2>1. s[i + n].kind = "half" /\ i + n \in DOMAIN s
    BY <1>1, <1>2
  <2>2. i + n < Len(s) /\ s[(i + n) + 1].kind = "enter"
    BY <2>1 DEF Halves
  <2>3. i + 1 \in 1..(Len(s) - n) /\ (i + 1) + n = (i + n) + 1
    BY <2>2
  <2>4. t[i + 1] = s[(i + n) + 1]
    BY <2>3, <1>1
  <2> QED BY <2>2, <2>4, <1>1
<1>4. Ordered(t)
  <2> SUFFICES ASSUME NEW i \in 1..(Len(s) - n), NEW j \in 1..(Len(s) - n), i < j
               PROVE  /\ t[i].nr <= t[j].nr
                      /\ t[i].kind \in Final => t[i].nr < t[j].nr
                      /\ t[i].nr < t[j].nr => \E k \in i..(j - 1) : t[k].kind \in Final
                      /\ j = i + 1 => t[j].nr <= t[i].nr + 1
    BY <1>2 DEF Ordered
  <2>1. i + n \in DOMAIN s /\ j + n \in DOMAIN s /\ i + n < j + n
        /\ t[i] = s[i + n] /\ t[j] = s[j + n]
    BY <1>1, <1>2
  <2>2. /\ s[i + n].nr <= s[j + n].nr
        /\ s[i + n].kind \in Final => s[i + n].nr < s[j + n].nr
        /\ s[i + n].nr < s[j + n].nr =>
              \E k \in (i + n)..((j + n) - 1) : s[k].kind \in Final
        /\ j + n = (i + n) + 1 => s[j + n].nr <= s[i + n].nr + 1
    <3> DEFINE p == i + n  q == j + n
    <3>1. p \in DOMAIN s /\ q \in DOMAIN s /\ p < q
      BY <2>1
    <3> HIDE DEF p, q
    <3>2. /\ s[p].nr <= s[q].nr
          /\ s[p].kind \in Final => s[p].nr < s[q].nr
          /\ s[p].nr < s[q].nr => \E k \in p..(q - 1) : s[k].kind \in Final
          /\ q = p + 1 => s[q].nr <= s[p].nr + 1
      BY <3>1 DEF Ordered
    <3> QED BY <3>2 DEF p, q
  <2>3. ASSUME t[i].nr < t[j].nr PROVE \E k \in i..(j - 1) : t[k].kind \in Final
    <3>1. PICK k \in (i + n)..((j + n) - 1) : s[k].kind \in Final
      BY <2>1, <2>2, <2>3
    <3>2. k - n \in i..(j - 1) /\ t[k - n] = s[k]
      BY <1>1
    <3> QED BY <3>1, <3>2
  <2> QED BY <2>1, <2>2, <2>3
<1> QED BY <1>3, <1>4 DEF t

LEMMA OrderedAppend ==
    ASSUME NEW a \in Nat, NEW s \in Seq(Token), NEW t \in Seq(Token),
           Ordered(s), Halves(s), Halves(t),
           s # <<>> => s[Len(s)].nr = a /\ s[Len(s)].kind \in Final,
           \A i \in DOMAIN t : t[i].nr = a + 1 /\ (i < Len(t) => t[i].kind \notin Final)
    PROVE  Ordered(s \o t) /\ Halves(s \o t)
<1> DEFINE u == s \o t
<1>1. /\ u \in Seq(Token) /\ Len(u) = Len(s) + Len(t)
      /\ \A i \in 1..Len(s) : u[i] = s[i]
      /\ \A i \in 1..Len(t) : u[i + Len(s)] = t[i]
  OBVIOUS
<1>2. \A i \in 1..Len(u) : i > Len(s) => i - Len(s) \in 1..Len(t) /\ u[i] = t[i - Len(s)]
  <2> TAKE i \in 1..Len(u)
  <2> HAVE i > Len(s)
  <2>1. i - Len(s) \in 1..Len(t)
    BY <1>1
  <2>2. u[(i - Len(s)) + Len(s)] = t[i - Len(s)]
    BY <2>1, <1>1
  <2> QED BY <2>1, <2>2, <1>1
<1> HIDE DEF u
<1>3. DOMAIN u = 1..Len(u) /\ DOMAIN s = 1..Len(s) /\ DOMAIN t = 1..Len(t)
  BY <1>1
<1>4. \A i \in 1..Len(s) : s[i].nr \in Nat /\ s[i].nr <= a
  <2> TAKE i \in 1..Len(s)
  <2>1. s # <<>> /\ Len(s) \in DOMAIN s /\ s[i] \in Token
    BY <1>3
  <2>2. CASE i = Len(s)
    BY <2>1, <2>2 DEF Token
  <2>3. CASE i < Len(s)
    BY <2>1, <2>3, <1>3 DEF Ordered, Token
  <2> QED BY <2>2, <2>3
<1>5. Halves(u)
  <2> SUFFICES ASSUME NEW i \in 1..Len(u), u[i].kind = "half"
               PROVE  i < Len(u) /\ u[i + 1].kind = "enter"
    BY <1>3 DEF Halves
  <2>1. CASE i <= Len(s)
    <3>1. i \in DOMAIN s /\ s[i].kind = "half"
      BY <2>1, <1>1, <1>3
    <3>2. i < Len(s) /\ s[i + 1].kind = "enter"
      BY <3>1 DEF Halves
    <3> QED BY SMTT(30), <3>2, <1>1
  <2>2. CASE i > Len(s)
    <3>1. i - Len(s) \in DOMAIN t /\ t[i - Len(s)].kind = "half"
      BY <2>2, <1>2, <1>3
    <3>2. i - Len(s) < Len(t) /\ t[(i - Len(s)) + 1].kind = "enter"
      BY <3>1 DEF Halves
    <3>3. i + 1 \in 1..Len(u) /\ i + 1 > Len(s)
      BY <3>2, <2>2, <1>1
    <3>4. (i + 1) - Len(s) = (i - Len(s)) + 1
      BY <2>2, <1>1
    <3>5. u[i + 1] = t[(i + 1) - Len(s)]
      BY <3>3, <1>2
    <3> QED BY <3>2, <3>3, <3>4, <3>5
  <2> QED BY <2>1, <2>2, <1>1
<1>6. Ordered(u)
  <2> SUFFICES ASSUME NEW i \in 1..Len(u), NEW j \in 1..Len(u), i < j
               PROVE  /\ u[i].nr <= u[j].nr
                      /\ u[i].kind \in Final => u[i].nr < u[j].nr
                      /\ u[i].nr < u[j].nr => \E k \in i..(j - 1) : u[k].kind \in Final
                      /\ j = i + 1 => u[j].nr <= u[i].nr + 1
    BY <1>3 DEF Ordered
  <2>1. CASE j <= Len(s)
    <3>1. i \in DOMAIN s /\ j \in DOMAIN s /\ u[i] = s[i] /\ u[j] = s[j]
      BY <2>1, <1>1, <1>3
    <3>2. \A k \in i..(j - 1) : u[k] = s[k]
      <4> TAKE k \in i..(j - 1)
      <4>1. k \in 1..Len(s)
        BY <2>1, <1>1
      <4> QED BY <4>1, <1>1
    <3>3. /\ s[i].nr <= s[j].nr
          /\ s[i].kind \in Final => s[i].nr < s[j].nr
          /\ s[i].nr < s[j].nr => \E k \in i..(j - 1) : s[k].kind \in Final
          /\ j = i + 1 => s[j].nr <= s[i].nr + 1
      BY <3>1 DEF Ordered
    <3>4. (\E k \in i..(j - 1) : s[k].kind \in Final)
             => \E k \in i..(j - 1) : u[k].kind \in Final
      BY <3>2
    <3> QED BY <3>1, <3>3, <3>4
  <2>2. CASE i <= Len(s) /\ j > Len(s)
    <3>1. u[i] = s[i] /\ u[j] = t[j - Len(s)] /\ u[j].nr = a + 1
      BY <2>2, <1>1, <1>2, <1>3
    <3>2. u[i].nr \in Nat /\ u[i].nr <= a
      BY <2>2, <3>1, <1>4
    <3>3. s # <<>> /\ Len(s) \in i..(j - 1) /\ u[Len(s)] = s[Len(s)]
      BY <2>2, <1>1
    <3>4. j = i + 1 => i = Len(s)
      BY <2>2, <1>1
    <3> QED BY SMTT(30), <3>1, <3>2, <3>3, <3>4
  <2>3. CASE i > Len(s)
    <3>1. i - Len(s) \in DOMAIN t /\ j - Len(s) \in DOMAIN t /\ i - Len(s) < Len(t)
          /\ u[i] = t[i - Len(s)] /\ u[j] = t[j - Len(s)]
      BY <2>3, <1>1, <1>2, <1>3
    <3>2. u[i].nr = a + 1 /\ u[j].nr = a + 1 /\ u[i].kind \notin Final
      BY <3>1
    <3> QED BY <3>2
  <2> QED BY <2>1, <2>2, <2>3, <1>1
<1> QED BY <1>5, <1>6 DEF u


LEMMA OneOrTwoMore ==
    \A a \in Nat : \A b \in 1..2 : \A i \in 1..(a + b) :
       /\ i \in 1..a \/ i = a + 1 \/ (b = 2 /\ i = a + 2)
       /\ i < a + b => i \in 1..a \/ (b = 2 /\ i = a + 1)
  OBVIOUS

(* A reply is rows without a question and then one question, which is its  *)
(* last token.                                                             *)
LEMMA QuestionShape ==
    ASSUME NEW to
    PROVE  LET q == Question(to) IN
           /\ q \in Seq(Kinds) /\ Len(q) \in 1..2
           /\ Len(q) = 2 => q[1] \notin Final
           /\ q[1] = "half" => Len(q) = 2 /\ q[2] = "enter"
           /\ Len(q) = 2 => q[2] # "half"
           /\ to # "exit" => q[Len(q)] \in Final
<1>1. /\ Question(to) \in {<<"half", "enter">>, <<"confirm">>, <<"text", "exit">>,
                           <<"text", "enter">>, <<"enter">>}
      /\ Question(to) = <<"text", "exit">> => to = "exit"
  BY DEF Question
<1> DEFINE q == Question(to)
<1> HIDE DEF q
<1>2. CASE q = <<"half", "enter">>
  BY <1>2 DEF Kinds, Final, q
<1>3. CASE q = <<"confirm">>
  BY <1>3 DEF Kinds, Final, q
<1>4. CASE q = <<"text", "exit">>
  BY <1>1, <1>4 DEF Kinds, Final, q
<1>5. CASE q = <<"text", "enter">>
  BY <1>5 DEF Kinds, Final, q
<1>6. CASE q = <<"enter">>
  BY <1>6 DEF Kinds, Final, q
<1> QED BY <1>1, <1>2, <1>3, <1>4, <1>5, <1>6 DEF q

LEMMA ReplyShape ==
    ASSUME NEW from, NEW to, NEW rows \in Listings(from, to), NEW m \in Nat
    PROVE  LET t == Numbered(rows \o Question(to), m) IN
           /\ t \in Seq(Token) /\ Len(t) \in Nat \ {0}
           /\ \A i \in DOMAIN t : /\ t[i].nr = m
                                  /\ i < Len(t) => t[i].kind \notin Final
           /\ Halves(t)
           /\ to # "exit" => t[Len(t)].kind \in Final
<1> DEFINE q == Question(to)  k == rows \o q  t == Numbered(k, m)
<1>1. rows \in Seq({"text", "name"})
  <2>1. <<>> \in Seq({"text", "name"}) /\ <<"name">> \in Seq({"text", "name"})
    OBVIOUS
  <2> QED BY <2>1, DialogueAssumption DEF Listings, DialogueAssumption
<1>2. /\ q \in Seq(Kinds) /\ Len(q) \in 1..2
      /\ Len(q) = 2 => q[1] \notin Final
      /\ q[1] = "half" => Len(q) = 2 /\ q[2] = "enter"
      /\ Len(q) = 2 => q[2] # "half"
      /\ to # "exit" => q[Len(q)] \in Final
  BY QuestionShape
<1> HIDE DEF q
<1>3. rows \in Seq(Kinds)
  <2>1. \A i \in 1..Len(rows) : rows[i] \in Kinds
    BY <1>1 DEF Kinds
  <2> QED BY <2>1, <1>1
<1>4. /\ k \in Seq(Kinds) /\ Len(k) = Len(rows) + Len(q) /\ Len(rows) \in Nat
      /\ \A i \in 1..Len(rows) : k[i] \in {"text", "name"}
      /\ k[Len(rows) + 1] = q[1]
      /\ Len(q) = 2 => k[Len(rows) + 2] = q[2]
  <2>1. /\ k \in Seq(Kinds) /\ Len(k) = Len(rows) + Len(q) /\ Len(rows) \in Nat
        /\ \A i \in 1..Len(rows) : k[i] = rows[i]
        /\ \A i \in 1..Len(q) : k[Len(rows) + i] = q[i]
    BY <1>2, <1>3
  <2>2. \A i \in 1..Len(rows) : rows[i] \in {"text", "name"}
    BY <1>1
  <2> QED BY <2>1, <2>2, <1>2
<1> HIDE DEF k
<1>5. /\ t = [i \in 1..Len(k) |-> [kind |-> k[i], nr |-> m]]
      /\ t \in Seq(Token) /\ Len(t) = Len(k) /\ DOMAIN t = 1..Len(k)
  BY <1>4 DEF Numbered, Token
<1>6. \A i \in 1..Len(k) : t[i].nr = m /\ t[i].kind = k[i]
  BY <1>5
<1> HIDE DEF t
<1>7. \A i \in 1..Len(k) : \/ i \in 1..Len(rows)
                           \/ i = Len(rows) + 1
                           \/ Len(q) = 2 /\ i = Len(rows) + 2
  BY <1>4, <1>2, OneOrTwoMore
<1>8. \A i \in 1..Len(k) : i < Len(k) => k[i] \notin Final
  <2> TAKE i \in 1..Len(k)
  <2> HAVE i < Len(k)
  <2>1. CASE i \in 1..Len(rows)
    BY <2>1, <1>4 DEF Final
  <2>2. CASE Len(q) = 2 /\ i = Len(rows) + 1
    BY <2>2, <1>4, <1>2
  <2>3. i \in 1..(Len(rows) + Len(q)) /\ i < Len(rows) + Len(q)
    BY <1>4
  <2>4. i \in 1..Len(rows) \/ (Len(q) = 2 /\ i = Len(rows) + 1)
    BY <2>3, <1>2, <1>4, OneOrTwoMore
  <2> QED BY <2>1, <2>2, <2>4
<1>9. \A i \in 1..Len(k) : k[i] = "half" => i < Len(k) /\ k[i + 1] = "enter"
  <2> TAKE i \in 1..Len(k)
  <2> HAVE k[i] = "half"
  <2>1. i = Len(rows) + 1 /\ Len(q) = 2
    BY <1>7, <1>4, <1>2
  <2> QED BY <2>1, <1>4, <1>2
<1>10. Halves(t)
  <2> SUFFICES ASSUME NEW i \in 1..Len(k), t[i].kind = "half"
               PROVE  i < Len(t) /\ t[i + 1].kind = "enter"
    BY <1>5 DEF Halves
  <2>1. i < Len(k) /\ k[i + 1] = "enter"
    BY <1>6, <1>9
  <2> QED BY <2>1, <1>4, <1>5, <1>6
<1>11. to # "exit" => t[Len(t)].kind \in Final
  <2>1. CASE Len(q) = 1
    BY <2>1, <1>2, <1>4, <1>5, <1>6
  <2>2. CASE Len(q) = 2
    BY <2>2, <1>2, <1>4, <1>5, <1>6
  <2> QED BY <2>1, <2>2, <1>2
<1>12. Len(t) \in Nat \ {0}
  BY <1>2, <1>4, <1>5
<1>13. \A i \in DOMAIN t : t[i].nr = m /\ (i < Len(t) => t[i].kind \notin Final)
  BY <1>5, <1>6, <1>8
<1> QED BY <1>5, <1>10, <1>11, <1>12, <1>13 DEF t, k, q


-----------------------------------------------------------------------------
LEMMA InitInv == Init => IInv
<1> SUFFICES ASSUME Init PROVE IInv
  OBVIOUS
<1>1. toClient = <<[kind |-> "text", nr |-> 1], [kind |-> "enter", nr |-> 1]>>
  <2>1. Question("userType") = <<"text", "enter">>
    BY DEF Question, KeepCurrent, Confirming, Menus
  <2> QED BY <2>1 DEF Init, Numbered
<1>2. Shape
  <2>1. [kind |-> "text", nr |-> 1] \in Token /\ [kind |-> "enter", nr |-> 1] \in Token
    BY DEF Token, Kinds
  <2>2. toClient \in Seq(Token)
    BY <1>1, <2>1
  <2> QED BY <2>2 DEF Init, Shape
<1>3. StreamInv
  <2>1. DOMAIN toClient = {1, 2} /\ Len(toClient) = 2
    BY <1>1
  <2>2. Ordered(toClient)
    BY <1>1, <2>1 DEF Ordered, Final
  <2>3. Halves(toClient)
    BY <1>1, <2>1 DEF Halves
  <2> QED BY <1>1, <2>1, <2>2, <2>3 DEF Init, StreamInv, Final
<1>4. BufferInv /\ WaitInv /\ UnseenWithinSlips
  BY <1>1 DEF Init, BufferInv, WaitInv, UnseenWithinSlips
<1>6. BehindInv
  BY <1>1 DEF Init, BehindInv, Received
<1>5. LagInv
  <2>1. Uses([i \in 1..1 |-> 1])
    BY <1>1 DEF Init, Uses, Received
  <2>2. [i \in 1..1 |-> 1] \in [1..(Len(toServer) + 1) -> Int]
    BY DEF Init
  <2> QED BY <2>1, <2>2 DEF Init, LagInv, AnswersLag
<1> QED BY <1>2, <1>3, <1>4, <1>5, <1>6 DEF IInv

LEMMA ReceivedType == Shape => Received \in Int
<1> SUFFICES ASSUME Shape PROVE Received \in Int
  OBVIOUS
<1>1. CASE toClient = <<>>
  BY <1>1 DEF Received, Shape
<1>2. CASE toClient # <<>>
  <2>1. toClient[1] \in Token
    BY <1>2 DEF Shape
  <2> QED BY <1>2, <2>1 DEF Received, Token
<1> QED BY <1>1, <1>2

(* What is at most the first use is at most what bounds the last.          *)
LEMMA UsesBound ==
    ASSUME NEW m \in Nat, NEW uses \in [1..(m + 1) -> Int], NEW low \in Int,
           NEW high \in Int, low <= uses[1], uses[m + 1] <= high,
           \A i, j \in 1..(m + 1) : i < j => uses[i] <= uses[j]
    PROVE  low <= high
<1>1. 1 \in 1..(m + 1) /\ m + 1 \in 1..(m + 1) /\ (1 < m + 1 \/ 1 = m + 1)
  OBVIOUS
<1>2. uses[1] \in Int /\ uses[m + 1] \in Int /\ uses[1] <= uses[m + 1]
  BY <1>1
<1> QED BY <1>2

LEMMA HearInv == IInv /\ Hear => IInv'
<1> SUFFICES ASSUME IInv, Hear PROVE IInv'
  OBVIOUS
<1> USE DEF IInv
<1>1. PICK n \in 1..Len(toServer) :
         /\ answer' = [asked |-> asked, typed |-> Head(toServer).nr]
         /\ toServer' = SubSeq(toServer, n + 1, Len(toServer))
         /\ slips' = IF toServer[n].whole THEN slips ELSE slips + 1
  BY DEF Hear
<1>2. PICK to \in Following(place) : \E rows \in Listings(place, to) :
         /\ place' = to
         /\ toClient' = toClient \o Numbered(rows \o Question(to), asked + 1)
  BY DEF Hear
<1>3. PICK rows \in Listings(place, to) :
         /\ place' = to
         /\ toClient' = toClient \o Numbered(rows \o Question(to), asked + 1)
  BY <1>2
<1> DEFINE t == Numbered(rows \o Question(to), asked + 1)
<1>4. /\ asked' = asked + 1 /\ place # "exit"
      /\ UNCHANGED <<client, buffer, shown, input, lost>>
  BY DEF Hear
<1>5. /\ t \in Seq(Token) /\ Len(t) \in Nat \ {0}
      /\ \A i \in DOMAIN t : /\ t[i].nr = asked + 1
                             /\ i < Len(t) => t[i].kind \notin Final
      /\ Halves(t)
      /\ to # "exit" => t[Len(t)].kind \in Final
  <2>1. asked + 1 \in Nat
    BY DEF Shape
  <2> QED BY <2>1, ReplyShape
<1> HIDE DEF t
<1>6. toClient' = toClient \o t
  BY <1>3 DEF t
<1>7. /\ toClient' \in Seq(Token) /\ Len(toClient') = Len(toClient) + Len(t)
      /\ toClient' # <<>> /\ Len(toClient') \in Nat \ {0}
      /\ toClient'[Len(toClient')] = t[Len(t)]
      /\ toClient # <<>> => toClient'[1] = toClient[1]
      /\ toClient = <<>> => toClient'[1] = t[1]
  BY SMTT(30), <1>5, <1>6 DEF Shape
<1>0. /\ \A i \in 1..Len(toServer) : toServer[i] \in Lines /\ toServer[i].nr \in Int
      /\ 1 \in 1..Len(toServer) /\ Head(toServer) = toServer[1]
  <2>1. toServer \in Seq(Lines)
    BY DEF Shape
  <2>2. \A i \in 1..Len(toServer) : toServer[i] \in Lines
    BY <2>1
  <2>3. 1 \in 1..Len(toServer) /\ Head(toServer) = toServer[1]
    BY <1>1, <2>1
  <2> QED BY <2>2, <2>3 DEF Lines
<1>8. /\ toServer' \in Seq(Lines) /\ Len(toServer') = Len(toServer) - n
      /\ \A i \in 1..(Len(toServer) - n) : toServer'[i] = toServer[i + n]
  BY <1>1, SuffixFacts DEF Shape
<1>9. slips' \in Nat /\ (slips' = slips \/ slips' = slips + 1)
  BY <1>1 DEF Shape
<1>10. Shape'
  <2>1. answer' \in [asked : Int, typed : Int]
    BY <1>0, <1>1 DEF Shape
  <2> QED BY <2>1, <1>4, <1>7, <1>8, <1>9 DEF Shape
<1>11. StreamInv'
  <2>1. Ordered(toClient') /\ Halves(toClient')
    BY <1>4, <1>5, <1>6, OrderedAppend DEF Shape, StreamInv
  <2> QED BY <2>1, <1>3, <1>4, <1>5, <1>7 DEF StreamInv
<1>12. BufferInv' /\ WaitInv' /\ UnseenWithinSlips'
  <2>1. lost = <<>>
    BY <1>4 DEF WaitInv
  <2> QED BY <1>4, <1>7, <2>1 DEF BufferInv, WaitInv, UnseenWithinSlips, Coming
<1>13. Received' = Received
  <2>1. 1 \in DOMAIN t /\ t[1].nr = asked + 1 /\ asked \in Nat
    BY <1>5 DEF Shape
  <2> QED BY <2>1, <1>7 DEF Received
<1>14. PICK uses \in [1..(Len(toServer) + 1) -> Int] : Uses(uses)
  BY <1>4 DEF LagInv
<1>15. AnswersLag'
  <2>1. /\ asked <= uses[1] /\ uses[1] <= toServer[1].nr + slips
        /\ toServer[1].nr <= asked /\ uses[1] \in Int
    BY <1>0, <1>14 DEF Uses
  <2>2. answer'.asked = asked /\ answer'.typed = toServer[1].nr
    BY <1>0, <1>1
  <2> QED BY SMTT(30), <1>0, <1>9, <2>1, <2>2 DEF AnswersLag, Shape
<1>16. \E new \in [1..(Len(toServer') + 1) -> Int] : Uses(new)'
  <2> DEFINE N == Len(toServer)
  <2>0. PICK d \in {0, 1} : slips' = slips + d /\ (d = 0 => toServer[n].whole)
    BY <1>1, <1>9 DEF Shape
  <2>1. N \in Nat /\ n \in 1..N
    BY <1>1 DEF Shape
  <2> HIDE DEF N
  <2>2. \A i \in 1..((N - n) + 1) : i + n \in 1..(N + 1) /\ uses[i + n] \in Int
    BY <1>14, <2>1 DEF N
  <2>3. PICK new \in [1..((N - n) + 1) -> Int] :
           \A i \in 1..((N - n) + 1) : new[i] = uses[i + n] + d
    <3> DEFINE g == [i \in 1..((N - n) + 1) |-> uses[i + n] + d]
    <3>1. g \in [1..((N - n) + 1) -> Int]
      BY <2>2
    <3> QED BY <3>1
  <2>4. asked + 1 <= new[1]
    <3>1. 1 \in 1..((N - n) + 1) /\ n + 1 \in 1..(N + 1) /\ n \in 1..(N + 1) /\ 1 \in 1..(N + 1)
      BY <2>1
    <3>2. uses[1] <= uses[n] /\ uses[n] <= uses[n + 1] /\ asked <= uses[1]
          /\ uses[1] \in Int /\ uses[n] \in Int /\ uses[n + 1] \in Int
      BY <3>1, <2>1, <1>14 DEF Uses, N
    <3>3. d = 0 => uses[n] < uses[n + 1]
      BY <2>0, <2>1, <1>14 DEF Uses, N
    <3>4. new[1] = uses[1 + n] + d /\ 1 + n = n + 1
      BY <3>1, <2>1, <2>3
    <3> QED BY SMTT(30), <3>2, <3>3, <3>4 DEF Shape
  <2>5. \A i, j \in 1..((N - n) + 1) : i < j => new[i] <= new[j]
    <3> TAKE i, j \in 1..((N - n) + 1)
    <3> HAVE i < j
    <3>1. i + n \in 1..(N + 1) /\ j + n \in 1..(N + 1) /\ i + n < j + n
      BY <2>1, <2>2
    <3>2. uses[i + n] <= uses[j + n]
      BY <3>1, <1>14 DEF Uses, N
    <3> QED BY <3>2, <2>2, <2>3
  <2>6. \A i \in 1..(N - n) : /\ toServer'[i].whole => new[i] < new[i + 1]
                              /\ new[i] <= toServer'[i].nr + slips'
                              /\ toServer'[i].nr <= asked'
    <3> TAKE i \in 1..(N - n)
    <3>1. i + n \in 1..N /\ i + 1 \in 1..((N - n) + 1) /\ i \in 1..((N - n) + 1)
          /\ (i + 1) + n = (i + n) + 1
      BY <2>1
    <3>2. toServer'[i] = toServer[i + n] /\ toServer[i + n].nr \in Int
      BY <3>1, <1>0, <1>8 DEF N
    <3>3. /\ toServer[i + n].whole => uses[i + n] < uses[(i + n) + 1]
          /\ uses[i + n] <= toServer[i + n].nr + slips
          /\ toServer[i + n].nr <= asked
      BY <3>1, <1>14 DEF Uses, N
    <3>4. /\ new[i] = uses[i + n] + d /\ new[i + 1] = uses[(i + n) + 1] + d
          /\ uses[i + n] \in Int /\ uses[(i + n) + 1] \in Int
      <4>1. new[i + 1] = uses[(i + 1) + n] + d /\ uses[(i + 1) + n] \in Int
        BY <3>1, <2>2, <2>3
      <4> QED BY <4>1, <3>1, <2>2, <2>3
    <3>5. slips \in Nat /\ asked \in Nat /\ slips' = slips + d /\ asked' = asked + 1
      BY <2>0, <1>4 DEF Shape
    <3>6. toServer'[i].whole => new[i] < new[i + 1]
      BY <3>2, <3>3, <3>4
    <3>7. new[i] <= toServer'[i].nr + slips'
      <4> DEFINE x == uses[i + n]  y == toServer[i + n].nr
      <4>1. x \in Int /\ y \in Int /\ x <= y + slips /\ d \in Int
        BY <3>2, <3>3, <3>4
      <4>2. new[i] = x + d /\ toServer'[i].nr = y
        BY <3>2, <3>4
      <4> HIDE DEF x, y
      <4> QED BY <4>1, <4>2, <3>5
    <3>8. toServer'[i].nr <= asked'
      BY <3>2, <3>3, <3>5
    <3> QED BY <3>6, <3>7, <3>8
  <2>7. new[(N - n) + 1] = uses[N + 1] + d /\ uses[N + 1] \in Int
    <3>1. (N - n) + 1 \in 1..((N - n) + 1) /\ ((N - n) + 1) + n = N + 1
      BY <2>1
    <3>2. new[(N - n) + 1] = uses[((N - n) + 1) + n] + d /\ uses[((N - n) + 1) + n] \in Int
      BY <3>1, <2>2, <2>3
    <3> QED BY <3>1, <3>2
  <2>8. /\ uses[N + 1] <= Received + slips + (IF client = "type" THEN 0 ELSE 1)
        /\ input # 0 => uses[N + 1] <= input + slips + 1
        /\ Received \in Int
    BY <1>14, ReceivedType DEF Uses, N
  <2>9. /\ new[(N - n) + 1] <= Received' + slips' + (IF client' = "type" THEN 0 ELSE 1)
        /\ input' # 0 => new[(N - n) + 1] <= input' + slips' + 1
    <3>1. client' = client /\ input' = input /\ input \in Int /\ slips \in Nat
      BY <1>4 DEF Shape
    <3> QED BY <3>1, <2>0, <2>7, <2>8, <1>13
  <2>10. Len(toServer') = N - n
    BY <1>8 DEF N
  <2>11. new \in [1..(Len(toServer') + 1) -> Int]
    BY <2>3, <2>10
  <2>12. Uses(new)'
    BY <2>4, <2>5, <2>6, <2>9, <2>10, <2>11, <1>4 DEF Uses
  <2> QED BY <2>11, <2>12
<1>17. LagInv'
  BY <1>4, <1>13, <1>15, <1>16 DEF LagInv, Shape
<1>18. BehindInv'
  <2>1. PICK new : Uses(new)'
    BY <1>16
  <2> DEFINE m == Len(toServer')
             high == Received' + slips' + (IF client' = "type" THEN 0 ELSE 1)
  <2>2. m \in Nat /\ asked' \in Int /\ slips' \in Int
    BY <1>10 DEF Shape
  <2>6. /\ new \in [1..(m + 1) -> Int] /\ asked' <= new[1] /\ new[m + 1] <= high
        /\ \A i, j \in 1..(m + 1) : i < j => new[i] <= new[j]
    BY <2>1 DEF Uses
  <2>4. high \in Int
    <3>1. Received' \in Int
      BY <1>13, ReceivedType
    <3> QED BY <2>2, <3>1
  <2>5. asked' <= high
    <3> HIDE DEF m, high
    <3> QED BY <2>2, <2>4, <2>6, UsesBound
  <2>3. lost' = <<>>
    BY <1>4 DEF WaitInv
  <2> QED BY <2>3, <2>5 DEF BehindInv
<1> QED BY <1>10, <1>11, <1>12, <1>17, <1>18


(* What the client takes from the stream, s[1] to s[n].                    *)
LEMMA Taken ==
    ASSUME NEW s \in Seq(Token), NEW n \in 1..Len(s), Ordered(s), Halves(s),
           s[Len(s)].nr = asked
    PROVE  /\ \A i \in 1..Len(s) : s[i] \in Token /\ s[i].nr \in Nat /\ s[i].nr <= asked
           /\ \A i, j \in 1..Len(s) : i <= j => s[i].nr <= s[j].nr
           /\ n < Len(s) => s[n + 1].nr <= s[n].nr + 1
           /\ (\A k \in 1..n : s[k].kind \notin Final)
                 => \A k \in 1..n : s[k].nr = (IF n < Len(s) THEN s[n + 1].nr
                                               ELSE asked)
           /\ \A k \in 1..n : s[k].kind \in Final /\ n < Len(s)
                 => s[k].nr < s[n + 1].nr
<1>1. DOMAIN s = 1..Len(s) /\ Len(s) \in 1..Len(s)
  OBVIOUS
<1>2. \A i \in 1..Len(s) : s[i] \in Token /\ s[i].nr \in Nat
  <2>1. \A i \in 1..Len(s) : s[i] \in Token
    OBVIOUS
  <2> QED BY <2>1 DEF Token
<1>3. \A i, j \in 1..Len(s) : i <= j => s[i].nr <= s[j].nr
  <2> TAKE i, j \in 1..Len(s)
  <2> HAVE i <= j
  <2>1. CASE i = j
    BY <2>1, <1>2
  <2>2. CASE i < j
    BY <2>2, <1>1 DEF Ordered
  <2> QED BY <2>1, <2>2
<1>4. \A i \in 1..Len(s) : s[i].nr <= asked
  BY <1>1, <1>3
<1>5. n < Len(s) => s[n + 1].nr <= s[n].nr + 1
  <2> HAVE n < Len(s)
  <2>1. n \in DOMAIN s /\ n + 1 \in DOMAIN s /\ n < n + 1
    BY <1>1
  <2> QED BY <2>1 DEF Ordered
<1>6. ASSUME NEW k \in 1..n, \A h \in 1..n : s[h].kind \notin Final
      PROVE  s[k].nr = IF n < Len(s) THEN s[n + 1].nr ELSE asked
  <2> DEFINE q == IF n < Len(s) THEN n + 1 ELSE n
  <2>1. q \in DOMAIN s /\ k \in DOMAIN s /\ k <= q /\ \A h \in k..(q - 1) : h \in 1..n
    BY <1>1
  <2>2. s[q].nr = IF n < Len(s) THEN s[n + 1].nr ELSE asked
    BY <1>1
  <2> HIDE DEF q
  <2>3. ~(s[k].nr < s[q].nr)
    <3> SUFFICES ASSUME s[k].nr < s[q].nr PROVE FALSE
      OBVIOUS
    <3>1. k < q
      BY <2>1, <1>1, <1>2
    <3>2. \E h \in k..(q - 1) : s[h].kind \in Final
      BY <3>1, <2>1 DEF Ordered
    <3> QED BY <3>2, <2>1, <1>6
  <2>4. s[k].nr <= s[q].nr /\ s[k].nr \in Nat /\ s[q].nr \in Nat
    BY <2>1, <1>1, <1>2, <1>3
  <2> QED BY <2>2, <2>3, <2>4
<1>7. ASSUME NEW k \in 1..n, s[k].kind \in Final, n < Len(s)
      PROVE  s[k].nr < s[n + 1].nr
  <2>1. k \in DOMAIN s /\ n + 1 \in DOMAIN s /\ k < n + 1
    BY <1>1, <1>7
  <2> QED BY <2>1, <1>7 DEF Ordered
<1> QED BY <1>2, <1>3, <1>4, <1>5, <1>6, <1>7

LEMMA BoundsAdd ==
    ASSUME NEW a \in Int, NEW r \in Int, NEW q \in Int, NEW s \in Int, NEW t \in Int,
           a <= r + s + 1
    PROVE  /\ r + s + 1 <= q + t => a <= q + t
           /\ r <= q => a <= q + s + 1
  OBVIOUS

LEMMA ReceiveInv == IInv /\ Receive => IInv'
<1> SUFFICES ASSUME IInv, Receive PROVE IInv'
  OBVIOUS
<1> USE DEF IInv
<1>1. PICK n \in 1..Len(toClient) :
         LET buf == buffer \o SubSeq(toClient, 1, n) IN
         /\ toClient' = SubSeq(toClient, n + 1, Len(toClient))
         /\ IF ~Asks(buf) /\ ~Full(buf)
              THEN buffer' = buf /\ UNCHANGED <<client, shown, slips>>
              ELSE /\ buffer' = <<>>
                   /\ client' = IF Len(buf) = 1 /\ buf[1].kind = "exit"
                                   THEN "goodbye" ELSE "type"
                   /\ shown' = LastShown(buf)
                   /\ slips' = IF Early(buf) THEN slips + 1 ELSE slips
  BY DEF Receive
<1> DEFINE buf == buffer \o SubSeq(toClient, 1, n)
           b == Len(buffer)
           N == Len(toClient)
<1>2. /\ client = "receive"
      /\ UNCHANGED <<place, asked, turns, toServer, input, answer, lost>>
  BY DEF Receive
<1>3. /\ buf \in Seq(Token) /\ Len(buf) = b + n /\ b \in Nat /\ N \in Nat /\ n \in 1..N
      /\ \A i \in 1..b : buf[i] = buffer[i]
      /\ \A k \in 1..n : buf[b + k] = toClient[k]
      /\ buf # <<>> /\ Last(buf) = toClient[n]
  <2>1. /\ SubSeq(toClient, 1, n) \in Seq(Token) /\ Len(SubSeq(toClient, 1, n)) = n
        /\ \A k \in 1..n : SubSeq(toClient, 1, n)[k] = toClient[k]
    BY <1>1 DEF Shape
  <2> DEFINE w == SubSeq(toClient, 1, n)
  <2> HIDE DEF w
  <2>2. /\ buf = buffer \o w /\ w \in Seq(Token) /\ Len(w) = n
        /\ \A k \in 1..n : w[k] = toClient[k]
    BY <2>1 DEF w
  <2>3. /\ buf \in Seq(Token) /\ Len(buf) = b + n
        /\ \A i \in 1..b : buf[i] = buffer[i]
        /\ \A k \in 1..n : buf[b + k] = w[k]
    BY <2>2 DEF Shape
  <2>4. b \in Nat /\ N \in Nat /\ n \in 1..N
    BY <1>1 DEF Shape
  <2>5. Last(buf) = toClient[n]
    BY <2>2, <2>3, <2>4 DEF Last
  <2> QED BY <2>2, <2>3, <2>4, <2>5
<1> HIDE DEF buf
<1>4. /\ toClient' = SubSeq(toClient, n + 1, N)
      /\ \/ /\ ~Asks(buf) /\ ~Full(buf)
            /\ buffer' = buf /\ UNCHANGED <<client, shown, slips>>
         \/ /\ Asks(buf) \/ Full(buf)
            /\ buffer' = <<>>
            /\ client' = IF Len(buf) = 1 /\ buf[1].kind = "exit" THEN "goodbye" ELSE "type"
            /\ shown' = LastShown(buf)
            /\ slips' = IF Early(buf) THEN slips + 1 ELSE slips
  BY <1>1 DEF buf
<1>5. /\ toClient' \in Seq(Token) /\ Len(toClient') = N - n
      /\ \A i \in 1..(N - n) : toClient'[i] = toClient[i + n]
  BY SMTT(30), <1>3, <1>4, SuffixFacts DEF Shape
<1>6. /\ Ordered(toClient) /\ Halves(toClient) /\ toClient # <<>>
      /\ toClient[N].nr = asked
      /\ place # "exit" => toClient[N].kind \in Final
  BY <1>3 DEF StreamInv, Shape
<1>7. /\ \A i \in 1..N : toClient[i] \in Token /\ toClient[i].nr \in Nat
                         /\ toClient[i].nr <= asked
      /\ \A i, j \in 1..N : i <= j => toClient[i].nr <= toClient[j].nr
      /\ n < N => toClient[n + 1].nr <= toClient[n].nr + 1
      /\ (\A k \in 1..n : toClient[k].kind \notin Final)
            => \A k \in 1..n : toClient[k].nr = (IF n < N THEN toClient[n + 1].nr
                                                 ELSE asked)
      /\ \A k \in 1..n : toClient[k].kind \in Final /\ n < N
            => toClient[k].nr < toClient[n + 1].nr
  BY <1>3, <1>6, Taken DEF Shape
<1>8. /\ n = N => toClient' = <<>> /\ Coming' = asked /\ Received' = asked
      /\ n < N => /\ toClient' # <<>> /\ Coming' = toClient[n + 1].nr
                  /\ Received' = toClient[n + 1].nr - 1
                  /\ toClient'[Len(toClient')] = toClient[N]
      /\ Coming = toClient[1].nr /\ Received = toClient[1].nr - 1
  <2>1. CASE n = N
    BY <2>1, <1>2, <1>3, <1>5, <1>6 DEF Coming, Received
  <2>2. CASE n < N
    <3>1. /\ 1 \in 1..(N - n) /\ N - n \in 1..(N - n) /\ (N - n) + n = N /\ 1 + n = n + 1
          /\ toClient' # <<>>
      BY <2>2, <1>3, <1>5
    <3>2. toClient'[1] = toClient[n + 1] /\ toClient'[N - n] = toClient[N]
      BY <3>1, <1>5
    <3> QED BY <2>2, <3>1, <3>2, <1>3, <1>5, <1>6 DEF Coming, Received
  <2> QED BY <2>1, <2>2, <1>3
<1>0. /\ Received \in Int /\ Received' \in Int /\ asked \in Nat /\ slips \in Nat
      /\ toClient[1].nr \in Nat /\ toClient[N].nr \in Nat /\ toClient[n].nr \in Nat
      /\ n < N => toClient[n + 1].nr \in Nat
  <2>1. 1 \in 1..N /\ N \in 1..N /\ n \in 1..N /\ (n < N => n + 1 \in 1..N)
    BY <1>3
  <2>2. asked \in Nat /\ slips \in Nat
    BY DEF Shape
  <2>3. \A i \in 1..N : toClient[i].nr \in Nat
    BY <1>7
  <2>4. /\ toClient[1].nr \in Nat /\ toClient[N].nr \in Nat /\ toClient[n].nr \in Nat
        /\ n < N => toClient[n + 1].nr \in Nat
    BY <2>1, <2>3
  <2>5. n = N \/ n < N
    BY <1>3
  <2>6. Received' = asked \/ (n < N /\ Received' = toClient[n + 1].nr - 1)
    BY <2>5, <1>8
  <2>7. Received = toClient[1].nr - 1
    BY <1>8
  <2> QED BY <2>2, <2>4, <2>6, <2>7
<1>9. \A k \in 1..n : toClient[k].kind \in Asking => Asks(buf)
  <2> TAKE k \in 1..n
  <2>1. b + k \in DOMAIN buf
    BY <1>3
  <2> QED BY <2>1, <1>3 DEF Asks
<1>10. place # "exit" /\ n = N => Asks(buf)
  BY <1>3, <1>6, <1>9 DEF Final, Asking
<1>11. Shape'
  <2>1. toClient[n] \in Token /\ toClient[n].nr \in Nat
    BY <1>3, <1>7
  <2>2. slips \in Nat /\ shown \in Int /\ buffer \in Seq(Token) /\ buf \in Seq(Token)
    BY <1>3 DEF Shape
  <2>3. LastShown(buf) \in Int
    BY <1>3, <2>1 DEF LastShown
  <2>4. <<>> \in Seq(Token)
    OBVIOUS
  <2>5. shown' \in Int /\ slips' \in Nat /\ buffer' \in Seq(Token)
    <3>1. shown' = shown \/ shown' = LastShown(buf)
      BY <1>4
    <3>2. slips' = slips \/ slips' = slips + 1
      BY <1>4
    <3>3. buffer' = buf \/ buffer' = <<>>
      BY <1>4
    <3>4. slips' \in Nat
      BY <3>2, <2>2
    <3>5. buffer' \in Seq(Token)
      BY <3>3, <2>2, <2>4, Zenon
    <3>6. shown' \in Int
      BY <3>1, <2>2, <2>3, Zenon
    <3> QED BY <3>4, <3>5, <3>6
  <2> QED BY <2>5, <1>2, <1>5 DEF Shape
<1>12. StreamInv'
  <2>1. Ordered(toClient') /\ Halves(toClient')
    BY <1>3, <1>4, <1>6, OrderedSuffix DEF Shape
  <2> QED BY <2>1, <1>2, <1>3, <1>6, <1>8 DEF StreamInv
<1>13. BufferInv'
  <2>1. CASE buffer' = <<>>
    BY <2>1 DEF BufferInv
  <2>2. CASE ~Asks(buf) /\ buffer' = buf
    <3>1. \A i \in DOMAIN buf : buf[i].kind \notin Asking
      BY <2>2 DEF Asks
    <3>2. \A k \in 1..n : toClient[k].kind \notin Final
      <4>1. Final \subseteq Asking
        BY DEF Final, Asking
      <4> QED BY <4>1, <2>2, <1>9
    <3>3. \A k \in 1..n : toClient[k].nr = Coming'
      <4>1. Coming' = IF n < N THEN toClient[n + 1].nr ELSE asked
        BY <1>3, <1>8
      <4>2. \A k \in 1..n : toClient[k].nr = (IF n < N THEN toClient[n + 1].nr ELSE asked)
        BY <3>2, <1>7
      <4> QED BY <4>1, <4>2
    <3>4. Coming = Coming'
      <4>1. 1 \in 1..n /\ Coming = toClient[1].nr
        BY <1>3, <1>8
      <4> QED BY <4>1, <3>3
    <3>5. \A i \in DOMAIN buf : buf[i].nr = Coming'
      <4> TAKE i \in DOMAIN buf
      <4>1. i \in 1..(b + n)
        BY <1>3
      <4>2. CASE i <= b
        BY <4>1, <4>2, <1>3, <3>4 DEF BufferInv
      <4>3. CASE i > b
        <5>1. i - b \in 1..n /\ b + (i - b) = i
          BY <4>1, <4>3, <1>3
        <5>2. buf[b + (i - b)] = toClient[i - b]
          BY <5>1, <1>3
        <5> QED BY <5>1, <5>2, <3>3
      <4> QED BY <4>1, <4>2, <4>3, <1>3
    <3> QED BY <2>2, <3>1, <3>5 DEF BufferInv
  <2> QED BY <2>1, <2>2, <1>4
<1>14. WaitInv'
  <2> SUFFICES ASSUME place # "exit", toClient' = <<>>
               PROVE  buffer' = <<>> /\ client' = "type"
    BY <1>2 DEF WaitInv
  <2>1. n = N
    BY <1>3, <1>8
  <2>2. Asks(buf)
    BY <2>1, <1>10
  <2>3. ~(Len(buf) = 1 /\ buf[1].kind = "exit")
    <3> SUFFICES ASSUME Len(buf) = 1 PROVE buf[1].kind # "exit"
      OBVIOUS
    <3>1. buf[1] = toClient[N]
      BY <1>3, <2>1
    <3> QED BY <3>1, <1>6 DEF Final
  <2> QED BY <2>2, <2>3, <1>4
<1>15. AnswersLag' /\ UnseenWithinSlips' /\ lost' = <<>>
  <2>1. slips' \in Nat /\ slips <= slips'
    BY <1>4 DEF Shape
  <2>2. lost = <<>>
    BY <1>2 DEF BehindInv
  <2> QED BY <2>1, <2>2, <1>2 DEF AnswersLag, UnseenWithinSlips, LagInv, Shape
<1>16. ASSUME Asks(buf) \/ Full(buf), slips' = IF Early(buf) THEN slips + 1 ELSE slips
       PROVE  Received + slips + 1 <= Received' + slips'
  <2>1. CASE \E k \in 1..n : toClient[k].kind \in Final
    <3>1. PICK k \in 1..n : toClient[k].kind \in Final
      BY <2>1
    <3>2. k \in 1..N /\ 1 \in 1..N /\ toClient[1].nr <= toClient[k].nr
          /\ toClient[1].nr \in Nat /\ toClient[k].nr \in Nat /\ toClient[k].nr <= asked
      <4>1. k \in 1..N /\ 1 \in 1..N /\ 1 <= k
        BY <1>3
      <4>2. \A i \in 1..N : toClient[i].nr \in Nat /\ toClient[i].nr <= asked
        BY <1>7
      <4>3. \A i, j \in 1..N : i <= j => toClient[i].nr <= toClient[j].nr
        BY <1>7
      <4> QED BY <4>1, <4>2, <4>3
    <3>3. Received + 1 <= Received'
      <4>1. CASE n = N
        BY <4>1, <3>2, <1>0, <1>8
      <4>2. CASE n < N
        <5>1. n + 1 \in 1..N /\ toClient[n + 1].nr \in Nat
              /\ toClient[k].nr < toClient[n + 1].nr
          BY SMTT(30), <4>2, <3>1, <1>3, <1>7
        <5> QED BY SMTT(30), <4>2, <5>1, <3>2, <1>8
      <4> QED BY <4>1, <4>2, <1>3
    <3>4. slips' = slips \/ slips' = slips + 1
      BY <1>16
    <3> QED BY <3>3, <3>4, <1>0
  <2>3. CASE n = N /\ \A k \in 1..n : toClient[k].kind \notin Final
    <3>1. 1 \in 1..n /\ toClient[1].nr = asked
      BY <2>3, <1>3, <1>7
    <3>2. Received + 1 = asked /\ Received' = asked
      BY <2>3, <3>1, <1>0, <1>8
    <3>3. slips' = slips \/ slips' = slips + 1
      BY <1>16
    <3> QED BY <3>2, <3>3, <1>0
  <2>2. CASE n # N /\ \A k \in 1..n : toClient[k].kind \notin Final
    <3>1. n < N
      BY <2>2, <1>3
    <3>2. Last(buf).kind \notin Final
      <4>1. n \in 1..n
        BY <1>3
      <4> QED BY <4>1, <2>2, <1>3
    <3>3. Early(buf)
      <4>1. CASE Full(buf)
        BY <3>2, <4>1 DEF Early
      <4>2. CASE Asks(buf)
        <5>1. PICK i \in DOMAIN buf : buf[i].kind \in Asking
          BY <4>2 DEF Asks
        <5>2. i \in 1..(b + n) /\ ~(i \in 1..b)
          BY <5>1, <1>3 DEF BufferInv
        <5>3. i - b \in 1..n /\ b + (i - b) = i
          BY <5>2, <1>3
        <5>4. buf[i] = toClient[i - b]
          <6>1. buf[b + (i - b)] = toClient[i - b]
            BY <5>3, <1>3
          <6> QED BY <6>1, <5>3
        <5>5. buf[i].kind \in {"half", "name"}
          BY <5>1, <5>3, <5>4, <2>2 DEF Asking, Final
        <5>6. CASE buf[i].kind = "name"
          BY <5>6, <3>2 DEF Early
        <5>7. CASE buf[i].kind = "half"
          <6> DEFINE k == i - b
          <6>0. k \in DOMAIN toClient /\ toClient[k].kind = "half"
            <7>1. toClient \in Seq(Token) /\ k \in 1..N
              BY <5>3, <1>3 DEF Shape
            <7> QED BY <7>1, <5>4, <5>7
          <6>1. k < N /\ toClient[k + 1].kind = "enter"
            <7> HIDE DEF k
            <7> QED BY <6>0, <1>6 DEF Halves
          <6>2. ~(k + 1 \in 1..n)
            BY <6>1, <2>2 DEF Final
          <6>3. k = n
            BY SMTT(30), <6>2, <5>3, <1>3
          <6>4. Last(buf).kind = "half"
            BY <6>3, <5>4, <5>7, <1>3
          <6> QED BY <6>4, <3>2 DEF Early
        <5> QED BY <5>5, <5>6, <5>7
      <4> QED BY <4>1, <4>2, <1>16
    <3>6. Received' = Received
      <4>1. 1 \in 1..n /\ toClient[1].nr = toClient[n + 1].nr
        BY <3>1, <2>2, <1>3, <1>7
      <4> QED BY <4>1, <3>1, <1>8
    <3>7. slips' = slips + 1
      BY <3>3, <1>16
    <3> QED BY <3>6, <3>7, <1>0
  <2> QED BY <2>1, <2>2, <2>3
<1>17. ASSUME place # "exit", shown' = LastShown(buf)
       PROVE  Received' <= shown' /\ shown' <= asked
  <2>1. /\ toClient[n].nr \in Nat /\ toClient[n].nr <= asked
        /\ shown' = IF toClient[n].kind \in Final \cup {"half"} THEN toClient[n].nr
                                                               ELSE toClient[n].nr - 1
        /\ asked \in Nat
    BY <1>3, <1>7, <1>17 DEF LastShown, Shape
  <2>2. CASE n = N
    BY <2>1, <2>2, <1>6, <1>8, <1>17
  <2>3. CASE n < N
    <3>1. n + 1 \in 1..N /\ toClient[n + 1].nr \in Nat
          /\ toClient[n + 1].nr <= toClient[n].nr + 1
      BY <2>3, <1>3, <1>7
    <3>2. CASE toClient[n].kind \in Final \cup {"half"}
      BY SMTT(30), <2>1, <2>3, <3>1, <3>2, <1>8
    <3>3. CASE toClient[n].kind \notin Final
      <4>1. toClient[n + 1].nr <= toClient[n].nr
        <5> SUFFICES ASSUME toClient[n].nr < toClient[n + 1].nr PROVE FALSE
          BY <2>1, <3>1
        <5>1. n \in DOMAIN toClient /\ n + 1 \in DOMAIN toClient /\ n < n + 1
          BY <2>3, <1>3 DEF Shape
        <5>2. \E k \in n..((n + 1) - 1) : toClient[k].kind \in Final
          BY <5>1, <1>6 DEF Ordered
        <5>3. \A k \in n..((n + 1) - 1) : k = n
          BY <1>3
        <5> QED BY <5>2, <5>3, <3>3
      <4> QED BY SMTT(30), <2>1, <2>3, <3>1, <4>1, <1>8
    <3> QED BY <3>2, <3>3
  <2> QED BY <2>2, <2>3, <1>3
<1>18. LagInv'
  <2>1. input' <= asked'
    BY <1>2 DEF LagInv
  <2>2. client' = "type" /\ place' # "exit" => Received' <= shown' /\ shown' <= asked'
    BY <1>2, <1>4, <1>17
  <2>3. ASSUME place' # "exit"
        PROVE  \E uses \in [1..(Len(toServer') + 1) -> Int] : Uses(uses)'
    <3>1. PICK uses \in [1..(Len(toServer) + 1) -> Int] : Uses(uses)
      BY <1>2, <2>3 DEF LagInv
    <3> DEFINE M == Len(toServer)
    <3>2. /\ slips' \in Nat /\ slips <= slips' /\ slips \in Nat
          /\ Received \in Int /\ Received' \in Int /\ uses[M + 1] \in Int
          /\ uses[M + 1] <= Received + slips + 1
          /\ input # 0 => uses[M + 1] <= input + slips + 1
          /\ input \in Int /\ M \in Nat
      <4>1. slips' \in Nat /\ slips <= slips' /\ slips \in Nat
        BY <1>4 DEF Shape
      <4>2. Received \in Int /\ Received' \in Int
        BY <1>0
      <4>3. M + 1 \in 1..(M + 1) /\ M \in Nat
        BY DEF Shape
      <4> QED BY <4>1, <4>2, <4>3, <3>1, <1>2 DEF Uses, Shape
    <3>3. uses[M + 1] <= Received' + slips' + (IF client' = "type" THEN 0 ELSE 1)
      <4>1. CASE Asks(buf) \/ Full(buf)
        BY <4>1, <3>2, <1>2, <1>4, <1>16, <2>3
      <4>2. CASE ~Asks(buf) /\ ~Full(buf)
        <5>1. client' # "type" /\ slips' = slips
          BY <4>2, <1>2, <1>4
        <5>2. n # N
          BY <4>2, <1>2, <1>10, <2>3
        <5>3. \A k \in 1..n : toClient[k].kind \notin Final
          <6>1. Final \subseteq Asking
            BY DEF Final, Asking
          <6> QED BY <6>1, <4>2, <1>9
        <5>4. Received' = Received
          <6>1. n < N /\ 1 \in 1..n
            BY <5>2, <1>3
          <6>2. toClient[1].nr = toClient[n + 1].nr
            BY <6>1, <5>3, <1>7
          <6> QED BY <6>1, <6>2, <1>8
        <5> QED BY <5>1, <5>4, <3>2
      <4> QED BY <4>1, <4>2
    <3>4. input' # 0 => uses[M + 1] <= input' + slips' + 1
      BY <3>2, <1>2, SMTT(30)
    <3>5. \A i \in 1..M : uses[i] <= toServer[i].nr + slips'
      <4> TAKE i \in 1..M
      <4>1. uses[i] <= toServer[i].nr + slips
        BY <3>1 DEF Uses
      <4>2. i \in 1..(M + 1) /\ uses[i] \in Int
        BY <3>1, <3>2
      <4>3. toServer[i] \in Lines
        BY DEF Shape
      <4>4. toServer[i].nr \in Int
        BY <4>3 DEF Lines
      <4> QED BY SMTT(30), <4>1, <4>2, <4>4, <3>2
    <3>6. Uses(uses)'
      BY <3>1, <3>3, <3>4, <3>5, <1>2 DEF Uses
    <3> QED BY <3>1, <3>6, <1>2
  <2> QED BY <2>1, <2>2, <2>3, <1>15 DEF LagInv
<1>19. BehindInv'
  <2> SUFFICES ASSUME client' \in {"receive", "type"}
               PROVE  asked <= Received' + slips' + (IF client' = "type" THEN 0 ELSE 1)
    BY <1>2, <1>15 DEF BehindInv
  <2>1. asked <= Received + slips + 1
    BY <1>2 DEF BehindInv
  <2>2. slips' \in Nat
    BY <1>11 DEF Shape
  <2>5. Received \in Int /\ Received' \in Int /\ asked \in Int /\ slips \in Int
    BY <1>0
  <2>3. CASE Asks(buf) \/ Full(buf)
    <3>1. client' = "type" /\ Received + slips + 1 <= Received' + slips'
      BY <2>3, <1>2, <1>4, <1>16
    <3>2. asked <= Received' + slips'
      <4>1. slips' \in Int /\ Received + slips + 1 <= Received' + slips'
        BY <2>2, <3>1
      <4> QED BY <2>1, <2>5, <4>1, BoundsAdd
    <3>3. Received' + slips' + 0 = Received' + slips'
      BY <2>2, <2>5
    <3> QED BY <3>1, <3>2, <3>3
  <2>4. CASE ~Asks(buf) /\ ~Full(buf)
    <3>1. client' = "receive" /\ slips' = slips
      BY <2>4, <1>2, <1>4
    <3>2. Received <= Received'
      <4>1. CASE n = N
        <5>1. 1 \in 1..N
          BY <1>3
        <5>2. toClient[1].nr <= asked
          BY <5>1, <1>7
        <5> QED BY <4>1, <5>2, <1>0, <1>8
      <4>2. CASE n < N
        <5>1. 1 \in 1..N /\ n + 1 \in 1..N /\ 1 <= n + 1
          BY <4>2, <1>3
        <5>2. toClient[1].nr <= toClient[n + 1].nr
          BY <5>1, <1>7
        <5>3. toClient[1].nr \in Nat /\ toClient[n + 1].nr \in Nat
          BY <4>2, <1>0
        <5>4. toClient[1].nr - 1 <= toClient[n + 1].nr - 1
          BY <5>2, <5>3
        <5> QED BY <4>2, <5>4, <1>8
      <4> QED BY <4>1, <4>2, <1>3
    <3>3. asked <= Received' + slips + 1
      BY <2>1, <2>5, <3>2, BoundsAdd
    <3> QED BY <3>1, <3>3
  <2> QED BY <2>3, <2>4
<1> QED BY <1>11, <1>12, <1>13, <1>14, <1>15, <1>18, <1>19

LEMMA DisconnectedInv == IInv /\ Disconnected => IInv'
<1> SUFFICES ASSUME IInv, Disconnected PROVE IInv'
  OBVIOUS
<1> USE DEF IInv
<1>1. /\ place = "exit" /\ toClient = <<>> /\ lost' = buffer \o toClient
      /\ client' = "disconnected"
      /\ UNCHANGED <<place, asked, turns, toClient, toServer, buffer, shown, input,
                     answer, slips>>
  BY DEF Disconnected, Closed
<1>2. lost' = buffer
  BY <1>1 DEF Shape
<1>3. Shape'
  BY <1>1, <1>2 DEF Shape
<1>4. \A i \in DOMAIN buffer : buffer[i].nr = asked
  BY <1>1 DEF BufferInv, Coming
<1>5. StreamInv' /\ BufferInv' /\ WaitInv' /\ UnseenWithinSlips'
  BY <1>1, <1>2, <1>4
     DEF StreamInv, BufferInv, WaitInv, UnseenWithinSlips, Coming
<1>6. LagInv' /\ BehindInv'
  BY <1>1 DEF LagInv, AnswersLag, BehindInv
<1> QED BY <1>3, <1>5, <1>6

(* A line typed for question nr, the one on the screen or an earlier one:  *)
(* each part of it may be used for the highest number there was, the next  *)
(* line for one more.                                                      *)
LEMMA SentInv ==
    ASSUME IInv, NEW nr \in Int, NEW long \in BOOLEAN,
           NEW uses \in [1..(Len(toServer) + 1) -> Int], Uses(uses), nr <= asked,
           uses[Len(toServer) + 1] <= nr + slips',
           uses[Len(toServer) + 1] <= Received + slips',
           toServer' = toServer \o Line(nr, long), input' = nr, client' = "receive",
           slips' \in Nat, slips <= slips', UNCHANGED <<asked, toClient>>
    PROVE  /\ toServer' \in Seq(Lines)
           /\ \E new \in [1..(Len(toServer') + 1) -> Int] : Uses(new)'
<1> DEFINE N == Len(toServer)
           line == Line(nr, long)
           m == Len(line)
           last == uses[N + 1]
<1>1. /\ line \in Seq(Lines) /\ m \in 1..2
      /\ \A i \in 1..m : line[i].nr = nr /\ (i < m => ~line[i].whole)
  <2>1. CASE long
    BY <2>1 DEF Line, Lines
  <2>2. CASE ~long
    BY <2>2 DEF Line, Lines
  <2> QED BY <2>1, <2>2
<1>2. toServer \in Seq(Lines) /\ N \in Nat /\ slips \in Nat /\ asked \in Nat
  BY DEF IInv, Shape
<1>3. last \in Int /\ \A i \in 1..(N + 1) : uses[i] \in Int
  BY <1>2
<1>4. /\ \A i, j \in 1..(N + 1) : i < j => uses[i] <= uses[j]
      /\ \A i \in 1..N : /\ toServer[i].whole => uses[i] < uses[i + 1]
                         /\ uses[i] <= toServer[i].nr + slips
                         /\ toServer[i].nr <= asked
      /\ asked <= uses[1]
  BY DEF Uses
<1>0. last <= nr + slips' /\ last <= Received + slips'
  OBVIOUS
<1> HIDE DEF line
<1>5. /\ toServer' \in Seq(Lines) /\ Len(toServer') = N + m
      /\ \A i \in 1..N : toServer'[i] = toServer[i]
      /\ \A i \in 1..m : toServer'[N + i] = line[i]
  BY <1>1, <1>2 DEF line
<1> HIDE DEF N, m, last
<1>6. PICK new \in [1..(N + m + 1) -> Int] :
         /\ \A i \in 1..(N + 1) : new[i] = uses[i]
         /\ \A i \in (N + 1)..(N + m) : new[i] = last
         /\ new[N + m + 1] = last + 1
  <2> DEFINE g == [i \in 1..(N + m + 1) |-> IF i <= N + 1 THEN uses[i]
                                            ELSE IF i <= N + m THEN last ELSE last + 1]
  <2>1. g \in [1..(N + m + 1) -> Int]
    BY <1>1, <1>2, <1>3
  <2>2. \A i \in 1..(N + 1) : g[i] = uses[i]
    BY <1>1, <1>2
  <2>3. \A i \in (N + 1)..(N + m) : g[i] = last
    BY <1>1, <1>2 DEF last
  <2>4. g[N + m + 1] = last + 1
    BY <1>1, <1>2, SMTT(30)
  <2> QED BY <2>1, <2>2, <2>3, <2>4
<1>7. \A i \in 1..(N + m + 1) : \/ i \in 1..N
                                \/ i \in (N + 1)..(N + m)
                                \/ i = N + m + 1
  BY <1>1, <1>2
<1>8. \A i \in 1..(N + 1) : uses[i] <= last
  <2> TAKE i \in 1..(N + 1)
  <2>1. CASE i = N + 1
    BY <2>1, <1>3 DEF last
  <2>2. CASE i < N + 1
    <3>1. N + 1 \in 1..(N + 1)
      BY <1>2
    <3> QED BY <2>2, <3>1, <1>4 DEF last
  <2> QED BY <2>1, <2>2, <1>2
<1>9. \A i, j \in 1..(N + m + 1) : i < j => new[i] <= new[j]
  <2> TAKE i, j \in 1..(N + m + 1)
  <2> HAVE i < j
  <2>1. CASE j \in 1..N
    <3>1. i \in 1..(N + 1) /\ j \in 1..(N + 1)
      BY <2>1, <1>2
    <3> QED BY <3>1, <1>4, <1>6
  <2>2. CASE j \in (N + 1)..(N + m)
    <3>1. i \in 1..(N + 1) \/ i \in (N + 1)..(N + m)
      BY <2>2, <1>1, <1>2
    <3>2. new[j] = last
      BY <2>2, <1>6
    <3>3. CASE i \in 1..(N + 1)
      BY <3>2, <3>3, <1>6, <1>8
    <3>4. CASE i \in (N + 1)..(N + m)
      BY <3>2, <3>4, <1>3, <1>6
    <3> QED BY <3>1, <3>3, <3>4
  <2>3. CASE j = N + m + 1
    <3>1. i \in 1..(N + 1) \/ i \in (N + 1)..(N + m)
      BY <2>3, <1>1, <1>2
    <3>2. new[i] <= last /\ new[i] \in Int
      <4>1. CASE i \in 1..(N + 1)
        BY <4>1, <1>6, <1>8
      <4>2. CASE i \in (N + 1)..(N + m)
        BY <4>2, <1>3, <1>6
      <4> QED BY <3>1, <4>1, <4>2
    <3> QED BY <2>3, <3>2, <1>3, <1>6
  <2> QED BY <2>1, <2>2, <2>3, <1>7
<1>10. ASSUME NEW i \in 1..(N + m)
       PROVE  /\ toServer'[i].whole => new[i] < new[i + 1]
              /\ new[i] <= toServer'[i].nr + slips'
              /\ toServer'[i].nr <= asked'
  <2>1. CASE i \in 1..N
    <3>1. i \in 1..(N + 1) /\ i + 1 \in 1..(N + 1)
      BY <2>1, <1>2
    <3>2. /\ new[i] = uses[i] /\ new[i + 1] = uses[i + 1] /\ toServer'[i] = toServer[i]
          /\ uses[i] \in Int
      BY <2>1, <3>1, <1>3, <1>5, <1>6
    <3>3. toServer[i] \in Lines
      BY <2>1, <1>2 DEF N
    <3>4. toServer[i].nr \in Int
      BY <3>3 DEF Lines
    <3>5. /\ toServer[i].whole => uses[i] < uses[i + 1]
          /\ uses[i] <= toServer[i].nr + slips
          /\ toServer[i].nr <= asked
      BY <2>1, <1>4
    <3>6. uses[i] <= toServer[i].nr + slips'
      <4>1. uses[i] \in Int /\ slips \in Nat /\ uses[i] <= toServer[i].nr + slips
        BY <3>2, <3>5, <1>2
      <4> QED BY SMTT(30), <4>1, <3>4
    <3>7. toServer'[i].whole => new[i] < new[i + 1]
      BY <3>2, <3>5
    <3>8. new[i] <= toServer'[i].nr + slips'
      BY <3>2, <3>6
    <3>9. toServer'[i].nr <= asked'
      BY <3>2, <3>5
    <3> QED BY <3>7, <3>8, <3>9
  <2>2. CASE i \in (N + 1)..(N + m)
    <3>1. i - N \in 1..m /\ N + (i - N) = i
      BY <2>2, <1>1, <1>2
    <3>2. toServer'[N + (i - N)] = line[i - N]
      BY <3>1, <1>5
    <3>3. toServer'[i].nr = nr /\ (i - N < m => ~toServer'[i].whole)
      BY <3>1, <3>2, <1>1
    <3>4. new[i] = last /\ (i - N = m => new[i + 1] = last + 1)
      BY <2>2, <1>1, <1>2, <1>6
    <3>5. i - N < m \/ i - N = m
      BY <3>1, <1>1
    <3>6. new[i] <= toServer'[i].nr + slips'
      BY <3>3, <3>4, <1>0
    <3>7. toServer'[i].whole => new[i] < new[i + 1]
      <4>1. last < last + 1
        BY <1>3
      <4> QED BY <4>1, <3>3, <3>4, <3>5
    <3>8. toServer'[i].nr <= asked'
      BY <3>3
    <3> QED BY <3>6, <3>7, <3>8
  <2>3. i \in 1..N \/ i \in (N + 1)..(N + m)
    BY <1>1, <1>2
  <2> QED BY <2>1, <2>2, <2>3
<1>11. asked' <= new[1]
  <2>1. 1 \in 1..(N + 1)
    BY <1>2
  <2> QED BY <2>1, <1>4, <1>6
<1>12. /\ new[N + m + 1] <= Received' + slips' + (IF client' = "type" THEN 0 ELSE 1)
       /\ input' # 0 => new[N + m + 1] <= input' + slips' + 1
  <2>0. new[N + m + 1] = last + 1
    BY <1>6
  <2>1. Received' = Received /\ Received \in Int /\ last \in Int
    BY <1>3, ReceivedType DEF IInv, Received
  <2>2. \A x, y, z \in Int : x <= y + z => x + 1 <= y + z + 1
    OBVIOUS
  <2>3. slips' \in Int /\ input' = nr
    OBVIOUS
  <2>4. last + 1 <= Received + slips' + 1
    BY <2>1, <2>2, <2>3, <1>0
  <2>5. last + 1 <= nr + slips' + 1
    BY <2>1, <2>2, <2>3, <1>0
  <2>6. client' # "type"
    OBVIOUS
  <2> QED BY <2>0, <2>1, <2>3, <2>4, <2>5, <2>6
<1>13. new \in [1..(Len(toServer') + 1) -> Int]
  BY <1>5
<1>14. Uses(new)'
  BY <1>5, <1>9, <1>10, <1>11, <1>12, <1>13 DEF Uses
<1> QED BY <1>5, <1>13, <1>14

LEMMA TypeInv == ASSUME NEW long \in BOOLEAN, IInv, Type(long) PROVE IInv'
<1> USE DEF IInv
<1>1. /\ client = "type" /\ place # "exit"
      /\ toServer' = toServer \o Line(shown, long)
      /\ input' = shown /\ client' = "receive"
      /\ UNCHANGED <<place, asked, turns, toClient, buffer, shown, answer, lost, slips>>
  BY DEF Type
<1>2. Received <= shown /\ shown <= asked /\ shown \in Int /\ slips \in Nat
  BY <1>1 DEF LagInv, Shape
<1>3. PICK uses \in [1..(Len(toServer) + 1) -> Int] : Uses(uses)
  BY <1>1 DEF LagInv
<1>4. uses[Len(toServer) + 1] <= Received + slips'
      /\ uses[Len(toServer) + 1] <= shown + slips'
  <2>1. uses[Len(toServer) + 1] <= Received + slips
    <3>1. Received \in Int /\ Received + slips + 0 = Received + slips
      BY <1>2, ReceivedType
    <3> QED BY <3>1, <1>1, <1>3 DEF Uses
  <2>2. uses[Len(toServer) + 1] \in Int /\ Received \in Int
    <3>1. Len(toServer) + 1 \in 1..(Len(toServer) + 1)
      BY DEF Shape
    <3> QED BY <3>1, <1>3, ReceivedType
  <2> QED BY <2>1, <2>2, <1>1, <1>2
<1>5. /\ toServer' \in Seq(Lines)
      /\ \E new \in [1..(Len(toServer') + 1) -> Int] : Uses(new)'
  BY SMTT(30), <1>1, <1>2, <1>3, <1>4, SentInv
<1>6. Shape'
  BY <1>1, <1>2, <1>5 DEF Shape
<1>7. StreamInv' /\ BufferInv' /\ UnseenWithinSlips' /\ BehindInv'
  <2>1. /\ lost = <<>> /\ asked <= Received + slips
        /\ Received' = Received /\ Received \in Int /\ slips \in Nat /\ asked \in Nat
    BY <1>1, ReceivedType DEF BehindInv, Received, Shape
  <2>2. UnseenWithinSlips' /\ BehindInv'
    BY <1>1, <2>1 DEF UnseenWithinSlips, BehindInv
  <2> QED BY <1>1, <2>2 DEF StreamInv, BufferInv, Coming
<1>8. toServer' # <<>>
  BY <1>1, <1>5 DEF Line, Shape
<1>9. WaitInv'
  BY <1>1, <1>8 DEF WaitInv
<1>10. LagInv'
  BY <1>1, <1>2, <1>5 DEF LagInv, AnswersLag
<1> QED BY <1>6, <1>7, <1>9, <1>10

LEMMA ResendInv == IInv /\ Resend => IInv'
<1> SUFFICES ASSUME IInv, Resend PROVE IInv'
  OBVIOUS
<1> USE DEF IInv
<1>1. /\ client = "type" /\ place # "exit" /\ input # 0
      /\ toServer' = toServer \o Line(input, FALSE)
      /\ slips' = slips + 1 /\ client' = "receive"
      /\ UNCHANGED <<place, asked, turns, toClient, buffer, shown, input, answer, lost>>
  BY DEF Resend
<1>2. input <= asked /\ input \in Int /\ slips \in Nat /\ slips' \in Nat
  BY <1>1 DEF LagInv, Shape
<1>3. PICK uses \in [1..(Len(toServer) + 1) -> Int] : Uses(uses)
  BY <1>1 DEF LagInv
<1>4. uses[Len(toServer) + 1] <= Received + slips'
      /\ uses[Len(toServer) + 1] <= input + slips'
  <2>1. uses[Len(toServer) + 1] \in Int /\ Received \in Int
    <3>1. Len(toServer) + 1 \in 1..(Len(toServer) + 1)
      BY DEF Shape
    <3> QED BY <3>1, <1>3, ReceivedType
  <2>2. uses[Len(toServer) + 1] <= Received + slips + 0
    BY <1>1, <1>3 DEF Uses
  <2>3. uses[Len(toServer) + 1] <= input + slips + 1
    BY <1>1, <1>3 DEF Uses
  <2> QED BY <2>1, <2>2, <2>3, <1>1, <1>2
<1>5. /\ toServer' \in Seq(Lines)
      /\ \E new \in [1..(Len(toServer') + 1) -> Int] : Uses(new)'
  <2>1. FALSE \in BOOLEAN /\ input' = input /\ slips <= slips'
    BY <1>1, <1>2
  <2> QED BY <2>1, <1>1, <1>2, <1>3, <1>4, SentInv
<1>6. Shape'
  BY <1>1, <1>2, <1>5 DEF Shape
<1>7. StreamInv' /\ BufferInv' /\ UnseenWithinSlips' /\ BehindInv'
  <2>1. /\ lost = <<>> /\ asked <= Received + slips
        /\ Received' = Received /\ Received \in Int /\ slips \in Nat /\ asked \in Nat
    BY <1>1, ReceivedType DEF BehindInv, Received, Shape
  <2>2. UnseenWithinSlips' /\ BehindInv'
    BY <1>1, <2>1 DEF UnseenWithinSlips, BehindInv
  <2> QED BY <1>1, <2>2 DEF StreamInv, BufferInv, Coming
<1>8. toServer' # <<>>
  BY <1>1, <1>5 DEF Line, Shape
<1>9. WaitInv'
  BY <1>1, <1>8 DEF WaitInv
<1>10. AnswersLag'
  BY <1>1, <1>2 DEF LagInv, AnswersLag, Shape
<1>11. LagInv'
  BY <1>1, <1>2, <1>5, <1>10 DEF LagInv
<1> QED BY <1>6, <1>7, <1>9, <1>11

LEMMA VainInv == IInv /\ TypeInVain => IInv'
<1> SUFFICES ASSUME IInv, TypeInVain PROVE IInv'
  OBVIOUS
<1> USE DEF IInv
<1>1. /\ client = "type" /\ place = "exit"
      /\ \/ client' = "receive" /\ lost' = lost
         \/ client' = "refused" /\ lost' = toClient
      /\ UNCHANGED <<place, asked, turns, toClient, toServer, buffer, shown, input,
                     answer, slips>>
  BY DEF TypeInVain
<1>2. /\ lost = <<>> /\ asked <= Received + slips
      /\ Received' = Received /\ Received \in Int /\ slips \in Nat /\ asked \in Nat
  BY <1>1, ReceivedType DEF BehindInv, Received, Shape
<1>3. Shape' /\ StreamInv' /\ BufferInv' /\ WaitInv' /\ LagInv'
  BY <1>1 DEF Shape, StreamInv, BufferInv, WaitInv, LagInv, Coming, AnswersLag
<1>4. BehindInv'
  BY <1>1, <1>2 DEF BehindInv
<1>5. CASE client' = "receive" /\ lost' = lost
  <2>1. lost' = <<>>
    BY <1>2, <1>5
  <2>2. UnseenWithinSlips'
    BY <2>1 DEF UnseenWithinSlips
  <2> QED BY <1>1, <1>3, <1>4, <2>2
<1>6. CASE client' = "refused" /\ lost' = toClient
  <2> SUFFICES ASSUME NEW i \in DOMAIN toClient
               PROVE  asked < toClient[i].nr + slips
    <3>1. UnseenWithinSlips'
      BY <1>1, <1>6 DEF UnseenWithinSlips
    <3> QED BY <1>1, <1>3, <1>4, <3>1
  <2>0. /\ toClient \in Seq(Token) /\ toClient # <<>> /\ 1 \in DOMAIN toClient
        /\ i = 1 \/ 1 < i
    BY DEF Shape
  <2>1. toClient[1] \in Token /\ toClient[i] \in Token
    BY <2>0
  <2>2. toClient[1].nr <= toClient[i].nr
    <3>1. toClient[1].nr \in Nat
      BY <2>1 DEF Token
    <3> QED BY <2>0, <3>1 DEF StreamInv, Ordered
  <2>3. Received = toClient[1].nr - 1
    BY <2>0 DEF Received
  <2>4. toClient[1].nr \in Nat /\ toClient[i].nr \in Nat
    BY <2>1 DEF Token
  <2> QED BY <1>2, <2>2, <2>3, <2>4
<1> QED BY <1>1, <1>3, <1>4, <1>5, <1>6

LEMMA StutterInv == IInv /\ UNCHANGED vars => IInv'
<1> SUFFICES ASSUME IInv, UNCHANGED vars PROVE IInv'
  OBVIOUS
<1>1. Shape' /\ StreamInv' /\ BufferInv' /\ WaitInv' /\ UnseenWithinSlips'
  BY DEF IInv, vars, Shape, StreamInv, BufferInv, WaitInv, Coming, UnseenWithinSlips
<1>2. LagInv' /\ BehindInv'
  BY DEF IInv, vars, LagInv, AnswersLag, Uses, Received, BehindInv
<1> QED BY <1>1, <1>2 DEF IInv

LEMMA NextInv == IInv /\ [Next]_vars => IInv'
  BY HearInv, ReceiveInv, DisconnectedInv, TypeInv, ResendInv, VainInv, StutterInv
     DEF Next, Stopped

LEMMA Invariant == Spec => []IInv
  BY InitInv, NextInv, PTL DEF Spec

-----------------------------------------------------------------------------
(* Whatever the size of the client's buffer and the length of a listing,   *)
(* an answer is used for a question that is later than the one it was      *)
(* typed for by the number of slips at most, and never for an earlier one. *)
THEOREM AnswersStayClose == Spec => []AnswersLag
<1>1. IInv => AnswersLag
  BY DEF IInv, LagInv
<1> QED BY <1>1, Invariant, PTL

(* While the session is not over, a client that receives and a server that *)
(* reads never both wait for the other: what receive_input waits for is    *)
(* preceded by something read_complete_response recognizes as a question.  *)
THEOREM NeverStuck == Spec => []NobodyWaits
<1>1. IInv => NobodyWaits
  BY DEF IInv, WaitInv, NobodyWaits
<1> QED BY <1>1, Invariant, PTL

(* What the session has sent and the client never showed is part of the    *)
(* last reply if recv found the stream closed; if a send failed, it is of  *)
(* no more replies than there have been slips.                             *)
THEOREM UnseenAreFew == Spec => []UnseenWithinSlips
<1>1. IInv => UnseenWithinSlips
  BY DEF IInv
<1> QED BY <1>1, Invariant, PTL

-----------------------------------------------------------------------------
(* Types                                                                   *)

(* What follows an answer is a question of the same part or a menu.        *)
LEMMA Leads ==
    ASSUME NEW at \in Places, NEW to \in Script[at]
    PROVE  to \in Places \cup {"exit"}
<1>1. PICK part \in Parts : at \in DOMAIN part /\ to \in part[at]
  BY DEF Places, Script
<1>2. \A p \in Parts : DOMAIN p \subseteq Places
  BY DEF Places, Script
<1>3. /\ Logins \in Parts /\ AdminLogin \in Parts /\ FacultyLogin \in Parts
      /\ StudentLogin \in Parts /\ AdminMenu \in Parts /\ AddStudent \in Parts
      /\ AddFaculty \in Parts /\ Activate \in Parts /\ Block \in Parts
      /\ ModifyStudent \in Parts /\ ModifyFaculty \in Parts /\ FacultyMenu \in Parts
      /\ AddCourse \in Parts /\ RemoveCourse \in Parts /\ UpdateCourse \in Parts
      /\ FacultyPassword \in Parts /\ StudentMenu \in Parts /\ Enroll \in Parts
      /\ Drop \in Parts /\ StudentPassword \in Parts
  BY DEF Parts
<1>4. {"adminMenu", "facultyMenu", "studentMenu"} \subseteq Places
  BY <1>2, <1>3 DEF AdminMenu, FacultyMenu, StudentMenu
<1>5. CASE part = Logins
  <2>1. {"adminName", "facultyId", "studentId"} \subseteq Places
    BY <1>2, <1>3 DEF AdminLogin, FacultyLogin, StudentLogin
  <2>2. QED
    BY <1>1, <1>5, <2>1 DEF Logins
<1>6. CASE part \in {AdminLogin, FacultyLogin, StudentLogin}
  <2>1. {"adminPassword", "facultyPassword", "studentPassword"} \subseteq Places
    BY <1>2, <1>3 DEF AdminLogin, FacultyLogin, StudentLogin
  <2>2. QED
    BY <1>1, <1>4, <1>6, <2>1 DEF AdminLogin, FacultyLogin, StudentLogin
<1>7. CASE part = AdminMenu
  <2>1. {"addStudentName", "addFacultyName"} \subseteq Places
    BY <1>2, <1>3 DEF AddStudent, AddFaculty
  <2>2. {"activateId", "blockId", "modifyId", "modifyFacultyId"} \subseteq Places
    BY <1>2, <1>3 DEF Activate, Block, ModifyStudent, ModifyFaculty
  <2>3. QED
    BY <1>1, <1>4, <1>7, <2>1, <2>2 DEF AdminMenu
<1>8. CASE part = FacultyMenu
  <2>1. {"addCourseName", "removeId", "updateId", "facultyOld"} \subseteq Places
    BY <1>2, <1>3 DEF AddCourse, RemoveCourse, UpdateCourse, FacultyPassword
  <2>2. QED
    BY <1>1, <1>4, <1>8, <2>1 DEF FacultyMenu
<1>9. CASE part = StudentMenu
  <2>1. {"enrollId", "dropId", "studentOld"} \subseteq Places
    BY <1>2, <1>3 DEF Enroll, Drop, StudentPassword
  <2>2. QED
    BY <1>1, <1>4, <1>9, <2>1 DEF StudentMenu
<1>10. CASE part \in {Activate, Block, RemoveCourse, Enroll, Drop}
  BY <1>1, <1>4, <1>10 DEF Activate, Block, RemoveCourse, Enroll, Drop
<1>11. CASE part \in {AddStudent, AddFaculty, AddCourse}
  <2>1. DOMAIN part \subseteq Places
    BY <1>2
  <2>2. QED
    BY <1>1, <1>4, <1>11, <2>1 DEF AddStudent, AddFaculty, AddCourse
<1>12. CASE part \in {ModifyStudent, ModifyFaculty, UpdateCourse}
  <2>1. DOMAIN part \subseteq Places
    BY <1>2
  <2>2. QED
    BY <1>1, <1>4, <1>12, <2>1 DEF ModifyStudent, ModifyFaculty, UpdateCourse
<1>13. CASE part \in {FacultyPassword, StudentPassword}
  <2>1. DOMAIN part \subseteq Places
    BY <1>2
  <2>2. QED
    BY <1>1, <1>4, <1>13, <2>1 DEF FacultyPassword, StudentPassword
<1>14. QED
  BY <1>1, <1>5, <1>6, <1>7, <1>8, <1>9, <1>10, <1>11, <1>12, <1>13 DEF Parts

(* Questions are numbered from 1, so that the one before exists as 0.      *)
Counted(s) == \A i \in DOMAIN s : s[i].nr >= 1
Typed == TypeOK /\ asked >= 1 /\ Counted(toClient) /\ Counted(buffer)

LEMMA CountedConcat ==
    ASSUME NEW s \in Seq(Token), NEW t \in Seq(Token), Counted(s), Counted(t)
    PROVE  s \o t \in Seq(Token) /\ Counted(s \o t)
<1> DEFINE u == s \o t
<1>1. /\ u \in Seq(Token) /\ Len(u) = Len(s) + Len(t) /\ DOMAIN u = 1..Len(u)
      /\ \A i \in 1..Len(s) : u[i] = s[i]
      /\ \A i \in 1..Len(t) : u[i + Len(s)] = t[i]
  OBVIOUS
<1> HIDE DEF u
<1>2. ASSUME NEW i \in 1..Len(u) PROVE u[i].nr >= 1
  <2>1. CASE i \in 1..Len(s)
    BY <1>1, <2>1 DEF Counted
  <2>2. CASE i \notin 1..Len(s)
    <3>1. i - Len(s) \in 1..Len(t) /\ (i - Len(s)) + Len(s) = i
      BY <1>1, <2>2
    <3>2. u[i] = t[i - Len(s)]
      BY <1>1, <3>1
    <3>3. QED
      BY <3>1, <3>2 DEF Counted
  <2>3. QED
    BY <2>1, <2>2
<1>3. QED
  BY <1>1, <1>2 DEF Counted, u

LEMMA CountedParts ==
    ASSUME NEW s \in Seq(Token), Counted(s), NEW n \in 1..Len(s)
    PROVE  /\ SubSeq(s, n + 1, Len(s)) \in Seq(Token) /\ Counted(SubSeq(s, n + 1, Len(s)))
           /\ SubSeq(s, 1, n) \in Seq(Token) /\ Counted(SubSeq(s, 1, n))
           /\ Len(SubSeq(s, 1, n)) = n
<1> DEFINE t == SubSeq(s, n + 1, Len(s))
           u == SubSeq(s, 1, n)
<1>1. t \in Seq(Token) /\ Len(t) = Len(s) - n /\ \A i \in 1..(Len(s) - n) : t[i] = s[i + n]
  BY SuffixFacts
<1>2. u \in Seq(Token) /\ Len(u) = n /\ \A i \in 1..n : u[i] = s[i]
  BY PrefixFacts
<1> HIDE DEF t, u
<1>3. Counted(t)
  <2>1. ASSUME NEW i \in 1..(Len(s) - n) PROVE t[i].nr >= 1
    BY <1>1, <2>1 DEF Counted
  <2>2. QED
    BY <1>1, <2>1 DEF Counted
<1>4. Counted(u)
  BY <1>2 DEF Counted
<1>5. QED
  BY <1>1, <1>2, <1>3, <1>4 DEF t, u

(* All of a reply bears the number of the question that ends it.           *)
AllOf(m, t) == t \in Seq(Token) /\ \A i \in DOMAIN t : t[i].nr = m

LEMMA Numbers ==
    ASSUME NEW from, NEW to, NEW rows \in Listings(from, to), NEW m \in Nat
    PROVE  AllOf(m, Numbered(rows \o Question(to), m))
<1> DEFINE t == Numbered(rows \o Question(to), m)
<1>1. /\ t \in Seq(Token) /\ Len(t) \in Nat \ {0}
      /\ \A i \in DOMAIN t : /\ t[i].nr = m
                             /\ i < Len(t) => t[i].kind \notin Final
      /\ Halves(t)
      /\ to # "exit" => t[Len(t)].kind \in Final
  BY ReplyShape
<1> HIDE DEF t
<1>2. AllOf(m, t)
  BY <1>1 DEF AllOf
<1>3. QED
  BY <1>2 DEF t

LEMMA InitType == Init => Typed
<1> SUFFICES ASSUME Init PROVE Typed
  OBVIOUS
<1>1. <<>> \in Seq(Token) /\ <<>> \in Seq([nr : Nat, whole : BOOLEAN]) /\ Counted(<<>>)
  BY DEF Counted
<1>2. toClient \in Seq(Token) /\ Counted(toClient)
  <2> DEFINE t == Numbered(<<>> \o Question("userType"), 1)
  <2>1. <<>> \in Listings("userType", "userType")
    BY DEF Listings
  <2>2. AllOf(1, t)
    <3>1. 1 \in Nat
      OBVIOUS
    <3>2. QED
      BY <2>1, <3>1, Numbers
  <2>3. <<>> \o Question("userType") = Question("userType")
    BY QuestionShape
  <2>4. toClient = t
    BY <2>3 DEF Init
  <2> HIDE DEF t
  <2>5. QED
    BY <2>2, <2>4 DEF Counted, AllOf
<1>3. "userType" \in Places
  BY DEF Places, Script, Parts, Logins
<1>4. QED
  BY <1>1, <1>2, <1>3 DEF Init, Typed, TypeOK

LEMMA HearType == Typed /\ Hear => Typed'
<1> SUFFICES ASSUME Typed, Hear PROVE Typed'
  OBVIOUS
<1> DEFINE L == [nr : Nat, whole : BOOLEAN]
<1>1. TypeOK /\ asked \in Nat /\ asked >= 1 /\ turns \in Nat /\ slips \in Nat
      /\ toServer \in Seq(L) /\ place \in Places
      /\ toClient \in Seq(Token) /\ Counted(toClient) /\ Counted(buffer)
  BY DEF Typed, TypeOK, Hear
<1>2. PICK n \in 1..Len(toServer) :
          /\ answer' = [asked |-> asked, typed |-> Head(toServer).nr]
          /\ toServer' = SubSeq(toServer, n + 1, Len(toServer))
          /\ slips' = IF toServer[n].whole THEN slips ELSE slips + 1
  BY DEF Hear
<1>3. PICK to \in Following(place) : \E rows \in Listings(place, to) :
          /\ place' = to
          /\ toClient' = toClient \o Numbered(rows \o Question(to), asked + 1)
          /\ turns' = IF place \in Menus THEN turns + 1 ELSE turns
  BY DEF Hear
<1>4. PICK rows \in Listings(place, to) :
          /\ toClient' = toClient \o Numbered(rows \o Question(to), asked + 1)
          /\ turns' = IF place \in Menus THEN turns + 1 ELSE turns
          /\ place' = to
  BY <1>3
<1>5. asked' = asked + 1 /\ UNCHANGED <<client, buffer, shown, input, lost>>
  BY DEF Hear
<1>6. answer' \in [asked : Nat, typed : Nat] /\ toServer' \in Seq(L)
  <2> HIDE DEF L
  <2>1. Head(toServer) \in L
    <3>1. Len(toServer) \in Nat /\ 1 \in 1..Len(toServer)
      BY <1>1
    <3>2. QED
      BY <1>1, <3>1
  <2>2. toServer' \in Seq(L)
    BY <1>1, <1>2, SuffixFacts
  <2>3. Head(toServer).nr \in Nat
    BY <2>1 DEF L
  <2>4. QED
    BY <1>1, <1>2, <2>2, <2>3
<1>7. place' \in Places \cup {"exit"}
  BY <1>1, <1>4, Leads DEF Following
<1>8. toClient' \in Seq(Token) /\ Counted(toClient')
  <2> DEFINE t == Numbered(rows \o Question(to), asked + 1)
  <2>1. AllOf(asked + 1, t)
    <3>1. asked + 1 \in Nat
      BY <1>1
    <3>2. QED
      BY <3>1, Numbers
  <2> HIDE DEF t
  <2>2. Counted(t)
    BY <1>1, <2>1 DEF Counted, AllOf
  <2>3. toClient' = toClient \o t
    BY <1>4 DEF t
  <2>4. QED
    BY <1>1, <2>1, <2>2, <2>3, CountedConcat DEF AllOf
<1>9. asked' \in Nat /\ asked' >= 1 /\ turns' \in Nat /\ slips' \in Nat
  BY <1>1, <1>2, <1>4, <1>5
<1>10. Counted(buffer)' /\ Counted(toClient)'
  BY <1>1, <1>5, <1>8 DEF Counted
<1>11. QED
  BY <1>1, <1>5, <1>6, <1>7, <1>8, <1>9, <1>10 DEF Typed, TypeOK

LEMMA ReceiveType == Typed /\ Receive => Typed'
<1> SUFFICES ASSUME Typed, Receive PROVE Typed'
  OBVIOUS
<1>1. /\ TypeOK /\ slips \in Nat /\ shown \in Nat
      /\ toClient \in Seq(Token) /\ Counted(toClient)
      /\ buffer \in Seq(Token) /\ Counted(buffer)
  BY DEF Typed, TypeOK
<1>2. PICK n \in 1..Len(toClient) :
          LET buf == buffer \o SubSeq(toClient, 1, n) IN
          /\ toClient' = SubSeq(toClient, n + 1, Len(toClient))
          /\ \/ buffer' = buf /\ UNCHANGED <<client, shown, slips>>
             \/ /\ buffer' = <<>>
                /\ client' \in {"goodbye", "type"}
                /\ shown' = LastShown(buf)
                /\ slips' \in {slips, slips + 1}
  BY DEF Receive
<1> DEFINE buf == buffer \o SubSeq(toClient, 1, n)
           part == SubSeq(toClient, 1, n)
<1>3. /\ toClient' \in Seq(Token) /\ Counted(toClient')
      /\ part \in Seq(Token) /\ Counted(part) /\ Len(part) = n
  BY <1>1, <1>2, CountedParts
<1> HIDE DEF part
<1>4. buf \in Seq(Token) /\ Counted(buf)
  BY <1>1, <1>3, CountedConcat DEF part
<1>5. Len(buf) \in Nat \ {0}
  BY <1>1, <1>3 DEF part
<1> HIDE DEF buf
<1>6. LastShown(buf) \in Nat
  <2>1. buf[Len(buf)] \in Token /\ Len(buf) \in DOMAIN buf
    BY <1>4, <1>5
  <2>2. buf[Len(buf)].nr \in Nat /\ buf[Len(buf)].nr >= 1
    BY <1>4, <2>1 DEF Token, Counted
  <2>3. QED
    BY <2>2 DEF LastShown, Last
<1>7. UNCHANGED <<place, asked, turns, toServer, input, answer, lost>>
  BY DEF Receive
<1>8. /\ buffer' \in Seq(Token) /\ Counted(buffer') /\ shown' \in Nat /\ slips' \in Nat
      /\ client' \in {"receive", "type", "disconnected", "refused", "goodbye"}
  <2>1. CASE buffer' = buf /\ UNCHANGED <<client, shown, slips>>
    BY <1>1, <1>4, <2>1 DEF TypeOK
  <2>2. CASE /\ buffer' = <<>> /\ client' \in {"goodbye", "type"}
             /\ shown' = LastShown(buf) /\ slips' \in {slips, slips + 1}
    <3>1. Counted(<<>>) /\ <<>> \in Seq(Token)
      BY DEF Counted
    <3>2. QED
      BY <1>1, <1>6, <2>2, <3>1
  <2>3. QED
    BY <1>2, <2>1, <2>2 DEF buf
<1>9. Counted(toClient)' /\ Counted(buffer)' /\ asked' = asked
  BY <1>3, <1>7, <1>8 DEF Counted
<1>10. QED
  BY <1>3, <1>7, <1>8, <1>9 DEF Typed, TypeOK

LEMMA TalkType ==
    Typed /\ (Disconnected \/ (\E long \in BOOLEAN : Type(long)) \/ Resend
                \/ TypeInVain \/ Stopped \/ UNCHANGED vars) => Typed'
<1> SUFFICES ASSUME Typed,
                    Disconnected \/ (\E long \in BOOLEAN : Type(long)) \/ Resend
                       \/ TypeInVain \/ Stopped \/ UNCHANGED vars
             PROVE  Typed'
  OBVIOUS
<1>1. UNCHANGED <<place, asked, turns, toClient, buffer, shown, answer>>
  BY DEF Disconnected, Type, Resend, TypeInVain, Stopped, vars
<1>2. /\ toServer \in Seq([nr : Nat, whole : BOOLEAN]) /\ shown \in Nat /\ input \in Nat
      /\ lost \in Seq(Token) /\ buffer \in Seq(Token) /\ toClient \in Seq(Token)
      /\ slips \in Nat /\ client \in {"receive", "type", "disconnected", "refused", "goodbye"}
  BY DEF Typed, TypeOK
<1>3. ASSUME NEW n \in Nat, NEW long \in BOOLEAN
      PROVE  Line(n, long) \in Seq([nr : Nat, whole : BOOLEAN])
  <2> DEFINE part == [nr |-> n, whole |-> FALSE]
             end == [nr |-> n, whole |-> TRUE]
             L == [nr : Nat, whole : BOOLEAN]
  <2>1. part \in L /\ end \in L
    OBVIOUS
  <2>2. Line(n, long) = IF long THEN <<part, end>> ELSE <<end>>
    BY Zenon DEF Line
  <2> HIDE DEF part, end, L
  <2>3. Line(n, long) \in Seq(L)
    BY <2>1, <2>2
  <2>4. QED
    BY <2>3 DEF L
<1>4. \/ lost' \in {lost, toClient, buffer \o toClient} /\ toServer' = toServer
      \/ /\ lost' = lost
         /\ \E n \in Nat, long \in BOOLEAN : toServer' = toServer \o Line(n, long)
  BY <1>2 DEF Disconnected, Type, Resend, TypeInVain, Stopped, vars
<1>5. /\ input' \in Nat /\ slips' \in Nat
      /\ client' \in {"receive", "type", "disconnected", "refused", "goodbye"}
  <2>1. input' \in {input, shown} /\ slips' \in {slips, slips + 1}
    BY DEF Disconnected, Type, Resend, TypeInVain, Stopped, vars
  <2>2. client' \in {client, "receive", "disconnected", "refused"}
    BY DEF Disconnected, Type, Resend, TypeInVain, Stopped, vars
  <2>3. QED
    BY <1>2, <2>1, <2>2
<1>6. lost' \in Seq(Token)
  <2>1. lost' \in {lost, toClient, buffer \o toClient}
    BY <1>4
  <2>2. buffer \o toClient \in Seq(Token)
    BY <1>2
  <2>3. QED
    BY <1>2, <2>1, <2>2
<1>7. toServer' \in Seq([nr : Nat, whole : BOOLEAN])
  <2> DEFINE L == [nr : Nat, whole : BOOLEAN]
  <2>1. toServer \in Seq(L) /\ \A n \in Nat, long \in BOOLEAN : Line(n, long) \in Seq(L)
    BY <1>2, <1>3
  <2> HIDE DEF L
  <2>2. ASSUME toServer' = toServer PROVE toServer' \in Seq(L)
    BY <2>1, <2>2
  <2>3. ASSUME \E n \in Nat, long \in BOOLEAN : toServer' = toServer \o Line(n, long)
        PROVE  toServer' \in Seq(L)
    <3>1. PICK n \in Nat, long \in BOOLEAN : toServer' = toServer \o Line(n, long)
      BY <2>3
    <3>2. Line(n, long) \in Seq(L)
      BY <2>1
    <3>3. QED
      BY <2>1, <3>1, <3>2
  <2>4. toServer' \in Seq(L)
    BY <1>4, <2>2, <2>3
  <2>5. QED
    BY <2>4 DEF L
<1>8. QED
  BY <1>1, <1>5, <1>6, <1>7 DEF Typed, TypeOK, Counted

(* Every variable keeps its type: the session is at one of its questions   *)
(* or over, and questions on the screen have been asked.                   *)
THEOREM DialogueTypes == Spec => []TypeOK
<1>1. Typed /\ [Next]_vars => Typed'
  BY HearType, ReceiveType, TalkType DEF Next
<1>2. Typed => TypeOK
  BY DEF Typed
<1>3. QED
  BY <1>1, <1>2, InitType, PTL DEF Spec

=============================================================================
