---------------------------- MODULE YonishiProofs -----------------------------
(***************************************************************************)
(* That the readers are exact: the rows of any dispatch table are those    *)
(* that C sees in the decoded text, and as far from their places in the    *)
(* file as bytes were dropped, and the blocks and totals of any .par files *)
(* are what stands in them.                                                *)
(*                                                                         *)
(* Then that a manifest and a catalog are made of what their files held    *)
(* since they were listed, each file's readings in order, whatever is      *)
(* saved in between, and that the recorded fixtures survive every rebuild  *)
(* that meets no other writer and is not cut short: for any texts, any     *)
(* number of rebuilds and any edits.  Here what the readers make of a text *)
(* plays no part, only that they make the same of the same.                *)
(***************************************************************************)
EXTENDS YonishiTools, FiniteSetTheorems, WellFoundedInduction, TLAPS

(* Sequences *)

\* A sequence and one more element.
LEMMA Appended ==
    ASSUME NEW s, Sequence(s), NEW e
    PROVE  /\ Sequence(Append(s, e))
           /\ Len(s) \in Nat /\ DOMAIN s = 1 .. Len(s)
           /\ Len(Append(s, e)) = Len(s) + 1
           /\ \A i \in 1 .. Len(s) : Append(s, e)[i] = s[i]
           /\ Append(s, e)[Len(s) + 1] = e
<1> DEFINE S == Range(s) \cup {e}
<1> DEFINE t == Append(s, e)
<1>1. s \in Seq(S) /\ Len(s) \in Nat /\ DOMAIN s = 1 .. Len(s)
  BY DEF Sequence
<1>2. /\ t \in Seq(S) /\ Len(t) = Len(s) + 1 /\ DOMAIN t = 1 .. Len(t)
      /\ \A i \in 1 .. Len(s) : t[i] = s[i]
      /\ t[Len(s) + 1] = e
  BY <1>1
<1>3. \A i \in 1 .. Len(t) : t[i] \in Range(t)
  BY <1>2 DEF Range
<1> HIDE DEF t
<1>4. t = [i \in 1 .. Len(t) |-> t[i]]
  BY <1>2
<1>5. Len(t) \in Nat
  BY <1>1, <1>2
<1>6. t \in Seq(Range(t))
  BY <1>3, <1>4, <1>5
<1> QED
  BY <1>1, <1>2, <1>6 DEF Sequence, t

\* A sequence with one element replaced.
LEMMA Replaced ==
    ASSUME NEW s, Sequence(s), NEW n, NEW e
    PROVE  LET t == [s EXCEPT ![n] = e]
           IN  /\ Sequence(t)
               /\ Len(s) \in Nat /\ DOMAIN s = 1 .. Len(s)
               /\ Len(t) = Len(s)
               /\ \A i \in 1 .. Len(s) : i # n => t[i] = s[i]
               /\ n \in 1 .. Len(s) => t[n] = e
<1> DEFINE S == Range(s) \cup {e}
<1> DEFINE t == [s EXCEPT ![n] = e]
<1>1. s \in Seq(S) /\ Len(s) \in Nat /\ DOMAIN s = 1 .. Len(s)
  BY DEF Sequence
<1>2. /\ t \in Seq(S) /\ Len(t) = Len(s) /\ DOMAIN t = 1 .. Len(t)
      /\ \A i \in 1 .. Len(s) : i # n => t[i] = s[i]
      /\ n \in 1 .. Len(s) => t[n] = e
  <2>1. \A i \in 1 .. Len(s) : s[i] \in S
    BY <1>1
  <2>2. t = [i \in 1 .. Len(s) |-> IF i = n THEN e ELSE s[i]]
    BY <1>1
  <2> HIDE DEF t
  <2>3. \A i \in 1 .. Len(s) : (IF i = n THEN e ELSE s[i]) \in S
    BY <2>1
  <2>4. t \in [1 .. Len(s) -> S]
    BY <2>2, <2>3
  <2>5. t \in Seq(S) /\ Len(t) = Len(s)
    BY <2>4, <1>1
  <2> QED
    BY <2>2, <2>5, <1>1
<1>3. \A i \in 1 .. Len(t) : t[i] \in Range(t)
  BY <1>2 DEF Range
<1> HIDE DEF t
<1>4. t = [i \in 1 .. Len(t) |-> t[i]]
  BY <1>2
<1>5. Len(t) \in Nat
  BY <1>1, <1>2
<1>6. t \in Seq(Range(t))
  BY <1>3, <1>4, <1>5
<1> QED
  BY <1>1, <1>2, <1>6 DEF Sequence, t

\* The empty sequence is one.
LEMMA Empty == Sequence(<<>>) /\ Len(<<>>) = 0
BY DEF Sequence
-----------------------------------------------------------------------------
(* Induction *)

\* What holds of 0 and of each next number holds of all.
LEMMA Induction ==
    ASSUME NEW S, 0 \in S, \A n \in Nat : n \in S => n + 1 \in S
    PROVE  \A n \in Nat : n \in S
<1> SUFFICES ASSUME NEW m \in Nat, m \notin S PROVE FALSE
  OBVIOUS
<1> DEFINE T == {n \in Nat : n \notin S}
<1>1. T \subseteq Nat /\ T # {}
  OBVIOUS
<1>2. PICK n \in T : \A k \in T : ~(<<k, n>> \in OpToRel(<, Nat))
  BY <1>1, NatLessThanWellFounded, WFMin
<1>3. n \in Nat /\ n \notin S /\ n # 0 /\ n - 1 \in Nat /\ n - 1 < n /\ (n - 1) + 1 = n
  OBVIOUS
<1>4. n - 1 \notin T
  BY <1>2, <1>3 DEF OpToRel
<1> QED
  BY <1>3, <1>4

\* The same up to a bound.
LEMMA InductionUpTo ==
    ASSUME NEW N \in Nat, NEW S, 0 \in S,
           \A n \in 1 .. N : n - 1 \in S => n \in S
    PROVE  \A n \in 0 .. N : n \in S
<1> DEFINE T == {n \in Nat : n <= N => n \in S}
<1>1. 0 \in T
  OBVIOUS
<1>2. ASSUME NEW n \in Nat, n \in T PROVE n + 1 \in T
  <2>1. CASE n + 1 <= N
    <3>1. n \in S /\ n + 1 \in 1 .. N /\ (n + 1) - 1 = n
      BY <1>2, <2>1
    <3> QED BY <3>1
  <2>2. CASE ~(n + 1 <= N)
    BY <2>2
  <2> QED BY <2>1, <2>2
<1> HIDE DEF T
<1>3. \A n \in Nat : n \in T
  BY <1>1, <1>2, Induction
<1> QED BY <1>3 DEF T
-----------------------------------------------------------------------------
(* The comments of a table *)

\* One step of CMode, and the function it makes.
ModeStep(last, x) ==
    CASE last = "code" /\ x = "//" -> "line"
      [] last = "code" /\ x = "/*" -> "block"
      [] last = "line" /\ x = "nl" -> "code"
      [] last = "block" /\ x = "*/" -> "code"
      [] OTHER -> last
IsMode(t, n, f) ==
    f = [k \in 0 .. n |-> IF k = 0 THEN "code" ELSE ModeStep(f[k - 1], t[k])]

\* Such a function exists for every length.
LEMMA ModeExists ==
    ASSUME NEW t
    PROVE  \A n \in Nat : \E f : IsMode(t, n, f)
<1> DEFINE S == {n \in Nat : \E f : IsMode(t, n, f)}
<1>1. 0 \in S
  <2> DEFINE f == [k \in 0 .. 0 |-> "code"]
  <2>1. IsMode(t, 0, f)
    BY DEF IsMode
  <2> QED BY <2>1
<1>2. ASSUME NEW n \in Nat, n \in S PROVE n + 1 \in S
  <2>1. PICK f : IsMode(t, n, f)
    BY <1>2
  <2> DEFINE g == [k \in 0 .. n + 1 |-> IF k = n + 1 THEN ModeStep(f[n], t[n + 1]) ELSE f[k]]
  <2>2. \A k \in 0 .. n : /\ g[k] = f[k]
                          /\ f[k] = IF k = 0 THEN "code" ELSE ModeStep(f[k - 1], t[k])
    BY <2>1 DEF IsMode
  <2>3. DOMAIN g = 0 .. n + 1 /\ g[n + 1] = ModeStep(f[n], t[n + 1])
    OBVIOUS
  <2>4. g = [k \in 0 .. n + 1 |-> g[k]]
    OBVIOUS
  <2> HIDE DEF g
  <2>5. ASSUME NEW k \in 0 .. n + 1
        PROVE  g[k] = IF k = 0 THEN "code" ELSE ModeStep(g[k - 1], t[k])
    <3>1. CASE k = n + 1
      BY <2>2, <2>3, <3>1
    <3>2. CASE k # n + 1
      BY <2>2, <3>2
    <3> QED BY <3>1, <3>2
  <2>6. IsMode(t, n + 1, g)
    BY <2>4, <2>5 DEF IsMode
  <2> QED BY <2>6
<1> HIDE DEF S
<1>3. \A n \in Nat : n \in S
  BY <1>1, <1>2, Induction
<1> QED
  BY <1>3 DEF S

\* It is what CMode looks at.
LEMMA ModeIs ==
    ASSUME NEW t, Len(t) \in Nat
    PROVE  /\ CMode(t)[0] = "code"
           /\ \A k \in 1 .. Len(t) : CMode(t)[k] = ModeStep(CMode(t)[k - 1], t[k])
<1>1. \E f : IsMode(t, Len(t), f)
  BY ModeExists
<1>2. IsMode(t, Len(t), CMode(t))
  BY <1>1 DEF IsMode, CMode, ModeStep
<1>3. \A k \in 0 .. Len(t) :
         CMode(t)[k] = IF k = 0 THEN "code" ELSE ModeStep(CMode(t)[k - 1], t[k])
  BY <1>2 DEF IsMode
<1>4. QED BY <1>3

\* One step of Matches, and the function it makes.
MatchStep(t, open, close, last, k) ==
    IF last >= k THEN last
    ELSE IF t[k] = open THEN After(t, k, close)
    ELSE 0
IsMatch(t, open, close, n, f) ==
    f = [k \in 0 .. n |-> IF k = 0 THEN 0 ELSE MatchStep(t, open, close, f[k - 1], k)]

\* Such a function exists for every length.
LEMMA MatchExists ==
    ASSUME NEW t, NEW open, NEW close
    PROVE  \A n \in Nat : \E f : IsMatch(t, open, close, n, f)
<1> DEFINE S == {n \in Nat : \E f : IsMatch(t, open, close, n, f)}
<1>1. 0 \in S
  <2> DEFINE f == [k \in 0 .. 0 |-> 0]
  <2>1. IsMatch(t, open, close, 0, f)
    BY DEF IsMatch
  <2> QED BY <2>1
<1>2. ASSUME NEW n \in Nat, n \in S PROVE n + 1 \in S
  <2>1. PICK f : IsMatch(t, open, close, n, f)
    BY <1>2
  <2> DEFINE g == [k \in 0 .. n + 1 |->
                     IF k = n + 1 THEN MatchStep(t, open, close, f[n], n + 1) ELSE f[k]]
  <2>2. \A k \in 0 .. n :
           /\ g[k] = f[k]
           /\ f[k] = IF k = 0 THEN 0 ELSE MatchStep(t, open, close, f[k - 1], k)
    BY <2>1 DEF IsMatch
  <2>3. DOMAIN g = 0 .. n + 1 /\ g[n + 1] = MatchStep(t, open, close, f[n], n + 1)
    OBVIOUS
  <2>4. g = [k \in 0 .. n + 1 |-> g[k]]
    OBVIOUS
  <2> HIDE DEF g
  <2>5. ASSUME NEW k \in 0 .. n + 1
        PROVE  g[k] = IF k = 0 THEN 0 ELSE MatchStep(t, open, close, g[k - 1], k)
    <3>1. CASE k = n + 1
      BY <2>2, <2>3, <3>1
    <3>2. CASE k # n + 1
      BY <2>2, <3>2
    <3> QED BY <3>1, <3>2
  <2>6. IsMatch(t, open, close, n + 1, g)
    BY <2>4, <2>5 DEF IsMatch
  <2> QED BY <2>6
<1> HIDE DEF S
<1>3. \A n \in Nat : n \in S
  BY <1>1, <1>2, Induction
<1> QED
  BY <1>3 DEF S

\* Matches is what the steps make, behind a 0.
LEMMA MatchesAre ==
    ASSUME NEW t, Len(t) \in Nat, NEW open, NEW close
    PROVE  \E f : /\ f[0] = 0
                  /\ \A k \in 1 .. Len(t) : f[k] = MatchStep(t, open, close, f[k - 1], k)
                  /\ Matches(t, open, close) = [k \in 1 .. Len(t) |-> f[k]]
<1>1. \E f : IsMatch(t, open, close, Len(t), f)
  BY MatchExists
<1> DEFINE end == CHOOSE f : IsMatch(t, open, close, Len(t), f)
<1>2. IsMatch(t, open, close, Len(t), end)
  BY <1>1
<1>3. Matches(t, open, close) = [k \in 1 .. Len(t) |-> end[k]]
  BY DEF IsMatch, MatchStep, Matches
<1> HIDE DEF end
<1>4. \A k \in 0 .. Len(t) :
         end[k] = IF k = 0 THEN 0 ELSE MatchStep(t, open, close, end[k - 1], k)
  BY <1>2 DEF IsMatch
<1> QED BY <1>3, <1>4

\* The mode is one of three.
LEMMA ModeType ==
    ASSUME NEW t, Len(t) \in Nat
    PROVE  \A k \in 0 .. Len(t) : CMode(t)[k] \in {"code", "line", "block"}
<1> DEFINE m == CMode(t)
           S == {k \in 0 .. Len(t) : m[k] \in {"code", "line", "block"}}
<1>1. m[0] = "code" /\ \A k \in 1 .. Len(t) : m[k] = ModeStep(m[k - 1], t[k])
  BY ModeIs
<1> HIDE DEF m
<1>2. 0 \in S
  BY <1>1
<1>3. ASSUME NEW k \in 1 .. Len(t), k - 1 \in S PROVE k \in S
  <2>1. m[k - 1] \in {"code", "line", "block"} /\ m[k] = ModeStep(m[k - 1], t[k])
    BY <1>1, <1>3
  <2>2. m[k] \in {"code", "line", "block"}
    BY <2>1 DEF ModeStep
  <2> QED BY <2>2
<1> HIDE DEF S
<1>4. \A k \in 0 .. Len(t) : k \in S
  BY <1>2, <1>3, InductionUpTo
<1> QED BY <1>4 DEF S, m

\* A token that the first pass blanks out.
InLine(t, k) == \E i \in 1 .. k : t[i] = "//" /\ \A j \in i .. k : t[j] # "nl"

\* A `//` inside the block comment that is open at k, on the same line.
Buried(t, k) ==
    \E i \in 1 .. k : /\ t[i] = "//" /\ \A j \in i .. k : t[j] # "nl"
                      /\ \A j \in i - 1 .. k : CMode(t)[j] = "block"

\* In a tame text the first pass blanks out line comments, and of block
\* comments what stands behind a `//` on a line where they do not end.
LEMMA LinesStripped ==
    ASSUME NEW t, Len(t) \in Nat, DOMAIN t = 1 .. Len(t), Tame(t)
    PROVE  \A k \in 1 .. Len(t) :
              /\ InLine(t, k) => CMode(t)[k] = "line" \/ Buried(t, k)
              /\ CMode(t)[k] = "line" => InLine(t, k)
<1> DEFINE m == CMode(t)
           S == {k \in 0 .. Len(t) :
                   /\ InLine(t, k) => m[k] = "line" \/ Buried(t, k)
                   /\ m[k] = "line" => InLine(t, k)}
<1>1. m[0] = "code" /\ \A k \in 1 .. Len(t) : m[k] = ModeStep(m[k - 1], t[k])
  BY ModeIs
<1>2. \A k \in 0 .. Len(t) : m[k] \in {"code", "line", "block"}
  BY ModeType
<1>3. 0 \in S
  BY <1>1 DEF InLine
<1>4. ASSUME NEW k \in 1 .. Len(t), k - 1 \in S PROVE k \in S
  <2>1. m[k] = ModeStep(m[k - 1], t[k]) /\ m[k - 1] \in {"code", "line", "block"}
    BY <1>1, <1>2
  <2>2. ASSUME m[k] = "line" PROVE InLine(t, k)
    <3>1. \/ m[k - 1] = "code" /\ t[k] = "//"
          \/ m[k - 1] = "line" /\ t[k] # "nl"
      BY <2>1, <2>2 DEF ModeStep
    <3>2. CASE t[k] = "//"
      BY <3>2 DEF InLine
    <3>3. CASE m[k - 1] = "line" /\ t[k] # "nl"
      <4>1. PICK i \in 1 .. k - 1 : t[i] = "//" /\ \A j \in i .. k - 1 : t[j] # "nl"
        BY <1>4, <3>3 DEF InLine
      <4>2. \A j \in i .. k : t[j] # "nl"
        BY <4>1, <3>3
      <4> QED BY <4>1, <4>2 DEF InLine
    <3> QED BY <3>1, <3>2, <3>3
  <2>3. ASSUME InLine(t, k) PROVE m[k] = "line" \/ Buried(t, k)
    <3>1. PICK i \in 1 .. k : t[i] = "//" /\ \A j \in i .. k : t[j] # "nl"
      BY <2>3 DEF InLine
    <3>2. t[k] # "nl"
      BY <3>1
    <3>3. CASE m[k - 1] = "line"
      BY <3>2, <3>3, <2>1 DEF ModeStep
    <3>4. CASE i = k
      <4>1. m[k - 1] = "code" => m[k] = "line"
        BY <3>1, <3>4, <2>1 DEF ModeStep
      <4>2. m[k - 1] = "block" => m[k] = "block"
        BY <3>1, <3>4, <2>1 DEF ModeStep
      <4>3. m[k - 1] = "block" => Buried(t, k)
        <5>1. SUFFICES ASSUME m[k - 1] = "block" PROVE Buried(t, k)
          OBVIOUS
        <5>2. \A j \in k - 1 .. k : m[j] = "block"
          BY <5>1, <4>2
        <5> QED BY <3>1, <3>4, <5>2 DEF Buried
      <4> QED BY <4>1, <4>3, <3>3, <2>1
    <3>5. CASE i # k /\ m[k - 1] # "line"
      <4>1. InLine(t, k - 1)
        BY <3>1, <3>5 DEF InLine
      <4>2. PICK h \in 1 .. k - 1 : /\ t[h] = "//" /\ \A j \in h .. k - 1 : t[j] # "nl"
                                    /\ \A j \in h - 1 .. k - 1 : m[j] = "block"
        BY <4>1, <1>4, <3>5 DEF Buried
      <4>3. \A j \in h .. k : t[j] # "nl"
        BY <4>2, <3>2
      <4>4. m[k - 1] = "block" /\ m[h - 1] = "block"
        BY <4>2
      <4>5. t[k] # "*/"
        <5>1. SUFFICES ASSUME t[k] = "*/" PROVE FALSE
          OBVIOUS
        <5>2. \/ m[h - 1] # "block"
              \/ \E j \in h .. k - 1 : m[j] = "code"
          BY <5>1, <4>2, <4>3, <4>4 DEF Tame
        <5> QED BY <5>2, <4>2
      <4>6. m[k] = "block"
        BY <4>4, <4>5, <2>1 DEF ModeStep
      <4>7. \A j \in h - 1 .. k : m[j] = "block"
        BY <4>2, <4>6
      <4> QED BY <4>2, <4>3, <4>7 DEF Buried
    <3> QED BY <3>3, <3>4, <3>5
  <2> QED BY <2>2, <2>3
<1> HIDE DEF S
<1>5. \A k \in 0 .. Len(t) : k \in S
  BY <1>3, <1>4, InductionUpTo
<1> QED BY <1>5 DEF S

\* What the first pass leaves at a token, by the modes on both its sides.
LEMMA StrippedToken ==
    ASSUME NEW t, Len(t) \in Nat, DOMAIN t = 1 .. Len(t), Tame(t),
           NEW k \in 1 .. Len(t)
    PROVE  LET m == CMode(t)
               x == StripLineComments(t)[k]
           IN  /\ m[k] = "line" => x = " "
               /\ m[k] = "code" => x = t[k]
               /\ m[k] = "block" /\ m[k - 1] # "block" => x = t[k] /\ x = "/*"
               /\ m[k] = "block" /\ m[k - 1] = "block" => x # "*/"
               /\ m[k] # "block" /\ m[k - 1] = "block" => m[k] = "code" /\ x = "*/"
               /\ m[k] # "block" /\ m[k - 1] # "block" => x # "/*"
<1> DEFINE m == CMode(t)
           x == StripLineComments(t)[k]
<1>1. m[k] = ModeStep(m[k - 1], t[k])
  BY ModeIs
<1>2. m[k - 1] \in {"code", "line", "block"} /\ m[k] \in {"code", "line", "block"}
  BY ModeType
<1>3. x = IF InLine(t, k) THEN " " ELSE t[k]
  BY DEF StripLineComments, InLine
<1>4. InLine(t, k) => m[k] = "line" \/ (m[k] = "block" /\ m[k - 1] = "block")
  BY LinesStripped DEF Buried
<1>5. m[k] = "line" => InLine(t, k)
  BY LinesStripped
<1> HIDE DEF m, x
<1>6. /\ m[k] = "line" => x = " "
      /\ m[k] = "code" => x = t[k]
      /\ m[k] = "block" /\ m[k - 1] # "block" => x = t[k]
  BY <1>3, <1>4, <1>5
<1>7. m[k] = "block" /\ m[k - 1] # "block" => t[k] = "/*"
  BY <1>1, <1>2 DEF ModeStep
<1>8. m[k] = "block" /\ m[k - 1] = "block" => x # "*/"
  BY <1>1, <1>3 DEF ModeStep
<1>9. m[k] # "block" /\ m[k - 1] = "block" => m[k] = "code" /\ t[k] = "*/"
  BY <1>1 DEF ModeStep
<1>10. m[k] # "block" /\ m[k - 1] # "block" => x # "/*"
  BY <1>1, <1>2, <1>3, <1>6 DEF ModeStep
<1> QED BY <1>6, <1>7, <1>8, <1>9, <1>10 DEF m, x

\* Where a run of numbers leaves a set.
LEMMA FirstOutside ==
    ASSUME NEW N \in Nat, NEW S, NEW k \in 0 .. N, k \in S, N \notin S
    PROVE  \E e \in k + 1 .. N : e \notin S /\ \A j \in k .. e - 1 : j \in S
<1> SUFFICES ASSUME \A e \in k + 1 .. N :
                        (\A j \in k .. e - 1 : j \in S) => e \in S
             PROVE  FALSE
  OBVIOUS
<1> DEFINE T == {n \in 0 .. N : \A j \in k .. n : j \in S}
<1>1. 0 \in T
  <2>1. \A j \in k .. 0 : j = k
    OBVIOUS
  <2> QED BY <2>1
<1>2. ASSUME NEW n \in 1 .. N, n - 1 \in T PROVE n \in T
  <2>1. \A j \in k .. n - 1 : j \in S
    BY <1>2
  <2>2. CASE n > k
    <3>1. n \in k + 1 .. N /\ \A j \in k .. n - 1 : j \in S
      BY <2>1, <2>2
    <3>2. n \in S
      BY <3>1
    <3>3. \A j \in k .. n : j = n \/ j \in k .. n - 1
      OBVIOUS
    <3> QED BY <2>1, <3>2, <3>3
  <2>3. CASE ~(n > k)
    <3>1. \A j \in k .. n : j = k
      BY <2>3
    <3> QED BY <3>1
  <2> QED BY <2>2, <2>3
<1> HIDE DEF T
<1>3. \A n \in 0 .. N : n \in T
  BY <1>1, <1>2, InductionUpTo
<1>4. N \in T
  BY <1>3
<1> QED BY <1>4 DEF T

\* The first pass leaves the length as it is.
LEMMA StrippedLength ==
    ASSUME NEW t, Len(t) \in Nat, DOMAIN t = 1 .. Len(t)
    PROVE  LET x == StripLineComments(t)
           IN  DOMAIN x = 1 .. Len(t) /\ Len(x) = Len(t)
<1> DEFINE x == StripLineComments(t)
<1>1. DOMAIN x = 1 .. Len(t) /\ x = [k \in 1 .. Len(t) |-> x[k]]
  BY DEF StripLineComments
<1> HIDE DEF x
<1>2. x \in [1 .. Len(t) -> {x[k] : k \in 1 .. Len(t)}]
  BY <1>1
<1>3. x \in Seq({x[k] : k \in 1 .. Len(t)}) /\ Len(x) = Len(t)
  BY <1>2
<1> QED BY <1>1, <1>3 DEF x

\* What is found behind k is the first there is.
LEMMA AfterIs ==
    ASSUME NEW t, Len(t) \in Nat, NEW x, NEW k \in Nat, NEW e \in k + 1 .. Len(t),
           t[e] = x, \A j \in k + 1 .. e - 1 : t[j] # x
    PROVE  After(t, k, x) = e
<1> DEFINE at == {j \in k + 1 .. Len(t) : t[j] = x}
<1>1. e \in at /\ \A j \in at : e <= j
  OBVIOUS
<1>2. at \subseteq Int
  OBVIOUS
<1> HIDE DEF at
<1>3. Min(at) = e
  <2>1. \A x_ \in at : (\A y \in at : x_ =< y) => x_ = e
    BY <1>1, <1>2
  <2> QED BY <1>1, <2>1 DEF Min
<1> QED BY <1>1, <1>3 DEF After, at

\* At an open block comment the match ends where the comment does; behind one,
\* and in code, it goes no further.
MatchOf(t, k, e) ==
    /\ CMode(t)[k] = "block" =>
           e \in k + 1 .. Len(t) /\ CMode(t)[e] # "block"
           /\ \A j \in k .. e - 1 : CMode(t)[j] = "block"
    /\ CMode(t)[k] # "block" =>
           e = IF k > 0 /\ CMode(t)[k - 1] = "block" THEN k ELSE 0

\* The match of the second pass at each token of a tame text.
LEMMA BlocksMatched ==
    ASSUME NEW t, Len(t) \in Nat, DOMAIN t = 1 .. Len(t), Tame(t), NEW f, f[0] = 0,
           \A k \in 1 .. Len(t) :
               f[k] = MatchStep(StripLineComments(t), "/*", "*/", f[k - 1], k)
    PROVE  \A k \in 0 .. Len(t) : MatchOf(t, k, f[k])
<1> DEFINE m == CMode(t)
           x == StripLineComments(t)
           S == {k \in 0 .. Len(t) : MatchOf(t, k, f[k])}
<1>1. m[0] = "code" /\ m[Len(t)] # "block"
  BY ModeIs DEF Tame
<1>2. Len(x) = Len(t) /\ Len(x) \in Nat
  BY StrippedLength
<1>3. 0 \in S
  BY <1>1 DEF MatchOf
<1>4. ASSUME NEW k \in 1 .. Len(t), k - 1 \in S PROVE k \in S
  <2>1. MatchOf(t, k - 1, f[k - 1])
    BY <1>4
  <2>2. f[k] = MatchStep(x, "/*", "*/", f[k - 1], k)
    OBVIOUS
  <2>3. CASE m[k - 1] = "block"
    <3>1. /\ f[k - 1] \in k .. Len(t) /\ m[f[k - 1]] # "block"
          /\ \A j \in k - 1 .. f[k - 1] - 1 : m[j] = "block"
      BY <2>1, <2>3 DEF MatchOf
    <3>2. f[k] = f[k - 1]
      BY <2>2, <3>1 DEF MatchStep
    <3>3. CASE f[k] = k
      BY <2>3, <3>1, <3>2, <3>3 DEF MatchOf
    <3>4. CASE f[k] # k
      <4>1. m[k] = "block" /\ f[k] \in k + 1 .. Len(t)
        BY <3>1, <3>2, <3>4
      <4> QED BY <4>1, <3>1, <3>2 DEF MatchOf
    <3> QED BY <3>3, <3>4
  <2>4. CASE m[k - 1] # "block"
    <3>1. f[k - 1] \in {k - 1, 0} /\ ~(f[k - 1] >= k)
      BY <2>1, <2>4 DEF MatchOf
    <3>2. f[k] = IF x[k] = "/*" THEN After(x, k, "*/") ELSE 0
      BY <2>2, <3>1 DEF MatchStep
    <3>3. CASE m[k] # "block"
      <4>1. x[k] # "/*"
        BY <2>4, <3>3, StrippedToken
      <4> QED BY <4>1, <3>2, <2>4, <3>3 DEF MatchOf
    <3>4. CASE m[k] = "block"
      <4>1. x[k] = "/*"
        BY <2>4, <3>4, StrippedToken
      <4> DEFINE B == {j \in 0 .. Len(t) : m[j] = "block"}
      <4>2. k \in B /\ Len(t) \notin B /\ k \in 0 .. Len(t)
        BY <3>4, <1>1
      <4>3. PICK e \in k + 1 .. Len(t) : e \notin B /\ \A j \in k .. e - 1 : j \in B
        BY <4>2, FirstOutside
      <4>4. m[e] # "block" /\ \A j \in k .. e - 1 : m[j] = "block"
        BY <4>3
      <4>5. x[e] = "*/"
        <5>1. e \in 1 .. Len(t) /\ m[e - 1] = "block"
          BY <4>4
        <5> QED BY <4>4, <5>1, StrippedToken
      <4>6. \A j \in k + 1 .. e - 1 : x[j] # "*/"
        <5> TAKE j \in k + 1 .. e - 1
        <5>1. j \in 1 .. Len(t) /\ m[j] = "block" /\ m[j - 1] = "block"
          BY <4>4
        <5> QED BY <5>1, StrippedToken
      <4> HIDE DEF x
      <4>7. After(x, k, "*/") = e
        BY <4>5, <4>6, <1>2, AfterIs
      <4> QED BY <4>1, <4>4, <4>7, <3>2, <3>4 DEF MatchOf
    <3> QED BY <3>3, <3>4
  <2> QED BY <2>3, <2>4
<1> HIDE DEF S
<1>5. \A k \in 0 .. Len(t) : k \in S
  BY <1>3, <1>4, InductionUpTo
<1> QED BY <1>5 DEF S

\* In a tame text the two passes blank out what C takes for comments.
LEMMA CommentsExact ==
    ASSUME NEW t, Len(t) \in Nat, DOMAIN t = 1 .. Len(t), Tame(t)
    PROVE  StripComments(t) = CText(t)
<1> DEFINE m == CMode(t)
           x == StripLineComments(t)
<1>1. Len(x) = Len(t) /\ DOMAIN x = 1 .. Len(t)
  BY StrippedLength
<1> HIDE DEF x
<1>2. PICK f : /\ f[0] = 0
               /\ \A k \in 1 .. Len(t) : f[k] = MatchStep(x, "/*", "*/", f[k - 1], k)
               /\ Matches(x, "/*", "*/") = [k \in 1 .. Len(t) |-> f[k]]
  BY <1>1, MatchesAre
<1>3. \A k \in 0 .. Len(t) : MatchOf(t, k, f[k])
  BY <1>2, BlocksMatched DEF x
<1>4. \A k \in 0 .. Len(t) : m[k] \in {"code", "line", "block"}
  BY ModeType
<1> DEFINE C(k) == IF m[k - 1] = "code" /\ m[k] = "code" THEN t[k]
                   ELSE IF m[k - 1] = "line" /\ t[k] = "nl" THEN "nl" ELSE " "
<1>5. ASSUME NEW k \in 1 .. Len(t)
      PROVE  (IF f[k] > 0 THEN " " ELSE x[k]) = C(k)
  <2>1. m[k] = ModeStep(m[k - 1], t[k]) /\ m[k - 1] \in {"code", "line", "block"}
        /\ m[k] \in {"code", "line", "block"}
    BY ModeIs, <1>4
  <2>2. MatchOf(t, k, f[k])
    BY <1>3
  <2>3. CASE m[k] = "block"
    <3>1. f[k] > 0
      BY <2>2, <2>3 DEF MatchOf
    <3>2. ~(m[k - 1] = "line" /\ t[k] = "nl")
      BY <2>1, <2>3 DEF ModeStep
    <3> QED BY <3>1, <3>2, <2>3
  <2>4. CASE m[k] # "block" /\ m[k - 1] = "block"
    <3>1. f[k] > 0
      BY <2>2, <2>4 DEF MatchOf
    <3> QED BY <3>1, <2>4
  <2>5. CASE m[k] # "block" /\ m[k - 1] # "block"
    <3>1. f[k] = 0
      BY <2>2, <2>5 DEF MatchOf
    <3>2. /\ m[k] = "line" => x[k] = " "
          /\ m[k] = "code" => x[k] = t[k]
      BY StrippedToken DEF x
    <3>3. m[k - 1] = "line" => (m[k] = "code" <=> t[k] = "nl")
      BY <2>1, <2>5 DEF ModeStep
    <3>4. m[k] \in {"code", "line"} /\ m[k - 1] \in {"code", "line"}
      BY <2>1, <2>5
    <3> HIDE DEF m
    <3>5. (IF f[k] > 0 THEN " " ELSE x[k]) = x[k]
      BY <3>1
    <3>6. CASE m[k] = "line"
      <4>1. C(k) = " "
        BY <3>3, <3>4, <3>6
      <4> QED BY <3>2, <3>5, <3>6, <4>1
    <3>7. CASE m[k] = "code"
      <4>1. C(k) = t[k]
        BY <3>3, <3>4, <3>7
      <4> QED BY <3>2, <3>5, <3>7, <4>1
    <3> QED BY <3>4, <3>6, <3>7
  <2> QED BY <2>3, <2>4, <2>5
<1>6. StripComments(t) = [k \in 1 .. Len(t) |-> IF f[k] > 0 THEN " " ELSE x[k]]
  <2>1. StripBlockComments(x)
          = [k \in DOMAIN x |-> IF Matches(x, "/*", "*/")[k] > 0 THEN " " ELSE x[k]]
    BY DEF StripBlockComments
  <2>2. \A k \in 1 .. Len(t) : Matches(x, "/*", "*/")[k] = f[k]
    BY <1>2
  <2> QED BY <2>1, <2>2, <1>1 DEF StripComments, x
<1>7. CText(t) = [k \in 1 .. Len(t) |-> C(k)]
  BY DEF CText
<1> HIDE DEF C
<1> QED BY <1>5, <1>6, <1>7
-----------------------------------------------------------------------------
(* Numbers in order *)

\* A function on 1 .. n is a sequence of length n.
LEMMA SequenceIs ==
    ASSUME NEW n \in Nat, NEW s, s = [i \in 1 .. n |-> s[i]]
    PROVE  Sequence(s) /\ Len(s) = n /\ DOMAIN s = 1 .. n
<1>1. DOMAIN s = 1 .. n
  OBVIOUS
<1>2. \A i \in 1 .. n : s[i] \in Range(s)
  BY <1>1 DEF Range
<1>3. s \in [1 .. n -> Range(s)]
  BY <1>2
<1>4. s \in Seq(Range(s)) /\ Len(s) = n
  BY <1>3
<1> QED BY <1>1, <1>4 DEF Sequence

\* And the other way round.
LEMMA SequenceHas ==
    ASSUME NEW s, Sequence(s)
    PROVE  /\ Len(s) \in Nat /\ DOMAIN s = 1 .. Len(s)
           /\ s = [i \in 1 .. Len(s) |-> s[i]]
BY DEF Sequence

\* Two sequences end to end.
LEMMA Joined ==
    ASSUME NEW s, NEW t, Sequence(s), Sequence(t)
    PROVE  /\ Sequence(s \o t)
           /\ Len(s \o t) = Len(s) + Len(t)
           /\ Len(s) \in Nat /\ Len(t) \in Nat
           /\ \A i \in 1 .. Len(s) : (s \o t)[i] = s[i]
           /\ \A i \in 1 .. Len(t) : (s \o t)[Len(s) + i] = t[i]
<1> DEFINE S == Range(s) \cup Range(t)
<1>1. s \in Seq(S) /\ t \in Seq(S)
  BY DEF Sequence
<1>2. /\ s \o t \in Seq(S) /\ Len(s \o t) = Len(s) + Len(t)
      /\ Len(s) \in Nat /\ Len(t) \in Nat
  BY <1>1
<1>3. \A i \in 1 .. Len(s) + Len(t) :
          (s \o t)[i] = IF i <= Len(s) THEN s[i] ELSE t[i - Len(s)]
  BY <1>1
<1>4. \A i \in 1 .. Len(s) : (s \o t)[i] = s[i]
  BY <1>2, <1>3
<1>5. \A i \in 1 .. Len(t) : (s \o t)[Len(s) + i] = t[i]
  BY <1>2, <1>3
<1> DEFINE u == s \o t
<1> HIDE DEF S, u
<1>6. u \in Seq(S) => u = [i \in 1 .. Len(u) |-> u[i]] /\ Len(u) \in Nat
  OBVIOUS
<1>7. Sequence(s \o t)
  BY <1>2, <1>6, SequenceIs DEF u
<1> QED BY <1>2, <1>4, <1>5, <1>7

\* q goes through S in increasing order.
Lists(q, S) ==
    /\ Sequence(q)
    /\ \A i \in 1 .. Len(q) : q[i] \in Nat
    /\ \A i, j \in 1 .. Len(q) : i < j => q[i] < q[j]
    /\ S = {q[i] : i \in 1 .. Len(q)}

\* There is one way only.
LEMMA ListsBelow ==
    ASSUME NEW S, NEW q, NEW r, Lists(q, S), Lists(r, S)
    PROVE  \A i \in 1 .. Len(q) : i <= Len(r) /\ q[i] = r[i]
<1> DEFINE T == {n \in 0 .. Len(q) : \A i \in 1 .. n : i <= Len(r) /\ q[i] = r[i]}
<1>1. Len(q) \in Nat /\ Len(r) \in Nat
  BY SequenceHas DEF Lists
<1>2. 0 \in T
  BY <1>1
<1>3. ASSUME NEW n \in 1 .. Len(q), n - 1 \in T PROVE n \in T
  <2>1. \A i \in 1 .. n - 1 : i <= Len(r) /\ q[i] = r[i]
    BY <1>3
  <2>2. PICK k \in 1 .. Len(r) : r[k] = q[n]
    BY DEF Lists
  <2>3. ~(k < n)
    <3>1. SUFFICES ASSUME k < n PROVE FALSE
      OBVIOUS
    <3>2. q[k] = r[k] /\ k \in 1 .. Len(q)
      BY <3>1, <2>1, <2>2, <1>1
    <3>3. q[k] < q[n] /\ q[k] \in Nat /\ q[n] \in Nat
      BY <3>1, <3>2 DEF Lists
    <3> QED BY <3>2, <3>3, <2>2
  <2>4. n \in 1 .. Len(r)
    BY <2>2, <2>3, <1>1
  <2>5. PICK h \in 1 .. Len(q) : q[h] = r[n]
    BY <2>4 DEF Lists
  <2>6. ~(h < n)
    <3>1. SUFFICES ASSUME h < n PROVE FALSE
      OBVIOUS
    <3>2. q[h] = r[h] /\ h \in 1 .. Len(r)
      BY <3>1, <2>1, <2>5, <2>4, <1>1
    <3>3. r[h] < r[n] /\ r[h] \in Nat /\ r[n] \in Nat
      BY <3>1, <3>2, <2>4 DEF Lists
    <3> QED BY <3>2, <3>3, <2>5
  <2>7. q[n] = r[n]
    <3>1. q[n] \in Nat /\ r[n] \in Nat
      BY <2>4 DEF Lists
    <3>2. h = n \/ q[n] < q[h]
      BY <2>6 DEF Lists
    <3>3. k = n \/ r[n] < r[k]
      BY <2>3, <2>4 DEF Lists
    <3> QED BY <3>1, <3>2, <3>3, <2>2, <2>5
  <2>8. \A i \in 1 .. n : i = n \/ i \in 1 .. n - 1
    OBVIOUS
  <2> QED BY <2>1, <2>4, <2>7, <2>8
<1> HIDE DEF T
<1>4. \A n \in 0 .. Len(q) : n \in T
  BY <1>1, <1>2, <1>3, InductionUpTo
<1>5. Len(q) \in T
  BY <1>1, <1>4
<1> QED BY <1>5 DEF T

\* Two ways of going through a set in order are one.
LEMMA ListsSame ==
    ASSUME NEW S, NEW q, NEW r, Lists(q, S), Lists(r, S)
    PROVE  q = r
<1>1. /\ Len(q) \in Nat /\ q = [i \in 1 .. Len(q) |-> q[i]]
      /\ Len(r) \in Nat /\ r = [i \in 1 .. Len(r) |-> r[i]]
  BY SequenceHas DEF Lists
<1>2. \A i \in 1 .. Len(q) : i <= Len(r) /\ q[i] = r[i]
  BY ListsBelow
<1>3. \A i \in 1 .. Len(r) : i <= Len(q) /\ r[i] = q[i]
  BY ListsBelow
<1>4. Len(q) = Len(r)
  <2>1. Len(q) \in Nat /\ Len(r) \in Nat
    BY <1>1
  <2>2. Len(q) > 0 => Len(q) <= Len(r)
    BY <2>1, <1>2
  <2>3. Len(r) > 0 => Len(r) <= Len(q)
    BY <2>1, <1>3
  <2> QED BY <2>1, <2>2, <2>3
<1> QED BY <1>1, <1>2, <1>4

\* The numbers up to n are n.
LEMMA Counted ==
    ASSUME NEW n \in Nat
    PROVE  IsFiniteSet(1 .. n) /\ Cardinality(1 .. n) = n
<1>1. 1 \in Int /\ n \in Int
  OBVIOUS
<1>2. IsFiniteSet(1 .. n) /\ Cardinality(1 .. n) = IF 1 > n THEN 0 ELSE n - 1 + 1
  BY <1>1, FS_Interval, Zenon
<1>3. (IF 1 > n THEN 0 ELSE n - 1 + 1) = n
  OBVIOUS
<1> QED BY <1>2, <1>3

\* It has as many elements as the set.
LEMMA ListsCount ==
    ASSUME NEW S, NEW q, Lists(q, S)
    PROVE  IsFiniteSet(S) /\ Cardinality(S) = Len(q)
<1>1. Len(q) \in Nat /\ DOMAIN q = 1 .. Len(q)
  BY SequenceHas DEF Lists
<1>2. q \in [1 .. Len(q) -> S]
  BY SequenceHas DEF Lists
<1>3. \A i, j \in 1 .. Len(q) : q[i] = q[j] => i = j
  <2>1. TAKE i, j \in 1 .. Len(q)
  <2>2. q[i] \in Nat /\ q[j] \in Nat
    BY DEF Lists
  <2>3. i < j => q[i] < q[j]
    BY DEF Lists
  <2>4. j < i => q[j] < q[i]
    BY DEF Lists
  <2> QED BY <1>1, <2>2, <2>3, <2>4
<1>4. \A x \in S : \E i \in 1 .. Len(q) : q[i] = x
  BY DEF Lists
<1>5. q \in Bijection(1 .. Len(q), S)
  BY <1>1, <1>2, <1>3, <1>4 DEF Bijection, Injection, Surjection, IsInjective
<1>6. IsFiniteSet(1 .. Len(q)) /\ Cardinality(1 .. Len(q)) = Len(q)
  BY <1>1, Counted
<1>7. ExistsBijection(1 .. Len(q), S)
  BY <1>5 DEF ExistsBijection
<1> QED BY <1>6, <1>7, FS_SameCardinalityBij, FS_Bijection

\* InOrder finds it.
LEMMA ListsInOrder ==
    ASSUME NEW S, NEW q, Lists(q, S)
    PROVE  InOrder(S) = q
<1> DEFINE P(p) == /\ p \in [1 .. Cardinality(S) -> S]
                   /\ \A m, n \in DOMAIN p : m < n => p[m] < p[n]
<1>1. IsFiniteSet(S) /\ Cardinality(S) = Len(q) /\ S \subseteq Nat
  BY ListsCount DEF Lists
<1>2. /\ Len(q) \in Nat /\ DOMAIN q = 1 .. Len(q)
      /\ q = [i \in 1 .. Len(q) |-> q[i]]
  BY SequenceHas DEF Lists
<1>3. q \in [1 .. Cardinality(S) -> S]
  BY <1>1, <1>2 DEF Lists
<1>4. P(q)
  BY <1>1, <1>2, <1>3 DEF Lists
<1> DEFINE p == InOrder(S)
<1>5. P(p)
  BY <1>4 DEF InOrder
<1> HIDE DEF p
<1>6. /\ DOMAIN p = 1 .. Len(q) /\ p = [i \in 1 .. Len(q) |-> p[i]]
      /\ \A i \in 1 .. Len(q) : p[i] \in S /\ p[i] \in Nat
      /\ \A i, j \in 1 .. Len(q) : i < j => p[i] < p[j]
  BY <1>1, <1>5
<1>7. Sequence(p) /\ Len(p) = Len(q)
  BY <1>2, <1>6, SequenceIs
<1>8. \A i, j \in 1 .. Len(q) : p[i] = p[j] => i = j
  <2>1. TAKE i, j \in 1 .. Len(q)
  <2>2. p[i] \in Nat /\ p[j] \in Nat
    BY <1>6
  <2>3. i < j => p[i] < p[j]
    BY <1>6
  <2>4. j < i => p[j] < p[i]
    BY <1>6
  <2> QED BY <1>2, <2>2, <2>3, <2>4
<1>9. p \in Injection(1 .. Len(q), S)
  <2>1. p \in [1 .. Len(q) -> S]
    BY <1>1, <1>5
  <2> QED BY <2>1, <1>8, <1>6 DEF Injection, IsInjective
<1>10. IsFiniteSet(1 .. Len(q)) /\ Cardinality(1 .. Len(q)) = Len(q)
  BY <1>2, Counted
<1>11. p \in Surjection(1 .. Len(q), S)
  BY <1>1, <1>9, <1>10, FS_Injection
<1>12. S = {p[i] : i \in 1 .. Len(q)}
  BY <1>6, <1>11 DEF Surjection
<1>13. Lists(p, S)
  BY <1>6, <1>7, <1>12 DEF Lists
<1> QED BY <1>13, ListsSame DEF p

\* Nothing goes through the empty set.
LEMMA ListsNothing == Lists(<<>>, {})
BY DEF Lists, Sequence

\* One number goes through the set of it.
LEMMA ListsOne ==
    ASSUME NEW x \in Nat
    PROVE  Lists(<<x>>, {x})
<1> DEFINE q == <<x>>
<1>1. q = [i \in 1 .. 1 |-> q[i]] /\ q[1] = x
  OBVIOUS
<1> HIDE DEF q
<1>2. Sequence(q) /\ Len(q) = 1
  BY <1>1, SequenceIs
<1>3. \A i \in 1 .. 1 : i = 1
  OBVIOUS
<1>4. Lists(q, {x})
  BY <1>1, <1>2, <1>3 DEF Lists
<1> QED BY <1>4 DEF q

\* Where the elements of two joined sequences come from.
LEMMA JoinedElement ==
    ASSUME NEW s, NEW t, Sequence(s), Sequence(t), NEW i \in 1 .. Len(s \o t)
    PROVE  \/ i \in 1 .. Len(s) /\ (s \o t)[i] = s[i]
           \/ i - Len(s) \in 1 .. Len(t) /\ (s \o t)[i] = t[i - Len(s)]
<1>1. /\ Len(s) \in Nat /\ Len(t) \in Nat /\ Len(s \o t) = Len(s) + Len(t)
      /\ \A k \in 1 .. Len(s) : (s \o t)[k] = s[k]
      /\ \A k \in 1 .. Len(t) : (s \o t)[Len(s) + k] = t[k]
  BY Joined
<1>2. CASE i <= Len(s)
  BY <1>1, <1>2
<1>3. CASE ~(i <= Len(s))
  <2>1. i - Len(s) \in 1 .. Len(t) /\ Len(s) + (i - Len(s)) = i
    BY <1>1, <1>3
  <2> QED BY <1>1, <2>1
<1> QED BY <1>2, <1>3

\* Two lists, all of the one before all of the other, make a list of both.
LEMMA ListsJoined ==
    ASSUME NEW A, NEW B, NEW a, NEW b, Lists(a, A), Lists(b, B),
           \A x \in A, y \in B : x < y
    PROVE  Lists(a \o b, A \cup B)
<1> DEFINE u == a \o b
<1>1. /\ Sequence(u) /\ Len(a) \in Nat /\ Len(b) \in Nat /\ Len(u) = Len(a) + Len(b)
      /\ \A k \in 1 .. Len(a) : u[k] = a[k]
      /\ \A k \in 1 .. Len(b) : u[Len(a) + k] = b[k]
  BY Joined DEF Lists
<1>2. \A i \in 1 .. Len(u) : \/ i \in 1 .. Len(a) /\ u[i] = a[i]
                             \/ i - Len(a) \in 1 .. Len(b) /\ u[i] = b[i - Len(a)]
  BY JoinedElement DEF Lists
<1> HIDE DEF u
<1>3. \A i \in 1 .. Len(a) : a[i] \in A /\ a[i] \in Nat
  BY DEF Lists
<1>4. \A i \in 1 .. Len(b) : b[i] \in B /\ b[i] \in Nat
  BY DEF Lists
<1>5. \A i \in 1 .. Len(u) : u[i] \in Nat /\ u[i] \in A \cup B
  BY <1>2, <1>3, <1>4
<1>6. ASSUME NEW i \in 1 .. Len(u), NEW j \in 1 .. Len(u), i < j
      PROVE  u[i] < u[j]
  <2>1. CASE i \in 1 .. Len(a) /\ u[i] = a[i]
    <3>1. CASE j \in 1 .. Len(a) /\ u[j] = a[j]
      BY <1>6, <2>1, <3>1 DEF Lists
    <3>2. CASE j - Len(a) \in 1 .. Len(b) /\ u[j] = b[j - Len(a)]
      BY <1>3, <1>4, <2>1, <3>2
    <3> QED BY <1>2, <3>1, <3>2
  <2>2. CASE i - Len(a) \in 1 .. Len(b) /\ u[i] = b[i - Len(a)]
    <3>1. j - Len(a) \in 1 .. Len(b) /\ u[j] = b[j - Len(a)] /\ i - Len(a) < j - Len(a)
      BY <1>1, <1>2, <1>6, <2>2
    <3> QED BY <2>2, <3>1 DEF Lists
  <2> QED BY <1>2, <2>1, <2>2
<1>7. ASSUME NEW x \in A \cup B PROVE \E i \in 1 .. Len(u) : x = u[i]
  <2>1. CASE x \in A
    <3>1. PICK i \in 1 .. Len(a) : x = a[i]
      BY <2>1 DEF Lists
    <3>2. i \in 1 .. Len(u)
      BY <1>1
    <3> QED BY <1>1, <3>1, <3>2
  <2>2. CASE x \in B
    <3>1. PICK i \in 1 .. Len(b) : x = b[i]
      BY <2>2 DEF Lists
    <3>2. Len(a) + i \in 1 .. Len(u)
      BY <1>1
    <3> QED BY <1>1, <3>1, <3>2
  <2> QED BY <2>1, <2>2
<1>8. A \cup B = {u[i] : i \in 1 .. Len(u)}
  BY <1>5, <1>7
<1>9. Lists(u, A \cup B)
  BY <1>1, <1>5, <1>6, <1>8 DEF Lists
<1> QED BY <1>9 DEF u
-----------------------------------------------------------------------------
(* The rows of a file *)

\* One step of CharsAt, and the function it makes.
CharsStep(file, last, k) == IF k \in Kept(file) THEN Append(last, k) ELSE last
IsChars(file, n, f) ==
    f = [k \in 0 .. n |-> IF k = 0 THEN <<>> ELSE CharsStep(file, f[k - 1], k)]

\* Such a function exists for every length.
LEMMA CharsExist ==
    ASSUME NEW file
    PROVE  \A n \in Nat : \E f : IsChars(file, n, f)
<1> DEFINE S == {n \in Nat : \E f : IsChars(file, n, f)}
<1>1. 0 \in S
  <2> DEFINE f == [k \in 0 .. 0 |-> <<>>]
  <2>1. IsChars(file, 0, f)
    BY DEF IsChars
  <2> QED BY <2>1
<1>2. ASSUME NEW n \in Nat, n \in S PROVE n + 1 \in S
  <2>1. PICK f : IsChars(file, n, f)
    BY <1>2
  <2> DEFINE g == [k \in 0 .. n + 1 |-> IF k = n + 1 THEN CharsStep(file, f[n], n + 1) ELSE f[k]]
  <2>2. \A k \in 0 .. n : /\ g[k] = f[k]
                          /\ f[k] = IF k = 0 THEN <<>> ELSE CharsStep(file, f[k - 1], k)
    BY <2>1 DEF IsChars
  <2>3. DOMAIN g = 0 .. n + 1 /\ g[n + 1] = CharsStep(file, f[n], n + 1)
    OBVIOUS
  <2>4. g = [k \in 0 .. n + 1 |-> g[k]]
    OBVIOUS
  <2> HIDE DEF g
  <2>5. ASSUME NEW k \in 0 .. n + 1
        PROVE  g[k] = IF k = 0 THEN <<>> ELSE CharsStep(file, g[k - 1], k)
    <3>1. CASE k = n + 1
      BY <2>2, <2>3, <3>1
    <3>2. CASE k # n + 1
      BY <2>2, <3>2
    <3> QED BY <3>1, <3>2
  <2>6. IsChars(file, n + 1, g)
    BY <2>4, <2>5 DEF IsChars
  <2> QED BY <2>6
<1> HIDE DEF S
<1>3. \A n \in Nat : n \in S
  BY <1>1, <1>2, Induction
<1> QED
  BY <1>3 DEF S

\* CharsAt goes through the bytes that are kept.
LEMMA CharsList ==
    ASSUME NEW file, Sequence(file)
    PROVE  Lists(CharsAt(file), Kept(file)) /\ Kept(file) \subseteq 1 .. Len(file)
<1>1. Len(file) \in Nat /\ DOMAIN file = 1 .. Len(file)
  BY SequenceHas
<1>2. \E f : IsChars(file, Len(file), f)
  BY <1>1, CharsExist
<1> DEFINE at == CHOOSE f : IsChars(file, Len(file), f)
<1>3. IsChars(file, Len(file), at)
  BY <1>2
<1>4. CharsAt(file) = at[Len(file)]
  BY DEF IsChars, CharsStep, CharsAt
<1> HIDE DEF at
<1>5. /\ at[0] = <<>>
      /\ \A k \in 1 .. Len(file) : at[k] = CharsStep(file, at[k - 1], k)
  <2>1. \A k \in 0 .. Len(file) :
           at[k] = IF k = 0 THEN <<>> ELSE CharsStep(file, at[k - 1], k)
    BY <1>3 DEF IsChars
  <2> QED BY <1>1, <2>1
<1>6. Kept(file) \subseteq 1 .. Len(file)
  BY <1>1 DEF Kept
<1> DEFINE K == Kept(file)
           S == {k \in 0 .. Len(file) : Lists(at[k], K \cap (1 .. k))}
<1> HIDE DEF K
<1>7. 0 \in S
  <2>1. K \cap (1 .. 0) = {}
    OBVIOUS
  <2> QED BY <1>1, <1>5, <2>1, ListsNothing
<1>8. ASSUME NEW k \in 1 .. Len(file), k - 1 \in S PROVE k \in S
  <2>1. Lists(at[k - 1], K \cap (1 .. k - 1)) /\ at[k] = CharsStep(file, at[k - 1], k)
    BY <1>5, <1>8
  <2>2. k \in 0 .. Len(file)
    BY <1>1
  <2>3. CASE k \in K
    <3>1. at[k] = Append(at[k - 1], k)
      BY <2>1, <2>3 DEF CharsStep, K
    <3>2. Lists(at[k - 1] \o <<k>>, (K \cap (1 .. k - 1)) \cup {k})
      <4>1. Lists(<<k>>, {k})
        BY ListsOne
      <4>2. \A x \in K \cap (1 .. k - 1), y \in {k} : x < y
        OBVIOUS
      <4> QED BY <2>1, <4>1, <4>2, ListsJoined
    <3>3. (K \cap (1 .. k - 1)) \cup {k} = K \cap (1 .. k)
      BY <2>3
    <3>4. at[k - 1] \o <<k>> = Append(at[k - 1], k)
      <4> DEFINE x == at[k - 1]
      <4>1. Sequence(x)
        BY <2>1 DEF Lists
      <4> HIDE DEF x
      <4>2. x \in Seq(Range(x) \cup {k}) /\ k \in Range(x) \cup {k}
        BY <4>1 DEF Sequence
      <4> HIDE DEF Range
      <4>3. x \o <<k>> = Append(x, k)
        BY <4>2
      <4> QED BY <4>3 DEF x
    <3>5. Lists(at[k], K \cap (1 .. k))
      BY <3>1, <3>2, <3>3, <3>4, Zenon
    <3> QED BY <3>5, <2>2 DEF S
  <2>4. CASE k \notin K
    <3>1. at[k] = at[k - 1]
      BY <2>1, <2>4 DEF CharsStep, K
    <3>2. K \cap (1 .. k - 1) = K \cap (1 .. k)
      BY <2>4
    <3>3. Lists(at[k], K \cap (1 .. k))
      BY <2>1, <3>1, <3>2, Zenon
    <3> QED BY <3>3, <2>2 DEF S
  <2> QED BY <2>3, <2>4
<1> HIDE DEF S
<1>9. \A k \in 0 .. Len(file) : k \in S
  BY <1>1, <1>7, <1>8, InductionUpTo
<1>10. Lists(at[Len(file)], K \cap (1 .. Len(file)))
  <2>1. Len(file) \in 0 .. Len(file)
    BY <1>1
  <2>2. Len(file) \in S
    BY <1>9, <2>1, Zenon
  <2>3. \A k \in S : Lists(at[k], K \cap (1 .. k))
    BY Zenon DEF S
  <2> QED BY <2>2, <2>3, Zenon
<1>11. K \cap (1 .. Len(file)) = K
  BY <1>6 DEF K
<1> QED BY <1>4, <1>6, <1>10, <1>11 DEF K

\* Some number of them, from the first, go through those up to the last.
LEMMA ListsUpTo ==
    ASSUME NEW S, NEW q, Lists(q, S), NEW n \in 1 .. Len(q)
    PROVE  /\ IsFiniteSet({x \in S : x <= q[n]})
           /\ Cardinality({x \in S : x <= q[n]}) = n
<1> DEFINE p == [i \in 1 .. n |-> q[i]]
           R == {x \in S : x <= q[n]}
<1>1. Len(q) \in Nat /\ n \in Nat
  BY SequenceHas DEF Lists
<1>2. Sequence(p) /\ Len(p) = n /\ \A i \in 1 .. n : p[i] = q[i]
  <2>1. p = [i \in 1 .. n |-> p[i]] /\ \A i \in 1 .. n : p[i] = q[i]
    OBVIOUS
  <2> HIDE DEF p
  <2> QED BY <1>1, <2>1, SequenceIs
<1> HIDE DEF p
<1>3. \A i \in 1 .. n : i \in 1 .. Len(q)
  BY <1>1
<1>4. \A i \in 1 .. n : p[i] \in Nat
  BY <1>2, <1>3 DEF Lists
<1>5. \A i, j \in 1 .. n : i < j => p[i] < p[j]
  BY <1>2, <1>3 DEF Lists
<1>6. ASSUME NEW x \in R PROVE \E i \in 1 .. n : x = p[i]
  <2>1. PICK i \in 1 .. Len(q) : x = q[i]
    BY DEF Lists
  <2>2. ~(n < i)
    <3>1. q[i] \in Nat /\ q[n] \in Nat /\ (n < i => q[n] < q[i])
      BY DEF Lists
    <3> QED BY <2>1, <3>1
  <2> QED BY <1>1, <1>2, <2>1, <2>2
<1>7. ASSUME NEW i \in 1 .. n PROVE p[i] \in R
  <2>1. q[i] \in S /\ q[i] \in Nat /\ q[n] \in Nat /\ (i < n => q[i] < q[n])
    BY <1>3 DEF Lists
  <2>2. q[i] <= q[n]
    BY <1>1, <2>1
  <2> QED BY <1>2, <2>1, <2>2
<1>8. R = {p[i] : i \in 1 .. n}
  BY <1>6, <1>7
<1>9. Lists(p, R)
  BY <1>2, <1>4, <1>5, <1>8 DEF Lists
<1> QED BY <1>2, <1>9, ListsCount

\* A character stands as far behind its place in the text as bytes were dropped
\* before it.
LEMMA CharsShift ==
    ASSUME NEW file, Sequence(file), NEW n \in 1 .. Len(CharsAt(file))
    PROVE  LET at == CharsAt(file)
           IN  at[n] = n + Cardinality({k \in 1 .. at[n] : k \notin Kept(file)})
<1> DEFINE q == CharsAt(file)
           K == Kept(file)
           p == q[n]
           A == {x \in K : x <= p}
           B == {k \in 1 .. p : k \notin K}
<1>1. Lists(q, K) /\ K \subseteq 1 .. Len(file) /\ Len(file) \in Nat
  BY CharsList, SequenceHas
<1>2. p \in Nat /\ n \in Nat
  BY <1>1, SequenceHas DEF Lists
<1>3. IsFiniteSet(A) /\ Cardinality(A) = n
  BY <1>1, ListsUpTo
<1> HIDE DEF q, K, p
<1>4. A \cup B = 1 .. p /\ A \cap B = {} /\ B \subseteq 1 .. p
  <2>1. \A x \in K : x \in Nat /\ x >= 1
    BY <1>1
  <2>2. ASSUME NEW x \in A PROVE x \in 1 .. p /\ x \notin B
    BY <1>2, <2>1
  <2>3. ASSUME NEW x \in 1 .. p PROVE x \in A \/ x \in B
    BY <1>2
  <2>4. B \subseteq 1 .. p
    OBVIOUS
  <2> HIDE DEF A, B
  <2> QED BY <2>2, <2>3, <2>4
<1>5. IsFiniteSet(1 .. p) /\ Cardinality(1 .. p) = p
  BY <1>2, Counted
<1>6. IsFiniteSet(B)
  BY <1>4, <1>5, FS_Subset
<1>7. Cardinality(A \cup B) = Cardinality(A) + Cardinality(B) - Cardinality(A \cap B)
  BY <1>3, <1>6, FS_Union
<1>8. Cardinality({}) = 0
  BY FS_EmptySet
<1>9. Cardinality(B) \in Nat
  BY <1>6, FS_CardinalityType
<1> HIDE DEF A, B
<1>10. p = n + Cardinality(B) - 0
  BY <1>3, <1>4, <1>5, <1>7, <1>8, Zenon
<1>11. \A x, y \in Nat : x + y - 0 = x + y
  OBVIOUS
<1>12. p = n + Cardinality(B)
  BY <1>2, <1>9, <1>10, <1>11, Zenon
<1> QED BY <1>12 DEF q, K, p, B

\* What is read of a file is a text.
LEMMA TextIs ==
    ASSUME NEW file, Sequence(file)
    PROVE  LET at == CharsAt(file)
               text == ReadText(file)
           IN  /\ Len(text) = Len(at) /\ Len(text) \in Nat /\ DOMAIN text = 1 .. Len(text)
               /\ \A n \in 1 .. Len(text) : text[n] = "name" => file[at[n]] = "name"
<1> DEFINE at == CharsAt(file)
           text == ReadText(file)
<1>1. Len(at) \in Nat /\ DOMAIN at = 1 .. Len(at)
  BY CharsList, SequenceHas DEF Lists
<1>2. text = [n \in DOMAIN at |-> IF file[at[n]] = "cr" THEN "nl" ELSE file[at[n]]]
  BY DEF ReadText
<1> HIDE DEF at, text
<1>3. text = [n \in 1 .. Len(at) |-> text[n]]
  BY <1>1, <1>2
<1>4. Len(text) = Len(at) /\ DOMAIN text = 1 .. Len(at)
  BY <1>1, <1>3, SequenceIs
<1>5. \A n \in 1 .. Len(at) : text[n] = "name" => file[at[n]] = "name"
  BY <1>1, <1>2
<1> QED BY <1>1, <1>4, <1>5 DEF at, text

\* A row is reported at a name of the text.
LEMMA RowAtName ==
    ASSUME NEW t, Len(t) \in Nat, DOMAIN t = 1 .. Len(t), NEW row \in ParseHText(t).entries
    PROVE  row.at \in 1 .. Len(t) /\ t[row.at] = "name"
<1> DEFINE x == StripLineComments(t)
           s == StripComments(t)
<1>1. DOMAIN x = 1 .. Len(t)
  BY StrippedLength
<1>2. \A k \in 1 .. Len(t) : x[k] = t[k] \/ x[k] = " "
  BY DEF StripLineComments
<1>3. s = StripBlockComments(x)
  BY DEF StripComments
<1> HIDE DEF x, s
<1>4. DOMAIN s = 1 .. Len(t) /\ \A k \in 1 .. Len(t) : s[k] = x[k] \/ s[k] = " "
  BY <1>1, <1>3 DEF StripBlockComments
<1>5. ParseHText(t) = ParseRows(s)
  BY DEF ParseHText, s
<1>6. \E k \in Names(s) : row.at = k
  <2> DEFINE end == Matches(s, "array", "end")
             Slotted(k) == RowSlots(s, k, end[k])
             Bad == \E k \in Names(s) : Cardinality(Slotted(k)) < Slots
             Rows == {[at |-> k, nonzero |-> {j \in Slotted(k) : NonZero(s, j)}] : k \in Names(s)}
  <2>1. ParseRows(s) = IF Bad THEN [error |-> TRUE, entries |-> {}]
                       ELSE [error |-> FALSE, entries |-> Rows]
    BY DEF ParseRows
  <2> HIDE DEF Bad
  <2>2. row \in Rows
    <3> HIDE DEF Rows
    <3> QED BY <1>5, <2>1
  <2>3. PICK k \in Names(s) : row = [at |-> k, nonzero |-> {j \in Slotted(k) : NonZero(s, j)}]
    BY <2>2
  <2> HIDE DEF Slotted
  <2> QED BY <2>3
<1>7. \A k \in Names(s) : k \in DOMAIN s /\ s[k] = "name"
  BY DEF Names
<1> QED BY <1>2, <1>4, <1>6, <1>7

\* Every header that is there is a text.
HeadersText == \A n \in DOMAIN headers : headers[n] = Gone \/ Sequence(headers[n])

\* The tools read the headers, and an editor saves texts.
LEMMA HeadersStay == Spec => []HeadersText
<1>1. Init => HeadersText
  <2>1. SUFFICES ASSUME Init PROVE HeadersText
    OBVIOUS
  <2>2. PICK s \in Scenes : headers = s.headers
    BY <2>1 DEF Init
  <2>3. \A n \in DOMAIN headers : headers[n] \in Range(s.headers)
    BY <2>2 DEF Range
  <2> QED BY <2>3, TextsAssumption DEF HeadersText
<1>2. HeadersText /\ [Next]_vars => HeadersText'
  <2>1. SUFFICES ASSUME HeadersText, [Next]_vars PROVE HeadersText'
    OBVIOUS
  <2>2. CASE UNCHANGED headers
    BY <2>1, <2>2 DEF HeadersText
  <2>3. CASE EditHeader
    <3>1. PICK f \in DOMAIN headers, d \in HDrafts \cup {Gone} :
              headers' = [headers EXCEPT ![f] = d]
      BY <2>3 DEF EditHeader
    <3>2. d = Gone \/ Sequence(d)
      BY TextsAssumption
    <3>3. DOMAIN headers' = DOMAIN headers
          /\ \A n \in DOMAIN headers : headers'[n] = d \/ headers'[n] = headers[n]
      BY <3>1
    <3> QED BY <2>1, <3>2, <3>3 DEF HeadersText
  <2>4. CASE ~EditHeader
    <3>1. UNCHANGED headers
      BY <2>1, <2>4 DEF Next, vars, corpus, ReadDocuments, List, Hash, Count, Load, Merge, Open,
           Write, Die, ParseHFile, HashHFile, StatHFile, EditPar, RecordFixtures
    <3> QED BY <3>1, <2>2
  <2> QED BY <2>3, <2>4
<1> QED BY <1>1, <1>2, PTL DEF Spec

\* RowsExact: the reader of the dispatch tables (yonishi_dispatch.py) finds in
\* the decoded text of a file the rows that C sees, at their places in that text,
\* where each block comment has an end and none closes on a line behind a `//`;
\* and in any file a row stands behind the place it is reported at by the CRs
\* before LFs and the further bytes of characters before it: for files of any
\* length, with marks wherever they stand.
THEOREM RowsAreExact == Spec => []RowsExact
<1>1. HeadersText => RowsExact
  <2>1. SUFFICES ASSUME HeadersText, NEW n \in DOMAIN headers, headers[n] # Gone
                 PROVE  LET file == headers[n]
                            text == ReadText(file)
                            at == CharsAt(file)
                        IN  /\ Tame(text) => ParseHText(text) = ParseRows(CText(text))
                            /\ \A row \in ParseHText(text).entries :
                                  /\ file[at[row.at]] = "name"
                                  /\ at[row.at] = row.at +
                                        Cardinality({k \in 1 .. at[row.at] : k \notin Kept(file)})
    BY DEF RowsExact
  <2> DEFINE file == headers[n]
             text == ReadText(file)
             at == CharsAt(file)
  <2>2. Sequence(file)
    BY <2>1 DEF HeadersText
  <2> HIDE DEF file
  <2>3. /\ Len(text) = Len(at) /\ Len(text) \in Nat /\ DOMAIN text = 1 .. Len(text)
        /\ \A i \in 1 .. Len(text) : text[i] = "name" => file[at[i]] = "name"
    BY <2>2, TextIs
  <2>4. \A i \in 1 .. Len(at) : at[i] = i + Cardinality({k \in 1 .. at[i] : k \notin Kept(file)})
    BY <2>2, CharsShift
  <2> HIDE DEF text, at
  <2>5. Tame(text) => ParseHText(text) = ParseRows(CText(text))
    BY <2>3, CommentsExact DEF ParseHText
  <2>6. ASSUME NEW row \in ParseHText(text).entries
        PROVE  /\ file[at[row.at]] = "name"
               /\ at[row.at] =
                     row.at + Cardinality({k \in 1 .. at[row.at] : k \notin Kept(file)})
    <3>1. row.at \in 1 .. Len(text) /\ text[row.at] = "name"
      BY <2>3, RowAtName
    <3> QED BY <2>3, <2>4, <3>1
  <2> QED BY <2>5, <2>6 DEF file, text, at
<1> QED BY <1>1, HeadersStay, PTL
-----------------------------------------------------------------------------
(* Sums *)

\* The function that SumFunctionOnSet chooses, and the same for small sets.
IsSum(f, S, g) ==
    g = [s \in SUBSET S |-> IF s = {} THEN 0
                            ELSE f[CHOOSE x \in s : TRUE] + g[s \ {CHOOSE x \in s : TRUE}]]
Small(S, c) == {s \in SUBSET S : Cardinality(s) <= c}
IsSumTo(f, S, c, g) ==
    g = [s \in Small(S, c) |->
            IF s = {} THEN 0
            ELSE f[CHOOSE x \in s : TRUE] + g[s \ {CHOOSE x \in s : TRUE}]]

\* Without one of its elements a set is one smaller.
LEMMA OneLess ==
    ASSUME NEW S, IsFiniteSet(S), NEW x \in S
    PROVE  /\ IsFiniteSet(S \ {x})
           /\ Cardinality(S) \in Nat /\ Cardinality(S \ {x}) \in Nat
           /\ Cardinality(S \ {x}) = Cardinality(S) - 1
<1>1. IsFiniteSet(S \ {x}) /\ Cardinality(S \ {x}) = Cardinality(S) - 1
  BY FS_RemoveElement
<1>2. Cardinality(S) \in Nat /\ Cardinality(S \ {x}) \in Nat
  BY <1>1, FS_CardinalityType
<1> QED BY <1>1, <1>2

\* The second function exists for every bound on the size.
LEMMA SumToExists ==
    ASSUME NEW f, NEW S, IsFiniteSet(S)
    PROVE  \A c \in Nat : \E g : IsSumTo(f, S, c, g)
<1> DEFINE N == {c \in Nat : \E g : IsSumTo(f, S, c, g)}
<1>1. \A s \in SUBSET S : IsFiniteSet(s) /\ Cardinality(s) \in Nat
  BY FS_Subset, FS_CardinalityType
<1>2. 0 \in N
  <2> DEFINE g == [s \in Small(S, 0) |-> 0]
  <2>1. \A s \in Small(S, 0) : s = {}
    <3>1. TAKE s \in Small(S, 0)
    <3>2. IsFiniteSet(s) /\ Cardinality(s) = 0
      BY <1>1 DEF Small
    <3> QED BY <3>2, FS_EmptySet
  <2>2. IsSumTo(f, S, 0, g)
    BY <2>1 DEF IsSumTo
  <2> QED BY <2>2
<1>3. ASSUME NEW c \in Nat, c \in N PROVE c + 1 \in N
  <2>1. PICK g : IsSumTo(f, S, c, g)
    BY <1>3
  <2> DEFINE any(s) == CHOOSE x \in s : TRUE
             h == [s \in Small(S, c + 1) |->
                     IF s = {} THEN 0 ELSE f[any(s)] + g[s \ {any(s)}]]
  <2>2. \A s \in Small(S, c) : h[s] = g[s]
    <3>1. TAKE s \in Small(S, c)
    <3>2. s \in Small(S, c + 1)
      BY <1>1 DEF Small
    <3>3. g[s] = IF s = {} THEN 0 ELSE f[any(s)] + g[s \ {any(s)}]
      BY <2>1 DEF IsSumTo
    <3> QED BY <3>2, <3>3
  <2>3. ASSUME NEW s \in Small(S, c + 1), s # {} PROVE s \ {any(s)} \in Small(S, c)
    <3>1. any(s) \in s
      BY <2>3
    <3>2. s \in SUBSET S /\ IsFiniteSet(s) /\ Cardinality(s) <= c + 1
      BY <1>1 DEF Small
    <3> HIDE DEF any
    <3>3. /\ Cardinality(s) \in Nat /\ Cardinality(s \ {any(s)}) \in Nat
          /\ Cardinality(s \ {any(s)}) = Cardinality(s) - 1
      BY <3>1, <3>2, OneLess
    <3>4. Cardinality(s \ {any(s)}) <= c
      BY <3>2, <3>3
    <3> QED BY <3>2, <3>4 DEF Small
  <2>4. h = [s \in Small(S, c + 1) |->
               IF s = {} THEN 0 ELSE f[any(s)] + h[s \ {any(s)}]]
    BY <2>2, <2>3
  <2> HIDE DEF h
  <2>5. IsSumTo(f, S, c + 1, h)
    BY <2>4 DEF IsSumTo
  <2> QED BY <2>5
<1> HIDE DEF N
<1>4. \A c \in Nat : c \in N
  BY <1>2, <1>3, Induction
<1> QED BY <1>4 DEF N

\* So the first one exists.
LEMMA SumExists ==
    ASSUME NEW f, NEW S, IsFiniteSet(S)
    PROVE  \E g : IsSum(f, S, g)
<1> DEFINE c == Cardinality(S)
<1>1. c \in Nat
  BY FS_CardinalityType
<1>2. \A s \in SUBSET S : Cardinality(s) <= c
  BY FS_Subset
<1>3. Small(S, c) = SUBSET S
  BY <1>2 DEF Small
<1>4. PICK g : IsSumTo(f, S, c, g)
  BY <1>1, SumToExists
<1> QED BY <1>3, <1>4 DEF IsSum, IsSumTo

\* It is what SumFunctionOnSet looks at.
LEMMA SumIs ==
    ASSUME NEW f, NEW S, IsFiniteSet(S)
    PROVE  \E g : IsSum(f, S, g) /\ SumFunctionOnSet(f, S) = g[S]
<1> DEFINE g == CHOOSE g : IsSum(f, S, g)
<1>1. IsSum(f, S, g)
  BY SumExists
<1>2. SumFunctionOnSet(f, S) = g[S]
  BY DEF IsSum, SumFunctionOnSet, FoldFunctionOnSet, MapThenFoldSet
<1> HIDE DEF g
<1> QED BY <1>1, <1>2

\* Two such functions agree.
LEMMA SumsAgree ==
    ASSUME NEW f, NEW S, NEW T, T \subseteq S, IsFiniteSet(T),
           NEW g, NEW h, IsSum(f, S, g), IsSum(f, T, h)
    PROVE  g[T] = h[T]
<1> DEFINE N == {c \in Nat : \A s \in Small(T, c) : g[s] = h[s]}
           any(s) == CHOOSE x \in s : TRUE
<1>1. \A s \in SUBSET T : IsFiniteSet(s) /\ Cardinality(s) \in Nat
  BY FS_Subset, FS_CardinalityType
<1>2. \A s \in SUBSET T :
          /\ g[s] = IF s = {} THEN 0 ELSE f[any(s)] + g[s \ {any(s)}]
          /\ h[s] = IF s = {} THEN 0 ELSE f[any(s)] + h[s \ {any(s)}]
  BY DEF IsSum
<1>3. 0 \in N
  <2>1. \A s \in Small(T, 0) : s = {}
    <3>1. TAKE s \in Small(T, 0)
    <3>2. IsFiniteSet(s) /\ Cardinality(s) = 0
      BY <1>1 DEF Small
    <3> QED BY <3>2, FS_EmptySet
  <2>2. g[{}] = 0 /\ h[{}] = 0
    BY <1>2
  <2> QED BY <2>1, <2>2
<1>4. ASSUME NEW c \in Nat, c \in N PROVE c + 1 \in N
  <2>1. SUFFICES ASSUME NEW s \in Small(T, c + 1) PROVE g[s] = h[s]
    OBVIOUS
  <2>2. s \in SUBSET T /\ IsFiniteSet(s) /\ Cardinality(s) <= c + 1
    BY <1>1 DEF Small
  <2>3. CASE s = {}
    BY <1>2, <2>3
  <2>4. CASE s # {}
    <3>1. any(s) \in s
      BY <2>4
    <3>2. g[s] = f[any(s)] + g[s \ {any(s)}] /\ h[s] = f[any(s)] + h[s \ {any(s)}]
      BY <1>2, <2>2, <2>4
    <3> HIDE DEF any
    <3>3. /\ Cardinality(s) \in Nat /\ Cardinality(s \ {any(s)}) \in Nat
          /\ Cardinality(s \ {any(s)}) = Cardinality(s) - 1
      BY <3>1, <2>2, OneLess
    <3>4. Cardinality(s \ {any(s)}) <= c
      BY <2>2, <3>3
    <3>5. s \ {any(s)} \in Small(T, c)
      BY <2>2, <3>4 DEF Small
    <3>6. g[s \ {any(s)}] = h[s \ {any(s)}]
      BY <1>4, <3>5
    <3> QED BY <3>2, <3>6
  <2> QED BY <2>3, <2>4
<1> HIDE DEF N
<1>5. Cardinality(T) \in N
  BY <1>1, <1>3, <1>4, Induction
<1>6. T \in Small(T, Cardinality(T))
  BY <1>1 DEF Small
<1> QED BY <1>5, <1>6 DEF N

\* The sum over nothing.
LEMMA SumNothing ==
    ASSUME NEW f
    PROVE  SumFunctionOnSet(f, {}) = 0
<1>1. IsFiniteSet({})
  BY FS_EmptySet
<1>2. PICK g : IsSum(f, {}, g) /\ SumFunctionOnSet(f, {}) = g[{}]
  BY <1>1, SumIs
<1> QED BY <1>2 DEF IsSum

\* A sum begins with some element.
LEMMA SumFirst ==
    ASSUME NEW f, NEW S, IsFiniteSet(S), S # {}
    PROVE  \E x \in S : SumFunctionOnSet(f, S) = f[x] + SumFunctionOnSet(f, S \ {x})
<1>1. PICK g : IsSum(f, S, g) /\ SumFunctionOnSet(f, S) = g[S]
  BY SumIs
<1> DEFINE x == CHOOSE x \in S : TRUE
<1>2. x \in S
  OBVIOUS
<1>3. g[S] = f[x] + g[S \ {x}]
  BY <1>1 DEF IsSum
<1> HIDE DEF x
<1>4. IsFiniteSet(S \ {x})
  BY <1>2, OneLess
<1>5. PICK h : IsSum(f, S \ {x}, h) /\ SumFunctionOnSet(f, S \ {x}) = h[S \ {x}]
  BY <1>4, SumIs
<1>6. g[S \ {x}] = h[S \ {x}]
  BY <1>1, <1>4, <1>5, SumsAgree
<1> QED BY <1>1, <1>2, <1>3, <1>5, <1>6

\* Numbers have a number as their sum, and it may begin with any of them.
LEMMA SumAny ==
    ASSUME NEW f, NEW S, IsFiniteSet(S), \A x \in S : f[x] \in Nat
    PROVE  /\ SumFunctionOnSet(f, S) \in Nat
           /\ \A y \in S : SumFunctionOnSet(f, S) = f[y] + SumFunctionOnSet(f, S \ {y})
<1> DEFINE sum(s) == SumFunctionOnSet(f, s)
           N == {c \in Nat : \A s \in Small(S, c) :
                    sum(s) \in Nat /\ \A y \in s : sum(s) = f[y] + sum(s \ {y})}
<1>1. \A s \in SUBSET S : IsFiniteSet(s) /\ Cardinality(s) \in Nat
  BY FS_Subset, FS_CardinalityType
<1>2. sum({}) = 0
  BY SumNothing
<1>3. \A s \in SUBSET S : s # {} => \E x \in s : sum(s) = f[x] + sum(s \ {x})
  BY <1>1, SumFirst
<1> HIDE DEF sum
<1>4. 0 \in N
  <2>1. \A s \in Small(S, 0) : s = {}
    <3>1. TAKE s \in Small(S, 0)
    <3>2. IsFiniteSet(s) /\ Cardinality(s) = 0
      BY <1>1 DEF Small
    <3> QED BY <3>2, FS_EmptySet
  <2>2. ASSUME NEW s \in Small(S, 0)
        PROVE  sum(s) \in Nat /\ \A y \in s : sum(s) = f[y] + sum(s \ {y})
    <3>1. s = {}
      BY <2>1
    <3>2. sum(s) = 0
      BY <1>2, <3>1
    <3> QED BY <3>1, <3>2
  <2> QED BY <2>2
<1>5. ASSUME NEW c \in Nat, c \in N PROVE c + 1 \in N
  <2>1. ASSUME NEW s \in Small(S, c + 1), NEW y \in s
        PROVE  s \ {y} \in Small(S, c) /\ s \in SUBSET S
    <3>1. s \in SUBSET S /\ IsFiniteSet(s) /\ Cardinality(s) <= c + 1
      BY <1>1 DEF Small
    <3>2. /\ Cardinality(s) \in Nat /\ Cardinality(s \ {y}) \in Nat
          /\ Cardinality(s \ {y}) = Cardinality(s) - 1
      BY <2>1, <3>1, OneLess
    <3>3. Cardinality(s \ {y}) <= c
      BY <3>1, <3>2
    <3> QED BY <3>1, <3>3 DEF Small
  <2>2. ASSUME NEW s \in Small(S, c)
        PROVE  sum(s) \in Nat /\ \A y \in s : sum(s) = f[y] + sum(s \ {y})
    BY <1>5, <2>2
  <2>3. ASSUME NEW s \in Small(S, c + 1), NEW y \in s
        PROVE  sum(s) \in Nat /\ sum(s) = f[y] + sum(s \ {y})
    <3>1. PICK x \in s : sum(s) = f[x] + sum(s \ {x})
      BY <1>3, <2>1, <2>3
    <3>2. f[x] \in Nat /\ f[y] \in Nat /\ sum(s \ {x}) \in Nat /\ sum(s \ {y}) \in Nat
      BY <2>1, <2>2, <2>3
    <3>3. CASE x = y
      BY <3>1, <3>2, <3>3
    <3>4. CASE x # y
      <4>1. y \in s \ {x} /\ x \in s \ {y} /\ (s \ {x}) \ {y} = (s \ {y}) \ {x}
        BY <2>3, <3>4
      <4>2. sum(s \ {x}) = f[y] + sum((s \ {x}) \ {y})
        BY <2>1, <2>2, <2>3, <4>1
      <4>3. sum(s \ {y}) = f[x] + sum((s \ {y}) \ {x})
        BY <2>1, <2>2, <2>3, <4>1
      <4>4. (s \ {x}) \ {y} \in Small(S, c) /\ s \ {x} \in Small(S, c + 1)
        <5>1. s \ {x} \in Small(S, c)
          BY <2>1
        <5>2. s \ {x} \in Small(S, c + 1)
          BY <1>1, <5>1 DEF Small
        <5> QED BY <2>1, <4>1, <5>2
      <4>5. sum((s \ {x}) \ {y}) \in Nat
        BY <2>2, <4>4
      <4>6. sum((s \ {y}) \ {x}) = sum((s \ {x}) \ {y})
        BY <4>1
      <4>7. sum(s) = f[x] + (f[y] + sum((s \ {x}) \ {y}))
        BY <3>1, <4>2
      <4>8. sum(s \ {y}) = f[x] + sum((s \ {x}) \ {y})
        BY <4>3, <4>6
      <4>9. f[x] + (f[y] + sum((s \ {x}) \ {y})) = f[y] + (f[x] + sum((s \ {x}) \ {y}))
        BY <3>2, <4>5
      <4>10. sum(s) = f[y] + sum(s \ {y})
        BY <4>7, <4>8, <4>9
      <4>11. f[x] + (f[y] + sum((s \ {x}) \ {y})) \in Nat
        BY <3>2, <4>5
      <4> QED BY <4>7, <4>10, <4>11
    <3> QED BY <3>3, <3>4
  <2>4. ASSUME NEW s \in Small(S, c + 1) PROVE sum(s) \in Nat
    <3>1. CASE s = {}
      BY <1>2, <3>1
    <3>2. CASE s # {}
      BY <2>3, <3>2
    <3> QED BY <3>1, <3>2
  <2> QED BY <2>3, <2>4
<1> HIDE DEF N
<1>6. Cardinality(S) \in N
  BY <1>1, <1>4, <1>5, Induction
<1>7. S \in Small(S, Cardinality(S))
  BY <1>1 DEF Small
<1>8. sum(S) \in Nat /\ \A y \in S : sum(S) = f[y] + sum(S \ {y})
  BY <1>6, <1>7 DEF N
<1> QED BY <1>8 DEF sum

\* The sum over the numbers from m on, one further.
LEMMA SumNext ==
    ASSUME NEW f, NEW m \in Nat, NEW n \in Nat, m <= n + 1,
           \A x \in m .. n + 1 : f[x] \in Nat
    PROVE  /\ SumFunctionOnSet(f, m .. n) \in Nat
           /\ SumFunctionOnSet(f, m .. n + 1) = SumFunctionOnSet(f, m .. n) + f[n + 1]
<1> DEFINE S == m .. n + 1
<1>1. IsFiniteSet(S) /\ IsFiniteSet(m .. n)
  <2>1. m \in Int /\ n \in Int /\ n + 1 \in Int
    OBVIOUS
  <2> QED BY <2>1, FS_Interval, Zenon
<1>2. n + 1 \in S /\ S \ {n + 1} = m .. n
  OBVIOUS
<1>3. \A x \in m .. n : f[x] \in Nat
  OBVIOUS
<1>4. SumFunctionOnSet(f, m .. n) \in Nat
  BY <1>1, <1>3, SumAny
<1>5. \A x \in S : f[x] \in Nat
  OBVIOUS
<1> HIDE DEF S
<1>6. \A y \in S : SumFunctionOnSet(f, S) = f[y] + SumFunctionOnSet(f, S \ {y})
  BY <1>1, <1>5, SumAny
<1>7. SumFunctionOnSet(f, S) = f[n + 1] + SumFunctionOnSet(f, m .. n)
  BY <1>2, <1>6
<1>8. f[n + 1] \in Nat
  BY <1>2, <1>5
<1>9. SumFunctionOnSet(f, S) = SumFunctionOnSet(f, m .. n) + f[n + 1]
  BY <1>4, <1>7, <1>8
<1> QED BY <1>4, <1>9 DEF S
-----------------------------------------------------------------------------
(* The blocks of parse_par *)

\* The least of some numbers.
LEMMA LeastIs ==
    ASSUME NEW S, S \subseteq Nat, S # {}
    PROVE  Min(S) \in S /\ \A y \in S : Min(S) <= y
<1>1. \E x \in S : \A y \in S : x <= y
  <2>1. PICK x \in S : \A y \in S : ~(<<y, x>> \in OpToRel(<, Nat))
    BY NatLessThanWellFounded, WFMin
  <2>2. \A y \in S : ~(y < x)
    BY <2>1 DEF OpToRel
  <2>3. \A y \in S : x <= y
    BY <2>2
  <2> QED BY <2>3
<1> QED BY <1>1 DEF Min

\* Each set of lines can be gone through in order.
LEMMA ListsExist ==
    ASSUME NEW n \in Nat, NEW S \in SUBSET (1 .. n)
    PROVE  \E q : Lists(q, S)
<1> DEFINE N == {m \in Nat : \E q : Lists(q, S \cap (1 .. m))}
<1>1. 0 \in N
  <2>1. S \cap (1 .. 0) = {}
    OBVIOUS
  <2> QED BY <2>1, ListsNothing
<1>2. ASSUME NEW m \in Nat, m \in N PROVE m + 1 \in N
  <2>1. PICK q : Lists(q, S \cap (1 .. m))
    BY <1>2
  <2>2. CASE m + 1 \in S
    <3>1. Lists(<<m + 1>>, {m + 1})
      BY ListsOne
    <3>2. \A x \in S \cap (1 .. m), y \in {m + 1} : x < y
      OBVIOUS
    <3>3. Lists(q \o <<m + 1>>, (S \cap (1 .. m)) \cup {m + 1})
      BY <2>1, <3>1, <3>2, ListsJoined
    <3>4. (S \cap (1 .. m)) \cup {m + 1} = S \cap (1 .. m + 1)
      BY <2>2
    <3> QED BY <3>3, <3>4
  <2>3. CASE m + 1 \notin S
    <3>1. S \cap (1 .. m + 1) = S \cap (1 .. m)
      BY <2>3
    <3> QED BY <2>1, <3>1
  <2> QED BY <2>2, <2>3
<1> HIDE DEF N
<1>3. n \in N
  BY <1>1, <1>2, Induction
<1>4. S \cap (1 .. n) = S
  OBVIOUS
<1> QED BY <1>3, <1>4 DEF N

\* So InOrder goes through it.
LEMMA InOrderLists ==
    ASSUME NEW n \in Nat, NEW S \in SUBSET (1 .. n)
    PROVE  Lists(InOrder(S), S)
BY ListsExist, ListsInOrder

\* The hex lines that follow end at HexEnd.
LEMMA HexEndIs ==
    ASSUME NEW t, Sequence(t), NEW k \in 1 .. Len(t) + 1
    PROVE  /\ HexEnd(t, k) \in k .. Len(t) + 1
           /\ \A j \in k .. HexEnd(t, k) - 1 : Kind(t, j) = "hex"
           /\ HexEnd(t, k) <= Len(t) => Kind(t, HexEnd(t, k)) # "hex"
<1> DEFINE S == {j \in k .. Len(t) + 1 : j \in 1 .. Len(t) => Kind(t, j) # "hex"}
           e == Min(S)
<1>1. Len(t) \in Nat
  BY SequenceHas
<1>2. Len(t) + 1 \in S /\ S \subseteq Nat
  BY <1>1
<1>3. e \in S /\ \A y \in S : e <= y
  BY <1>2, LeastIs
<1>4. HexEnd(t, k) = e
  BY DEF HexEnd
<1> HIDE DEF e
<1>5. e \in k .. Len(t) + 1
  BY <1>3
<1>6. ASSUME NEW j \in k .. e - 1 PROVE Kind(t, j) = "hex"
  BY <1>1, <1>3, <1>5
<1>7. e <= Len(t) => Kind(t, e) # "hex"
  BY <1>1, <1>3
<1> QED BY <1>4, <1>5, <1>6, <1>7

\* What WidthOf adds up.
LEMMA WidthIs ==
    ASSUME NEW t, Sequence(t), NEW k \in 1 .. Len(t), NEW e \in k + 1 .. Len(t) + 1,
           \A j \in k + 1 .. e - 1 : Kind(t, j) = "hex",
           e <= Len(t) => Kind(t, e) # "hex"
    PROVE  WidthOf(t, k) = Pairs(t, k + 1 .. e - 1)
<1> DEFINE S == {j \in k + 1 .. Len(t) : \A i \in k + 1 .. j : Kind(t, i) = "hex"}
<1>1. Len(t) \in Nat
  BY SequenceHas
<1>2. ASSUME NEW j \in k + 1 .. e - 1 PROVE j \in S
  <2>1. \A i \in k + 1 .. j : i \in k + 1 .. e - 1
    BY <1>1
  <2> QED BY <1>1, <2>1
<1>3. ASSUME NEW j \in S PROVE j \in k + 1 .. e - 1
  <2>1. ~(e <= j)
    BY <1>1
  <2> QED BY <1>1, <2>1
<1>4. S = k + 1 .. e - 1
  BY <1>2, <1>3
<1> QED BY <1>4 DEF WidthOf

\* The lines of a list, looked up in a table, and joined.
Mapped(v, q) == [n \in 1 .. Len(q) |-> v[q[n]]]
\* A table looked up along two lists end to end.
LEMMA MappedJoined ==
    ASSUME NEW v, NEW a, NEW b, Sequence(a), Sequence(b)
    PROVE  Mapped(v, a \o b) = Mapped(v, a) \o Mapped(v, b)
<1>1. /\ Len(a) \in Nat /\ Len(b) \in Nat /\ Len(a \o b) = Len(a) + Len(b)
      /\ \A k \in 1 .. Len(a) : (a \o b)[k] = a[k]
      /\ \A k \in 1 .. Len(b) : (a \o b)[Len(a) + k] = b[k]
  BY Joined
<1> DEFINE x == Mapped(v, a)
           y == Mapped(v, b)
           z == Mapped(v, a \o b)
<1>2. x = [n \in 1 .. Len(a) |-> x[n]] /\ y = [n \in 1 .. Len(b) |-> y[n]]
  BY DEF Mapped
<1>3. /\ \A n \in 1 .. Len(a) : x[n] = v[a[n]]
      /\ \A n \in 1 .. Len(b) : y[n] = v[b[n]]
      /\ \A n \in 1 .. Len(a) + Len(b) : z[n] = v[(a \o b)[n]]
  BY <1>1 DEF Mapped
<1>4. z = [n \in 1 .. Len(a) + Len(b) |-> z[n]]
  BY <1>1 DEF Mapped
<1> HIDE DEF x, y, z
<1>5. Sequence(x) /\ Len(x) = Len(a) /\ Sequence(y) /\ Len(y) = Len(b)
  BY <1>1, <1>2, SequenceIs
<1>6. /\ Sequence(x \o y) /\ Len(x \o y) = Len(a) + Len(b)
      /\ \A k \in 1 .. Len(a) : (x \o y)[k] = x[k]
      /\ \A k \in 1 .. Len(b) : (x \o y)[Len(a) + k] = y[k]
  BY <1>5, Joined
<1>7. x \o y = [n \in 1 .. Len(a) + Len(b) |-> (x \o y)[n]]
  BY <1>6, SequenceHas
<1>8. ASSUME NEW n \in 1 .. Len(a) + Len(b) PROVE z[n] = (x \o y)[n]
  <2>1. CASE n <= Len(a)
    <3>1. n \in 1 .. Len(a)
      BY <1>1, <2>1
    <3>2. z[n] = v[(a \o b)[n]] /\ (a \o b)[n] = a[n]
      BY <1>1, <1>3, <3>1
    <3>3. (x \o y)[n] = x[n] /\ x[n] = v[a[n]]
      BY <1>3, <1>6, <3>1
    <3> QED BY <3>2, <3>3
  <2>2. CASE ~(n <= Len(a))
    <3>1. n - Len(a) \in 1 .. Len(b) /\ Len(a) + (n - Len(a)) = n
      BY <1>1, <2>2
    <3>2. z[n] = v[(a \o b)[n]] /\ (a \o b)[n] = b[n - Len(a)]
      BY <1>1, <1>3, <3>1
    <3>3. (x \o y)[n] = y[n - Len(a)] /\ y[n - Len(a)] = v[b[n - Len(a)]]
      BY <1>3, <1>6, <3>1
    <3> QED BY <3>2, <3>3
  <2> QED BY <2>1, <2>2
<1>9. z = x \o y
  BY <1>4, <1>7, <1>8
<1> QED BY <1>9 DEF x, y, z

\* A table looked up along one number, or none.
LEMMA MappedOne ==
    ASSUME NEW v, NEW x
    PROVE  Mapped(v, <<x>>) = <<v[x]>> /\ Mapped(v, <<>>) = <<>>
<1> DEFINE q == <<x>>
<1>1. Len(q) = 1 /\ q[1] = x
  OBVIOUS
<1>2. \A n \in 1 .. 1 : n = 1
  OBVIOUS
<1> HIDE DEF q
<1>3. Mapped(v, q) = [n \in 1 .. 1 |-> v[x]]
  BY <1>1, <1>2 DEF Mapped
<1>4. <<v[x]>> = [n \in 1 .. 1 |-> v[x]]
  OBVIOUS
<1>5. Mapped(v, <<>>) = <<>>
  BY DEF Mapped
<1> QED BY <1>3, <1>4, <1>5 DEF q

\* One step of TimeBlocks, and the function it makes from line a on.
TimeStep(t, f, j) ==
    IF j > Len(t) \/ EndsBlock(t, j) THEN [times |-> <<>>, next |-> j]
    ELSE IF Kind(t, j) = "time"
    THEN [f[HexEnd(t, j + 1)] EXCEPT !.times =
            <<[line |-> j, width |-> Pairs(t, j + 1 .. HexEnd(t, j + 1) - 1)]>> \o @]
    ELSE f[j + 1]
IsTimes(t, a, f) == f = [j \in a .. Len(t) + 1 |-> TimeStep(t, f, j)]

\* Such a function exists: the numbers left to go are fewer at each step.
LEMMA TimesExist ==
    ASSUME NEW t, Sequence(t)
    PROVE  \A a \in 1 .. Len(t) + 1 : \E f : IsTimes(t, a, f)
<1> DEFINE n == Len(t)
           N == {d \in Nat : d <= n => \E f : IsTimes(t, n + 1 - d, f)}
<1>1. n \in Nat
  BY SequenceHas
<1>2. \A j \in 1 .. n : HexEnd(t, j + 1) \in j + 1 .. n + 1
  <2>1. \A j \in 1 .. n : j + 1 \in 1 .. n + 1
    BY <1>1
  <2> QED BY <2>1, HexEndIs
<1>3. 0 \in N
  <2> DEFINE f == [j \in n + 1 .. n + 1 |-> [times |-> <<>>, next |-> j]]
  <2>1. \A j \in n + 1 .. n + 1 : j > n
    BY <1>1
  <2>2. IsTimes(t, n + 1, f)
    BY <2>1 DEF IsTimes, TimeStep
  <2>3. n + 1 - 0 = n + 1
    BY <1>1
  <2> QED BY <2>2, <2>3
<1>4. ASSUME NEW d \in Nat, d \in N PROVE d + 1 \in N
  <2>1. SUFFICES ASSUME d + 1 <= n PROVE \E f : IsTimes(t, n + 1 - (d + 1), f)
    OBVIOUS
  <2> DEFINE a == n + 1 - d
             b == n + 1 - (d + 1)
  <2>2. b \in 1 .. n /\ a = b + 1 /\ a \in Nat
    BY <1>1, <2>1
  <2>3. PICK f : IsTimes(t, a, f)
    BY <1>4, <2>1
  <2> HIDE DEF a, b, n
  <2> DEFINE g == [j \in b .. n + 1 |-> IF j = b THEN TimeStep(t, f, b) ELSE f[j]]
  <2>4. \A j \in a .. n + 1 : j \in b .. n + 1 /\ j # b
    BY <1>1, <2>2
  <2>5. \A j \in a .. n + 1 : g[j] = f[j]
    BY <2>4
  <2>6. \A j \in b .. n : HexEnd(t, j + 1) \in a .. n + 1 /\ j + 1 \in a .. n + 1
    <3>1. TAKE j \in b .. n
    <3>2. j \in 1 .. n
      BY <1>1, <2>2
    <3>3. HexEnd(t, j + 1) \in j + 1 .. n + 1
      BY <1>2, <3>2
    <3> QED BY <1>1, <2>2, <3>2, <3>3
  <2>7. ASSUME NEW j \in b .. n + 1 PROVE TimeStep(t, g, j) = TimeStep(t, f, j)
    <3>1. CASE j > n
      BY <3>1 DEF TimeStep, n
    <3>2. CASE ~(j > n)
      <4>1. j \in b .. n
        BY <1>1, <2>2, <3>2
      <4>2. g[HexEnd(t, j + 1)] = f[HexEnd(t, j + 1)] /\ g[j + 1] = f[j + 1]
        BY <2>5, <2>6, <4>1
      <4> HIDE DEF g
      <4> QED BY <4>2 DEF TimeStep
    <3> QED BY <3>1, <3>2
  <2>8. \A j \in a .. n + 1 : f[j] = TimeStep(t, f, j)
    BY <2>3 DEF IsTimes, n
  <2>9. \A j \in b .. n + 1 : j = b \/ j \in a .. n + 1
    BY <1>1, <2>2
  <2>10. \A j \in b .. n + 1 : g[j] = TimeStep(t, g, j)
    <3>1. TAKE j \in b .. n + 1
    <3>2. CASE j = b
      BY <2>7, <3>2
    <3>3. CASE j \in a .. n + 1
      BY <2>5, <2>7, <2>8, <3>3
    <3> QED BY <2>9, <3>2, <3>3
  <2>11. g = [j \in b .. n + 1 |-> g[j]]
    OBVIOUS
  <2> HIDE DEF g
  <2>12. IsTimes(t, b, g)
    BY <2>10, <2>11 DEF IsTimes, n
  <2> QED BY <2>12 DEF b, n
<1> HIDE DEF N, n
<1>5. \A d \in Nat : d \in N
  BY <1>3, <1>4, Induction
<1>6. ASSUME NEW a \in 1 .. n + 1 PROVE \E f : IsTimes(t, a, f)
  <2>1. n + 1 - a \in Nat /\ n + 1 - a <= n /\ n + 1 - (n + 1 - a) = a
    BY <1>1
  <2> QED BY <1>5, <2>1 DEF N
<1> QED BY <1>6 DEF n

\* It is what TimeBlocks looks at.
LEMMA TimesAre ==
    ASSUME NEW t, Sequence(t), NEW a \in 1 .. Len(t) + 1
    PROVE  \E f : IsTimes(t, a, f) /\ TimeBlocks(t, a) = f[a]
<1> DEFINE f == CHOOSE f : IsTimes(t, a, f)
<1>1. IsTimes(t, a, f)
  BY TimesExist
<1>2. TimeBlocks(t, a) = f[a]
  BY DEF IsTimes, TimeStep, TimeBlocks
<1> HIDE DEF f
<1> QED BY <1>1, <1>2

\* What parse_par says of a TIME line, the TIME lines from line j to the next
\* directive or edge, and what TimeBlocks should make of them.
Seen(t) == [k \in 1 .. Len(t) |-> [line |-> k, width |-> WidthOf(t, k)]]
TimesFrom(t, j) ==
    {k \in j .. Len(t) : Kind(t, k) = "time" /\ \A i \in j .. k : ~EndsBlock(t, i)}
Collects(t, j, r) ==
    /\ \E q : /\ Lists(q, TimesFrom(t, j))
              /\ r = [times |-> Mapped(Seen(t), q), next |-> r.next]
    /\ r.next \in j .. Len(t) + 1
    /\ r.next <= Len(t) => EndsBlock(t, r.next)
    /\ \A i \in j .. r.next - 1 : ~EndsBlock(t, i)

\* Behind the last line, at a directive and at an edge nothing is collected.
LEMMA CollectsEnd ==
    ASSUME NEW t, Sequence(t), NEW j \in 1 .. Len(t) + 1,
           j > Len(t) \/ EndsBlock(t, j)
    PROVE  Collects(t, j, [times |-> <<>>, next |-> j])
<1> DEFINE r == [times |-> <<>>, next |-> j]
<1>1. Len(t) \in Nat
  BY SequenceHas
<1>2. TimesFrom(t, j) = {}
  <2>1. SUFFICES ASSUME NEW k \in TimesFrom(t, j) PROVE FALSE
    OBVIOUS
  <2>2. k \in j .. Len(t) /\ j \in j .. k /\ ~EndsBlock(t, j)
    BY <1>1 DEF TimesFrom
  <2> QED BY <1>1, <2>2
<1>3. Mapped(Seen(t), <<>>) = <<>>
  BY MappedOne
<1>4. Lists(<<>>, TimesFrom(t, j))
  BY <1>2, ListsNothing
<1>5. r = [times |-> Mapped(Seen(t), <<>>), next |-> r.next] /\ r.next = j
  BY <1>3
<1> HIDE DEF r
<1>6. j \in j .. Len(t) + 1 /\ (j <= Len(t) => EndsBlock(t, j))
  BY <1>1
<1>7. \A i \in j .. j - 1 : ~EndsBlock(t, i)
  BY <1>1
<1>8. Collects(t, j, r)
  BY <1>4, <1>5, <1>6, <1>7 DEF Collects
<1> QED BY <1>8 DEF r

\* A line of another kind is passed over.
LEMMA CollectsOther ==
    ASSUME NEW t, Sequence(t), NEW j \in 1 .. Len(t), NEW r,
           ~EndsBlock(t, j), Kind(t, j) # "time", Collects(t, j + 1, r)
    PROVE  Collects(t, j, r)
<1>1. Len(t) \in Nat
  BY SequenceHas
<1>2. ASSUME NEW k \in j .. Len(t) PROVE k \in TimesFrom(t, j) <=> k \in TimesFrom(t, j + 1)
  <2>1. CASE k = j
    BY <1>1, <2>1 DEF TimesFrom
  <2>2. CASE k # j
    <3>1. k \in j + 1 .. Len(t)
      BY <1>1, <2>2
    <3>2. \A i \in j .. k : i = j \/ i \in j + 1 .. k
      BY <1>1
    <3>3. \A i \in j + 1 .. k : i \in j .. k
      BY <1>1
    <3> QED BY <3>1, <3>2, <3>3 DEF TimesFrom
  <2> QED BY <2>1, <2>2
<1>3. TimesFrom(t, j) = TimesFrom(t, j + 1)
  <2>1. TimesFrom(t, j) \subseteq j .. Len(t)
    BY DEF TimesFrom
  <2>2. TimesFrom(t, j + 1) \subseteq j .. Len(t)
    BY <1>1 DEF TimesFrom
  <2> QED BY <1>2, <2>1, <2>2
<1>4. r.next \in j + 1 .. Len(t) + 1 /\ (r.next <= Len(t) => EndsBlock(t, r.next))
  BY DEF Collects
<1>5. r.next \in j .. Len(t) + 1
  BY <1>1, <1>4
<1>6. \A i \in j .. r.next - 1 : i = j \/ i \in j + 1 .. r.next - 1
  BY <1>1, <1>4
<1>7. \A i \in j .. r.next - 1 : ~EndsBlock(t, i)
  BY <1>6 DEF Collects
<1>8. \E q : /\ Lists(q, TimesFrom(t, j))
             /\ r = [times |-> Mapped(Seen(t), q), next |-> r.next]
  BY <1>3 DEF Collects
<1> QED BY <1>4, <1>5, <1>7, <1>8 DEF Collects

\* A TIME line of TimeBlocks, and what comes of it and of the rest.
TimeAt(t, j) == [line |-> j, width |-> Pairs(t, j + 1 .. HexEnd(t, j + 1) - 1)]
Before(u, r) == [r EXCEPT !.times = <<u>> \o @]

\* One of two fields replaced.
LEMMA TimesReplaced ==
    ASSUME NEW x, NEW y, NEW z
    PROVE  [[times |-> x, next |-> y] EXCEPT !.times = z] = [times |-> z, next |-> y]
<1> DEFINE r == [times |-> x, next |-> y]
           s == [r EXCEPT !.times = z]
           u == [times |-> z, next |-> y]
<1>1. DOMAIN r = {"times", "next"} /\ r.next = y
  OBVIOUS
<1> HIDE DEF r
<1>2. DOMAIN s = {"times", "next"} /\ s["times"] = z /\ s["next"] = y
  BY <1>1
<1>3. s = [f \in DOMAIN r |-> s[f]]
  BY <1>1
<1>4. DOMAIN u = {"times", "next"} /\ u["times"] = z /\ u["next"] = y
  OBVIOUS
<1>5. u = [f \in {"times", "next"} |-> u[f]]
  OBVIOUS
<1> HIDE DEF s, u
<1>6. s = u
  BY <1>1, <1>2, <1>3, <1>4, <1>5
<1> QED BY <1>6 DEF s, r, u

\* What a TIME block before others comes to.
LEMMA BeforeIs ==
    ASSUME NEW u, NEW x, NEW y
    PROVE  Before(u, [times |-> x, next |-> y]) = [times |-> <<u>> \o x, next |-> y]
<1> DEFINE z == <<u>> \o x
<1>1. Before(u, [times |-> x, next |-> y]) = [[times |-> x, next |-> y] EXCEPT !.times = z]
  BY DEF Before
<1> QED BY <1>1, TimesReplaced

\* A TIME line is collected, and its hex lines are passed over.
LEMMA CollectsTime ==
    ASSUME NEW t, Sequence(t), NEW j \in 1 .. Len(t), NEW r,
           Kind(t, j) = "time", Collects(t, HexEnd(t, j + 1), r)
    PROVE  Collects(t, j, Before(TimeAt(t, j), r))
<1> DEFINE e == HexEnd(t, j + 1)
           u == TimeAt(t, j)
           s == Before(u, r)
<1>1. Len(t) \in Nat
  BY SequenceHas
<1>2. /\ e \in j + 1 .. Len(t) + 1
      /\ \A i \in j + 1 .. e - 1 : Kind(t, i) = "hex"
      /\ e <= Len(t) => Kind(t, e) # "hex"
  <2>1. j + 1 \in 1 .. Len(t) + 1
    BY <1>1
  <2> QED BY <2>1, HexEndIs
<1> HIDE DEF e
<1>3. PICK q : Lists(q, TimesFrom(t, e)) /\ r = [times |-> Mapped(Seen(t), q), next |-> r.next]
  BY DEF Collects, e
<1>4. WidthOf(t, j) = Pairs(t, j + 1 .. e - 1)
  BY <1>2, WidthIs
<1>5. Seen(t)[j] = u
  BY <1>4 DEF Seen, TimeAt, e
<1> HIDE DEF u
<1>6. Sequence(q) /\ Lists(<<j>>, {j}) /\ Sequence(<<j>>)
  <2>1. j \in Nat
    OBVIOUS
  <2> QED BY <1>3, <2>1, ListsOne DEF Lists
<1>7. Mapped(Seen(t), <<j>> \o q) = <<u>> \o Mapped(Seen(t), q)
  <2>1. Mapped(Seen(t), <<j>>) = <<u>>
    BY <1>5, MappedOne
  <2>2. Mapped(Seen(t), <<j>> \o q) = Mapped(Seen(t), <<j>>) \o Mapped(Seen(t), q)
    BY <1>6, MappedJoined
  <2> QED BY <2>1, <2>2
<1>8. s = [times |-> Mapped(Seen(t), <<j>> \o q), next |-> s.next] /\ s.next = r.next
  <2> DEFINE x == Mapped(Seen(t), q)
             y == r.next
  <2>1. r = [times |-> x, next |-> y]
    BY <1>3
  <2> HIDE DEF x, y
  <2>2. Before(u, [times |-> x, next |-> y]) = [times |-> <<u>> \o x, next |-> y]
    BY BeforeIs
  <2>3. Before(u, r) = [times |-> <<u>> \o x, next |-> y]
    BY <2>1, <2>2, Zenon
  <2>4. s = [times |-> <<u>> \o Mapped(Seen(t), q), next |-> r.next]
    BY <2>3 DEF x, y
  <2> HIDE DEF s
  <2> QED BY <1>7, <2>4
<1>9. \A x \in {j}, y \in TimesFrom(t, e) : x < y
  BY <1>1, <1>2 DEF TimesFrom
<1>10. Lists(<<j>> \o q, {j} \cup TimesFrom(t, e))
  BY <1>3, <1>6, <1>9, ListsJoined
<1>11. \A i \in j .. e - 1 : ~EndsBlock(t, i)
  <2>1. \A i \in j .. e - 1 : i = j \/ i \in j + 1 .. e - 1
    BY <1>1, <1>2
  <2> QED BY <1>2, <2>1 DEF EndsBlock
<1>12. TimesFrom(t, j) = {j} \cup TimesFrom(t, e)
  <2>1. j \in TimesFrom(t, j)
    <3>1. \A i \in j .. j : i = j
      OBVIOUS
    <3>2. j \in j .. Len(t)
      BY <1>1
    <3> QED BY <3>1, <3>2 DEF TimesFrom, EndsBlock
  <2>2. ASSUME NEW k \in TimesFrom(t, e) PROVE k \in TimesFrom(t, j)
    <3>1. k \in e .. Len(t) /\ Kind(t, k) = "time" /\ \A i \in e .. k : ~EndsBlock(t, i)
      BY DEF TimesFrom
    <3>2. k \in j .. Len(t) /\ \A i \in j .. k : i \in j .. e - 1 \/ i \in e .. k
      BY <1>1, <1>2, <3>1
    <3> QED BY <1>11, <3>1, <3>2 DEF TimesFrom
  <2>3. ASSUME NEW k \in TimesFrom(t, j), k # j PROVE k \in TimesFrom(t, e)
    <3>1. k \in j .. Len(t) /\ Kind(t, k) = "time" /\ \A i \in j .. k : ~EndsBlock(t, i)
      BY DEF TimesFrom
    <3>2. k \notin j + 1 .. e - 1
      BY <1>2, <3>1
    <3>3. k \in e .. Len(t) /\ \A i \in e .. k : i \in j .. k
      BY <1>1, <1>2, <2>3, <3>1, <3>2
    <3> QED BY <3>1, <3>3 DEF TimesFrom
  <2> QED BY <2>1, <2>2, <2>3
<1> HIDE DEF s
<1>13. /\ r.next \in e .. Len(t) + 1
       /\ r.next <= Len(t) => EndsBlock(t, r.next)
       /\ \A i \in e .. r.next - 1 : ~EndsBlock(t, i)
  BY DEF Collects, e
<1>14. r.next \in j .. Len(t) + 1
  BY <1>1, <1>2, <1>13
<1>15. \A i \in j .. r.next - 1 : i \in j .. e - 1 \/ i \in e .. r.next - 1
  BY <1>1, <1>2, <1>13
<1>16. \A i \in j .. r.next - 1 : ~EndsBlock(t, i)
  BY <1>11, <1>13, <1>15
<1>17. Lists(<<j>> \o q, TimesFrom(t, j))
  BY <1>10, <1>12
<1>18. Collects(t, j, s)
  BY <1>8, <1>13, <1>14, <1>16, <1>17 DEF Collects
<1> QED BY <1>18 DEF s, u, e

\* So TimeBlocks collects what it should, from any line on.
LEMMA TimesCollect ==
    ASSUME NEW t, Sequence(t), NEW a \in 1 .. Len(t) + 1
    PROVE  Collects(t, a, TimeBlocks(t, a))
<1> DEFINE n == Len(t)
<1>1. n \in Nat
  BY SequenceHas
<1>2. PICK f : IsTimes(t, a, f) /\ TimeBlocks(t, a) = f[a]
  BY TimesAre
<1> DEFINE N == {d \in Nat : \A j \in a .. n + 1 : n + 1 - j <= d => Collects(t, j, f[j])}
<1>3. ASSUME NEW j \in a .. n + 1, \A k \in j + 1 .. n + 1 : Collects(t, k, f[k])
      PROVE  Collects(t, j, f[j])
  <2>1. j \in 1 .. n + 1
    BY <1>1
  <2>2. f[j] = TimeStep(t, f, j)
    BY <1>2 DEF IsTimes
  <2>3. CASE j > n \/ EndsBlock(t, j)
    BY <2>1, <2>2, <2>3, CollectsEnd DEF TimeStep
  <2>4. CASE ~(j > n \/ EndsBlock(t, j)) /\ Kind(t, j) = "time"
    <3>1. j \in 1 .. n /\ j + 1 \in 1 .. n + 1
      BY <1>1, <2>1, <2>4
    <3>2. HexEnd(t, j + 1) \in j + 1 .. n + 1
      BY <3>1, HexEndIs
    <3>3. Collects(t, HexEnd(t, j + 1), f[HexEnd(t, j + 1)])
      BY <1>3, <3>2
    <3>4. f[j] = Before(TimeAt(t, j), f[HexEnd(t, j + 1)])
      BY <2>2, <2>4 DEF TimeStep, Before, TimeAt
    <3>5. Collects(t, j, Before(TimeAt(t, j), f[HexEnd(t, j + 1)]))
      BY <2>4, <3>1, <3>3, CollectsTime
    <3> QED BY <3>4, <3>5
  <2>5. CASE ~(j > n \/ EndsBlock(t, j)) /\ Kind(t, j) # "time"
    <3>1. j \in 1 .. n /\ j + 1 \in j + 1 .. n + 1
      BY <1>1, <2>1, <2>5
    <3>2. f[j] = f[j + 1]
      BY <2>2, <2>5 DEF TimeStep
    <3>3. Collects(t, j + 1, f[j])
      BY <1>3, <3>1, <3>2
    <3> QED BY <2>5, <3>1, <3>3, CollectsOther
  <2> QED BY <2>3, <2>4, <2>5
<1>4. 0 \in N
  <2>1. ASSUME NEW j \in a .. n + 1, n + 1 - j <= 0 PROVE Collects(t, j, f[j])
    <3>1. j + 1 .. n + 1 = {}
      BY <1>1, <2>1
    <3> QED BY <1>3, <3>1
  <2> QED BY <2>1
<1>5. ASSUME NEW d \in Nat, d \in N PROVE d + 1 \in N
  <2>1. ASSUME NEW j \in a .. n + 1, n + 1 - j <= d + 1 PROVE Collects(t, j, f[j])
    <3>1. \A k \in j + 1 .. n + 1 : k \in a .. n + 1 /\ n + 1 - k <= d
      BY <1>1, <2>1
    <3>2. \A k \in j + 1 .. n + 1 : Collects(t, k, f[k])
      BY <1>5, <3>1
    <3> QED BY <1>3, <3>2
  <2> QED BY <2>1
<1> HIDE DEF N
<1>6. \A d \in Nat : d \in N
  BY <1>4, <1>5, Induction
<1>7. n + 1 - a \in Nat /\ a \in a .. n + 1 /\ n + 1 - a <= n + 1 - a
  BY <1>1
<1>8. Collects(t, a, f[a])
  BY <1>6, <1>7 DEF N
<1> QED BY <1>2, <1>8

\* The block of the directive on line i, one step of OpcodeBlocks, and the
\* function it makes from line a on.
BlockAt(t, i) == [line |-> i, spelling |-> t[i].spelling,
                  times |-> TimeBlocks(t, i + 1).times]
BlockStep(t, f, i) ==
    IF i > Len(t) THEN <<>>
    ELSE IF Kind(t, i) # "at" THEN f[i + 1]
    ELSE <<BlockAt(t, i)>> \o f[TimeBlocks(t, i + 1).next]
IsBlocks(t, a, f) == f = [i \in a .. Len(t) + 1 |-> BlockStep(t, f, i)]

\* A block ends behind its directive, and no directive is in it.
LEMMA NextIs ==
    ASSUME NEW t, Sequence(t), NEW i \in 1 .. Len(t)
    PROVE  /\ TimeBlocks(t, i + 1).next \in i + 1 .. Len(t) + 1
           /\ \A j \in i + 1 .. TimeBlocks(t, i + 1).next - 1 : ~EndsBlock(t, j)
<1>1. Len(t) \in Nat
  BY SequenceHas
<1>2. i + 1 \in 1 .. Len(t) + 1
  BY <1>1
<1> QED BY <1>2, TimesCollect DEF Collects

\* Such a function exists.
LEMMA BlocksExist ==
    ASSUME NEW t, Sequence(t)
    PROVE  \E f : IsBlocks(t, 1, f)
<1> DEFINE n == Len(t)
           N == {d \in Nat : d <= n => \E f : IsBlocks(t, n + 1 - d, f)}
           next(i) == TimeBlocks(t, i + 1).next
<1>1. n \in Nat
  BY SequenceHas
<1>2. \A j \in 1 .. n : next(j) \in j + 1 .. n + 1
  BY NextIs
<1> HIDE DEF next
<1>3. 0 \in N
  <2> DEFINE f == [j \in n + 1 .. n + 1 |-> <<>>]
  <2>1. \A j \in n + 1 .. n + 1 : j > n
    BY <1>1
  <2>2. IsBlocks(t, n + 1, f)
    BY <2>1 DEF IsBlocks, BlockStep
  <2>3. n + 1 - 0 = n + 1
    BY <1>1
  <2> QED BY <2>2, <2>3
<1>4. ASSUME NEW d \in Nat, d \in N PROVE d + 1 \in N
  <2>1. SUFFICES ASSUME d + 1 <= n PROVE \E f : IsBlocks(t, n + 1 - (d + 1), f)
    OBVIOUS
  <2> DEFINE a == n + 1 - d
             b == n + 1 - (d + 1)
  <2>2. b \in 1 .. n /\ a = b + 1 /\ a \in Nat
    BY <1>1, <2>1
  <2>3. PICK f : IsBlocks(t, a, f)
    BY <1>4, <2>1
  <2> HIDE DEF a, b, n
  <2> DEFINE g == [j \in b .. n + 1 |-> IF j = b THEN BlockStep(t, f, b) ELSE f[j]]
  <2>4. \A j \in a .. n + 1 : j \in b .. n + 1 /\ j # b
    BY <1>1, <2>2
  <2>5. \A j \in a .. n + 1 : g[j] = f[j]
    BY <2>4
  <2>6. \A j \in b .. n : next(j) \in a .. n + 1 /\ j + 1 \in a .. n + 1
    <3>1. TAKE j \in b .. n
    <3>2. j \in 1 .. n
      BY <1>1, <2>2
    <3>3. next(j) \in j + 1 .. n + 1
      BY <1>2, <3>2
    <3> QED BY <1>1, <2>2, <3>2, <3>3
  <2>7. ASSUME NEW j \in b .. n + 1 PROVE BlockStep(t, g, j) = BlockStep(t, f, j)
    <3>1. CASE j > n
      BY <3>1 DEF BlockStep, n
    <3>2. CASE ~(j > n)
      <4>1. j \in b .. n
        BY <1>1, <2>2, <3>2
      <4>2. g[next(j)] = f[next(j)] /\ g[j + 1] = f[j + 1]
        BY <2>5, <2>6, <4>1
      <4> HIDE DEF g
      <4> QED BY <4>2 DEF BlockStep, next
    <3> QED BY <3>1, <3>2
  <2>8. \A j \in a .. n + 1 : f[j] = BlockStep(t, f, j)
    BY <2>3 DEF IsBlocks, n
  <2>9. \A j \in b .. n + 1 : j = b \/ j \in a .. n + 1
    BY <1>1, <2>2
  <2>10. \A j \in b .. n + 1 : g[j] = BlockStep(t, g, j)
    <3>1. TAKE j \in b .. n + 1
    <3>2. CASE j = b
      BY <2>7, <3>2
    <3>3. CASE j \in a .. n + 1
      BY <2>5, <2>7, <2>8, <3>3
    <3> QED BY <2>9, <3>2, <3>3
  <2>11. g = [j \in b .. n + 1 |-> g[j]]
    OBVIOUS
  <2> HIDE DEF g
  <2>12. IsBlocks(t, b, g)
    BY <2>10, <2>11 DEF IsBlocks, n
  <2> QED BY <2>12 DEF b, n
<1> HIDE DEF N, n
<1>5. \A d \in Nat : d \in N
  BY <1>3, <1>4, Induction
<1>6. n \in N /\ n + 1 - n = 1 /\ n <= n
  BY <1>1, <1>5
<1> QED BY <1>6 DEF N, n

\* The lines with a directive from line i on.
AtFrom(t, i) == {k \in i .. Len(t) : Kind(t, k) = "at"}
Blocks(t) == [k \in 1 .. Len(t) |-> BlockAt(t, k)]

\* Nothing from line i to line e but perhaps the first is a directive.
LEMMA AtFromNext ==
    ASSUME NEW t, Sequence(t), NEW i \in 1 .. Len(t), NEW e \in i + 1 .. Len(t) + 1,
           \A j \in i + 1 .. e - 1 : Kind(t, j) # "at"
    PROVE  /\ Kind(t, i) # "at" => AtFrom(t, i) = AtFrom(t, e)
           /\ Kind(t, i) = "at" => AtFrom(t, i) = {i} \cup AtFrom(t, e)
           /\ \A y \in AtFrom(t, e) : i < y
<1>1. Len(t) \in Nat
  BY SequenceHas
<1>2. \A k \in i .. Len(t) : k = i \/ k \in i + 1 .. e - 1 \/ k \in e .. Len(t)
  BY <1>1
<1>3. \A k \in e .. Len(t) : k \in i .. Len(t) /\ i < k
  BY <1>1
<1>4. i \in i .. Len(t)
  BY <1>1
<1> QED BY <1>2, <1>3, <1>4 DEF AtFrom

\* _build_opcode_blocks finds each directive, in order.
LEMMA OpcodeBlocksAre ==
    ASSUME NEW t, Sequence(t)
    PROVE  OpcodeBlocks(t) = Mapped(Blocks(t), InOrder(LinesOf(t, "at")))
<1> DEFINE n == Len(t)
           f == CHOOSE f : IsBlocks(t, 1, f)
<1>1. n \in Nat /\ DOMAIN t = 1 .. n
  BY SequenceHas
<1>2. IsBlocks(t, 1, f)
  BY BlocksExist
<1>3. OpcodeBlocks(t) = f[1]
  BY DEF IsBlocks, BlockStep, BlockAt, OpcodeBlocks
<1> HIDE DEF f
<1> DEFINE Right(i) == \E q : Lists(q, AtFrom(t, i)) /\ f[i] = Mapped(Blocks(t), q)
           N == {d \in Nat : \A i \in 1 .. n + 1 : n + 1 - i <= d => Right(i)}
<1>4. ASSUME NEW i \in 1 .. n + 1, \A k \in i + 1 .. n + 1 : Right(k)
      PROVE  Right(i)
  <2>1. f[i] = BlockStep(t, f, i)
    BY <1>2 DEF IsBlocks
  <2>2. CASE i > n
    <3>1. AtFrom(t, i) = {}
      BY <1>1, <2>2 DEF AtFrom
    <3>2. f[i] = Mapped(Blocks(t), <<>>)
      BY <2>1, <2>2, MappedOne DEF BlockStep
    <3> QED BY <3>1, <3>2, ListsNothing
  <2>3. CASE ~(i > n) /\ Kind(t, i) # "at"
    <3>1. i \in 1 .. n /\ i + 1 \in i + 1 .. n + 1 /\ i + 1 .. (i + 1) - 1 = {}
      BY <1>1, <2>3
    <3>2. AtFrom(t, i) = AtFrom(t, i + 1)
      BY <2>3, <3>1, AtFromNext
    <3>3. f[i] = f[i + 1]
      BY <2>1, <2>3 DEF BlockStep
    <3>4. Right(i + 1)
      BY <1>4, <3>1
    <3> QED BY <3>2, <3>3, <3>4
  <2>4. CASE ~(i > n) /\ Kind(t, i) = "at"
    <3> DEFINE e == TimeBlocks(t, i + 1).next
    <3>1. i \in 1 .. n
      BY <1>1, <2>4
    <3>2. e \in i + 1 .. n + 1 /\ \A j \in i + 1 .. e - 1 : Kind(t, j) # "at"
      BY <3>1, NextIs DEF EndsBlock
    <3>3. f[i] = <<BlockAt(t, i)>> \o f[e]
      BY <2>1, <2>4 DEF BlockStep
    <3> HIDE DEF e
    <3>4. AtFrom(t, i) = {i} \cup AtFrom(t, e) /\ \A y \in AtFrom(t, e) : i < y
      BY <2>4, <3>1, <3>2, AtFromNext
    <3>5. PICK q : Lists(q, AtFrom(t, e)) /\ f[e] = Mapped(Blocks(t), q)
      BY <1>4, <3>2
    <3>6. Lists(<<i>>, {i}) /\ Sequence(<<i>>) /\ Sequence(q)
      <4>1. i \in Nat
        BY <3>1
      <4> QED BY <3>5, <4>1, ListsOne DEF Lists
    <3>7. Lists(<<i>> \o q, AtFrom(t, i))
      <4>1. \A x \in {i}, y \in AtFrom(t, e) : x < y
        BY <3>4
      <4> QED BY <3>4, <3>5, <3>6, <4>1, ListsJoined
    <3>8. Mapped(Blocks(t), <<i>> \o q) = <<BlockAt(t, i)>> \o Mapped(Blocks(t), q)
      <4>1. Mapped(Blocks(t), <<i>>) = <<Blocks(t)[i]>>
        BY MappedOne
      <4>2. Blocks(t)[i] = BlockAt(t, i)
        BY <3>1 DEF Blocks
      <4>3. Mapped(Blocks(t), <<i>> \o q) = Mapped(Blocks(t), <<i>>) \o Mapped(Blocks(t), q)
        BY <3>6, MappedJoined
      <4> QED BY <4>1, <4>2, <4>3
    <3>9. f[i] = Mapped(Blocks(t), <<i>> \o q)
      BY <3>3, <3>5, <3>8
    <3> QED BY <3>7, <3>9
  <2> QED BY <2>2, <2>3, <2>4
<1>5. 0 \in N
  <2>1. ASSUME NEW i \in 1 .. n + 1, n + 1 - i <= 0 PROVE Right(i)
    <3>1. i + 1 .. n + 1 = {}
      BY <1>1, <2>1
    <3> QED BY <1>4, <3>1
  <2> HIDE DEF Right
  <2> QED BY <2>1
<1>6. ASSUME NEW d \in Nat, d \in N PROVE d + 1 \in N
  <2>1. ASSUME NEW i \in 1 .. n + 1, n + 1 - i <= d + 1 PROVE Right(i)
    <3>1. \A k \in i + 1 .. n + 1 : k \in 1 .. n + 1 /\ n + 1 - k <= d
      BY <1>1, <2>1
    <3>2. \A k \in i + 1 .. n + 1 : Right(k)
      BY <1>6, <3>1
    <3> HIDE DEF Right
    <3> QED BY <1>4, <3>2
  <2> HIDE DEF Right
  <2> QED BY <2>1
<1> HIDE DEF N, Right
<1>7. \A d \in Nat : d \in N
  BY <1>5, <1>6, Induction
<1>8. n \in N /\ 1 \in 1 .. n + 1 /\ n + 1 - 1 <= n
  BY <1>1, <1>7
<1>9. Right(1)
  BY <1>8 DEF N
<1>10. PICK q : Lists(q, AtFrom(t, 1)) /\ f[1] = Mapped(Blocks(t), q)
  BY <1>9 DEF Right
<1>11. AtFrom(t, 1) = LinesOf(t, "at")
  BY <1>1 DEF AtFrom, LinesOf
<1>12. InOrder(LinesOf(t, "at")) = q
  BY <1>10, <1>11, ListsInOrder
<1> QED BY <1>3, <1>10, <1>12

\* The TIME blocks of a directive are those of the TIME lines under it.
LEMMA TimesUnder ==
    ASSUME NEW t, Sequence(t), NEW i \in 1 .. Len(t), Kind(t, i) = "at"
    PROVE  TimeBlocks(t, i + 1).times =
              Mapped(Seen(t), InOrder({j \in LinesOf(t, "time") : Under(t, i, j)}))
<1> DEFINE S == {j \in LinesOf(t, "time") : Under(t, i, j)}
<1>1. Len(t) \in Nat /\ DOMAIN t = 1 .. Len(t) /\ i + 1 \in 1 .. Len(t) + 1
  BY SequenceHas
<1>2. PICK q : /\ Lists(q, TimesFrom(t, i + 1))
               /\ TimeBlocks(t, i + 1) =
                    [times |-> Mapped(Seen(t), q), next |-> TimeBlocks(t, i + 1).next]
  BY <1>1, TimesCollect DEF Collects
<1>3. TimeBlocks(t, i + 1).times = Mapped(Seen(t), q)
  <2> DEFINE r == TimeBlocks(t, i + 1)
             x == Mapped(Seen(t), q)
             y == r.next
  <2>1. r = [times |-> x, next |-> y]
    BY <1>2
  <2> HIDE DEF r, x, y
  <2>2. r.times = x
    BY <2>1
  <2> QED BY <2>2 DEF r, x
<1>4. ASSUME NEW k \in S PROVE k \in TimesFrom(t, i + 1)
  <2>1. k \in 1 .. Len(t) /\ Kind(t, k) = "time" /\ i < k
    BY <1>1 DEF LinesOf, Under
  <2>2. \A j \in i + 1 .. k - 1 : ~EndsBlock(t, j)
    BY DEF Under, EndsBlock
  <2>3. \A j \in i + 1 .. k : j = k \/ j \in i + 1 .. k - 1
    BY <2>1
  <2>4. ~EndsBlock(t, k) /\ k \in i + 1 .. Len(t)
    BY <1>1, <2>1 DEF EndsBlock
  <2> QED BY <2>1, <2>2, <2>3, <2>4 DEF TimesFrom
<1>5. ASSUME NEW k \in TimesFrom(t, i + 1) PROVE k \in S
  <2>1. /\ k \in i + 1 .. Len(t) /\ Kind(t, k) = "time"
        /\ \A j \in i + 1 .. k : ~EndsBlock(t, j)
    BY DEF TimesFrom
  <2>2. k \in 1 .. Len(t) /\ i < k /\ \A j \in i + 1 .. k - 1 : j \in i + 1 .. k
    BY <1>1, <2>1
  <2> QED BY <1>1, <2>1, <2>2 DEF LinesOf, Under, EndsBlock
<1>6. S = TimesFrom(t, i + 1)
  BY <1>4, <1>5
<1> HIDE DEF S
<1>7. InOrder(S) = q
  BY <1>2, <1>6, ListsInOrder
<1> QED BY <1>3, <1>7 DEF S

\* The first part of ReadersExact for one file.
LEMMA ParsedExactly ==
    ASSUME NEW t, Sequence(t)
    PROVE  LET at == InOrder(LinesOf(t, "at"))
               under(k) == InOrder({j \in LinesOf(t, "time") : Under(t, k, j)})
           IN  OpcodeBlocks(t) =
                 [b \in DOMAIN at |->
                    [line |-> at[b], spelling |-> t[at[b]].spelling,
                     times |-> [n \in DOMAIN under(at[b]) |->
                                  [line |-> under(at[b])[n],
                                   width |-> WidthOf(t, under(at[b])[n])]]]]
<1> DEFINE at == InOrder(LinesOf(t, "at"))
           under(k) == InOrder({j \in LinesOf(t, "time") : Under(t, k, j)})
           times(k) == [n \in DOMAIN under(k) |->
                          [line |-> under(k)[n], width |-> WidthOf(t, under(k)[n])]]
<1>1. Len(t) \in Nat /\ DOMAIN t = 1 .. Len(t)
  BY SequenceHas
<1>2. Lists(at, LinesOf(t, "at"))
  <2>1. LinesOf(t, "at") \in SUBSET (1 .. Len(t))
    BY <1>1 DEF LinesOf
  <2> QED BY <1>1, <2>1, InOrderLists
<1> HIDE DEF at
<1>3. DOMAIN at = 1 .. Len(at)
  BY <1>2, SequenceHas DEF Lists
<1>4. \A b \in 1 .. Len(at) : at[b] \in 1 .. Len(t) /\ Kind(t, at[b]) = "at"
  BY <1>1, <1>2 DEF Lists, LinesOf
<1>5. ASSUME NEW k \in 1 .. Len(t), Kind(t, k) = "at"
      PROVE  TimeBlocks(t, k + 1).times = times(k)
  <2> DEFINE S == {j \in LinesOf(t, "time") : Under(t, k, j)}
             q == InOrder(S)
  <2>1. S \in SUBSET (1 .. Len(t))
    BY <1>1 DEF LinesOf
  <2>2. Lists(q, S)
    BY <1>1, <2>1, InOrderLists
  <2>3. TimeBlocks(t, k + 1).times = Mapped(Seen(t), q)
    BY <1>5, TimesUnder
  <2>4. times(k) = [n \in DOMAIN q |-> [line |-> q[n], width |-> WidthOf(t, q[n])]]
    OBVIOUS
  <2> HIDE DEF q, times, under
  <2>5. DOMAIN q = 1 .. Len(q)
    BY <2>2, SequenceHas DEF Lists
  <2>6. \A n \in 1 .. Len(q) : q[n] \in 1 .. Len(t)
    BY <2>1, <2>2 DEF Lists
  <2>7. \A n \in 1 .. Len(q) : Seen(t)[q[n]] = [line |-> q[n], width |-> WidthOf(t, q[n])]
    BY <2>6 DEF Seen
  <2>8. Mapped(Seen(t), q) = [n \in 1 .. Len(q) |-> [line |-> q[n], width |-> WidthOf(t, q[n])]]
    BY <2>7 DEF Mapped
  <2> QED BY <2>3, <2>4, <2>5, <2>8
<1> HIDE DEF times
<1>6. \A b \in 1 .. Len(at) :
          Blocks(t)[at[b]] = [line |-> at[b], spelling |-> t[at[b]].spelling,
                              times |-> times(at[b])]
  BY <1>4, <1>5 DEF Blocks, BlockAt
<1>7. OpcodeBlocks(t) = Mapped(Blocks(t), at)
  BY OpcodeBlocksAre DEF at
<1>8. Mapped(Blocks(t), at) =
        [b \in DOMAIN at |-> [line |-> at[b], spelling |-> t[at[b]].spelling,
                              times |-> times(at[b])]]
  BY <1>3, <1>6 DEF Mapped
<1> QED BY <1>7, <1>8 DEF at, times
-----------------------------------------------------------------------------
(* The statistics of parse_par_file *)

\* The function that ParFileStats makes.
NothingRead == [timeBlocks |-> 0, widths |-> <<>>, spellings |-> <<>>,
                inOperand |-> FALSE, operandBytes |-> 0]
IsReading(t, n, f) ==
    f = [k \in 0 .. n |-> IF k = 0 THEN NothingRead ELSE ReadLine(f[k - 1], t[k])]

\* Such a function exists for every number of lines.
LEMMA ReadingExists ==
    ASSUME NEW t
    PROVE  \A n \in Nat : \E f : IsReading(t, n, f)
<1> DEFINE N == {n \in Nat : \E f : IsReading(t, n, f)}
<1>1. 0 \in N
  <2> DEFINE f == [k \in 0 .. 0 |-> NothingRead]
  <2>1. IsReading(t, 0, f)
    BY DEF IsReading
  <2> QED BY <2>1
<1>2. ASSUME NEW n \in Nat, n \in N PROVE n + 1 \in N
  <2>1. PICK f : IsReading(t, n, f)
    BY <1>2
  <2> DEFINE g == [k \in 0 .. n + 1 |->
                     IF k = 0 THEN NothingRead ELSE ReadLine(f[k - 1], t[k])]
  <2>2. \A k \in 0 .. n : k \in 0 .. n + 1 /\ g[k] = f[k]
    BY <2>1 DEF IsReading
  <2>3. \A k \in 0 .. n + 1 : k # 0 => k - 1 \in 0 .. n
    OBVIOUS
  <2>4. \A k \in 0 .. n + 1 : k # 0 => g[k - 1] = f[k - 1]
    BY <2>2, <2>3
  <2>5. g = [k \in 0 .. n + 1 |-> IF k = 0 THEN NothingRead ELSE ReadLine(g[k - 1], t[k])]
    BY <2>4
  <2> HIDE DEF g
  <2>6. IsReading(t, n + 1, g)
    BY <2>5 DEF IsReading
  <2> QED BY <2>6
<1> HIDE DEF N
<1>3. \A n \in Nat : n \in N
  BY <1>1, <1>2, Induction
<1> QED BY <1>3 DEF N

\* It is what ParFileStats looks at.
LEMMA ReadingIs ==
    ASSUME NEW t, Sequence(t)
    PROVE  \E f : /\ IsReading(t, Len(t), f)
                  /\ ParFileStats(t) = [timeBlocks |-> Flush(f[Len(t)]).timeBlocks,
                                        widths |-> Flush(f[Len(t)]).widths,
                                        spellings |-> Flush(f[Len(t)]).spellings]
<1> DEFINE f == CHOOSE f : IsReading(t, Len(t), f)
<1>1. IsReading(t, Len(t), f)
  <2>1. Len(t) \in Nat
    BY SequenceHas
  <2> QED BY <2>1, ReadingExists
<1>2. ParFileStats(t) = [timeBlocks |-> Flush(f[Len(t)]).timeBlocks,
                         widths |-> Flush(f[Len(t)]).widths,
                         spellings |-> Flush(f[Len(t)]).spellings]
  BY DEF IsReading, NothingRead, ParFileStats
<1> HIDE DEF f
<1> QED BY <1>1, <1>2

\* The state of parse_par_file while a TIME line is being read, and otherwise.
During(a, b, c, e) ==
    [timeBlocks |-> a, widths |-> b, spellings |-> c, inOperand |-> TRUE, operandBytes |-> e]
Between(a, b, c) ==
    [timeBlocks |-> a, widths |-> b, spellings |-> c, inOperand |-> FALSE, operandBytes |-> 0]
StatsFields == {"timeBlocks", "widths", "spellings", "inOperand", "operandBytes"}

\* What _flush_operand and a line of each kind do to it.
LEMMA FlushIs ==
    ASSUME NEW a, NEW b, NEW c, NEW e
    PROVE  /\ Flush(During(a, b, c, e)) = Between(a, Append(b, e), c)
           /\ Flush(Between(a, b, c)) = Between(a, b, c)
<1> DEFINE s == During(a, b, c, e)
           r == [s EXCEPT !.inOperand = FALSE, !.operandBytes = 0,
                          !.widths = Append(@, s.operandBytes)]
<1>1. /\ DOMAIN s = StatsFields
      /\ s.timeBlocks = a /\ s.widths = b /\ s.spellings = c
      /\ s.inOperand = TRUE /\ s.operandBytes = e
  BY DEF During, Between, StatsFields
<1>2. (Between(a, b, c)).inOperand = FALSE
  BY DEF During, Between, StatsFields
<1> HIDE DEF s
<1>3. /\ r = [x \in StatsFields |-> r[x]]
      /\ r["timeBlocks"] = a /\ r["widths"] = Append(b, e) /\ r["spellings"] = c
      /\ r["inOperand"] = FALSE /\ r["operandBytes"] = 0
  BY <1>1 DEF StatsFields
<1>4. Flush(s) = r
  BY <1>1 DEF Flush
<1> HIDE DEF r
<1>5. r = Between(a, Append(b, e), c)
  <2> DEFINE w == Between(a, Append(b, e), c)
  <2>1. /\ w = [x \in StatsFields |-> w[x]]
        /\ w["timeBlocks"] = a /\ w["widths"] = Append(b, e) /\ w["spellings"] = c
        /\ w["inOperand"] = FALSE /\ w["operandBytes"] = 0
    BY DEF During, Between, StatsFields
  <2> HIDE DEF w
  <2>2. r = w
    BY <1>3, <2>1 DEF StatsFields
  <2> QED BY <2>2 DEF w
<1>6. Flush(Between(a, b, c)) = Between(a, b, c)
  BY <1>2 DEF Flush
<1> QED BY <1>4, <1>5, <1>6 DEF s

\* A TIME line begins an operand.
LEMMA ReadTime ==
    ASSUME NEW s, NEW line, line.kind = "time",
           NEW a, NEW b, NEW c, Flush(s) = Between(a, b, c)
    PROVE  ReadLine(s, line) = During(a + 1, b, c, 0)
<1> DEFINE u == Flush(s)
           r == [u EXCEPT !.inOperand = TRUE, !.timeBlocks = @ + 1]
<1>1. ReadLine(s, line) = r
  BY DEF ReadLine
<1>2. /\ DOMAIN u = StatsFields
      /\ u.timeBlocks = a /\ u.widths = b /\ u.spellings = c
      /\ u.inOperand = FALSE /\ u.operandBytes = 0
  BY DEF During, Between, StatsFields
<1> HIDE DEF u
<1>3. /\ r = [x \in StatsFields |-> r[x]]
      /\ r["timeBlocks"] = a + 1 /\ r["widths"] = b /\ r["spellings"] = c
      /\ r["inOperand"] = TRUE /\ r["operandBytes"] = 0
  BY <1>2 DEF StatsFields
<1> HIDE DEF r
<1>4. r = During(a + 1, b, c, 0)
  <2> DEFINE w == During(a + 1, b, c, 0)
  <2>1. /\ w = [x \in StatsFields |-> w[x]]
        /\ w["timeBlocks"] = a + 1 /\ w["widths"] = b /\ w["spellings"] = c
        /\ w["inOperand"] = TRUE /\ w["operandBytes"] = 0
    BY DEF During, Between, StatsFields
  <2> HIDE DEF w
  <2>2. r = w
    BY <1>3, <2>1 DEF StatsFields
  <2> QED BY <2>2 DEF w
<1> QED BY <1>1, <1>4

\* A directive is noted.
LEMMA ReadAt ==
    ASSUME NEW s, NEW line, line.kind = "at",
           NEW a, NEW b, NEW c, Flush(s) = Between(a, b, c)
    PROVE  ReadLine(s, line) = Between(a, b, Append(c, line.spelling))
<1> DEFINE u == Flush(s)
           r == [u EXCEPT !.spellings = Append(@, line.spelling)]
<1>1. ReadLine(s, line) = r
  BY DEF ReadLine
<1>2. /\ DOMAIN u = StatsFields
      /\ u.timeBlocks = a /\ u.widths = b /\ u.spellings = c
      /\ u.inOperand = FALSE /\ u.operandBytes = 0
  BY DEF During, Between, StatsFields
<1> HIDE DEF u
<1>3. /\ r = [x \in StatsFields |-> r[x]]
      /\ r["timeBlocks"] = a /\ r["widths"] = b /\ r["spellings"] = Append(c, line.spelling)
      /\ r["inOperand"] = FALSE /\ r["operandBytes"] = 0
  BY <1>2 DEF StatsFields
<1> HIDE DEF r
<1>4. r = Between(a, b, Append(c, line.spelling))
  <2> DEFINE w == Between(a, b, Append(c, line.spelling))
  <2>1. /\ w = [x \in StatsFields |-> w[x]]
        /\ w["timeBlocks"] = a /\ w["widths"] = b /\ w["spellings"] = Append(c, line.spelling)
        /\ w["inOperand"] = FALSE /\ w["operandBytes"] = 0
    BY DEF During, Between, StatsFields
  <2> HIDE DEF w
  <2>2. r = w
    BY <1>3, <2>1 DEF StatsFields
  <2> QED BY <2>2 DEF w
<1> QED BY <1>1, <1>4

\* A hex line counts while an operand is read.
LEMMA ReadHex ==
    ASSUME NEW line, line.kind = "hex", NEW a, NEW b, NEW c, NEW e
    PROVE  ReadLine(During(a, b, c, e), line) = During(a, b, c, e + line.pairs)
<1> DEFINE u == During(a, b, c, e)
           r == [u EXCEPT !.operandBytes = @ + line.pairs]
<1>2. /\ DOMAIN u = StatsFields
      /\ u.timeBlocks = a /\ u.widths = b /\ u.spellings = c
      /\ u.inOperand = TRUE /\ u.operandBytes = e
  BY DEF During, Between, StatsFields
<1> HIDE DEF u
<1>1. ReadLine(u, line) = r
  BY <1>2 DEF ReadLine
<1>3. /\ r = [x \in StatsFields |-> r[x]]
      /\ r["timeBlocks"] = a /\ r["widths"] = b /\ r["spellings"] = c
      /\ r["inOperand"] = TRUE /\ r["operandBytes"] = e + line.pairs
  BY <1>2 DEF StatsFields
<1> HIDE DEF r
<1>4. r = During(a, b, c, e + line.pairs)
  <2> DEFINE w == During(a, b, c, e + line.pairs)
  <2>1. /\ w = [x \in StatsFields |-> w[x]]
        /\ w["timeBlocks"] = a /\ w["widths"] = b /\ w["spellings"] = c
        /\ w["inOperand"] = TRUE /\ w["operandBytes"] = e + line.pairs
    BY DEF During, Between, StatsFields
  <2> HIDE DEF w
  <2>2. r = w
    BY <1>3, <2>1 DEF StatsFields
  <2> QED BY <2>2 DEF w
<1> QED BY <1>1, <1>4 DEF u

\* Every other line only ends an operand.
LEMMA ReadOther ==
    ASSUME NEW s, NEW line, line.kind \notin {"time", "at"},
           ~(line.kind = "hex" /\ s.inOperand)
    PROVE  ReadLine(s, line) = Flush(s)
BY DEF ReadLine

\* The lines of a kind up to line k, and what is told of a line.
To(t, kind, k) == {j \in 1 .. k : Kind(t, j) = kind}
Widths(t) == [j \in 1 .. Len(t) |-> WidthOf(t, j)]
Spellings(t) == [j \in 1 .. Len(t) |-> t[j].spelling]

\* After line k: no TIME line is being read, or the one on some line is.
Idle(t, k, s) ==
    \E p, q : /\ Lists(p, To(t, "time", k)) /\ Lists(q, To(t, "at", k))
              /\ s = Between(Cardinality(To(t, "time", k)), Mapped(Widths(t), p),
                           Mapped(Spellings(t), q))
BusyWith(t, k, s, m, p, q) ==
    /\ Kind(t, m) = "time" /\ \A j \in m + 1 .. k : Kind(t, j) = "hex"
    /\ Lists(p, To(t, "time", m - 1)) /\ Lists(q, To(t, "at", k))
    /\ s = During(Cardinality(To(t, "time", k)), Mapped(Widths(t), p),
                  Mapped(Spellings(t), q), Pairs(t, m + 1 .. k))
Busy(t, k, s) ==
    \E m \in 1 .. k : \E p, q : BusyWith(t, k, s, m, p, q)

\* One line more.
LEMMA ToNext ==
    ASSUME NEW t, NEW kind, NEW k \in Nat
    PROVE  /\ Kind(t, k + 1) = kind => To(t, kind, k + 1) = To(t, kind, k) \cup {k + 1}
           /\ Kind(t, k + 1) # kind => To(t, kind, k + 1) = To(t, kind, k)
           /\ \A x \in To(t, kind, k), y \in {k + 1} : x < y
<1>1. \A j : j \in 1 .. k + 1 <=> j \in 1 .. k \/ j = k + 1
  OBVIOUS
<1>2. \A j \in 1 .. k : j < k + 1
  OBVIOUS
<1> QED BY <1>1, <1>2 DEF To

\* The next line of a kind extends the list of those so far.
LEMMA ListsNext ==
    ASSUME NEW t, NEW kind, NEW k \in Nat, Kind(t, k + 1) = kind,
           NEW p, Lists(p, To(t, kind, k))
    PROVE  /\ Lists(p \o <<k + 1>>, To(t, kind, k + 1))
           /\ \A v : Mapped(v, p \o <<k + 1>>) = Append(Mapped(v, p), v[k + 1])
<1>1. Lists(<<k + 1>>, {k + 1}) /\ Sequence(<<k + 1>>) /\ Sequence(p)
  <2>1. k + 1 \in Nat
    OBVIOUS
  <2> QED BY <2>1, ListsOne DEF Lists
<1>2. /\ To(t, kind, k + 1) = To(t, kind, k) \cup {k + 1}
      /\ \A x \in To(t, kind, k), y \in {k + 1} : x < y
  BY ToNext
<1>3. Lists(p \o <<k + 1>>, To(t, kind, k + 1))
  BY <1>1, <1>2, ListsJoined
<1>4. ASSUME NEW v
      PROVE  Mapped(v, p \o <<k + 1>>) = Append(Mapped(v, p), v[k + 1])
  <2>1. Mapped(v, p \o <<k + 1>>) = Mapped(v, p) \o Mapped(v, <<k + 1>>)
    BY <1>1, MappedJoined
  <2>2. Mapped(v, <<k + 1>>) = <<v[k + 1]>>
    BY MappedOne
  <2> DEFINE x == Mapped(v, p)
             e == v[k + 1]
  <2>3. Len(p) \in Nat /\ x = [n \in 1 .. Len(p) |-> x[n]]
    BY <1>1, SequenceHas DEF Mapped
  <2> HIDE DEF x, e
  <2>4. Sequence(x)
    BY <2>3, SequenceIs
  <2>5. x \o <<e>> = Append(x, e)
    <3>1. x \in Seq(Range(x) \cup {e}) /\ e \in Range(x) \cup {e}
      BY <2>4 DEF Sequence
    <3> HIDE DEF Range
    <3> QED BY <3>1
  <2> QED BY <2>1, <2>2, <2>5 DEF x, e
<1> QED BY <1>3, <1>4

\* The end of an operand.
LEMMA Flushed ==
    ASSUME NEW t, Sequence(t), NEW k \in 0 .. Len(t), NEW s,
           Idle(t, k, s) \/ Busy(t, k, s),
           Busy(t, k, s) => (k < Len(t) => Kind(t, k + 1) # "hex")
    PROVE  Idle(t, k, Flush(s))
<1>1. Len(t) \in Nat
  BY SequenceHas
<1>2. CASE Idle(t, k, s)
  <2>1. PICK p, q : /\ Lists(p, To(t, "time", k)) /\ Lists(q, To(t, "at", k))
                    /\ s = Between(Cardinality(To(t, "time", k)), Mapped(Widths(t), p),
                                 Mapped(Spellings(t), q))
    BY <1>2 DEF Idle
  <2>2. Flush(s) = s
    BY <2>1, FlushIs
  <2> QED BY <1>2, <2>2
<1>3. CASE Busy(t, k, s)
  <2>m. PICK m \in 1 .. k : \E p, q : BusyWith(t, k, s, m, p, q)
    BY <1>3 DEF Busy
  <2>p. PICK p, q : BusyWith(t, k, s, m, p, q)
    BY <2>m
  <2>1. /\ Kind(t, m) = "time" /\ \A j \in m + 1 .. k : Kind(t, j) = "hex"
        /\ Lists(p, To(t, "time", m - 1)) /\ Lists(q, To(t, "at", k))
        /\ s = During(Cardinality(To(t, "time", k)), Mapped(Widths(t), p),
                     Mapped(Spellings(t), q), Pairs(t, m + 1 .. k))
    BY <2>p DEF BusyWith
  <2>2. Flush(s) = Between(Cardinality(To(t, "time", k)),
                         Append(Mapped(Widths(t), p), Pairs(t, m + 1 .. k)),
                         Mapped(Spellings(t), q))
    BY <2>1, FlushIs
  <2>3. m \in 1 .. Len(t) /\ m - 1 \in Nat /\ (m - 1) + 1 = m /\ k + 1 \in m + 1 .. Len(t) + 1
    BY <1>1
  <2>4. Widths(t)[m] = Pairs(t, m + 1 .. k)
    <3>1. (k + 1) - 1 = k /\ (k + 1 <= Len(t) => k < Len(t))
      BY <1>1
    <3>2. WidthOf(t, m) = Pairs(t, m + 1 .. (k + 1) - 1)
      BY <1>3, <2>1, <2>3, <3>1, WidthIs
    <3> QED BY <2>3, <3>1, <3>2 DEF Widths
  <2>5. /\ Lists(p \o <<m>>, To(t, "time", m))
        /\ Mapped(Widths(t), p \o <<m>>) = Append(Mapped(Widths(t), p), Widths(t)[m])
    <3> DEFINE h == m - 1
    <3>1. h \in Nat /\ m = h + 1 /\ Lists(p, To(t, "time", h)) /\ Kind(t, h + 1) = "time"
      BY <2>1, <2>3
    <3> HIDE DEF h
    <3>2. /\ Lists(p \o <<h + 1>>, To(t, "time", h + 1))
          /\ \A v : Mapped(v, p \o <<h + 1>>) = Append(Mapped(v, p), v[h + 1])
      BY <3>1, ListsNext
    <3> QED BY <3>1, <3>2
  <2>6. To(t, "time", m) = To(t, "time", k)
    <3>1. \A j \in 1 .. k : j \in 1 .. m \/ j \in m + 1 .. k
      BY <1>1
    <3>2. \A j \in 1 .. m : j \in 1 .. k
      BY <1>1
    <3> QED BY <2>1, <3>1, <3>2 DEF To
  <2>7. Lists(p \o <<m>>, To(t, "time", k))
    BY <2>5, <2>6
  <2>8. Flush(s) = Between(Cardinality(To(t, "time", k)), Mapped(Widths(t), p \o <<m>>),
                         Mapped(Spellings(t), q))
    BY <2>2, <2>4, <2>5
  <2> QED BY <2>1, <2>7, <2>8 DEF Idle
<1> QED BY <1>2, <1>3

\* One line of a text.
LEMMA LineRead ==
    ASSUME NEW t, IsParText(t), NEW k \in 0 .. Len(t) - 1, NEW s,
           Idle(t, k, s) \/ Busy(t, k, s)
    PROVE  \/ Idle(t, k + 1, ReadLine(s, t[k + 1]))
           \/ Busy(t, k + 1, ReadLine(s, t[k + 1]))
<1> DEFINE line == t[k + 1]
           r == ReadLine(s, line)
<1>1. /\ Len(t) \in Nat /\ k \in Nat /\ k \in 0 .. Len(t) /\ k + 1 \in 1 .. Len(t)
      /\ DOMAIN t = 1 .. Len(t) /\ Sequence(t)
  BY SequenceHas DEF IsParText
<1>2. Kind(t, k + 1) = line.kind
  BY DEF Kind
<1> HIDE DEF line, r
<1>3. line.kind # "time" => To(t, "time", k + 1) = To(t, "time", k)
  BY <1>1, <1>2, ToNext
<1>4. line.kind # "at" => To(t, "at", k + 1) = To(t, "at", k)
  BY <1>1, <1>2, ToNext
<1>5. CASE line.kind = "hex" /\ Busy(t, k, s)
  <2>m. PICK m \in 1 .. k : \E p, q : BusyWith(t, k, s, m, p, q)
    BY <1>5 DEF Busy
  <2>p. PICK p, q : BusyWith(t, k, s, m, p, q)
    BY <2>m
  <2>1. /\ Kind(t, m) = "time" /\ \A j \in m + 1 .. k : Kind(t, j) = "hex"
        /\ Lists(p, To(t, "time", m - 1)) /\ Lists(q, To(t, "at", k))
        /\ s = During(Cardinality(To(t, "time", k)), Mapped(Widths(t), p),
                     Mapped(Spellings(t), q), Pairs(t, m + 1 .. k))
    BY <2>p DEF BusyWith
  <2>2. r = During(Cardinality(To(t, "time", k)), Mapped(Widths(t), p),
                  Mapped(Spellings(t), q), Pairs(t, m + 1 .. k) + line.pairs)
    BY <1>5, <2>1, ReadHex DEF r
  <2>3. Pairs(t, m + 1 .. k + 1) = Pairs(t, m + 1 .. k) + line.pairs
    <3> DEFINE f == [j \in DOMAIN t |-> t[j].pairs]
    <3>1. m + 1 \in Nat /\ m + 1 <= k + 1 /\ \A j \in m + 1 .. k + 1 : j \in DOMAIN t
      BY <1>1
    <3>2. \A j \in m + 1 .. k + 1 : f[j] \in Nat
      BY <3>1 DEF IsParText
    <3>3. f[k + 1] = line.pairs
      BY <1>1 DEF line
    <3> HIDE DEF f
    <3>4. SumFunctionOnSet(f, m + 1 .. k + 1) = SumFunctionOnSet(f, m + 1 .. k) + f[k + 1]
      BY <1>1, <3>1, <3>2, SumNext
    <3> QED BY <3>3, <3>4 DEF f, Pairs
  <2>4. m \in 1 .. k + 1 /\ \A j \in m + 1 .. k + 1 : j = k + 1 \/ j \in m + 1 .. k
    BY <1>1
  <2>5. \A j \in m + 1 .. k + 1 : Kind(t, j) = "hex"
    BY <1>2, <1>5, <2>1, <2>4
  <2>6. Lists(q, To(t, "at", k + 1)) /\ To(t, "time", k + 1) = To(t, "time", k)
    BY <1>3, <1>4, <1>5, <2>1
  <2>7. r = During(Cardinality(To(t, "time", k + 1)), Mapped(Widths(t), p),
                  Mapped(Spellings(t), q), Pairs(t, m + 1 .. k + 1))
    BY <2>2, <2>3, <2>6
  <2>8. Busy(t, k + 1, r)
    BY <2>1, <2>4, <2>5, <2>6, <2>7 DEF Busy, BusyWith
  <2> QED BY <2>8 DEF r, line
<1>6. CASE ~(line.kind = "hex" /\ Busy(t, k, s))
  <2>1. Idle(t, k, Flush(s))
    BY <1>1, <1>2, <1>6, Flushed
  <2>2. PICK p, q : /\ Lists(p, To(t, "time", k)) /\ Lists(q, To(t, "at", k))
                    /\ Flush(s) = Between(Cardinality(To(t, "time", k)), Mapped(Widths(t), p),
                                        Mapped(Spellings(t), q))
    BY <2>1 DEF Idle
  <2>3. CASE line.kind = "time"
    <3>1. r = During(Cardinality(To(t, "time", k)) + 1, Mapped(Widths(t), p),
                    Mapped(Spellings(t), q), 0)
      BY <2>2, <2>3, ReadTime DEF r
    <3>2. Pairs(t, (k + 1) + 1 .. k + 1) = 0
      <4>1. (k + 1) + 1 .. k + 1 = {}
        BY <1>1
      <4> QED BY <4>1, SumNothing DEF Pairs
    <3>3. Cardinality(To(t, "time", k + 1)) = Cardinality(To(t, "time", k)) + 1
      <4>1. To(t, "time", k + 1) = To(t, "time", k) \cup {k + 1}
        BY <1>1, <1>2, <2>3, ToNext
      <4>2. k + 1 \notin To(t, "time", k)
        BY <1>1 DEF To
      <4>3. IsFiniteSet(To(t, "time", k))
        BY <2>2, ListsCount
      <4> QED BY <4>1, <4>2, <4>3, FS_AddElement
    <3>4. k + 1 \in 1 .. k + 1 /\ (k + 1) - 1 = k
      BY <1>1
    <3>5. \A j \in (k + 1) + 1 .. k + 1 : Kind(t, j) = "hex"
      BY <1>1
    <3>6. Lists(q, To(t, "at", k + 1)) /\ Lists(p, To(t, "time", (k + 1) - 1))
      BY <1>4, <2>2, <2>3, <3>4
    <3>7. r = During(Cardinality(To(t, "time", k + 1)), Mapped(Widths(t), p),
                    Mapped(Spellings(t), q), Pairs(t, (k + 1) + 1 .. k + 1))
      BY <3>1, <3>2, <3>3
    <3>8. Kind(t, k + 1) = "time"
      BY <1>2, <2>3
    <3>9. Busy(t, k + 1, r)
      BY <3>4, <3>5, <3>6, <3>7, <3>8 DEF Busy, BusyWith
    <3> QED BY <3>9 DEF r, line
  <2>4. CASE line.kind = "at"
    <3>1. r = Between(Cardinality(To(t, "time", k)), Mapped(Widths(t), p),
                    Append(Mapped(Spellings(t), q), line.spelling))
      BY <2>2, <2>4, ReadAt DEF r
    <3>2. /\ Lists(q \o <<k + 1>>, To(t, "at", k + 1))
          /\ Mapped(Spellings(t), q \o <<k + 1>>)
                = Append(Mapped(Spellings(t), q), Spellings(t)[k + 1])
      BY <1>1, <1>2, <2>2, <2>4, ListsNext
    <3>3. Spellings(t)[k + 1] = line.spelling
      BY <1>1 DEF Spellings, line
    <3>4. To(t, "time", k + 1) = To(t, "time", k)
      BY <1>3, <2>4
    <3>5. Lists(p, To(t, "time", k + 1))
      BY <2>2, <3>4
    <3>6. r = Between(Cardinality(To(t, "time", k + 1)), Mapped(Widths(t), p),
                    Mapped(Spellings(t), q \o <<k + 1>>))
      BY <3>1, <3>2, <3>3, <3>4
    <3>7. Idle(t, k + 1, r)
      BY <3>2, <3>5, <3>6 DEF Idle
    <3> QED BY <3>7 DEF r, line
  <2>5. CASE line.kind \notin {"time", "at"}
    <3>1. ~(line.kind = "hex" /\ s.inOperand)
      <4>1. CASE line.kind # "hex"
        BY <4>1
      <4>2. CASE line.kind = "hex"
        <5>1. Idle(t, k, s)
          BY <1>6, <4>2
        <5>2. PICK a, b, c : s = Between(a, b, c)
          BY <5>1 DEF Idle
        <5> QED BY <5>2 DEF Between
      <4> QED BY <4>1, <4>2
    <3>2. r = Flush(s)
      BY <2>5, <3>1, ReadOther DEF r
    <3>3. To(t, "time", k + 1) = To(t, "time", k) /\ To(t, "at", k + 1) = To(t, "at", k)
      BY <1>3, <1>4, <2>5
    <3>4. Idle(t, k + 1, r)
      BY <2>1, <3>2, <3>3 DEF Idle
    <3> QED BY <3>4 DEF r, line
  <2> QED BY <2>3, <2>4, <2>5
<1> QED BY <1>5, <1>6

\* So the statistics of a file are what stands in it.
LEMMA StatisticsAre ==
    ASSUME NEW t, IsParText(t)
    PROVE  ParFileStats(t) =
             [timeBlocks |-> CountTimeBlocks(t),
              widths |-> Mapped(Widths(t), InOrder(LinesOf(t, "time"))),
              spellings |-> Mapped(Spellings(t), InOrder(LinesOf(t, "at")))]
<1> DEFINE n == Len(t)
<1>1. n \in Nat /\ DOMAIN t = 1 .. n /\ Sequence(t)
  BY SequenceHas DEF IsParText
<1>2. PICK f : /\ IsReading(t, n, f)
               /\ ParFileStats(t) = [timeBlocks |-> Flush(f[n]).timeBlocks,
                                     widths |-> Flush(f[n]).widths,
                                     spellings |-> Flush(f[n]).spellings]
  BY <1>1, ReadingIs
<1> DEFINE K == {k \in 0 .. n : Idle(t, k, f[k]) \/ Busy(t, k, f[k])}
<1>3. 0 \in K
  <2>1. f[0] = NothingRead
    BY <1>1, <1>2 DEF IsReading
  <2>2. To(t, "time", 0) = {} /\ To(t, "at", 0) = {}
    BY DEF To
  <2>3. Cardinality({}) = 0
    BY FS_EmptySet
  <2>4. Mapped(Widths(t), <<>>) = <<>> /\ Mapped(Spellings(t), <<>>) = <<>>
    BY MappedOne
  <2>5. f[0] = Between(Cardinality(To(t, "time", 0)), Mapped(Widths(t), <<>>),
                     Mapped(Spellings(t), <<>>))
    BY <2>1, <2>2, <2>3, <2>4 DEF NothingRead, Between
  <2>6. Lists(<<>>, To(t, "time", 0)) /\ Lists(<<>>, To(t, "at", 0))
    BY <2>2, ListsNothing
  <2>7. Idle(t, 0, f[0])
    BY <2>5, <2>6 DEF Idle
  <2> QED BY <1>1, <2>7
<1>4. ASSUME NEW k \in 1 .. n, k - 1 \in K PROVE k \in K
  <2>1. k - 1 \in 0 .. n - 1 /\ (k - 1) + 1 = k /\ k \in 0 .. n /\ k # 0
    BY <1>1
  <2>2. Idle(t, k - 1, f[k - 1]) \/ Busy(t, k - 1, f[k - 1])
    BY <1>4
  <2>3. \/ Idle(t, (k - 1) + 1, ReadLine(f[k - 1], t[(k - 1) + 1]))
        \/ Busy(t, (k - 1) + 1, ReadLine(f[k - 1], t[(k - 1) + 1]))
    BY <2>1, <2>2, LineRead
  <2>4. f[k] = ReadLine(f[k - 1], t[k])
    BY <1>2, <2>1 DEF IsReading
  <2> QED BY <2>1, <2>3, <2>4
<1> HIDE DEF K, n
<1>5. n \in K
  <2>1. \A k \in 0 .. n : k \in K
    BY <1>1, <1>3, <1>4, InductionUpTo
  <2> QED BY <1>1, <2>1
<1>6. Idle(t, n, Flush(f[n]))
  <2>1. n \in 0 .. Len(t) /\ ~(n < Len(t))
    BY <1>1 DEF n
  <2> QED BY <1>1, <1>5, <2>1, Flushed DEF K
<1>7. PICK p, q : /\ Lists(p, To(t, "time", n)) /\ Lists(q, To(t, "at", n))
                  /\ Flush(f[n]) = Between(Cardinality(To(t, "time", n)), Mapped(Widths(t), p),
                                         Mapped(Spellings(t), q))
  BY <1>6 DEF Idle
<1>8. To(t, "time", n) = LinesOf(t, "time") /\ To(t, "at", n) = LinesOf(t, "at")
  BY <1>1 DEF To, LinesOf
<1>9. InOrder(LinesOf(t, "time")) = p /\ InOrder(LinesOf(t, "at")) = q
  BY <1>7, <1>8, ListsInOrder
<1>10. CountTimeBlocks(t) = Cardinality(To(t, "time", n))
  BY <1>8 DEF CountTimeBlocks, LinesOf
<1>11. /\ Flush(f[n]).timeBlocks = CountTimeBlocks(t)
       /\ Flush(f[n]).widths = Mapped(Widths(t), p)
       /\ Flush(f[n]).spellings = Mapped(Spellings(t), q)
  BY <1>7, <1>10 DEF Between
<1> QED BY <1>2, <1>9, <1>11
-----------------------------------------------------------------------------
(* Several files at once *)

\* b leads from each element of S to one of T, and to each of them once.
OneToOne(b, S, T) ==
    /\ b = [i \in S |-> b[i]]
    /\ \A i \in S : b[i] \in T
    /\ \A i, j \in S : b[i] = b[j] => i = j
    /\ \A x \in T : \E i \in S : b[i] = x

\* Then they are equally many.
LEMMA OneToOneCount ==
    ASSUME NEW b, NEW S, NEW T, IsFiniteSet(S), OneToOne(b, S, T)
    PROVE  IsFiniteSet(T) /\ Cardinality(T) = Cardinality(S)
<1>1. b \in [S -> T]
  BY DEF OneToOne
<1>2. b \in Bijection(S, T)
  BY <1>1 DEF OneToOne, Bijection, Injection, Surjection, IsInjective
<1>3. ExistsBijection(S, T)
  BY <1>2 DEF ExistsBijection
<1> QED BY <1>3, FS_Bijection

\* s tells of each element of X once, and v is what it tells.
Tells(s, X, v) ==
    Sequence(s) /\ \E b : OneToOne(b, 1 .. Len(s), X) /\ \A i \in 1 .. Len(s) : s[i] = v[b[i]]

\* Nothing tells of nothing.
LEMMA TellsNothing ==
    ASSUME NEW v
    PROVE  Tells(<<>>, {}, v)
<1>1. Sequence(<<>>) /\ Len(<<>>) = 0
  BY DEF Sequence
<1>2. 1 .. 0 = {}
  OBVIOUS
<1> DEFINE b == [i \in {} |-> i]
<1>3. OneToOne(b, {}, {})
  BY DEF OneToOne
<1> QED BY <1>1, <1>2, <1>3 DEF Tells

\* End to end, two sequences that tell of different things tell of both.
LEMMA TellsJoined ==
    ASSUME NEW s, NEW t, NEW X, NEW Y, NEW v, Tells(s, X, v), Tells(t, Y, v), X \cap Y = {}
    PROVE  Tells(s \o t, X \cup Y, v)
<1> DEFINE m == Len(s)
           n == Len(t)
           u == s \o t
<1>1. PICK a : OneToOne(a, 1 .. m, X) /\ \A i \in 1 .. m : s[i] = v[a[i]]
  BY DEF Tells
<1>2. PICK b : OneToOne(b, 1 .. n, Y) /\ \A i \in 1 .. n : t[i] = v[b[i]]
  BY DEF Tells
<1>3. /\ Sequence(u) /\ m \in Nat /\ n \in Nat /\ Len(u) = m + n
      /\ \A k \in 1 .. m : u[k] = s[k]
      /\ \A k \in 1 .. n : u[m + k] = t[k]
  BY Joined DEF Tells
<1> HIDE DEF m, n, u
<1>4. /\ \A i \in 1 .. m : a[i] \in X
      /\ \A i, j \in 1 .. m : a[i] = a[j] => i = j
      /\ \A x \in X : \E i \in 1 .. m : a[i] = x
  BY <1>1 DEF OneToOne
<1>5. /\ \A i \in 1 .. n : b[i] \in Y
      /\ \A i, j \in 1 .. n : b[i] = b[j] => i = j
      /\ \A x \in Y : \E i \in 1 .. n : b[i] = x
  BY <1>2 DEF OneToOne
<1> DEFINE c == [i \in 1 .. m + n |-> IF i <= m THEN a[i] ELSE b[i - m]]
<1>6. \A i \in 1 .. m : i \in 1 .. m + n /\ i <= m /\ c[i] = a[i]
  BY <1>3
<1>7. \A i \in 1 .. n : m + i \in 1 .. m + n /\ ~(m + i <= m) /\ (m + i) - m = i
  BY <1>3
<1>8. \A i \in 1 .. n : c[m + i] = b[i]
  BY <1>7
<1>9. \A i \in 1 .. m + n : i \in 1 .. m \/ \E k \in 1 .. n : i = m + k
  <2>1. TAKE i \in 1 .. m + n
  <2>2. CASE i <= m
    BY <1>3, <2>2
  <2>3. CASE ~(i <= m)
    <3>1. i - m \in 1 .. n /\ i = m + (i - m)
      BY <1>3, <2>3
    <3> QED BY <3>1
  <2> QED BY <2>2, <2>3
<1>10. c = [i \in 1 .. m + n |-> c[i]]
  OBVIOUS
<1> HIDE DEF c
<1>11. \A i \in 1 .. m + n : c[i] \in X \cup Y
  BY <1>4, <1>5, <1>6, <1>8, <1>9
<1>12. ASSUME NEW i \in 1 .. m + n, NEW j \in 1 .. m + n, c[i] = c[j] PROVE i = j
  <2>1. CASE i \in 1 .. m
    <3>1. c[i] \in X /\ c[i] = a[i]
      BY <1>4, <1>6, <2>1
    <3>2. CASE j \in 1 .. m
      BY <1>4, <1>6, <1>12, <2>1, <3>2
    <3>3. CASE \E k \in 1 .. n : j = m + k
      <4>1. c[j] \in Y
        BY <1>5, <1>8, <3>3
      <4> QED BY <1>12, <3>1, <4>1
    <3> QED BY <1>9, <3>2, <3>3
  <2>2. CASE \E k \in 1 .. n : i = m + k
    <3>1. PICK k \in 1 .. n : i = m + k
      BY <2>2
    <3>2. c[i] \in Y /\ c[i] = b[k]
      BY <1>5, <1>8, <3>1
    <3>3. CASE j \in 1 .. m
      <4>1. c[j] \in X
        BY <1>4, <1>6, <3>3
      <4> QED BY <1>12, <3>2, <4>1
    <3>4. CASE \E h \in 1 .. n : j = m + h
      <4>1. PICK h \in 1 .. n : j = m + h
        BY <3>4
      <4>2. c[j] = b[h]
        BY <1>8, <4>1
      <4>3. k = h
        BY <1>5, <1>12, <3>2, <4>2
      <4> QED BY <3>1, <4>1, <4>3
    <3> QED BY <1>9, <3>3, <3>4
  <2> QED BY <1>9, <2>1, <2>2
<1>13. \A x \in X \cup Y : \E i \in 1 .. m + n : c[i] = x
  <2>1. TAKE x \in X \cup Y
  <2>2. CASE x \in X
    BY <1>4, <1>6, <2>2
  <2>3. CASE x \in Y
    <3>1. PICK k \in 1 .. n : b[k] = x
      BY <1>5, <2>3
    <3>2. m + k \in 1 .. m + n /\ c[m + k] = x
      BY <1>7, <1>8, <3>1
    <3> QED BY <3>2
  <2> QED BY <2>2, <2>3
<1>14. OneToOne(c, 1 .. Len(u), X \cup Y)
  BY <1>3, <1>10, <1>11, <1>12, <1>13 DEF OneToOne
<1>15. \A i \in 1 .. Len(u) : u[i] = v[c[i]]
  <2>1. TAKE i \in 1 .. Len(u)
  <2>2. CASE i \in 1 .. m
    <3>1. u[i] = s[i] /\ s[i] = v[a[i]] /\ c[i] = a[i]
      BY <1>1, <1>3, <1>6, <2>2 DEF m
    <3> QED BY <3>1
  <2>3. CASE \E k \in 1 .. n : i = m + k
    <3>1. PICK k \in 1 .. n : i = m + k
      BY <2>3
    <3>2. u[i] = t[k] /\ t[k] = v[b[k]] /\ c[i] = b[k]
      BY <1>2, <1>3, <1>8, <3>1 DEF n
    <3> QED BY <3>2
  <2> QED BY <1>3, <1>9, <2>2, <2>3
<1>16. Tells(u, X \cup Y, v)
  BY <1>3, <1>14, <1>15 DEF Tells
<1> QED BY <1>16 DEF u

\* Lines of file i.
InFile(i, S) == {<<i, k>> : k \in S}

\* A list of lines tells of the lines, each as a line of file i.
LEMMA MappedTells ==
    ASSUME NEW S, NEW q, Lists(q, S), NEW i, NEW w, NEW v, \A k \in S : w[k] = v[<<i, k>>]
    PROVE  Tells(Mapped(w, q), InFile(i, S), v)
<1> DEFINE X == {<<i, k>> : k \in S}
           n == Len(q)
           b == [j \in 1 .. n |-> <<i, q[j]>>]
           s == Mapped(w, q)
<1>1. n \in Nat /\ s = [j \in 1 .. n |-> s[j]] /\ \A j \in 1 .. n : s[j] = w[q[j]]
  BY SequenceHas DEF Lists, Mapped
<1>2. /\ \A j \in 1 .. n : q[j] \in S /\ q[j] \in Nat
      /\ \A x \in S : \E j \in 1 .. n : q[j] = x
  BY DEF Lists
<1>3. \A j, h \in 1 .. n : q[j] = q[h] => j = h
  <2>1. TAKE j, h \in 1 .. n
  <2>2. (j < h => q[j] < q[h]) /\ (h < j => q[h] < q[j])
    BY DEF Lists
  <2> QED BY <1>1, <1>2, <2>2
<1>4. \A j \in 1 .. n : b[j] = <<i, q[j]>> /\ b[j] \in X
  BY <1>2
<1>5. \A j, h \in 1 .. n : b[j] = b[h] => j = h
  BY <1>3
<1>6. \A x \in X : \E j \in 1 .. n : b[j] = x
  BY <1>2
<1>7. b = [j \in 1 .. n |-> b[j]]
  OBVIOUS
<1>8. \A j \in 1 .. n : s[j] = v[b[j]]
  BY <1>1, <1>2
<1> HIDE DEF b, n, s, X
<1>9. OneToOne(b, 1 .. n, X)
  BY <1>4, <1>5, <1>6, <1>7 DEF OneToOne
<1>10. Sequence(s) /\ Len(s) = n
  BY <1>1, SequenceIs
<1>11. Tells(s, X, v)
  BY <1>8, <1>9, <1>10 DEF Tells
<1> QED BY <1>11 DEF s, X, InFile

\* What is told of each element may be told in other words.
LEMMA TellsOther ==
    ASSUME NEW s, NEW X, NEW v, Tells(s, X, v), NEW w, NEW r,
           r = [i \in DOMAIN s |-> r[i]],
           \A i \in 1 .. Len(s), x \in X : s[i] = v[x] => r[i] = w[x]
    PROVE  Tells(r, X, w)
<1>1. PICK b : OneToOne(b, 1 .. Len(s), X) /\ \A i \in 1 .. Len(s) : s[i] = v[b[i]]
  BY DEF Tells
<1>2. DOMAIN s = 1 .. Len(s) /\ Len(s) \in Nat
  BY SequenceHas DEF Tells
<1>3. Sequence(r) /\ Len(r) = Len(s)
  BY <1>2, SequenceIs
<1>4. \A i \in 1 .. Len(s) : b[i] \in X
  BY <1>1 DEF OneToOne
<1>5. \A i \in 1 .. Len(s) : r[i] = w[b[i]]
  BY <1>1, <1>4
<1> QED BY <1>1, <1>3, <1>5 DEF Tells

\* What is told, and of how many it is told.
Told(X, v) == {v[x] : x \in X}
Times(X, v, w) == Cardinality({x \in X : v[x] = w})

\* The length of a sequence, its set and its bag from what it tells.
LEMMA TellsOf ==
    ASSUME NEW s, NEW X, NEW v, Tells(s, X, v)
    PROVE  /\ IsFiniteSet(X) /\ Cardinality(X) = Len(s)
           /\ ToSet(s) = Told(X, v)
           /\ ToBag(s) = [w \in Told(X, v) |-> Times(X, v, w)]
<1> DEFINE n == Len(s)
<1>1. PICK b : OneToOne(b, 1 .. n, X) /\ \A i \in 1 .. n : s[i] = v[b[i]]
  BY DEF Tells
<1>2. n \in Nat /\ DOMAIN s = 1 .. n
  BY SequenceHas DEF Tells
<1>3. /\ \A i \in 1 .. n : b[i] \in X
      /\ \A i, j \in 1 .. n : b[i] = b[j] => i = j
      /\ \A x \in X : \E i \in 1 .. n : b[i] = x
  BY <1>1 DEF OneToOne
<1>4. IsFiniteSet(1 .. n) /\ Cardinality(1 .. n) = n
  BY <1>2, Counted
<1>5. IsFiniteSet(X) /\ Cardinality(X) = n
  BY <1>1, <1>4, OneToOneCount
<1>6. ToSet(s) = {v[x] : x \in X}
  <2>1. \A i \in 1 .. n : \E x \in X : s[i] = v[x]
    BY <1>1, <1>3
  <2>2. \A x \in X : \E i \in 1 .. n : s[i] = v[x]
    BY <1>1, <1>3
  <2> QED BY <1>2, <2>1, <2>2 DEF ToSet
<1>7. ASSUME NEW w
      PROVE  Cardinality({i \in DOMAIN s : s[i] = w}) = Cardinality({x \in X : v[x] = w})
  <2> DEFINE D == {i \in 1 .. n : s[i] = w}
             T == {x \in X : v[x] = w}
             c == [i \in D |-> b[i]]
  <2>1. \A i \in D : c[i] = b[i] /\ i \in 1 .. n
    OBVIOUS
  <2>2. \A i \in D : c[i] \in T
    BY <1>1, <1>3
  <2>3. \A i, j \in D : c[i] = c[j] => i = j
    BY <1>3, <2>1
  <2>4. \A x \in T : \E i \in D : c[i] = x
    <3>1. TAKE x \in T
    <3>2. PICK i \in 1 .. n : b[i] = x
      BY <1>3
    <3>3. i \in D
      BY <1>1, <3>2
    <3> QED BY <2>1, <3>2, <3>3
  <2>5. c = [i \in D |-> c[i]]
    OBVIOUS
  <2> HIDE DEF c
  <2>6. OneToOne(c, D, T)
    BY <2>2, <2>3, <2>4, <2>5 DEF OneToOne
  <2>7. IsFiniteSet(D)
    BY <1>4, FS_Subset
  <2>8. Cardinality(D) = Cardinality(T)
    BY <2>6, <2>7, OneToOneCount
  <2> QED BY <1>2, <2>8
<1>8. Range(s) = ToSet(s)
  BY DEF Range, ToSet
<1>9. ToBag(s) = [w \in {v[x] : x \in X} |-> Cardinality({x \in X : v[x] = w})]
  BY <1>6, <1>7, <1>8 DEF ToBag
<1> QED BY <1>5, <1>6, <1>9 DEF Told, Times

\* The function that FlattenSeq makes.
IsFlat(ss, n, f) == f = [i \in 1 .. n |-> IF i = 1 THEN ss[i] ELSE f[i - 1] \o ss[i]]

\* Such a function exists for every length.
LEMMA FlatExists ==
    ASSUME NEW ss
    PROVE  \A n \in Nat : \E f : IsFlat(ss, n, f)
<1> DEFINE N == {n \in Nat : \E f : IsFlat(ss, n, f)}
<1>1. 0 \in N
  <2> DEFINE f == [i \in 1 .. 0 |-> ss[i]]
  <2>1. 1 .. 0 = {}
    OBVIOUS
  <2>2. IsFlat(ss, 0, f)
    BY <2>1 DEF IsFlat
  <2> QED BY <2>2
<1>2. ASSUME NEW n \in Nat, n \in N PROVE n + 1 \in N
  <2>1. PICK f : IsFlat(ss, n, f)
    BY <1>2
  <2> DEFINE g == [i \in 1 .. n + 1 |-> IF i = 1 THEN ss[i] ELSE f[i - 1] \o ss[i]]
  <2>2. \A i \in 1 .. n : i \in 1 .. n + 1 /\ g[i] = f[i]
    <3>1. \A i \in 1 .. n : f[i] = IF i = 1 THEN ss[i] ELSE f[i - 1] \o ss[i]
      BY <2>1 DEF IsFlat
    <3>2. \A i \in 1 .. n : i \in 1 .. n + 1
      OBVIOUS
    <3>3. \A i \in 1 .. n + 1 : g[i] = IF i = 1 THEN ss[i] ELSE f[i - 1] \o ss[i]
      OBVIOUS
    <3> HIDE DEF g
    <3> QED BY <3>1, <3>2, <3>3
  <2>3. \A i \in 1 .. n + 1 : i # 1 => i - 1 \in 1 .. n
    OBVIOUS
  <2>4. \A i \in 1 .. n + 1 : i # 1 => g[i - 1] = f[i - 1]
    BY <2>2, <2>3
  <2>5. g = [i \in 1 .. n + 1 |-> IF i = 1 THEN ss[i] ELSE g[i - 1] \o ss[i]]
    BY <2>4
  <2> HIDE DEF g
  <2>6. IsFlat(ss, n + 1, g)
    BY <2>5 DEF IsFlat
  <2> QED BY <2>6
<1> HIDE DEF N
<1>3. \A n \in Nat : n \in N
  BY <1>1, <1>2, Induction
<1> QED BY <1>3 DEF N

\* It is what FlattenSeq looks at.
LEMMA FlatIs ==
    ASSUME NEW ss, Sequence(ss)
    PROVE  /\ Len(ss) = 0 => FlattenSeq(ss) = <<>>
           /\ Len(ss) # 0 =>
                 \E f : IsFlat(ss, Len(ss), f) /\ FlattenSeq(ss) = f[Len(ss)]
<1>1. Len(ss) \in Nat /\ ss = [i \in 1 .. Len(ss) |-> ss[i]]
  BY SequenceHas
<1>2. CASE Len(ss) = 0
  <2>1. ss = [i \in 1 .. 0 |-> ss[i]]
    BY <1>1, <1>2, Zenon
  <2>2. ss = <<>>
    BY <2>1
  <2>3. FlattenSeq(ss) = ss
    BY <1>2 DEF FlattenSeq
  <2> QED BY <1>2, <2>2, <2>3
<1>3. CASE Len(ss) # 0
  <2> DEFINE f == CHOOSE f : IsFlat(ss, Len(ss), f)
  <2>1. IsFlat(ss, Len(ss), f)
    BY <1>1, FlatExists
  <2>2. FlattenSeq(ss) = f[Len(ss)]
    BY <1>3 DEF IsFlat, FlattenSeq
  <2> HIDE DEF f
  <2> QED BY <1>3, <2>1, <2>2
<1> QED BY <1>2, <1>3

\* Everything in the first n of some sets.
AllOf(n, X) == UNION {X[i] : i \in 1 .. n}

\* Flattened, sequences that tell of different things tell of all of them.
LEMMA FlatTells ==
    ASSUME NEW n \in Nat, NEW ss, ss = [i \in 1 .. n |-> ss[i]], NEW X, NEW v,
           \A i \in 1 .. n : Tells(ss[i], X[i], v),
           \A i, j \in 1 .. n : i # j => X[i] \cap X[j] = {}
    PROVE  Tells(FlattenSeq(ss), AllOf(n, X), v)
<1> DEFINE U(k) == UNION {X[i] : i \in 1 .. k}
<1>1. Sequence(ss) /\ Len(ss) = n
  BY SequenceIs
<1>2. CASE n = 0
  <2>1. U(0) = {}
    OBVIOUS
  <2>2. FlattenSeq(ss) = <<>>
    BY <1>1, <1>2, FlatIs
  <2>3. AllOf(n, X) = {}
    BY <1>2, <2>1 DEF AllOf
  <2> QED BY <2>2, <2>3, TellsNothing
<1>3. CASE n # 0
  <2>1. PICK f : IsFlat(ss, n, f) /\ FlattenSeq(ss) = f[n]
    BY <1>1, <1>3, FlatIs
  <2> DEFINE K == {k \in 0 .. n : k = 0 \/ Tells(f[k], U(k), v)}
  <2>2. 0 \in K
    OBVIOUS
  <2>4. \A k \in 1 .. n : Tells(f[k], U(k), v) => k \in K
    OBVIOUS
  <2>3. ASSUME NEW k \in 1 .. n, k - 1 \in K PROVE k \in K
    <3>1. f[k] = IF k = 1 THEN ss[k] ELSE f[k - 1] \o ss[k]
      BY <2>1 DEF IsFlat
    <3>2. CASE k = 1
      <4>1. U(1) = X[1]
        <5>1. \A i \in 1 .. 1 : i = 1
          OBVIOUS
        <5>2. 1 \in 1 .. 1
          OBVIOUS
        <5> QED BY <5>1, <5>2
      <4>2. f[1] = ss[1] /\ 1 \in 1 .. n
        BY <3>1, <3>2
      <4> HIDE DEF U
      <4>3. Tells(f[1], U(1), v)
        BY <4>1, <4>2
      <4> QED BY <2>4, <3>2, <4>3
    <3>3. CASE k # 1
      <4>1. k - 1 # 0 /\ k - 1 \in 1 .. n
        BY <3>3
      <4>2. Tells(f[k - 1], U(k - 1), v)
        BY <2>3, <4>1
      <4>3. U(k - 1) \cap X[k] = {}
        <5>1. \A i \in 1 .. k - 1 : i \in 1 .. n /\ i # k
          OBVIOUS
        <5> QED BY <5>1
      <4>4. U(k) = U(k - 1) \cup X[k]
        <5>1. \A i \in 1 .. k : i = k \/ i \in 1 .. k - 1
          OBVIOUS
        <5>2. \A i \in 1 .. k - 1 : i \in 1 .. k
          OBVIOUS
        <5>3. k \in 1 .. k
          OBVIOUS
        <5> QED BY <5>1, <5>2, <5>3
      <4> HIDE DEF U
      <4>5. Tells(f[k - 1] \o ss[k], U(k - 1) \cup X[k], v)
        BY <4>2, <4>3, TellsJoined
      <4>6. f[k] = f[k - 1] \o ss[k]
        BY <3>1, <3>3
      <4>7. Tells(f[k], U(k), v)
        BY <4>4, <4>5, <4>6
      <4> QED BY <2>4, <4>7
    <3> QED BY <3>2, <3>3
  <2> HIDE DEF K
  <2>5. n \in K
    <3>1. \A k \in 0 .. n : k \in K
      BY <2>2, <2>3, InductionUpTo
    <3> QED BY <3>1
  <2>6. Tells(f[n], U(n), v)
    BY <1>3, <2>5 DEF K
  <2>7. AllOf(n, X) = U(n)
    BY DEF AllOf
  <2> HIDE DEF U
  <2> QED BY <2>1, <2>6, <2>7
<1> QED BY <1>2, <1>3

\* Flattened, sequences are as long as all of them.
LEMMA FlatLength ==
    ASSUME NEW n \in Nat, NEW ss, ss = [i \in 1 .. n |-> ss[i]],
           \A i \in 1 .. n : Sequence(ss[i])
    PROVE  Len(FlattenSeq(ss)) = SumFunction([i \in 1 .. n |-> Len(ss[i])])
<1> DEFINE L == [i \in 1 .. n |-> Len(ss[i])]
           sum(k) == SumFunctionOnSet(L, 1 .. k)
<1>1. Sequence(ss) /\ Len(ss) = n
  BY SequenceIs
<1>2. \A i \in 1 .. n : L[i] = Len(ss[i]) /\ L[i] \in Nat
  BY SequenceHas
<1>3. SumFunction(L) = sum(n)
  BY DEF SumFunction
<1> HIDE DEF L
<1>4. sum(0) = 0
  <2>1. 1 .. 0 = {}
    OBVIOUS
  <2> QED BY <2>1, SumNothing
<1>5. CASE n = 0
  <2>1. FlattenSeq(ss) = <<>>
    BY <1>1, <1>5, FlatIs
  <2>2. Len(<<>>) = 0
    OBVIOUS
  <2> HIDE DEF sum
  <2> QED BY <1>3, <1>4, <1>5, <2>1, <2>2 DEF L
<1>6. CASE n # 0
  <2>1. PICK f : IsFlat(ss, n, f) /\ FlattenSeq(ss) = f[n]
    BY <1>1, <1>6, FlatIs
  <2> DEFINE K == {k \in 0 .. n : k = 0 \/ (Sequence(f[k]) /\ Len(f[k]) = sum(k))}
  <2>2. 0 \in K
    OBVIOUS
  <2>3. ASSUME NEW k \in 1 .. n, k - 1 \in K PROVE k \in K
    <3>1. f[k] = IF k = 1 THEN ss[k] ELSE f[k - 1] \o ss[k]
      BY <2>1 DEF IsFlat
    <3>2. sum(k - 1) \in Nat /\ sum(k) = sum(k - 1) + L[k]
      <4> DEFINE h == k - 1
      <4>1. h \in Nat /\ k = h + 1 /\ 1 <= h + 1 /\ \A x \in 1 .. h + 1 : L[x] \in Nat
        BY <1>2
      <4> HIDE DEF h
      <4>2. /\ SumFunctionOnSet(L, 1 .. h) \in Nat
            /\ SumFunctionOnSet(L, 1 .. h + 1) = SumFunctionOnSet(L, 1 .. h) + L[h + 1]
        BY <4>1, SumNext
      <4> QED BY <4>1, <4>2 DEF h
    <3> HIDE DEF sum
    <3>3. CASE k = 1
      <4>1. f[1] = ss[1] /\ 1 \in 1 .. n
        BY <3>1, <3>3
      <4>2. sum(1) = Len(ss[1])
        BY <1>2, <1>4, <3>2, <3>3
      <4> QED BY <3>3, <4>1, <4>2
    <3>4. CASE k # 1
      <4>1. k - 1 # 0
        BY <3>4
      <4>2. Sequence(f[k - 1]) /\ Len(f[k - 1]) = sum(k - 1) /\ Sequence(ss[k])
        BY <2>3, <4>1
      <4>3. Sequence(f[k - 1] \o ss[k]) /\ Len(f[k - 1] \o ss[k]) = sum(k - 1) + Len(ss[k])
        BY <4>2, Joined
      <4>4. f[k] = f[k - 1] \o ss[k]
        BY <3>1, <3>4
      <4>5. Len(f[k]) = sum(k)
        BY <1>2, <3>2, <4>3, <4>4
      <4>6. Sequence(f[k])
        BY <4>3, <4>4
      <4> QED BY <4>5, <4>6
    <3> QED BY <3>3, <3>4
  <2> HIDE DEF K, sum
  <2>4. n \in K
    <3>1. \A k \in 0 .. n : k \in K
      BY <2>2, <2>3, InductionUpTo
    <3> QED BY <3>1
  <2>5. Len(f[n]) = sum(n)
    BY <1>6, <2>4 DEF K
  <2> QED BY <1>3, <2>1, <2>5 DEF L
<1> QED BY <1>5, <1>6

\* Two sequences that tell of what a third one tells make up its bag.
LEMMA BagsAdd ==
    ASSUME NEW s, NEW r, NEW u, NEW X, NEW Y, NEW v, X \cap Y = {},
           Tells(s, X \cup Y, v), Tells(r, X, v), Tells(u, Y, v)
    PROVE  ToBag(s) = ToBag(r) (+) ToBag(u) /\ Len(s) = Len(r) + Len(u)
<1>1. /\ IsFiniteSet(X) /\ Cardinality(X) = Len(r)
      /\ DOMAIN ToBag(r) = Told(X, v) /\ \A w \in Told(X, v) : ToBag(r)[w] = Times(X, v, w)
  BY TellsOf
<1>2. /\ IsFiniteSet(Y) /\ Cardinality(Y) = Len(u)
      /\ DOMAIN ToBag(u) = Told(Y, v) /\ \A w \in Told(Y, v) : ToBag(u)[w] = Times(Y, v, w)
  BY TellsOf
<1>3. /\ Cardinality(X \cup Y) = Len(s)
      /\ ToBag(s) = [w \in Told(X \cup Y, v) |-> Times(X \cup Y, v, w)]
  BY TellsOf
<1>4. IsFiniteSet({}) /\ Cardinality({}) = 0
  BY FS_EmptySet
<1>5. ASSUME NEW A, NEW B, A \subseteq X, B \subseteq Y
      PROVE  /\ Cardinality(A \cup B) = Cardinality(A) + Cardinality(B)
             /\ Cardinality(A) \in Nat /\ Cardinality(B) \in Nat
  <2>1. IsFiniteSet(A) /\ IsFiniteSet(B)
    BY <1>1, <1>2, <1>5, FS_Subset
  <2>2. A \cap B = {}
    BY <1>5
  <2>3. Cardinality(A \cup B) = Cardinality(A) + Cardinality(B) - Cardinality(A \cap B)
    BY <2>1, FS_Union
  <2>4. Cardinality(A) \in Nat /\ Cardinality(B) \in Nat
    BY <2>1, FS_CardinalityType
  <2>5. Cardinality(A \cap B) = 0
    BY <1>4, <2>2, Zenon
  <2> QED BY <2>3, <2>4, <2>5
<1>6. Len(s) = Len(r) + Len(u)
  <2>1. Cardinality(X \cup Y) = Cardinality(X) + Cardinality(Y)
    BY <1>5
  <2> QED BY <1>1, <1>2, <1>3, <2>1
<1>7. \A w : /\ Times(X \cup Y, v, w) = Times(X, v, w) + Times(Y, v, w)
             /\ Times(X, v, w) \in Nat /\ Times(Y, v, w) \in Nat
  <2>1. TAKE w
  <2> DEFINE A == {x \in X : v[x] = w}
             B == {x \in Y : v[x] = w}
  <2>2. {x \in X \cup Y : v[x] = w} = A \cup B
    OBVIOUS
  <2>3. A \subseteq X /\ B \subseteq Y
    OBVIOUS
  <2>4. /\ Times(X, v, w) = Cardinality(A) /\ Times(Y, v, w) = Cardinality(B)
        /\ Times(X \cup Y, v, w) = Cardinality(A \cup B)
    BY <2>2 DEF Times
  <2> HIDE DEF A, B
  <2>5. /\ Cardinality(A \cup B) = Cardinality(A) + Cardinality(B)
        /\ Cardinality(A) \in Nat /\ Cardinality(B) \in Nat
    BY <1>5, <2>3, Zenon
  <2> QED BY <2>4, <2>5
<1>8. \A w : /\ w \notin Told(X, v) => Times(X, v, w) = 0
             /\ w \notin Told(Y, v) => Times(Y, v, w) = 0
  <2>1. TAKE w
  <2>2. w \notin Told(X, v) => {x \in X : v[x] = w} = {}
    BY DEF Told
  <2>3. w \notin Told(Y, v) => {x \in Y : v[x] = w} = {}
    BY DEF Told
  <2> QED BY <1>4, <2>2, <2>3, Zenon DEF Times
<1>9. Told(X \cup Y, v) = Told(X, v) \cup Told(Y, v)
  BY DEF Told
<1> DEFINE P == ToBag(r)
           Q == ToBag(u)
<1>10. /\ DOMAIN P = Told(X, v) /\ \A w \in Told(X, v) : P[w] = Times(X, v, w)
       /\ DOMAIN Q = Told(Y, v) /\ \A w \in Told(Y, v) : Q[w] = Times(Y, v, w)
  BY <1>1, <1>2
<1> HIDE DEF P, Q
<1>11. \A w : (IF w \in DOMAIN P THEN P[w] ELSE 0) = Times(X, v, w)
  BY <1>8, <1>10
<1>12. \A w : (IF w \in DOMAIN Q THEN Q[w] ELSE 0) = Times(Y, v, w)
  BY <1>8, <1>10
<1>13. P (+) Q = [w \in Told(X, v) \cup Told(Y, v) |-> Times(X, v, w) + Times(Y, v, w)]
  BY <1>10, <1>11, <1>12 DEF (+)
<1>14. ToBag(s) = P (+) Q
  BY <1>3, <1>7, <1>9, <1>13
<1> QED BY <1>6, <1>14 DEF P, Q
-----------------------------------------------------------------------------
(* The totals over the files *)

\* Places in a list of texts: lines S[i] of text i.
Places(S) == UNION {InFile(i, S[i]) : i \in DOMAIN S}
ParTexts(T) == Sequence(T) /\ \A i \in 1 .. Len(T) : IsParText(T[i])
Lines(T, kind) == [i \in 1 .. Len(T) |-> LinesOf(T[i], kind)]

\* The TIME lines of a text under the directive on line k, under any, and
\* under none.
UnderLine(t, k) == {j \in LinesOf(t, "time") : Under(t, k, j)}
UnderAny(t) == {j \in LinesOf(t, "time") : \E k \in DOMAIN t : Under(t, k, j)}
UnderNone(t) == {j \in LinesOf(t, "time") : ~\E k \in DOMAIN t : Under(t, k, j)}
Covered(T) == [i \in 1 .. Len(T) |-> UnderAny(T[i])]
Strays(T) == [i \in 1 .. Len(T) |-> UnderNone(T[i])]

\* What there is to tell of a place.
WidthAt(T) == [x \in Places(Lines(T, "time")) |-> WidthOf(T[x[1]], x[2])]
SeenAt(T) == [x \in Places(Lines(T, "time")) |->
                 [line |-> x[2], width |-> WidthOf(T[x[1]], x[2])]]
SpellingAt(T) == [x \in Places(Lines(T, "at")) |-> T[x[1]][x[2]].spelling]
AllBlocks(T) == [x \in Places(Lines(T, "at")) |-> BlockAt(T[x[1]], x[2])]

\* A place is a file and a line.
LEMMA PlaceIs ==
    ASSUME NEW n, NEW S, DOMAIN S = 1 .. n
    PROVE  /\ \A i \in 1 .. n : \A k \in S[i] :
                 <<i, k>> \in Places(S) /\ <<i, k>>[1] = i /\ <<i, k>>[2] = k
           /\ \A x \in Places(S) :
                 /\ x[1] \in 1 .. n /\ x[2] \in S[x[1]] /\ x = <<x[1], x[2]>>
<1>1. \A i \in 1 .. n : \A k \in S[i] :
          <<i, k>> \in Places(S) /\ <<i, k>>[1] = i /\ <<i, k>>[2] = k
  BY DEF Places, InFile
<1>2. ASSUME NEW x \in Places(S)
      PROVE  x[1] \in 1 .. n /\ x[2] \in S[x[1]] /\ x = <<x[1], x[2]>>
  <2>1. PICK i \in 1 .. n : \E k \in S[i] : x = <<i, k>>
    BY DEF Places, InFile
  <2>2. PICK k \in S[i] : x = <<i, k>>
    BY <2>1
  <2> QED BY <2>1, <2>2
<1> QED BY <1>1, <1>2

\* The lines of a text.
LEMMA LinesIn ==
    ASSUME NEW T, ParTexts(T), NEW i \in 1 .. Len(T), NEW kind
    PROVE  /\ Sequence(T[i]) /\ Len(T[i]) \in Nat /\ DOMAIN T[i] = 1 .. Len(T[i])
           /\ Lines(T, kind)[i] = LinesOf(T[i], kind)
           /\ LinesOf(T[i], kind) \in SUBSET (1 .. Len(T[i]))
<1>1. Sequence(T[i])
  BY DEF ParTexts, IsParText
<1>2. Len(T[i]) \in Nat /\ DOMAIN T[i] = 1 .. Len(T[i])
  BY <1>1, SequenceHas
<1>3. LinesOf(T[i], kind) \in SUBSET (1 .. Len(T[i]))
  BY <1>2 DEF LinesOf
<1> QED BY <1>1, <1>2, <1>3 DEF Lines

\* Lists of lines, one for each file, tell together of all the places.
LEMMA FilesTell ==
    ASSUME NEW n \in Nat, NEW S, DOMAIN S = 1 .. n,
           NEW m, \A i \in 1 .. n : m[i] \in Nat /\ S[i] \in SUBSET (1 .. m[i]),
           NEW v, NEW w, \A i \in 1 .. n : \A k \in S[i] : w[i][k] = v[<<i, k>>],
           NEW ss, ss = [i \in 1 .. n |-> ss[i]],
           \A i \in 1 .. n : ss[i] = Mapped(w[i], InOrder(S[i]))
    PROVE  Tells(FlattenSeq(ss), Places(S), v)
<1> DEFINE X == [i \in 1 .. n |-> InFile(i, S[i])]
<1>1. ASSUME NEW i \in 1 .. n PROVE Tells(ss[i], X[i], v)
  <2>1. Lists(InOrder(S[i]), S[i])
    BY InOrderLists
  <2> DEFINE u == w[i]
             R == S[i]
  <2>2. \A k \in R : u[k] = v[<<i, k>>]
    OBVIOUS
  <2> HIDE DEF u, R
  <2>3. Tells(Mapped(u, InOrder(R)), InFile(i, R), v)
    <3> DEFINE q == InOrder(R)
    <3>1. Lists(q, R)
      BY <2>1 DEF R
    <3> HIDE DEF q
    <3>2. Tells(Mapped(u, q), InFile(i, R), v)
      BY <2>2, <3>1, MappedTells
    <3> QED BY <3>2 DEF q
  <2>4. X[i] = InFile(i, R)
    BY DEF R
  <2> QED BY <2>3, <2>4 DEF u, R
<1>2. \A i, j \in 1 .. n : i # j => X[i] \cap X[j] = {}
  BY DEF InFile
<1>3. Places(S) = AllOf(n, X)
  BY DEF Places, AllOf
<1> HIDE DEF X
<1>4. Tells(FlattenSeq(ss), AllOf(n, X), v)
  BY <1>1, <1>2, FlatTells
<1> QED BY <1>3, <1>4

\* The widths and the spellings that the manifest counts.
LEMMA StatisticsTell ==
    ASSUME NEW T, ParTexts(T)
    PROVE  /\ Tells(FlattenSeq([i \in 1 .. Len(T) |-> ParFileStats(T[i]).widths]),
                    Places(Lines(T, "time")), WidthAt(T))
           /\ Tells(FlattenSeq([i \in 1 .. Len(T) |-> ParFileStats(T[i]).spellings]),
                    Places(Lines(T, "at")), SpellingAt(T))
<1> DEFINE n == Len(T)
           ww == [i \in 1 .. n |-> ParFileStats(T[i]).widths]
           ss == [i \in 1 .. n |-> ParFileStats(T[i]).spellings]
           m == [i \in 1 .. n |-> Len(T[i])]
<1>1. n \in Nat
  BY SequenceHas DEF ParTexts
<1>2. \A i \in 1 .. n : /\ ww[i] = Mapped(Widths(T[i]), InOrder(LinesOf(T[i], "time")))
                        /\ ss[i] = Mapped(Spellings(T[i]), InOrder(LinesOf(T[i], "at")))
  BY StatisticsAre DEF ParTexts
<1>3. /\ ww = [i \in 1 .. n |-> ww[i]] /\ ss = [i \in 1 .. n |-> ss[i]]
      /\ \A i \in 1 .. n : m[i] = Len(T[i])
  OBVIOUS
<1> HIDE DEF n, ww, ss, m
<1>4. Tells(FlattenSeq(ww), Places(Lines(T, "time")), WidthAt(T))
  <2> DEFINE S == Lines(T, "time")
             w == [i \in 1 .. n |-> Widths(T[i])]
             v == WidthAt(T)
  <2>1. DOMAIN S = 1 .. n
    BY DEF Lines, n
  <2>2. \A i \in 1 .. n : m[i] \in Nat /\ S[i] \in SUBSET (1 .. m[i])
                          /\ S[i] = LinesOf(T[i], "time")
    BY <1>3, LinesIn DEF n
  <2>3. ASSUME NEW i \in 1 .. n, NEW k \in S[i] PROVE w[i][k] = v[<<i, k>>]
    <3>1. k \in 1 .. Len(T[i])
      BY <1>3, <2>2
    <3>2. <<i, k>> \in Places(S)
      BY <2>1, PlaceIs
    <3>3. v[<<i, k>>] = WidthOf(T[i], k)
      BY <3>2 DEF WidthAt
    <3> QED BY <3>1, <3>3 DEF Widths
  <2>4. \A i \in 1 .. n : ww[i] = Mapped(w[i], InOrder(S[i]))
    BY <1>2, <2>2
  <2> HIDE DEF S, w, v
  <2>5. \A i \in 1 .. n : m[i] \in Nat /\ S[i] \in SUBSET (1 .. m[i])
    BY <2>2
  <2>6. \A i \in 1 .. n : \A k \in S[i] : w[i][k] = v[<<i, k>>]
    BY <2>3
  <2>7. ww = [i \in 1 .. n |-> ww[i]]
    BY <1>3
  <2>8. Tells(FlattenSeq(ww), Places(S), v)
    BY <1>1, <2>1, <2>4, <2>5, <2>6, <2>7, FilesTell, ZenonT(30)
  <2> QED BY <2>8 DEF S, v
<1>5. Tells(FlattenSeq(ss), Places(Lines(T, "at")), SpellingAt(T))
  <2> DEFINE S == Lines(T, "at")
             w == [i \in 1 .. n |-> Spellings(T[i])]
             v == SpellingAt(T)
  <2>1. DOMAIN S = 1 .. n
    BY DEF Lines, n
  <2>2. \A i \in 1 .. n : m[i] \in Nat /\ S[i] \in SUBSET (1 .. m[i])
                          /\ S[i] = LinesOf(T[i], "at")
    BY <1>3, LinesIn DEF n
  <2>3. ASSUME NEW i \in 1 .. n, NEW k \in S[i] PROVE w[i][k] = v[<<i, k>>]
    <3>1. k \in 1 .. Len(T[i])
      BY <1>3, <2>2
    <3>2. <<i, k>> \in Places(S)
      BY <2>1, PlaceIs
    <3>3. v[<<i, k>>] = T[i][k].spelling
      BY <3>2 DEF SpellingAt
    <3> QED BY <3>1, <3>3 DEF Spellings
  <2>4. \A i \in 1 .. n : ss[i] = Mapped(w[i], InOrder(S[i]))
    BY <1>2, <2>2
  <2> HIDE DEF S, w, v
  <2>5. \A i \in 1 .. n : m[i] \in Nat /\ S[i] \in SUBSET (1 .. m[i])
    BY <2>2
  <2>6. \A i \in 1 .. n : \A k \in S[i] : w[i][k] = v[<<i, k>>]
    BY <2>3
  <2>7. ss = [i \in 1 .. n |-> ss[i]]
    BY <1>3
  <2>8. Tells(FlattenSeq(ss), Places(S), v)
    BY <1>1, <2>1, <2>4, <2>5, <2>6, <2>7, FilesTell, ZenonT(30)
  <2> QED BY <2>8 DEF S, v
<1> QED BY <1>4, <1>5 DEF n, ww, ss

\* The blocks that parse_par makes of the files.
LEMMA BlocksTell ==
    ASSUME NEW T, ParTexts(T)
    PROVE  Tells(FlattenSeq([i \in 1 .. Len(T) |-> OpcodeBlocks(T[i])]),
                 Places(Lines(T, "at")), AllBlocks(T))
<1> DEFINE n == Len(T)
           ss == [i \in 1 .. n |-> OpcodeBlocks(T[i])]
           m == [i \in 1 .. n |-> Len(T[i])]
           S == Lines(T, "at")
           w == [i \in 1 .. n |-> Blocks(T[i])]
           v == AllBlocks(T)
<1>1. n \in Nat
  BY SequenceHas DEF ParTexts
<1>2. \A i \in 1 .. n : ss[i] = Mapped(Blocks(T[i]), InOrder(LinesOf(T[i], "at")))
  BY OpcodeBlocksAre, LinesIn
<1>3. ss = [i \in 1 .. n |-> ss[i]] /\ \A i \in 1 .. n : m[i] = Len(T[i])
  OBVIOUS
<1> HIDE DEF n, ss, m
<1>4. DOMAIN S = 1 .. n
  BY DEF Lines, n
<1>5. \A i \in 1 .. n : m[i] \in Nat /\ S[i] \in SUBSET (1 .. m[i])
                        /\ S[i] = LinesOf(T[i], "at")
  BY <1>3, LinesIn DEF n
<1>6. ASSUME NEW i \in 1 .. n, NEW k \in S[i] PROVE w[i][k] = v[<<i, k>>]
  <2>1. k \in 1 .. Len(T[i])
    BY <1>3, <1>5
  <2>2. <<i, k>> \in Places(S)
    BY <1>4, PlaceIs
  <2>3. v[<<i, k>>] = BlockAt(T[i], k)
    BY <2>2 DEF AllBlocks
  <2> QED BY <2>1, <2>3 DEF Blocks
<1>7. \A i \in 1 .. n : ss[i] = Mapped(w[i], InOrder(S[i]))
  BY <1>2, <1>5
<1> HIDE DEF S, w, v
<1>8. Tells(FlattenSeq(ss), Places(S), v)
  BY <1>1, <1>3, <1>4, <1>5, <1>6, <1>7, FilesTell, ZenonT(30)
<1> QED BY <1>8 DEF S, v, ss, n

\* A pair of a file and one of its lines is a place.
LEMMA PlaceOf ==
    ASSUME NEW n, NEW S, DOMAIN S = 1 .. n,
           NEW x, x[1] \in 1 .. n, x[2] \in S[x[1]], x = <<x[1], x[2]>>
    PROVE  x \in Places(S)
<1> DEFINE i == x[1]
           k == x[2]
<1>1. i \in 1 .. n /\ k \in S[i] /\ x = <<i, k>>
  OBVIOUS
<1> HIDE DEF i, k
<1>2. <<i, k>> \in Places(S)
  BY <1>1, PlaceIs
<1> QED BY <1>1, <1>2

\* Each TIME line is under a directive or under none.
LEMMA Parted ==
    ASSUME NEW T, ParTexts(T)
    PROVE  /\ Places(Covered(T)) \cap Places(Strays(T)) = {}
           /\ Places(Covered(T)) \cup Places(Strays(T)) = Places(Lines(T, "time"))
<1> DEFINE n == Len(T)
           A == Covered(T)
           B == Strays(T)
           S == Lines(T, "time")
<1>1. DOMAIN A = 1 .. n /\ DOMAIN B = 1 .. n /\ DOMAIN S = 1 .. n
  BY DEF Covered, Strays, Lines
<1>2. \A i \in 1 .. n : A[i] \cap B[i] = {} /\ A[i] \cup B[i] = S[i]
  BY DEF Covered, Strays, Lines, UnderAny, UnderNone
<1> HIDE DEF A, B, S, n
<1>3. ASSUME NEW x \in Places(A), x \in Places(B) PROVE FALSE
  <2>1. x[1] \in 1 .. n /\ x[2] \in A[x[1]]
    BY <1>1, PlaceIs
  <2>2. x[2] \in B[x[1]]
    BY <1>1, <1>3, PlaceIs
  <2> QED BY <1>2, <2>1, <2>2
<1>4. ASSUME NEW x \in Places(A) PROVE x \in Places(S)
  <2>1. x[1] \in 1 .. n /\ x[2] \in A[x[1]] /\ x = <<x[1], x[2]>>
    BY <1>1, PlaceIs
  <2>2. x[2] \in S[x[1]]
    BY <1>2, <2>1
  <2> QED BY <1>1, <2>1, <2>2, PlaceOf
<1>5. ASSUME NEW x \in Places(B) PROVE x \in Places(S)
  <2>1. x[1] \in 1 .. n /\ x[2] \in B[x[1]] /\ x = <<x[1], x[2]>>
    BY <1>1, PlaceIs
  <2>2. x[2] \in S[x[1]]
    BY <1>2, <2>1
  <2> QED BY <1>1, <2>1, <2>2, PlaceOf
<1>6. ASSUME NEW x \in Places(S) PROVE x \in Places(A) \cup Places(B)
  <2>1. x[1] \in 1 .. n /\ x[2] \in S[x[1]] /\ x = <<x[1], x[2]>>
    BY <1>1, PlaceIs
  <2>2. x[2] \in A[x[1]] \/ x[2] \in B[x[1]]
    BY <1>2, <2>1
  <2>3. x[2] \in A[x[1]] => x \in Places(A)
    BY <1>1, <2>1, PlaceOf
  <2>4. x[2] \in B[x[1]] => x \in Places(B)
    BY <1>1, <2>1, PlaceOf
  <2> QED BY <2>2, <2>3, <2>4
<1>7. Places(A) \cap Places(B) = {}
  BY <1>3
<1>8. Places(A) \cup Places(B) = Places(S)
  BY <1>4, <1>5, <1>6
<1> QED BY <1>7, <1>8 DEF A, B, S

\* The TIME lines under no directive.
LEMMA StraysTell ==
    ASSUME NEW T, ParTexts(T)
    PROVE  Tells(FlattenSeq([i \in 1 .. Len(T) |-> Stray(T[i])]),
                 Places(Strays(T)), WidthAt(T))
<1> DEFINE n == Len(T)
           ss == [i \in 1 .. n |-> Stray(T[i])]
           m == [i \in 1 .. n |-> Len(T[i])]
           S == Strays(T)
           w == [i \in 1 .. n |-> Widths(T[i])]
           v == WidthAt(T)
<1>1. n \in Nat
  BY SequenceHas DEF ParTexts
<1>2. ss = [i \in 1 .. n |-> ss[i]] /\ \A i \in 1 .. n : m[i] = Len(T[i])
  OBVIOUS
<1>3. DOMAIN S = 1 .. n
  BY DEF Strays
<1>4. \A i \in 1 .. n : m[i] \in Nat /\ S[i] \in SUBSET (1 .. m[i])
  <2>1. \A i \in 1 .. n : S[i] = UnderNone(T[i]) /\ S[i] \subseteq LinesOf(T[i], "time")
    BY DEF Strays, UnderNone
  <2>2. \A i \in 1 .. n : Len(T[i]) \in Nat /\ LinesOf(T[i], "time") \in SUBSET (1 .. Len(T[i]))
    BY LinesIn
  <2> HIDE DEF n, S
  <2> QED BY <1>2, <2>1, <2>2
<1>5. \A i \in 1 .. n : ss[i] = Mapped(w[i], InOrder(S[i]))
  <2>1. TAKE i \in 1 .. n
  <2> DEFINE q == InOrder(UnderNone(T[i]))
  <2>2. S[i] = UnderNone(T[i]) /\ w[i] = Widths(T[i])
    BY DEF Strays
  <2>3. ss[i] = [k \in DOMAIN q |-> WidthOf(T[i], q[k])]
    BY DEF Stray, UnderNone
  <2>4. Lists(q, UnderNone(T[i])) /\ UnderNone(T[i]) \subseteq 1 .. Len(T[i])
    <3>1. Len(T[i]) \in Nat /\ LinesOf(T[i], "time") \in SUBSET (1 .. Len(T[i]))
      BY LinesIn
    <3>2. UnderNone(T[i]) \in SUBSET (1 .. Len(T[i]))
      BY <3>1 DEF UnderNone
    <3> QED BY <3>1, <3>2, InOrderLists
  <2> HIDE DEF q, ss, S, w
  <2>5. DOMAIN q = 1 .. Len(q)
    BY <2>4, SequenceHas DEF Lists
  <2>6. \A k \in 1 .. Len(q) : q[k] \in 1 .. Len(T[i])
    BY <2>4 DEF Lists
  <2>7. Mapped(Widths(T[i]), q) = [k \in 1 .. Len(q) |-> WidthOf(T[i], q[k])]
    BY <2>6 DEF Mapped, Widths
  <2>8. ss[i] = Mapped(Widths(T[i]), q)
    BY <2>3, <2>5, <2>7
  <2> QED BY <2>2, <2>8 DEF q
<1> HIDE DEF n, ss, m
<1>6. \A i \in 1 .. n : \A k \in S[i] : w[i][k] = v[<<i, k>>]
  <2>1. TAKE i \in 1 .. n
  <2>2. TAKE k \in S[i]
  <2>3. k \in 1 .. Len(T[i]) /\ k \in LinesOf(T[i], "time") /\ i \in 1 .. Len(T)
    <3>1. S[i] = UnderNone(T[i])
      BY DEF Strays, n
    <3> QED BY <1>2, <1>4, <3>1 DEF UnderNone, n
  <2>4. Lines(T, "time")[i] = LinesOf(T[i], "time") /\ DOMAIN Lines(T, "time") = 1 .. Len(T)
    BY <2>3 DEF Lines
  <2>5. <<i, k>> \in Places(Lines(T, "time"))
    BY <2>3, <2>4, PlaceIs
  <2>6. v[<<i, k>>] = WidthOf(T[i], k)
    BY <2>5 DEF WidthAt
  <2> QED BY <2>3, <2>6 DEF Widths
<1> HIDE DEF S, w, v
<1>7. Tells(FlattenSeq(ss), Places(S), v)
  BY <1>1, <1>2, <1>3, <1>4, <1>5, <1>6, FilesTell, ZenonT(30)
<1> QED BY <1>7 DEF S, v, ss, n

\* A TIME line is under one directive at most.
LEMMA UnderOnce ==
    ASSUME NEW t, Sequence(t), NEW i \in 1 .. Len(t), NEW k \in 1 .. Len(t),
           NEW j \in 1 .. Len(t), Under(t, i, j), Under(t, k, j)
    PROVE  i = k
<1>1. Len(t) \in Nat
  BY SequenceHas
<1>2. /\ i < j /\ Kind(t, i) = "at" /\ \A h \in i + 1 .. j - 1 : Kind(t, h) # "at"
      /\ k < j /\ Kind(t, k) = "at" /\ \A h \in k + 1 .. j - 1 : Kind(t, h) # "at"
  BY DEF Under
<1>3. ~(i < k)
  <2>1. i < k => k \in i + 1 .. j - 1
    BY <1>1, <1>2
  <2> QED BY <1>2, <2>1
<1>4. ~(k < i)
  <2>1. k < i => i \in k + 1 .. j - 1
    BY <1>1, <1>2
  <2> QED BY <1>2, <2>1
<1> QED BY <1>1, <1>3, <1>4

\* The TIME blocks in the blocks of the files.
LEMMA TimesTell ==
    ASSUME NEW T, ParTexts(T), NEW s, Tells(s, Places(Lines(T, "at")), AllBlocks(T))
    PROVE  Tells(FlattenSeq([k \in 1 .. Len(s) |-> s[k].times]),
                 Places(Covered(T)), SeenAt(T))
<1> DEFINE n == Len(s)
           A == Places(Lines(T, "at"))
           ss == [k \in 1 .. n |-> s[k].times]
           v == SeenAt(T)
<1>1. PICK b : OneToOne(b, 1 .. n, A) /\ \A k \in 1 .. n : s[k] = AllBlocks(T)[b[k]]
  BY DEF Tells
<1>2. n \in Nat
  BY SequenceHas DEF Tells
<1> DEFINE file(k) == b[k][1]
           line(k) == b[k][2]
           X == [k \in 1 .. n |-> InFile(file(k), UnderLine(T[file(k)], line(k)))]
<1>3. ASSUME NEW k \in 1 .. n
      PROVE  /\ b[k] \in A /\ file(k) \in 1 .. Len(T) /\ line(k) \in 1 .. Len(T[file(k)])
             /\ Kind(T[file(k)], line(k)) = "at" /\ b[k] = <<file(k), line(k)>>
             /\ Sequence(T[file(k)])
             /\ s[k] = BlockAt(T[file(k)], line(k))
  <2>1. b[k] \in A
    BY <1>1 DEF OneToOne
  <2>2. DOMAIN Lines(T, "at") = 1 .. Len(T)
    BY DEF Lines
  <2>3. /\ file(k) \in 1 .. Len(T) /\ line(k) \in Lines(T, "at")[file(k)]
        /\ b[k] = <<file(k), line(k)>>
    BY <2>1, <2>2, PlaceIs
  <2>4. /\ Lines(T, "at")[file(k)] = LinesOf(T[file(k)], "at") /\ Sequence(T[file(k)])
        /\ DOMAIN T[file(k)] = 1 .. Len(T[file(k)])
    BY <2>3, LinesIn
  <2>5. line(k) \in 1 .. Len(T[file(k)]) /\ Kind(T[file(k)], line(k)) = "at"
    BY <2>3, <2>4 DEF LinesOf
  <2>6. s[k] = BlockAt(T[file(k)], line(k))
    BY <1>1, <2>1 DEF AllBlocks
  <2> QED BY <2>1, <2>3, <2>4, <2>5, <2>6
<1> HIDE DEF A, file, line
<1>4. ASSUME NEW k \in 1 .. n PROVE Tells(ss[k], X[k], v)
  <2> DEFINE i == file(k)
             t == T[i]
             S == UnderLine(t, line(k))
             q == InOrder(S)
             w == Seen(t)
  <2>1. i \in 1 .. Len(T) /\ Sequence(t) /\ line(k) \in 1 .. Len(t) /\ Kind(t, line(k)) = "at"
    BY <1>3
  <2>2. /\ Len(t) \in Nat /\ DOMAIN t = 1 .. Len(t)
        /\ Lines(T, "time")[i] = LinesOf(t, "time")
        /\ LinesOf(t, "time") \in SUBSET (1 .. Len(t))
    BY <2>1, LinesIn
  <2>3. ss[k] = TimeBlocks(t, line(k) + 1).times
    <3>1. ss[k] = s[k].times
      OBVIOUS
    <3>2. s[k] = BlockAt(t, line(k))
      BY <1>3
    <3>3. BlockAt(t, line(k)).times = TimeBlocks(t, line(k) + 1).times
      BY DEF BlockAt
    <3> HIDE DEF ss
    <3> QED BY <3>1, <3>2, <3>3
  <2> HIDE DEF ss, i
  <2>4. ss[k] = Mapped(w, q)
    BY <2>1, <2>3, TimesUnder DEF UnderLine
  <2>5. S \in SUBSET (1 .. Len(t)) /\ S \subseteq LinesOf(t, "time")
    BY <2>2 DEF UnderLine
  <2>6. Lists(q, S)
    BY <2>2, <2>5, InOrderLists
  <2>7. \A j \in S : w[j] = v[<<i, j>>]
    <3>1. TAKE j \in S
    <3>2. DOMAIN Lines(T, "time") = 1 .. Len(T)
      BY DEF Lines
    <3>3. j \in Lines(T, "time")[i] /\ j \in 1 .. Len(t)
      BY <2>2, <2>5
    <3>4. <<i, j>> \in Places(Lines(T, "time"))
      BY <2>1, <3>2, <3>3, PlaceIs
    <3>5. v[<<i, j>>] = [line |-> j, width |-> WidthOf(t, j)]
      BY <3>4 DEF SeenAt
    <3>6. w[j] = [line |-> j, width |-> WidthOf(t, j)]
      BY <3>3 DEF Seen
    <3> QED BY <3>5, <3>6
  <2>8. X[k] = InFile(i, S)
    BY DEF i
  <2> HIDE DEF X, S, t, q, w, v
  <2>9. Tells(Mapped(w, q), InFile(i, S), v)
    BY <2>6, <2>7, MappedTells
  <2> QED BY <2>4, <2>8, <2>9
<1>5. \A k, h \in 1 .. n : k # h => X[k] \cap X[h] = {}
  <2>1. SUFFICES ASSUME NEW k \in 1 .. n, NEW h \in 1 .. n, NEW x, x \in X[k], x \in X[h]
                 PROVE  k = h
    OBVIOUS
  <2>2. PICK j \in UnderLine(T[file(k)], line(k)) : x = <<file(k), j>>
    BY <2>1 DEF InFile
  <2>3. PICK g \in UnderLine(T[file(h)], line(h)) : x = <<file(h), g>>
    BY <2>1 DEF InFile
  <2>4. file(k) = file(h) /\ j = g
    BY <2>2, <2>3
  <2> DEFINE t == T[file(k)]
  <2>5. /\ Under(t, line(k), j) /\ Under(t, line(h), j) /\ j \in LinesOf(t, "time")
    BY <2>2, <2>3, <2>4 DEF UnderLine
  <2>6. Sequence(t) /\ line(k) \in 1 .. Len(t) /\ line(h) \in 1 .. Len(t)
    BY <1>3, <2>4
  <2>7. j \in 1 .. Len(t)
    BY <2>5, <2>6, SequenceHas DEF LinesOf
  <2>8. line(k) = line(h)
    BY <2>5, <2>6, <2>7, UnderOnce
  <2>9. b[k] = b[h]
    BY <1>3, <2>4, <2>8
  <2> QED BY <1>1, <2>9 DEF OneToOne
<1>6. AllOf(n, X) = Places(Covered(T))
  <2>1. ASSUME NEW k \in 1 .. n, NEW x \in X[k] PROVE x \in Places(Covered(T))
    <3> DEFINE i == file(k)
    <3>1. PICK j \in UnderLine(T[i], line(k)) : x = <<i, j>>
      BY DEF InFile
    <3>2. i \in 1 .. Len(T) /\ line(k) \in DOMAIN T[i]
      BY <1>3, SequenceHas
    <3>3. j \in UnderAny(T[i])
      BY <3>1, <3>2 DEF UnderLine, UnderAny
    <3>4. DOMAIN Covered(T) = 1 .. Len(T) /\ j \in Covered(T)[i]
      BY <3>2, <3>3 DEF Covered
    <3> HIDE DEF i
    <3> QED BY <3>1, <3>2, <3>4, PlaceIs
  <2>2. ASSUME NEW x \in Places(Covered(T)) PROVE \E k \in 1 .. n : x \in X[k]
    <3> DEFINE i == x[1]
               j == x[2]
    <3>1. DOMAIN Covered(T) = 1 .. Len(T)
      BY DEF Covered
    <3>2. i \in 1 .. Len(T) /\ j \in Covered(T)[i] /\ x = <<i, j>>
      BY <3>1, PlaceIs
    <3> HIDE DEF i, j
    <3>3. j \in UnderAny(T[i])
      BY <3>2 DEF Covered
    <3>4. PICK h \in DOMAIN T[i] : Under(T[i], h, j) /\ j \in LinesOf(T[i], "time")
      BY <3>3 DEF UnderAny
    <3>5. h \in LinesOf(T[i], "at")
      BY <3>4 DEF LinesOf, Under
    <3>6. Lines(T, "at")[i] = LinesOf(T[i], "at") /\ DOMAIN Lines(T, "at") = 1 .. Len(T)
      BY <3>2 DEF Lines
    <3>7. <<i, h>> \in A
      BY <3>2, <3>5, <3>6, PlaceIs DEF A
    <3>8. PICK k \in 1 .. n : b[k] = <<i, h>>
      BY <1>1, <3>7 DEF OneToOne
    <3>9. file(k) = i /\ line(k) = h
      BY <3>8 DEF file, line
    <3>10. j \in UnderLine(T[i], h)
      BY <3>4 DEF UnderLine
    <3>11. x \in X[k]
      BY <3>2, <3>9, <3>10 DEF InFile
    <3> QED BY <3>11
  <2> HIDE DEF X
  <2> QED BY <2>1, <2>2 DEF AllOf
<1>7. ss = [k \in 1 .. n |-> ss[k]]
  OBVIOUS
<1> HIDE DEF X, ss, v, n
<1>8. Tells(FlattenSeq(ss), AllOf(n, X), v)
  BY <1>2, <1>4, <1>5, <1>7, FlatTells
<1> QED BY <1>6, <1>8 DEF ss, v, n

\* Each file has as many widths as TIME lines, and so have all together.
LEMMA TimeBlocksCounted ==
    ASSUME NEW T, ParTexts(T)
    PROVE  LET n == Len(T)
           IN  /\ \A i \in 1 .. n : ParFileStats(T[i]).timeBlocks = CountTimeBlocks(T[i])
               /\ Len(FlattenSeq([i \in 1 .. n |-> ParFileStats(T[i]).widths]))
                    = SumFunction([i \in 1 .. n |-> CountTimeBlocks(T[i])])
<1> DEFINE n == Len(T)
           ww == [i \in 1 .. n |-> ParFileStats(T[i]).widths]
<1>1. n \in Nat
  BY SequenceHas DEF ParTexts
<1>2. \A i \in 1 .. n : /\ ParFileStats(T[i]).timeBlocks = CountTimeBlocks(T[i])
                        /\ ww[i] = Mapped(Widths(T[i]), InOrder(LinesOf(T[i], "time")))
  BY StatisticsAre DEF ParTexts
<1>3. ww = [i \in 1 .. n |-> ww[i]]
  OBVIOUS
<1> HIDE DEF ww
<1>4. ASSUME NEW i \in 1 .. n
      PROVE  Sequence(ww[i]) /\ Len(ww[i]) = CountTimeBlocks(T[i])
  <2> DEFINE S == LinesOf(T[i], "time")
             q == InOrder(S)
             w == Widths(T[i])
  <2>1. Lists(q, S)
    BY LinesIn, InOrderLists
  <2>2. CountTimeBlocks(T[i]) = Cardinality(S)
    BY DEF CountTimeBlocks, LinesOf
  <2>3. ww[i] = Mapped(w, q)
    BY <1>2
  <2> HIDE DEF S, q, w
  <2>4. Cardinality(S) = Len(q)
    BY <2>1, ListsCount
  <2>5. Len(q) \in Nat
    BY <2>1, SequenceHas DEF Lists
  <2> DEFINE u == Mapped(w, q)
  <2>6. u = [k \in 1 .. Len(q) |-> u[k]]
    BY DEF Mapped
  <2> HIDE DEF u
  <2>7. Sequence(u) /\ Len(u) = Len(q)
    BY <2>5, <2>6, SequenceIs
  <2> QED BY <2>2, <2>3, <2>4, <2>7 DEF u
<1>5. Len(FlattenSeq(ww)) = SumFunction([i \in 1 .. n |-> Len(ww[i])])
  BY <1>1, <1>3, <1>4, FlatLength
<1>6. [i \in 1 .. n |-> Len(ww[i])] = [i \in 1 .. n |-> CountTimeBlocks(T[i])]
  BY <1>4
<1> QED BY <1>2, <1>5, <1>6 DEF ww

\* What collect_spellings collects.
LEMMA SpellingsCollected ==
    ASSUME NEW T, ParTexts(T)
    PROVE  CollectSpellings(T) = Told(Places(Lines(T, "at")), SpellingAt(T))
<1> DEFINE A == Places(Lines(T, "at"))
           v == SpellingAt(T)
<1>1. DOMAIN T = 1 .. Len(T) /\ DOMAIN Lines(T, "at") = 1 .. Len(T)
  BY SequenceHas DEF ParTexts, Lines
<1>2. ASSUME NEW y \in CollectSpellings(T) PROVE y \in Told(A, v)
  <2>1. PICK t \in Range(T) : \E k \in {j \in DOMAIN t : Kind(t, j) = "at"} : y = t[k].spelling
    BY DEF CollectSpellings
  <2>2. PICK k \in {j \in DOMAIN t : Kind(t, j) = "at"} : y = t[k].spelling
    BY <2>1
  <2>3. PICK i \in 1 .. Len(T) : t = T[i]
    BY <1>1, <2>1 DEF Range
  <2>4. k \in Lines(T, "at")[i]
    BY <2>2, <2>3 DEF Lines, LinesOf
  <2>5. <<i, k>> \in A
    BY <1>1, <2>3, <2>4, PlaceIs
  <2>6. v[<<i, k>>] = y
    BY <2>2, <2>3, <2>5 DEF SpellingAt
  <2> HIDE DEF A, v
  <2> QED BY <2>5, <2>6 DEF Told
<1>3. ASSUME NEW y \in Told(A, v) PROVE y \in CollectSpellings(T)
  <2>1. PICK x \in A : y = v[x]
    BY DEF Told
  <2>2. v[x] = T[x[1]][x[2]].spelling
    BY <2>1 DEF SpellingAt
  <2>3. x[1] \in 1 .. Len(T) /\ x[2] \in Lines(T, "at")[x[1]]
    BY <1>1, <2>1, PlaceIs
  <2> DEFINE t == T[x[1]]
             k == x[2]
  <2>4. t \in Range(T)
    BY <1>1, <2>3 DEF Range
  <2>5. k \in {j \in DOMAIN t : Kind(t, j) = "at"}
    BY <2>3 DEF Lines, LinesOf
  <2>6. y = t[k].spelling
    BY <2>1, <2>2
  <2> HIDE DEF t, k
  <2> QED BY <2>4, <2>5, <2>6 DEF CollectSpellings
<1> HIDE DEF A, v
<1>4. CollectSpellings(T) = Told(A, v)
  BY <1>2, <1>3
<1> QED BY <1>4 DEF A, v

\* The widths and spellings in the blocks of the files.
LEMMA BlocksSay ==
    ASSUME NEW T, ParTexts(T)
    PROVE  LET blocks == FlattenSeq([i \in 1 .. Len(T) |-> OpcodeBlocks(T[i])])
               times == FlattenSeq([i \in DOMAIN blocks |-> blocks[i].times])
               widths == [i \in DOMAIN times |-> times[i].width]
           IN  /\ Len(widths) = Len(times)
               /\ Tells(widths, Places(Covered(T)), WidthAt(T))
               /\ Tells([i \in DOMAIN blocks |-> blocks[i].spelling],
                        Places(Lines(T, "at")), SpellingAt(T))
<1> DEFINE A == Places(Lines(T, "at"))
           C == Places(Covered(T))
           blocks == FlattenSeq([i \in 1 .. Len(T) |-> OpcodeBlocks(T[i])])
           times == FlattenSeq([i \in DOMAIN blocks |-> blocks[i].times])
           widths == [i \in DOMAIN times |-> times[i].width]
           spellings == [i \in DOMAIN blocks |-> blocks[i].spelling]
<1>1. Tells(blocks, A, AllBlocks(T))
  BY BlocksTell
<1> HIDE DEF blocks
<1>2. DOMAIN blocks = 1 .. Len(blocks)
  BY <1>1, SequenceHas DEF Tells
<1>3. Tells(times, C, SeenAt(T))
  BY <1>1, <1>2, TimesTell
<1> HIDE DEF times
<1>4. DOMAIN times = 1 .. Len(times) /\ Len(times) \in Nat
  BY <1>3, SequenceHas DEF Tells
<1>5. Tells(spellings, A, SpellingAt(T))
  <2>1. \A x \in A : AllBlocks(T)[x].spelling = SpellingAt(T)[x]
    BY DEF AllBlocks, SpellingAt, BlockAt
  <2>2. \A i \in 1 .. Len(blocks) : spellings[i] = blocks[i].spelling
    BY <1>2
  <2>3. spellings = [i \in DOMAIN blocks |-> spellings[i]]
    OBVIOUS
  <2> HIDE DEF spellings, A
  <2>4. \A i \in 1 .. Len(blocks), x \in A :
            blocks[i] = AllBlocks(T)[x] => spellings[i] = SpellingAt(T)[x]
    BY <2>1, <2>2
  <2> QED BY <1>1, <2>3, <2>4, TellsOther
<1>6. Tells(widths, C, WidthAt(T))
  <2>1. C \subseteq Places(Lines(T, "time"))
    BY Parted
  <2>2. \A x \in C : SeenAt(T)[x].width = WidthAt(T)[x]
    BY <2>1 DEF SeenAt, WidthAt
  <2>3. \A i \in 1 .. Len(times) : widths[i] = times[i].width
    BY <1>4
  <2>4. widths = [i \in DOMAIN times |-> widths[i]]
    OBVIOUS
  <2> HIDE DEF widths, C
  <2>5. \A i \in 1 .. Len(times), x \in C :
            times[i] = SeenAt(T)[x] => widths[i] = WidthAt(T)[x]
    BY <2>2, <2>3
  <2> QED BY <1>3, <2>4, <2>5, TellsOther
<1>7. Len(widths) = Len(times)
  <2>1. widths = [i \in 1 .. Len(times) |-> widths[i]]
    BY <1>4
  <2> HIDE DEF widths
  <2> QED BY <1>4, <2>1, SequenceIs
<1> HIDE DEF widths, spellings, A, C
<1>8. /\ Len(widths) = Len(times)
      /\ Tells(widths, C, WidthAt(T))
      /\ Tells(spellings, A, SpellingAt(T))
  BY <1>5, <1>6, <1>7
<1> QED BY <1>8 DEF blocks, times, widths, spellings, A, C

\* The second part of ReadersExact for any files.
LEMMA TotalsAgree ==
    ASSUME NEW T, ParTexts(T)
    PROVE  LET all == AggregateCorpus([i \in DOMAIN T |-> ParFileStats(T[i])])
               totals == CorpusStats([i \in DOMAIN T |-> OpcodeBlocks(T[i])])
               stray == FlattenSeq([i \in DOMAIN T |-> Stray(T[i])])
           IN  /\ all.histogram = totals.histogram (+) ToBag(stray)
               /\ all.time_blocks = totals.time_blocks + Len(stray)
               /\ all.time_blocks = SumFunction([i \in DOMAIN T |-> CountTimeBlocks(T[i])])
               /\ all.spellings = totals.spellings
               /\ all.spellings = CollectSpellings(T)
<1> DEFINE n == Len(T)
           counted == [i \in DOMAIN T |-> ParFileStats(T[i])]
           counts == [i \in 1 .. n |-> CountTimeBlocks(T[i])]
           W == FlattenSeq([i \in 1 .. n |-> ParFileStats(T[i]).widths])
           P == FlattenSeq([i \in 1 .. n |-> ParFileStats(T[i]).spellings])
           Z == FlattenSeq([i \in 1 .. n |-> Stray(T[i])])
           blocks == FlattenSeq([i \in 1 .. n |-> OpcodeBlocks(T[i])])
           times == FlattenSeq([i \in DOMAIN blocks |-> blocks[i].times])
           widths == [i \in DOMAIN times |-> times[i].width]
           spellings == [i \in DOMAIN blocks |-> blocks[i].spelling]
           all == AggregateCorpus(counted)
           totals == CorpusStats([i \in DOMAIN T |-> OpcodeBlocks(T[i])])
           stray == FlattenSeq([i \in DOMAIN T |-> Stray(T[i])])
<1>1. DOMAIN T = 1 .. n
  BY SequenceHas DEF ParTexts
<1>2. /\ all.time_blocks = SumFunction(counts)
      /\ all.histogram = ToBag(W)
      /\ all.spellings = ToSet(P)
  <2>1. DOMAIN counted = 1 .. n /\ \A i \in 1 .. n : counted[i] = ParFileStats(T[i])
    BY <1>1
  <2> HIDE DEF counted
  <2>2. [i \in DOMAIN counted |-> counted[i].timeBlocks] = counts
    BY <2>1, TimeBlocksCounted
  <2>3. [i \in DOMAIN counted |-> counted[i].widths]
          = [i \in 1 .. n |-> ParFileStats(T[i]).widths]
    BY <2>1
  <2>4. [i \in DOMAIN counted |-> counted[i].spellings]
          = [i \in 1 .. n |-> ParFileStats(T[i]).spellings]
    BY <2>1
  <2> QED BY <2>2, <2>3, <2>4 DEF AggregateCorpus, Totals
<1>3. /\ totals.time_blocks = Len(times)
      /\ totals.histogram = ToBag(widths)
      /\ totals.spellings = ToSet(spellings)
  BY <1>1 DEF CorpusStats, Totals
<1>4. stray = Z /\ [i \in DOMAIN T |-> CountTimeBlocks(T[i])] = counts
  BY <1>1
<1>5. Len(W) = SumFunction(counts)
  BY TimeBlocksCounted
<1>6. /\ Tells(W, Places(Lines(T, "time")), WidthAt(T))
      /\ Tells(P, Places(Lines(T, "at")), SpellingAt(T))
  BY StatisticsTell
<1>7. /\ Len(widths) = Len(times)
      /\ Tells(widths, Places(Covered(T)), WidthAt(T))
      /\ Tells(spellings, Places(Lines(T, "at")), SpellingAt(T))
  BY BlocksSay
<1>8. Tells(Z, Places(Strays(T)), WidthAt(T))
  BY StraysTell
<1> HIDE DEF W, P, Z, times, widths, spellings, all, totals, stray, counts
<1>9. ToBag(W) = ToBag(widths) (+) ToBag(Z) /\ Len(W) = Len(widths) + Len(Z)
  <2> DEFINE X == Places(Covered(T))
             Y == Places(Strays(T))
             v == WidthAt(T)
  <2>1. X \cap Y = {} /\ X \cup Y = Places(Lines(T, "time"))
    BY Parted
  <2>2. Tells(W, X \cup Y, v) /\ Tells(widths, X, v) /\ Tells(Z, Y, v)
    BY <1>6, <1>7, <1>8, <2>1
  <2> HIDE DEF X, Y, v
  <2> QED BY <2>1, <2>2, BagsAdd
<1>10. ToSet(P) = CollectSpellings(T) /\ ToSet(spellings) = CollectSpellings(T)
  BY <1>6, <1>7, TellsOf, SpellingsCollected
<1>11. /\ all.histogram = totals.histogram (+) ToBag(stray)
       /\ all.time_blocks = totals.time_blocks + Len(stray)
       /\ all.time_blocks = SumFunction([i \in DOMAIN T |-> CountTimeBlocks(T[i])])
       /\ all.spellings = totals.spellings
       /\ all.spellings = CollectSpellings(T)
  BY <1>2, <1>3, <1>4, <1>5, <1>7, <1>9, <1>10
<1> QED BY <1>11 DEF all, totals, stray
-----------------------------------------------------------------------------
(* The readers of the .par files *)

\* Every .par file that is there is a text, and a caller of parse_par that is
\* done holds the texts it read, their blocks and the totals over these.
ReaderInv ==
    /\ Sequence(par) /\ \A f \in DOMAIN par : par[f] = Gone \/ IsParText(par[f])
    /\ reader.pc = "done" =>
         /\ ParTexts(reader.texts)
         /\ reader.docs = [i \in DOMAIN reader.texts |-> OpcodeBlocks(reader.texts[i])]
         /\ reader.totals = CorpusStats(reader.docs)

\* The scenes begin with texts, and no caller is done.
LEMMA InitReads == Init => ReaderInv
<1> SUFFICES ASSUME Init PROVE ReaderInv
  OBVIOUS
<1>1. PICK s \in Scenes : par = s.par
  BY DEF Init
<1>2. Sequence(par) /\ \A t \in Range(par) : t = Gone \/ IsParText(t)
  BY <1>1, TextsAssumption
<1>3. \A f \in DOMAIN par : par[f] = Gone \/ IsParText(par[f])
  BY <1>2 DEF Range
<1>4. reader.pc # "done"
  <2>1. reader = [pc |-> "start"]
    BY DEF Init
  <2> QED BY <2>1
<1> QED BY <1>2, <1>3, <1>4 DEF ReaderInv

\* What a caller of parse_par reads are texts.
LEMMA TextsRead ==
    ASSUME ReaderInv
    PROVE  ParTexts([i \in DOMAIN ScanParFiles |-> par[ScanParFiles[i]]])
<1> DEFINE S == {f \in DOMAIN par : par[f] # Gone}
           q == ScanParFiles
           T == [i \in DOMAIN q |-> par[q[i]]]
<1>1. DOMAIN par = 1 .. Len(par) /\ Len(par) \in Nat
  BY SequenceHas DEF ReaderInv
<1>2. Lists(q, S)
  <2>1. S \in SUBSET (1 .. Len(par))
    BY <1>1
  <2> HIDE DEF S
  <2>2. Lists(InOrder(S), S)
    BY <1>1, <2>1, InOrderLists
  <2> QED BY <2>2 DEF S, ScanParFiles
<1> HIDE DEF q
<1>3. DOMAIN q = 1 .. Len(q) /\ Len(q) \in Nat
  BY <1>2, SequenceHas DEF Lists
<1>4. \A i \in 1 .. Len(q) : q[i] \in S
  BY <1>2 DEF Lists
<1>5. \A i \in 1 .. Len(q) : IsParText(T[i])
  BY <1>3, <1>4 DEF ReaderInv
<1>6. T = [i \in 1 .. Len(q) |-> T[i]]
  BY <1>3
<1> HIDE DEF T
<1>7. Sequence(T) /\ Len(T) = Len(q)
  BY <1>3, <1>6, SequenceIs
<1>8. ParTexts(T)
  BY <1>5, <1>7 DEF ParTexts
<1> QED BY <1>8 DEF T, q

\* ReaderInv is inductive.
LEMMA NextReads ==
    ASSUME ReaderInv, [Next]_vars
    PROVE  ReaderInv'
<1>1. CASE UNCHANGED <<par, reader>>
  BY <1>1 DEF ReaderInv
<1>2. CASE ReadDocuments
  <2> DEFINE T == [i \in DOMAIN ScanParFiles |-> par[ScanParFiles[i]]]
             D == [i \in DOMAIN T |-> OpcodeBlocks(T[i])]
  <2>1. UNCHANGED par
    BY <1>2 DEF ReadDocuments, corpus
  <2>2. reader' = [pc |-> "done", texts |-> T, docs |-> D, totals |-> CorpusStats(D)]
    BY <1>2 DEF ReadDocuments
  <2>3. ParTexts(T)
    BY TextsRead
  <2>4. D = [i \in DOMAIN T |-> OpcodeBlocks(T[i])]
    OBVIOUS
  <2> HIDE DEF T, D
  <2>5. reader'.texts = T /\ reader'.docs = D /\ reader'.totals = CorpusStats(D)
    BY <2>2
  <2> QED BY <2>1, <2>3, <2>4, <2>5 DEF ReaderInv
<1>3. CASE EditPar
  <2>1. UNCHANGED reader
    BY <1>3 DEF EditPar, Edit
  <2>2. PICK f \in DOMAIN par, d \in ParDrafts \cup {Gone} : par' = [par EXCEPT ![f] = d]
    BY <1>3 DEF EditPar
  <2>3. d = Gone \/ IsParText(d)
    BY TextsAssumption
  <2>4. Sequence(par')
    BY <2>2, Replaced DEF ReaderInv
  <2>5. \A g \in DOMAIN par' : par'[g] = Gone \/ IsParText(par'[g])
    <3>1. DOMAIN par' = DOMAIN par /\ \A g \in DOMAIN par : par'[g] = d \/ par'[g] = par[g]
      BY <2>2
    <3> QED BY <2>3, <3>1 DEF ReaderInv
  <2> QED BY <2>1, <2>4, <2>5 DEF ReaderInv
<1>4. CASE ~ReadDocuments /\ ~EditPar
  <2>1. UNCHANGED <<par, reader>>
    BY <1>4 DEF Next, vars, corpus, List, Hash, Count, Load, Merge, Open,
         Write, Die, ParseHFile, HashHFile, StatHFile, EditHeader, Edit, RecordFixtures
  <2> QED BY <1>1, <2>1
<1> QED BY <1>2, <1>3, <1>4

\* The invariant behind ReadersExact.
THEOREM ReaderInvHolds == Spec => []ReaderInv
BY InitReads, NextReads, PTL DEF Spec

\* ReadersExact: parse_par (yonishi_par.py) finds each directive and TIME line
\* of any text, compute_corpus_stats and the manifest's _aggregate_corpus differ
\* by the TIME lines under no directive and only by them, and count_time_blocks
\* and collect_spellings agree with the manifest: for any number of files, as
\* long as they may be.
THEOREM ReadersAreExact == Spec => []ReadersExact
<1>1. ReaderInv => ReadersExact
  <2>1. SUFFICES ASSUME ReaderInv, reader.pc = "done" PROVE ReadersExact
    BY DEF ReadersExact
  <2> DEFINE T == reader.texts
  <2>2. /\ ParTexts(T)
        /\ reader.docs = [i \in DOMAIN T |-> OpcodeBlocks(T[i])]
        /\ reader.totals = CorpusStats([i \in DOMAIN T |-> OpcodeBlocks(T[i])])
    BY <2>1 DEF ReaderInv
  <2> HIDE DEF T
  <2>3. ASSUME NEW i \in DOMAIN T
        PROVE  LET t == T[i]
                   at == InOrder(LinesOf(t, "at"))
                   under(k) == InOrder({j \in LinesOf(t, "time") : Under(t, k, j)})
               IN  reader.docs[i] =
                     [b \in DOMAIN at |->
                        [line |-> at[b], spelling |-> t[at[b]].spelling,
                         times |-> [n \in DOMAIN under(at[b]) |->
                                      [line |-> under(at[b])[n],
                                       width |-> WidthOf(t, under(at[b])[n])]]]]
    <3>1. reader.docs[i] = OpcodeBlocks(T[i])
      BY <2>2
    <3>2. Sequence(T[i])
      <4>1. i \in 1 .. Len(T)
        BY <2>2, SequenceHas DEF ParTexts
      <4> QED BY <2>2, <4>1 DEF ParTexts, IsParText
    <3> DEFINE t == T[i]
    <3>3. Sequence(t) /\ reader.docs[i] = OpcodeBlocks(t)
      BY <3>1, <3>2
    <3> HIDE DEF t
    <3>4. LET at == InOrder(LinesOf(t, "at"))
              under(k) == InOrder({j \in LinesOf(t, "time") : Under(t, k, j)})
          IN  reader.docs[i] =
                [b \in DOMAIN at |->
                   [line |-> at[b], spelling |-> t[at[b]].spelling,
                    times |-> [n \in DOMAIN under(at[b]) |->
                                 [line |-> under(at[b])[n],
                                  width |-> WidthOf(t, under(at[b])[n])]]]]
      BY <3>3, ParsedExactly
    <3> QED BY <3>4 DEF t
  <2>4. LET all == AggregateCorpus([i \in DOMAIN T |-> ParFileStats(T[i])])
            stray == FlattenSeq([i \in DOMAIN T |-> Stray(T[i])])
        IN  /\ all.histogram = reader.totals.histogram (+) ToBag(stray)
            /\ all.time_blocks = reader.totals.time_blocks + Len(stray)
            /\ all.time_blocks = SumFunction([i \in DOMAIN T |-> CountTimeBlocks(T[i])])
            /\ all.spellings = reader.totals.spellings
            /\ all.spellings = CollectSpellings(T)
    BY <2>2, TotalsAgree
  <2> QED BY <2>3, <2>4 DEF T, ReadersExact
<1> QED BY <1>1, ReaderInvHolds, PTL
-----------------------------------------------------------------------------
(* Hashes, totals and rows *)

\* What a file has held last is what it holds.
LEMMA LastHeld ==
    ASSUME NEW files, NEW held, Remembers(files, held), NEW f \in DOMAIN held
    PROVE  /\ f \in DOMAIN files
           /\ Len(held[f]) \in Nat /\ Len(held[f]) \in 1 .. Len(held[f])
           /\ held[f][Len(held[f])] = files[f]
<1>1. f \in DOMAIN files
  BY DEF Remembers
<1>2. Sequence(held[f]) /\ Len(held[f]) > 0 /\ held[f][Len(held[f])] = files[f]
  BY <1>1 DEF Remembers
<1>3. Len(held[f]) \in Nat
  BY <1>2, SequenceHas
<1> QED BY <1>1, <1>2, <1>3

\* It has held more since.
Grew(past, now) ==
    /\ Len(past) \in Nat /\ Len(now) \in Nat /\ Len(past) <= Len(now)
    /\ \A v \in 1 .. Len(past) : now[v] = past[v]

\* What the files hold, and have held, when one is saved.
SavedNow(files, f, d) == [files EXCEPT ![f] = d]
HeldNow(held, f, d) == [held EXCEPT ![f] = Append(@, d)]

\* A file that is saved has held one thing more.
LEMMA Saved ==
    ASSUME NEW files, NEW held, Remembers(files, held), NEW f \in DOMAIN files, NEW d
    PROVE  /\ Remembers(SavedNow(files, f, d), HeldNow(held, f, d))
           /\ DOMAIN HeldNow(held, f, d) = DOMAIN held
           /\ \A g \in DOMAIN held : Grew(held[g], HeldNow(held, f, d)[g])
<1> DEFINE new == [files EXCEPT ![f] = d]
           now == [held EXCEPT ![f] = Append(@, d)]
<1>1. Sequence(files) /\ held = [g \in DOMAIN files |-> held[g]]
  BY DEF Remembers
<1>2. /\ DOMAIN held = DOMAIN files /\ DOMAIN now = DOMAIN files
      /\ now = [g \in DOMAIN files |-> now[g]]
  BY <1>1
<1>3. /\ now[f] = Append(held[f], d)
      /\ \A g \in DOMAIN files : g # f => now[g] = held[g]
  BY <1>1
<1>4. /\ Sequence(new) /\ DOMAIN new = DOMAIN files /\ new[f] = d
      /\ \A g \in DOMAIN files : g # f => new[g] = files[g]
  <2>1. Sequence(new)
    BY <1>1, Replaced
  <2> QED BY <2>1
<1>5. ASSUME NEW g \in DOMAIN files
      PROVE  /\ Sequence(now[g]) /\ Len(now[g]) > 0 /\ now[g][Len(now[g])] = new[g]
             /\ Grew(held[g], now[g])
  <2>1. Sequence(held[g]) /\ Len(held[g]) > 0 /\ held[g][Len(held[g])] = files[g]
    BY DEF Remembers
  <2>2. Len(held[g]) \in Nat
    BY <2>1, SequenceHas
  <2>3. CASE g = f
    <3>1. now[g] = Append(held[g], d) /\ new[g] = d
      BY <1>3, <1>4, <2>3
    <3>2. /\ Sequence(now[g]) /\ Len(now[g]) = Len(held[g]) + 1
          /\ \A v \in 1 .. Len(held[g]) : now[g][v] = held[g][v]
          /\ now[g][Len(held[g]) + 1] = d
      BY <2>1, <3>1, Appended
    <3> QED BY <2>2, <3>1, <3>2 DEF Grew
  <2>4. CASE g # f
    BY <1>3, <1>4, <2>1, <2>2, <2>4 DEF Grew
  <2> QED BY <2>3, <2>4
<1> HIDE DEF new, now
<1>6. Remembers(new, now)
  BY <1>2, <1>4, <1>5 DEF Remembers
<1> QED BY <1>2, <1>5, <1>6 DEF new, now, SavedNow, HeldNow

\* What was read of a file it has still held.
LEMMA FileStillInTime ==
    ASSUME NEW file, NEW past, NEW now, Grew(past, now), file.since \in 1 .. Len(past),
           NEW hashed, NEW sized, FileInTime(file, past, hashed, sized)
    PROVE  file.since \in 1 .. Len(now) /\ FileInTime(file, now, hashed, sized)
<1>1. file.since \in 1 .. Len(now) /\ now[file.since] = past[file.since]
  BY DEF Grew
<1>2. ASSUME NEW v \in file.since .. Len(past)
      PROVE  v \in file.since .. Len(now) /\ v \in 1 .. Len(past) /\ now[v] = past[v]
  BY DEF Grew
<1>3. ASSUME NEW v \in file.since .. Len(past), NEW w \in v .. Len(past)
      PROVE  w \in v .. Len(now) /\ now[w] = past[w]
  BY <1>2 DEF Grew
<1>4. file.entries = ParseHText(ReadText(now[file.since])).entries
  BY <1>1 DEF FileInTime
<1>5. ASSUME hashed
      PROVE  \E v \in file.since .. Len(now) :
                /\ file.sha256 = now[v]
                /\ sized => \E w \in v .. Len(now) :
                               now[w] # Gone /\ file.size = Len(now[w])
  <2>1. PICK v \in file.since .. Len(past) :
                /\ file.sha256 = past[v]
                /\ sized => \E w \in v .. Len(past) :
                               past[w] # Gone /\ file.size = Len(past[w])
    BY <1>5 DEF FileInTime
  <2>2. v \in file.since .. Len(now) /\ file.sha256 = now[v]
    BY <1>2, <2>1
  <2>3. ASSUME sized PROVE \E w \in v .. Len(now) : now[w] # Gone /\ file.size = Len(now[w])
    <3>1. PICK w \in v .. Len(past) : past[w] # Gone /\ file.size = Len(past[w])
      BY <2>1, <2>3
    <3>2. w \in v .. Len(now) /\ now[w] = past[w]
      BY <1>3
    <3> QED BY <3>1, <3>2
  <2> QED BY <2>2, <2>3
<1> QED BY <1>1, <1>4, <1>5 DEF FileInTime

\* The same of a rebuild.
LEMMA RunStillInTime ==
    ASSUME NEW run, Sequence(run.shas), Sequence(run.paths), Passes(run),
           NEW held, Listed(run, held), InTime(run, held),
           NEW now, DOMAIN now = DOMAIN held, \A f \in DOMAIN held : Grew(held[f], now[f])
    PROVE  Listed(run, now) /\ InTime(run, now)
<1>1. ASSUME NEW i \in 1 .. Len(run.paths)
      PROVE  /\ run.paths[i] \in DOMAIN now /\ run.since[i] \in 1 .. Len(now[run.paths[i]])
             /\ run.since[i] \in 1 .. Len(held[run.paths[i]])
             /\ Grew(held[run.paths[i]], now[run.paths[i]])
  <2>1. run.paths[i] \in DOMAIN held /\ run.since[i] \in 1 .. Len(held[run.paths[i]])
    BY DEF Listed
  <2>2. Grew(held[run.paths[i]], now[run.paths[i]])
    BY <2>1
  <2> QED BY <2>1, <2>2 DEF Grew
<1>2. ASSUME NEW i \in DOMAIN run.shas PROVE i \in 1 .. Len(run.paths)
  <2>1. /\ DOMAIN run.shas = 1 .. Len(run.shas) /\ Len(run.shas) \in Nat
        /\ Len(run.paths) \in Nat
    BY SequenceHas
  <2> DEFINE m == Len(run.shas)
             n == Len(run.paths)
  <2>2. m <= n
    BY DEF Passes
  <2>3. m \in Nat /\ n \in Nat /\ i \in 1 .. m
    BY <2>1
  <2> HIDE DEF m, n
  <2>4. i \in 1 .. n
    BY <2>2, <2>3
  <2> QED BY <2>4 DEF n
<1>3. ASSUME NEW i \in DOMAIN run.shas
      PROVE  LET past == now[run.paths[i]]
             IN  \E v \in run.since[i] .. Len(past) :
                    /\ run.shas[i] = past[v]
                    /\ i \in DOMAIN run.counted =>
                          \E w \in v .. Len(past) :
                             past[w] # Gone /\ run.counted[i] = ParFileStats(past[w])
  <2> DEFINE past == held[run.paths[i]]
             new == now[run.paths[i]]
             since == run.since[i]
  <2>1. Grew(past, new) /\ since \in 1 .. Len(past)
    BY <1>1, <1>2
  <2>2. PICK v \in since .. Len(past) :
                /\ run.shas[i] = past[v]
                /\ i \in DOMAIN run.counted =>
                      \E w \in v .. Len(past) :
                         past[w] # Gone /\ run.counted[i] = ParFileStats(past[w])
    BY DEF InTime
  <2> HIDE DEF past, new, since
  <2>3. v \in since .. Len(new) /\ new[v] = past[v] /\ v \in 1 .. Len(past)
    BY <2>1 DEF Grew
  <2>4. ASSUME i \in DOMAIN run.counted
        PROVE  \E w \in v .. Len(new) : new[w] # Gone /\ run.counted[i] = ParFileStats(new[w])
    <3>1. PICK w \in v .. Len(past) : past[w] # Gone /\ run.counted[i] = ParFileStats(past[w])
      BY <2>2, <2>4
    <3>2. w \in v .. Len(new) /\ new[w] = past[w]
      BY <2>1, <2>3 DEF Grew
    <3> QED BY <3>1, <3>2
  <2> QED BY <2>2, <2>3, <2>4 DEF new, since
<1> QED BY <1>1, <1>3 DEF Listed, InTime

Run(pc, paths, since, shas, counted, fixtures) ==
    [pc |-> pc, paths |-> paths, since |-> since, shas |-> shas, counted |-> counted,
     fixtures |-> fixtures]

\* The rebuilds with one replaced.
Put(r, run) == [rebuild EXCEPT ![r] = run]

Manifest(r, fixtures, shas, totals) ==
    [state |-> "whole", by |-> r, fixtures |-> fixtures, shas |-> shas, totals |-> totals]

\* The files, and what they have held.
texts == <<par, parHeld, headers, headersHeld>>

\* A rebuild is the record of its fields.
LEMMA RunFields ==
    ASSUME Shapes, NEW r \in Rebuilds
    PROVE  rebuild[r] = Run(rebuild[r].pc, rebuild[r].paths, rebuild[r].since,
                            rebuild[r].shas, rebuild[r].counted, rebuild[r].fixtures)
BY DEF Shapes, Run

\* In the beginning each file has held what it holds.
LEMMA FirstHeld ==
    ASSUME NEW files, Sequence(files), NEW held, held = [f \in DOMAIN files |-> <<files[f]>>]
    PROVE  Remembers(files, held)
<1>1. ASSUME NEW x PROVE Sequence(<<x>>) /\ Len(<<x>>) > 0 /\ <<x>>[Len(<<x>>)] = x
  <2>1. <<x>> = [i \in 1 .. 1 |-> <<x>>[i]]
    OBVIOUS
  <2>2. Sequence(<<x>>) /\ Len(<<x>>) = 1
    BY <2>1, SequenceIs
  <2> QED BY <2>2
<1>2. \A f \in DOMAIN files : held[f] = <<files[f]>>
  OBVIOUS
<1>3. held = [f \in DOMAIN files |-> held[f]]
  OBVIOUS
<1> QED BY <1>1, <1>2, <1>3 DEF Remembers

\* It starts.
LEMMA InitTrue == Init => TrueInv
<1> SUFFICES ASSUME Init PROVE TrueInv
  OBVIOUS
<1> DEFINE run == Run("list", <<>>, <<>>, <<>>, <<>>, 0)
<1>1. \A r \in Rebuilds : rebuild[r] = run
  BY DEF Init, Run
<1>2. /\ run.pc = "list" /\ run.paths = <<>> /\ run.shas = <<>> /\ run.counted = <<>>
  BY DEF Run
<1>3. Shapes
  <2>1. rebuild = [r \in Rebuilds |->
                    [pc |-> rebuild[r].pc, paths |-> rebuild[r].paths,
                     since |-> rebuild[r].since, shas |-> rebuild[r].shas,
                     counted |-> rebuild[r].counted, fixtures |-> rebuild[r].fixtures]]
    BY DEF Init
  <2>2. catalog = [pc |-> catalog.pc, files |-> catalog.files]
    BY DEF Init
  <2>3. Sequence(catalog.files)
    BY Empty DEF Init
  <2>4. output \in {NoFile, Torn}
    BY DEF Init
  <2>5. \A r \in Rebuilds : /\ Sequence(rebuild[r].paths)
                            /\ Sequence(rebuild[r].shas) /\ Sequence(rebuild[r].counted)
    BY <1>1, <1>2, Empty
  <2> QED
    BY <2>1, <2>2, <2>3, <2>4, <2>5 DEF Shapes
<1>4. Made
  BY DEF Init, NoFile, Made
<1>5. Catalogued
  <2>1. catalog.pc = "parse" /\ Reached = 0
    BY Empty DEF Init, Reached
  <2>2. 1 .. Reached = {}
    BY <2>1
  <2> QED
    BY <2>1, <2>2 DEF Catalogued
<1>6. Passes(run) /\ Listed(run, parHeld) /\ InTime(run, parHeld)
  <2>1. Len(<<>>) = 0 /\ DOMAIN <<>> = {} /\ 1 .. 0 = {}
    BY Empty, SequenceHas
  <2> HIDE DEF run
  <2> QED
    BY <1>2, <2>1 DEF Passes, Listed, InTime
<1>7. Remembers(par, parHeld) /\ Remembers(headers, headersHeld)
  <2>1. PICK s \in Scenes : par = s.par /\ headers = s.headers
    BY DEF Init
  <2>2. Sequence(par) /\ Sequence(headers)
    BY <2>1, TextsAssumption
  <2>3. parHeld = [f \in DOMAIN par |-> <<par[f]>>]
        /\ headersHeld = [n \in DOMAIN headers |-> <<headers[n]>>]
    BY DEF Init
  <2> QED BY <2>2, <2>3, FirstHeld
<1> QED
  BY <1>1, <1>3, <1>4, <1>5, <1>6, <1>7 DEF TrueInv

\* One rebuild makes a step, on files that stay as they are; the output file
\* stays, is emptied, or gets the manifest of that rebuild.
LEMMA RunMoves ==
    ASSUME TrueInv, NEW r \in Rebuilds,
           NEW pc, NEW paths, NEW since, NEW shas, NEW counted, NEW fixtures,
           rebuild' = Put(r, Run(pc, paths, since, shas, counted, fixtures)),
           Sequence(paths), Sequence(shas), Sequence(counted),
           Passes(Run(pc, paths, since, shas, counted, fixtures)),
           Listed(Run(pc, paths, since, shas, counted, fixtures), parHeld),
           InTime(Run(pc, paths, since, shas, counted, fixtures), parHeld),
           rebuild[r].pc # "returned 0",
           UNCHANGED <<texts, catalog>>,
           \/ UNCHANGED output
           \/ output' = Torn
           \/ pc = "returned 0" /\ output' = Manifest(r, fixtures, shas, AggregateCorpus(counted))
    PROVE  TrueInv'
<1> DEFINE new == Run(pc, paths, since, shas, counted, fixtures)
<1>1. /\ rebuild = [q \in Rebuilds |-> rebuild[q]]
      /\ rebuild' = [rebuild EXCEPT ![r] = new]
      /\ UNCHANGED <<par, parHeld, headers, headersHeld>>
  BY DEF TrueInv, Shapes, Put, texts
<1>2. /\ new.pc = pc /\ new.paths = paths /\ new.shas = shas /\ new.counted = counted
      /\ new = [pc |-> new.pc, paths |-> new.paths, since |-> new.since, shas |-> new.shas,
                counted |-> new.counted, fixtures |-> new.fixtures]
  BY DEF Run
<1> HIDE DEF new
<1>3. rebuild'[r] = new /\ \A q \in Rebuilds : q # r => rebuild'[q] = rebuild[q]
  BY <1>1
<1>4. DOMAIN rebuild' = Rebuilds
  BY <1>1
<1>5. Shapes'
  <2>1. \A q \in Rebuilds : rebuild'[q] =
                    [pc |-> rebuild'[q].pc, paths |-> rebuild'[q].paths,
                     since |-> rebuild'[q].since, shas |-> rebuild'[q].shas,
                     counted |-> rebuild'[q].counted, fixtures |-> rebuild'[q].fixtures]
    BY <1>2, <1>3 DEF TrueInv, Shapes
  <2>2. rebuild' = [q \in Rebuilds |-> rebuild'[q]]
    BY <1>1
  <2>3. rebuild' = [q \in Rebuilds |->
                    [pc |-> rebuild'[q].pc, paths |-> rebuild'[q].paths,
                     since |-> rebuild'[q].since, shas |-> rebuild'[q].shas,
                     counted |-> rebuild'[q].counted, fixtures |-> rebuild'[q].fixtures]]
    BY <2>1, <2>2
  <2>4. \A q \in Rebuilds : /\ Sequence(rebuild'[q].paths)
                            /\ Sequence(rebuild'[q].shas) /\ Sequence(rebuild'[q].counted)
    BY <1>2, <1>3 DEF TrueInv, Shapes
  <2>5. output' \in {NoFile, Torn} \/
            output' = Manifest(output'.by, output'.fixtures, output'.shas, output'.totals)
    <3>1. output \in {NoFile, Torn} \/
              output = Manifest(output.by, output.fixtures, output.shas, output.totals)
      BY DEF TrueInv, Shapes, Manifest
    <3>2. CASE UNCHANGED output
      BY <3>1, <3>2
    <3>3. CASE output' = Torn
      BY <3>3
    <3>4. CASE output' = Manifest(r, fixtures, shas, AggregateCorpus(counted))
      <4> DEFINE totals == AggregateCorpus(counted)
      <4> HIDE DEF totals
      <4>1. output' = Manifest(r, fixtures, shas, totals)
        BY <3>4 DEF totals
      <4> QED
        BY <4>1 DEF Manifest
    <3> QED
      BY <3>2, <3>3, <3>4
  <2>6. /\ catalog' = [pc |-> catalog'.pc, files |-> catalog'.files]
        /\ Sequence(catalog'.files)
    BY DEF TrueInv, Shapes
  <2> QED
    BY <2>3, <2>4, <2>5, <2>6 DEF Shapes, NoFile, Torn, Sequence, Manifest
<1>6. Made'
  <2>1. CASE UNCHANGED output
    <3>1. output.state = "whole" => output.by \in Rebuilds /\ output.by # r
      BY DEF TrueInv, Made
    <3> QED
      BY <2>1, <3>1, <1>3 DEF TrueInv, Made
  <2>2. CASE output' = Torn
    BY <2>2 DEF Made, Torn
  <2>3. CASE pc = "returned 0" /\ output' = Manifest(r, fixtures, shas, AggregateCorpus(counted))
    <3>1. output'.by = r /\ output'.shas = shas /\ output'.totals = AggregateCorpus(counted)
      BY <2>3 DEF Manifest
    <3>2. AggregateCorpus(counted) = AggregateCorpus(rebuild'[r].counted)
      BY <1>2, <1>3
    <3> QED
      BY <2>3, <3>1, <3>2, <1>2, <1>3 DEF Made
  <2> QED
    BY <2>1, <2>2, <2>3
<1>7. Catalogued' /\ Remembers(par, parHeld)' /\ Remembers(headers, headersHeld)'
  BY <1>1 DEF TrueInv, Catalogued, Reached
<1>8. ASSUME NEW q \in Rebuilds
      PROVE  (Passes(rebuild[q]) /\ Listed(rebuild[q], parHeld) /\ InTime(rebuild[q], parHeld))'
  <2>1. CASE q = r
    <3>1. Passes(new) /\ Listed(new, parHeld) /\ InTime(new, parHeld)
      BY DEF new
    <3> QED
      BY <2>1, <3>1, <1>1, <1>3
  <2>2. CASE q # r
    <3>1. Passes(rebuild[q]) /\ Listed(rebuild[q], parHeld) /\ InTime(rebuild[q], parHeld)
      BY DEF TrueInv
    <3> QED
      BY <2>2, <3>1, <1>1, <1>3
  <2> QED
    BY <2>1, <2>2
<1> QED
  BY <1>5, <1>6, <1>7, <1>8 DEF TrueInv

\* What the steps of a rebuild do to its fields.
PcSet(r, pc) == [rebuild EXCEPT ![r].pc = pc]
PathsSet(r, pc, x, y) ==
    [rebuild EXCEPT ![r].pc = pc, ![r].paths = x, ![r].since = y]
ShasSet(r, pc, x) == [rebuild EXCEPT ![r].pc = pc, ![r].shas = x]
CountedSet(r, pc, x) == [rebuild EXCEPT ![r].pc = pc, ![r].counted = x]
FixturesSet(r, pc, x) == [rebuild EXCEPT ![r].pc = pc, ![r].fixtures = x]

\* Whichever fields a step sets, it replaces one rebuild.
LEMMA FieldsSet ==
    ASSUME Shapes, NEW r \in Rebuilds, NEW pc, NEW x, NEW y
    PROVE  LET run == rebuild[r]
           IN  /\ PcSet(r, pc) =
                    Put(r, Run(pc, run.paths, run.since, run.shas, run.counted, run.fixtures))
               /\ PathsSet(r, pc, x, y) =
                    Put(r, Run(pc, x, y, run.shas, run.counted, run.fixtures))
               /\ ShasSet(r, pc, x) =
                    Put(r, Run(pc, run.paths, run.since, x, run.counted, run.fixtures))
               /\ CountedSet(r, pc, x) =
                    Put(r, Run(pc, run.paths, run.since, run.shas, x, run.fixtures))
               /\ FixturesSet(r, pc, x) =
                    Put(r, Run(pc, run.paths, run.since, run.shas, run.counted, x))
<1> DEFINE run == rebuild[r]
<1>1. run = Run(run.pc, run.paths, run.since, run.shas, run.counted, run.fixtures)
  BY RunFields
<1>2. rebuild = [q \in Rebuilds |-> rebuild[q]]
  BY DEF Shapes
<1>3. /\ [run EXCEPT !.pc = pc] = Run(pc, run.paths, run.since, run.shas, run.counted, run.fixtures)
      /\ [[[run EXCEPT !.pc = pc] EXCEPT !.paths = x] EXCEPT !.since = y]
            = Run(pc, x, y, run.shas, run.counted, run.fixtures)
      /\ [[run EXCEPT !.pc = pc] EXCEPT !.shas = x]
            = Run(pc, run.paths, run.since, x, run.counted, run.fixtures)
      /\ [[run EXCEPT !.pc = pc] EXCEPT !.counted = x]
            = Run(pc, run.paths, run.since, run.shas, x, run.fixtures)
      /\ [[run EXCEPT !.pc = pc] EXCEPT !.fixtures = x]
            = Run(pc, run.paths, run.since, run.shas, run.counted, x)
  <2>1. [run EXCEPT !.pc = pc] = Run(pc, run.paths, run.since, run.shas, run.counted, run.fixtures)
    BY <1>1 DEF Run
  <2>2. ASSUME NEW a, NEW b, NEW c, NEW d, NEW e, NEW f
        PROVE  /\ [Run(a, b, c, d, e, f) EXCEPT !.paths = x] = Run(a, x, c, d, e, f)
               /\ [Run(a, b, c, d, e, f) EXCEPT !.since = y] = Run(a, b, y, d, e, f)
    <3>1. [Run(a, b, c, d, e, f) EXCEPT !.paths = x] = Run(a, x, c, d, e, f)
      BY DEF Run
    <3>2. [Run(a, b, c, d, e, f) EXCEPT !.since = y] = Run(a, b, y, d, e, f)
      BY DEF Run
    <3> QED BY <3>1, <3>2
  <2>3. ASSUME NEW a, NEW b, NEW c, NEW d, NEW e, NEW f
        PROVE  [Run(a, b, c, d, e, f) EXCEPT !.shas = x] = Run(a, b, c, x, e, f)
    BY DEF Run
  <2>4. ASSUME NEW a, NEW b, NEW c, NEW d, NEW e, NEW f
        PROVE  [Run(a, b, c, d, e, f) EXCEPT !.counted = x] = Run(a, b, c, d, x, f)
    BY DEF Run
  <2>5. ASSUME NEW a, NEW b, NEW c, NEW d, NEW e, NEW f
        PROVE  [Run(a, b, c, d, e, f) EXCEPT !.fixtures = x] = Run(a, b, c, d, e, x)
    BY DEF Run
  <2> DEFINE next == [run EXCEPT !.pc = pc]
  <2> HIDE DEF next
  <2>6. next = Run(pc, run.paths, run.since, run.shas, run.counted, run.fixtures)
    BY <2>1 DEF next
  <2>7. [[next EXCEPT !.paths = x] EXCEPT !.since = y]
           = Run(pc, x, y, run.shas, run.counted, run.fixtures)
    <3>1. [next EXCEPT !.paths = x]
             = Run(pc, x, run.since, run.shas, run.counted, run.fixtures)
      BY <2>2, <2>6
    <3> DEFINE then == [next EXCEPT !.paths = x]
    <3> HIDE DEF then
    <3>2. then = Run(pc, x, run.since, run.shas, run.counted, run.fixtures)
      BY <3>1 DEF then
    <3>3. [then EXCEPT !.since = y] = Run(pc, x, y, run.shas, run.counted, run.fixtures)
      BY <2>2, <3>2
    <3> QED BY <3>3 DEF then
  <2>8. [next EXCEPT !.shas = x] = Run(pc, run.paths, run.since, x, run.counted, run.fixtures)
    BY <2>3, <2>6
  <2>9. [next EXCEPT !.counted = x] = Run(pc, run.paths, run.since, run.shas, x, run.fixtures)
    BY <2>4, <2>6
  <2>10. [next EXCEPT !.fixtures = x] = Run(pc, run.paths, run.since, run.shas, run.counted, x)
    BY <2>5, <2>6
  <2> QED
    BY <2>1, <2>7, <2>8, <2>9, <2>10 DEF next
<1>4. ASSUME NEW a, NEW b
      PROVE  [[rebuild EXCEPT ![r] = a] EXCEPT ![r] = b] = [rebuild EXCEPT ![r] = b]
  BY <1>2
<1>5. ASSUME NEW a
      PROVE  [rebuild EXCEPT ![r] = a][r] = a
  BY <1>2
<1>6. [rebuild EXCEPT ![r].pc = pc] = [rebuild EXCEPT ![r] = [run EXCEPT !.pc = pc]]
  OBVIOUS
<1>7. [rebuild EXCEPT ![r].pc = pc, ![r].paths = x, ![r].since = y]
        = [rebuild EXCEPT ![r] = [[[run EXCEPT !.pc = pc] EXCEPT !.paths = x] EXCEPT !.since = y]]
  BY <1>4, <1>5
<1>8. [rebuild EXCEPT ![r].pc = pc, ![r].shas = x]
        = [rebuild EXCEPT ![r] = [[run EXCEPT !.pc = pc] EXCEPT !.shas = x]]
  BY <1>4, <1>5
<1>9. [rebuild EXCEPT ![r].pc = pc, ![r].counted = x]
        = [rebuild EXCEPT ![r] = [[run EXCEPT !.pc = pc] EXCEPT !.counted = x]]
  BY <1>4, <1>5
<1>10. [rebuild EXCEPT ![r].pc = pc, ![r].fixtures = x]
        = [rebuild EXCEPT ![r] = [[run EXCEPT !.pc = pc] EXCEPT !.fixtures = x]]
  BY <1>4, <1>5
<1> QED
  BY <1>3, <1>6, <1>7, <1>8, <1>9, <1>10
  DEF Put, PcSet, PathsSet, ShasSet, CountedSet, FixturesSet


\* What a run of the invariant is, for the steps of one rebuild.
LEMMA RunIs ==
    ASSUME TrueInv, NEW r \in Rebuilds
    PROVE  LET run == rebuild[r]
           IN  /\ Shapes
               /\ Sequence(run.paths) /\ Sequence(run.shas) /\ Sequence(run.counted)
               /\ Len(run.paths) \in Nat /\ Len(run.shas) \in Nat /\ Len(run.counted) \in Nat
               /\ Passes(run) /\ Listed(run, parHeld) /\ InTime(run, parHeld)
               /\ Remembers(par, parHeld)
<1>1. Sequence(rebuild[r].paths) /\ Sequence(rebuild[r].shas) /\ Sequence(rebuild[r].counted)
  BY DEF TrueInv, Shapes
<1> QED BY <1>1, SequenceHas DEF TrueInv

\* Each action keeps TrueInv.  The listing begins the passes.
LEMMA ListTrue ==
    ASSUME TrueInv, NEW r \in Rebuilds, List(r)
    PROVE  TrueInv'
<1> DEFINE run == rebuild[r]
           paths == ScanParFiles
           since == [i \in DOMAIN ScanParFiles |-> Len(parHeld[ScanParFiles[i]])]
           next == Run("hash", paths, since, run.shas, run.counted, run.fixtures)
<1>1. run.pc = "list" /\ rebuild' = PathsSet(r, "hash", paths, since)
      /\ UNCHANGED <<texts, catalog, output>>
  BY DEF List, At, PathsSet, corpus, manifest, texts
<1>2. run.shas = <<>> /\ run.counted = <<>>
  BY <1>1, RunIs DEF Passes
<1>3. Sequence(paths) /\ \A i \in 1 .. Len(paths) : paths[i] \in DOMAIN parHeld
  <2> DEFINE S == {f \in DOMAIN par : par[f] # Gone}
  <2>1. Sequence(par) /\ DOMAIN parHeld = DOMAIN par
    BY RunIs DEF Remembers
  <2>2. Len(par) \in Nat /\ DOMAIN par = 1 .. Len(par)
    BY <2>1, SequenceHas
  <2>3. S \in SUBSET (1 .. Len(par))
    BY <2>2
  <2>4. paths = InOrder(S)
    BY DEF ScanParFiles
  <2>5. S \subseteq DOMAIN par
    OBVIOUS
  <2> HIDE DEF S, paths
  <2>6. Lists(paths, S)
    BY <2>2, <2>3, <2>4, InOrderLists
  <2>7. Sequence(paths) /\ \A i \in 1 .. Len(paths) : paths[i] \in S
    BY <2>6 DEF Lists
  <2> QED BY <2>1, <2>5, <2>7
<1>4. DOMAIN paths = 1 .. Len(paths) /\ Len(paths) \in Nat
  BY <1>3, SequenceHas
<1>5. \A i \in 1 .. Len(paths) : since[i] \in 1 .. Len(parHeld[paths[i]])
  <2>1. since = [i \in DOMAIN paths |-> Len(parHeld[paths[i]])]
    OBVIOUS
  <2> HIDE DEF paths, since
  <2>2. \A i \in 1 .. Len(paths) : Len(parHeld[paths[i]]) \in 1 .. Len(parHeld[paths[i]])
    BY <1>3, RunIs, LastHeld
  <2> QED BY <1>4, <2>1, <2>2
<1>6. /\ next.pc = "hash" /\ next.paths = paths /\ next.since = since
      /\ next.shas = run.shas /\ next.counted = run.counted
  BY DEF Run
<1> HIDE DEF paths, since
<1>7. rebuild' = Put(r, next)
  BY <1>1, RunIs, FieldsSet
<1> HIDE DEF next
<1>8. Len(<<>>) = 0 /\ DOMAIN <<>> = {}
  BY Empty, SequenceHas
<1>9. Passes(next) /\ Listed(next, parHeld) /\ InTime(next, parHeld)
  <2>1. Passes(next)
    BY <1>2, <1>4, <1>6, <1>8 DEF Passes
  <2>2. Listed(next, parHeld)
    BY <1>3, <1>5, <1>6 DEF Listed
  <2>3. InTime(next, parHeld)
    BY <1>2, <1>6, <1>8 DEF InTime
  <2> QED BY <2>1, <2>2, <2>3
<1> QED
  BY <1>1, <1>3, <1>7, <1>9, RunIs, RunMoves DEF next

\* A hash is of what is there.
LEMMA HashTrue ==
    ASSUME TrueInv, NEW r \in Rebuilds, Hash(r)
    PROVE  TrueInv'
<1> DEFINE run == rebuild[r]
           n == Len(run.shas) + 1
           pc == GoOver(r, run.shas, "count")
           shas == IF pc # "hash" THEN run.shas ELSE Append(run.shas, par[run.paths[n]])
           next == Run(pc, run.paths, run.since, shas, run.counted, run.fixtures)
<1>1. run.pc = "hash" /\ rebuild' = Put(r, next)
      /\ UNCHANGED <<texts, catalog, output>>
  <2>1. rebuild' = ShasSet(r, pc, shas)
    BY DEF Hash, ShasSet
  <2>2. run.pc = "hash" /\ UNCHANGED <<texts, catalog, output>>
    BY DEF Hash, At, corpus, manifest, texts
  <2> HIDE DEF pc, shas
  <2>3. rebuild' = Put(r, next)
    BY <2>1, RunIs, FieldsSet
  <2> QED
    BY <2>2, <2>3
<1>2. /\ run.counted = <<>> /\ Sequence(run.shas) /\ Len(run.shas) \in Nat
      /\ Len(run.paths) \in Nat /\ Len(run.shas) <= Len(run.paths)
      /\ DOMAIN run.shas = 1 .. Len(run.shas)
  BY <1>1, RunIs, SequenceHas DEF Passes
<1>3. next.pc = pc /\ next.paths = run.paths /\ next.since = run.since
      /\ next.shas = shas /\ next.counted = run.counted
  BY DEF Run
<1>4. \/ Len(run.shas) = Len(run.paths) /\ pc = "count" /\ shas = run.shas
      \/ pc = "raised" /\ shas = run.shas
      \/ Len(run.shas) # Len(run.paths) /\ pc = "hash" /\ shas = Append(run.shas, par[run.paths[n]])
  BY <1>1 DEF GoOver
<1>5. Sequence(shas) /\ Len(shas) \in Nat /\ Len(run.counted) = 0 /\ DOMAIN run.counted = {}
  BY <1>2, <1>4, Appended, Empty
<1>6. \/ shas = run.shas
      \/ /\ n \in 1 .. Len(run.paths) /\ Len(shas) = n /\ shas[n] = par[run.paths[n]]
         /\ \A i \in 1 .. n - 1 : shas[i] = run.shas[i]
  <2>1. CASE shas = Append(run.shas, par[run.paths[n]]) /\ Len(run.shas) # Len(run.paths)
    BY <2>1, <1>2, Appended
  <2> QED BY <2>1, <1>4
<1>7. Len(shas) <= Len(run.paths)
  <2>1. CASE shas = run.shas
    BY <1>2, <2>1
  <2>2. CASE n \in 1 .. Len(run.paths) /\ Len(shas) = n
    <3> HIDE DEF n, shas
    <3> QED BY <1>2, <2>2
  <2> QED BY <1>6, <2>1, <2>2
<1>8. ASSUME NEW i \in 1 .. Len(shas)
      PROVE  \E v \in run.since[i] .. Len(parHeld[run.paths[i]]) :
                shas[i] = parHeld[run.paths[i]][v]
  <2>1. ASSUME NEW j \in 1 .. Len(run.shas)
        PROVE  \E v \in run.since[j] .. Len(parHeld[run.paths[j]]) :
                  run.shas[j] = parHeld[run.paths[j]][v]
    BY <1>2, RunIs DEF InTime
  <2>2. CASE shas = run.shas
    BY <2>1, <2>2
  <2>3. CASE /\ n \in 1 .. Len(run.paths) /\ Len(shas) = n /\ shas[n] = par[run.paths[n]]
             /\ \A j \in 1 .. n - 1 : shas[j] = run.shas[j]
    <3>1. CASE i # n
      <4>1. i \in 1 .. Len(run.shas) /\ shas[i] = run.shas[i]
        BY <1>2, <2>3, <3>1
      <4> QED BY <2>1, <4>1
    <3>2. CASE i = n
      <4> DEFINE f == run.paths[n]
                 past == parHeld[f]
                 since == run.since[n]
      <4>1. f \in DOMAIN parHeld /\ since \in 1 .. Len(past)
        BY <2>3, RunIs DEF Listed
      <4>2. Len(past) \in Nat /\ past[Len(past)] = par[f]
        BY <4>1, RunIs, LastHeld
      <4>3. shas[n] = past[Len(past)]
        BY <2>3, <4>2
      <4> HIDE DEF f, past, since, shas
      <4>4. Len(past) \in since .. Len(past)
        BY <4>1, <4>2
      <4> QED BY <3>2, <4>3, <4>4 DEF past, f, since
    <3> QED BY <3>1, <3>2
  <2> QED BY <1>6, <2>2, <2>3
<1>9. DOMAIN shas = 1 .. Len(shas)
  BY <1>5, SequenceHas
<1> HIDE DEF next, pc, shas
<1>10. Passes(next)
  <2>1. next.pc \in {"count", "raised", "hash"}
    BY <1>3, <1>4
  <2>2. next.pc = "count" => Len(next.shas) = Len(next.paths)
    BY <1>3, <1>4
  <2>3. /\ next.counted = <<>> /\ Len(next.counted) <= Len(next.shas)
        /\ Len(next.shas) <= Len(next.paths)
    BY <1>2, <1>3, <1>5, <1>7
  <2> QED
    BY <2>1, <2>2, <2>3 DEF Passes
<1>11. Listed(next, parHeld)
  BY <1>3, RunIs DEF Listed
<1>12. InTime(next, parHeld)
  BY <1>3, <1>5, <1>8, <1>9 DEF InTime
<1> QED
  BY <1>1, <1>5, <1>10, <1>11, <1>12, RunIs, RunMoves DEF next

\* What is counted is what is there, and later than what was hashed.
LEMMA CountTrue ==
    ASSUME TrueInv, NEW r \in Rebuilds, Count(r)
    PROVE  TrueInv'
<1> DEFINE run == rebuild[r]
           n == Len(run.counted) + 1
           pc == GoOver(r, run.counted, "load")
           counted == IF pc # "count" THEN run.counted
                      ELSE Append(run.counted, ParFileStats(par[run.paths[n]]))
           next == Run(pc, run.paths, run.since, run.shas, counted, run.fixtures)
<1>1. run.pc = "count" /\ rebuild' = Put(r, next)
      /\ UNCHANGED <<texts, catalog, output>>
  <2>1. rebuild' = CountedSet(r, pc, counted)
    BY DEF Count, CountedSet
  <2>2. run.pc = "count" /\ UNCHANGED <<texts, catalog, output>>
    BY DEF Count, At, corpus, manifest, texts
  <2> HIDE DEF pc, counted
  <2>3. rebuild' = Put(r, next)
    BY <2>1, RunIs, FieldsSet
  <2> QED
    BY <2>2, <2>3
<1>2. /\ Sequence(run.shas) /\ Sequence(run.counted)
      /\ Len(run.shas) = Len(run.paths) /\ Len(run.counted) <= Len(run.shas)
      /\ Len(run.shas) \in Nat /\ Len(run.counted) \in Nat
      /\ DOMAIN run.shas = 1 .. Len(run.shas) /\ DOMAIN run.counted = 1 .. Len(run.counted)
  BY <1>1, RunIs, SequenceHas DEF Passes
<1>3. next.pc = pc /\ next.paths = run.paths /\ next.since = run.since
      /\ next.shas = run.shas /\ next.counted = counted
  BY DEF Run
<1>4. \/ Len(run.counted) = Len(run.paths) /\ pc = "load" /\ counted = run.counted
      \/ pc = "raised" /\ counted = run.counted
      \/ /\ Len(run.counted) # Len(run.paths) /\ pc = "count" /\ par[run.paths[n]] # Gone
         /\ counted = Append(run.counted, ParFileStats(par[run.paths[n]]))
  BY <1>1 DEF GoOver
<1>5. Sequence(counted) /\ Len(counted) \in Nat /\ Len(counted) <= Len(run.shas)
      /\ DOMAIN counted = 1 .. Len(counted)
  <2>1. Sequence(counted) /\ Len(counted) <= Len(run.shas)
    BY <1>2, <1>4, Appended
  <2> QED BY <2>1, SequenceHas
<1>6. \/ counted = run.counted
      \/ /\ n \in 1 .. Len(run.paths) /\ Len(counted) = n /\ par[run.paths[n]] # Gone
         /\ counted[n] = ParFileStats(par[run.paths[n]])
         /\ \A i \in 1 .. Len(run.counted) : counted[i] = run.counted[i]
  <2>1. CASE /\ Len(run.counted) # Len(run.paths) /\ par[run.paths[n]] # Gone
             /\ counted = Append(run.counted, ParFileStats(par[run.paths[n]]))
    BY <2>1, <1>2, Appended
  <2> QED BY <2>1, <1>4
<1> HIDE DEF next, pc, counted
<1>7. Passes(next)
  <2>1. next.pc \in {"load", "raised", "count"}
    BY <1>3, <1>4
  <2>2. next.pc = "load" => Len(next.counted) = Len(next.paths)
    BY <1>3, <1>4
  <2>3. Len(next.shas) = Len(next.paths) /\ Len(next.counted) <= Len(next.shas)
    BY <1>2, <1>3, <1>5
  <2>4. Len(next.shas) <= Len(next.paths)
    BY <1>2, <1>3
  <2> QED BY <2>1, <2>2, <2>3, <2>4 DEF Passes
<1>8. Listed(next, parHeld)
  BY <1>3, RunIs DEF Listed
<1>9. ASSUME NEW i \in DOMAIN run.shas
      PROVE  LET past == parHeld[run.paths[i]]
             IN  \E v \in run.since[i] .. Len(past) :
                    /\ run.shas[i] = past[v]
                    /\ i \in DOMAIN counted =>
                          \E w \in v .. Len(past) :
                             past[w] # Gone /\ counted[i] = ParFileStats(past[w])
  <2> DEFINE f == run.paths[i]
             past == parHeld[f]
             since == run.since[i]
  <2>1. PICK v \in since .. Len(past) :
                /\ run.shas[i] = past[v]
                /\ i \in DOMAIN run.counted =>
                      \E w \in v .. Len(past) :
                         past[w] # Gone /\ run.counted[i] = ParFileStats(past[w])
    BY RunIs DEF InTime
  <2> DEFINE m == Len(run.counted)
  <2>2. m \in Nat /\ DOMAIN run.counted = 1 .. m /\ DOMAIN counted = 1 .. Len(counted)
    BY <1>2, <1>5
  <2>3. \/ counted = run.counted
        \/ /\ n \in 1 .. Len(run.paths) /\ Len(counted) = n /\ n = m + 1
           /\ par[run.paths[n]] # Gone /\ counted[n] = ParFileStats(par[run.paths[n]])
           /\ \A j \in 1 .. m : counted[j] = run.counted[j]
    BY <1>6
  <2> HIDE DEF m, n
  <2>4. CASE i \in DOMAIN run.counted \/ i \notin DOMAIN counted
    <3>1. i \in DOMAIN counted => i \in DOMAIN run.counted /\ counted[i] = run.counted[i]
      BY <2>2, <2>3, <2>4
    <3> QED BY <2>1, <3>1
  <2>5. CASE i \notin DOMAIN run.counted /\ i \in DOMAIN counted
    <3>1. /\ i \notin 1 .. m /\ i \in 1 .. m + 1 /\ n = m + 1 /\ n \in 1 .. Len(run.paths)
          /\ par[run.paths[n]] # Gone /\ counted[n] = ParFileStats(par[run.paths[n]])
      BY <2>2, <2>3, <2>5
    <3>2. i = n
      BY <2>2, <3>1
    <3>3. f \in DOMAIN parHeld /\ since \in 1 .. Len(past)
      BY <3>1, <3>2, RunIs DEF Listed
    <3>4. Len(past) \in Nat /\ past[Len(past)] = par[f]
      BY <3>3, RunIs, LastHeld
    <3>5. par[f] # Gone /\ counted[i] = ParFileStats(par[f])
      BY <3>1, <3>2
    <3> HIDE DEF f, past, since
    <3>6. Len(past) \in v .. Len(past) /\ past[Len(past)] # Gone
          /\ counted[i] = ParFileStats(past[Len(past)])
      BY <2>1, <3>3, <3>4, <3>5
    <3> QED BY <2>1, <2>5, <3>6 DEF past, f, since
  <2> QED BY <2>4, <2>5
<1>10. InTime(next, parHeld)
  BY <1>3, <1>9 DEF InTime
<1> QED
  BY <1>1, <1>5, <1>7, <1>8, <1>10, RunIs, RunMoves DEF next

\* Where a rebuild is says nothing of what it has read.
LEMMA OnlyRead ==
    ASSUME NEW old, NEW new, new.paths = old.paths, new.since = old.since,
           new.shas = old.shas, new.counted = old.counted,
           NEW held, Listed(old, held), InTime(old, held)
    PROVE  Listed(new, held) /\ InTime(new, held)
<1>1. Listed(new, held)
  BY DEF Listed
<1>2. InTime(new, held)
  BY DEF InTime
<1> QED BY <1>1, <1>2

\* Steps that only go on to another place, from which nothing more is known.
LEMMA GoesOn ==
    ASSUME TrueInv, NEW r \in Rebuilds, NEW pc,
           rebuild' = PcSet(r, pc),
           \/ rebuild[r].pc = "load" /\ pc \in {"merge", "returned 1", "raised"}
           \/ rebuild[r].pc = "open" /\ pc = "write"
           \/ rebuild[r].pc # "returned 0" /\ pc = "killed",
           UNCHANGED <<texts, catalog>>,
           UNCHANGED output \/ output' = Torn
    PROVE  TrueInv'
<1> DEFINE run == rebuild[r]
           next == Run(pc, run.paths, run.since, run.shas, run.counted, run.fixtures)
<1>1. rebuild' = Put(r, next) /\ run.pc # "returned 0"
  BY RunIs, FieldsSet
<1>2. /\ next.pc = pc /\ next.paths = run.paths /\ next.since = run.since
      /\ next.shas = run.shas /\ next.counted = run.counted
  BY DEF Run
<1>3. Passes(run) /\ Listed(run, parHeld) /\ InTime(run, parHeld)
  BY RunIs
<1> HIDE DEF next
<1>4. Passes(next)
  <2>1. next.pc \notin {"list", "hash", "count"}
    BY <1>2
  <2>2. next.pc \in {"load", "merge", "open", "write", "returned 0"} =>
           run.pc \in {"load", "merge", "open", "write", "returned 0"}
    BY <1>2
  <2> QED
    BY <2>1, <2>2, <1>2, <1>3 DEF Passes
<1>5. Listed(next, parHeld) /\ InTime(next, parHeld)
  BY <1>2, <1>3, OnlyRead
<1> QED
  BY <1>1, <1>4, <1>5, RunIs, RunMoves DEF next

\* Loading changes the place only, ...
LEMMA LoadTrue ==
    ASSUME TrueInv, NEW r \in Rebuilds, Load(r)
    PROVE  TrueInv'
<1>1. PICK pc \in LoadOutcomes : rebuild' = [rebuild EXCEPT ![r].pc = pc]
  BY DEF Load
<1>2. pc \in {"merge", "returned 1", "raised"}
  BY <1>1 DEF LoadOutcomes
<1>3. rebuild' = PcSet(r, pc)
  BY <1>1 DEF PcSet
<1>4. rebuild[r].pc = "load" /\ UNCHANGED <<texts, catalog, output>>
  BY DEF Load, At, corpus, manifest, texts
<1> QED
  BY <1>2, <1>3, <1>4, GoesOn

\* ... opening the manifest empties it besides, ...
LEMMA OpenTrue ==
    ASSUME TrueInv, NEW r \in Rebuilds, Open(r)
    PROVE  TrueInv'
<1>1. rebuild' = PcSet(r, "write")
  BY DEF Open, PcSet
<1>2. rebuild[r].pc = "open" /\ output' = Torn /\ UNCHANGED <<texts, catalog>>
  BY DEF Open, At, corpus, texts
<1> QED
  BY <1>1, <1>2, GoesOn

\* ... and a rebuild that dies may leave it empty.
LEMMA DieTrue ==
    ASSUME TrueInv, NEW r \in Rebuilds, Die(r)
    PROVE  TrueInv'
<1>1. rebuild' = PcSet(r, "killed")
  BY DEF Die, PcSet
<1>2. rebuild[r].pc # "returned 0"
  BY DEF Die, At
<1>3. UNCHANGED output \/ output' = Torn
  BY DEF Die
<1>4. UNCHANGED <<texts, catalog>>
  BY DEF Die, corpus, texts
<1> QED
  BY <1>1, <1>2, <1>3, <1>4, GoesOn

\* Merging takes the fixtures.
LEMMA MergeTrue ==
    ASSUME TrueInv, NEW r \in Rebuilds, Merge(r)
    PROVE  TrueInv'
<1> DEFINE run == rebuild[r]
           fixtures == IF output.state = "whole" THEN output.fixtures ELSE 0
           next == Run("open", run.paths, run.since, run.shas, run.counted, fixtures)
<1>1. rebuild' = FixturesSet(r, "open", fixtures)
  BY DEF Merge, FixturesSet
<1>2. run.pc = "merge" /\ UNCHANGED <<texts, catalog, output>>
  BY DEF Merge, At, corpus, texts
<1> HIDE DEF fixtures
<1>3. rebuild' = Put(r, next)
  BY <1>1, RunIs, FieldsSet
<1>4. /\ next.pc = "open" /\ next.paths = run.paths /\ next.since = run.since
      /\ next.shas = run.shas /\ next.counted = run.counted
  BY DEF Run
<1>5. Passes(run) /\ Listed(run, parHeld) /\ InTime(run, parHeld)
  BY RunIs
<1> HIDE DEF next
<1>6. Passes(next) /\ Listed(next, parHeld) /\ InTime(next, parHeld)
  <2>1. Passes(next)
    BY <1>2, <1>4, <1>5 DEF Passes
  <2> QED BY <1>4, <1>5, <2>1, OnlyRead
<1> QED
  BY <1>2, <1>3, <1>6, RunIs, RunMoves DEF next

\* A manifest that is written is the writer's own.
LEMMA WriteTrue ==
    ASSUME TrueInv, NEW r \in Rebuilds, Write(r)
    PROVE  TrueInv'
<1> DEFINE run == rebuild[r]
           next == Run("returned 0", run.paths, run.since, run.shas, run.counted, run.fixtures)
<1>1. rebuild' = PcSet(r, "returned 0")
  BY DEF Write, PcSet
<1>2. run.pc = "write" /\ UNCHANGED <<texts, catalog>>
  BY DEF Write, At, corpus, texts
<1>3. \/ output' = Torn
      \/ output' = Manifest(r, run.fixtures, run.shas, AggregateCorpus(run.counted))
  BY DEF Write, Manifest
<1>4. rebuild' = Put(r, next)
  BY <1>1, RunIs, FieldsSet
<1>5. /\ next.pc = "returned 0" /\ next.paths = run.paths /\ next.since = run.since
      /\ next.shas = run.shas /\ next.counted = run.counted
  BY DEF Run
<1>6. Passes(run) /\ Listed(run, parHeld) /\ InTime(run, parHeld)
  BY RunIs
<1> HIDE DEF next
<1>7. Passes(next) /\ Listed(next, parHeld) /\ InTime(next, parHeld)
  <2>1. Passes(next)
    BY <1>2, <1>5, <1>6 DEF Passes
  <2> QED BY <1>5, <1>6, <2>1, OnlyRead
<1> QED
  BY <1>2, <1>3, <1>4, <1>7, RunIs, RunMoves DEF next

\* What the catalog has of its n-th file, when it is at pc and has read parts
\* of m files.
FileKnown(files, n, m, pc, held) ==
    /\ n \in DOMAIN held
    /\ DOMAIN files[n] = {"entries", "sha256", "size", "since"}
    /\ files[n].since \in 1 .. Len(held[n])
    /\ FileInTime(files[n], held[n], n < m \/ pc \in {"stat", "parse"}, n < m \/ pc = "parse")

\* A file behind is whole, wherever the catalog is.
LEMMA BehindKnown ==
    ASSUME NEW files, NEW n, NEW m, NEW pc, NEW held, FileKnown(files, n, m, pc, held), n < m,
           NEW more, more[n] = files[n], NEW o, n < o, NEW at
    PROVE  FileKnown(more, n, o, at, held)
<1> DEFINE file == files[n]
           past == held[n]
<1>1. /\ n \in DOMAIN held /\ DOMAIN file = {"entries", "sha256", "size", "since"}
      /\ file.since \in 1 .. Len(past)
  BY DEF FileKnown
<1>2. FileInTime(file, past, TRUE, TRUE)
  <2>1. FileInTime(file, past, n < m \/ pc \in {"stat", "parse"}, n < m \/ pc = "parse")
    BY DEF FileKnown
  <2>2. (n < m \/ pc \in {"stat", "parse"}) /\ (n < m \/ pc = "parse")
    OBVIOUS
  <2> HIDE DEF file, past
  <2> QED BY <2>1, <2>2 DEF FileInTime
<1>3. FileInTime(file, past, n < o \/ at \in {"stat", "parse"}, n < o \/ at = "parse")
  <2>1. (n < o \/ at \in {"stat", "parse"}) /\ (n < o \/ at = "parse")
    OBVIOUS
  <2> HIDE DEF file, past
  <2> QED BY <1>2, <2>1 DEF FileInTime
<1> QED BY <1>1, <1>3 DEF FileKnown

\* What holds of the catalog and the files it has so far.
LEMMA CatalogIs ==
    ASSUME TrueInv
    PROVE  /\ catalog = [pc |-> catalog.pc, files |-> catalog.files]
           /\ Sequence(catalog.files)
           /\ Reached = Len(catalog.files) /\ Reached \in Nat
           /\ catalog.pc \in {"hash", "stat"} => Reached > 0
           /\ \A n \in 1 .. Reached :
                 FileKnown(catalog.files, n, Reached, catalog.pc, headersHeld)
           /\ Remembers(headers, headersHeld)
<1>1. /\ catalog = [pc |-> catalog.pc, files |-> catalog.files] /\ Sequence(catalog.files)
      /\ Reached = Len(catalog.files) /\ Reached \in Nat
  BY Appended DEF TrueInv, Shapes, Reached
<1>2. Catalogued /\ Remembers(headers, headersHeld)
  BY DEF TrueInv
<1> QED BY <1>1, <1>2 DEF Catalogued, FileKnown

\* A step of build_catalog touches nothing else.
LEMMA CatalogMoves ==
    ASSUME TrueInv, UNCHANGED <<texts, rebuild, output>>,
           NEW pc, NEW files,
           catalog' = [pc |-> pc, files |-> files],
           Sequence(files),
           pc \in {"hash", "stat"} => Len(files) > 0,
           \A n \in 1 .. Len(files) : FileKnown(files, n, Len(files), pc, headersHeld)
    PROVE  TrueInv'
<1>1. UNCHANGED <<par, parHeld, headers, headersHeld>>
  BY DEF texts
<1>2. catalog'.pc = pc /\ catalog'.files = files /\ Reached' = Len(files)
  BY DEF Reached
<1>3. Shapes'
  BY <1>2 DEF TrueInv, Shapes, NoFile, Torn
<1>4. Made'
  BY DEF TrueInv, Made
<1>5. Catalogued'
  BY <1>1, <1>2 DEF Catalogued, FileKnown
<1>6. ASSUME NEW q \in Rebuilds
      PROVE  (Passes(rebuild[q]) /\ Listed(rebuild[q], parHeld) /\ InTime(rebuild[q], parHeld))'
  BY <1>1 DEF TrueInv
<1>7. Remembers(par, parHeld)' /\ Remembers(headers, headersHeld)'
  BY <1>1 DEF TrueInv
<1> QED
  BY <1>3, <1>4, <1>5, <1>6, <1>7 DEF TrueInv

\* A caller of parse_par changes none of it.
LEMMA ReadTrue ==
    ASSUME TrueInv, ReadDocuments
    PROVE  TrueInv'
<1>1. UNCHANGED <<texts, rebuild, output, catalog>>
  BY DEF ReadDocuments, corpus, manifest, texts
<1> QED
  BY <1>1, CatalogIs, CatalogMoves

\* The catalog gives up, behind m whole files or in the middle of one.
LEMMA CatalogRaises ==
    ASSUME TrueInv, UNCHANGED <<texts, rebuild, output>>,
           catalog' = [catalog EXCEPT !.pc = "raised"]
    PROVE  TrueInv'
<1>1. catalog' = [pc |-> "raised", files |-> catalog.files]
  BY CatalogIs
<1>2. ASSUME NEW n \in 1 .. Reached
      PROVE  FileKnown(catalog.files, n, Reached, "raised", headersHeld)
  <2>1. FileKnown(catalog.files, n, Reached, catalog.pc, headersHeld)
    BY CatalogIs
  <2> QED BY <2>1 DEF FileKnown, FileInTime
<1> QED
  BY <1>1, <1>2, CatalogIs, CatalogMoves

\* The rows are of what is there.
LEMMA ParseHTrue ==
    ASSUME TrueInv, ParseHFile
    PROVE  TrueInv'
<1>1. /\ UNCHANGED <<texts, rebuild, output>>
      /\ catalog.pc = "parse" /\ Reached < Len(headers)
  BY DEF ParseHFile, corpus, manifest, texts
<1>2. CASE catalog' = [catalog EXCEPT !.pc = "raised"]
  BY <1>1, <1>2, CatalogRaises
<1>3. CASE catalog' # [catalog EXCEPT !.pc = "raised"]
  <2> DEFINE n == Reached + 1
             past == headersHeld[n]
             file == [entries |-> ParseHText(ReadText(Current)).entries, sha256 |-> Gone,
                      size |-> 0, since |-> Len(past)]
             files == Append(catalog.files, file)
  <2>1. catalog' = [catalog EXCEPT !.pc = "hash", !.files = files]
    BY <1>3 DEF ParseHFile
  <2>2. Current = headers[n] /\ Reached \in Nat
    BY <1>1, CatalogIs DEF Current
  <2>3. /\ file.entries = ParseHText(ReadText(Current)).entries /\ file.since = Len(past)
        /\ DOMAIN file = {"entries", "sha256", "size", "since"}
    OBVIOUS
  <2>4. n \in DOMAIN headersHeld
    <3>1. Sequence(headers) /\ DOMAIN headersHeld = DOMAIN headers
      BY CatalogIs DEF Remembers
    <3>2. DOMAIN headers = 1 .. Len(headers) /\ Len(headers) \in Nat
      BY <3>1, SequenceHas
    <3> QED BY <1>1, <2>2, <3>1, <3>2
  <2>5. Len(past) \in 1 .. Len(past) /\ past[Len(past)] = headers[n]
    BY <2>4, CatalogIs, LastHeld
  <2> HIDE DEF file
  <2>6. /\ Sequence(files) /\ Len(files) = n /\ files[n] = file
        /\ \A k \in 1 .. Reached : files[k] = catalog.files[k]
    BY CatalogIs, Appended
  <2> HIDE DEF files
  <2>7. catalog' = [pc |-> "hash", files |-> files]
    BY <2>1, CatalogIs
  <2>8. FileInTime(file, past, FALSE, FALSE)
    BY <2>2, <2>3, <2>5 DEF FileInTime
  <2>9. FileKnown(files, n, n, "hash", headersHeld)
    <3>1. ~(n < n)
      BY <2>2
    <3> QED BY <2>3, <2>4, <2>5, <2>6, <2>8, <3>1 DEF FileKnown, FileInTime
  <2>10. ASSUME NEW k \in 1 .. Reached PROVE FileKnown(files, k, n, "hash", headersHeld)
    <3>1. FileKnown(catalog.files, k, Reached, "parse", headersHeld) /\ k < n
      BY <1>1, <2>2, CatalogIs
    <3>2. files[k] = catalog.files[k]
      BY <2>6
    <3> QED BY <3>1, <3>2 DEF FileKnown, FileInTime
  <2>11. \A k \in 1 .. n : FileKnown(files, k, n, "hash", headersHeld)
    BY <2>2, <2>9, <2>10
  <2> QED
    BY <1>1, <2>2, <2>6, <2>7, <2>11, CatalogMoves
<1> QED
  BY <1>2, <1>3

\* A further part of the file the catalog is at is read.
LEMMA PartRead ==
    ASSUME TrueInv, UNCHANGED <<texts, rebuild, output>>,
           NEW pc, NEW file,
           Reached > 0,
           catalog.pc \in {"hash", "stat"},
           pc = IF catalog.pc = "hash" THEN "stat" ELSE "parse",
           catalog' = [pc |-> pc, files |-> [catalog.files EXCEPT ![Reached] = file]],
           DOMAIN file = {"entries", "sha256", "size", "since"},
           file.since = catalog.files[Reached].since,
           FileInTime(file, headersHeld[Reached], TRUE, pc = "parse")
    PROVE  TrueInv'
<1> DEFINE n == Reached
           files == [catalog.files EXCEPT ![Reached] = file]
<1>1. n \in Nat /\ n \in 1 .. n
  BY CatalogIs
<1>2. /\ Sequence(files) /\ Len(files) = n /\ files[n] = file
      /\ \A k \in 1 .. n : k # n => files[k] = catalog.files[k]
  BY <1>1, CatalogIs, Replaced
<1>3. /\ FileKnown(catalog.files, n, n, catalog.pc, headersHeld)
      /\ catalog' = [pc |-> pc, files |-> files]
  BY <1>1, CatalogIs
<1> HIDE DEF files
<1>4. FileKnown(files, n, n, pc, headersHeld)
  BY <1>2, <1>3 DEF FileKnown, FileInTime
<1>5. ASSUME NEW k \in 1 .. n, k # n PROVE FileKnown(files, k, n, pc, headersHeld)
  <2>1. FileKnown(catalog.files, k, n, catalog.pc, headersHeld) /\ k < n
    BY <1>1, <1>5, CatalogIs
  <2>2. files[k] = catalog.files[k]
    BY <1>2, <1>5
  <2> QED BY <2>1, <2>2, BehindKnown
<1>6. \A k \in 1 .. n : FileKnown(files, k, n, pc, headersHeld)
  BY <1>4, <1>5
<1> QED BY <1>1, <1>2, <1>3, <1>6, CatalogMoves

\* The hash is of that content or a later one, ...
LEMMA HashHTrue ==
    ASSUME TrueInv, HashHFile
    PROVE  TrueInv'
<1>1. /\ UNCHANGED <<texts, rebuild, output>>
      /\ catalog.pc = "hash" /\ Current = headers[Reached]
  BY DEF HashHFile, corpus, manifest, texts, Current
<1>2. CASE catalog' = [catalog EXCEPT !.pc = "raised"]
  BY <1>1, <1>2, CatalogRaises
<1>3. CASE catalog' # [catalog EXCEPT !.pc = "raised"]
  <2> DEFINE old == catalog.files[Reached]
             past == headersHeld[Reached]
             file == [old EXCEPT !.sha256 = Current]
  <2>1. catalog' = [catalog EXCEPT !.pc = "stat", !.files[Reached].sha256 = Current]
    BY <1>3 DEF HashHFile
  <2>2. catalog' = [pc |-> "stat", files |-> [catalog.files EXCEPT ![Reached] = file]]
    BY <2>1, CatalogIs
  <2>3. Reached > 0 /\ FileKnown(catalog.files, Reached, Reached, "hash", headersHeld)
    BY <1>1, CatalogIs
  <2>4. /\ DOMAIN old = {"entries", "sha256", "size", "since"}
        /\ Reached \in DOMAIN headersHeld /\ old.since \in 1 .. Len(past)
        /\ old.entries = ParseHText(ReadText(past[old.since])).entries
    BY <2>3 DEF FileKnown, FileInTime
  <2>5. /\ file.entries = old.entries /\ file.since = old.since /\ file.sha256 = Current
        /\ DOMAIN file = {"entries", "sha256", "size", "since"}
    BY <2>4
  <2>6. Len(past) \in Nat /\ past[Len(past)] = Current
    BY <1>1, <2>4, CatalogIs, LastHeld
  <2> HIDE DEF old, past, file
  <2>7. Len(past) \in file.since .. Len(past)
    BY <2>4, <2>5, <2>6
  <2>8. FileInTime(file, past, TRUE, FALSE)
    BY <2>4, <2>5, <2>6, <2>7 DEF FileInTime
  <2>9. FileInTime(file, past, TRUE, "stat" = "parse")
    BY <2>8 DEF FileInTime
  <2> QED
    BY <1>1, <2>2, <2>3, <2>5, <2>9, PartRead DEF old, past
<1> QED
  BY <1>2, <1>3

\* ... and the size of that or a later one.
LEMMA StatHTrue ==
    ASSUME TrueInv, StatHFile
    PROVE  TrueInv'
<1>1. /\ UNCHANGED <<texts, rebuild, output>>
      /\ catalog.pc = "stat" /\ Current = headers[Reached]
      /\ catalog' # [catalog EXCEPT !.pc = "raised"] => Current # Gone
  BY DEF StatHFile, corpus, manifest, texts, Current
<1>2. CASE catalog' = [catalog EXCEPT !.pc = "raised"]
  BY <1>1, <1>2, CatalogRaises
<1>3. CASE catalog' # [catalog EXCEPT !.pc = "raised"]
  <2> DEFINE old == catalog.files[Reached]
             past == headersHeld[Reached]
             file == [old EXCEPT !.size = Len(Current)]
  <2>1. catalog' = [catalog EXCEPT !.pc = "parse", !.files[Reached].size = Len(Current)]
    BY <1>3 DEF StatHFile
  <2>2. catalog' = [pc |-> "parse", files |-> [catalog.files EXCEPT ![Reached] = file]]
    BY <2>1, CatalogIs
  <2>3. Reached > 0 /\ FileKnown(catalog.files, Reached, Reached, "stat", headersHeld)
    BY <1>1, CatalogIs
  <2>4. /\ DOMAIN old = {"entries", "sha256", "size", "since"}
        /\ Reached \in DOMAIN headersHeld /\ old.since \in 1 .. Len(past)
        /\ old.entries = ParseHText(ReadText(past[old.since])).entries
        /\ \E v \in old.since .. Len(past) : old.sha256 = past[v]
    BY <2>3 DEF FileKnown, FileInTime
  <2>5. /\ file.entries = old.entries /\ file.since = old.since /\ file.sha256 = old.sha256
        /\ file.size = Len(Current) /\ DOMAIN file = {"entries", "sha256", "size", "since"}
    BY <2>4
  <2>6. Len(past) \in Nat /\ past[Len(past)] = Current /\ Current # Gone
    BY <1>1, <1>3, <2>4, CatalogIs, LastHeld
  <2> HIDE DEF old, past, file
  <2>7. PICK v \in old.since .. Len(past) : old.sha256 = past[v]
    BY <2>4
  <2>8. Len(past) \in v .. Len(past) /\ file.size = Len(past[Len(past)])
    BY <2>4, <2>5, <2>6
  <2>9. FileInTime(file, past, TRUE, TRUE)
    BY <2>4, <2>5, <2>6, <2>7, <2>8 DEF FileInTime
  <2>10. FileInTime(file, past, TRUE, "parse" = "parse")
    BY <2>9 DEF FileInTime
  <2> QED
    BY <1>1, <2>2, <2>3, <2>5, <2>10, PartRead DEF old, past
<1> QED
  BY <1>2, <1>3

\* Someone saves or removes a .h file: the catalog has read what the file has
\* held before.
LEMMA EditHeaderTrue ==
    ASSUME TrueInv, EditHeader
    PROVE  TrueInv'
<1>1. UNCHANGED <<par, parHeld, rebuild, catalog, output>>
  BY DEF EditHeader, Edit, manifest
<1>2. PICK f \in DOMAIN headers, d \in HDrafts \cup {Gone} :
              /\ headers' = [headers EXCEPT ![f] = d]
              /\ headersHeld' = [headersHeld EXCEPT ![f] = Append(@, d)]
  BY DEF EditHeader
<1>3. /\ Remembers(headers', headersHeld') /\ DOMAIN headersHeld' = DOMAIN headersHeld
      /\ \A g \in DOMAIN headersHeld : Grew(headersHeld[g], headersHeld'[g])
  <2>1. Remembers(headers, headersHeld)
    BY DEF TrueInv
  <2>2. headers' = SavedNow(headers, f, d) /\ headersHeld' = HeldNow(headersHeld, f, d)
    BY <1>2 DEF SavedNow, HeldNow
  <2>3. /\ Remembers(SavedNow(headers, f, d), HeldNow(headersHeld, f, d))
        /\ DOMAIN HeldNow(headersHeld, f, d) = DOMAIN headersHeld
        /\ \A g \in DOMAIN headersHeld : Grew(headersHeld[g], HeldNow(headersHeld, f, d)[g])
    BY <2>1, Saved
  <2> QED BY <2>2, <2>3
<1>4. catalog'.pc = catalog.pc /\ catalog'.files = catalog.files /\ Reached' = Reached
  BY <1>1 DEF Reached
<1>5. ASSUME NEW n \in 1 .. Reached
      PROVE  FileKnown(catalog.files, n, Reached, catalog.pc, headersHeld')
  <2> DEFINE hashed == n < Reached \/ catalog.pc \in {"stat", "parse"}
             sized == n < Reached \/ catalog.pc = "parse"
             file == catalog.files[n]
  <2>1. FileKnown(catalog.files, n, Reached, catalog.pc, headersHeld)
    BY CatalogIs
  <2>2. /\ n \in DOMAIN headersHeld' /\ Grew(headersHeld[n], headersHeld'[n])
        /\ DOMAIN file = {"entries", "sha256", "size", "since"}
        /\ file.since \in 1 .. Len(headersHeld[n])
        /\ FileInTime(file, headersHeld[n], hashed, sized)
    BY <1>3, <2>1 DEF FileKnown
  <2> HIDE DEF hashed, sized, file
  <2>3. /\ file.since \in 1 .. Len(headersHeld'[n])
        /\ FileInTime(file, headersHeld'[n], hashed, sized)
    BY <2>2, FileStillInTime
  <2> QED BY <2>2, <2>3 DEF FileKnown, hashed, sized, file
<1>6. Catalogued'
  <2>1. catalog.pc \in {"hash", "stat"} => Reached > 0
    BY CatalogIs
  <2> QED BY <1>4, <1>5, <2>1 DEF Catalogued, FileKnown
<1>7. Shapes' /\ Made'
  BY <1>1 DEF TrueInv, Shapes, NoFile, Torn, Made
<1>8. ASSUME NEW q \in Rebuilds
      PROVE  (Passes(rebuild[q]) /\ Listed(rebuild[q], parHeld) /\ InTime(rebuild[q], parHeld))'
  BY <1>1 DEF TrueInv
<1>9. Remembers(par, parHeld)'
  BY <1>1 DEF TrueInv
<1> QED
  BY <1>3, <1>6, <1>7, <1>8, <1>9 DEF TrueInv

\* Someone saves or removes a .par file: the same of the rebuilds.
LEMMA EditParTrue ==
    ASSUME TrueInv, EditPar
    PROVE  TrueInv'
<1>1. UNCHANGED <<headers, headersHeld, rebuild, catalog, output>>
  BY DEF EditPar, Edit, manifest
<1>2. PICK f \in DOMAIN par, d \in ParDrafts \cup {Gone} :
              /\ par' = [par EXCEPT ![f] = d]
              /\ parHeld' = [parHeld EXCEPT ![f] = Append(@, d)]
  BY DEF EditPar
<1>3. /\ Remembers(par', parHeld') /\ DOMAIN parHeld' = DOMAIN parHeld
      /\ \A g \in DOMAIN parHeld : Grew(parHeld[g], parHeld'[g])
  <2>1. Remembers(par, parHeld)
    BY DEF TrueInv
  <2>2. par' = SavedNow(par, f, d) /\ parHeld' = HeldNow(parHeld, f, d)
    BY <1>2 DEF SavedNow, HeldNow
  <2>3. /\ Remembers(SavedNow(par, f, d), HeldNow(parHeld, f, d))
        /\ DOMAIN HeldNow(parHeld, f, d) = DOMAIN parHeld
        /\ \A g \in DOMAIN parHeld : Grew(parHeld[g], HeldNow(parHeld, f, d)[g])
    BY <2>1, Saved
  <2> QED BY <2>2, <2>3
<1>4. ASSUME NEW q \in Rebuilds
      PROVE  (Passes(rebuild[q]) /\ Listed(rebuild[q], parHeld) /\ InTime(rebuild[q], parHeld))'
  <2> DEFINE run == rebuild[q]
  <2>1. /\ Sequence(run.shas) /\ Sequence(run.paths) /\ Passes(run)
        /\ Listed(run, parHeld) /\ InTime(run, parHeld)
    BY RunIs
  <2>2. rebuild'[q] = run
    BY <1>1
  <2> HIDE DEF run
  <2>3. Listed(run, parHeld') /\ InTime(run, parHeld')
    BY <1>3, <2>1, RunStillInTime
  <2> QED BY <2>1, <2>2, <2>3
<1>5. Shapes' /\ Made'
  BY <1>1 DEF TrueInv, Shapes, NoFile, Torn, Made
<1>6. Catalogued' /\ Remembers(headers, headersHeld)'
  BY <1>1 DEF TrueInv, Catalogued, Reached
<1> QED
  BY <1>3, <1>4, <1>5, <1>6 DEF TrueInv

\* The fixture tool leaves the rest of a manifest alone.
LEMMA RecordTrue ==
    ASSUME TrueInv, RecordFixtures
    PROVE  TrueInv'
<1>1. /\ UNCHANGED <<par, parHeld, headers, headersHeld, rebuild, catalog>>
      /\ output.state = "whole" /\ output' = [output EXCEPT !.fixtures = recorded']
  BY DEF RecordFixtures, corpus
<1>2. output = Manifest(output.by, output.fixtures, output.shas, output.totals)
  BY <1>1 DEF TrueInv, Shapes, Manifest, NoFile, Torn
<1>3. output' = Manifest(output.by, recorded', output.shas, output.totals)
  BY <1>1, <1>2 DEF Manifest
<1>4. /\ output'.state = "whole" /\ output'.by = output.by
      /\ output'.shas = output.shas /\ output'.totals = output.totals
      /\ output'.fixtures = recorded'
  BY <1>3 DEF Manifest
<1>5. Shapes'
  <2>1. output' = [state |-> "whole", by |-> output'.by, fixtures |-> output'.fixtures,
                   shas |-> output'.shas, totals |-> output'.totals]
    BY <1>3, <1>4 DEF Manifest
  <2> QED
    BY <1>1, <2>1 DEF TrueInv, Shapes
<1>6. Made'
  BY <1>1, <1>4 DEF TrueInv, Made
<1>7. Catalogued'
  BY <1>1 DEF TrueInv, Catalogued, Reached
<1>8. ASSUME NEW q \in Rebuilds
      PROVE  (Passes(rebuild[q]) /\ Listed(rebuild[q], parHeld) /\ InTime(rebuild[q], parHeld))'
  BY <1>1 DEF TrueInv
<1>9. Remembers(par, parHeld)' /\ Remembers(headers, headersHeld)'
  BY <1>1 DEF TrueInv
<1> QED
  BY <1>5, <1>6, <1>7, <1>8, <1>9 DEF TrueInv

\* TrueInv is inductive.
LEMMA NextTrue ==
    ASSUME TrueInv, [Next]_vars
    PROVE  TrueInv'
<1>1. CASE Next
  BY <1>1, ReadTrue, ListTrue, HashTrue, CountTrue, LoadTrue, MergeTrue, OpenTrue,
     WriteTrue, DieTrue, ParseHTrue, HashHTrue, StatHTrue, EditParTrue,
     EditHeaderTrue, RecordTrue DEF Next
<1>2. CASE UNCHANGED vars
  <2>1. UNCHANGED <<texts, rebuild, output, catalog>>
    BY <1>2 DEF vars, corpus, manifest, texts
  <2> QED
    BY <2>1, CatalogIs, CatalogMoves
<1> QED
  BY <1>1, <1>2

\* In every reachable state the rebuilds, the manifest and the catalog are as
\* far as their places say, and each of their readings is of what its file held
\* since the listing, or since its rows were read, no later reading being of an
\* older content.
THEOREM TrueInvHolds == Spec => []TrueInv
BY InitTrue, NextTrue, PTL DEF Spec

\* RecordsTrue: a manifest (yonishi_manifest.py) covers the files of one listing
\* with a hash and with counts for each, both of contents that file had since the
\* listing, the hash of the earlier one or the same; a catalog
\* (yonishi_dispatch.py) has the rows, the hash and the size of each file in the
\* same way: for any texts, any number of rebuilds and any edits at any time.
THEOREM RecordsAlwaysTrue == Spec => []RecordsTrue
<1>1. ASSUME TrueInv PROVE RecordsTrue
  <2>1. \A r \in Rebuilds : InTime(rebuild[r], parHeld)
    BY <1>1, RunIs
  <2>2. ASSUME output.state = "whole"
        PROVE  LET run == rebuild[output.by]
               IN  /\ output.shas = run.shas /\ output.totals = AggregateCorpus(run.counted)
                   /\ DOMAIN run.shas = DOMAIN run.paths /\ DOMAIN run.counted = DOMAIN run.paths
    <3> DEFINE run == rebuild[output.by]
    <3>1. /\ output.by \in Rebuilds /\ run.pc = "returned 0" /\ output.shas = run.shas
          /\ output.totals = AggregateCorpus(run.counted)
      BY <1>1, <2>2 DEF TrueInv, Made
    <3>2. Sequence(run.paths) /\ Sequence(run.shas) /\ Sequence(run.counted) /\ Passes(run)
      BY <1>1, <3>1, RunIs
    <3>3. Len(run.shas) = Len(run.paths) /\ Len(run.counted) = Len(run.paths)
      BY <3>1, <3>2 DEF Passes
    <3>4. DOMAIN run.shas = DOMAIN run.paths /\ DOMAIN run.counted = DOMAIN run.paths
      BY <3>2, <3>3, SequenceHas
    <3> QED
      BY <3>1, <3>4
  <2>3. ASSUME NEW n \in DOMAIN catalog.files
        PROVE  FileInTime(catalog.files[n], headersHeld[n],
                          n < Reached \/ catalog.pc \in {"stat", "parse"},
                          n < Reached \/ catalog.pc = "parse")
    <3>1. n \in 1 .. Reached
      BY <1>1, CatalogIs, SequenceHas
    <3> QED
      BY <1>1, <3>1, CatalogIs DEF FileKnown
  <2> QED
    BY <2>1, <2>2, <2>3 DEF RecordsTrue
<1> QED
  BY <1>1, TrueInvHolds, PTL
-----------------------------------------------------------------------------
(* Fixtures *)

\* In the beginning there is no manifest and nobody writes.
LEMMA InitKept == Init => KeptInv
<1> SUFFICES ASSUME Init PROVE KeptInv
  OBVIOUS
<1>1. output.state = "none" /\ recorded = 0
  BY DEF Init, NoFile
<1>2. \A r \in Rebuilds : rebuild[r].pc = "list"
  BY DEF Init
<1> QED
  BY <1>1, <1>2 DEF KeptInv, Alone, ManifestKept, Opened

\* The place and the fixtures of a rebuild, and of the others, after a step.
LEMMA AfterStep ==
    ASSUME TrueInv, NEW r \in Rebuilds, NEW pc, NEW x, NEW y
    PROVE  /\ (\/ rebuild' = PcSet(r, pc)
               \/ rebuild' = PathsSet(r, pc, x, y)
               \/ rebuild' = ShasSet(r, pc, x)
               \/ rebuild' = CountedSet(r, pc, x))
              => rebuild'[r].pc = pc /\ rebuild'[r].fixtures = rebuild[r].fixtures
                 /\ \A q \in Rebuilds : q # r => rebuild'[q] = rebuild[q]
           /\ rebuild' = FixturesSet(r, pc, x)
              => rebuild'[r].pc = pc /\ rebuild'[r].fixtures = x
                 /\ \A q \in Rebuilds : q # r => rebuild'[q] = rebuild[q]
<1>1. ASSUME NEW new, rebuild' = Put(r, new)
      PROVE  rebuild'[r] = new /\ \A q \in Rebuilds : q # r => rebuild'[q] = rebuild[q]
  BY <1>1, RunIs DEF Put, Shapes
<1>2. ASSUME NEW a, NEW b, NEW c, NEW d, NEW e, NEW f
      PROVE  Run(a, b, c, d, e, f).pc = a /\ Run(a, b, c, d, e, f).fixtures = f
  BY DEF Run
<1>3. ASSUME rebuild' = FixturesSet(r, pc, x)
      PROVE  rebuild'[r].pc = pc /\ rebuild'[r].fixtures = x
             /\ \A q \in Rebuilds : q # r => rebuild'[q] = rebuild[q]
  BY <1>1, <1>2, <1>3, RunIs, FieldsSet
<1>4. ASSUME \/ rebuild' = PcSet(r, pc)
             \/ rebuild' = PathsSet(r, pc, x, y)
             \/ rebuild' = ShasSet(r, pc, x)
             \/ rebuild' = CountedSet(r, pc, x)
      PROVE  rebuild'[r].pc = pc /\ rebuild'[r].fixtures = rebuild[r].fixtures
             /\ \A q \in Rebuilds : q # r => rebuild'[q] = rebuild[q]
  <2> DEFINE run == rebuild[r]
  <2>1. PICK new : /\ rebuild' = Put(r, new)
                   /\ \/ new = Run(pc, run.paths, run.since, run.shas, run.counted, run.fixtures)
                      \/ new = Run(pc, x, y, run.shas, run.counted, run.fixtures)
                      \/ new = Run(pc, run.paths, run.since, x, run.counted, run.fixtures)
                      \/ new = Run(pc, run.paths, run.since, run.shas, x, run.fixtures)
    <3>1. CASE rebuild' = PcSet(r, pc)
      BY <3>1, RunIs, FieldsSet
    <3>2. CASE rebuild' = PathsSet(r, pc, x, y)
      BY <3>2, RunIs, FieldsSet
    <3>3. CASE rebuild' = ShasSet(r, pc, x)
      BY <3>3, RunIs, FieldsSet
    <3>4. CASE rebuild' = CountedSet(r, pc, x)
      BY <3>4, RunIs, FieldsSet
    <3> QED BY <1>4, <3>1, <3>2, <3>3, <3>4
  <2>2. new.pc = pc /\ new.fixtures = run.fixtures
    BY <2>1 DEF Run
  <2> QED BY <1>1, <2>1, <2>2
<1> QED
  BY <1>3, <1>4

\* A step that brings no rebuild to its writing, takes none away from it and
\* touches neither the manifest nor what was recorded.
LEMMA QuietKept ==
    ASSUME KeptInv, UNCHANGED <<output, recorded, hurt>>,
           \A q \in Rebuilds :
              /\ Opened(q) => rebuild'[q].pc = "write"
              /\ rebuild'[q].pc \in {"open", "write"} =>
                    /\ rebuild'[q].pc = rebuild[q].pc
                    /\ rebuild'[q].fixtures = rebuild[q].fixtures
    PROVE  KeptInv'
BY DEF KeptInv, Alone, ManifestKept, Opened

\* A rebuild that goes on to a place where it does not write.
LEMMA MovesQuietly ==
    ASSUME TrueInv, KeptInv, UNCHANGED <<output, recorded, hurt>>,
           NEW r \in Rebuilds, NEW pc, NEW x, NEW y,
           rebuild[r].pc # "write", pc \notin {"open", "write"},
           \/ rebuild' = PcSet(r, pc)
           \/ rebuild' = PathsSet(r, pc, x, y)
           \/ rebuild' = ShasSet(r, pc, x)
           \/ rebuild' = CountedSet(r, pc, x)
    PROVE  KeptInv'
<1>1. rebuild'[r].pc = pc /\ \A q \in Rebuilds : q # r => rebuild'[q] = rebuild[q]
  <2>1. CASE rebuild' = PcSet(r, pc)
    BY <2>1, AfterStep
  <2>2. CASE rebuild' = PathsSet(r, pc, x, y)
    BY <2>2, AfterStep
  <2>3. CASE rebuild' = ShasSet(r, pc, x)
    BY <2>3, AfterStep
  <2>4. CASE rebuild' = CountedSet(r, pc, x)
    BY <2>4, AfterStep
  <2> QED
    BY <2>1, <2>2, <2>3, <2>4
<1> QED
  BY <1>1, QuietKept DEF Opened

\* Up to the merge a rebuild leaves the manifest alone.
LEMMA ReadingKept ==
    ASSUME TrueInv, KeptInv, NEW r \in Rebuilds,
           List(r) \/ Hash(r) \/ Count(r) \/ Load(r)
    PROVE  KeptInv'
<1>1. UNCHANGED <<output, recorded, hurt>>
  BY DEF List, Hash, Count, Load, manifest
<1>2. CASE List(r)
  <2> DEFINE since == [i \in DOMAIN ScanParFiles |-> Len(parHeld[ScanParFiles[i]])]
  <2>1. rebuild' = PathsSet(r, "hash", ScanParFiles, since) /\ rebuild[r].pc = "list"
    BY <1>2 DEF List, At, PathsSet
  <2> HIDE DEF since
  <2> QED
    BY <1>1, <2>1, MovesQuietly
<1>3. CASE Hash(r)
  <2> DEFINE pc == GoOver(r, rebuild[r].shas, "count")
             shas == IF pc # "hash" THEN rebuild[r].shas
                     ELSE Append(rebuild[r].shas, par[rebuild[r].paths[Len(rebuild[r].shas) + 1]])
  <2>1. rebuild' = ShasSet(r, pc, shas)
    BY <1>3 DEF Hash, ShasSet
  <2>2. rebuild[r].pc = "hash"
    BY <1>3 DEF Hash, At
  <2>3. pc \in {"count", "raised", "hash"}
    BY <2>2 DEF GoOver
  <2> HIDE DEF pc, shas
  <2> QED
    BY <1>1, <2>1, <2>2, <2>3, MovesQuietly
<1>4. CASE Count(r)
  <2> DEFINE pc == GoOver(r, rebuild[r].counted, "load")
             counted == IF pc # "count" THEN rebuild[r].counted
                        ELSE Append(rebuild[r].counted, ParFileStats(
                                par[rebuild[r].paths[Len(rebuild[r].counted) + 1]]))
  <2>1. rebuild' = CountedSet(r, pc, counted)
    BY <1>4 DEF Count, CountedSet
  <2>2. rebuild[r].pc = "count"
    BY <1>4 DEF Count, At
  <2>3. pc \in {"count", "raised", "load"}
    BY <2>2 DEF GoOver
  <2> HIDE DEF pc, counted
  <2> QED
    BY <1>1, <2>1, <2>2, <2>3, MovesQuietly
<1>5. CASE Load(r)
  <2>1. PICK pc \in LoadOutcomes : rebuild' = [rebuild EXCEPT ![r].pc = pc]
    BY <1>5 DEF Load
  <2>2. rebuild' = PcSet(r, pc) /\ pc \in {"merge", "returned 1", "raised"}
    BY <2>1 DEF PcSet, LoadOutcomes
  <2>3. rebuild[r].pc = "load"
    BY <1>5 DEF Load, At
  <2> QED
    BY <1>1, <2>2, <2>3, MovesQuietly
<1> QED
  BY <1>2, <1>3, <1>4, <1>5

\* The fixtures are taken over while nobody writes.
LEMMA MergeKept ==
    ASSUME TrueInv, KeptInv, NEW r \in Rebuilds, Merge(r)
    PROVE  KeptInv'
<1> DEFINE fixtures == IF output.state = "whole" THEN output.fixtures ELSE 0
<1>1. rebuild' = FixturesSet(r, "open", fixtures) /\ UNCHANGED <<output, recorded>>
  BY DEF Merge, FixturesSet
<1>2. ~hurt' => ~hurt /\ \A q \in Rebuilds : ~Opened(q)
  BY DEF Merge
<1>3. ~hurt' => fixtures = recorded
  BY <1>2 DEF KeptInv, ManifestKept
<1> HIDE DEF fixtures
<1>4. /\ rebuild'[r].pc = "open" /\ rebuild'[r].fixtures = fixtures
      /\ \A q \in Rebuilds : q # r => rebuild'[q] = rebuild[q]
  BY <1>1, AfterStep
<1>5. \A q \in Rebuilds : Opened(q)' => Opened(q)
  BY <1>4 DEF Opened
<1>6. Alone'
  BY <1>1, <1>2, <1>3, <1>4, <1>5 DEF KeptInv, Alone
<1>7. ManifestKept'
  BY <1>1, <1>2 DEF KeptInv, ManifestKept
<1> QED
  BY <1>6, <1>7 DEF KeptInv

\* Whoever opens the manifest alone holds the fixtures recorded last.
LEMMA OpenKept ==
    ASSUME TrueInv, KeptInv, NEW r \in Rebuilds, Open(r)
    PROVE  KeptInv'
<1>1. rebuild' = PcSet(r, "write") /\ output' = Torn /\ recorded' = recorded
  BY DEF Open, PcSet
<1>2. ~hurt' => ~hurt /\ \A q \in Rebuilds : ~Opened(q)
  BY DEF Open
<1>3. rebuild[r].pc = "open"
  BY DEF Open, At
<1>4. /\ rebuild'[r].pc = "write" /\ rebuild'[r].fixtures = rebuild[r].fixtures
      /\ \A q \in Rebuilds : q # r => rebuild'[q] = rebuild[q]
  BY <1>1, AfterStep
<1>5. ~hurt' => rebuild'[r].fixtures = recorded'
  BY <1>1, <1>2, <1>3, <1>4 DEF KeptInv, Alone
<1>6. Alone'
  BY <1>1, <1>2, <1>4, <1>5 DEF KeptInv, Alone, Opened, Torn
<1>7. ManifestKept'
  BY <1>4, <1>5 DEF ManifestKept, Opened
<1> QED
  BY <1>6, <1>7 DEF KeptInv

\* Whoever writes alone brings them back.
LEMMA WriteKept ==
    ASSUME TrueInv, KeptInv, NEW r \in Rebuilds, Write(r)
    PROVE  KeptInv'
<1>1. rebuild' = PcSet(r, "returned 0") /\ UNCHANGED <<recorded, hurt>>
  BY DEF Write, PcSet
<1>2. Opened(r)
  BY DEF Write, At, Opened
<1>3. ~hurt => /\ rebuild[r].fixtures = recorded /\ output = Torn
               /\ \A q \in Rebuilds : Opened(q) => q = r
  BY <1>2 DEF KeptInv, Alone, Opened
<1>4. ~hurt => output' = Manifest(r, rebuild[r].fixtures, rebuild[r].shas,
                                  AggregateCorpus(rebuild[r].counted))
  <2>1. ~hurt => output.state # "whole"
    BY <1>3 DEF Torn
  <2>2. \/ output' = Manifest(r, rebuild[r].fixtures, rebuild[r].shas,
                              AggregateCorpus(rebuild[r].counted))
        \/ output.state = "whole"
    BY DEF Write, Manifest
  <2> QED
    BY <2>1, <2>2
<1>5. ~hurt => output'.state = "whole" /\ output'.fixtures = recorded
  BY <1>3, <1>4 DEF Manifest
<1>6. rebuild'[r].pc = "returned 0" /\ \A q \in Rebuilds : q # r => rebuild'[q] = rebuild[q]
  BY <1>1, AfterStep
<1>7. ~hurt => \A q \in Rebuilds : ~Opened(q)'
  BY <1>3, <1>6 DEF Opened
<1>8. Alone'
  BY <1>1, <1>6, <1>7 DEF KeptInv, Alone
<1>9. ManifestKept'
  BY <1>1, <1>5 DEF ManifestKept
<1> QED
  BY <1>8, <1>9 DEF KeptInv

\* A rebuild that dies before it opens the manifest changes nothing.
LEMMA DieKept ==
    ASSUME TrueInv, KeptInv, NEW r \in Rebuilds, Die(r)
    PROVE  KeptInv'
<1>1. CASE Opened(r)
  <2>1. hurt'
    BY <1>1 DEF Die
  <2> QED
    BY <2>1 DEF KeptInv, Alone, ManifestKept
<1>2. CASE ~Opened(r)
  <2>1. rebuild' = PcSet(r, "killed") /\ UNCHANGED <<output, recorded>>
    BY <1>2 DEF Die, PcSet
  <2>2. hurt' = (hurt \/ Opened(r))
    BY DEF Die
  <2>3. rebuild'[r].pc = "killed" /\ \A q \in Rebuilds : q # r => rebuild'[q] = rebuild[q]
    BY <2>1, AfterStep
  <2>4. ~hurt' => ~hurt
    BY <2>2
  <2>5. \A q \in Rebuilds : Opened(q) => q # r
    BY <1>2
  <2>6. Alone'
    BY <2>1, <2>3, <2>4 DEF KeptInv, Alone, Opened
  <2>7. ManifestKept'
    BY <2>1, <2>3, <2>4, <2>5 DEF KeptInv, ManifestKept, Opened
  <2> QED
    BY <2>6, <2>7 DEF KeptInv
<1> QED
  BY <1>1, <1>2

\* What is recorded while nobody writes is in the manifest.
LEMMA RecordKept ==
    ASSUME TrueInv, KeptInv, RecordFixtures
    PROVE  KeptInv'
<1>1. output.state = "whole" /\ output' = [output EXCEPT !.fixtures = recorded']
      /\ rebuild' = rebuild
  BY DEF RecordFixtures
<1>2. output = Manifest(output.by, output.fixtures, output.shas, output.totals)
  BY <1>1 DEF TrueInv, Shapes, Manifest, NoFile, Torn
<1>3. output'.state = "whole" /\ output'.fixtures = recorded'
  BY <1>1, <1>2 DEF Manifest
<1>4. ~hurt' => \A r \in Rebuilds : rebuild[r].pc \notin {"open", "write"}
  BY DEF RecordFixtures
<1> QED
  BY <1>1, <1>3, <1>4 DEF KeptInv, Alone, ManifestKept, Opened

\* No other action has to do with the manifest.
LEMMA OthersKept ==
    ASSUME TrueInv, KeptInv,
           \/ ReadDocuments \/ ParseHFile \/ HashHFile \/ StatHFile
           \/ EditPar \/ EditHeader \/ UNCHANGED vars
    PROVE  KeptInv'
<1>1. UNCHANGED <<output, recorded, hurt>>
  BY DEF ReadDocuments, ParseHFile, HashHFile, StatHFile, EditPar, EditHeader, Edit,
         vars, manifest
<1>2. UNCHANGED rebuild
  BY DEF ReadDocuments, ParseHFile, HashHFile, StatHFile, EditPar, EditHeader, Edit, vars
<1> QED
  BY <1>1, <1>2, QuietKept DEF Opened

\* KeptInv is inductive, given TrueInv.
LEMMA NextKept ==
    ASSUME TrueInv, KeptInv, [Next]_vars
    PROVE  KeptInv'
BY OthersKept, ReadingKept, MergeKept, OpenKept, WriteKept, DieKept, RecordKept DEF Next

\* Until two writers meet, a rebuild about to write holds the fixtures recorded
\* last.
THEOREM KeptInvHolds == Spec => []KeptInv
BY InitKept, NextKept, TrueInvHolds, PTL DEF Spec

\* ManifestKept: a rebuild that is killed or fails before it opens the manifest
\* (yonishi_manifest.py) changes nothing, and as long as no writer is cut short
\* or meets another the recorded fixtures survive: for any number of rebuilds.
THEOREM FixturesSurvive == Spec => []ManifestKept
<1>1. ASSUME KeptInv PROVE ManifestKept
  BY <1>1 DEF KeptInv
<1> QED
  BY <1>1, KeptInvHolds, PTL
=============================================================================
