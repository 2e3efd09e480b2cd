----------------------------- MODULE ReportProofs -----------------------------
(***************************************************************************)
(* Proofs about Report, for every set of temperatures and durations, any    *)
(* number of captures and any number of table rows on a page.               *)
(***************************************************************************)
EXTENDS Report, FiniteSetTheorems, SequenceTheorems, TLAPS

Kinds == {"cover", "table", "summary", "detail"}
PageSet == [kind : Kinds, footer : Seq(Int)]

(* The types; a footer is a page number and, behind it, other figures.      *)
TypeInv ==
    /\ captures \in Seq(Nat) /\ elapsed \in Int
    /\ pc \in {"call", "summary", "details", "saved", "thrown"}
    /\ pages \in Seq(PageSet) /\ badges \in Seq(Severities)

(* The badges drawn so far are those of the first captures. *)
BadgesInv ==
    /\ Len(badges) <= Len(captures)
    /\ \A i \in 1 .. Len(badges) : badges[i] = Badge(captures[i])
    /\ pc \in {"call", "summary", "thrown"} => Len(badges) = 0
    /\ pc = "saved" => Len(badges) = Len(captures)

CsvInv == csv = <<>> \/ csv = [i \in DOMAIN captures |-> CsvSeverity(captures[i])]

Counts ==
    [s \in Severities |->
        Cardinality({i \in DOMAIN captures : SummaryClass(captures[i]) = s})]

(* The figures on the cover and on the severity page, once drawn, are those *)
(* of the argument.                                                         *)
FiguresInv ==
    /\ pc \in {"summary", "details", "saved"} =>
          /\ captures # <<>>
          /\ cover.peak \in ToFixed1(PeakTemp(captures))
          /\ cover.duration = FmtDuration(IF Len(captures) > 1 THEN elapsed ELSE -1)
          /\ cover.pins \in {<<>>, [i \in DOMAIN captures |-> PinFill(captures[i])]}
    /\ pc \in {"details", "saved"} =>
          summary = [counts |-> Counts, action |-> Recommend(Counts)]

(* The pages that the table fills have no footer; the ones after them are   *)
(* numbered from 1, and the first two of those carry a total.               *)
Extra == TablePages(Len(captures))

Numbered(p, i, extra) ==
    IF i <= extra THEN p.footer = <<>> ELSE p.footer # <<>> /\ p.footer[1] = i - extra

PagesInv ==
    /\ Len(pages) = CASE pc \in {"call", "thrown"} -> 0
                      [] pc = "summary" -> Extra + 1
                      [] pc \in {"details", "saved"} -> Len(badges) + 2 + Extra
    /\ \A i \in 1 .. Len(pages) : Numbered(pages[i], i, Extra)
    /\ pc \in {"summary", "details", "saved"} =>
          pages[Extra + 1].footer[2] = Len(captures) + 1
    /\ pc \in {"details", "saved"} =>
          pages[Extra + 2].footer[2] = Len(captures) + 2

IInv == TypeInv /\ BadgesInv /\ CsvInv /\ FiguresInv /\ PagesInv

----------------------------------------------------------------------------
(* The classifications *)

(* The severity page and the detail pages sort every temperature alike,     *)
(* although only the latter replace a missing one.                          *)
LEMMA ClassIsBadge ==
    \A t \in Nat : SummaryClass(t) = Badge(t) /\ Badge(t) \in Severities
  BY DEF SummaryClass, Badge, Severities

(* The thresholds the advice depends on, as names: the first-order prover   *)
(* does not cope with large numerals.                                       *)
Hot == 8500
Warm == 6500

(* What each bucket holds. *)
LEMMA ClassRange ==
    /\ Hot \in Nat /\ Warm \in Nat /\ Warm < Hot
    /\ \A t \in Nat : /\ SummaryClass(t) = "CRITICAL" <=> t > Hot
                      /\ SummaryClass(t) = "WARNING" <=> t > Warm /\ t <= Hot
  BY DEF SummaryClass, Hot, Warm

(* The CSV is one class worse between the two thresholds of a class. *)
LEMMA CsvOneWorse ==
    \A t \in Nat :
        Rank[CsvSeverity(t)] = Rank[Badge(t)] + (IF InBand(t) THEN 1 ELSE 0)
  BY DEF Rank, CsvSeverity, Badge, InBand

LEMMA ColourIsCsv ==
    \A t \in Nat : /\ RowColour(t) = "red" <=> CsvSeverity(t) = "CRITICAL"
                   /\ RowColour(t) = "amber" <=> CsvSeverity(t) = "WARNING"
                   /\ PinFill(t) = "navy" <=> CsvSeverity(t) = "CRITICAL"
                   /\ PinFill(t) = "mid" <=> CsvSeverity(t) = "WARNING"
  BY DEF RowColour, PinFill, CsvSeverity

(* Rounding to a tenth does not carry a figure over a threshold, it can     *)
(* only end on it.                                                          *)
LEMMA RoundedSide ==
    ASSUME NEW t \in Nat, NEW p \in ToFixed1(t), NEW limit \in Nat
    PROVE  /\ p \in Int
           /\ p # limit => (t > 10 * limit <=> p > limit)
  <1>1. t \div 10 \in Int
    OBVIOUS
  <1>2. p \in Int /\ 10 * p - t <= 5 /\ t - 10 * p <= 5
    BY <1>1 DEF ToFixed1
  <1> QED BY <1>2

(* The remainders are what the larger units leave. *)
LEMMA UnitsOf ==
    ASSUME NEW n \in Nat
    PROVE  /\ n \div 60 \in Nat /\ n % 60 \in 0 .. 59
           /\ n = 60 * (n \div 60) + (n % 60)
  OBVIOUS

(* fmtDuration keeps the time it is given, rounded down to a minute from an *)
(* hour on.                                                                 *)
LEMMA DurationKept ==
    ASSUME NEW e \in Int
    PROVE  LET d == FmtDuration(e)
               shown == 3600 * d.h + 60 * d.m + d.s
           IN  IF e < 0 THEN d.shown = "none"
               ELSE /\ d.shown # "none" /\ d.m < 60 /\ d.s < 60
                    /\ shown <= e
                    /\ e < shown + (IF d.shown = "hm" THEN 60 ELSE 1)
  <1>1. CASE e < 0
    BY <1>1 DEF FmtDuration
  <1>2. CASE ~ (e < 0)
    <2> DEFINE m == Minutes(e)
               h == Hours(e)
               mm == m % 60
               ss == e % 60
    <2>1. m \in Nat /\ ss \in 0 .. 59 /\ e = 60 * m + ss
      <3>1. e \in Nat
        BY <1>2
      <3> QED BY <3>1, UnitsOf DEF Minutes
    <2>2. h \in Nat /\ mm \in 0 .. 59 /\ m = 60 * h + mm
      <3>1. h = m \div 60
        BY DEF Hours
      <3> HIDE DEF m, h
      <3> QED BY <2>1, <3>1, UnitsOf
    <2> HIDE DEF m, h, mm, ss
    <2>3. CASE h > 0
      <3>1. FmtDuration(e) = [h |-> h, m |-> mm, s |-> 0, shown |-> "hm"]
        BY <1>2, <2>3, Zenon DEF FmtDuration, h, m, mm
      <3> QED BY <1>2, <2>1, <2>2, <3>1
    <2>4. CASE ~ (h > 0) /\ m > 0
      <3>1. FmtDuration(e) = [h |-> 0, m |-> m, s |-> ss, shown |-> "ms"]
        BY <1>2, <2>4, Zenon DEF FmtDuration, h, m, ss
      <3> QED BY <1>2, <2>1, <2>2, <2>4, <3>1
    <2>5. CASE ~ (h > 0) /\ ~ (m > 0)
      <3>1. FmtDuration(e) = [h |-> 0, m |-> 0, s |-> e, shown |-> "s"]
        BY <1>2, <2>5, Zenon DEF FmtDuration, h, m
      <3> QED BY <1>2, <2>1, <2>5, <3>1
    <2> QED BY <2>3, <2>4, <2>5
  <1> QED BY <1>1, <1>2

----------------------------------------------------------------------------
(* The peak temperature *)

(* Every set of natural numbers that is not empty has a least element; the  *)
(* two lemmas after it are inductions by way of it.                         *)
LEMMA LeastNat ==
    \A S \in SUBSET Nat : S # {} => \E x \in S : \A y \in S : x <= y
  <1> DEFINE R == OpToRel(<, Nat)
  <1>1. IsWellFoundedOn(R, Nat)
    BY NatLessThanWellFounded
  <1>2. \A p, q \in Nat : <<p, q>> \in R <=> p < q
    BY DEF OpToRel
  <1> HIDE DEF R
  <1>3. ASSUME NEW S \in SUBSET Nat, S # {}
        PROVE  \E x \in S : \A y \in S : x <= y
    <2>1. PICK x \in S : \A y \in S : ~ (<<y, x>> \in R)
      BY <1>1, <1>3, WFMin
    <2>2. x \in Nat /\ \A y \in S : y \in Nat
      OBVIOUS
    <2>3. ASSUME NEW y \in S PROVE x <= y
      <3>1. ~ (y < x)
        BY <1>2, <2>1, <2>2
      <3> QED BY <2>2, <3>1
    <2> QED BY <2>3
  <1> QED BY <1>3

(* The temperatures of a list are bounded: otherwise there is a shortest    *)
(* prefix that is not, and one capture less is bounded.                     *)
LEMMA ListBounded ==
    ASSUME NEW cs \in Seq(Nat)
    PROVE  \E b \in Nat : \A i \in 1 .. Len(cs) : cs[i] <= b
  <1> DEFINE N == Len(cs)
             Bounded(n) == \E b \in Nat : \A i \in 1 .. n : cs[i] <= b
             Wild == {n \in 0 .. N : ~ Bounded(n)}
  <1>0. N \in Nat /\ \A i \in 1 .. N : cs[i] \in Nat
    BY LenProperties, ElementOfSeq
  <1> HIDE DEF N
  <1>1. SUFFICES ASSUME Wild # {} PROVE FALSE
    <2>1. N \in 0 .. N
      BY <1>0
    <2>2. Bounded(N)
      BY <1>1, <2>1
    <2> QED BY <2>2 DEF N
  <1>2. Wild \in SUBSET Nat
    BY <1>0
  <1> HIDE DEF Wild
  <1>3. PICK n \in Wild : \A k \in Wild : n <= k
    BY <1>1, <1>2, LeastNat
  <1>4. n \in 0 .. N /\ ~ Bounded(n)
    BY DEF Wild
  <1>5. CASE n = 0
    <2>1. Bounded(0)
      <3>1. \A i \in 1 .. 0 : cs[i] <= 0
        OBVIOUS
      <3> QED BY <3>1
    <2> QED BY <1>4, <1>5, <2>1
  <1>6. CASE n # 0
    <2>1. n - 1 \in 0 .. N /\ n - 1 \notin Wild
      BY <1>0, <1>3, <1>4, <1>6
    <2>2. Bounded(n - 1)
      BY <2>1 DEF Wild
    <2>3. PICK b \in Nat : \A i \in 1 .. n - 1 : cs[i] <= b
      BY <2>2
    <2>4. n \in 1 .. N /\ cs[n] \in Nat
      BY <1>0, <1>4, <1>6
    <2>5. \A i \in 1 .. n : i \in 1 .. n - 1 \/ i = n
      BY <2>4
    <2>6. \A i \in 1 .. n : cs[i] <= b + cs[n]
      <3>1. \A i \in 1 .. n - 1 : cs[i] \in Nat
        BY <1>0, <1>4
      <3>2. \A i \in 1 .. n - 1 : cs[i] <= b + cs[n]
        BY <2>3, <2>4, <3>1
      <3>3. cs[n] <= b + cs[n]
        BY <2>4
      <3> QED BY <2>5, <3>2, <3>3
    <2>7. b + cs[n] \in Nat
      BY <2>4
    <2> QED BY <1>4, <2>6, <2>7
  <1> QED BY <1>5, <1>6

(* Math.max: the peak is the temperature of a capture, and none is higher.  *)
LEMMA PeakIsHighest ==
    ASSUME NEW cs \in Seq(Nat), cs # <<>>
    PROVE  /\ PeakTemp(cs) \in Nat
           /\ \E i \in 1 .. Len(cs) : cs[i] = PeakTemp(cs)
           /\ \A i \in 1 .. Len(cs) : cs[i] <= PeakTemp(cs)
  <1> DEFINE N == Len(cs)
             Image == {cs[i] : i \in DOMAIN cs}
             Bounds == {b \in Nat : \A i \in 1 .. N : cs[i] <= b}
  <1>0. /\ N \in Nat /\ N # 0 /\ DOMAIN cs = 1 .. N
        /\ \A i \in 1 .. N : cs[i] \in Nat
    BY LenProperties, ElementOfSeq, EmptySeq
  <1>1. Bounds # {} /\ Bounds \in SUBSET Nat
    BY ListBounded
  <1> HIDE DEF N, Bounds
  <1>2. PICK b \in Bounds : \A c \in Bounds : b <= c
    BY <1>1, LeastNat
  <1>3. b \in Nat /\ \A i \in 1 .. N : cs[i] <= b
    BY DEF Bounds
  <1>4. \E i \in 1 .. N : cs[i] = b
    <2> SUFFICES ASSUME \A i \in 1 .. N : cs[i] # b PROVE FALSE
      OBVIOUS
    <2>1. \A i \in 1 .. N : cs[i] <= b - 1
      BY <1>0, <1>3
    <2>2. 1 \in 1 .. N
      BY <1>0
    <2>3. cs[1] \in Nat /\ cs[1] <= b - 1
      BY <1>0, <2>1, <2>2
    <2>4. b - 1 \in Nat
      BY <1>3, <2>3
    <2>5. b - 1 \in Bounds
      BY <2>1, <2>4 DEF Bounds
    <2> QED BY <1>2, <1>3, <2>5
  <1>5. b \in Image /\ \A y \in Image : b >= y
    BY <1>0, <1>3, <1>4
  <1>6. \A x \in Image : (\A y \in Image : x >= y) => x = b
    <2>1. \A x \in Image : x \in Nat
      BY <1>0
    <2> HIDE DEF Image
    <2> QED BY <1>3, <1>5, <2>1
  <1>7. PeakTemp(cs) = b
    <2>1. PeakTemp(cs) = CHOOSE x \in Image : \A y \in Image : x >= y
      BY DEF PeakTemp, Max
    <2> HIDE DEF Image
    <2> QED BY <1>5, <1>6, <2>1
  <1> QED BY <1>3, <1>4, <1>7 DEF N

----------------------------------------------------------------------------
(* The steps *)

LEMMA InitOK == Init => IInv
  <1> SUFFICES ASSUME Init PROVE IInv
    OBVIOUS
  <1>1. captures \in Seq(Nat)
    <2>1. PICK n \in 0 .. MaxCaptures : captures \in [1 .. n -> Temps]
      BY DEF Init
    <2>2. n \in Nat
      BY ReportAssumption
    <2>3. captures \in [1 .. n -> Nat]
      <3>1. \A i \in 1 .. n : captures[i] \in Nat
        BY <2>1, ReportAssumption
      <3> QED BY <2>1, <3>1
    <2> QED BY <2>2, <2>3
  <1>2. elapsed \in Int
    BY ReportAssumption DEF Init
  <1>3. <<>> \in Seq(PageSet) /\ <<>> \in Seq(Severities) /\ Len(<<>>) = 0
    OBVIOUS
  <1>4. Len(captures) \in Nat
    BY <1>1, LenProperties
  <1>5. TypeInv
    BY <1>1, <1>2, <1>3 DEF Init, TypeInv
  <1>6. BadgesInv /\ CsvInv /\ FiguresInv
    BY <1>3, <1>4 DEF Init, BadgesInv, CsvInv, FiguresInv
  <1>7. PagesInv
    BY <1>3 DEF Init, PagesInv
  <1> QED BY <1>5, <1>6, <1>7 DEF IInv

LEMMA ExtraNat ==
    ASSUME captures \in Seq(Nat)
    PROVE  Extra \in Nat
  <1> DEFINE n == Len(captures)
  <1>1. n \in Nat
    BY LenProperties
  <1> HIDE DEF n
  <1>2. CASE n <= FirstRows
    BY <1>2 DEF Extra, TablePages, n
  <1>3. CASE ~ (n <= FirstRows)
    <2> DEFINE k == n - FirstRows + NextRows - 1
    <2>1. k \in Nat /\ NextRows \in Nat \ {0}
      BY <1>1, <1>3, ReportAssumption
    <2> HIDE DEF k
    <2>2. k \div NextRows \in Nat
      BY <2>1
    <2> QED BY <1>3, <2>2 DEF Extra, TablePages, k, n
  <1> QED BY <1>2, <1>3

LEMMA CoverStep ==
    ASSUME IInv, DrawCover
    PROVE  IInv'
  <1> DEFINE n == Len(captures)
             P(i) == Page(IF i = 1 THEN "cover" ELSE "table",
                          IF i = Extra + 1 THEN <<1, n + 1>> ELSE <<>>)
  <1>0. /\ pc = "call" /\ pc' = "summary" /\ captures # <<>>
        /\ captures' = captures /\ elapsed' = elapsed /\ summary' = summary
        /\ badges' = badges /\ csv' = csv
        /\ pages' = [i \in 1 .. Extra + 1 |-> P(i)]
        /\ cover'.peak \in ToFixed1(PeakTemp(captures))
        /\ cover'.duration = FmtDuration(IF n > 1 THEN elapsed ELSE -1)
        /\ cover'.pins \in {<<>>, [i \in DOMAIN captures |-> PinFill(captures[i])]}
    BY DEF DrawCover, Extra
  <1>1. n \in Nat /\ Extra \in Nat
    BY LenProperties, ExtraNat DEF IInv, TypeInv
  <1>2. Extra' = Extra
    BY <1>0 DEF Extra
  <1> HIDE DEF n
  <1>3. /\ pages' \in Seq(PageSet) /\ Len(pages') = Extra + 1
        /\ \A i \in 1 .. Extra + 1 : pages'[i] = P(i)
    <2>1. ASSUME NEW i \in 1 .. Extra + 1 PROVE P(i) \in PageSet
      <3>1. <<1, n + 1>> \in Seq(Int) /\ <<>> \in Seq(Int)
        BY <1>1
      <3> QED BY <3>1 DEF Page, PageSet, Kinds
    <2> HIDE DEF P
    <2>2. Extra + 1 \in Nat
      BY <1>1
    <2>3. pages' \in [1 .. Extra + 1 -> PageSet]
      BY <1>0, <2>1
    <2> QED BY <1>0, <2>2, <2>3
  <1>4. TypeInv'
    BY <1>0, <1>3 DEF IInv, TypeInv
  <1>5. BadgesInv' /\ CsvInv'
    BY <1>0 DEF IInv, BadgesInv, CsvInv
  <1>6. FiguresInv'
    BY <1>0 DEF FiguresInv, n
  <1>7. PagesInv'
    <2>1. ASSUME NEW i \in 1 .. Extra + 1 PROVE Numbered(pages'[i], i, Extra)
      <3>1. <<1, n + 1>> # <<>> /\ <<1, n + 1>>[1] = 1
        OBVIOUS
      <3>2. pages'[i].footer = IF i = Extra + 1 THEN <<1, n + 1>> ELSE <<>>
        BY <1>3 DEF Page
      <3> QED BY <1>1, <3>1, <3>2 DEF Numbered
    <2>2. pages'[Extra + 1].footer = <<1, n + 1>>
      BY <1>1, <1>3 DEF Page
    <2>3. <<1, n + 1>>[2] = n + 1
      OBVIOUS
    <2> QED BY <1>0, <1>1, <1>2, <1>3, <2>1, <2>2, <2>3 DEF PagesInv, n
  <1> QED BY <1>4, <1>5, <1>6, <1>7 DEF IInv

(* A page appended with the number of its place, less the table's pages. *)
LEMMA PageAppended ==
    ASSUME NEW ps \in Seq(PageSet), NEW p \in PageSet,
           NEW extra, Numbered(p, Len(ps) + 1, extra),
           \A i \in 1 .. Len(ps) : Numbered(ps[i], i, extra)
    PROVE  /\ Len(Append(ps, p)) = Len(ps) + 1
           /\ Append(ps, p)[Len(ps) + 1] = p
           /\ \A i \in 1 .. Len(ps) : Append(ps, p)[i] = ps[i]
           /\ \A i \in 1 .. Len(ps) + 1 : Numbered(Append(ps, p)[i], i, extra)
  <1> DEFINE N == Len(ps)
             qs == Append(ps, p)
  <1>1. /\ N \in Nat /\ Len(qs) = N + 1 /\ qs[N + 1] = p
        /\ \A i \in 1 .. N : qs[i] = ps[i]
    BY LenProperties, AppendProperties
  <1>2. \A i \in 1 .. N + 1 : i \in 1 .. N \/ i = N + 1
    BY <1>1
  <1> HIDE DEF qs
  <1>3. \A i \in 1 .. N + 1 : Numbered(qs[i], i, extra)
    BY <1>1, <1>2
  <1> QED BY <1>1, <1>3 DEF qs

LEMMA SummaryStep ==
    ASSUME IInv, DrawSeveritySummary
    PROVE  IInv'
  <1> DEFINE n == Len(captures)
             p == Page("summary", <<2, n + 2>>)
  <1>0. /\ pc = "summary" /\ pc' = "details"
        /\ captures' = captures /\ elapsed' = elapsed /\ cover' = cover
        /\ badges' = badges /\ csv' = csv /\ pages' = Append(pages, p)
        /\ summary' = [counts |-> Counts, action |-> Recommend(Counts)]
    BY DEF DrawSeveritySummary, Counts
  <1>1. n \in Nat /\ pages \in Seq(PageSet) /\ Len(pages) \in Nat
    BY LenProperties DEF IInv, TypeInv
  <1>2. p \in PageSet /\ p.footer # <<>> /\ p.footer[1] = 2 /\ p.footer[2] = n + 2
    <2>1. /\ <<2, n + 2>> \in Seq(Int) /\ <<2, n + 2>> # <<>>
          /\ <<2, n + 2>>[1] = 2 /\ <<2, n + 2>>[2] = n + 2
      BY <1>1
    <2> QED BY <2>1 DEF Page, PageSet, Kinds
  <1> HIDE DEF p, n
  <1>3. pages' \in Seq(PageSet) /\ Len(pages') = Len(pages) + 1
    BY <1>0, <1>1, <1>2, AppendProperties
  <1>4. TypeInv'
    BY <1>0, <1>3 DEF IInv, TypeInv
  <1>5. BadgesInv' /\ CsvInv'
    BY <1>0 DEF IInv, BadgesInv, CsvInv
  <1>6. FiguresInv'
    BY <1>0 DEF IInv, FiguresInv, Counts
  <1>7. PagesInv'
    <2>1. /\ Len(pages) = Extra + 1 /\ Len(badges) = 0 /\ Extra \in Nat
          /\ \A i \in 1 .. Len(pages) : Numbered(pages[i], i, Extra)
          /\ pages[Extra + 1].footer[2] = n + 1
      BY <1>0, ExtraNat DEF IInv, TypeInv, PagesInv, BadgesInv, n
    <2>2. Numbered(p, Len(pages) + 1, Extra)
      BY <1>2, <2>1 DEF Numbered
    <2>3. /\ pages'[Extra + 2] = p /\ pages'[Extra + 1] = pages[Extra + 1]
          /\ \A i \in 1 .. Extra + 2 : Numbered(pages'[i], i, Extra)
      BY <1>0, <1>1, <1>2, <2>1, <2>2, PageAppended
    <2>4. Extra' = Extra
      BY <1>0 DEF Extra
    <2>5. Len(pages') = Extra + 2
      BY <1>3, <2>1
    <2> QED BY <1>0, <1>2, <2>1, <2>3, <2>4, <2>5 DEF PagesInv, n
  <1> QED BY <1>4, <1>5, <1>6, <1>7 DEF IInv

LEMMA DetailStep ==
    ASSUME IInv, DrawDetailPage
    PROVE  IInv'
  <1> DEFINE n == Len(captures)
             k == Len(badges)
             p == Page("detail", <<DetailNumber(k)>>)
             b == Badge(captures[k + 1])
  <1>0. /\ pc = "details" /\ pc' = "details" /\ k < n
        /\ captures' = captures /\ elapsed' = elapsed /\ cover' = cover
        /\ summary' = summary /\ csv' = csv
        /\ pages' = Append(pages, p) /\ badges' = Append(badges, b)
    BY DEF DrawDetailPage
  <1>1. /\ n \in Nat /\ k \in Nat
        /\ pages \in Seq(PageSet) /\ badges \in Seq(Severities) /\ Len(pages) \in Nat
    BY LenProperties DEF IInv, TypeInv
  <1>2. p \in PageSet /\ p.footer # <<>> /\ p.footer[1] = k + 3
    <2>1. DetailNumber(k) = k + 3 /\ k + 3 \in Int
      BY <1>1 DEF DetailNumber
    <2>2. <<k + 3>> \in Seq(Int) /\ <<k + 3>> # <<>> /\ <<k + 3>>[1] = k + 3
      BY <2>1
    <2> QED BY <2>1, <2>2 DEF Page, PageSet, Kinds
  <1>3. k + 1 \in 1 .. n /\ captures[k + 1] \in Nat
    <2>1. k + 1 \in 1 .. n
      BY <1>0, <1>1
    <2> QED BY <2>1, ElementOfSeq DEF IInv, TypeInv
  <1>4. b \in Severities
    BY <1>3, ClassIsBadge
  <1> HIDE DEF p
  <1>5. pages' \in Seq(PageSet) /\ Len(pages') = Len(pages) + 1
    BY <1>0, <1>1, <1>2, AppendProperties
  <1>6. /\ badges' \in Seq(Severities) /\ Len(badges') = k + 1 /\ badges'[k + 1] = b
        /\ \A i \in 1 .. k : badges'[i] = badges[i]
    <2> DEFINE c == b
    <2>1. c \in Severities /\ badges' = Append(badges, c)
      BY <1>0, <1>4
    <2> HIDE DEF c
    <2>2. /\ badges' \in Seq(Severities) /\ Len(badges') = k + 1 /\ badges'[k + 1] = c
          /\ \A i \in 1 .. k : badges'[i] = badges[i]
      BY <1>1, <2>1, AppendProperties
    <2> QED BY <2>2 DEF c
  <1>7. TypeInv'
    BY <1>0, <1>5, <1>6 DEF IInv, TypeInv
  <1>8. BadgesInv'
    <2>1. \A i \in 1 .. k : badges[i] = Badge(captures[i])
      BY DEF IInv, BadgesInv
    <2> HIDE DEF k, n
    <2>2. \A i \in 1 .. k + 1 : i \in 1 .. k \/ i = k + 1
      BY <1>1
    <2>3. \A i \in 1 .. k + 1 : badges'[i] = Badge(captures[i])
      BY <1>6, <2>1, <2>2
    <2>4. k + 1 <= n
      BY <1>0, <1>1
    <2> QED BY <1>0, <1>6, <2>3, <2>4 DEF BadgesInv, n
  <1>9. CsvInv' /\ FiguresInv'
    BY <1>0 DEF IInv, CsvInv, FiguresInv, Counts
  <1>10. PagesInv'
    <2>1. /\ Len(pages) = k + 2 + Extra /\ Extra \in Nat
          /\ \A i \in 1 .. Len(pages) : Numbered(pages[i], i, Extra)
          /\ pages[Extra + 1].footer[2] = n + 1 /\ pages[Extra + 2].footer[2] = n + 2
      BY <1>0, ExtraNat DEF IInv, TypeInv, PagesInv
    <2> HIDE DEF k, n
    <2>2. Numbered(p, Len(pages) + 1, Extra)
      BY <1>1, <1>2, <2>1 DEF Numbered
    <2>3. /\ \A i \in 1 .. Len(pages) : pages'[i] = pages[i]
          /\ \A i \in 1 .. Len(pages) + 1 : Numbered(pages'[i], i, Extra)
      BY <1>0, <1>1, <1>2, <2>1, <2>2, PageAppended
    <2>4. pages'[Extra + 1] = pages[Extra + 1] /\ pages'[Extra + 2] = pages[Extra + 2]
      BY <1>1, <2>1, <2>3
    <2>5. Extra' = Extra
      BY <1>0 DEF Extra
    <2>6. Len(pages') = Len(badges') + 2 + Extra
      BY <1>1, <1>5, <1>6, <2>1
    <2> QED BY <1>0, <1>5, <2>1, <2>3, <2>4, <2>5, <2>6 DEF PagesInv, n
  <1> QED BY <1>7, <1>8, <1>9, <1>10 DEF IInv

LEMMA OtherStep ==
    ASSUME IInv, Throw \/ Save \/ ExportCapturesCSV \/ UNCHANGED vars
    PROVE  IInv'
  <1>0. UNCHANGED <<captures, elapsed, pages, cover, summary, badges>>
    BY DEF Throw, Save, ExportCapturesCSV, vars
  <1>1. /\ pc' \in {"call", "summary", "details", "saved", "thrown"}
        /\ \/ pc' = pc
           \/ pc = "call" /\ pc' = "thrown"
           \/ pc = "details" /\ pc' = "saved" /\ Len(badges) = Len(captures)
    BY DEF Throw, Save, ExportCapturesCSV, vars, IInv, TypeInv
  <1>2. CsvInv'
    BY <1>0 DEF Throw, Save, ExportCapturesCSV, vars, IInv, CsvInv
  <1>3. TypeInv'
    BY <1>0, <1>1 DEF IInv, TypeInv
  <1>4. BadgesInv'
    BY <1>0, <1>1 DEF IInv, BadgesInv
  <1>5. FiguresInv'
    BY <1>0, <1>1 DEF IInv, FiguresInv, Counts
  <1>6. PagesInv'
    BY <1>0, <1>1 DEF IInv, PagesInv, Numbered, Extra
  <1> QED BY <1>2, <1>3, <1>4, <1>5, <1>6 DEF IInv

LEMMA IInvStep == IInv /\ [Next]_vars => IInv'
  BY CoverStep, SummaryStep, DetailStep, OtherStep DEF Next

LEMMA Invariance == Spec => []IInv
  BY InitOK, IInvStep, PTL DEF Spec

----------------------------------------------------------------------------
(* The figures *)

(* A bucket is counted above 0 exactly when some capture falls in it. *)
LEMMA CountPositive ==
    ASSUME captures \in Seq(Nat), NEW s \in Severities
    PROVE  /\ Counts[s] \in Nat
           /\ Counts[s] > 0 <=> \E i \in 1 .. Len(captures) :
                                    SummaryClass(captures[i]) = s
  <1> DEFINE D == 1 .. Len(captures)
             S == {i \in D : SummaryClass(captures[i]) = s}
  <1>1. DOMAIN captures = D /\ Len(captures) \in Nat
    BY LenProperties
  <1>2. IsFiniteSet(D)
    <2>1. 1 \in Int /\ Len(captures) \in Int
      BY <1>1
    <2> QED BY <2>1, FS_Interval
  <1>3. S \subseteq D
    OBVIOUS
  <1>4. Counts[s] = Cardinality(S)
    BY <1>1 DEF Counts
  <1>5. S # {} <=> \E i \in D : SummaryClass(captures[i]) = s
    OBVIOUS
  <1> HIDE DEF S, D
  <1>6. IsFiniteSet(S)
    BY <1>2, <1>3, FS_Subset
  <1>7. Cardinality(S) \in Nat /\ (Cardinality(S) = 0 <=> S = {})
    BY <1>6, FS_CardinalityType, FS_EmptySet
  <1>8. Cardinality(S) > 0 <=> S # {}
    BY <1>7
  <1> QED BY <1>4, <1>5, <1>7, <1>8 DEF D

(* The advice follows the peak. *)
LEMMA AdviceFollowsPeak ==
    ASSUME captures \in Seq(Nat), captures # <<>>
    PROVE  /\ Recommend(Counts) = "IMMEDIATE ATTENTION" <=> PeakTemp(captures) > Hot
           /\ Recommend(Counts) = "NOMINAL" <=> PeakTemp(captures) <= Warm
  <1> DEFINE D == 1 .. Len(captures)
             peak == PeakTemp(captures)
             c == Counts["CRITICAL"]
             w == Counts["WARNING"]
  <1>1. /\ peak \in Nat /\ \E i \in D : captures[i] = peak
        /\ \A i \in D : captures[i] <= peak
    BY PeakIsHighest
  <1>2. \A i \in D : captures[i] \in Nat
    BY ElementOfSeq
  <1>3. /\ c \in Nat /\ (c > 0 <=> \E i \in D : SummaryClass(captures[i]) = "CRITICAL")
        /\ w \in Nat /\ (w > 0 <=> \E i \in D : SummaryClass(captures[i]) = "WARNING")
    BY CountPositive DEF Severities
  <1> HIDE DEF D, peak, c, w
  <1>4. \A i \in D : /\ SummaryClass(captures[i]) = "CRITICAL" <=> captures[i] > Hot
                     /\ SummaryClass(captures[i]) = "WARNING"
                            <=> captures[i] > Warm /\ captures[i] <= Hot
    BY <1>2, ClassRange
  <1>5. c > 0 <=> peak > Hot
    BY <1>1, <1>2, <1>3, <1>4, ClassRange
  <1>6. c = 0 /\ w = 0 <=> peak <= Warm
    <2>1. ASSUME peak <= Warm PROVE ~ (c > 0) /\ ~ (w > 0)
      BY <1>1, <1>2, <1>3, <1>4, <2>1, ClassRange
    <2>2. ASSUME ~ (peak <= Warm) PROVE c > 0 \/ w > 0
      BY <1>1, <1>3, <1>4, <2>2, ClassRange
    <2> QED BY <1>1, <1>3, <2>1, <2>2, ClassRange
  <1>7. /\ Recommend(Counts) = "IMMEDIATE ATTENTION" <=> c > 0
        /\ Recommend(Counts) = "NOMINAL" <=> c = 0 /\ w = 0
    <2>1. CASE c > 0
      <3>1. c # 0
        BY <1>3, <2>1
      <3>2. Recommend(Counts) = "IMMEDIATE ATTENTION"
        BY <2>1, <3>1, Zenon DEF Recommend, c
      <3> QED BY <2>1, <3>1, <3>2
    <2>2. CASE c = 0 /\ w > 0
      <3>1. ~ (c > 0) /\ w # 0
        BY <1>3, <2>2
      <3>2. Recommend(Counts) = "MAINTENANCE"
        BY <2>2, <3>1, Zenon DEF Recommend, c, w
      <3> QED BY <3>1, <3>2
    <2>3. CASE c = 0 /\ w = 0
      <3>1. ~ (c > 0) /\ ~ (w > 0)
        BY <1>3, <2>3
      <3>2. Recommend(Counts) = "NOMINAL"
        BY <2>3, <3>1, Zenon DEF Recommend, c, w
      <3> QED BY <2>3, <3>1, <3>2
    <2>4. c > 0 \/ (c = 0 /\ w > 0) \/ (c = 0 /\ w = 0)
      BY <1>3
    <2> QED BY <2>1, <2>2, <2>3, <2>4, Zenon
  <1> QED BY <1>5, <1>6, <1>7, Zenon DEF peak

----------------------------------------------------------------------------
(* For every temperature and any number of captures: the severity page      *)
(* counts the badges of the detail pages, the CSV is one class worse than   *)
(* the badge in the three bands and equal to it elsewhere, and the          *)
(* browser's rows and the pins on the cover follow the CSV.                 *)
THEOREM SeveritiesDoRelate == Spec => []SeveritiesRelate
  <1>1. IInv => SeveritiesRelate
    <2> DEFINE Row(i) ==
          /\ Rank[csv[i]] = Rank[badges[i]] + (IF InBand(captures[i]) THEN 1 ELSE 0)
          /\ RowColour(captures[i]) = "red" <=> csv[i] = "CRITICAL"
          /\ RowColour(captures[i]) = "amber" <=> csv[i] = "WARNING"
          /\ cover.pins # <<>> =>
                /\ cover.pins[i] = "navy" <=> csv[i] = "CRITICAL"
                /\ cover.pins[i] = "mid" <=> csv[i] = "WARNING"
    <2> SUFFICES ASSUME IInv, pc = "saved"
                 PROVE  /\ \A s \in Severities :
                              summary.counts[s]
                                  = Cardinality({i \in DOMAIN badges : badges[i] = s})
                        /\ \A i \in DOMAIN csv : Row(i)
      BY Zenon DEF SeveritiesRelate, Saved
    <2> DEFINE D == 1 .. Len(captures)
    <2>1. DOMAIN captures = D /\ \A i \in D : captures[i] \in Nat
      BY LenProperties, ElementOfSeq DEF IInv, TypeInv
    <2>2. DOMAIN badges = D /\ \A i \in D : badges[i] = Badge(captures[i])
      BY LenProperties DEF IInv, TypeInv, BadgesInv
    <2>3. /\ summary.counts = Counts
          /\ cover.pins \in {<<>>, [i \in DOMAIN captures |-> PinFill(captures[i])]}
      BY DEF IInv, FiguresInv
    <2> HIDE DEF D
    <2>4. ASSUME NEW s \in Severities
          PROVE  summary.counts[s] = Cardinality({i \in DOMAIN badges : badges[i] = s})
      <3>1. {i \in DOMAIN badges : badges[i] = s}
              = {i \in DOMAIN captures : SummaryClass(captures[i]) = s}
        BY <2>1, <2>2, ClassIsBadge
      <3> QED BY <2>3, <3>1 DEF Counts
    <2>5. ASSUME NEW i \in DOMAIN csv PROVE Row(i)
      <3>1. i \in D /\ csv[i] = CsvSeverity(captures[i])
        BY <2>1 DEF IInv, CsvInv
      <3>2. captures[i] \in Nat /\ badges[i] = Badge(captures[i])
        BY <2>1, <2>2, <3>1
      <3>3. cover.pins # <<>> => cover.pins[i] = PinFill(captures[i])
        BY <2>1, <2>3, <3>1
      <3>4. Rank[csv[i]] = Rank[badges[i]] + (IF InBand(captures[i]) THEN 1 ELSE 0)
        BY <3>1, <3>2, CsvOneWorse
      <3>5. /\ RowColour(captures[i]) = "red" <=> csv[i] = "CRITICAL"
            /\ RowColour(captures[i]) = "amber" <=> csv[i] = "WARNING"
            /\ PinFill(captures[i]) = "navy" <=> csv[i] = "CRITICAL"
            /\ PinFill(captures[i]) = "mid" <=> csv[i] = "WARNING"
        BY <3>1, <3>2, ColourIsCsv
      <3> QED BY <3>3, <3>4, <3>5, Zenon
    <2> QED BY <2>4, <2>5
  <1> QED BY Invariance, <1>1, PTL

(* For every list of captures, with temperatures to a hundredth of a        *)
(* degree, and every elapsed time: the peak temperature printed on the      *)
(* cover and the advice of the severity page tell the same story unless the *)
(* figure printed is a threshold itself, and the duration shown is the      *)
(* elapsed time, rounded down.                                              *)
THEOREM CoverTellsTheStory == Spec => []CoverIsTrue
  <1>1. IInv => CoverIsTrue
    <2> SUFFICES ASSUME IInv, pc = "saved" PROVE CoverIsTrue
      BY DEF CoverIsTrue, Saved
    <2> DEFINE peak == PeakTemp(captures)
    <2>1. /\ captures \in Seq(Nat) /\ captures # <<>> /\ elapsed \in Int
          /\ summary.action = Recommend(Counts) /\ cover.peak \in ToFixed1(peak)
          /\ cover.duration = FmtDuration(IF Len(captures) > 1 THEN elapsed ELSE -1)
      BY DEF IInv, TypeInv, FiguresInv
    <2>2. /\ peak \in Nat
          /\ summary.action = "IMMEDIATE ATTENTION" <=> peak > Hot
          /\ summary.action = "NOMINAL" <=> peak <= Warm
      <3>1. peak \in Nat
        BY <2>1, PeakIsHighest
      <3>2. /\ Recommend(Counts) = "IMMEDIATE ATTENTION" <=> peak > Hot
            /\ Recommend(Counts) = "NOMINAL" <=> peak <= Warm
        BY <2>1, AdviceFollowsPeak, Zenon
      <3> QED BY <2>1, <3>1, <3>2, Zenon
    <2> DEFINE printed == cover.peak
    <2> HIDE DEF peak, printed
    <2>3. ASSUME NEW limit \in Nat
          PROVE  /\ printed \in Int
                 /\ printed # limit => (peak > 10 * limit <=> printed > limit)
      <3>1. printed \in ToFixed1(peak)
        BY <2>1 DEF printed
      <3> QED BY <2>2, <3>1, RoundedSide
    <2>4. /\ cover.peak # 850 =>
                (summary.action = "IMMEDIATE ATTENTION" <=> cover.peak > 850)
          /\ cover.peak # 650 => (summary.action = "NOMINAL" <=> cover.peak < 650)
      <3>1. /\ printed \in Int
            /\ printed # 850 => (peak > Hot <=> printed > 850)
            /\ printed # 650 => (peak > Warm <=> printed > 650)
        <4>1. 10 * 850 = Hot /\ 10 * 650 = Warm
          BY DEF Hot, Warm
        <4> QED BY <2>3, <4>1
      <3>2. peak <= Warm <=> ~ (peak > Warm)
        <4>1. peak \in Nat /\ Warm \in Nat
          BY <2>2, ClassRange, Zenon
        <4> QED BY <4>1
      <3>3. printed # 650 => (printed < 650 <=> ~ (printed > 650))
        BY <3>1
      <3> DEFINE over == printed > 850
                 below == printed < 650
                 warm == printed > 650
      <3>4. /\ printed # 850 => (peak > Hot <=> over)
            /\ printed # 650 => (peak > Warm <=> warm)
            /\ printed # 650 => (below <=> ~ warm)
        BY <3>1, <3>3
      <3> DEFINE far == printed # 850
                 wide == printed # 650
      <3>5. (far => (peak > Hot <=> over)) /\ (wide => (peak > Warm <=> ~ below))
        BY <3>4
      <3> HIDE DEF over, below, warm, far, wide
      <3>6. far => (summary.action = "IMMEDIATE ATTENTION" <=> over)
        BY <2>2, <3>5, Zenon
      <3>7. wide => (summary.action = "NOMINAL" <=> below)
        BY <2>2, <3>2, <3>5, Zenon
      <3> QED BY <3>6, <3>7, Zenon DEF over, below, far, wide, printed
    <2>5. ASSUME Len(captures) > 1
          PROVE  LET d == cover.duration
                     shown == 3600 * d.h + 60 * d.m + d.s
                 IN  IF elapsed < 0 THEN d.shown = "none"
                     ELSE /\ d.shown # "none" /\ d.m < 60 /\ d.s < 60
                          /\ shown <= elapsed
                          /\ elapsed < shown + (IF d.shown = "hm" THEN 60 ELSE 1)
      <3>1. cover.duration = FmtDuration(elapsed)
        BY <2>1, <2>5
      <3> QED BY <2>1, <3>1, DurationKept
    <2> QED BY <2>4, <2>5, Zenon DEF CoverIsTrue
  <1> QED BY Invariance, <1>1, PTL

(* For any number of captures and any number of rows on a page: the pages   *)
(* the table fills have no footer, every number after them lags by as many  *)
(* pages, and both totals are short, the cover's by one page more.          *)
THEOREM FootersDoLag == Spec => []FootersLag
  <1>1. IInv => FootersLag
    <2> SUFFICES ASSUME IInv, pc = "saved" PROVE FootersLag
      BY DEF FootersLag, Saved
    <2>1. /\ DOMAIN pages = 1 .. Len(pages) /\ Len(captures) \in Nat /\ Extra \in Nat
      BY LenProperties, ExtraNat DEF IInv, TypeInv
    <2>2. /\ Len(pages) = Len(captures) + 2 + Extra
          /\ \A i \in 1 .. Len(pages) : Numbered(pages[i], i, Extra)
          /\ pages[Extra + 1].footer[2] = Len(captures) + 1
          /\ pages[Extra + 2].footer[2] = Len(captures) + 2
      BY <2>1 DEF IInv, PagesInv, BadgesInv
    <2>3. /\ pages[Extra + 1].footer[2] = Len(pages) - Extra - 1
          /\ pages[Extra + 2].footer[2] = Len(pages) - Extra
      BY <2>1, <2>2
    <2> QED BY <2>1, <2>2, <2>3, Zenon DEF FootersLag, Numbered, Extra
  <1> QED BY Invariance, <1>1, PTL

=============================================================================
