------------------------------- MODULE Report -------------------------------
(***************************************************************************)
(* generateInspectionReport (pdfGenerator.js) and exportCapturesCSV         *)
(* (csvExport.js) on one list of captures.  A capture is its maxTemp in     *)
(* hundredths of a degree, 0 also standing for a missing one (both take the *)
(* || branch); a page is its kind and the numbers in its footer.  Layout    *)
(* and images are left out, but for the colours of the cover's map pins.    *)
(***************************************************************************)
EXTENDS Integers, Sequences, FiniteSets, FiniteSetsExt

CONSTANTS
    Temps,          \* the values of maxTemp, in hundredths of a degree
    Elapsed,        \* seconds between the first and the last capture
    MaxCaptures,    \* bound: captures in a report
    FirstRows,      \* rows of autoTable that fit below the cover's cards
    NextRows        \* rows that fit on a page of their own

ASSUME ReportAssumption ==
    /\ Temps \subseteq Nat /\ Elapsed \subseteq Int
    /\ MaxCaptures \in Nat
    /\ FirstRows \in Nat \ {0} /\ NextRows \in Nat \ {0}

VARIABLES
    captures,   \* the argument
    elapsed,    \* last timestamp - first timestamp
    pc,         \* "call", "summary", "details", "saved" or "thrown"
    pages,      \* the document's pages
    cover,      \* the figures on the cover
    summary,    \* the figures on the severity page
    badges,     \* the severity badge of each detail page, in order
    csv         \* the Severity column, <<>> before the export

vars == <<captures, elapsed, pc, pages, cover, summary, badges, csv>>

Severities == {"CRITICAL", "WARNING", "ELEVATED", "NORMAL"}

Page(kind, footer) == [kind |-> kind, footer |-> footer]

----------------------------------------------------------------------------
(* mutant: only the last capture is looked at *)
PeakTempLast(cs) == cs[Len(cs)]

(* Math.max over the captures *)
PeakTemp(cs) == Max({cs[i] : i \in DOMAIN cs})

Minutes(s) == s \div 60
Hours(s) == Minutes(s) \div 60

(* fmtDuration: the fields that are printed; the others are 0 here *)
FmtDuration(s) ==
    IF s < 0 THEN [h |-> 0, m |-> 0, s |-> 0, shown |-> "none"]
    ELSE IF Hours(s) > 0
    THEN [h |-> Hours(s), m |-> Minutes(s) % 60, s |-> 0, shown |-> "hm"]
    ELSE IF Minutes(s) > 0
    THEN [h |-> 0, m |-> Minutes(s), s |-> s % 60, shown |-> "ms"]
    ELSE [h |-> 0, m |-> 0, s |-> s, shown |-> "s"]

(* toFixed(1), in tenths: the nearest, and either one at a tie, which the   *)
(* binary fraction behind the number decides                                *)
ToFixed1(t) ==
    {p \in {t \div 10, t \div 10 + 1} : 10 * p - t <= 5 /\ t - 10 * p <= 5}

(* mutant: the comparison lets the threshold itself in *)
SummaryClassAtLeast(t) ==
    CASE t >= 8500 -> "CRITICAL" [] 6500 <= t /\ t < 8500 -> "WARNING"
      [] 4500 <= t /\ t < 6500 -> "ELEVATED" [] t < 4500 -> "NORMAL"

(* the bucket that drawSeveritySummary counts a capture in *)
SummaryClass(t) ==
    CASE t > 8500 -> "CRITICAL" [] 6500 < t /\ t <= 8500 -> "WARNING"
      [] 4500 < t /\ t <= 6500 -> "ELEVATED" [] t <= 4500 -> "NORMAL"

(* the badge of drawDetailPage; a maxTemp of 0 is taken for 25 degrees *)
Badge(t) ==
    LET maxT == IF t = 0 THEN 2500 ELSE t
    IN  CASE maxT > 8500 -> "CRITICAL" [] 6500 < maxT /\ maxT <= 8500 -> "WARNING"
          [] 4500 < maxT /\ maxT <= 6500 -> "ELEVATED" [] maxT <= 4500 -> "NORMAL"

(* the Severity column of the CSV *)
CsvSeverity(t) ==
    CASE t > 7000 -> "CRITICAL" [] 5000 < t /\ t <= 7000 -> "WARNING"
      [] 3500 < t /\ t <= 5000 -> "ELEVATED" [] t <= 3500 -> "NORMAL"

(* the colour of the capture's row in the capture browser *)
RowColour(t) ==
    CASE t > 7000 -> "red" [] 5000 < t /\ t <= 7000 -> "amber" [] t <= 5000 -> "plain"

(* the colour of the capture's pin on the map of the cover; the pie chart   *)
(* paints its critical slice navy and its warnings in the same mid blue     *)
PinFill(t) ==
    CASE t > 7000 -> "navy" [] 5000 < t /\ t <= 7000 -> "mid" [] t <= 5000 -> "light"

(* RECOMMENDED ACTIONS *)
Recommend(counts) ==
    CASE counts["CRITICAL"] > 0 -> "IMMEDIATE ATTENTION"
      [] counts["CRITICAL"] = 0 /\ counts["WARNING"] > 0 -> "MAINTENANCE"
      [] counts["CRITICAL"] = 0 /\ counts["WARNING"] = 0 -> "NOMINAL"

(* doc.autoTable adds pages for the rows that do not fit on the cover *)
TablePages(n) ==
    IF n <= FirstRows THEN 0 ELSE (n - FirstRows + NextRows - 1) \div NextRows

----------------------------------------------------------------------------
NoCover == [total |-> 0, peak |-> 0, duration |-> FmtDuration(-1), pins |-> <<>>]
NoSummary == [counts |-> [s \in Severities |-> 0], action |-> "NOMINAL"]

Init ==
    /\ captures \in UNION {[1 .. n -> Temps] : n \in 0 .. MaxCaptures}
    /\ elapsed \in Elapsed
    /\ pc = "call"
    /\ pages = <<>> /\ badges = <<>> /\ csv = <<>>
    /\ cover = NoCover
    /\ summary = NoSummary

(* The cover: stat cards, map, table, footer.  A map that cannot be drawn   *)
(* is left out.  jsPDF draws on the page added last, so the footer is on    *)
(* the last page of the table.                                              *)
DrawCover ==
    /\ pc = "call"
    /\ captures # <<>>
    /\ LET n == Len(captures)
           extra == TablePages(n)
           footer == <<1, n + 1>>
       IN  /\ pages' = [i \in 1 .. extra + 1 |->
                          Page(IF i = 1 THEN "cover" ELSE "table",
                               IF i = extra + 1 THEN footer ELSE <<>>)]
           /\ \E peak \in ToFixed1(PeakTemp(captures)),
                 pins \in {<<>>, [i \in DOMAIN captures |-> PinFill(captures[i])]} :
                 cover' = [total |-> n, peak |-> peak,
                           duration |-> FmtDuration(IF n > 1 THEN elapsed ELSE -1),
                           pins |-> pins]
    /\ pc' = "summary"
    /\ UNCHANGED <<captures, elapsed, summary, badges, csv>>

(* No captures to export *)
Throw ==
    /\ pc = "call"
    /\ captures = <<>>
    /\ pc' = "thrown"
    /\ UNCHANGED <<captures, elapsed, pages, cover, summary, badges, csv>>

DrawSeveritySummary ==
    /\ pc = "summary"
    /\ LET counts == [s \in Severities |->
                        Cardinality({i \in DOMAIN captures : SummaryClass(captures[i]) = s})]
       IN  summary' = [counts |-> counts, action |-> Recommend(counts)]
    /\ pages' = Append(pages, Page("summary", <<2, Len(captures) + 2>>))
    /\ pc' = "details"
    /\ UNCHANGED <<captures, elapsed, cover, badges, csv>>

(* mutant: the severity page is not counted *)
DetailNumberEarly(idx) == idx + 2

(* idx counts from 0 *)
DetailNumber(idx) == idx + 3

DrawDetailPage ==
    /\ pc = "details"
    /\ Len(badges) < Len(captures)
    /\ pages' = Append(pages, Page("detail", <<DetailNumber(Len(badges))>>))
    /\ badges' = Append(badges, Badge(captures[Len(badges) + 1]))
    /\ UNCHANGED <<captures, elapsed, pc, cover, summary, csv>>

Save ==
    /\ pc = "details"
    /\ Len(badges) = Len(captures)
    /\ pc' = "saved"
    /\ UNCHANGED <<captures, elapsed, pages, cover, summary, badges, csv>>

(* exportCapturesCSV, before or after the report; nothing for no captures *)
ExportCapturesCSV ==
    /\ pc \in {"call", "saved"}
    /\ captures # <<>> /\ csv = <<>>
    /\ csv' = [i \in DOMAIN captures |-> CsvSeverity(captures[i])]
    /\ UNCHANGED <<captures, elapsed, pc, pages, cover, summary, badges>>

Next ==
    \/ DrawCover \/ Throw \/ DrawSeveritySummary \/ DrawDetailPage \/ Save
    \/ ExportCapturesCSV

Spec == Init /\ [][Next]_vars

----------------------------------------------------------------------------
Saved == pc = "saved"

Rank == [NORMAL |-> 0, ELEVATED |-> 1, WARNING |-> 2, CRITICAL |-> 3]

(* between the CSV's threshold for a class and the report's own *)
InBand(t) ==
    \/ 3500 < t /\ t <= 4500
    \/ 5000 < t /\ t <= 6500
    \/ 7000 < t /\ t <= 8500

(* Five places classify a capture, with two sets of thresholds and          *)
(* different defaults for a missing temperature.  They do not agree; this   *)
(* is exactly how they differ.  The counts of the severity page are the     *)
(* numbers of detail pages with each badge.  The CSV calls a capture one    *)
(* class worse than its page does from 35 to 45, from 50 to 65 and from 70  *)
(* to 85 degrees, and the same elsewhere.  The browser's rows and the map   *)
(* on the cover of the report follow the CSV and not the report's badges.   *)
SeveritiesRelate ==
    Saved =>
        /\ \A s \in Severities :
              summary.counts[s] = Cardinality({i \in DOMAIN badges : badges[i] = s})
        /\ \A i \in DOMAIN csv :
              /\ Rank[csv[i]] = Rank[badges[i]] + (IF InBand(captures[i]) THEN 1 ELSE 0)
              /\ RowColour(captures[i]) = "red" <=> csv[i] = "CRITICAL"
              /\ RowColour(captures[i]) = "amber" <=> csv[i] = "WARNING"
              /\ cover.pins # <<>> =>
                    /\ cover.pins[i] = "navy" <=> csv[i] = "CRITICAL"
                    /\ cover.pins[i] = "mid" <=> csv[i] = "WARNING"

(* The cover tells the story of the pages behind it, to a tenth of a        *)
(* degree.  Immediate attention is advised if the peak temperature printed  *)
(* is over 85.0 and not if it is below, all is nominal if it is below 65.0  *)
(* and not if it is over; a printed 85.0 or 65.0 may go with either advice, *)
(* since the advice is given on the figure before it was rounded.  The      *)
(* duration is the elapsed time, rounded down to the smaller unit shown,    *)
(* and none if the clock was set back.                                      *)
CoverIsTrue ==
    LET d == cover.duration
        shown == 3600 * d.h + 60 * d.m + d.s
    IN  Saved =>
          /\ cover.peak # 850 => (summary.action = "IMMEDIATE ATTENTION" <=> cover.peak > 850)
          /\ cover.peak # 650 => (summary.action = "NOMINAL" <=> cover.peak < 650)
          /\ Len(captures) > 1 =>
                IF elapsed < 0 THEN d.shown = "none"
                ELSE /\ d.shown # "none" /\ d.m < 60 /\ d.s < 60
                     /\ shown <= elapsed
                     /\ elapsed < shown + (IF d.shown = "hm" THEN 60 ELSE 1)

(* How the footers run, whether or not the table fits on the cover.  The    *)
(* pages that the table fills have no footer, and every number after them   *)
(* lags by as many pages: the page numbered 1 is the last of the table.  Of *)
(* the two totals, the severity page's leaves out the table's pages and the *)
(* cover's is one less still, short even of a report whose table fits.      *)
FootersLag ==
    LET extra == TablePages(Len(captures))
    IN  Saved =>
          /\ Len(pages) = Len(captures) + 2 + extra
          /\ \A i \in DOMAIN pages :
                IF i <= extra THEN pages[i].footer = <<>>
                ELSE pages[i].footer # <<>> /\ pages[i].footer[1] = i - extra
          /\ pages[extra + 1].footer[2] = Len(pages) - extra - 1
          /\ pages[extra + 2].footer[2] = Len(pages) - extra

=============================================================================
