---------------------------- MODULE CaptureProofs ----------------------------
(***************************************************************************)
(* Proofs about CaptureDeck, for every number of messages, captures, files, *)
(* exports and toasts: what the lists hold, how the files pair up, what the *)
(* modal shows, and that no toast stays for good; and about CaptureBrowser, *)
(* for every search text and all temperatures, places and times: what the   *)
(* browser lists, and in which order.                                       *)
(***************************************************************************)
EXTENDS CaptureBrowser, SequenceTheorems, FiniteSetTheorems, TLAPS

(* A list as it must be: ids are positions, telemetry is that of the press. *)
ListOK(list) ==
    \A i \in 1 .. Len(list) :
        list[i].id = i /\ list[i].telemetry = list[i].pressedAt

ReportsOK(reports) ==
    \A n \in 1 .. Len(reports) : reports[n] # <<>> /\ ListOK(reports[n])

(* After every render the memoised handler sees the store as it is. *)
ClosureFresh == closure = [telemetry |-> telemetry, count |-> Len(captures)]

ListsInv ==
    ClosureFresh /\ ListOK(captures) /\ ReportsOK(csvJobs) /\ ReportsOK(exports)

(* The RGB files and, behind them, the pending timers follow the thermal    *)
(* files one by one.                                                        *)
FilesInv ==
    /\ Len(thermalFiles) = Len(rgbFiles) + Len(rgbTimers)
    /\ \A n \in 1 .. Len(rgbFiles) : rgbFiles[n] = thermalFiles[n]
    /\ \A n \in 1 .. Len(rgbTimers) :
          rgbTimers[n].serial = thermalFiles[Len(rgbFiles) + n]

(* As long as the list is not cleared the chosen capture is where its id    *)
(* says.                                                                    *)
ChosenInv ==
    chosen # 0 =>
        selected \in 1 .. Len(captures) /\ captures[selected].serial = chosen

(* Ids and places are counted alike: without a repetition they are equal.   *)
ToastInv ==
    /\ toasts \subseteq [place : Int, id : Int] /\ toastTimers \in Seq(Int)
    /\ stranded \in BOOLEAN /\ repeats \in Nat
    /\ ToastsHaveTimers
    /\ repeats = 0 => \A n \in 1 .. Len(toastTimers) : toastTimers[n] = n

IInv == TypeOK /\ ListsInv /\ FilesInv /\ ChosenInv /\ ToastInv

----------------------------------------------------------------------------
(* Sequences *)

LEMMA RangeAppend ==
    ASSUME NEW S, NEW q \in Seq(S), NEW e \in S
    PROVE  Range(Append(q, e)) = Range(q) \cup {e}
  <1>1. <<e>> \in Seq(S) /\ Range(<<e>>) = {e}
    BY DEF Range
  <1>2. Append(q, e) = q \o <<e>>
    BY AppendIsConcat
  <1>3. Range(q \o <<e>>) = Range(q) \cup Range(<<e>>)
    BY <1>1, RangeConcatenation, Zenon
  <1> QED BY <1>1, <1>2, <1>3, Zenon

LEMMA RangeTail ==
    ASSUME NEW S, NEW q \in Seq(S), q # <<>>
    PROVE  Range(q) \subseteq Range(Tail(q)) \cup {Head(q)}
  <1>1. /\ Tail(q) \in Seq(S) /\ Len(q) \in Nat /\ Len(Tail(q)) = Len(q) - 1
        /\ Head(q) = q[1]
        /\ \A i \in 1 .. Len(Tail(q)) : Tail(q)[i] = q[i + 1]
    BY HeadTailProperties, LenProperties
  <1>2. ASSUME NEW i \in 1 .. Len(q) PROVE q[i] \in Range(Tail(q)) \cup {Head(q)}
    <2>1. CASE i = 1
      BY <1>1, <2>1
    <2>2. CASE i # 1
      <3>1. i - 1 \in 1 .. Len(Tail(q)) /\ q[i] = Tail(q)[i - 1]
        BY <1>1, <2>2
      <3>2. Range(Tail(q)) = {Tail(q)[j] : j \in 1 .. Len(Tail(q))}
        BY <1>1, RangeEquality
      <3> QED BY <3>1, <3>2
    <2> QED BY <2>1, <2>2
  <1>3. Range(q) = {q[j] : j \in 1 .. Len(q)}
    BY RangeEquality
  <1> QED BY <1>2, <1>3

LEMMA ReportsAppend ==
    ASSUME NEW rs \in Seq(Seq(Capture)), NEW list \in Seq(Capture),
           ReportsOK(rs), list # <<>>, ListOK(list)
    PROVE  Append(rs, list) \in Seq(Seq(Capture)) /\ ReportsOK(Append(rs, list))
  <1> DEFINE r == Append(rs, list)
  <1>1. /\ r \in Seq(Seq(Capture)) /\ Len(rs) \in Nat /\ Len(r) = Len(rs) + 1
        /\ r[Len(rs) + 1] = list /\ \A i \in 1 .. Len(rs) : r[i] = rs[i]
    BY AppendProperties, LenProperties
  <1> HIDE DEF r
  <1>2. \A i \in 1 .. Len(r) : i \in 1 .. Len(rs) \/ i = Len(rs) + 1
    BY <1>1
  <1>3. ReportsOK(r)
    BY <1>1, <1>2 DEF ReportsOK
  <1> QED BY <1>1, <1>3 DEF r

LEMMA ReportsTail ==
    ASSUME NEW rs \in Seq(Seq(Capture)), rs # <<>>, ReportsOK(rs)
    PROVE  /\ Tail(rs) \in Seq(Seq(Capture)) /\ ReportsOK(Tail(rs))
           /\ Head(rs) \in Seq(Capture) /\ Head(rs) # <<>> /\ ListOK(Head(rs))
  <1> DEFINE r == Tail(rs)
  <1>1. /\ r \in Seq(Seq(Capture)) /\ Head(rs) \in Seq(Capture) /\ Head(rs) = rs[1]
        /\ 1 \in 1 .. Len(rs)
        /\ \A i \in 1 .. Len(r) : i + 1 \in 1 .. Len(rs) /\ r[i] = rs[i + 1]
    BY HeadTailProperties, LenProperties, EmptySeq
  <1> HIDE DEF r
  <1>2. ReportsOK(r) /\ Head(rs) # <<>> /\ ListOK(Head(rs))
    BY <1>1 DEF ReportsOK
  <1> QED BY <1>1, <1>2 DEF r

----------------------------------------------------------------------------
(* Toasts *)

(* Every handler leaves the toasts alone, adds one or two, or is the timer. *)
LEMMA ToastCases ==
    ASSUME [Next]_vars
    PROVE  AddToast \/ AddTwoToasts \/ ToastTimer \/ UNCHANGED toastVars
  BY DEF Next, SetActiveTab, UpdateTelemetry, SocketToast, ToastTimeout, HandleCapture,
         CaptureNotReady, HandleReset, SetSelectedCapture, CloseModal, HandleSaveImages,
         ModalSaveImages, RgbTimer, HandleExportCSV, CsvModuleLoaded, CsvModuleFails,
         HandleGeneratePDF, vars

(* The invariant as a predicate of a list, its timers and the repetitions,  *)
(* so that two additions can follow one another.                            *)
TimedOK(ts, q, k) ==
    /\ ts \subseteq [place : Int, id : Int] /\ q \in Seq(Int) /\ k \in Nat
    /\ \A t \in ts : t.place \in 1 .. Len(q) /\ q[t.place] = t.id
    /\ k = 0 => /\ \A n \in 1 .. Len(q) : q[n] = n
                /\ \A n \in 1 .. Len(q) : Toast(n, q[n]) \in ts

LEMMA AddKeeps ==
    ASSUME NEW ts, NEW q, NEW k, TimedOK(ts, q, k), NEW id \in DateNow(q)
    PROVE  TimedOK(ts \cup {Toast(Len(q) + 1, id)}, StartTimer(q, id), k + Repeated(q, id))
  <1> DEFINE L == Len(q)
             p == Append(q, id)
             us == ts \cup {Toast(L + 1, id)}
  <1>0. q \in Seq(Int) /\ k \in Nat /\ L \in Nat /\ DOMAIN q = 1 .. L
    BY DEF TimedOK
  <1>1. id \in Int /\ (id \notin Range(q) => id = L + 1)
    BY <1>0 DEF DateNow, Range
  <1>2. /\ p \in Seq(Int) /\ Len(p) = L + 1 /\ p[L + 1] = id
        /\ \A n \in 1 .. L : p[n] = q[n]
    BY <1>0, <1>1
  <1>3. Repeated(q, id) \in Nat /\ (k + Repeated(q, id) = 0 => k = 0 /\ id = L + 1)
    BY <1>0, <1>1 DEF Repeated
  <1>4. us \subseteq [place : Int, id : Int]
    BY <1>0, <1>1 DEF TimedOK, Toast
  <1> HIDE DEF p, L
  <1>5. ASSUME NEW t \in us PROVE t.place \in 1 .. L + 1 /\ p[t.place] = t.id
    <2>1. CASE t \in ts
      <3>1. t.place \in 1 .. L /\ q[t.place] = t.id
        BY <2>1 DEF TimedOK, L
      <3> QED BY <1>0, <1>2, <3>1
    <2>2. CASE t = Toast(L + 1, id)
      BY <1>0, <1>2, <2>2 DEF Toast
    <2> QED BY <2>1, <2>2
  <1>6. ASSUME k + Repeated(q, id) = 0
        PROVE  \A n \in 1 .. L + 1 : p[n] = n /\ Toast(n, p[n]) \in us
    <2>1. k = 0 /\ id = L + 1
      BY <1>3, <1>6
    <2>2. \A n \in 1 .. L : q[n] = n /\ Toast(n, q[n]) \in ts
      BY <2>1 DEF TimedOK, L
    <2>3. ASSUME NEW n \in 1 .. L + 1 PROVE p[n] = n /\ Toast(n, p[n]) \in us
      <3>1. CASE n = L + 1
        BY <1>2, <2>1, <3>1
      <3>2. CASE n \in 1 .. L
        BY <1>2, <2>2, <3>2
      <3> QED BY <1>0, <3>1, <3>2
    <2> QED BY <2>3
  <1>7. k + Repeated(q, id) \in Nat
    BY <1>0, <1>3
  <1>8. TimedOK(us, p, k + Repeated(q, id))
    BY <1>2, <1>4, <1>5, <1>6, <1>7 DEF TimedOK
  <1> QED BY <1>8 DEF StartTimer, p, L

LEMMA ToastInvIsTimed ==
    ToastInv <=> /\ TimedOK(toasts, toastTimers, repeats)
                 /\ stranded \in BOOLEAN /\ (repeats = 0 => ~ stranded)
  <1>1. ASSUME toastTimers \in Seq(Int)
        PROVE  DOMAIN toastTimers = 1 .. Len(toastTimers)
    BY <1>1
  <1>2. ASSUME ToastInv
        PROVE  /\ TimedOK(toasts, toastTimers, repeats)
               /\ stranded \in BOOLEAN /\ (repeats = 0 => ~ stranded)
    BY <1>1, <1>2 DEF ToastInv, ToastsHaveTimers, TimedOK
  <1>3. ASSUME TimedOK(toasts, toastTimers, repeats),
               stranded \in BOOLEAN, repeats = 0 => ~ stranded
        PROVE  ToastInv
    <2>1. ASSUME repeats = 0
          PROVE  toasts = {Toast(n, toastTimers[n]) : n \in DOMAIN toastTimers}
      <3>1. ASSUME NEW t \in toasts
            PROVE  t = Toast(t.place, toastTimers[t.place]) /\ t.place \in DOMAIN toastTimers
        BY <1>1, <1>3 DEF TimedOK, Toast
      <3>2. \A n \in DOMAIN toastTimers : Toast(n, toastTimers[n]) \in toasts
        BY <1>1, <1>3, <2>1 DEF TimedOK
      <3> QED BY <3>1, <3>2
    <2> QED BY <1>1, <1>3, <2>1 DEF ToastInv, ToastsHaveTimers, TimedOK
  <1> QED BY <1>2, <1>3

LEMMA ToastStep ==
    ASSUME ToastInv, [Next]_vars
    PROVE  ToastInv'
  <1>0. /\ TimedOK(toasts, toastTimers, repeats)
        /\ stranded \in BOOLEAN /\ (repeats = 0 => ~ stranded)
    BY ToastInvIsTimed
  <1>1. ASSUME TimedOK(toasts', toastTimers', repeats'),
               stranded' \in BOOLEAN, repeats' = 0 => ~ stranded'
        PROVE  ToastInv'
    <2>1. (ToastInv <=> /\ TimedOK(toasts, toastTimers, repeats)
                        /\ stranded \in BOOLEAN /\ (repeats = 0 => ~ stranded))'
      BY ToastInvIsTimed, PTL
    <2> QED BY <1>1, <2>1
  <1>2. CASE AddToast
    <2>1. PICK id \in DateNow(toastTimers) :
            /\ toasts' = toasts \cup {Toast(Len(toastTimers) + 1, id)}
            /\ toastTimers' = StartTimer(toastTimers, id)
            /\ repeats' = repeats + Repeated(toastTimers, id)
      BY <1>2 DEF AddToast
    <2>2. TimedOK(toasts', toastTimers', repeats')
      BY <1>0, <2>1, AddKeeps
    <2>3. repeats' = 0 => repeats = 0
      BY <1>0, <2>1 DEF TimedOK, Repeated
    <2>4. stranded' = stranded
      BY <1>2 DEF AddToast
    <2> QED BY <1>0, <1>1, <2>2, <2>3, <2>4
  <1>3. CASE AddTwoToasts
    <2>1. PICK id \in DateNow(toastTimers) :
            \E next \in DateNow(StartTimer(toastTimers, id)) :
              /\ toasts' = toasts \cup {Toast(Len(toastTimers) + 1, id),
                                        Toast(Len(toastTimers) + 2, next)}
              /\ toastTimers' = StartTimer(StartTimer(toastTimers, id), next)
              /\ repeats' = repeats + Repeated(toastTimers, id)
                                    + Repeated(StartTimer(toastTimers, id), next)
      BY <1>3 DEF AddTwoToasts
    <2> DEFINE ts == toasts \cup {Toast(Len(toastTimers) + 1, id)}
               q == StartTimer(toastTimers, id)
               k == repeats + Repeated(toastTimers, id)
    <2>2. PICK next \in DateNow(q) :
            /\ toasts' = toasts \cup {Toast(Len(toastTimers) + 1, id),
                                      Toast(Len(toastTimers) + 2, next)}
            /\ toastTimers' = StartTimer(q, next)
            /\ repeats' = k + Repeated(q, next)
      BY <2>1
    <2>3. TimedOK(ts, q, k)
      BY <1>0, <2>1, AddKeeps
    <2>4. Len(q) + 1 = Len(toastTimers) + 2
      <3>1. toastTimers \in Seq(Int) /\ Len(toastTimers) \in Nat
        BY <1>0 DEF TimedOK
      <3>2. id \in Int
        BY <3>1 DEF DateNow, Range
      <3>3. Len(Append(toastTimers, id)) = Len(toastTimers) + 1
        BY <3>1, <3>2
      <3> QED BY <3>1, <3>3 DEF StartTimer
    <2>5. toasts' = ts \cup {Toast(Len(q) + 1, next)}
      <3> HIDE DEF q
      <3> QED BY <2>2, <2>4
    <2>6. repeats \in Nat /\ k \in Nat /\ (k = 0 => repeats = 0)
      BY <1>0 DEF TimedOK, Repeated
    <2> HIDE DEF ts, q, k
    <2>7. TimedOK(toasts', toastTimers', repeats')
      BY <2>2, <2>3, <2>5, AddKeeps
    <2>8. repeats' = 0 => repeats = 0
      BY <2>2, <2>6 DEF Repeated
    <2>9. stranded' = stranded
      BY <1>3 DEF AddTwoToasts
    <2> QED BY <1>0, <1>1, <2>7, <2>8, <2>9
  <1>4. CASE ToastTimer
    <2> DEFINE L == Len(toastTimers)
               q == [n \in 1 .. L - 1 |-> toastTimers[n + 1] - 1]
               ts == WithoutToasts(toastTimers[1])
    <2>1. /\ toastTimers # <<>> /\ toasts' = ts /\ toastTimers' = q
          /\ stranded' = (stranded \/ Strands(toastTimers[1])) /\ repeats' = repeats
      BY <1>4 DEF ToastTimer
    <2>2. /\ toastTimers \in Seq(Int) /\ L \in Nat \ {0} /\ repeats \in Nat
          /\ toasts \subseteq [place : Int, id : Int]
          /\ \A t \in toasts : t.place \in 1 .. L /\ toastTimers[t.place] = t.id
          /\ \A n \in 1 .. L : toastTimers[n] \in Int
      BY <1>0, <2>1 DEF TimedOK
    <2>3. \A n \in 1 .. L - 1 : n + 1 \in 1 .. L /\ toastTimers[n + 1] - 1 \in Int
      BY <2>2
    <2>4. q \in Seq(Int) /\ Len(q) = L - 1
      BY <2>2, <2>3
    <2> HIDE DEF L
    <2>5. ASSUME NEW t \in ts
          PROVE  /\ t \in [place : Int, id : Int]
                 /\ t.place \in 1 .. L - 1 /\ q[t.place] = t.id
      <3>1. PICK u \in toasts : u.id # toastTimers[1] /\ t = Toast(u.place - 1, u.id - 1)
        BY DEF WithoutToasts
      <3>2. u.place \in 1 .. L /\ toastTimers[u.place] = u.id /\ u.place \in Int /\ u.id \in Int
        BY <2>2
      <3>3. u.place # 1 /\ u.place - 1 \in 1 .. L - 1 /\ (u.place - 1) + 1 = u.place
        BY <2>2, <3>1, <3>2
      <3>4. q[u.place - 1] = toastTimers[u.place] - 1
        BY <3>3
      <3> QED BY <3>1, <3>2, <3>3, <3>4 DEF Toast
    <2>6. ASSUME repeats = 0
          PROVE  /\ ~ Strands(toastTimers[1])
                 /\ \A n \in 1 .. L - 1 : q[n] = n /\ Toast(n, q[n]) \in ts
      <3>1. \A n \in 1 .. L : toastTimers[n] = n /\ Toast(n, n) \in toasts
        BY <1>0, <2>6 DEF TimedOK, L
      <3>2. \A t \in toasts : t.id = t.place
        BY <2>2, <3>1
      <3>3. ~ Strands(toastTimers[1])
        BY <2>2, <3>2 DEF Strands
      <3>4. ASSUME NEW n \in 1 .. L - 1 PROVE q[n] = n /\ Toast(n, q[n]) \in ts
        <4>1. n + 1 \in 1 .. L /\ (n + 1) - 1 = n /\ n + 1 # 1 /\ 1 \in 1 .. L
          BY <2>2
        <4>2. toastTimers[n + 1] = n + 1 /\ toastTimers[1] = 1 /\ q[n] = n
          BY <3>1, <4>1
        <4>3. Toast(n + 1, n + 1) \in {u \in toasts : u.id # toastTimers[1]}
          BY <3>1, <4>1, <4>2 DEF Toast
        <4>4. /\ Toast(n + 1, n + 1).place - 1 = n
              /\ Toast(n + 1, n + 1).id - 1 = n
          BY <4>1 DEF Toast
        <4>5. Toast(n, n) \in ts
          BY <4>3, <4>4 DEF WithoutToasts
        <4> QED BY <4>2, <4>5
      <3> QED BY <3>3, <3>4
    <2> HIDE DEF q, ts
    <2>7. TimedOK(ts, q, repeats)
      BY <2>2, <2>4, <2>5, <2>6 DEF TimedOK
    <2>8. stranded' \in BOOLEAN /\ (repeats' = 0 => ~ stranded')
      BY <1>0, <2>1, <2>6 DEF Strands
    <2> QED BY <1>1, <2>1, <2>7, <2>8
  <1>5. CASE UNCHANGED toastVars
    BY <1>5 DEF ToastInv, ToastsHaveTimers, toastVars
  <1> QED BY <1>2, <1>3, <1>4, <1>5, ToastCases

----------------------------------------------------------------------------
(* The capture list and the reports made of it *)

(* useCallback's memo is always that of the last render. *)
LEMMA Rendered ==
    ASSUME Render
    PROVE  closure' = [telemetry |-> telemetry', count |-> Len(captures')]
  BY DEF Render, Memo

(* find by id finds the capture at the position that the id says. *)
LEMMA ShownIs ==
    ASSUME TypeOK, ListOK(captures)
    PROVE  Shown = IF selected \in 1 .. Len(captures) THEN <<captures[selected]>> ELSE <<>>
  <1> DEFINE matches == {i \in DOMAIN captures : captures[i].id = selected}
             first == CHOOSE i \in matches : \A j \in matches : i <= j
  <1>1. DOMAIN captures = 1 .. Len(captures) /\ selected \in Nat
    BY LenProperties DEF TypeOK
  <1>2. \A i \in DOMAIN captures : (captures[i].id = selected) = (i = selected)
    BY <1>1 DEF ListOK
  <1>3. Shown = IF matches = {} THEN <<>> ELSE <<captures[first]>>
    BY DEF Shown
  <1>4. CASE selected \in 1 .. Len(captures)
    <2>1. matches = {selected}
      BY <1>1, <1>2, <1>4
    <2>2. \E i \in matches : \A j \in matches : i <= j
      BY <1>1, <2>1
    <2>3. first \in matches
      BY <2>2, Zenon
    <2>4. first = selected
      BY <2>1, <2>3, Zenon
    <2> HIDE DEF matches, first
    <2> QED BY <1>3, <1>4, <2>1, <2>4
  <1>5. CASE selected \notin 1 .. Len(captures)
    <2>1. matches = {}
      BY <1>1, <1>2, <1>5
    <2> QED BY <1>3, <1>5, <2>1
  <1> QED BY <1>4, <1>5

(* One more capture, taken from a fresh closure *)
LEMMA UnitAppended ==
    ASSUME TypeOK, ClosureFresh, ListOK(captures)
    PROVE  /\ Append(captures, CaptureUnit) \in Seq(Capture)
           /\ ListOK(Append(captures, CaptureUnit))
           /\ Len(Append(captures, CaptureUnit)) = Len(captures) + 1
           /\ \A i \in 1 .. Len(captures) : Append(captures, CaptureUnit)[i] = captures[i]
  <1> DEFINE r == Append(captures, CaptureUnit)
  <1>1. Len(captures) \in Nat /\ captures \in Seq(Capture)
    BY LenProperties DEF TypeOK
  <1>2. /\ CaptureUnit \in Capture /\ CaptureUnit.id = Len(captures) + 1
        /\ CaptureUnit.telemetry = CaptureUnit.pressedAt
    BY <1>1 DEF TypeOK, ClosureFresh, CaptureUnit, Index, Capture
  <1>3. /\ r \in Seq(Capture) /\ Len(r) = Len(captures) + 1
        /\ r[Len(captures) + 1] = CaptureUnit
        /\ \A i \in 1 .. Len(captures) : r[i] = captures[i]
    BY <1>1, <1>2, AppendProperties
  <1> HIDE DEF r
  <1>4. \A i \in 1 .. Len(r) : i \in 1 .. Len(captures) \/ i = Len(captures) + 1
    BY <1>1, <1>3
  <1>5. ListOK(r)
    BY <1>2, <1>3, <1>4 DEF ListOK
  <1> QED BY <1>3, <1>5 DEF r

ListVars == <<telemetry, closure, captures, serial, csvJobs, exports>>

ListTypes ==
    /\ telemetry \in Nat /\ serial \in Nat
    /\ closure \in [telemetry : Nat, count : Nat]
    /\ captures \in Seq(Capture)
    /\ csvJobs \in Seq(Seq(Capture)) /\ exports \in Seq(Seq(Capture))

LEMMA ListStep ==
    ASSUME TypeOK, ListsInv, [Next]_vars
    PROVE  ListTypes' /\ ListsInv'
  <1> DEFINE Goal == ListTypes' /\ ListsInv'
  <1>0. /\ ListTypes /\ Len(captures) \in Nat
        /\ ClosureFresh /\ ListOK(captures) /\ ReportsOK(csvJobs) /\ ReportsOK(exports)
    BY LenProperties DEF TypeOK, ListTypes, ListsInv
  <1> USE DEF ListTypes
  <1>1. ASSUME UNCHANGED ListVars PROVE Goal
    BY <1>0, <1>1 DEF ListVars, ListsInv, ClosureFresh
  <1>2. ASSUME telemetry' \in Nat, serial' \in Nat,
               captures' \in Seq(Capture), ListOK(captures'),
               csvJobs' = csvJobs, exports' = exports, Render
        PROVE  Goal
    <2>1. closure' = [telemetry |-> telemetry', count |-> Len(captures')]
      BY <1>2, Rendered
    <2>2. Len(captures') \in Nat
      BY <1>2, LenProperties
    <2> QED BY <1>0, <1>2, <2>1, <2>2 DEF ListsInv, ClosureFresh
  <1>3. CASE UpdateTelemetry
    BY <1>0, <1>2, <1>3 DEF UpdateTelemetry, captureVars, fileVars
  <1>4. CASE HandleCapture
    <2>1. captures' \in Seq(Capture) /\ ListOK(captures')
      BY <1>0, <1>4, UnitAppended DEF HandleCapture
    <2> QED BY <1>0, <1>2, <1>4, <2>1 DEF HandleCapture, fileVars
  <1>5. CASE HandleReset
    <2>1. captures' = <<>>
      BY <1>5 DEF HandleReset
    <2>2. captures' \in Seq(Capture) /\ ListOK(captures')
      BY <2>1, EmptySeq DEF ListOK
    <2> QED BY <1>0, <1>2, <1>5, <2>2 DEF HandleReset, fileVars
  <1>6. ASSUME UNCHANGED <<telemetry, closure, captures, serial>>,
               csvJobs' \in Seq(Seq(Capture)), ReportsOK(csvJobs'),
               exports' \in Seq(Seq(Capture)), ReportsOK(exports')
        PROVE  Goal
    BY <1>0, <1>6 DEF ListsInv, ClosureFresh
  <1>7. CASE HandleExportCSV
    <2>1. captures # <<>> /\ csvJobs' = Append(csvJobs, captures) /\ exports' = exports
      BY <1>7 DEF HandleExportCSV
    <2>2. csvJobs' \in Seq(Seq(Capture)) /\ ReportsOK(csvJobs')
      BY <1>0, <2>1, ReportsAppend
    <2> QED BY <1>0, <1>6, <1>7, <2>1, <2>2 DEF HandleExportCSV, captureVars
  <1>8. CASE CsvModuleLoaded
    <2>1. /\ csvJobs # <<>> /\ csvJobs' = Tail(csvJobs)
          /\ exports' = Append(exports, Head(csvJobs))
      BY <1>8 DEF CsvModuleLoaded
    <2>2. /\ csvJobs' \in Seq(Seq(Capture)) /\ ReportsOK(csvJobs')
          /\ Head(csvJobs) \in Seq(Capture) /\ Head(csvJobs) # <<>> /\ ListOK(Head(csvJobs))
      BY <1>0, <2>1, ReportsTail
    <2>3. exports' \in Seq(Seq(Capture)) /\ ReportsOK(exports')
      BY <1>0, <2>1, <2>2, ReportsAppend
    <2> QED BY <1>6, <1>8, <2>2, <2>3 DEF CsvModuleLoaded, captureVars
  <1>9. CASE CsvModuleFails
    <2>1. csvJobs # <<>> /\ csvJobs' = Tail(csvJobs) /\ exports' = exports
      BY <1>9 DEF CsvModuleFails
    <2>2. csvJobs' \in Seq(Seq(Capture)) /\ ReportsOK(csvJobs')
      BY <1>0, <2>1, ReportsTail
    <2> QED BY <1>0, <1>6, <1>9, <2>1, <2>2 DEF CsvModuleFails, captureVars
  <1>10. ASSUME NEW ok \in BOOLEAN, HandleGeneratePDF(ok) PROVE Goal
    <2>1. /\ captures # <<>> /\ csvJobs' = csvJobs
          /\ exports' = IF ok THEN Append(exports, captures) ELSE exports
      BY <1>10 DEF HandleGeneratePDF
    <2>2. Append(exports, captures) \in Seq(Seq(Capture)) /\ ReportsOK(Append(exports, captures))
      BY <1>0, <2>1, ReportsAppend
    <2>3. exports' \in Seq(Seq(Capture)) /\ ReportsOK(exports')
      BY <1>0, <2>1, <2>2
    <2> QED BY <1>0, <1>6, <1>10, <2>1, <2>3 DEF HandleGeneratePDF, captureVars
  <1>11. ASSUME SetActiveTab("dashboard") \/ SetActiveTab("map") \/ SocketToast
                \/ ToastTimeout \/ CaptureNotReady \/ CloseModal \/ HandleSaveImages
                \/ ModalSaveImages \/ RgbTimer \/ UNCHANGED vars
                \/ \E i \in DOMAIN captures : SetSelectedCapture(i)
         PROVE  UNCHANGED ListVars
    BY <1>11
    DEF SetActiveTab, SocketToast, ToastTimeout, CaptureNotReady, CloseModal,
        HandleSaveImages, ModalSaveImages, SaveAllImagesLocally, RgbTimer,
        SetSelectedCapture, ListVars, vars, captureVars, fileVars
  <1> HIDE DEF ListTypes
  <1> QED BY <1>1, <1>3, <1>4, <1>5, <1>7, <1>8, <1>9, <1>10, <1>11 DEF Next

----------------------------------------------------------------------------
(* The image files *)

FileTypes ==
    /\ thermalFiles \in Seq(Nat) /\ rgbFiles \in Seq(Nat)
    /\ rgbTimers \in Seq(Capture)

(* Both save buttons save a capture of the list. *)
LEMMA SavedCapture ==
    ASSUME TypeOK, ListsInv, HandleSaveImages \/ ModalSaveImages
    PROVE  \E cap \in Capture : SaveAllImagesLocally(cap)
  <1>1. CASE HandleSaveImages
    <2>1. Len(captures) \in 1 .. Len(captures)
      BY <1>1, LenProperties, EmptySeq DEF HandleSaveImages, TypeOK
    <2>2. captures[Len(captures)] \in Capture
      BY <2>1, ElementOfSeq DEF TypeOK
    <2> QED BY <1>1, <2>2 DEF HandleSaveImages
  <1>2. CASE ModalSaveImages
    <2>1. selected \in 1 .. Len(captures) /\ Shown = <<captures[selected]>>
      BY <1>2, ShownIs DEF ModalSaveImages, ListsInv
    <2>2. captures[selected] \in Capture /\ Shown[1] = captures[selected]
      BY <2>1, ElementOfSeq DEF TypeOK
    <2> QED BY <1>2, <2>2 DEF ModalSaveImages
  <1> QED BY <1>1, <1>2

LEMMA FileStep ==
    ASSUME TypeOK, ListsInv, FilesInv, [Next]_vars
    PROVE  FileTypes' /\ FilesInv'
  <1> DEFINE Goal == FileTypes' /\ FilesInv'
             T == Len(thermalFiles)
             R == Len(rgbFiles)
             P == Len(rgbTimers)
  <1>0. /\ thermalFiles \in Seq(Nat) /\ rgbFiles \in Seq(Nat) /\ rgbTimers \in Seq(Capture)
        /\ T \in Nat /\ R \in Nat /\ P \in Nat /\ T = R + P
    BY LenProperties DEF TypeOK, FilesInv
  <1>1. ASSUME UNCHANGED <<thermalFiles, rgbFiles, rgbTimers>> PROVE Goal
    BY <1>0, <1>1 DEF FileTypes, FilesInv
  <1>2. ASSUME NEW cap \in Capture, SaveAllImagesLocally(cap) PROVE Goal
    <2>1. /\ thermalFiles' = Append(thermalFiles, cap.serial)
          /\ rgbTimers' = Append(rgbTimers, cap) /\ rgbFiles' = rgbFiles
      BY <1>2 DEF SaveAllImagesLocally
    <2>2. cap.serial \in Nat
      BY DEF Capture
    <2>3. /\ thermalFiles' \in Seq(Nat) /\ Len(thermalFiles') = T + 1
          /\ thermalFiles'[T + 1] = cap.serial
          /\ \A n \in 1 .. T : thermalFiles'[n] = thermalFiles[n]
      <3> DEFINE x == cap.serial
      <3>1. x \in Nat /\ thermalFiles' = Append(thermalFiles, x)
        BY <2>1, <2>2
      <3> HIDE DEF x
      <3>2. /\ thermalFiles' \in Seq(Nat) /\ Len(thermalFiles') = T + 1
            /\ thermalFiles'[T + 1] = x
            /\ \A n \in 1 .. T : thermalFiles'[n] = thermalFiles[n]
        BY <1>0, <3>1, AppendProperties
      <3> QED BY <3>2 DEF x
    <2>4. /\ rgbTimers' \in Seq(Capture) /\ Len(rgbTimers') = P + 1
          /\ rgbTimers'[P + 1] = cap
          /\ \A n \in 1 .. P : rgbTimers'[n] = rgbTimers[n]
      BY <1>0, <2>1, AppendProperties
    <2> HIDE DEF T, P
    <2>5. \A n \in 1 .. R : rgbFiles[n] = thermalFiles'[n]
      <3>1. \A n \in 1 .. R : n \in 1 .. T
        BY <1>0
      <3> QED BY <2>3, <3>1 DEF FilesInv
    <2>6. ASSUME NEW n \in 1 .. P + 1
          PROVE  rgbTimers'[n].serial = thermalFiles'[R + n]
      <3>1. CASE n \in 1 .. P
        <4>1. R + n \in 1 .. T /\ rgbTimers[n].serial = thermalFiles[R + n]
          BY <1>0, <3>1 DEF FilesInv, P
        <4> QED BY <2>3, <2>4, <3>1, <4>1
      <3>2. CASE n = P + 1
        <4>1. R + n = T + 1
          BY <1>0, <3>2
        <4> QED BY <2>3, <2>4, <3>2, <4>1
      <3> QED BY <1>0, <3>1, <3>2
    <2>7. Len(thermalFiles') = Len(rgbFiles') + Len(rgbTimers')
      BY <1>0, <2>1, <2>3, <2>4
    <2> QED BY <1>0, <2>1, <2>3, <2>4, <2>5, <2>6, <2>7 DEF FileTypes, FilesInv
  <1>3. CASE RgbTimer
    <2> DEFINE cap == Head(rgbTimers)
    <2>1. /\ rgbTimers # <<>> /\ rgbTimers' = Tail(rgbTimers)
          /\ rgbFiles' = Append(rgbFiles, cap.serial) /\ thermalFiles' = thermalFiles
      BY <1>3 DEF RgbTimer, TimerFile, TimersLeft
    <2>2. /\ cap \in Capture /\ cap = rgbTimers[1]
          /\ rgbTimers' \in Seq(Capture) /\ Len(rgbTimers') = P - 1 /\ P # 0
          /\ \A n \in 1 .. P - 1 : rgbTimers'[n] = rgbTimers[n + 1]
      BY <1>0, <2>1, HeadTailProperties, EmptySeq
    <2> HIDE DEF cap
    <2>3. cap.serial \in Nat
      BY <2>2 DEF Capture
    <2>4. /\ rgbFiles' \in Seq(Nat) /\ Len(rgbFiles') = R + 1 /\ rgbFiles'[R + 1] = cap.serial
          /\ \A n \in 1 .. R : rgbFiles'[n] = rgbFiles[n]
      BY <1>0, <2>1, <2>3, AppendProperties
    <2>5. cap.serial = thermalFiles[R + 1]
      <3>1. 1 \in 1 .. P
        BY <1>0, <2>2
      <3> QED BY <2>2, <3>1 DEF FilesInv
    <2> HIDE DEF P, R
    <2>6. ASSUME NEW n \in 1 .. R + 1 PROVE rgbFiles'[n] = thermalFiles[n]
      <3>1. CASE n \in 1 .. R
        BY <2>4, <3>1 DEF FilesInv, R
      <3>2. CASE n = R + 1
        BY <2>4, <2>5, <3>2
      <3> QED BY <1>0, <3>1, <3>2
    <2>7. ASSUME NEW n \in 1 .. P - 1
          PROVE  rgbTimers'[n].serial = thermalFiles[(R + 1) + n]
      <3>1. n + 1 \in 1 .. P /\ R + (n + 1) = (R + 1) + n
        BY <1>0
      <3>2. rgbTimers[n + 1].serial = thermalFiles[R + (n + 1)]
        BY <3>1 DEF FilesInv, P, R
      <3> QED BY <2>2, <3>1, <3>2
    <2>8. Len(thermalFiles') = Len(rgbFiles') + Len(rgbTimers')
      <3>1. R + P = (R + 1) + (P - 1)
        BY <1>0
      <3>2. Len(thermalFiles') = R + P
        BY <1>0, <2>1, Zenon
      <3> QED BY <2>2, <2>4, <3>1, <3>2, Zenon
    <2> QED BY <1>0, <2>1, <2>2, <2>4, <2>6, <2>7, <2>8 DEF FileTypes, FilesInv
  <1>4. CASE HandleSaveImages \/ ModalSaveImages
    BY <1>2, <1>4, SavedCapture
  <1>5. ASSUME ~ RgbTimer, ~ HandleSaveImages, ~ ModalSaveImages
        PROVE  UNCHANGED <<thermalFiles, rgbFiles, rgbTimers>>
    BY <1>5
    DEF Next, SetActiveTab, UpdateTelemetry, SocketToast, ToastTimeout, HandleCapture,
        CaptureNotReady, HandleReset, SetSelectedCapture, CloseModal,
        HandleExportCSV, CsvModuleLoaded, CsvModuleFails, HandleGeneratePDF,
        vars, fileVars
  <1> QED BY <1>1, <1>3, <1>4, <1>5

----------------------------------------------------------------------------
(* The modal *)

LEMMA ChosenStep ==
    ASSUME TypeOK, ListsInv, ChosenInv, [Next]_vars
    PROVE  selected' \in Nat /\ chosen' \in Nat /\ ChosenInv'
  <1> DEFINE Goal == selected' \in Nat /\ chosen' \in Nat /\ ChosenInv'
  <1>0. /\ selected \in Nat /\ chosen \in Nat /\ captures \in Seq(Capture)
        /\ Len(captures) \in Nat /\ ListOK(captures)
    BY LenProperties DEF TypeOK, ListsInv
  <1>1. ASSUME UNCHANGED <<captures, selected, chosen>> PROVE Goal
    BY <1>0, <1>1 DEF ChosenInv
  <1>2. CASE HandleCapture
    <2>1. /\ Len(captures') = Len(captures) + 1
          /\ \A i \in 1 .. Len(captures) : captures'[i] = captures[i]
      BY <1>2, UnitAppended DEF HandleCapture, ListsInv
    <2>2. \A i \in 1 .. Len(captures) : i \in 1 .. Len(captures')
      BY <1>0, <2>1
    <2>3. selected' = selected /\ chosen' = chosen
      BY <1>2 DEF HandleCapture
    <2> QED BY <1>0, <2>1, <2>2, <2>3 DEF ChosenInv
  <1>3. CASE HandleReset
    BY <1>0, <1>3 DEF HandleReset, ChosenInv
  <1>4. ASSUME NEW i \in DOMAIN captures, SetSelectedCapture(i) PROVE Goal
    <2>1. i \in 1 .. Len(captures)
      BY <1>0
    <2>2. captures[i].id = i /\ captures[i] \in Capture
      BY <1>0, <2>1, ElementOfSeq DEF ListOK
    <2>3. captures[i].serial \in Nat
      BY <2>2 DEF Capture
    <2> QED BY <1>0, <1>4, <2>1, <2>2, <2>3 DEF SetSelectedCapture, ChosenInv
  <1>5. CASE CloseModal
    BY <1>5 DEF CloseModal, ChosenInv, NoSelection
  <1>6. ASSUME ~ HandleCapture, ~ HandleReset, ~ CloseModal,
               ~ \E i \in DOMAIN captures : SetSelectedCapture(i)
        PROVE  UNCHANGED <<captures, selected, chosen>>
    BY <1>6
    DEF Next, SetActiveTab, UpdateTelemetry, SocketToast, ToastTimeout, CaptureNotReady,
        HandleSaveImages, ModalSaveImages, SaveAllImagesLocally, RgbTimer,
        HandleExportCSV, CsvModuleLoaded, CsvModuleFails, HandleGeneratePDF,
        vars, captureVars
  <1> QED BY <1>1, <1>2, <1>3, <1>4, <1>5, <1>6

----------------------------------------------------------------------------
(* The theorems *)

LEMMA InitIInv == Init => IInv
  <1> SUFFICES ASSUME Init PROVE IInv
    OBVIOUS
  <1>1. \A S : <<>> \in Seq(S)
    BY EmptySeq
  <1>2. Len(<<>>) = 0
    BY EmptySeq
  <1>3. TypeOK
    BY <1>1 DEF Init, ToastInit, TypeOK, NoSelection
  <1>4. ListsInv
    <2>1. ListOK(<<>>) /\ ReportsOK(<<>>)
      BY <1>2 DEF ListOK, ReportsOK
    <2>2. ClosureFresh
      BY <1>2 DEF Init, ClosureFresh
    <2> QED BY <2>1, <2>2 DEF Init, ListsInv
  <1>5. FilesInv
    BY <1>2 DEF Init, FilesInv
  <1>6. ChosenInv
    BY DEF Init, ChosenInv
  <1>7. ToastInv
    <2>1. TimedOK({}, <<>>, 0)
      BY <1>1, <1>2 DEF TimedOK
    <2> QED BY <2>1, ToastInvIsTimed DEF Init, ToastInit
  <1> QED BY <1>3, <1>4, <1>5, <1>6, <1>7 DEF IInv

LEMMA IInvStep == IInv /\ [Next]_vars => IInv'
  <1> SUFFICES ASSUME IInv, [Next]_vars PROVE IInv'
    OBVIOUS
  <1>1. ToastInv' /\ ListTypes' /\ ListsInv' /\ FileTypes' /\ FilesInv'
        /\ selected' \in Nat /\ chosen' \in Nat /\ ChosenInv'
    BY ToastStep, ListStep, FileStep, ChosenStep DEF IInv
  <1>2. activeTab' \in {"dashboard", "map"}
    <2>1. activeTab \in {"dashboard", "map"}
      BY DEF IInv, TypeOK
    <2> QED
      BY <2>1
      DEF Next, SetActiveTab, UpdateTelemetry, SocketToast, ToastTimeout, HandleCapture,
          CaptureNotReady, HandleReset, SetSelectedCapture, CloseModal, HandleSaveImages,
          ModalSaveImages, SaveAllImagesLocally, RgbTimer, HandleExportCSV,
          CsvModuleLoaded, CsvModuleFails, HandleGeneratePDF, vars
  <1>3. TypeOK'
    BY <1>1, <1>2 DEF TypeOK, ToastInv, ListTypes, FileTypes
  <1> QED BY <1>1, <1>3 DEF IInv

LEMMA Invariance == Spec => []IInv
  BY InitIInv, IInvStep, PTL DEF Spec

(* Store, closure, files, timers and exports keep their types. *)
THEOREM TypeCorrect == Spec => []TypeOK
  <1>1. IInv => TypeOK
    BY DEF IInv
  <1> QED BY <1>1, Invariance, PTL

(* However captures, resets, messages and exports follow one another, the   *)
(* memoised handleCapture numbers every list from 1 without gaps, freezes   *)
(* the telemetry of the press, and no report is empty.                      *)
THEOREM CapturesTrue == Spec => []CapturesAreTrue
  <1>1. IInv => CapturesAreTrue
    <2> SUFFICES ASSUME IInv PROVE CapturesAreTrue
      OBVIOUS
    <2>1. /\ captures \in Seq(Capture)
          /\ csvJobs \in Seq(Seq(Capture)) /\ exports \in Seq(Seq(Capture))
          /\ ListOK(captures) /\ ReportsOK(csvJobs) /\ ReportsOK(exports)
      BY DEF IInv, TypeOK, ListsInv
    <2>2. ASSUME NEW rs \in Seq(Seq(Capture)), ReportsOK(rs), NEW list \in Range(rs)
          PROVE  list \in Seq(Capture) /\ list # <<>> /\ ListOK(list)
      <3>1. PICK n \in 1 .. Len(rs) : list = rs[n]
        BY RangeEquality
      <3> QED BY <2>2, <3>1, ElementOfSeq DEF ReportsOK
    <2>3. \A list \in Lists : list \in Seq(Capture) /\ ListOK(list)
      BY <2>1, <2>2 DEF Lists
    <2>4. \A list \in Lists : DOMAIN list = 1 .. Len(list)
      BY <2>3, LenProperties
    <2>5. <<>> \notin Range(exports)
      BY <2>1, <2>2
    <2> QED BY <2>3, <2>4, <2>5 DEF CapturesAreTrue, ListOK
  <1> QED BY <1>1, Invariance, PTL

(* The n-th RGB download is the other half of the n-th thermal download,    *)
(* whatever happens to the list in the 300 ms between them.                 *)
THEOREM FilesArePaired == Spec => []FilesPairUp
  <1>1. IInv => FilesPairUp
    <2> SUFFICES ASSUME IInv PROVE FilesPairUp
      OBVIOUS
    <2>1. /\ Len(thermalFiles) \in Nat /\ Len(rgbFiles) \in Nat /\ Len(rgbTimers) \in Nat
          /\ DOMAIN rgbFiles = 1 .. Len(rgbFiles)
      BY LenProperties DEF IInv, TypeOK
    <2>2. Len(rgbFiles) <= Len(thermalFiles)
      BY <2>1 DEF IInv, FilesInv
    <2> QED BY <2>1, <2>2 DEF IInv, FilesInv, FilesPairUp
  <1> QED BY <1>1, Invariance, PTL

(* The modal's find by id shows the capture that was chosen, although ids   *)
(* are used again after a reset and the selection outlives it.              *)
THEOREM ModalIsRight == Spec => []ModalShowsChosen
  <1>1. IInv => ModalShowsChosen
    <2> SUFFICES ASSUME IInv, chosen # 0 PROVE Shown # <<>> /\ Shown[1].serial = chosen
      BY DEF ModalShowsChosen
    <2>1. selected \in 1 .. Len(captures) /\ captures[selected].serial = chosen
      BY DEF IInv, ChosenInv
    <2>2. Shown = <<captures[selected]>>
      BY <2>1, ShownIs DEF IInv, ListsInv
    <2> QED BY <2>1, <2>2
  <1> QED BY <1>1, Invariance, PTL

(* Every toast in the list has its own timer pending, whichever ids repeat; *)
(* as long as none does, list, timers and screen agree, for any number of   *)
(* toasts.                                                                  *)
THEOREM NoToastStays == Spec => []ToastsHaveTimers
  <1>1. IInv => ToastsHaveTimers
    BY DEF IInv, ToastInv
  <1> QED BY <1>1, Invariance, PTL

----------------------------------------------------------------------------
(* The capture browser *)

(* The serial numbers of the list rise, and every capture has a time and a  *)
(* telemetry message.                                                       *)
SerialsInv ==
    /\ telemetry <= MaxTelemetry /\ serial <= MaxCaptures
    /\ \A i \in 1 .. Len(captures) :
          captures[i].telemetry <= MaxTelemetry /\ captures[i].serial \in 1 .. serial
    /\ \A i, j \in 1 .. Len(captures) : i < j => captures[i].serial < captures[j].serial

BrowserType ==
    browser \in [open : BOOLEAN, filter : Queries, field : Fields,
                 dir : {"asc", "desc"}, view : {"list", "map"}]

(* The memo is never stale. *)
RowsFresh == rows = IF browser.open THEN Processed(captures, browser) ELSE <<>>

BrowserInv == IInv /\ SerialsInv /\ BrowserType /\ RowsFresh

LEMMA SerialStep ==
    ASSUME TypeOK, ListsInv, SerialsInv, [Next]_vars
    PROVE  SerialsInv'
  <1>0. /\ captures \in Seq(Capture) /\ Len(captures) \in Nat
        /\ telemetry \in Nat /\ serial \in Nat
        /\ telemetry <= MaxTelemetry /\ serial <= MaxCaptures
    BY LenProperties DEF TypeOK, SerialsInv
  <1>1. CASE UNCHANGED <<telemetry, serial, captures>>
    BY <1>1 DEF SerialsInv
  <1>2. CASE UpdateTelemetry
    <2>1. telemetry' <= MaxTelemetry /\ serial' = serial /\ captures' = captures
      BY <1>0, <1>2, CaptureBounds DEF UpdateTelemetry, captureVars
    <2> QED BY <2>1 DEF SerialsInv
  <1>3. CASE HandleReset
    <2>1. captures' = <<>> /\ telemetry' = telemetry /\ serial' = serial
      BY <1>3 DEF HandleReset
    <2>2. Len(captures') = 0
      BY <2>1, EmptySeq
    <2> QED BY <1>0, <2>1, <2>2 DEF SerialsInv
  <1>4. CASE HandleCapture
    <2> DEFINE N == Len(captures)
               u == CaptureUnit
    <2>1. /\ serial < MaxCaptures /\ captures' = Append(captures, u)
          /\ serial' = serial + 1 /\ telemetry' = telemetry
      BY <1>4 DEF HandleCapture
    <2>2. u \in Capture /\ u.telemetry = telemetry /\ u.serial = serial + 1
      BY <1>0 DEF TypeOK, ListsInv, ClosureFresh, CaptureUnit, Index, Capture
    <2> HIDE DEF u
    <2>3. /\ Len(captures') = N + 1 /\ captures'[N + 1] = u
          /\ \A i \in 1 .. N : captures'[i] = captures[i]
      BY <1>0, <2>1, <2>2, AppendProperties
    <2>4. \A i \in 1 .. N : /\ captures[i].telemetry <= MaxTelemetry
                            /\ captures[i].serial \in 1 .. serial
      BY DEF SerialsInv
    <2>5. \A i, j \in 1 .. N : i < j => captures[i].serial < captures[j].serial
      BY DEF SerialsInv
    <2>6. N \in Nat
      BY <1>0
    <2> HIDE DEF N
    <2>7. \A i \in 1 .. N + 1 : i \in 1 .. N \/ i = N + 1
      BY <2>6
    <2>8. ASSUME NEW i \in 1 .. N + 1
          PROVE  /\ captures'[i].telemetry <= MaxTelemetry
                 /\ captures'[i].serial \in 1 .. serial + 1
      <3>1. CASE i \in 1 .. N
        BY <1>0, <2>3, <2>4, <3>1
      <3>2. CASE i = N + 1
        BY <1>0, <2>2, <2>3, <3>2
      <3> QED BY <2>7, <3>1, <3>2
    <2>9. ASSUME NEW i \in 1 .. N + 1, NEW j \in 1 .. N + 1, i < j
          PROVE  captures'[i].serial < captures'[j].serial
      <3>1. i \in 1 .. N /\ captures'[i] = captures[i]
        BY <2>3, <2>6, <2>9
      <3>2. CASE j \in 1 .. N
        BY <2>3, <2>5, <2>9, <3>1, <3>2
      <3>3. CASE j = N + 1
        BY <1>0, <2>2, <2>3, <2>4, <3>1, <3>3
      <3> QED BY <2>7, <3>2, <3>3
    <2>10. serial + 1 <= MaxCaptures
      BY <1>0, <2>1, CaptureBounds
    <2> QED BY <1>0, <2>1, <2>3, <2>8, <2>9, <2>10 DEF SerialsInv
  <1>5. ASSUME ~ UpdateTelemetry, ~ HandleReset, ~ HandleCapture
        PROVE  UNCHANGED <<telemetry, serial, captures>>
    BY <1>5
    DEF Next, SetActiveTab, SocketToast, ToastTimeout, CaptureNotReady,
        SetSelectedCapture, CloseModal, HandleSaveImages, ModalSaveImages,
        SaveAllImagesLocally, RgbTimer, HandleExportCSV, CsvModuleLoaded,
        CsvModuleFails, HandleGeneratePDF, vars, captureVars
  <1> QED BY <1>1, <1>2, <1>3, <1>4, <1>5

(* Every capture has a key for every column. *)
LEMMA KeyTyped ==
    ASSUME TypeOK, SerialsInv, NEW i \in 1 .. Len(captures), NEW field \in Fields
    PROVE  SortKey(captures[i], field) \in Int
  <1>1. captures[i] \in Capture
    BY ElementOfSeq DEF TypeOK
  <1>2. captures[i].serial \in 1 .. MaxCaptures
    BY CaptureBounds DEF TypeOK, SerialsInv
  <1>3. captures[i].telemetry \in 0 .. MaxTelemetry
    <2>1. captures[i].telemetry \in Nat /\ captures[i].telemetry <= MaxTelemetry
      BY <1>1 DEF Capture, SerialsInv
    <2> QED BY <2>1, CaptureBounds
  <1> QED BY <1>2, <1>3, BrowserAssumption DEF SortKey, Fields

(* The comparison function puts the keys in the direction chosen. *)
LEMMA CompareIs ==
    ASSUME NEW a, NEW b, NEW field, NEW dir \in {"asc", "desc"},
           SortKey(a, field) \in Int, SortKey(b, field) \in Int
    PROVE  /\ Compare(a, b, field, dir) \in Int
           /\ Compare(a, b, field, dir) = 0 <=> SortKey(a, field) = SortKey(b, field)
           /\ Compare(a, b, field, dir) < 0 <=>
                  IF dir = "asc" THEN SortKey(a, field) < SortKey(b, field)
                                 ELSE SortKey(a, field) > SortKey(b, field)
  BY DEF Compare

(* What goes before what is a strict total order of the kept captures. *)
LEMMA OrderIsTotal ==
    ASSUME NEW list, NEW q, NEW field, NEW dir \in {"asc", "desc"},
           DOMAIN list \subseteq Nat,
           \A i \in DOMAIN list : SortKey(list[i], field) \in Int,
           NEW i \in Kept(list, q), NEW j \in Kept(list, q)
    PROVE  /\ ~ GoesBefore(list, i, i, field, dir)
           /\ i # j => GoesBefore(list, i, j, field, dir)
                         \/ GoesBefore(list, j, i, field, dir)
           /\ GoesBefore(list, i, j, field, dir) =>
                 /\ IF dir = "asc"
                    THEN SortKey(list[i], field) <= SortKey(list[j], field)
                    ELSE SortKey(list[i], field) >= SortKey(list[j], field)
                 /\ SortKey(list[i], field) = SortKey(list[j], field) => i < j
           /\ \A k \in Kept(list, q) :
                 GoesBefore(list, i, j, field, dir) /\ GoesBefore(list, j, k, field, dir)
                     => GoesBefore(list, i, k, field, dir)
  <1> DEFINE Key(x) == SortKey(list[x], field)
             Less(x, y) == IF dir = "asc" THEN Key(x) < Key(y) ELSE Key(x) > Key(y)
  <1>1. \A x \in Kept(list, q) : x \in Nat /\ Key(x) \in Int
    BY DEF Kept
  <1>2. ASSUME NEW x \in Kept(list, q), NEW y \in Kept(list, q)
        PROVE  GoesBefore(list, x, y, field, dir)
                   <=> Less(x, y) \/ (Key(x) = Key(y) /\ x < y)
    <2>1. Key(x) \in Int /\ Key(y) \in Int
      BY <1>1
    <2>2. /\ Compare(list[x], list[y], field, dir) = 0 <=> Key(x) = Key(y)
          /\ Compare(list[x], list[y], field, dir) < 0 <=> Less(x, y)
      BY <2>1, CompareIs
    <2> HIDE DEF Less, Key
    <2> QED BY <2>2 DEF GoesBefore
  <1>3. /\ i \in Nat /\ j \in Nat /\ Key(i) \in Int /\ Key(j) \in Int
    BY <1>1
  <1>4. ~ GoesBefore(list, i, i, field, dir)
    <2> HIDE DEF Key
    <2> QED BY <1>2, <1>3
  <1>5. i # j => GoesBefore(list, i, j, field, dir) \/ GoesBefore(list, j, i, field, dir)
    <2>1. /\ GoesBefore(list, i, j, field, dir) <=> Less(i, j) \/ (Key(i) = Key(j) /\ i < j)
          /\ GoesBefore(list, j, i, field, dir) <=> Less(j, i) \/ (Key(j) = Key(i) /\ j < i)
      BY <1>2
    <2> HIDE DEF Key
    <2> QED BY <1>3, <2>1
  <1>6. GoesBefore(list, i, j, field, dir) =>
          /\ IF dir = "asc" THEN Key(i) <= Key(j) ELSE Key(i) >= Key(j)
          /\ Key(i) = Key(j) => i < j
    <2>1. GoesBefore(list, i, j, field, dir) <=> Less(i, j) \/ (Key(i) = Key(j) /\ i < j)
      BY <1>2
    <2> HIDE DEF Key
    <2> QED BY <1>3, <2>1
  <1>7. ASSUME NEW k \in Kept(list, q),
               GoesBefore(list, i, j, field, dir), GoesBefore(list, j, k, field, dir)
        PROVE  GoesBefore(list, i, k, field, dir)
    <2>1. /\ Less(i, j) \/ (Key(i) = Key(j) /\ i < j)
          /\ Less(j, k) \/ (Key(j) = Key(k) /\ j < k)
          /\ GoesBefore(list, i, k, field, dir) <=> Less(i, k) \/ (Key(i) = Key(k) /\ i < k)
      BY <1>2, <1>7
    <2>2. k \in Nat /\ Key(k) \in Int
      BY <1>1
    <2> HIDE DEF Key
    <2> QED BY <1>3, <2>1, <2>2
  <1> QED BY <1>4, <1>5, <1>6, <1>7

(* So what goes before has no later key and, with equal keys, was earlier   *)
(* in the list.                                                             *)
LEMMA OrderByKey ==
    ASSUME NEW list, NEW q, NEW field, NEW dir \in {"asc", "desc"},
           DOMAIN list \subseteq Nat,
           \A k \in DOMAIN list : SortKey(list[k], field) \in Int,
           NEW a \in Kept(list, q), NEW b \in Kept(list, q),
           GoesBefore(list, a, b, field, dir)
    PROVE  /\ IF dir = "asc" THEN SortKey(list[a], field) <= SortKey(list[b], field)
                             ELSE SortKey(list[a], field) >= SortKey(list[b], field)
           /\ SortKey(list[a], field) = SortKey(list[b], field) => a < b
  BY OrderIsTotal

(* The hypotheses of the three lemmas on sorting: a list with keys. *)
HasKeys(list, field) ==
    /\ \E n \in Nat : DOMAIN list = 1 .. n
    /\ \A i \in DOMAIN list : SortKey(list[i], field) \in Int

(* A capture that goes before another is on an earlier row. *)
LEMMA RowsRise ==
    ASSUME NEW list, NEW q, NEW field, NEW dir \in {"asc", "desc"}, HasKeys(list, field)
    PROVE  /\ IsFiniteSet(Kept(list, q)) /\ Cardinality(Kept(list, q)) \in Nat
           /\ \A i \in Kept(list, q) :
                 RowOf(list, i, q, field, dir) \in 1 .. Cardinality(Kept(list, q))
           /\ \A i, j \in Kept(list, q) :
                 GoesBefore(list, i, j, field, dir) =>
                    RowOf(list, i, q, field, dir) < RowOf(list, j, q, field, dir)
  <1> DEFINE K == Kept(list, q)
             Front(i) == InFront(list, i, q, field, dir)
             Before(i, j) == GoesBefore(list, i, j, field, dir)
  <1>0. DOMAIN list \subseteq Nat /\ IsFiniteSet(DOMAIN list)
    <2>1. PICK n \in Nat : DOMAIN list = 1 .. n
      BY DEF HasKeys
    <2>2. 1 \in Int /\ n \in Int
      OBVIOUS
    <2>3. IsFiniteSet(1 .. n)
      BY <2>2, FS_Interval
    <2> QED BY <2>1, <2>3
  <1>1. /\ \A i \in K : ~ Before(i, i)
        /\ \A i, j, k \in K : Before(i, j) /\ Before(j, k) => Before(i, k)
    <2>1. \A i \in DOMAIN list : SortKey(list[i], field) \in Int
      BY DEF HasKeys
    <2>2. ASSUME NEW i \in K, NEW j \in K PROVE ~ Before(i, i)
      BY <1>0, <2>1, OrderIsTotal
    <2>3. ASSUME NEW i \in K, NEW j \in K, NEW k \in K, Before(i, j), Before(j, k)
          PROVE  Before(i, k)
      BY <1>0, <2>1, <2>3, OrderIsTotal
    <2> HIDE DEF K, Before
    <2> QED BY <2>2, <2>3
  <1>2. K \in SUBSET DOMAIN list
    BY DEF Kept
  <1>3. \A i \in K : Front(i) \in SUBSET K /\ \A j \in K : j \in Front(i) <=> Before(j, i)
    BY DEF InFront
  <1>4. \A i \in K : RowOf(list, i, q, field, dir) = Cardinality(Front(i)) + 1
    BY DEF RowOf
  <1> HIDE DEF K, Front, Before
  <1>5. IsFiniteSet(K) /\ Cardinality(K) \in Nat
    <2>1. IsFiniteSet(K)
      BY <1>0, <1>2, FS_Subset
    <2> QED BY <2>1, FS_CardinalityType
  <1>6. \A i \in K : IsFiniteSet(Front(i)) /\ Cardinality(Front(i)) \in Nat
    <2>1. \A i \in K : IsFiniteSet(Front(i))
      BY <1>3, <1>5, FS_Subset
    <2> QED BY <2>1, FS_CardinalityType
  <1>7. ASSUME NEW i \in K PROVE Cardinality(Front(i)) < Cardinality(K)
    <2>1. Front(i) \in SUBSET K /\ Front(i) # K
      BY <1>1, <1>3
    <2>2. /\ Cardinality(Front(i)) <= Cardinality(K)
          /\ Cardinality(K) = Cardinality(Front(i)) => K = Front(i)
      BY <1>5, <2>1, FS_Subset
    <2> QED BY <1>5, <1>6, <2>1, <2>2
  <1>8. ASSUME NEW i \in K, NEW j \in K, Before(i, j)
        PROVE  Cardinality(Front(i)) < Cardinality(Front(j))
    <2>1. Front(i) \in SUBSET Front(j)
      BY <1>1, <1>3, <1>8
    <2>2. i \in Front(j) /\ i \notin Front(i)
      BY <1>1, <1>3, <1>8
    <2>3. /\ Cardinality(Front(i)) <= Cardinality(Front(j))
          /\ Cardinality(Front(j)) = Cardinality(Front(i)) => Front(j) = Front(i)
      BY <1>6, <2>1, FS_Subset
    <2> QED BY <1>6, <2>2, <2>3
  <1>9. \A i \in K : RowOf(list, i, q, field, dir) \in 1 .. Cardinality(K)
    BY <1>4, <1>5, <1>6, <1>7
  <1>10. \A i, j \in K : Before(i, j) =>
            RowOf(list, i, q, field, dir) < RowOf(list, j, q, field, dir)
    BY <1>4, <1>6, <1>8
  <1> QED BY <1>5, <1>9, <1>10 DEF K, Before

(* So no two captures share a row, and every row has its capture: there are *)
(* as many rows as captures.                                                *)
LEMMA RowsFilled ==
    ASSUME NEW list, NEW q, NEW field, NEW dir \in {"asc", "desc"}, HasKeys(list, field)
    PROVE  /\ \A i, j \in Kept(list, q) :
                 RowOf(list, i, q, field, dir) = RowOf(list, j, q, field, dir) => i = j
           /\ \A r \in 1 .. Cardinality(Kept(list, q)) :
                 \E i \in Kept(list, q) : RowOf(list, i, q, field, dir) = r
  <1> DEFINE K == Kept(list, q)
             n == Cardinality(K)
             Row(i) == RowOf(list, i, q, field, dir)
             T == 1 .. n
             f == [i \in K |-> Row(i)]
  <1>0. DOMAIN list \subseteq Nat
    BY DEF HasKeys
  <1>1. \A i, j \in K : i # j => GoesBefore(list, i, j, field, dir)
                                   \/ GoesBefore(list, j, i, field, dir)
    BY <1>0, OrderIsTotal DEF HasKeys
  <1>2. /\ IsFiniteSet(K) /\ n \in Nat /\ \A i \in K : Row(i) \in T
        /\ \A i, j \in K : GoesBefore(list, i, j, field, dir) => Row(i) < Row(j)
    BY RowsRise
  <1>3. IsFiniteSet(T) /\ Cardinality(T) = n
    <2>1. 1 \in Int /\ n \in Int
      BY <1>2
    <2>2. IsFiniteSet(T) /\ Cardinality(T) = IF 1 > n THEN 0 ELSE n - 1 + 1
      BY <2>1, FS_Interval, Zenon
    <2> HIDE DEF n
    <2> QED BY <1>2, <2>2
  <1> HIDE DEF K, n, Row
  <1>4. \A i, j \in K : Row(i) = Row(j) => i = j
    <2>1. \A i \in K : Row(i) \in Int
      BY <1>2
    <2> QED BY <1>1, <1>2, <2>1
  <1>5. f \in Injection(K, T)
    BY <1>2, <1>4 DEF Injection, IsInjective
  <1> HIDE DEF T, f
  <1>6. f \in Surjection(K, T)
    <2>1. Cardinality(K) = Cardinality(T)
      BY <1>3 DEF n
    <2> QED BY <1>3, <1>5, <2>1, FS_Injection
  <1>7. \A r \in T : \E i \in K : Row(i) = r
    BY <1>6 DEF Surjection, f
  <1> QED BY <1>4, <1>7 DEF K, n, Row, T

(* Sorted lists what is kept, each once, in order. *)
LEMMA SortedIs ==
    ASSUME NEW list, NEW q, NEW field, NEW dir \in {"asc", "desc"}, HasKeys(list, field)
    PROVE  LET s == Sorted(list, q, field, dir)
               n == Cardinality(Kept(list, q))
           IN  /\ DOMAIN s = 1 .. n /\ n \in Nat
               /\ \A i \in Kept(list, q) : \E r \in 1 .. n : s[r] = list[i]
               /\ \E at \in [1 .. n -> Kept(list, q)] :
                     /\ \A r \in 1 .. n : s[r] = list[at[r]]
                     /\ \A r, t \in 1 .. n :
                           r < t => GoesBefore(list, at[r], at[t], field, dir)
  <1> DEFINE K == Kept(list, q)
             n == Cardinality(K)
             Row(i) == RowOf(list, i, q, field, dir)
             Before(i, j) == GoesBefore(list, i, j, field, dir)
             s == Sorted(list, q, field, dir)
             At(r) == CHOOSE i \in K : Row(i) = r
             at == [r \in 1 .. n |-> At(r)]
  <1>0. DOMAIN list \subseteq Nat
    BY DEF HasKeys
  <1>1. \A i, j \in K : i # j => Before(i, j) \/ Before(j, i)
    BY <1>0, OrderIsTotal DEF HasKeys
  <1>2. /\ n \in Nat /\ \A i \in K : Row(i) \in 1 .. n
        /\ \A i, j \in K : Before(i, j) => Row(i) < Row(j)
    BY RowsRise
  <1>3. /\ \A i, j \in K : Row(i) = Row(j) => i = j
        /\ \A r \in 1 .. n : \E i \in K : Row(i) = r
    BY RowsFilled
  <1>4. s = [r \in 1 .. n |-> list[At(r)]]
    BY Zenon DEF Sorted
  <1> HIDE DEF K, n, Row, Before, s
  <1>5. \A r \in 1 .. n : At(r) \in K /\ Row(At(r)) = r
    BY <1>3, Zenon
  <1> HIDE DEF At
  <1>6. \A i \in K : At(Row(i)) = i
    BY <1>2, <1>3, <1>5
  <1>7. DOMAIN s = 1 .. n /\ \A r \in 1 .. n : s[r] = list[At(r)]
    BY <1>4
  <1>8. \A i \in K : \E r \in 1 .. n : s[r] = list[i]
    BY <1>2, <1>6, <1>7
  <1>9. at \in [1 .. n -> K] /\ \A r \in 1 .. n : at[r] = At(r)
    BY <1>5
  <1>10. ASSUME NEW r \in 1 .. n, NEW t \in 1 .. n, r < t
         PROVE  Before(at[r], at[t])
    <2>1. /\ at[r] \in K /\ at[t] \in K /\ Row(at[r]) = r /\ Row(at[t]) = t
      BY <1>5, <1>9
    <2>2. r \in Int /\ t \in Int
      BY <1>2
    <2>3. at[r] # at[t] /\ ~ (t < r)
      BY <1>10, <2>1, <2>2
    <2> HIDE DEF at
    <2> QED BY <1>1, <1>2, <2>1, <2>3
  <1> HIDE DEF at
  <1> QED BY <1>2, <1>7, <1>8, <1>9, <1>10 DEF K, n, Before, s

----------------------------------------------------------------------------
LEMMA ListHasKeys ==
    ASSUME TypeOK, SerialsInv, NEW field \in Fields
    PROVE  HasKeys(captures, field)
  <1>1. DOMAIN captures = 1 .. Len(captures) /\ Len(captures) \in Nat
    BY LenProperties DEF TypeOK
  <1>2. \A i \in 1 .. Len(captures) : SortKey(captures[i], field) \in Int
    BY KeyTyped
  <1> QED BY <1>1, <1>2 DEF HasKeys

(* The memo: with all four dependencies unchanged the old rows are right. *)
LEMMA RenderedFresh ==
    ASSUME RowsFresh, RenderRows
    PROVE  RowsFresh'
  <1>1. CASE ~ browser'.open
    BY <1>1 DEF RenderRows, RowsFresh
  <1>2. CASE browser'.open /\ browser.open
              /\ Dependencies(captures, browser) = Dependencies(captures', browser')
    <2>1. /\ captures = captures' /\ browser.filter = browser'.filter
          /\ browser.field = browser'.field /\ browser.dir = browser'.dir
      BY <1>2 DEF Dependencies
    <2>2. rows' = rows /\ rows = Processed(captures, browser)
      BY <1>2 DEF RenderRows, RowsFresh
    <2>3. Processed(captures, browser) = Processed(captures', browser')
      BY <2>1 DEF Processed
    <2> QED BY <1>2, <2>2, <2>3 DEF RowsFresh
  <1>3. CASE browser'.open
              /\ ~ (browser.open
                    /\ Dependencies(captures, browser) = Dependencies(captures', browser'))
    BY <1>3 DEF RenderRows, RowsFresh
  <1> QED BY <1>1, <1>2, <1>3

(* A row of an open browser is a capture of the list. *)
LEMMA RowIsCapture ==
    ASSUME BrowserInv, browser.open, NEW r \in DOMAIN rows
    PROVE  \E i \in 1 .. Len(captures) : rows[r] = captures[i]
  <1> DEFINE q == browser.filter
             field == browser.field
             dir == browser.dir
             K == Kept(captures, q)
             n == Cardinality(K)
  <1>1. rows = Sorted(captures, q, field, dir)
    BY DEF BrowserInv, RowsFresh, Processed
  <1>2. field \in Fields /\ dir \in {"asc", "desc"}
    BY DEF BrowserInv, BrowserType
  <1>3. HasKeys(captures, field)
    BY <1>2, ListHasKeys DEF BrowserInv, IInv
  <1>4. DOMAIN rows = 1 .. n
    BY <1>1, Zenon DEF Sorted
  <1> HIDE DEF q, field, dir
  <1>5. PICK at \in [1 .. n -> K] : \A t \in 1 .. n : rows[t] = captures[at[t]]
    BY <1>1, <1>2, <1>3, SortedIs
  <1>6. at[r] \in DOMAIN captures /\ rows[r] = captures[at[r]]
    BY <1>4, <1>5 DEF Kept
  <1>7. DOMAIN captures = 1 .. Len(captures)
    BY LenProperties DEF BrowserInv, IInv, TypeOK
  <1> QED BY <1>6, <1>7

LEMMA BrowserInitOK == BrowserInit => BrowserInv
  <1> SUFFICES ASSUME BrowserInit PROVE BrowserInv
    OBVIOUS
  <1>1. IInv
    BY InitIInv DEF BrowserInit
  <1>2. SerialsInv
    <2>1. Len(captures) = 0 /\ telemetry = 0 /\ serial = 0
      BY EmptySeq DEF BrowserInit, Init
    <2> QED BY <2>1, CaptureBounds DEF SerialsInv
  <1>3. browser = [open |-> FALSE, filter |-> NoQuery, field |-> "time",
                   dir |-> "desc", view |-> "list"]
    BY DEF BrowserInit, Mounted
  <1>4. BrowserType
    BY <1>3, BrowserAssumption DEF BrowserType, Fields
  <1>5. RowsFresh
    <2>1. browser.open = FALSE
      BY <1>3
    <2>2. rows = <<>>
      BY DEF BrowserInit
    <2> QED BY <2>1, <2>2, Zenon DEF RowsFresh
  <1> QED BY <1>1, <1>2, <1>4, <1>5 DEF BrowserInv

LEMMA BrowserTypeStep ==
    ASSUME BrowserType, BrowserNext
    PROVE  BrowserType'
  <1>1. Mounted(TRUE) \in [open : BOOLEAN, filter : Queries, field : Fields,
                           dir : {"asc", "desc"}, view : {"list", "map"}]
    BY BrowserAssumption DEF Mounted, Fields
  <1>2. Mounted(FALSE) \in [open : BOOLEAN, filter : Queries, field : Fields,
                            dir : {"asc", "desc"}, view : {"list", "map"}]
    BY BrowserAssumption DEF Mounted, Fields
  <1>3. CASE Behind
    BY <1>3 DEF Behind, BrowserType
  <1>4. CASE ShowBrowser
    BY <1>1, <1>4 DEF ShowBrowser, BrowserType
  <1>5. CASE CloseBrowser
    BY <1>2, <1>5 DEF CloseBrowser, BrowserType
  <1>6. ASSUME NEW q \in Queries, SetFilter(q) PROVE BrowserType'
    BY <1>6 DEF SetFilter, BrowserType
  <1>7. ASSUME NEW field \in Fields, ToggleSort(field) PROVE BrowserType'
    BY <1>7 DEF ToggleSort, BrowserType
  <1>8. ASSUME NEW mode \in {"list", "map"}, SetViewMode(mode) PROVE BrowserType'
    BY <1>8 DEF SetViewMode, BrowserType
  <1>9. ASSUME NEW r \in DOMAIN rows, HandleSelect(r) PROVE BrowserType'
    BY <1>2, <1>9 DEF HandleSelect, BrowserType
  <1> QED BY <1>3, <1>4, <1>5, <1>6, <1>7, <1>8, <1>9 DEF BrowserNext

(* Choosing a row selects the capture of that row, by its id. *)
LEMMA SelectStep ==
    ASSUME BrowserInv, NEW r \in DOMAIN rows, HandleSelect(r)
    PROVE  IInv' /\ SerialsInv'
  <1>1. /\ browser.open /\ selected' = rows[r].id /\ chosen' = rows[r].serial
        /\ UNCHANGED <<activeTab, telemetry, closure, captures, serial, fileVars,
                       toastVars>>
    BY DEF HandleSelect, Listing, RowId
  <1>2. PICK i \in 1 .. Len(captures) : rows[r] = captures[i]
    BY <1>1, RowIsCapture
  <1>3. captures[i] \in Capture /\ captures[i].id = i
    BY ElementOfSeq DEF BrowserInv, IInv, TypeOK, ListsInv, ListOK
  <1>4. /\ selected' = i /\ chosen' = captures[i].serial
        /\ selected' \in Nat /\ chosen' \in Nat
    BY <1>1, <1>2, <1>3 DEF Capture
  <1>5. TypeOK'
    BY <1>1, <1>4 DEF BrowserInv, IInv, TypeOK, fileVars, toastVars
  <1>6. ListsInv' /\ FilesInv' /\ ToastInv'
    BY <1>1
    DEF BrowserInv, IInv, ListsInv, ClosureFresh, FilesInv, ToastInv,
        ToastsHaveTimers, fileVars, toastVars
  <1>7. ChosenInv'
    BY <1>1, <1>4 DEF ChosenInv
  <1>8. SerialsInv'
    BY <1>1 DEF BrowserInv, SerialsInv
  <1> QED BY <1>5, <1>6, <1>7, <1>8 DEF IInv

LEMMA BrowserStep == BrowserInv /\ [BrowserNext]_browserVars => BrowserInv'
  <1> SUFFICES ASSUME BrowserInv, [BrowserNext]_browserVars PROVE BrowserInv'
    OBVIOUS
  <1>1. CASE UNCHANGED browserVars
    <2>1. UNCHANGED vars /\ UNCHANGED <<browser, rows>>
      BY <1>1 DEF browserVars
    <2>2. IInv' /\ SerialsInv'
      BY <2>1, IInvStep, SerialStep DEF BrowserInv, IInv
    <2>3. captures' = captures
      BY <2>1 DEF vars, captureVars
    <2>4. BrowserType' /\ RowsFresh'
      BY <2>1, <2>3 DEF BrowserInv, BrowserType, RowsFresh
    <2> QED BY <2>2, <2>4 DEF BrowserInv
  <1>2. CASE BrowserNext
    <2>1. BrowserType'
      BY <1>2, BrowserTypeStep DEF BrowserInv
    <2>2. RenderRows
      BY <1>2
      DEF BrowserNext, Behind, ShowBrowser, CloseBrowser, SetFilter, ToggleSort,
          SetViewMode, HandleSelect
    <2>3. RowsFresh'
      BY <2>2, RenderedFresh DEF BrowserInv
    <2>4. [Next]_vars \/ \E r \in DOMAIN rows : HandleSelect(r)
      BY <1>2
      DEF BrowserNext, Behind, ShowBrowser, CloseBrowser, SetFilter, ToggleSort,
          SetViewMode
    <2>5. IInv' /\ SerialsInv'
      <3>1. CASE [Next]_vars
        BY <3>1, IInvStep, SerialStep DEF BrowserInv, IInv
      <3>2. CASE \E r \in DOMAIN rows : HandleSelect(r)
        BY <3>2, SelectStep
      <3> QED BY <2>4, <3>1, <3>2
    <2> QED BY <2>1, <2>3, <2>5 DEF BrowserInv
  <1> QED BY <1>1, <1>2

LEMMA BrowserInvariant == BrowserSpec => []BrowserInv
  BY BrowserInitOK, BrowserStep, PTL DEF BrowserSpec

(* For any captures, search texts, temperatures, places and times: an open  *)
(* browser lists exactly the captures found, each on a row of its own, by   *)
(* the chosen key in the chosen direction, equal keys as they were taken.   *)
THEOREM BrowserRowsTrue == BrowserSpec => []RowsAreTrue
  <1>1. BrowserInv => RowsAreTrue
    <2> DEFINE q == browser.filter
               field == browser.field
               dir == browser.dir
               K == Kept(captures, q)
               n == Cardinality(K)
               Key(i) == SortKey(rows[i], field)
    <2> SUFFICES ASSUME BrowserInv, browser.open
                 PROVE  /\ Range(rows) = {c \in Range(captures) : Matches(q, c)}
                        /\ \A i, j \in DOMAIN rows : i < j =>
                              /\ IF dir = "asc" THEN Key(i) <= Key(j) ELSE Key(i) >= Key(j)
                              /\ Key(i) = Key(j) => rows[i].serial < rows[j].serial
      BY Zenon DEF RowsAreTrue
    <2>1. rows = Sorted(captures, q, field, dir)
      BY DEF BrowserInv, RowsFresh, Processed
    <2>2. field \in Fields /\ dir \in {"asc", "desc"}
      BY DEF BrowserInv, BrowserType
    <2>3. HasKeys(captures, field)
      BY <2>2, ListHasKeys DEF BrowserInv, IInv
    <2>4. /\ DOMAIN captures = 1 .. Len(captures) /\ DOMAIN captures \subseteq Nat
          /\ \A i, j \in DOMAIN captures : i < j => captures[i].serial < captures[j].serial
      <3>1. DOMAIN captures = 1 .. Len(captures) /\ Len(captures) \in Nat
        BY LenProperties DEF BrowserInv, IInv, TypeOK
      <3>2. \A i, j \in 1 .. Len(captures) : i < j => captures[i].serial < captures[j].serial
        BY DEF BrowserInv, SerialsInv
      <3> QED BY <3>1, <3>2
    <2>5. K = {i \in DOMAIN captures : Matches(q, captures[i])}
      BY DEF Kept
    <2> HIDE DEF q, field, dir
    <2>6. /\ DOMAIN rows = 1 .. n
          /\ \A i \in K : \E r \in 1 .. n : rows[r] = captures[i]
      <3>1. DOMAIN rows = 1 .. n
        BY <2>1, Zenon DEF Sorted
      <3>2. \A i \in K : \E r \in 1 .. n :
              Sorted(captures, q, field, dir)[r] = captures[i]
        BY <2>2, <2>3, SortedIs
      <3>3. \A i \in K : \E r \in 1 .. n : rows[r] = captures[i]
        BY <2>1, <3>2, Zenon
      <3> QED BY <3>1, <3>3
    <2>7. PICK at \in [1 .. n -> K] :
            /\ \A r \in 1 .. n : rows[r] = captures[at[r]]
            /\ \A r, t \in 1 .. n : r < t => GoesBefore(captures, at[r], at[t], field, dir)
      BY <2>1, <2>2, <2>3, SortedIs
    <2>8. Range(rows) = {c \in Range(captures) : Matches(q, c)}
      <3>1. \A r \in 1 .. n : at[r] \in K
        BY <2>7
      <3> HIDE DEF K, n
      <3> QED BY <2>5, <2>6, <2>7, <3>1 DEF Range
    <2>9. ASSUME NEW i \in DOMAIN rows, NEW j \in DOMAIN rows, i < j
          PROVE  /\ IF dir = "asc" THEN Key(i) <= Key(j) ELSE Key(i) >= Key(j)
                 /\ Key(i) = Key(j) => rows[i].serial < rows[j].serial
      <3>1. /\ at[i] \in K /\ at[j] \in K /\ rows[i] = captures[at[i]]
            /\ rows[j] = captures[at[j]]
            /\ GoesBefore(captures, at[i], at[j], field, dir)
        BY <2>6, <2>7, <2>9
      <3>2. \A k \in DOMAIN captures : SortKey(captures[k], field) \in Int
        BY <2>3 DEF HasKeys
      <3>3. /\ IF dir = "asc"
               THEN SortKey(captures[at[i]], field) <= SortKey(captures[at[j]], field)
               ELSE SortKey(captures[at[i]], field) >= SortKey(captures[at[j]], field)
            /\ SortKey(captures[at[i]], field) = SortKey(captures[at[j]], field)
                 => at[i] < at[j]
        <4> DEFINE a == at[i]
                   b == at[j]
        <4>1. /\ a \in Kept(captures, q) /\ b \in Kept(captures, q)
              /\ GoesBefore(captures, a, b, field, dir)
          BY <3>1
        <4> HIDE DEF a, b
        <4>2. /\ IF dir = "asc"
                 THEN SortKey(captures[a], field) <= SortKey(captures[b], field)
                 ELSE SortKey(captures[a], field) >= SortKey(captures[b], field)
              /\ SortKey(captures[a], field) = SortKey(captures[b], field) => a < b
          <5>1. dir \in {"asc", "desc"} /\ DOMAIN captures \subseteq Nat
            BY <2>2, <2>4
          <5> QED BY <3>2, <4>1, <5>1, OrderByKey
        <4> QED BY <4>2 DEF a, b
      <3>4. at[i] \in DOMAIN captures /\ at[j] \in DOMAIN captures
        BY <2>5, <3>1
      <3> QED BY <2>4, <3>1, <3>3, <3>4
    <2> QED BY <2>8, <2>9
  <1> QED BY <1>1, BrowserInvariant, PTL

(* The modal shows the chosen capture also when it was chosen from a row    *)
(* of the browser, wherever sorting and searching had put it.               *)
THEOREM BrowserModalIsRight == BrowserSpec => []ModalShowsChosen
  <1>1. BrowserInv => ModalShowsChosen
    <2> SUFFICES ASSUME BrowserInv, chosen # 0
                 PROVE  Shown # <<>> /\ Shown[1].serial = chosen
      BY DEF ModalShowsChosen
    <2>1. selected \in 1 .. Len(captures) /\ captures[selected].serial = chosen
      BY DEF BrowserInv, IInv, ChosenInv
    <2>2. Shown = <<captures[selected]>>
      BY <2>1, ShownIs DEF BrowserInv, IInv, ListsInv
    <2> QED BY <2>1, <2>2
  <1> QED BY <1>1, BrowserInvariant, PTL

=============================================================================
