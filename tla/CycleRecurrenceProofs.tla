------------------------ MODULE CycleRecurrenceProofs ------------------------
(****************************************************************************)
(* The dates of daily workflows, for every setup date and any number of        *)
(* repetitions; then, for requests that do not overlap and edits of workflows   *)
(* that are not Inactive: every recurrence starts its cycles in order and in    *)
(* time.                                                                     *)
(****************************************************************************)
EXTENDS CycleRecurrence, FiniteSetTheorems, WellFoundedInduction, TLAPS

----------------------------------------------------------------------------
(* The dates of daily workflows *)

\* A day of the work week, holidays included: daily workflows do not know them.
InWorkWeek(d) == Weekday(d) <= WorkWeekLen

\* One step further in the work week: the day after, or Monday after a Friday.
LEMMA DailyStep ==
  ASSUME NEW setup \in Nat, NEW n \in Nat, InWorkWeek(setup)
  PROVE  /\ DailyDate(setup, n) \in Nat
         /\ DailyDate(setup, n) >= setup
         /\ InWorkWeek(DailyDate(setup, n))
         /\ DailyDate(setup, n + 1) = DailyDate(setup, n)
              + IF Weekday(DailyDate(setup, n)) = WorkWeekLen THEN 3 ELSE 1
PROOF
<1> DEFINE w == n \div 5
           r == n % 5
           v == Weekday(setup)
<1>1. FirstWeekday \in 1..7
  BY CalendarAssumption
<1>2. n = 5 * w + r /\ w \in Nat /\ r \in 0..4
  OBVIOUS
<1>3. v \in 1..5
  BY <1>1 DEF InWorkWeek, Weekday, WorkWeekLen
<1>4. DailyDate(setup, n) = setup + 7 * w + r + IF v + r > 5 THEN 2 ELSE 0
  BY DEF DailyDate, WorkWeekLen
<1>5. Weekday(DailyDate(setup, n)) = IF v + r > 5 THEN v + r - 5 ELSE v + r
  BY <1>1, <1>2, <1>3, <1>4 DEF Weekday
<1>6. DailyDate(setup, n + 1) =
        IF r = 4 THEN setup + 7 * (w + 1)
        ELSE setup + 7 * w + r + 1 + IF v + r + 1 > 5 THEN 2 ELSE 0
  <2>1. CASE r = 4
    <3>1. (n + 1) \div 5 = w + 1 /\ (n + 1) % 5 = 0
      BY <1>2, <2>1
    <3> QED BY <3>1, <2>1, <1>3 DEF DailyDate, WorkWeekLen
  <2>2. CASE r # 4
    <3>1. (n + 1) \div 5 = w /\ (n + 1) % 5 = r + 1
      BY <1>2, <2>2
    <3> QED BY <3>1, <2>2, <1>2, <1>3 DEF DailyDate, WorkWeekLen
  <2> QED BY <2>1, <2>2
<1> HIDE DEF w, r, v
<1>7. DailyDate(setup, n) \in Nat /\ DailyDate(setup, n) >= setup
  BY <1>2, <1>3, <1>4
<1>8. InWorkWeek(DailyDate(setup, n))
  BY <1>2, <1>3, <1>5 DEF InWorkWeek, WorkWeekLen
<1>9. DailyDate(setup, n + 1) = DailyDate(setup, n)
        + IF Weekday(DailyDate(setup, n)) = WorkWeekLen THEN 3 ELSE 1
  BY <1>2, <1>3, <1>4, <1>5, <1>6 DEF WorkWeekLen
<1> QED BY <1>7, <1>8, <1>9

\* calc_next_adjusted_date, for a daily workflow whose tasks start in the work
\* week: every repetition starts on the next day of the work week, and none in
\* between is left out.
THEOREM DailyVisitsEveryWorkDay ==
  ASSUME NEW setup \in Nat, NEW n \in Nat, InWorkWeek(setup)
  PROVE  /\ DailyDate(setup, n) < DailyDate(setup, n + 1)
         /\ InWorkWeek(DailyDate(setup, n + 1))
         /\ \A d \in DailyDate(setup, n) + 1 .. DailyDate(setup, n + 1) - 1 : ~InWorkWeek(d)
PROOF
<1>1. /\ DailyDate(setup, n) \in Nat
      /\ InWorkWeek(DailyDate(setup, n))
      /\ DailyDate(setup, n + 1) = DailyDate(setup, n)
           + IF Weekday(DailyDate(setup, n)) = WorkWeekLen THEN 3 ELSE 1
  BY DailyStep
<1>2. InWorkWeek(DailyDate(setup, n + 1))
  <2>1. n + 1 \in Nat
    OBVIOUS
  <2> QED BY <2>1, DailyStep
<1>3. \A d \in DailyDate(setup, n) + 1 .. DailyDate(setup, n + 1) - 1 : ~InWorkWeek(d)
  <2>1. CASE Weekday(DailyDate(setup, n)) = WorkWeekLen
    <3>1. FirstWeekday \in 1..7
      BY CalendarAssumption
    <3> QED BY <1>1, <2>1, <3>1 DEF InWorkWeek, Weekday, WorkWeekLen
  <2>2. CASE Weekday(DailyDate(setup, n)) # WorkWeekLen
    BY <1>1, <2>2
  <2> QED BY <2>1, <2>2
<1> QED BY <1>1, <1>2, <1>3

\* A later repetition has a later date, at least by as many days as there are
\* repetitions in between.
THEOREM DailyIncreases ==
  ASSUME NEW setup \in Nat, NEW m \in Nat, NEW n \in Nat, InWorkWeek(setup), m <= n
  PROVE  DailyDate(setup, n) >= DailyDate(setup, m) + (n - m)
PROOF
<1> DEFINE w(k) == k \div 5
           r(k) == k % 5
           v == Weekday(setup)
<1>1. FirstWeekday \in 1..7
  BY CalendarAssumption
<1>2. v \in 1..5
  BY <1>1 DEF InWorkWeek, Weekday, WorkWeekLen
<1>3. \A k \in Nat : /\ k = 5 * w(k) + r(k) /\ w(k) \in Nat /\ r(k) \in 0..4
                     /\ DailyDate(setup, k) = setup + 7 * w(k) + r(k) + IF v + r(k) > 5 THEN 2 ELSE 0
  BY DEF DailyDate, WorkWeekLen
<1>4. PICK wm \in Nat, rm \in 0..4 :
        m = 5 * wm + rm /\ DailyDate(setup, m) = setup + 7 * wm + rm + IF v + rm > 5 THEN 2 ELSE 0
  BY <1>3
<1>5. PICK wn \in Nat, rn \in 0..4 :
        n = 5 * wn + rn /\ DailyDate(setup, n) = setup + 7 * wn + rn + IF v + rn > 5 THEN 2 ELSE 0
  BY <1>3
<1> HIDE DEF w, r, v
<1>6. wm = wn \/ wm + 1 <= wn
  BY <1>4, <1>5
<1>7. CASE wm = wn
  <2>1. rm <= rn
    BY <1>4, <1>5, <1>7
  <2> QED BY <1>2, <1>4, <1>5, <1>7, <2>1
<1>8. CASE wm + 1 <= wn
  BY <1>2, <1>4, <1>5, <1>8
<1> QED BY <1>6, <1>7, <1>8

----------------------------------------------------------------------------
(* Regular dates *)

\* What the proofs need of the dates: a setup date is the date of its first
\* occurrence, and each later occurrence has a later date.  Daily workflows
\* whose tasks start in the work week have it (DailyIsRegular).  Others have it
\* when no task is set up for a weekend or a holiday, and no occurrence is
\* brought forward onto the one before.
Regular ==
  \A u \in WorkflowUnits, d \in StartDates :
    /\ AdjustedDate(u, d, 0) = d
    /\ \A k \in Nat : AdjustedDate(u, d, k) \in Nat \ {NoDay}
    /\ \A j, k \in Nat : j <= k => AdjustedDate(u, d, k) >= AdjustedDate(u, d, j) + (k - j)

Orderly == Regular /\ ~Overlap /\ "inactive" \notin Kinds

----------------------------------------------------------------------------
(* The inductive invariant *)

Increasing(s) == \A i, j \in DOMAIN s : i < j => s[i] < s[j]

AllIdle == \A s \in Sessions : ~Busy(s)

\* The row agrees with the tasks: not started yet, on an occurrence of the tasks,
\* or without a date because there are none.
RowOrdered ==
  IF wf.status = "Draft" THEN wf.next = NoDay /\ wf.multiplier = 0 /\ cycles = <<>>
  ELSE IF HasTasks(start) THEN wf.next = NextDate(wf, start) ELSE wf.next = NoDay

\* The cycles lie before the next one, and none in the future.
CyclesOrdered ==
  /\ Increasing(cycles)
  /\ \A i \in DOMAIN cycles : cycles[i] <= today /\ (wf.next # NoDay => cycles[i] < wf.next)

\* A session that builds is alone, has loaded what is committed, and continues
\* the cycles in order.
SessionOrdered(s) ==
  Busy(s) =>
    LET b == session[s] IN
    /\ \A q \in Sessions : Busy(q) => q = s
    /\ b.loaded = wf /\ b.start = start /\ HasTasks(start)
    /\ b.wf.unit = wf.unit /\ b.wf.status # "Draft"
    /\ b.wf.next = NextDate(b.wf, start)
    /\ Increasing(b.dates)
    /\ \A i \in DOMAIN b.dates : b.dates[i] <= today /\ b.dates[i] < b.wf.next
    /\ \A i \in DOMAIN cycles : /\ cycles[i] < b.wf.next
                                /\ \A j \in DOMAIN b.dates : cycles[i] < b.dates[j]

\* The type of a session that builds.
Template == [TemplateTasks -> StartDates \cup {NoDay}]
BuildingType ==
  [pc : {"building"}, loaded : WorkflowRow, start : Template, wf : WorkflowRow,
   dates : Seq(Nat \ {NoDay}), posted : BOOLEAN]

SessionsTyped == session \in [Sessions -> {NoSession} \cup BuildingType]

RowsTyped ==
  /\ today \in Nat /\ cronDay \in 0..today /\ requests \in 0..MaxRequests
  /\ wf \in WorkflowRow /\ start \in Template
  /\ current \in BOOLEAN /\ cycles \in Seq(Nat \ {NoDay})

IInv ==
  /\ RowsTyped
  /\ SessionsTyped
  /\ RowOrdered
  /\ CyclesOrdered
  /\ \A s \in Sessions : SessionOrdered(s)

----------------------------------------------------------------------------
(* Dates *)

\* The order of days is well founded.
LEMMA DaysWellFounded == IsWellFoundedOn({ss \in Nat \X Nat : ss[1] < ss[2]}, Nat)
PROOF BY NatLessThanWellFounded, Zenon DEF OpToRel

LEMMA LeastDay ==
  ASSUME NEW S \in SUBSET Nat, S # {}
  PROVE  \E m \in S : \A e \in S : m <= e
PROOF
<1> DEFINE R == {ss \in Nat \X Nat : ss[1] < ss[2]}
<1>1. IsWellFoundedOn(R, Nat)
  BY DaysWellFounded
<1> HIDE DEF R
<1>2. PICK m \in S : \A e \in S : ~ (<<e, m>> \in R)
  BY <1>1, WFMin
<1>3. \A e \in S : e < m => <<e, m>> \in R
  BY DEF R
<1>4. \A e \in S : ~(e < m)
  BY <1>2, <1>3
<1>5. \A e \in S : m <= e
  <2> TAKE e \in S
  <2>1. e \in Nat /\ m \in Nat
    OBVIOUS
  <2> QED BY <2>1, <1>4
<1> QED BY <1>5

LEMMA MinStartIsChosen ==
  ASSUME NEW st \in Template, HasTasks(st)
  PROVE  MinStart(st) \in StartDates
PROOF
<1>1. Chosen(st) \subseteq StartDates
  BY DEF Chosen, Template
<1>2. Chosen(st) \in SUBSET Nat
  BY <1>1, RecurrenceAssumption
<1>3. PICK d \in Chosen(st) : TRUE
  BY DEF HasTasks
<1>4. \E m \in Chosen(st) : \A e \in Chosen(st) : m <= e
  BY <1>2, <1>3, LeastDay
<1>5. MinStart(st) \in Chosen(st)
  BY <1>4 DEF MinStart
<1> QED BY <1>1, <1>5

LEMMA NextDateIsDay ==
  ASSUME Regular, NEW st \in Template, HasTasks(st), NEW w \in WorkflowRow
  PROVE  NextDate(w, st) \in Nat \ {NoDay}
PROOF
<1>1. w.unit \in WorkflowUnits /\ w.multiplier \in Nat
  BY DEF WorkflowRow
<1>2. MinStart(st) \in StartDates
  BY MinStartIsChosen
<1> QED BY <1>1, <1>2 DEF Regular, NextDate

\* One more cycle moves the date on.
LEMMA AdvanceMovesOn ==
  ASSUME Regular, NEW st \in Template, HasTasks(st), NEW w \in WorkflowRow
  PROVE  /\ Advance(w, st) \in WorkflowRow
         /\ Advance(w, st).unit = w.unit /\ Advance(w, st).status = w.status
         /\ Advance(w, st).next = NextDate(Advance(w, st), st)
         /\ Advance(w, st).next > NextDate(w, st)
PROOF
<1> DEFINE n == [w EXCEPT !.multiplier = @ + 1]
<1>1. n \in WorkflowRow /\ n.unit = w.unit /\ n.status = w.status /\ n.multiplier = w.multiplier + 1
  BY DEF WorkflowRow
<1>2. NextDate(n, st) \in Nat \ {NoDay}
  BY <1>1, NextDateIsDay
<1>3. Advance(w, st) = [n EXCEPT !.next = NextDate(n, st)]
  BY DEF Advance
<1> HIDE DEF n
<1>4. /\ Advance(w, st) \in WorkflowRow
      /\ Advance(w, st).unit = n.unit /\ Advance(w, st).status = n.status
      /\ Advance(w, st).multiplier = n.multiplier
      /\ Advance(w, st).next = NextDate(n, st)
  BY <1>1, <1>2, <1>3 DEF WorkflowRow
<1>5. NextDate(Advance(w, st), st) = NextDate(n, st)
  BY <1>4 DEF NextDate
<1>6. NextDate(n, st) > NextDate(w, st)
  <2>1. MinStart(st) \in StartDates
    BY MinStartIsChosen
  <2>2. w.unit \in WorkflowUnits /\ w.multiplier \in Nat
    BY DEF WorkflowRow
  <2>3. AdjustedDate(w.unit, MinStart(st), w.multiplier + 1)
          >= AdjustedDate(w.unit, MinStart(st), w.multiplier) + ((w.multiplier + 1) - w.multiplier)
    BY <2>1, <2>2 DEF Regular
  <2>4. NextDate(w, st) \in Nat /\ NextDate(n, st) \in Nat
    BY <1>2, NextDateIsDay
  <2> QED BY <2>2, <2>3, <2>4, <1>1 DEF NextDate
<1> QED BY <1>1, <1>4, <1>5, <1>6

\* A recalculated Active workflow is on the next occurrence after today.
LEMMA RecalculatedIsNext ==
  ASSUME Regular, NEW st \in Template, NEW w \in WorkflowRow, today \in Nat
  PROVE  /\ Recalculated(w, st) \in WorkflowRow
         /\ Recalculated(w, st).unit = w.unit /\ Recalculated(w, st).status = w.status
         /\ w.status # "Active" => Recalculated(w, st) = w
         /\ w.status = "Active" /\ ~HasTasks(st) => Recalculated(w, st).next = NoDay
         /\ w.status = "Active" /\ HasTasks(st) =>
              /\ Recalculated(w, st).next = NextDate(Recalculated(w, st), st)
              /\ Recalculated(w, st).next > today
PROOF
<1> DEFINE R == Recalculated(w, st)
<1>1. CASE w.status # "Active"
  BY <1>1 DEF Recalculated
<1>2. CASE w.status = "Active" /\ ~HasTasks(st)
  <2>1. R = [w EXCEPT !.multiplier = 0, !.next = NoDay]
    BY <1>2 DEF Recalculated
  <2> HIDE DEF R
  <2>2. /\ R \in WorkflowRow /\ R.unit = w.unit /\ R.status = w.status
        /\ R.next = NoDay
    BY <2>1 DEF WorkflowRow, NoDay
  <2> QED BY <1>2, <2>2 DEF R
<1>3. CASE w.status = "Active" /\ HasTasks(st) /\ MinStart(st) > today
  <2>1. R = [w EXCEPT !.multiplier = 0, !.next = MinStart(st)]
    BY <1>3 DEF Recalculated
  <2>2. MinStart(st) \in StartDates /\ MinStart(st) \in Nat
    BY <1>3, MinStartIsChosen, RecurrenceAssumption
  <2> HIDE DEF R
  <2>3. /\ R \in WorkflowRow /\ R.unit = w.unit /\ R.status = w.status
        /\ R.multiplier = 0 /\ R.next = MinStart(st)
    BY <2>1, <2>2 DEF WorkflowRow
  <2>4. w.unit \in WorkflowUnits
    BY DEF WorkflowRow
  <2>5. NextDate(R, st) = MinStart(st)
    BY <2>2, <2>3, <2>4 DEF NextDate, Regular
  <2> QED BY <1>3, <2>3, <2>5 DEF R
<1>4. CASE w.status = "Active" /\ HasTasks(st) /\ ~(MinStart(st) > today)
  <2> DEFINE date(k) == AdjustedDate(w.unit, MinStart(st), k)
             k1 == FirstAfter(w, st, today)
  <2>1. MinStart(st) \in StartDates /\ w.unit \in WorkflowUnits
    BY <1>4, MinStartIsChosen DEF WorkflowRow
  <2>2. \A k \in Nat : date(k) \in Nat \ {NoDay}
    BY <2>1 DEF Regular
  <2>3. date(0) = MinStart(st) /\ date(0) <= today
    BY <1>4, <2>1, <2>2 DEF Regular
  <2>4. date(today + 1) > today
    <3>1. date(today + 1) >= date(0) + ((today + 1) - 0)
      BY <2>1 DEF Regular
    <3> QED BY <2>2, <3>1
  <2>5. \E k \in 1 .. today + 1 : date(k) > today /\ \A j \in 1 .. k - 1 : date(j) <= today
    <3> DEFINE S == {k \in 1 .. today + 1 : date(k) > today}
    <3>1. S \in SUBSET Nat /\ today + 1 \in S
      BY <2>4
    <3>2. PICK m \in S : \A k \in S : m <= k
      BY <3>1, LeastDay
    <3>3. \A j \in 1 .. m - 1 : date(j) <= today
      BY <2>2, <3>2
    <3> QED BY <3>2, <3>3
  <2>6. k1 \in 1 .. today + 1 /\ date(k1) > today
    BY <2>5 DEF FirstAfter
  <2>7. R = [w EXCEPT !.multiplier = k1, !.next = date(k1)]
    BY <1>4 DEF Recalculated
  <2>8. k1 \in Nat /\ date(k1) \in Nat
    BY <2>2, <2>6
  <2> HIDE DEF date, k1, R
  <2>9. /\ R \in WorkflowRow /\ R.unit = w.unit /\ R.status = w.status
        /\ R.multiplier = k1 /\ R.next = date(k1)
    BY <2>7, <2>8 DEF WorkflowRow
  <2>10. NextDate(R, st) = date(k1)
    BY <2>9 DEF NextDate, date
  <2> QED BY <1>4, <2>6, <2>9, <2>10 DEF R
<1> QED BY <1>1, <1>2, <1>3, <1>4

----------------------------------------------------------------------------
(* Sequences of dates *)

LEMMA IncreasingConcat ==
  ASSUME NEW c \in Seq(Nat \ {NoDay}), NEW d \in Seq(Nat \ {NoDay}), Increasing(c), Increasing(d),
         \A i \in DOMAIN c, j \in DOMAIN d : c[i] < d[j]
  PROVE  /\ c \o d \in Seq(Nat \ {NoDay})
         /\ Increasing(c \o d)
         /\ \A k \in DOMAIN (c \o d) : \/ \E i \in DOMAIN c : (c \o d)[k] = c[i]
                                     \/ \E j \in DOMAIN d : (c \o d)[k] = d[j]
PROOF
<1>1. c \o d \in Seq(Nat \ {NoDay}) /\ DOMAIN (c \o d) = 1 .. Len(c) + Len(d)
  OBVIOUS
<1>2. \A k \in 1 .. Len(c) + Len(d) : (c \o d)[k] = IF k <= Len(c) THEN c[k] ELSE d[k - Len(c)]
  OBVIOUS
<1>3. DOMAIN c = 1 .. Len(c) /\ DOMAIN d = 1 .. Len(d) /\ Len(c) \in Nat /\ Len(d) \in Nat
  OBVIOUS
<1>4. \A k \in 1 .. Len(c) + Len(d) : ~(k <= Len(c)) => k - Len(c) \in 1 .. Len(d)
  BY <1>3
<1>5. Increasing(c \o d)
  BY <1>1, <1>2, <1>3, <1>4 DEF Increasing
<1>6. \A k \in DOMAIN (c \o d) : \/ \E i \in DOMAIN c : (c \o d)[k] = c[i]
                                \/ \E j \in DOMAIN d : (c \o d)[k] = d[j]
  BY <1>1, <1>2, <1>3, <1>4
<1> QED BY <1>1, <1>5, <1>6

LEMMA IncreasingAppend ==
  ASSUME NEW c \in Seq(Nat \ {NoDay}), NEW d \in Nat \ {NoDay}, Increasing(c),
         \A i \in DOMAIN c : c[i] < d
  PROVE  /\ Append(c, d) \in Seq(Nat \ {NoDay})
         /\ Increasing(Append(c, d))
         /\ \A k \in DOMAIN Append(c, d) : \/ \E i \in DOMAIN c : Append(c, d)[k] = c[i]
                                          \/ Append(c, d)[k] = d
PROOF
<1>1. /\ Append(c, d) \in Seq(Nat \ {NoDay}) /\ DOMAIN Append(c, d) = 1 .. Len(c) + 1
      /\ DOMAIN c = 1 .. Len(c) /\ Len(c) \in Nat
  OBVIOUS
<1>2. \A k \in 1 .. Len(c) + 1 : Append(c, d)[k] = IF k <= Len(c) THEN c[k] ELSE d
  OBVIOUS
<1>3. Increasing(Append(c, d))
  BY <1>1, <1>2 DEF Increasing
<1> QED BY <1>1, <1>2, <1>3

----------------------------------------------------------------------------
(* Sessions *)

LEMMA BusyIsBuilding ==
  ASSUME SessionsTyped, NEW s \in Sessions, Busy(s)
  PROVE  session[s] \in BuildingType
PROOF BY DEF SessionsTyped, Busy, NoSession

\* Nobody builds while a request is served.
LEMMA ServingIsIdle ==
  ASSUME Orderly, Serving
  PROVE  \A s \in Sessions : ~Busy(s)
PROOF BY DEF Orderly, Serving

\* A request that is over at once.
LEMMA StillIdle ==
  ASSUME \A s \in Sessions : ~Busy(s), session' = session
  PROVE  \A s \in Sessions : SessionOrdered(s)'
PROOF BY DEF SessionOrdered, Busy

\* A session that begins to build a workflow with a date after its cycles.
LEMMA SessionBegins ==
  ASSUME IInv, \A q \in Sessions : ~Busy(q), NEW s \in Sessions, NEW w \in WorkflowRow,
         NEW p \in BOOLEAN, w.unit = wf.unit, w.status # "Draft", HasTasks(start),
         w.next = NextDate(w, start), \A i \in DOMAIN cycles : cycles[i] < w.next,
         session' = [session EXCEPT ![s] = Building(w, <<>>, p)],
         UNCHANGED <<today, wf, start, cycles>>
  PROVE  /\ SessionsTyped'
         /\ \A q \in Sessions : SessionOrdered(q)'
PROOF
<1> DEFINE b == Building(w, <<>>, p)
<1>1. b \in BuildingType
  BY DEF Building, BuildingType, IInv, RowsTyped
<1>2. /\ b.pc # "idle" /\ b.loaded = wf /\ b.start = start /\ b.wf = w /\ b.dates = <<>>
  BY DEF Building
<1> HIDE DEF b
<1>3. SessionsTyped'
  BY <1>1 DEF IInv, SessionsTyped, b
<1>4. session'[s] = b /\ \A q \in Sessions : q # s => session'[q] = session[q]
  BY DEF IInv, SessionsTyped, b
<1>5. \A q \in Sessions : Busy(q)' => q = s
  BY <1>4 DEF Busy
<1>6. SessionOrdered(s)'
  <2>1. Increasing(<<>>) /\ DOMAIN <<>> = {}
    BY DEF Increasing
  <2>2. Busy(s)' /\ session'[s] = b /\ start' = start /\ wf' = wf /\ cycles' = cycles /\ today' = today
    BY <1>2, <1>4 DEF Busy
  <2> QED BY <1>2, <1>5, <2>1, <2>2 DEF SessionOrdered
<1> QED BY <1>3, <1>5, <1>6 DEF SessionOrdered

----------------------------------------------------------------------------
(* The invariant holds at first, and every action preserves it *)

LEMMA InitIInv ==
  ASSUME Orderly, Init
  PROVE  IInv
PROOF
<1>1. RowsTyped
  <2>1. wf \in WorkflowRow
    BY DEF Init, WorkflowRow, NoDay
  <2>2. today \in Nat /\ cronDay \in 0..today /\ requests \in 0..MaxRequests
    BY RecurrenceAssumption DEF Init
  <2>3. start \in Template /\ current \in BOOLEAN /\ cycles = <<>>
    BY DEF Init, Template
  <2>4. <<>> \in Seq(Nat \ {NoDay})
    OBVIOUS
  <2> QED BY <2>1, <2>2, <2>3, <2>4 DEF RowsTyped
<1>2. SessionsTyped
  BY DEF Init, SessionsTyped
<1>3. RowOrdered
  BY DEF Init, RowOrdered
<1>4. CyclesOrdered
  BY DEF Init, CyclesOrdered, Increasing
<1>5. \A s \in Sessions : SessionOrdered(s)
  BY DEF Init, SessionOrdered, Busy, NoSession
<1> QED BY <1>1, <1>2, <1>3, <1>4, <1>5 DEF IInv

LEMMA NextDayOrdered ==
  ASSUME Orderly, IInv, NextDay
  PROVE  IInv'
PROOF
<1>1. today' \in Nat /\ today' = today + 1 /\ cronDay' \in 0..today'
  BY DEF NextDay, IInv, RowsTyped
<1>2. UNCHANGED <<wf, start, current, cycles, session, cronDay, requests>>
  BY DEF NextDay
<1>3. RowsTyped' /\ SessionsTyped' /\ RowOrdered'
  BY <1>1, <1>2 DEF IInv, RowsTyped, SessionsTyped, RowOrdered
<1>4. \A i \in DOMAIN cycles : cycles[i] \in Nat
  BY DEF IInv, RowsTyped
<1>5. CyclesOrdered'
  BY <1>1, <1>2, <1>4 DEF IInv, RowsTyped, CyclesOrdered
<1>6. \A s \in Sessions : SessionOrdered(s)'
  <2> SUFFICES ASSUME NEW s \in Sessions, Busy(s)
               PROVE  SessionOrdered(s)'
    BY <1>2 DEF SessionOrdered, Busy
  <2>1. session[s].dates \in Seq(Nat \ {NoDay})
    BY BusyIsBuilding DEF IInv, BuildingType
  <2>2. SessionOrdered(s)
    BY DEF IInv
  <2>3. \A i \in DOMAIN session[s].dates : session[s].dates[i] \in Nat /\ session[s].dates[i] <= today'
    BY <2>1, <2>2, <1>1 DEF SessionOrdered, IInv, RowsTyped
  <2>4. \A q \in Sessions : Busy(q)' => q = s
    BY <2>2, <1>2 DEF SessionOrdered, Busy
  <2> QED BY <1>2, <2>2, <2>3, <2>4 DEF SessionOrdered
<1> QED BY <1>3, <1>5, <1>6 DEF IInv

LEMMA CronOrdered ==
  ASSUME Orderly, IInv, Cron
  PROVE  IInv'
PROOF
<1>1. \A s \in Sessions : ~Busy(s)
  BY ServingIsIdle DEF Cron
<1>2. cronDay' = today /\ UNCHANGED <<today, wf, start, current, cycles, requests>>
  BY DEF Cron
<1>3. RowsTyped' /\ RowOrdered' /\ CyclesOrdered'
  BY <1>2 DEF IInv, RowsTyped, RowOrdered, CyclesOrdered
<1>4. SessionsTyped' /\ \A s \in Sessions : SessionOrdered(s)'
  <2>1. CASE session' = session
    BY <1>1, <2>1, StillIdle DEF IInv, SessionsTyped
  <2>2. CASE /\ wf.recurrences /\ wf.next # NoDay /\ wf.next <= today
             /\ session' = [session EXCEPT !["cron"] = Building(wf, <<>>, FALSE)]
    <3>1. wf \in WorkflowRow /\ wf.status # "Draft" /\ HasTasks(start) /\ wf.next = NextDate(wf, start)
      BY <2>2 DEF IInv, RowsTyped, RowOrdered
    <3>2. \A i \in DOMAIN cycles : cycles[i] < wf.next
      BY <2>2 DEF IInv, CyclesOrdered
    <3>3. "cron" \in Sessions
      BY DEF Sessions
    <3> QED BY <1>1, <1>2, <2>2, <3>1, <3>2, <3>3, SessionBegins
  <2> QED BY <2>1, <2>2 DEF Cron
<1> QED BY <1>3, <1>4 DEF IInv

LEMMA ActivateOrdered ==
  ASSUME Orderly, IInv, Activate
  PROVE  IInv'
PROOF
<1> DEFINE a == [wf EXCEPT !.status = "Active", !.recurrences = TRUE]
           w == WithFirstDate(a)
<1>1. \A s \in Sessions : ~Busy(s)
  BY ServingIsIdle DEF Activate, Request
<1>2. /\ requests' \in 0..MaxRequests /\ UNCHANGED <<today, wf, start, current, cycles, cronDay>>
      /\ wf.status = "Draft" /\ HasTasks(start) /\ wf \in WorkflowRow /\ start \in Template
      /\ session' = [session EXCEPT !["web"] = Building(w, <<>>, FALSE)]
  BY RecurrenceAssumption DEF Activate, Request, IInv, RowsTyped
<1>3. RowsTyped' /\ RowOrdered' /\ CyclesOrdered'
  BY <1>2 DEF IInv, RowsTyped, RowOrdered, CyclesOrdered
<1>4. a \in WorkflowRow /\ a.unit = wf.unit /\ a.status = "Active" /\ a.next = NoDay
  BY <1>2 DEF WorkflowRow, IInv, RowOrdered
<1>5. NextDate(a, start) \in Nat \ {NoDay}
  BY <1>2, <1>4, NextDateIsDay DEF Orderly
<1>6. w = [a EXCEPT !.next = NextDate(a, start)]
  BY <1>4 DEF WithFirstDate
<1> HIDE DEF a, w
<1>7. /\ w \in WorkflowRow /\ w.unit = wf.unit /\ w.status = "Active"
      /\ w.multiplier = a.multiplier /\ w.next = NextDate(a, start)
  BY <1>4, <1>5, <1>6 DEF WorkflowRow
<1>8. w.next = NextDate(w, start)
  BY <1>4, <1>7 DEF NextDate
<1>9. \A i \in DOMAIN cycles : cycles[i] < w.next
  BY <1>2 DEF IInv, RowOrdered
<1>10. "web" \in Sessions
  BY DEF Sessions
<1>11. SessionsTyped' /\ \A s \in Sessions : SessionOrdered(s)'
  BY <1>1, <1>2, <1>7, <1>8, <1>9, <1>10, SessionBegins
<1> QED BY <1>3, <1>11 DEF IInv

LEMMA PostCycleOrdered ==
  ASSUME Orderly, IInv, PostCycle
  PROVE  IInv'
PROOF
<1> DEFINE a == [wf EXCEPT !.status = "Active"]
           v == WithFirstDate(a)
           w == Advance(v, start)
<1>1. \A s \in Sessions : ~Busy(s)
  BY ServingIsIdle DEF PostCycle, Request
<1>2. /\ requests' \in 0..MaxRequests /\ UNCHANGED <<today, wf, start, current, cycles, cronDay>>
      /\ wf \in WorkflowRow /\ start \in Template
      /\ wf.next # NoDay \/ HasTasks(start)
  BY RecurrenceAssumption DEF PostCycle, Request, IInv, RowsTyped
<1>3. RowsTyped' /\ RowOrdered' /\ CyclesOrdered'
  BY <1>2 DEF IInv, RowsTyped, RowOrdered, CyclesOrdered
<1>4. HasTasks(start)
  BY <1>2 DEF IInv, RowOrdered
<1>5. session' = [session EXCEPT !["web"] = Building(w, <<>>, TRUE)]
  BY <1>4 DEF PostCycle
<1>6. /\ a \in WorkflowRow /\ a.unit = wf.unit /\ a.status = "Active"
      /\ a.multiplier = wf.multiplier /\ a.next = wf.next
  BY <1>2 DEF WorkflowRow
<1>7. NextDate(a, start) \in Nat \ {NoDay} /\ NextDate(a, start) = NextDate(wf, start)
  BY <1>2, <1>4, <1>6, NextDateIsDay DEF Orderly, NextDate
<1> HIDE DEF a
<1>8. /\ v \in WorkflowRow /\ v.unit = wf.unit /\ v.status = "Active"
      /\ v.multiplier = a.multiplier
  <2>1. CASE a.next = NoDay
    <3>1. v = [a EXCEPT !.next = NextDate(a, start)]
      BY <2>1 DEF WithFirstDate
    <3> QED BY <3>1, <1>6, <1>7 DEF WorkflowRow
  <2>2. CASE a.next # NoDay
    BY <2>2, <1>6 DEF WithFirstDate
  <2> QED BY <2>1, <2>2
<1> HIDE DEF v
<1>9. NextDate(v, start) = NextDate(wf, start)
  BY <1>6, <1>8 DEF NextDate
<1>10. /\ w \in WorkflowRow /\ w.unit = wf.unit /\ w.status = "Active"
       /\ w.next = NextDate(w, start) /\ w.next > NextDate(wf, start)
  BY <1>2, <1>4, <1>8, <1>9, AdvanceMovesOn DEF Orderly
<1> HIDE DEF w
<1>11. \A i \in DOMAIN cycles : cycles[i] < w.next
  <2> SUFFICES ASSUME NEW i \in DOMAIN cycles PROVE cycles[i] < w.next
    OBVIOUS
  <2>1. wf.next = NextDate(wf, start) /\ wf.next # NoDay
    BY <1>4, <1>6, <1>7 DEF IInv, RowOrdered
  <2>2. cycles[i] < wf.next /\ cycles[i] \in Nat
    BY <2>1 DEF IInv, CyclesOrdered, RowsTyped
  <2>3. w.next \in Nat /\ wf.next \in Nat
    BY <1>2, <1>10 DEF WorkflowRow
  <2> QED BY <2>1, <2>2, <2>3, <1>10
<1>12. "web" \in Sessions
  BY DEF Sessions
<1>13. SessionsTyped' /\ \A s \in Sessions : SessionOrdered(s)'
  BY <1>1, <1>2, <1>4, <1>5, <1>10, <1>11, <1>12, SessionBegins
<1> QED BY <1>3, <1>13 DEF IInv

LEMMA BuildOrdered ==
  ASSUME Orderly, IInv, NEW s \in Sessions, Build(s)
  PROVE  IInv'
PROOF
<1> DEFINE b == session[s]
           w == Advance(b.wf, start)
           d == NextDate(b.wf, start)
           c == [b EXCEPT !.wf = w, !.dates = Append(@, d)]
<1>1. Busy(s) /\ b \in BuildingType /\ SessionOrdered(s)
  BY BusyIsBuilding DEF Build, IInv
<1>2. UNCHANGED <<today, wf, start, current, cycles, cronDay, requests>>
  BY DEF Build
<1>3. RowsTyped' /\ RowOrdered' /\ CyclesOrdered'
  BY <1>2 DEF IInv, RowsTyped, RowOrdered, CyclesOrdered
<1>4. /\ b.start = start /\ b.loaded = wf /\ HasTasks(start) /\ b.wf \in WorkflowRow
      /\ b.wf.unit = wf.unit /\ b.wf.status # "Draft"
      /\ b.wf.next = d /\ b.wf.next <= today /\ b.dates \in Seq(Nat \ {NoDay})
      /\ start \in Template /\ today \in Nat /\ cycles \in Seq(Nat \ {NoDay})
  BY <1>1 DEF SessionOrdered, Build, BuildingType, IInv, RowsTyped
<1>5. session' = [session EXCEPT ![s] = c]
  BY <1>4 DEF Build
<1>6. /\ w \in WorkflowRow /\ w.unit = wf.unit /\ w.status # "Draft"
      /\ w.next = NextDate(w, start) /\ w.next > d
  BY <1>4, AdvanceMovesOn DEF Orderly
<1>7. d \in Nat \ {NoDay}
  BY <1>4, NextDateIsDay DEF Orderly
<1>8. \A i \in DOMAIN b.dates : b.dates[i] <= today /\ b.dates[i] < d
  BY <1>1, <1>4 DEF SessionOrdered
<1>9. /\ Append(b.dates, d) \in Seq(Nat \ {NoDay}) /\ Increasing(Append(b.dates, d))
      /\ \A k \in DOMAIN Append(b.dates, d) :
           \/ \E i \in DOMAIN b.dates : Append(b.dates, d)[k] = b.dates[i]
           \/ Append(b.dates, d)[k] = d
  BY <1>1, <1>4, <1>7, <1>8, IncreasingAppend DEF SessionOrdered
<1>10. \A i \in DOMAIN cycles : /\ cycles[i] < d
                                 /\ \A j \in DOMAIN b.dates : cycles[i] < b.dates[j]
  BY <1>1, <1>4 DEF SessionOrdered
<1>11. \A q \in Sessions : Busy(q) => q = s
  BY <1>1 DEF SessionOrdered
<1>12. /\ c \in BuildingType /\ c.pc = "building" /\ c.loaded = b.loaded /\ c.start = b.start
       /\ c.wf = w /\ c.dates = Append(b.dates, d)
  <2> HIDE DEF w, d
  <2> QED BY <1>1, <1>6, <1>9 DEF BuildingType
<1> HIDE DEF c, w, d, b
<1>13. SessionsTyped'
  BY <1>5, <1>12 DEF IInv, SessionsTyped
<1>14. session'[s] = c /\ \A q \in Sessions : q # s => session'[q] = session[q]
  BY <1>5 DEF IInv, SessionsTyped
<1>15. \A q \in Sessions : Busy(q)' => q = s
  BY <1>11, <1>14 DEF Busy
<1>16. \A i \in DOMAIN c.dates : c.dates[i] <= today /\ c.dates[i] < w.next
  <2> SUFFICES ASSUME NEW i \in DOMAIN c.dates PROVE c.dates[i] <= today /\ c.dates[i] < w.next
    OBVIOUS
  <2>1. c.dates[i] <= d /\ c.dates[i] \in Nat
    <3>1. CASE \E k \in DOMAIN b.dates : c.dates[i] = b.dates[k]
      <4>1. PICK k \in DOMAIN b.dates : c.dates[i] = b.dates[k]
        BY <3>1
      <4>2. b.dates[k] < d /\ b.dates[k] \in Nat
        BY <1>4, <1>8
      <4> QED BY <4>1, <4>2, <1>7
    <3>2. CASE c.dates[i] = d
      BY <3>2, <1>7
    <3> QED BY <3>1, <3>2, <1>9, <1>12
  <2>2. w.next \in Nat /\ d <= today
    BY <1>4, <1>6 DEF WorkflowRow
  <2> QED BY <2>1, <2>2, <1>4, <1>6, <1>7
<1>17. \A i \in DOMAIN cycles : /\ cycles[i] < w.next
                                 /\ \A j \in DOMAIN c.dates : cycles[i] < c.dates[j]
  <2> SUFFICES ASSUME NEW i \in DOMAIN cycles
               PROVE  cycles[i] < w.next /\ \A j \in DOMAIN c.dates : cycles[i] < c.dates[j]
    OBVIOUS
  <2>1. cycles[i] \in Nat /\ w.next \in Nat
    BY <1>4, <1>6 DEF WorkflowRow
  <2>2. cycles[i] < w.next
    BY <2>1, <1>6, <1>7, <1>10
  <2>3. \A j \in DOMAIN c.dates : cycles[i] < c.dates[j]
    BY <1>9, <1>10, <1>12
  <2> QED BY <2>2, <2>3
<1>18. SessionOrdered(s)'
  <2>1. Busy(s)' /\ session'[s] = c /\ start' = start /\ wf' = wf /\ cycles' = cycles /\ today' = today
    BY <1>2, <1>12, <1>14 DEF Busy
  <2>2. c.loaded = wf /\ c.start = start /\ c.wf = w /\ Increasing(c.dates)
    BY <1>4, <1>9, <1>12
  <2> QED BY <2>1, <2>2, <1>4, <1>6, <1>15, <1>16, <1>17 DEF SessionOrdered
<1> QED BY <1>3, <1>13, <1>15, <1>18 DEF IInv, SessionOrdered

LEMMA CommitOrdered ==
  ASSUME Orderly, IInv, NEW s \in Sessions, Commit(s)
  PROVE  IInv'
PROOF
<1> DEFINE b == session[s]
           c == cycles \o b.dates
<1>1. Busy(s) /\ b \in BuildingType /\ SessionOrdered(s)
  BY BusyIsBuilding DEF Commit, IInv
<1>2. /\ b.start = start /\ b.loaded = wf /\ HasTasks(start) /\ b.wf \in WorkflowRow
      /\ b.wf.unit = wf.unit /\ b.wf.status # "Draft" /\ b.wf.next = NextDate(b.wf, start)
      /\ b.dates \in Seq(Nat \ {NoDay}) /\ Increasing(b.dates) /\ b.posted \in BOOLEAN
      /\ start \in Template /\ today \in Nat /\ cycles \in Seq(Nat \ {NoDay})
      /\ wf \in WorkflowRow /\ Increasing(cycles)
  BY <1>1 DEF SessionOrdered, BuildingType, IInv, RowsTyped, CyclesOrdered
<1>3. /\ wf' = [k \in DOMAIN wf |-> IF b.wf[k] # b.loaded[k] THEN b.wf[k] ELSE wf[k]]
      /\ cycles' = c /\ session' = [session EXCEPT ![s] = NoSession]
      /\ current' = (current \/ b.posted \/ b.dates # <<>>)
      /\ UNCHANGED <<today, start, cronDay, requests>>
  BY DEF Commit
<1>4. wf' = b.wf
  <2>1. DOMAIN wf = DOMAIN b.wf /\ b.wf = [k \in DOMAIN b.wf |-> b.wf[k]]
    BY <1>2 DEF WorkflowRow
  <2>2. wf' = [k \in DOMAIN b.wf |-> b.wf[k]]
    BY <1>2, <1>3, <2>1
  <2> QED BY <2>1, <2>2
<1>5. \A i \in DOMAIN cycles : /\ cycles[i] <= today /\ cycles[i] < b.wf.next
                                /\ \A j \in DOMAIN b.dates : cycles[i] < b.dates[j]
  BY <1>1, <1>2 DEF IInv, CyclesOrdered, SessionOrdered
<1>6. \A j \in DOMAIN b.dates : b.dates[j] <= today /\ b.dates[j] < b.wf.next
  BY <1>1, <1>2 DEF SessionOrdered
<1>7. /\ c \in Seq(Nat \ {NoDay}) /\ Increasing(c)
      /\ \A k \in DOMAIN c : \/ \E i \in DOMAIN cycles : c[k] = cycles[i]
                             \/ \E j \in DOMAIN b.dates : c[k] = b.dates[j]
  BY <1>2, <1>5, IncreasingConcat
<1> HIDE DEF b, c
<1>8. RowsTyped'
  <2>1. current' \in BOOLEAN
    BY <1>2, <1>3 DEF IInv, RowsTyped
  <2> QED BY <2>1, <1>2, <1>3, <1>4, <1>7 DEF IInv, RowsTyped
<1>9. SessionsTyped'
  BY <1>3 DEF IInv, SessionsTyped
<1>10. RowOrdered'
  BY <1>2, <1>3, <1>4 DEF RowOrdered
<1>11. CyclesOrdered'
  <2>1. \A k \in DOMAIN c : c[k] <= today /\ c[k] < b.wf.next
    BY <1>5, <1>6, <1>7
  <2> QED BY <2>1, <1>3, <1>4, <1>7 DEF CyclesOrdered
<1>12. \A q \in Sessions : ~Busy(q)'
  <2>1. \A q \in Sessions : Busy(q) => q = s
    BY <1>1 DEF SessionOrdered
  <2>2. session'[s] = NoSession /\ \A q \in Sessions : q # s => session'[q] = session[q]
    BY <1>3 DEF IInv, SessionsTyped
  <2> QED BY <2>1, <2>2 DEF Busy, NoSession
<1>13. \A q \in Sessions : SessionOrdered(q)'
  BY <1>12 DEF SessionOrdered
<1> QED BY <1>8, <1>9, <1>10, <1>11, <1>13 DEF IInv

\* A request that is served at once, and leaves the row in agreement with the
\* tasks and after the cycles.
LEMMA ServedAtOnce ==
  ASSUME IInv, \A s \in Sessions : ~Busy(s), UNCHANGED <<today, cycles, session, cronDay>>,
         requests' \in 0..MaxRequests, current' \in BOOLEAN, start' \in Template,
         wf' \in WorkflowRow, RowOrdered',
         \A i \in DOMAIN cycles : wf'.next # NoDay => cycles[i] < wf'.next
  PROVE  IInv'
PROOF
<1>1. RowsTyped' /\ SessionsTyped' /\ CyclesOrdered'
  BY DEF IInv, RowsTyped, SessionsTyped, CyclesOrdered
<1>2. \A s \in Sessions : SessionOrdered(s)'
  BY StillIdle
<1> QED BY <1>1, <1>2 DEF IInv

\* The recalculation of a row that is not Inactive, or whose tasks are not edited.
LEMMA RecalculatedOrdered ==
  ASSUME Orderly, IInv, UNCHANGED cycles, start' \in Template, wf' = Recalculated(wf, start'),
         wf.status = "Inactive" => start' = start
  PROVE  /\ wf' \in WorkflowRow /\ RowOrdered'
         /\ \A i \in DOMAIN cycles : wf'.next # NoDay => cycles[i] < wf'.next
PROOF
<1>1. wf \in WorkflowRow /\ today \in Nat /\ cycles \in Seq(Nat \ {NoDay})
  BY DEF IInv, RowsTyped
<1>2. /\ wf' \in WorkflowRow /\ wf'.status = wf.status
      /\ wf.status # "Active" => wf' = wf
      /\ wf.status = "Active" /\ ~HasTasks(start') => wf'.next = NoDay
      /\ wf.status = "Active" /\ HasTasks(start') => /\ wf'.next = NextDate(wf', start')
                                                    /\ wf'.next > today
  <2> DEFINE st == start'
  <2>1. st \in Template
    OBVIOUS
  <2> HIDE DEF st
  <2>2. /\ Recalculated(wf, st) \in WorkflowRow /\ Recalculated(wf, st).status = wf.status
        /\ wf.status # "Active" => Recalculated(wf, st) = wf
        /\ wf.status = "Active" /\ ~HasTasks(st) => Recalculated(wf, st).next = NoDay
        /\ wf.status = "Active" /\ HasTasks(st) =>
             /\ Recalculated(wf, st).next = NextDate(Recalculated(wf, st), st)
             /\ Recalculated(wf, st).next > today
    BY <1>1, <2>1, RecalculatedIsNext DEF Orderly
  <2> QED BY <2>2 DEF st
<1>3. CASE wf.status = "Active"
  <2>1. RowOrdered'
    BY <1>2, <1>3 DEF RowOrdered
  <2>2. ASSUME NEW i \in DOMAIN cycles, wf'.next # NoDay PROVE cycles[i] < wf'.next
    <3>1. cycles[i] <= today /\ cycles[i] \in Nat /\ wf'.next \in Nat
      BY <1>1, <1>2 DEF IInv, CyclesOrdered, WorkflowRow
    <3>2. wf'.next > today
      BY <1>2, <1>3, <2>2
    <3> QED BY <1>1, <3>1, <3>2
  <2> QED BY <1>2, <2>1, <2>2
<1>4. CASE wf.status = "Draft"
  BY <1>2, <1>4 DEF IInv, RowOrdered, CyclesOrdered
<1>5. CASE wf.status = "Inactive"
  BY <1>2, <1>5 DEF IInv, RowOrdered, CyclesOrdered
<1> QED BY <1>1, <1>3, <1>4, <1>5 DEF WorkflowRow

LEMMA EditTaskOrdered ==
  ASSUME Orderly, IInv, NEW t \in TemplateTasks, NEW d \in StartDates \cup {NoDay}, EditTask(t, d)
  PROVE  IInv'
PROOF
<1>1. /\ \A s \in Sessions : ~Busy(s)
      /\ requests' \in 0..MaxRequests /\ wf.status # "Inactive"
      /\ UNCHANGED <<today, current, cycles, session, cronDay>>
  BY ServingIsIdle, RecurrenceAssumption DEF EditTask, Request, IInv, RowsTyped, Orderly
<1>2. start' \in Template /\ wf' = Recalculated(wf, start')
  BY DEF EditTask, IInv, RowsTyped, Template
<1>3. /\ wf' \in WorkflowRow /\ RowOrdered'
      /\ \A i \in DOMAIN cycles : wf'.next # NoDay => cycles[i] < wf'.next
  BY <1>1, <1>2, RecalculatedOrdered
<1> QED BY <1>1, <1>2, <1>3, ServedAtOnce DEF IInv, RowsTyped

LEMMA EditTaskGroupOrdered ==
  ASSUME Orderly, IInv, EditTaskGroup
  PROVE  IInv'
PROOF
<1>1. /\ \A s \in Sessions : ~Busy(s)
      /\ requests' \in 0..MaxRequests
      /\ UNCHANGED <<today, current, cycles, session, cronDay>>
  BY ServingIsIdle, RecurrenceAssumption DEF EditTaskGroup, Request, IInv, RowsTyped
<1>2. start' \in Template /\ start' = start /\ wf' = Recalculated(wf, start')
  BY DEF EditTaskGroup, IInv, RowsTyped
<1>3. /\ wf' \in WorkflowRow /\ RowOrdered'
      /\ \A i \in DOMAIN cycles : wf'.next # NoDay => cycles[i] < wf'.next
  BY <1>1, <1>2, RecalculatedOrdered
<1> QED BY <1>1, <1>2, <1>3, ServedAtOnce DEF IInv, RowsTyped

\* A change of status from or to Draft apart, RowOrdered looks at other columns.
LEMMA StatusOrdered ==
  ASSUME IInv, UNCHANGED <<cycles, start>>, wf' \in WorkflowRow,
         wf'.unit = wf.unit, wf'.multiplier = wf.multiplier, wf'.next = wf.next,
         wf'.status = "Draft" <=> wf.status = "Draft"
  PROVE  /\ RowOrdered'
         /\ \A i \in DOMAIN cycles : wf'.next # NoDay => cycles[i] < wf'.next
PROOF
<1>1. NextDate(wf', start') = NextDate(wf, start)
  BY DEF NextDate
<1> QED BY <1>1 DEF IInv, RowOrdered, CyclesOrdered

LEMMA PutRecurrencesOrdered ==
  ASSUME Orderly, IInv, NEW b \in BOOLEAN, PutRecurrences(b)
  PROVE  IInv'
PROOF
<1>1. /\ \A s \in Sessions : ~Busy(s)
      /\ requests' \in 0..MaxRequests
      /\ UNCHANGED <<today, start, current, cycles, session, cronDay>>
      /\ wf \in WorkflowRow /\ current \in BOOLEAN /\ start \in Template
  BY ServingIsIdle, RecurrenceAssumption DEF PutRecurrences, Request, IInv, RowsTyped
<1>2. /\ wf' \in WorkflowRow
      /\ wf'.unit = wf.unit /\ wf'.multiplier = wf.multiplier /\ wf'.next = wf.next
      /\ wf'.status = "Draft" <=> wf.status = "Draft"
  <2>1. wf' = IF b THEN [wf EXCEPT !.recurrences = TRUE]
              ELSE WorkflowState([wf EXCEPT !.recurrences = FALSE], current)
    BY DEF PutRecurrences
  <2> QED BY <1>1, <2>1 DEF WorkflowRow, WorkflowState
<1>3. /\ RowOrdered'
      /\ \A i \in DOMAIN cycles : wf'.next # NoDay => cycles[i] < wf'.next
  BY <1>1, <1>2, StatusOrdered
<1> QED BY <1>1, <1>2, <1>3, ServedAtOnce

LEMMA PutCurrentOrdered ==
  ASSUME Orderly, IInv, NEW b \in BOOLEAN, PutCurrent(b)
  PROVE  IInv'
PROOF
<1>1. /\ \A s \in Sessions : ~Busy(s)
      /\ requests' \in 0..MaxRequests
      /\ UNCHANGED <<today, start, cycles, session, cronDay>>
      /\ wf \in WorkflowRow /\ current' \in BOOLEAN /\ start \in Template
  BY ServingIsIdle, RecurrenceAssumption DEF PutCurrent, Request, IInv, RowsTyped
<1>2. /\ wf' \in WorkflowRow
      /\ wf'.unit = wf.unit /\ wf'.multiplier = wf.multiplier /\ wf'.next = wf.next
      /\ wf'.status = "Draft" <=> wf.status = "Draft"
  <2>1. wf' = WorkflowState(wf, b)
    BY DEF PutCurrent
  <2> QED BY <1>1, <2>1 DEF WorkflowRow, WorkflowState
<1>3. /\ RowOrdered'
      /\ \A i \in DOMAIN cycles : wf'.next # NoDay => cycles[i] < wf'.next
  BY <1>1, <1>2, StatusOrdered
<1> QED BY <1>1, <1>2, <1>3, ServedAtOnce

LEMMA StepIInv ==
  ASSUME Orderly, IInv, [Next]_vars
  PROVE  IInv'
PROOF
<1>1. CASE NextDay
  BY <1>1, NextDayOrdered
<1>2. CASE Cron
  BY <1>2, CronOrdered
<1>3. CASE Activate
  BY <1>3, ActivateOrdered
<1>4. CASE PostCycle
  BY <1>4, PostCycleOrdered
<1>5. CASE EditTaskGroup
  BY <1>5, EditTaskGroupOrdered
<1>6. CASE \E s \in Sessions : Build(s) \/ Commit(s)
  BY <1>6, BuildOrdered, CommitOrdered
<1>7. CASE \E t \in TemplateTasks, d \in StartDates \cup {NoDay} : EditTask(t, d)
  BY <1>7, EditTaskOrdered
<1>8. CASE \E b \in BOOLEAN : PutRecurrences(b) \/ PutCurrent(b)
  BY <1>8, PutRecurrencesOrdered, PutCurrentOrdered
<1>9. CASE UNCHANGED vars
  BY <1>9 DEF vars, IInv, RowsTyped, SessionsTyped, RowOrdered, CyclesOrdered, SessionOrdered, Busy
<1> QED BY <1>1, <1>2, <1>3, <1>4, <1>5, <1>6, <1>7, <1>8, <1>9 DEF Next

----------------------------------------------------------------------------
(* What holds for every recurrence whose requests do not overlap *)

\* The invariant itself: a session that builds continues the committed cycles.
THEOREM RecurrenceInvariant ==
  ASSUME Orderly
  PROVE  Spec => []IInv
PROOF
<1>1. Init => IInv
  BY InitIInv
<1>2. IInv /\ [Next]_vars => IInv'
  BY StepIInv
<1> QED BY <1>1, <1>2, PTL DEF Spec

\* Rows and sessions keep their types: build_cycle always finds a date to build for.
THEOREM TypeCorrect ==
  ASSUME Orderly
  PROVE  Spec => []TypeOK
PROOF
<1>1. IInv => TypeOK
  <2> SUFFICES ASSUME IInv PROVE TypeOK
    OBVIOUS
  <2>1. ASSUME NEW s \in Sessions, Busy(s)
        PROVE  /\ session[s].wf \in WorkflowRow /\ session[s].loaded \in WorkflowRow
               /\ session[s].dates \in Seq(Nat \ {NoDay})
               /\ session[s].wf.next # NoDay
    <3>1. session[s] \in BuildingType /\ SessionOrdered(s)
      BY <2>1, BusyIsBuilding DEF IInv
    <3>2. session[s].wf \in WorkflowRow /\ session[s].loaded \in WorkflowRow
          /\ session[s].dates \in Seq(Nat \ {NoDay})
      BY <3>1 DEF BuildingType
    <3>3. session[s].wf.next = NextDate(session[s].wf, start) /\ HasTasks(start) /\ start \in Template
      BY <2>1, <3>1 DEF SessionOrdered, IInv, RowsTyped
    <3>4. NextDate(session[s].wf, start) \in Nat \ {NoDay}
      BY <3>2, <3>3, NextDateIsDay DEF Orderly
    <3> QED BY <3>2, <3>3, <3>4
  <2> QED BY <2>1 DEF TypeOK, IInv, RowsTyped, Template
<1> QED BY <1>1, RecurrenceInvariant, PTL

\* Activation and the cron job start each occurrence once, and in order, for
\* regular dates: whatever is edited between two sessions that build, as long as
\* the workflow is Active, and whichever cycles users start by hand in between.
THEOREM CyclesInOrderCorrect ==
  ASSUME Orderly
  PROVE  Spec => []CyclesInOrder
PROOF
<1>1. IInv => CyclesInOrder
  BY DEF IInv, CyclesOrdered, Increasing, CyclesInOrder
<1> QED BY <1>1, RecurrenceInvariant, PTL

\* build_cycles starts no cycle before its day has come.
THEOREM StartedWhenDueCorrect ==
  ASSUME Orderly
  PROVE  Spec => []StartedWhenDue
PROOF
<1>1. IInv => StartedWhenDue
  BY DEF IInv, CyclesOrdered, StartedWhenDue
<1> QED BY <1>1, RecurrenceInvariant, PTL

\* Between requests, the date of the next cycle is an occurrence of the tasks of
\* the workflow as they are.
THEOREM NextFollowsTasksCorrect ==
  ASSUME Orderly
  PROVE  Spec => []NextFollowsTasks
PROOF
<1>1. IInv => NextFollowsTasks
  BY DEF IInv, RowOrdered, NextFollowsTasks
<1> QED BY <1>1, RecurrenceInvariant, PTL

\* Daily workflows meet the assumption on dates if their tasks start in the work
\* week, as start_end_date_validator asks, whatever the holidays are.
THEOREM DailyIsRegular ==
  ASSUME WorkflowUnits = {"day"}, \A d \in StartDates : InWorkWeek(d)
  PROVE  Regular
PROOF
<1> SUFFICES ASSUME NEW d \in StartDates
             PROVE  /\ AdjustedDate("day", d, 0) = d
                    /\ \A k \in Nat : AdjustedDate("day", d, k) \in Nat \ {NoDay}
                    /\ \A j, k \in Nat : j <= k =>
                         AdjustedDate("day", d, k) >= AdjustedDate("day", d, j) + (k - j)
  BY DEF Regular
<1>1. d \in Nat \ {0} /\ InWorkWeek(d) /\ RepeatEvery \in Nat \ {0}
  BY RecurrenceAssumption, CalendarAssumption
<1>2. \A k \in Nat : AdjustedDate("day", d, k) = DailyDate(d, RepeatEvery * k) /\ RepeatEvery * k \in Nat
  BY <1>1 DEF AdjustedDate
<1>3. AdjustedDate("day", d, 0) = d
  <2>1. Weekday(d) \in Nat /\ Weekday(d) <= WorkWeekLen
    BY <1>1, CalendarAssumption DEF InWorkWeek, Weekday
  <2>2. RepeatEvery * 0 = 0 /\ 0 \div 5 = 0 /\ 0 % 5 = 0
    BY <1>1
  <2>3. DailyDate(d, 0) = d
    BY <1>1, <2>1, <2>2 DEF DailyDate, WorkWeekLen
  <2> QED BY <1>2, <2>2, <2>3
<1>4. \A k \in Nat : AdjustedDate("day", d, k) \in Nat \ {NoDay}
  <2> SUFFICES ASSUME NEW k \in Nat PROVE AdjustedDate("day", d, k) \in Nat \ {NoDay}
    OBVIOUS
  <2>1. DailyDate(d, RepeatEvery * k) \in Nat /\ DailyDate(d, RepeatEvery * k) >= d
    BY <1>1, <1>2, DailyStep
  <2> QED BY <1>1, <1>2, <2>1 DEF NoDay
<1>5. \A j, k \in Nat : j <= k =>
        AdjustedDate("day", d, k) >= AdjustedDate("day", d, j) + (k - j)
  <2> SUFFICES ASSUME NEW j \in Nat, NEW k \in Nat, j <= k
               PROVE  AdjustedDate("day", d, k) >= AdjustedDate("day", d, j) + (k - j)
    OBVIOUS
  <2>1. RepeatEvery * k - RepeatEvery * j >= k - j
    <3>1. RepeatEvery * k - RepeatEvery * j = RepeatEvery * (k - j)
      BY <1>1
    <3>2. \A r \in Nat \ {0}, n \in Nat : r * n >= n
      OBVIOUS
    <3> QED BY <1>1, <3>1, <3>2
  <2>2. RepeatEvery * j <= RepeatEvery * k
    BY <1>2, <2>1
  <2>3. DailyDate(d, RepeatEvery * k) >= DailyDate(d, RepeatEvery * j) + (RepeatEvery * k - RepeatEvery * j)
    BY <1>1, <1>2, <2>2, DailyIncreases
  <2>4. DailyDate(d, RepeatEvery * k) \in Nat /\ DailyDate(d, RepeatEvery * j) \in Nat
    BY <1>1, <1>2, DailyStep
  <2> QED BY <1>2, <2>1, <2>3, <2>4
<1> QED BY <1>3, <1>4, <1>5

----------------------------------------------------------------------------
(* A daily workflow counts work days *)

\* The days of the work week that calc_next_adjusted_date goes over on its way
\* from the setup date to the n-th repetition.
DaysPassed(setup, n) == {d \in setup .. DailyDate(setup, n) - 1 : InWorkWeek(d)}

Counted(setup, n) ==
  IsFiniteSet(DaysPassed(setup, n)) /\ Cardinality(DaysPassed(setup, n)) = n

\* One repetition more passes one day more: the day of the repetition before it.
LEMMA OneDayMore ==
  ASSUME NEW setup \in Nat, NEW n \in Nat, InWorkWeek(setup), Counted(setup, n)
  PROVE  Counted(setup, n + 1)
PROOF
<1> DEFINE day == DailyDate(setup, n)
           next == DailyDate(setup, n + 1)
<1>1. day \in Nat /\ day >= setup /\ InWorkWeek(day)
  BY DailyStep
<1>2. next \in Nat /\ day < next /\ \A d \in day + 1 .. next - 1 : ~InWorkWeek(d)
  <2>1. n + 1 \in Nat
    OBVIOUS
  <2>2. next \in Nat
    BY <2>1, DailyStep
  <2> QED BY <2>2, DailyVisitsEveryWorkDay
<1>3. DaysPassed(setup, n) = {d \in setup .. day - 1 : InWorkWeek(d)}
  BY DEF DaysPassed
<1>4. DaysPassed(setup, n + 1) = {d \in setup .. next - 1 : InWorkWeek(d)}
  BY DEF DaysPassed
<1> HIDE DEF day, next
<1>5. \A d \in setup .. next - 1 : InWorkWeek(d) <=> d = day \/ (d \in setup .. day - 1 /\ InWorkWeek(d))
  <2> TAKE d \in setup .. next - 1
  <2>1. CASE d < day
    BY <1>1, <2>1
  <2>2. CASE d = day
    BY <1>1, <2>2
  <2>3. CASE d > day
    <3>1. d \in day + 1 .. next - 1
      BY <1>1, <1>2, <2>3
    <3> QED BY <1>1, <1>2, <2>3, <3>1
  <2> QED BY <1>1, <2>1, <2>2, <2>3
<1>6. DaysPassed(setup, n + 1) = DaysPassed(setup, n) \cup {day}
  BY <1>1, <1>2, <1>3, <1>4, <1>5
<1>7. day \notin DaysPassed(setup, n)
  BY <1>1, <1>3
<1>8. IsFiniteSet(DaysPassed(setup, n)) /\ Cardinality(DaysPassed(setup, n)) = n
  BY DEF Counted
<1>9. /\ IsFiniteSet(DaysPassed(setup, n) \cup {day})
      /\ Cardinality(DaysPassed(setup, n) \cup {day}) = n + 1
  BY <1>7, <1>8, FS_AddElement
<1> QED BY <1>6, <1>9 DEF Counted

\* The n-th repetition comes after n days of the work week, whichever day of it
\* the setup date is: there is no least n for which this fails.
THEOREM DailyPassesWorkDays ==
  ASSUME NEW setup \in Nat, NEW n \in Nat, InWorkWeek(setup)
  PROVE  Counted(setup, n)
PROOF
<1> DEFINE wrong == {k \in Nat : ~Counted(setup, k)}
<1> SUFFICES ASSUME wrong # {} PROVE FALSE
  OBVIOUS
<1>1. PICK m \in wrong : \A k \in wrong : m <= k
  BY LeastDay
<1>2. Counted(setup, 0)
  <2>1. 0 \div 5 = 0 /\ 0 % 5 = 0
    OBVIOUS
  <2>2. Weekday(setup) \in Nat /\ Weekday(setup) <= WorkWeekLen
    BY CalendarAssumption DEF InWorkWeek, Weekday
  <2>3. DailyDate(setup, 0) = setup
    BY <2>1, <2>2 DEF DailyDate, WorkWeekLen
  <2>4. DaysPassed(setup, 0) = {}
    BY <2>3 DEF DaysPassed
  <2> QED BY <2>4, FS_EmptySet DEF Counted
<1>3. m \in Nat /\ m # 0 /\ ~Counted(setup, m)
  BY <1>1, <1>2
<1>4. m - 1 \in Nat /\ Counted(setup, m - 1)
  <2>1. m - 1 \in Nat /\ ~(m <= m - 1)
    BY <1>3
  <2> QED BY <1>1, <2>1
<1>5. Counted(setup, (m - 1) + 1)
  BY <1>4, OneDayMore
<1>6. (m - 1) + 1 = m
  BY <1>3
<1> QED BY <1>3, <1>5, <1>6

\* The tasks of a daily workflow start in the work week (start_end_date_validator).
SetupInWorkWeek ==
  wf.unit = "day" => \A t \in TemplateTasks : start[t] # NoDay => InWorkWeek(start[t])

\* No request changes the unit of a workflow.
LEMMA UnitStays ==
  ASSUME Orderly, IInv, [Next]_vars
  PROVE  wf'.unit = wf.unit
PROOF
<1>1. wf \in WorkflowRow /\ start \in Template /\ today \in Nat
  BY DEF IInv, RowsTyped
<1>2. CASE wf' = wf
  BY <1>2
<1>3. ASSUME NEW t \in TemplateTasks, NEW d \in StartDates \cup {NoDay}, EditTask(t, d)
      PROVE  wf'.unit = wf.unit
  <2>1. start' \in Template /\ wf' = Recalculated(wf, start')
    BY <1>1, <1>3 DEF EditTask, Template
  <2> QED BY <1>1, <2>1, RecalculatedIsNext DEF Orderly
<1>4. CASE EditTaskGroup
  <2>1. wf' = Recalculated(wf, start)
    BY <1>4 DEF EditTaskGroup
  <2> QED BY <1>1, <2>1, RecalculatedIsNext DEF Orderly
<1>5. ASSUME NEW s \in Sessions, Commit(s) PROVE wf'.unit = wf.unit
  <2>1. session[s].wf.unit = wf.unit /\ session[s].loaded = wf
    BY <1>5 DEF Commit, IInv, SessionOrdered
  <2> QED BY <1>1, <1>5, <2>1 DEF Commit, WorkflowRow
<1>6. ASSUME NEW b \in BOOLEAN, PutRecurrences(b) \/ PutCurrent(b) PROVE wf'.unit = wf.unit
  BY <1>1, <1>6 DEF PutRecurrences, PutCurrent, WorkflowState, WorkflowRow
<1>7. NextDay \/ Cron \/ Activate \/ PostCycle \/ (\E s \in Sessions : Build(s)) \/ UNCHANGED vars
        => wf' = wf
  BY DEF NextDay, Cron, Activate, PostCycle, Build, vars
<1> QED BY <1>2, <1>3, <1>4, <1>5, <1>6, <1>7 DEF Next

LEMMA SetupStep ==
  ASSUME Orderly, IInv, SetupInWorkWeek, [Next]_vars
  PROVE  SetupInWorkWeek'
PROOF
<1>1. wf'.unit = wf.unit
  BY UnitStays
<1>2. CASE start' = start
  BY <1>1, <1>2 DEF SetupInWorkWeek
<1>3. ASSUME NEW t \in TemplateTasks, NEW d \in StartDates \cup {NoDay}, EditTask(t, d)
      PROVE  SetupInWorkWeek'
  <2>1. start' = [start EXCEPT ![t] = d] /\ (d # NoDay /\ wf.unit = "day" => InWorkWeek(d))
    BY <1>3 DEF EditTask, ValidStart, InWorkWeek
  <2>2. start \in Template
    BY DEF IInv, RowsTyped
  <2> QED BY <1>1, <2>1, <2>2 DEF SetupInWorkWeek, Template
<1>4. \/ start' = start
      \/ \E t \in TemplateTasks, d \in StartDates \cup {NoDay} : EditTask(t, d)
  BY DEF Next, vars, NextDay, Cron, Activate, PostCycle, EditTaskGroup, Build, Commit,
         PutRecurrences, PutCurrent
<1> QED BY <1>2, <1>3, <1>4

\* Between requests, the next cycle of a daily workflow starts in the work week,
\* after as many of its days as the repetitions ask for.
THEOREM DailyCountsWorkDaysCorrect ==
  ASSUME Orderly
  PROVE  Spec => []DailyCountsWorkDays
PROOF
<1>1. Init => SetupInWorkWeek
  BY DEF Init, SetupInWorkWeek, Chosen, ValidStart, InWorkWeek
<1>2. IInv /\ SetupInWorkWeek /\ [Next]_vars => SetupInWorkWeek'
  BY SetupStep
<1>3. IInv /\ SetupInWorkWeek => DailyCountsWorkDays
  <2> SUFFICES ASSUME IInv, SetupInWorkWeek, wf.unit = "day", wf.status = "Active", HasTasks(start)
               PROVE  /\ Weekday(wf.next) <= WorkWeekLen
                      /\ Cardinality({d \in MinStart(start) .. wf.next - 1 : Weekday(d) <= WorkWeekLen})
                           = RepeatEvery * wf.multiplier
    BY DEF DailyCountsWorkDays
  <2> DEFINE setup == MinStart(start)
             n == RepeatEvery * wf.multiplier
  <2>1. wf \in WorkflowRow /\ start \in Template /\ wf.next = NextDate(wf, start)
    BY DEF IInv, RowsTyped, RowOrdered
  <2>2. n \in Nat
    BY <2>1, CalendarAssumption DEF WorkflowRow
  <2>3. wf.next = DailyDate(setup, n)
    BY <2>1 DEF NextDate, AdjustedDate
  <2>4. setup \in Nat /\ InWorkWeek(setup)
    <3>1. Chosen(start) \in SUBSET Nat
      BY <2>1, RecurrenceAssumption DEF Chosen, Template
    <3>2. \E m \in Chosen(start) : \A e \in Chosen(start) : m <= e
      BY <3>1, LeastDay DEF HasTasks
    <3>3. setup \in Chosen(start)
      BY <3>2 DEF MinStart
    <3> QED BY <3>1, <3>3 DEF Chosen, SetupInWorkWeek
  <2> HIDE DEF setup, n
  <2>5. InWorkWeek(DailyDate(setup, n)) /\ Counted(setup, n)
    BY <2>2, <2>4, DailyStep, DailyPassesWorkDays
  <2> QED BY <2>3, <2>5 DEF InWorkWeek, Counted, DaysPassed, setup, n
<1> QED BY <1>1, <1>2, <1>3, RecurrenceInvariant, PTL DEF Spec
=============================================================================
