---------------------------- MODULE CronSchedule ----------------------------
(***************************************************************************)
(* The weekday field of a cron expression: on which days an occurrence of  *)
(* a subscription comes due.                                               *)
(*                                                                         *)
(* The project's expressions count Sunday as 0 or 7.  APScheduler counts   *)
(* Monday as 0, so each token of the field is spelled out as names before  *)
(* it is handed over.  A token is * or a start with an optional end and    *)
(* step; a start and an end are numbers or names.                          *)
(***************************************************************************)
EXTENDS Integers, Sequences
LOCAL INSTANCE SequencesExt

Absent   == -1
Rejected == <<"ValueError">>
EveryDay == "*"

Weekdays == <<"sun", "mon", "tue", "wed", "thu", "fri", "sat">>
WeekdayName(v) == Weekdays[(v % 7) + 1]

\* A number that is no weekday is refused; every name that parses is one.
Valid(v) == v \in 0..7

\* range(first, last + 1, step)
Stride(first, last, step) ==
    [i \in 1..((last - first) \div step + 1) |-> first + (i - 1) * step]

Named(values) == [i \in DOMAIN values |-> WeekdayName(values[i])]

\* A step alone goes on to Sunday, as 7; without a step the end is the start.
LastOf(t) == IF t.end # Absent THEN t.end ELSE IF t.step = Absent THEN t.start ELSE 7
StepOf(t) == IF t.step = Absent THEN 1 ELSE t.step

Accepted(t) ==
    /\ StepOf(t) \in 1..7
    /\ ~t.all =>
         /\ Valid(t.start) /\ Valid(LastOf(t))
         /\ t.end # Absent => t.startNamed = t.endNamed
         /\ t.start <= LastOf(t)
         /\ StepOf(t) <= LastOf(t) - t.start + 1

\* expand_token: the names of a token in order.
ExpandToken(t) ==
    IF ~Accepted(t) THEN Rejected
    ELSE IF ~t.all THEN Named(Stride(t.start, LastOf(t), StepOf(t)))
    ELSE IF t.step = Absent THEN <<EveryDay>>
    ELSE Named(Stride(0, 6, t.step))

\* A weekday is written once, an asterisk as often as it comes.
AddName(names, name) ==
    IF name # EveryDay /\ Contains(names, name) THEN names ELSE Append(names, name)

\* The tokens of the field, one after the other; one bad token spoils all.
Normalize(tokens) ==
    LET expanded == [i \in DOMAIN tokens |-> ExpandToken(tokens[i])]
    IN  IF Rejected \in ToSet(expanded) THEN Rejected
        ELSE FoldLeft(AddName, <<>>, FlattenSeq(expanded))

\* APScheduler: Monday is 0, and an asterisk is every day.
SchedulerWeekday(name) == ((CHOOSE i \in DOMAIN Weekdays : Weekdays[i] = name) + 5) % 7
SchedulerDays(names) ==
    IF Contains(names, EveryDay) THEN 0..6 ELSE {SchedulerWeekday(n) : n \in ToSet(names)}

-----------------------------------------------------------------------------
(* What the field means, by crontab(5), and the tokens to try              *)

Ends  == ({FALSE} \X (0..8)) \cup ({TRUE} \X (0..6))
Steps == {Absent} \cup 0..8
Open  == <<FALSE, Absent>>
Token(s, e, step) == [all |-> FALSE, startNamed |-> s[1], start |-> s[2],
                      endNamed |-> e[1], end |-> e[2], step |-> step]
All(step) == [Token(<<FALSE, 0>>, Open, step) EXCEPT !.all = TRUE]
TokensOver(ends, steps) ==
    {All(step) : step \in steps} \cup
    {Token(s, e, step) : s \in ends, e \in ends \cup {Open}, step \in steps}

\* The scheduler's number of a day that crontab calls v.
Day(v) == (v + 6) % 7

\* Every step-th day counted from the start of the range.
Meant(t) ==
    LET first == IF t.all THEN 0 ELSE t.start
        last  == IF t.all THEN 6 ELSE LastOf(t)
    IN  {Day(v) : v \in {d \in first..last : \E k \in 0..7 : d = first + k * StepOf(t)}}

(* A token that is accepted fires on the days it means in crontab's own    *)
(* numbers and never on none, and Sunday is the same day as 0, 7 or a name.*)
ASSUME TokensKeepTheirDays ==
    \A t \in TokensOver(Ends, Steps) :
        ExpandToken(t) # Rejected =>
            SchedulerDays(ExpandToken(t)) = Meant(t) /\ Meant(t) # {}

(* A list fires on the days of its tokens and writes each day once; it is  *)
(* refused exactly when one of them is.                                    *)
ASSUME ListsAreUnions ==
    LET some == TokensOver({<<FALSE, 0>>, <<FALSE, 5>>, <<FALSE, 7>>, <<TRUE, 6>>}, {Absent, 0, 2, 3})
    IN  \A a, b \in some :
          LET names == Normalize(<<a, b>>)
          IN  IF Rejected \in {ExpandToken(a), ExpandToken(b)} THEN names = Rejected
              ELSE /\ SchedulerDays(names) = Meant(a) \cup Meant(b)
                   /\ \A i, j \in DOMAIN names : names[i] = names[j] /\ names[i] # EveryDay => i = j
=============================================================================
