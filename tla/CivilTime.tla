------------------------------ MODULE CivilTime ------------------------------
(***************************************************************************)
(* fetcher.rs, parse_iso_to_unix_secs: the end of a market, as an ISO 8601 *)
(* text, in Unix seconds.  A text is abstracted to its fields.  A suffix   *)
(* Z, a fraction and an offset are dropped unread, so a text means UTC;    *)
(* nothing checks that a month or a day exists.                            *)
(***************************************************************************)
EXTENDS Integers

TextType == [form : {"date",    \* ten characters
                     "full",    \* nineteen or more: a date and a time of day
                     "cut",     \* any other length, or a field that is no number
                     "none"},   \* there is no text
             year : Nat, month : Nat, day : Nat, hour : Nat, minute : Nat, second : Nat]

Unreadable == -1   \* None

\* i64 division, which truncates.
Quotient(a, b) == IF a >= 0 THEN a \div b ELSE -((-a) \div b)

\* Mutant of UnixDays: the century rule is left out.
UnixDaysJulian(year, month, day) ==
  LET a == Quotient(14 - month, 12)
      y == year + 4800 - a
      m == month + 12 * a - 3
  IN  day + Quotient(153 * m + 2, 5) + 365 * y + Quotient(y, 4) - 32083 - 2440588

\* The Julian day number of a date, counted from 1970-01-01.
UnixDays(year, month, day) ==
  LET a == Quotient(14 - month, 12)
      y == year + 4800 - a
      m == month + 12 * a - 3
      jdn == day + Quotient(153 * m + 2, 5) + 365 * y
               + Quotient(y, 4) - Quotient(y, 100) + Quotient(y, 400) - 32045
  IN  jdn - 2440588

EndSecs(text) ==
  LET days == UnixDays(text.year, text.month, text.day)
  IN  CASE text.form \in {"cut", "none"} -> Unreadable
        [] text.form = "date" -> 86400 * days
        [] OTHER -> 86400 * days + 3600 * text.hour + 60 * text.minute + text.second

-----------------------------------------------------------------------------
(* The calendar, to compare with.                                           *)

Leap(year) == year % 4 = 0 /\ (year % 100 # 0 \/ year % 400 = 0)

DaysIn(year, month) ==
  CASE month = 2 -> IF Leap(year) THEN 29 ELSE 28
    [] month \in {4, 6, 9, 11} -> 30
    [] OTHER -> 31

IsDate(date) == /\ date[1] \in Nat \ {0} /\ date[2] \in 1..12
                /\ date[3] \in 1..DaysIn(date[1], date[2])

Tomorrow(date) ==
  IF date[3] < DaysIn(date[1], date[2])
    THEN <<date[1], date[2], date[3] + 1>>
    ELSE IF date[2] < 12 THEN <<date[1], date[2] + 1, 1>>
                         ELSE <<date[1] + 1, 1, 1>>
=============================================================================
