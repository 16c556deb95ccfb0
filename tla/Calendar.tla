------------------------------ MODULE Calendar ------------------------------
(***************************************************************************)
(* daysFromCivil and unixTime of gnss.cpp: dates and times as the GNSS     *)
(* module reports them, as seconds since 1970.  That these overflow 32     *)
(* bits in the year 2106 is left out.                                      *)
(***************************************************************************)
EXTENDS Integers

\* Days since 1970-01-01.  Years begin in March, so that a leap day ends one.
daysFromCivil(year, m, d) ==
  LET y == IF m <= 2 THEN year - 1 ELSE year
      era == y \div 400
      yoe == y - era * 400
      doy == (153 * (IF m > 2 THEN m - 3 ELSE m + 9) + 2) \div 5 + d - 1
      doe == yoe * 365 + yoe \div 4 - yoe \div 100 + doy
  IN era * 146097 + doe - 719468

unixTime(year, m, d, hour, minute, second) ==
  IF year < 2024 THEN 0
  ELSE daysFromCivil(year, m, d) * 86400 + hour * 3600 + minute * 60 + second

-----------------------------------------------------------------------------
(* The calendar, for reference *)

IsLeap(y) == y % 4 = 0 /\ (y % 100 # 0 \/ y % 400 = 0)
DaysIn(y, m) ==
  CASE m = 2 -> IF IsLeap(y) THEN 29 ELSE 28
    [] m \in {4, 6, 9, 11} -> 30
    [] OTHER -> 31

\* The day after a date.
Tomorrow(y, m, d) ==
  IF d < DaysIn(y, m) THEN [year |-> y, month |-> m, day |-> d + 1]
  ELSE IF m < 12 THEN [year |-> y, month |-> m + 1, day |-> 1]
  ELSE [year |-> y + 1, month |-> 1, day |-> 1]
=============================================================================
