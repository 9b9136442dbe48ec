---------------------------- MODULE CronExpressions ----------------------------
(***************************************************************************)
(* cronNextRun of hunts/hunts.service.ts, against the standard meaning of  *)
(* a five-field cron expression.                                           *)
(*                                                                         *)
(* Time is in minutes since a Sunday midnight, in the server's zone, whose *)
(* clock is not put forward or back.                                       *)
(***************************************************************************)
EXTENDS Integers, FiniteSetsExt

CONSTANT Invalid   \* an invalid Date

Hour == 60
Day  == 24 * Hour
Week == 7 * Day
WeekDay(t) == (t \div Day) % 7
Midnight(t) == t - (t % Day)

------------------------------------------------------------------------------
(* Expressions.  A field is a star, a number, or a star with a step; the   *)
(* DTOs take any string, so the number may be negative and a field missing.*)
(* Left out are fractions, infinities and numbers beyond a Date's reach.   *)

Any == [kind |-> "any", n |-> 0]
At(n) == [kind |-> "at", n |-> n]
Every(n) == [kind |-> "every", n |-> n]

\* "parts" is the number of fields in the text
Expression(min, hour, dow) ==
  [parts |-> 5, min |-> min, hour |-> hour, dom |-> Any, month |-> Any, dow |-> dow]

\* what the schedule dialog offers
COMMON_CRONS ==
  {Expression(At(0), Any, Any), Expression(At(0), Every(6), Any),
   Expression(At(0), At(6), Any), Expression(At(0), At(0), Any),
   Expression(At(0), At(6), At(1)), Expression(At(0), At(0), At(1))}

Names(field, value) ==
  \/ field.kind = "any"
  \/ field.kind = "at" /\ field.n = value
  \/ field.kind = "every" /\ value % field.n = 0

\* the standard meaning, of expressions without a date
Fires(e, t) ==
  Names(e.min, t % Hour) /\ Names(e.hour, (t % Day) \div Hour) /\ Names(e.dow, WeekDay(t))
NextFiring(e, t) == Min({u \in (t + 1) .. (t + Week): Fires(e, u)})

------------------------------------------------------------------------------
(* cronNextRun.  Number() of anything but a number is NaN: it makes the    *)
(* date invalid, which the database refuses, except where || replaces it.  *)

Fixed(field) == field.kind = "at"
Given(field) == field.kind # "any"
Undated(e) == ~Given(e.dom) /\ ~Given(e.month)

Today(e, t) == Midnight(t) + e.hour.n * Hour + e.min.n

Daily(e, t) ==
  IF ~Fixed(e.hour) \/ ~Fixed(e.min) THEN Invalid
  ELSE IF Today(e, t) <= t THEN Today(e, t) + Day ELSE Today(e, t)

\* the remainder of the language has the sign of the dividend
Remainder(x, m) == IF x >= 0 THEN x % m ELSE -((-x) % m)

DaysAhead(e, t) ==
  LET ahead == Remainder(e.dow.n + 7 - WeekDay(t), 7)
  IN  IF Fixed(e.dow) /\ ahead # 0 THEN ahead ELSE 7

Weekly(e, t) ==
  IF ~Fixed(e.hour) \/ ~Fixed(e.min) THEN Invalid
  ELSE Today(e, t) + DaysAhead(e, t) * Day

Hourly(e, t) ==
  LET u == t - (t % Hour) + (IF Fixed(e.min) THEN e.min.n ELSE 0)
  IN  IF u <= t THEN u + Hour ELSE u

FromParts(e, t) ==
  CASE Undated(e) /\ ~Given(e.dow) /\ Given(e.min) /\ Given(e.hour) -> Daily(e, t)
    [] Undated(e) /\ Given(e.dow) /\ Given(e.min) /\ Given(e.hour)  -> Weekly(e, t)
    [] ~Given(e.hour) /\ ~Given(e.dom)                              -> Hourly(e, t)
    [] OTHER                                                        -> t + Hour

cronNextRun(e, t) == IF e.parts < 5 THEN t + Hour ELSE FromParts(e, t)
===============================================================================
