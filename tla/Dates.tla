-------------------------------- MODULE Dates --------------------------------
(***************************************************************************)
(* The times of bisync's listings (parse_time_ns in src/listing.rs), down  *)
(* to the minute: a civil date, a time of day and a zone, as minutes since *)
(* 1970.  A wrong one would make every file of a pair look changed.        *)
(***************************************************************************)
EXTENDS Integers

\* Howard Hinnant's days from civil, a year beginning in March.
LeapFromJanuary(y, m) == y
MarchYear(y, m) == IF m <= 2 THEN y - 1 ELSE y

DayNumber(date) ==
  LET y == MarchYear(date.year, date.month)
      era == y \div 400
      yoe == y - era * 400
      mp == (date.month + 9) % 12
      doy == (153 * mp + 2) \div 5 + date.day - 1
      doe == yoe * 365 + yoe \div 4 - yoe \div 100 + doy
  IN  era * 146097 + doe - 719468

\* The zone is the sign and the hours and minutes the clock is ahead of UTC by.
OffsetHoursSigned(zone) == zone.sign * zone.hours * 60 + zone.minutes
Offset(zone) == zone.sign * (zone.hours * 60 + zone.minutes)

Minutes(date, hour, minute, zone) ==
  DayNumber(date) * 1440 + hour * 60 + minute - Offset(zone)
=============================================================================
