------------------------------ MODULE MCBackup ------------------------------
(* A day of one hour of two minutes, a month of two days.                  *)
EXTENDS Backup

MCLowest == [minute |-> 0, hour |-> 0, dom |-> 1, month |-> 1, dow |-> 0]
MCHighest == [minute |-> 1, hour |-> 0, dom |-> 2, month |-> 12, dow |-> 6]

MCCalendar ==
  [t \in 0..10 |-> [minute |-> t % 2, hour |-> 0, dom |-> 1 + ((t \div 2) % 2),
                    month |-> 1 + (t \div 4), dow |-> (t \div 2) % 7]]

Value(n) == <<[base |-> "value", from |-> n, to |-> NaN, step |-> 1]>>
Daily(minute) ==
  [minute |-> minute, hour |-> Star, dom |-> Star, month |-> Star, dow |-> Star]

Base == [keep |-> 1, mirrorDir |-> FALSE, offsiteCmd |-> FALSE, storageDir |-> FALSE,
         intervalHours |-> None, cron |-> Daily(Value(1))]

MCEnvironments ==
  { [Base EXCEPT !.storageDir = TRUE],
    \* Once, in the first hour.
    [Base EXCEPT !.cron["dom"] = Value(1), !.cron["month"] = Value(1)],
    \* Every minute of a Sunday, a Monday and the second of the month.
    [Base EXCEPT !.keep = 2, !.mirrorDir = TRUE, !.offsiteCmd = TRUE,
                 !.cron["minute"] = <<[base |-> "range", from |-> 0, to |-> 1, step |-> 1]>>,
                 !.cron["dow"] = Value(7) \o Value(1), !.cron["dom"] = Value(2)],
    \* Rejected.
    [Base EXCEPT !.cron["hour"] = Value(2)],
    [Base EXCEPT !.keep = 0, !.cron = None, !.intervalHours = 2],
    \* The second of February: beyond the range of setTimeout.
    [Base EXCEPT !.cron["dom"] = Value(2), !.cron["month"] = Value(2)] }

MCBounds == [write |-> 1, restore |-> 1, fault |-> 1, crash |-> 1]
=============================================================================
