------------------------------- MODULE Cron -------------------------------
(***************************************************************************)
(* The five-field cron expressions of backup/src/cron.ts (the scheduler    *)
(* has the same parser): what a field stands for, when an expression is    *)
(* rejected, and the next instant that matches.                            *)
(*                                                                         *)
(* A field is a sequence of segments, the text between commas: a segment   *)
(* has a base ("star", "value" or "range"), its bounds and its step, each  *)
(* NaN where the text is no number.  Instants are whole minutes.  The      *)
(* calendar is a parameter: FieldsAt(t) is what Date's getUTC... return.   *)
(***************************************************************************)
EXTENDS Integers, Sequences, FiniteSets

CONSTANTS Lowest, Highest,  \* RANGES, as functions of the field name
          Calendar,         \* Calendar[t][field], for the instants of the model
          NaN,
          Horizon           \* minutes nextRun() searches

Field == {"minute", "hour", "dom", "month", "dow"}
Instant == DOMAIN Calendar
Segment == [base : {"star", "value", "range"},
            from : Int \cup {NaN}, to : Int \cup {NaN}, step : Int \cup {NaN}]

ASSUME RangesAssumption ==
  /\ Lowest \in [Field -> Nat] /\ Highest \in [Field -> Nat]
  /\ Lowest["dow"] = 0 /\ Highest["dow"] = 6
  /\ NaN \notin Int
ASSUME CalendarAssumption ==
  /\ Instant \subseteq Nat /\ Horizon \in Nat
  /\ \A t \in Instant : /\ Calendar[t] \in [Field -> Nat]
                        /\ \A name \in Field : Calendar[t][name] \in Lowest[name]..Highest[name]

\* Values a segment runs through, before the check of the range.
SegmentValues(seg, name) ==
  LET start == IF seg.base = "star" THEN Lowest[name] ELSE seg.from
      end   == IF seg.base = "star" THEN Highest[name]
               ELSE IF seg.base = "value" THEN seg.from ELSE seg.to
  IN {v \in start..end : (v - start) % seg.step = 0}

\* 7 is Sunday, too.
Normal(v, name) == IF name = "dow" /\ v = 7 THEN 0 ELSE v

SegmentFails(seg, name) ==
  \/ seg.step = NaN \/ seg.step <= 0
  \/ seg.base # "star" /\ seg.from = NaN
  \/ seg.base = "range" /\ seg.to = NaN
  \/ \E v \in SegmentValues(seg, name) : Normal(v, name) \notin Lowest[name]..Highest[name]

\* Note that `n/s` is n alone, and that a reversed range is empty.
parseField(raw, name) ==
  UNION {{Normal(v, name) : v \in SegmentValues(raw[i], name)} : i \in DOMAIN raw}

FieldFails(raw, name) == \E i \in DOMAIN raw : SegmentFails(raw[i], name)

Star == <<[base |-> "star", from |-> NaN, to |-> NaN, step |-> 1]>>

\* parseCron() throws.
Rejected(expr) ==
  \/ DOMAIN expr # Field
  \/ \E name \in Field : FieldFails(expr[name], name)

parseCron(expr) ==
  [values |-> [name \in Field |-> parseField(expr[name], name)],
   domRestricted |-> expr["dom"] # Star,
   dowRestricted |-> expr["dow"] # Star]

\* Mutant: both days have to match.
BothDaysMatch(fields, at) ==
  /\ fields.domRestricted => at["dom"] \in fields.values["dom"]
  /\ fields.dowRestricted => at["dow"] \in fields.values["dow"]

\* Both days restricted: either one will do.
dayMatches(fields, at) ==
  LET dom == at["dom"] \in fields.values["dom"]
      dow == at["dow"] \in fields.values["dow"]
  IN IF fields.domRestricted /\ fields.dowRestricted THEN dom \/ dow
     ELSE /\ fields.domRestricted => dom
          /\ fields.dowRestricted => dow

FieldsMatch(fields, t) ==
  /\ \A name \in {"month", "hour", "minute"} : Calendar[t][name] \in fields.values[name]
  /\ dayMatches(fields, Calendar[t])

\* The first match of a search that goes minute by minute; 0 when it gives up.
nextRun(fields, from) ==
  LET minutes == (from + 1)..(from + Horizon)
  IN IF \A t \in minutes : ~FieldsMatch(fields, t) THEN 0
     ELSE CHOOSE t \in minutes : /\ FieldsMatch(fields, t)
                                 /\ \A u \in (from + 1)..(t - 1) : ~FieldsMatch(fields, u)
=============================================================================
