----------------------------- MODULE WireFields -----------------------------
(***************************************************************************)
(* The converters of parsers.py: JSON may hold anything where the models      *)
(* declare an instant, a number, an identifier, and a converter makes of it    *)
(* what it can.  A field is abstracted to the kind of its JSON value, and what *)
(* a converter makes of it to a kind of Python value.  No state.             *)
(***************************************************************************)
EXTENDS Naturals

\* Strings: a datetime with or without an offset, a date, a month (YYYY-MM), a
\* wall time (HH:MM), the digits of an hour (15), a decimal number, any other text,
\* the empty one.
Strings == {"aware", "naive", "date", "month", "time", "digits", "decimal", "text", "empty"}

\* Numbers; true and false; an object; null, or no such field.
Kinds == Strings \cup {"integer", "fraction", "boolean", "object", "null"}

\* What converters make: strings as they are, objects as the model of the object,
\* and dates, times, floats.  "zero" is the 0 put for what is no number.

-----------------------------------------------------------------------------
(* Numbers.  A boolean is a number to float() and int(), which takes the whole *)
(* part of a fraction and no string with a point.                           *)

AsFloat(v) == IF v \in {"integer", "fraction", "boolean", "digits", "decimal"} THEN "float" ELSE "zero"
AsInt(v) == IF v \in {"integer", "fraction", "boolean", "digits"} THEN "integer" ELSE "zero"
AsFloatOrNone(v) == IF v = "null" THEN "null" ELSE AsFloat(v)
AsIntOrNone(v) == IF v = "null" THEN "null" ELSE AsInt(v)

\* The value of a solar slot: not 0 but None when it is no number.
TryFloat(v) == IF AsFloat(v) = "zero" THEN "null" ELSE "float"

\* A number as it is: neither a boolean nor a number in a string.
AsNumber(v) == IF v \in {"integer", "fraction"} THEN "float" ELSE "null"

\* Mutant of AsId: in Python a boolean is an integer.
AnyInstanceOfInt(v) == IF v \in {"integer", "boolean"} THEN v ELSE "null"
AsId(v) == IF v = "integer" THEN v ELSE "null"

-----------------------------------------------------------------------------
(* The others.                                                             *)

Truthy(v) == "boolean"
AsBoolOrNone(v) == IF v = "boolean" THEN v ELSE "null"

AsStr(v) == IF v \in Strings THEN v ELSE "empty"
AsStrOrNone(v) == IF v \in Strings \ {"empty"} THEN v ELSE "null"
IsStr(v) == IF v \in Strings THEN v ELSE "null"

\* In lower case, which the kind does not show.
NormalizeVocab(v) == IF v \in Strings THEN v ELSE "null"

AsAwareDatetime(v) == IF v = "aware" THEN v ELSE "null"
AsDate(v) == IF v \in {"date", "aware", "naive"} THEN "date" ELSE "null"
AsYearMonth(v) == IF v = "month" THEN "date" ELSE "null"

\* fromisoformat reads 15 as 15:00, and 2026-05 as 20:26 five hours behind UTC.
AsWallTime(v) == IF v \in {"time", "digits", "month"} THEN "time" ELSE "null"

\* A field taken as it is, whatever it holds.
Copied(v) == v

\* An object goes to the parser of its own model; anything else is None.
Parsed(v) == IF v = "object" THEN v ELSE "null"

Convert(how, v) ==
    CASE how = "AsFloat" -> AsFloat(v)
      [] how = "AsInt" -> AsInt(v)
      [] how = "AsFloatOrNone" -> AsFloatOrNone(v)
      [] how = "AsIntOrNone" -> AsIntOrNone(v)
      [] how = "TryFloat" -> TryFloat(v)
      [] how = "AsNumber" -> AsNumber(v)
      [] how = "AsId" -> AsId(v)
      [] how = "Truthy" -> Truthy(v)
      [] how = "AsBoolOrNone" -> AsBoolOrNone(v)
      [] how = "AsStr" -> AsStr(v)
      [] how = "AsStrOrNone" -> AsStrOrNone(v)
      [] how = "IsStr" -> IsStr(v)
      [] how = "NormalizeVocab" -> NormalizeVocab(v)
      [] how = "AsAwareDatetime" -> AsAwareDatetime(v)
      [] how = "AsDate" -> AsDate(v)
      [] how = "AsYearMonth" -> AsYearMonth(v)
      [] how = "AsWallTime" -> AsWallTime(v)
      [] how = "Copied" -> Copied(v)
      [] how = "Parsed" -> Parsed(v)
=============================================================================
