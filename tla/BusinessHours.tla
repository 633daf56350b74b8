--------------------------- MODULE BusinessHours ----------------------------
(***************************************************************************)
(* isBusinessTime of postgres.go and isBusinessTimeLocked of memory.go,    *)
(* which are the same: whether the local time is within the hours of       *)
(* service, which may cross midnight.  Hours that cannot be parsed count   *)
(* as always open and are left out, as is the conversion to local time.    *)
(***************************************************************************)
EXTENDS Integers

CONSTANT MinutesPerDay

ASSUME DayAssumption == MinutesPerDay \in Nat \ {0}

VARIABLES
  opens, closes,  \* BusinessHours.Start and .End, in minutes of the day
  minute          \* the local time

hoursVars == <<opens, closes, minute>>

MinutesOfDay == 0..(MinutesPerDay - 1)

\* Fault: the end is taken for the last minute of service.
FaultyIsBusinessTime(start, end, now) ==
  IF start <= end THEN start <= now /\ now <= end ELSE start <= now \/ now <= end

IsBusinessTime(start, end, now) ==
  IF start <= end THEN start <= now /\ now < end ELSE start <= now \/ now < end

HoursInit == opens \in MinutesOfDay /\ closes \in MinutesOfDay /\ minute \in MinutesOfDay

HoursNext ==
  /\ minute' = (minute + 1) % MinutesPerDay
  /\ UNCHANGED <<opens, closes>>

HoursSpec == HoursInit /\ [][HoursNext]_hoursVars

-----------------------------------------------------------------------------
Open == IsBusinessTime(opens, closes, minute)

\* Service begins at the first of its minutes and ends at the other, on either
\* side of midnight; hours that end when they begin are never open.
OpensAndCloses ==
  [][/\ Open' # Open => minute' = IF Open' THEN opens ELSE closes
     /\ minute' = opens /\ opens # closes => Open'
     /\ opens = closes => ~Open]_hoursVars

=============================================================================
