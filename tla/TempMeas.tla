------------------------------ MODULE TempMeas ------------------------------
(***************************************************************************)
(* TempMeas::Lookup (temp_meas.cpp): from a reading of the analog input to *)
(* a temperature, by interpolation in the table of the selected sensor.    *)
(* The code calls a sensor NTC when its table ascends and PTC when it      *)
(* descends: the names are those of the divider's voltage, reversed.       *)
(*                                                                         *)
(* Temperatures are whole multiples of 1/TempScale of a degree.            *)
(***************************************************************************)
EXTENDS Integers, FiniteSetsExt, Sequences, TempTables

CONSTANTS
  TempScale,  \* units per degree
  SensorIds,  \* the sensors a user may have selected
  MaxDigit    \* the largest reading of the ADC (4095)

ASSUME TempMeasAssumption ==
  /\ TempScale \in Nat \ {0}
  /\ MaxDigit \in Nat

Sensor(tempMin, tempMax, step, coeff, lookup) ==
  [tempMin |-> tempMin * TempScale, tempMax |-> tempMax * TempScale,
   step |-> step * TempScale, coeff |-> coeff, lookup |-> lookup]

sensors == [
  JCURVE |-> Sensor(-25, 105, 5, "NTC", JCURVE),
  SEMIKRON |-> Sensor(0, 100, 5, "PTC", SEMIKRON),
  MBB600 |-> Sensor(-5, 100, 5, "PTC", MBB600),
  KTY81HS |-> Sensor(-50, 150, 10, "NTC", KTY81_HS),
  PT1000 |-> Sensor(-50, 150, 10, "PTC", PT1000),
  NTCK45 |-> Sensor(-50, 150, 5, "NTC", NTCK45),
  LEAFHS |-> Sensor(-10, 160, 10, "NTC", LEAFHS),
  BMWI3HS |-> Sensor(-25, 105, 5, "PTC", FS800),
  KTY83 |-> Sensor(-50, 170, 10, "PTC", KTY83),
  KTY84 |-> Sensor(-40, 300, 10, "PTC", KTY84),
  LEAF |-> Sensor(-20, 150, 10, "NTC", LEAF),
  KTY81M |-> Sensor(-50, 150, 10, "PTC", KTY81_M),
  TOYOTA |-> Sensor(-20, 200, 5, "PTC", TOYOTA_M),
  TESLA_100K |-> Sensor(-20, 200, 5, "PTC", TESLA_100K),
  TESLA_52K |-> Sensor(0, 100, 10, "PTC", TESLA_52K),
  TESLA_LDU_FLUID |-> Sensor(5, 100, 5, "PTC", TESLA_LDU_FLUID),
  TESLA_10K |-> Sensor(-20, 190, 5, "PTC", TESLA_10K),
  OUTLANDERFRONT |-> Sensor(-40, 300, 10, "NTC", OUTLANDERFRONT),
  EPCOSB56871 |-> Sensor(-50, 150, 10, "NTC", EPCOSB57861),
  TOYOTAGEN2 |-> Sensor(-20, 200, 5, "NTC", TOYOTA_MGEN2)]

ASSUME SensorsKnown == SensorIds \subseteq DOMAIN sensors

-----------------------------------------------------------------------------

Distance(m, n) == IF m < n THEN n - m ELSE m - n

Interpolated_WrongEnd(sensor, i, digit) ==
  sensor.tempMin + sensor.step * (i - 1)
    - (sensor.step * Distance(digit, sensor.lookup[i - 1]))
        \div Distance(sensor.lookup[i], sensor.lookup[i - 1])

\* Back from entry i towards the one before it.
Interpolated(sensor, i, digit) ==
  sensor.tempMin + sensor.step * (i - 1)
    - (sensor.step * Distance(digit, sensor.lookup[i]))
        \div Distance(sensor.lookup[i], sensor.lookup[i - 1])

\* The entries at which the search may stop; it stops at the first.
Stops(sensor, digit) ==
  {i \in DOMAIN sensor.lookup :
     \/ sensor.coeff = "NTC" /\ sensor.lookup[i] >= digit
     \/ sensor.coeff = "PTC" /\ sensor.lookup[i] <= digit}

Lookup(digit, sensorId) ==
  LET sensor == sensors[sensorId]
      stops == Stops(sensor, digit)
  IN IF stops = {} THEN sensor.tempMax
     ELSE IF 1 \in stops THEN sensor.tempMin
     ELSE Interpolated(sensor, Min(stops), digit)

-----------------------------------------------------------------------------

VARIABLES
  sensorId, digit, temperature  \* a call of Lookup and its result

tempMeasVars == <<sensorId, digit, temperature>>

None == -1

TempMeasTypeOK ==
  /\ sensorId \in SensorIds
  /\ digit \in {None} \cup 0 .. MaxDigit
  /\ temperature \in Int

TempMeasInit ==
  /\ sensorId \in SensorIds
  /\ digit = None
  /\ temperature = 0

ReadSensor ==
  /\ digit = None
  /\ digit' \in 0 .. MaxDigit
  /\ temperature' = Lookup(digit', sensorId)
  /\ UNCHANGED sensorId

\* Lookup keeps nothing from call to call.
Return ==
  /\ digit # None
  /\ digit' = None
  /\ temperature' = 0
  /\ UNCHANGED sensorId

TempMeasNext ==
  \/ ReadSensor
  \/ Return

TempMeasSpec == TempMeasInit /\ [][TempMeasNext]_tempMeasVars

-----------------------------------------------------------------------------

Between(x, a, b) == (a <= x /\ x <= b) \/ (b <= x /\ x <= a)

\* The two sensors whose tables run against the direction they are declared with.
Reversed == {"PT1000", "NTCK45"}

\* Every reading between two neighbouring entries of the table lies between their
\* temperatures, and an entry reads as its own temperature; only a reading off both
\* ends of the table gives tempMin or tempMax. (Where neighbours are equal, at the
\* hot end of TESLA_10K, any of their temperatures will do.)
LookupReadsTable ==
  digit # None /\ sensorId \notin Reversed =>
    LET sensor == sensors[sensorId]
        table == sensor.lookup
        Temp(i) == sensor.tempMin + (i - 1) * sensor.step
    IN \/ \E i \in 1 .. Len(table) - 1 :
            /\ Between(digit, table[i], table[i + 1])
            /\ Between(temperature, Temp(i), Temp(i + 1))
            /\ table[i] # table[i + 1] =>
                 \A k \in {i, i + 1} : digit = table[k] => temperature = Temp(k)
       \/ /\ \A i \in DOMAIN table : digit > table[i]
          /\ temperature = IF sensor.coeff = "NTC" THEN sensor.tempMax ELSE sensor.tempMin
       \/ /\ \A i \in DOMAIN table : digit < table[i]
          /\ temperature = IF sensor.coeff = "NTC" THEN sensor.tempMin ELSE sensor.tempMax
=============================================================================
