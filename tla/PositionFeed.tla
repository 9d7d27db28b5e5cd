---------------------------- MODULE PositionFeed ----------------------------
(***************************************************************************)
(* The position that the intelligence API tells ATAK: the GPS driver       *)
(* (GPS_NMEA_Driver of backend/hardware_drivers_real.py, GPSInterface and  *)
(* HardwareManager of hardware_interfaces.py) and the task that reads it   *)
(* and sends what the sensor fusion makes of it (update_sensor_fusion of   *)
(* intelligence_api.py, update_gps and send_cot of intelligence.py).       *)
(*                                                                         *)
(* The receiver may be pulled out and put back, lose its fix and send      *)
(* garbled lines; gpsd may be there or not.  A position is the number of   *)
(* the place the device was at; the coordinates, the accuracy and the      *)
(* numbers of the Kalman filter are left out, and so are the radios.       *)
(***************************************************************************)
EXTENDS Naturals

CONSTANTS
  MaxErrors, \* max_errors of the driver
  MaxGpsEvents  \* bound: changes of the world and garbled reads

ASSUME GpsAssumption == MaxErrors \in Nat \ {0} /\ MaxGpsEvents \in Nat

VARIABLES
  place,    \* where the device is
  plugged, fix, \* the receiver is there, and sees the satellites
  gpsd,     \* what gpspipe answers: "fix", "nofix", or "absent"
  detected, \* hardware.gps
  port,     \* the serial port: "closed", "open", "dead" (open, unplugged since)
  errors,   \* error_count
  last,     \* last_position, 0 when there has been none
  fed,      \* the last measurement of update_gps, 0 when there was none
  sending,  \* the task is in send_cot
  failing,  \* history: failures since the driver last worked
  gpsEvents

gpsVars == <<place, plugged, fix, gpsd, detected, port, errors, last, fed,
          sending, failing, gpsEvents>>
world == <<place, plugged, fix, gpsd>>

-----------------------------------------------------------------------------
(* The world.                                                              *)

GpsEvent == gpsEvents < MaxGpsEvents /\ gpsEvents' = gpsEvents + 1

Move ==
  /\ GpsEvent
  /\ place' = place + 1
  /\ UNCHANGED <<plugged, fix, gpsd, detected, port, errors, last, fed, sending, failing>>

Plug ==
  /\ GpsEvent
  /\ plugged' = ~ plugged
  /\ port' = IF plugged /\ port = "open" THEN "dead" ELSE port
  /\ UNCHANGED <<place, fix, gpsd, detected, errors, last, fed, sending, failing>>

Sky ==
  /\ GpsEvent
  /\ fix' = ~ fix
  /\ UNCHANGED <<place, plugged, gpsd, detected, port, errors, last, fed, sending, failing>>

Gpsd ==
  /\ GpsEvent
  /\ gpsd' \in {"fix", "nofix", "absent"} \ {gpsd}
  /\ UNCHANGED <<place, plugged, fix, detected, port, errors, last, fed, sending, failing>>

-----------------------------------------------------------------------------
(* The driver.  Its last_position is also what GPSInterface keeps.         *)

\* Mutant: the count is kept when the driver works again.
WorksStillCounted == UNCHANGED errors /\ failing' = 0

Works == errors' = 0 /\ failing' = 0
Fails == errors' = errors + 1 /\ failing' = failing + 1

\* Ten lines: one of them has a fix, or none has; or reading raises.  A
\* garbled line is passed over.
Read(garbled) ==
  CASE port = "dead" -> port' = "closed" /\ Fails /\ UNCHANGED last
    [] port # "dead" /\ fix /\ ~ garbled -> port' = "open" /\ Works /\ last' = place
    [] OTHER ->
         /\ port' = "open" /\ UNCHANGED last
         /\ IF port = "open" THEN UNCHANGED <<errors, failing>> ELSE Works

\* Mutant: one try too many.
TriesAgain == errors <= MaxErrors

Tries == errors < MaxErrors

\* get_position with reconnect_if_needed
GetPosition(garbled) ==
  IF port # "closed" \/ (Tries /\ plugged) THEN Read(garbled)
  ELSE /\ IF Tries THEN Fails ELSE UNCHANGED <<errors, failing>>
       /\ UNCHANGED <<port, last>>

-----------------------------------------------------------------------------
(* The task.                                                               *)

\* get_gps_position: gpsd is asked while the driver has no position at all.
\* get_mock_gps answers nothing outside of development.
Measured == IF detected /\ last' # 0 THEN last'
            ELSE IF gpsd = "fix" THEN place ELSE 0

\* update_gps: the measurement, and what the filter makes of it is left out.
UpdateGps == fed' = IF Measured # 0 THEN Measured ELSE fed

\* Up to send_cot the task does not wait: the event loop is blocked meanwhile.
Fuse(garbled) ==
  /\ ~ sending
  /\ IF detected THEN GetPosition(garbled)
     ELSE ~ garbled /\ UNCHANGED <<port, errors, last, failing>>
  /\ UpdateGps
  /\ sending' = TRUE
  /\ UNCHANGED <<world, detected>>

\* Sent, or lost without a word; then the task sleeps.
Sent ==
  /\ sending /\ sending' = FALSE
  /\ UNCHANGED <<world, detected, port, errors, last, fed, failing, gpsEvents>>

\* GPSInterface opens the port of a receiver that is there.
Opened == IF plugged THEN "open" ELSE "closed"

\* detect_hardware, once, when the program starts.
GpsInit ==
  /\ place = 1 /\ plugged \in BOOLEAN /\ fix \in BOOLEAN /\ gpsd \in {"fix", "absent"}
  /\ detected = plugged
  /\ port = Opened
  /\ errors = 0 /\ last = 0 /\ fed = 0 /\ sending = FALSE /\ failing = 0 /\ gpsEvents = 0

Work == (Fuse(FALSE) /\ UNCHANGED gpsEvents) \/ Sent

GpsNext == Move \/ Plug \/ Sky \/ Gpsd \/ (Fuse(TRUE) /\ GpsEvent) \/ Work

\* The event loop runs the task.
GpsSpec == GpsInit /\ [][GpsNext]_gpsVars /\ WF_gpsVars(Work)

-----------------------------------------------------------------------------
(* Properties.                                                             *)

\* Every variable keeps its type.
GpsTypeOK ==
  /\ place \in 1 .. MaxGpsEvents + 1 /\ {last, fed} \subseteq 0 .. place
  /\ {plugged, fix, detected, sending} \subseteq BOOLEAN
  /\ gpsd \in {"fix", "nofix", "absent"} /\ port \in {"open", "closed", "dead"}
  /\ {errors, failing} \subseteq 0 .. MaxErrors

\* The driver has failed MaxErrors times in a row: it does not try again.
GaveUp == port = "closed" /\ failing = MaxErrors

\* When the receiver that was there at the start is there for good and sees the
\* satellites, the fusion gets the place where the device is, however the
\* receiver had been pulled out before; unless the driver has given up
\* (reconnect_if_needed, get_position).  Without it, gpsd is enough.
FreshInTheEnd ==
  <>[]((IF detected THEN plugged /\ fix ELSE gpsd = "fix"))
    => <>[](fed = place \/ (detected /\ GaveUp))
=============================================================================
