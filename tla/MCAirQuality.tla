------------------------------ MODULE MCAirQuality ------------------------------
(* An instance of AirQuality for TLC: the host's clock may run ahead, and  *)
(* be set back; the sample of one minute is malformed.                     *)
EXTENDS AirQualityHistory

CONSTANTS b1

MCSkews == {0, 1, 2}
MCMalformed == {<<b1, 2>>}
================================================================================
