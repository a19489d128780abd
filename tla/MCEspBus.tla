------------------------------- MODULE MCEspBus -------------------------------
(* EspBus with one distance on each side of the thresholds and one on the  *)
(* nearer threshold itself.                                                *)
EXTENDS EspBus

MCDistances == {100, 200, 1000, 2000}
===============================================================================
