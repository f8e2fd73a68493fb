------------------------------- MODULE MCTouch -------------------------------
(* A corner, a place on the screen and a virtual key; each driver.         *)
EXTENDS Touch

const_Pos == {<<0, 0>>, <<2, 1>>, <<2, 2>>}
const_Orders == {<<Screen, Keypad, Sensor>>, <<Sensor, Keypad, Screen>>}
const_KeyArea == {<<2, 2>>}

=============================================================================
