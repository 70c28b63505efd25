------------------------------- MODULE MCMenu -------------------------------
(* A menu of three levels like the shipped one: its main menu has a submenu, *)
(* the IO monitor and the alarm log; the submenu has two pages and an item of*)
(* each other type; the third level has two momentary items. One input, three*)
(* outputs, two alarms, one of them two lines high.                          *)
EXTENDS Menu

MCChildren == 0 :> <<1, 4, 6>> @@ 100 :> <<101, 103, 102, 104, 105>> @@ 420 :> <<421, 422>>

MCKind == 1 :> "submenu" @@ 4 :> "io_monitor" @@ 6 :> "submenu"
          @@ 101 :> "value" @@ 102 :> "submenu" @@ 103 :> "toggle" @@ 104 :> "list"
          @@ 105 :> "info" @@ 421 :> "momentary" @@ 422 :> "momentary"

MCTarget == 1 :> 100 @@ 6 :> 500 @@ 102 :> 420

MCHeight == [i \in DOMAIN MCKind |-> IF i = 103 THEN 32 ELSE 16]

MCLow == 101 :> 1
MCHigh == 101 :> 4
MCOptions == 104 :> 3
MCSteps == <<1, 2>>
MCRegisters == {0, 1, 3}

MCAlarms == {1, 2}
MCAlarmHeight == 1 :> 16 @@ 2 :> 32
=============================================================================
