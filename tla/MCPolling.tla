----------------------------- MODULE MCPolling ------------------------------
(* A coil that is an item of one page and an output on a page of the IO        *)
(* monitor, and the alarm register, which is read on its own: each round needs *)
(* one read more than the queue takes. The slave makes and clears two alarms,  *)
(* and switches the coil off; it is switched on by the user only.              *)
EXTENDS Polling

MCAlarm  == [addr |-> 7, type |-> "WORD"]
MCCoil   == [addr |-> 1, type |-> "BIT"]
AlarmKey == <<"READ_HOLDING_REGISTERS", 7>>
CoilKey  == <<"READ_COILS", 1>>

MCPages    == [settings |-> <<MCCoil>>, outputs |-> <<MCCoil>>]
MCItems    == [settings |-> {MCCoil}, outputs |-> {MCCoil}]
MCMonitors == {"outputs"}

MCAlarms  == 0 .. 2
MCDevices == {[k \in {AlarmKey, CoilKey} |-> IF k = AlarmKey THEN alarm ELSE 0] : alarm \in MCAlarms}
MCChanges == {<<AlarmKey, alarm>> : alarm \in MCAlarms} \cup {<<CoilKey, 0>>}
=============================================================================
