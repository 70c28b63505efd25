---------------------------- MODULE PowerManager ----------------------------
(***************************************************************************)
(* drv_pm.c and the chord of bsp.c, in the build for the wired panel. The  *)
(* tick interrupt notes that the panel is operated, and every 10 ms asks   *)
(* for a suspend, or switches the panel off, when it was not for too long, *)
(* or when F2 is held and F5 or F6 pressed. The main loop carries out what *)
(* is asked for: a suspended panel stays in pm_suspend until a key is      *)
(* pressed.                                                                *)
(*                                                                         *)
(* Times are in periods of 10 ms, as ages of the stored ticks.             *)
(***************************************************************************)
EXTENDS KeyDriver, Integers

CONSTANTS
  SuspendPeriod,    (* SUSPEND_PERIOD: 5 minutes                            *)
  ShutdownPeriod,   (* SHUTDOWN_PERIOD: 15 minutes                          *)
  ChordPeriod       (* 5 seconds                                            *)

ASSUME PeriodsAssumption ==
  /\ SuspendPeriod \in Nat /\ ShutdownPeriod \in Nat /\ ChordPeriod \in Nat
  /\ SuspendPeriod < ShutdownPeriod

VARIABLES
  dont_sleep,   (* operated since the last period                           *)
  pm_req,       (* 0: nothing asked for, 1: suspend                         *)
  idle,         (* age of last_tick in pm_sleep_scan                        *)
  chord,        (* age of last_tick in bsp_RunPer10ms                       *)
  pc,           (* where the main loop is                                   *)
  lastVal       (* pm_suspend: were function or matrix keys down last       *)

pvars == <<dont_sleep, pm_req, idle, chord>>

NotSet == -1

NoVal == [funkey |-> FALSE, mtxkey |-> FALSE]

PowerTypeOK ==
  /\ dont_sleep \in BOOLEAN
  /\ pm_req \in 0 .. 1
  /\ idle \in NotSet .. ShutdownPeriod + 1
  /\ chord \in NotSet .. ChordPeriod + 1
  /\ pc \in {"loop", "scan", "events", "check", "switch", "suspend", "asleep", "resume"}
  /\ lastVal \in [funkey : BOOLEAN, mtxkey : BOOLEAN]

PowerInit ==
  /\ dont_sleep = FALSE
  /\ pm_req = 0
  /\ idle = NotSet
  /\ chord = NotSet

-----------------------------------------------------------------------------
(* The tick interrupt. *)

(* pm_sleep_scan: operated says whether dont_sleep was set *)
IdleAge(operated) ==
  IF operated \/ idle = NotSet THEN 0 ELSE AtMost(idle + 1, ShutdownPeriod + 1)

IdleShutdown(operated, vbus) == ~operated /\ ~vbus /\ IdleAge(operated) > ShutdownPeriod

IdleRequestKept(operated) ==
  IF ~operated /\ IdleAge(operated) > SuspendPeriod THEN 1 ELSE pm_req

IdleRequestOnce(operated) ==
  CASE operated -> 0
    [] ~operated /\ IdleAge(operated) = SuspendPeriod + 1 -> 1
    [] OTHER -> pm_req

IdleRequest(operated) ==
  CASE operated -> 0
    [] ~operated /\ IdleAge(operated) > SuspendPeriod -> 1
    [] OTHER -> pm_req

(* bsp_RunPer10ms: F2 held long enough, and then F5 or F6 *)
ChordHeld(down)     == chord # NotSet /\ F2 \in down /\ chord + 1 > ChordPeriod
ChordSuspend(down)  == ChordHeld(down) /\ F5 \in down
ChordShutdown(down) == ChordHeld(down) /\ F5 \notin down /\ F6 \in down

ChordAge(down) ==
  IF chord = NotSet \/ F2 \notin down \/ ChordSuspend(down) THEN 0
  ELSE AtMost(chord + 1, ChordPeriod + 1)

SwitchesOff(operated, down, vbus) == IdleShutdown(operated, vbus) \/ ChordShutdown(down)

(* bsp_RunPer10ms, when it returns: pm_shutdown does not *)
RunPer10ms(operated, down) ==
  /\ idle' = IdleAge(operated)
  /\ chord' = ChordAge(down)
  /\ pm_req' = IF ChordSuspend(down) THEN 1 ELSE IdleRequest(operated)
  /\ dont_sleep' = FALSE
-----------------------------------------------------------------------------
(* The main loop: pm_handler. The mutex of the WiFi module, which it tries   *)
(* between the two looks at pm_req, is always free in this build.            *)
Goto(p) == pc' = p

Check ==
  /\ pc = "check"
  /\ Goto(IF pm_req = 0 THEN "loop" ELSE "switch")
  /\ UNCHANGED <<pvars, lastVal>>

Suspend ==
  /\ pc = "switch" /\ pm_req = 1
  /\ Goto("suspend")
  /\ UNCHANGED <<pvars, lastVal>>

(* any other value, 0 among them, is the default of the switch: pm_shutdown *)
SwitchShutdown == pc = "switch" /\ pm_req # 1

(* pm_suspend: the keys that are down when it starts do not wake the panel *)
FallAsleep(val) ==
  /\ pc = "suspend"
  /\ Goto("asleep")
  /\ lastVal' = val
  /\ UNCHANGED pvars

KeyEdge(val) == (~lastVal.funkey /\ val.funkey) \/ (~lastVal.mtxkey /\ val.mtxkey)

PollFirstVal(val) ==
  /\ pc = "asleep"
  /\ ~KeyEdge(val)
  /\ UNCHANGED <<pc, pvars, lastVal>>

Poll(val) ==
  /\ pc = "asleep"
  /\ ~KeyEdge(val)
  /\ lastVal' = val
  /\ UNCHANGED <<pc, pvars>>

Wake(val) ==
  /\ pc = "asleep"
  /\ KeyEdge(val)
  /\ Goto("resume")
  /\ lastVal' = NoVal
  /\ UNCHANGED pvars

(* pm_resume, and the request is over *)
Resume ==
  /\ pc = "resume"
  /\ Goto("loop")
  /\ pm_req' = 0
  /\ UNCHANGED <<dont_sleep, idle, chord, lastVal>>
=============================================================================
