------------------------------ MODULE Watchdog ------------------------------
(***************************************************************************)
(* The watchdog timers of the cores (deh/Watchdog.c, the build with SMP):  *)
(* hooks of the scheduler refresh the timer of the core they run on, and a *)
(* core other than 0 stops its timer while it is idle.  A timer that runs  *)
(* out raises an exception.  Deh (deh/Deh.c) reports exceptions and stops  *)
(* the core; the host hears of a timer that runs out from the timer, of    *)
(* any other exception from the mailbox.                                   *)
(***************************************************************************)
EXTENDS Naturals

CONSTANTS
  Cores,            \* 0 .. wdtCores - 1
  Time,             \* Watchdog_TIME_SEC, in ticks
  BootTime          \* Watchdog_BOOT_TIME_SEC

ASSUME WatchdogAssumption == 0 \in Cores /\ Time \in Nat /\ BootTime \in Nat /\ 0 < Time /\ Time <= BootTime

VARIABLES
  wdOn,             \* Watchdog_module->status: cores whose timer the host has enabled
  running,          \* cores whose timer is started (TCLR)
  left,             \* ticks before it runs out (TCRR)
  thread,           \* of each core: "idle", "busy", "stuck" in one thread, or "dead"
  since,            \* ticks since a hook ran on the core
  power,            \* "off" until Watchdog_init, "on", "asleep"
  fired,            \* cores whose timer has run out
  crashed           \* cores the mailbox has told the host of (RP_MSG_MBOX_CRASH)

wdVars == <<wdOn, running, left, thread, since, power, fired, crashed>>

WdInit ==
  /\ wdOn = {} /\ running = {} /\ left = [c \in Cores |-> Time]
  /\ thread = [c \in Cores |-> "busy"] /\ since = [c \in Cores |-> 0]
  /\ power = "off" /\ fired = {} /\ crashed = {}

\* initTimer for each of the cores, and the start.
InitTimers(on, ticks) ==
  /\ running' = on
  /\ left' = [c \in Cores |-> IF c \in on THEN ticks ELSE left[c]]
  /\ since' = [c \in Cores |-> 0]

Boot(on) ==
  /\ power = "off" /\ power' = "on"
  /\ wdOn' = on /\ InitTimers(on, BootTime)
  /\ UNCHANGED <<thread, fired, crashed>>

\* Watchdog_kick, _stop and _start do nothing where the timer is not enabled.
Kicked(c) == IF c \in wdOn THEN [left EXCEPT ![c] = Time] ELSE left

Hook(c, to) ==
  /\ power = "on" /\ thread[c] \notin {"stuck", "dead"}
  /\ thread' = [thread EXCEPT ![c] = to] /\ since' = [since EXCEPT ![c] = 0]
  /\ UNCHANGED <<wdOn, power, fired, crashed>>

\* (mutant) the timer is kicked only.
IdleBeginKick(c) == Hook(c, "idle") /\ left' = Kicked(c) /\ UNCHANGED running

\* Watchdog_idleBegin, at each turn of the idle loop
IdleBegin(c) ==
  /\ Hook(c, "idle")
  /\ IF c # 0 THEN running' = running \ {c} /\ UNCHANGED left
     ELSE left' = Kicked(c) /\ UNCHANGED running

\* Watchdog_swiPrehook and Watchdog_taskSwitch
Switch(c) ==
  /\ Hook(c, "busy") /\ left' = Kicked(c)
  /\ running' = IF c # 0 THEN running \cup ({c} \cap wdOn) ELSE running

\* A thread that leaves its core no more.
Stick(c) ==
  /\ power = "on" /\ thread[c] = "busy"
  /\ thread' = [thread EXCEPT ![c] = "stuck"]
  /\ UNCHANGED <<wdOn, running, left, since, power, fired, crashed>>

\* Suspend: the timers lose what they held.  Watchdog_restore is the callback.
WdSleep ==
  /\ power = "on" /\ \A c \in Cores : thread[c] \notin {"stuck", "dead"}
  /\ power' = "asleep" /\ running' = {}
  /\ UNCHANGED <<wdOn, left, thread, since, fired, crashed>>

\* (mutant) the timers are not started again.
RestoreNot ==
  /\ power = "asleep" /\ power' = "on" /\ UNCHANGED <<wdOn, running, left, since, thread, fired, crashed>>

\* A core that wakes is busy until it turns the idle loop.
Restore ==
  /\ power = "asleep" /\ power' = "on"
  /\ InitTimers(wdOn, Time)
  /\ thread' = [c \in Cores |-> "busy"]
  /\ UNCHANGED <<wdOn, fired, crashed>>

\* Deh_excHandler: the report goes to the trace, and the core stops for good.
\* Its timer is left to run out.
Exception(c, watchdog) ==
  /\ power = "on" /\ thread[c] # "dead" /\ (watchdog => c \in fired)
  /\ thread' = [thread EXCEPT ![c] = "dead"]
  /\ crashed' = IF watchdog THEN crashed ELSE crashed \cup {c}
  /\ UNCHANGED <<wdOn, running, left, since, power, fired>>

(* The promise of the system: core 0, and any other that is busy, passes a   *)
(* hook in time unless it is stuck.                                          *)
Due(c) == thread[c] = "busy" \/ (c = 0 /\ thread[c] = "idle")

Tick ==
  /\ power = "on"
  /\ \A c \in Cores : Due(c) => since[c] < Time - 1
  /\ left' = [c \in Cores |-> IF c \in running /\ left[c] > 0 THEN left[c] - 1 ELSE left[c]]
  /\ fired' = fired \cup {c \in running : left[c] <= 1}
  /\ since' = [c \in Cores |-> IF since[c] < Time THEN since[c] + 1 ELSE since[c]]
  /\ UNCHANGED <<wdOn, running, thread, power, crashed>>

WdNext ==
  \/ \E on \in SUBSET Cores : Boot(on)
  \/ \E c \in Cores : IdleBegin(c) \/ Switch(c) \/ Stick(c)
  \/ \E c \in Cores, watchdog \in BOOLEAN : Exception(c, watchdog)
  \/ WdSleep \/ Restore \/ Tick

WdSpec == WdInit /\ [][WdNext]_wdVars

\* Time passes, and who is due passes a hook.
TimePasses ==
  Tick \/ \E c \in Cores : since[c] = Time - 1 /\ (IdleBegin(c) \/ Switch(c))

WdTypeOK ==
  /\ wdOn \subseteq Cores /\ running \subseteq wdOn /\ fired \subseteq Cores
  /\ left \in [Cores -> 0 .. BootTime] /\ since \in [Cores -> 0 .. Time]
  /\ thread \in [Cores -> {"idle", "busy", "stuck", "dead"}] /\ power \in {"off", "on", "asleep"}

(* The exception is raised for a core that is stuck, and for no other: not   *)
(* for one that has been idle for long, nor after a suspend.                 *)
NoFalseAlarm == \A c \in fired : thread[c] \in {"stuck", "dead"}

(* No core dies without the host hearing of it, from the mailbox or from the *)
(* timer; and the mailbox speaks of the dead only.                           *)
DeathIsKnown ==
  /\ \A c \in Cores : thread[c] = "dead" => c \in crashed \cup fired
  /\ \A c \in crashed : thread[c] = "dead"

(* The timers run as set, the watchdog barks at who is stuck or dead only,   *)
(* and no core dies unheard.                                                 *)
WatchIsSound == WdTypeOK /\ NoFalseAlarm /\ DeathIsKnown
=============================================================================
