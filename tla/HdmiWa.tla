------------------------------- MODULE HdmiWa -------------------------------
(***************************************************************************)
(* The audio workaround of HDMI (hdmiwa/HdmiWa.c).  ACR pulses come every  *)
(* CTS interval; one of them is to pass in each period of the tick timer.  *)
(* The timer's interrupt is the tick of the system's clock as well: while  *)
(* the workaround waits for a match of the counter, the overflow interrupt *)
(* is off, and a match that never comes would stop the clock.              *)
(*                                                                         *)
(* Registers of the timer count up to 0, the overflow; they are written as *)
(* negative numbers.  An interrupt is taken within Latency cycles.  The    *)
(* timer's driver in BIOS, the pulse generator and the host are external.  *)
(***************************************************************************)
EXTENDS Integers, Watchdog

CONSTANTS
  ClockPeriod,      \* Clock_tickPeriod, in cycles of the timer
  Payloads,         \* [period, cts] as the host's ctsInterval and acrRate give them
  Delta,            \* ctsIntervalDelta
  Latency,
  HostStopsFirst,   \* the host sends no payload while the workaround runs
  MaxPayloads

TimerPeriods == {ClockPeriod} \cup {p.period : p \in Payloads}

(* Two matches and the wait before them fit into a period, the packets go    *)
(* on and off again between two pulses that do not pass, and a match set     *)
(* under one period is reached under another.  The code tests none of these. *)
ASSUME HdmiAssumption ==
  /\ {ClockPeriod, Delta, Latency} \subseteq Nat
  /\ Payloads \subseteq [period : Nat, cts : Nat \ {0, 1}]
  /\ \A p \in Payloads : \A period, other \in TimerPeriods :
       /\ 2 * Latency + Delta + p.cts \div 2 + p.cts < period
       /\ 2 * Latency < p.cts - p.cts \div 2
       /\ period - Delta - p.cts \div 2 <= other /\ period - p.cts <= other

VARIABLES
  waEnable, acrOff, matchTmrEnable, gptTcrrHalfCts, gptTcrrFullCts,
                    \* Module_State
  tldr, tcrr, tmar, tier, tisr,     \* the timer; tmar is 0 when nothing matches
  acr,              \* HDMI_NCTSPKT_EN of HDMI_ACR_CTRL
  freq,             \* HDMI_FREQ_SVAL
  hdPc, payload,    \* of the task
  overdue,          \* cycles the interrupt has been waiting
  cts, toPulse,     \* the pulse generator: its interval, cycles to the next pulse
  passed, whole,    \* pulses passed since the last overflow; is it a period of the workaround?
  started, payloads \* the host: has it triggered, and not stopped since? payloads sent

timerVars == <<tldr, tcrr, tmar, tier, tisr, overdue>>
pulseVars == <<cts, toPulse, passed, whole>>
stateVars == <<waEnable, acrOff, matchTmrEnable, gptTcrrHalfCts, gptTcrrFullCts>>
hdVars == <<stateVars, timerVars, acr, freq, hdPc, payload, pulseVars, started, payloads>>

Intervals == {p.cts : p \in Payloads}

HdInit ==
  /\ waEnable = FALSE /\ matchTmrEnable = FALSE /\ acrOff = TRUE
  /\ gptTcrrHalfCts = 0 /\ gptTcrrFullCts = 0
  /\ tldr = -ClockPeriod /\ tcrr = -ClockPeriod /\ tmar = 0
  /\ tier = {"OVF"} /\ tisr = {} /\ overdue = 0
  /\ acr = FALSE /\ freq = 128
  /\ hdPc = "recv" /\ payload \in Payloads
  /\ cts \in Intervals /\ toPulse = cts /\ passed = 0 /\ whole = FALSE
  /\ started = FALSE /\ payloads = 0

Raised == tisr \cap tier # {}

\* A cycle of the timer.  A pulse passes when packets are on.
Cycle ==
  /\ Raised => overdue < Latency
  /\ overdue' = IF Raised THEN overdue + 1 ELSE 0
  /\ tcrr' = IF tcrr = -1 THEN tldr ELSE tcrr + 1
  /\ tisr' = tisr \cup (IF tcrr = -1 THEN {"OVF"} ELSE {})
                  \cup (IF tcrr' = tmar THEN {"MAT"} ELSE {})
  /\ toPulse' = IF toPulse = 1 THEN cts ELSE toPulse - 1
  /\ passed' = IF toPulse = 1 /\ acr THEN passed + 1 ELSE passed
  /\ UNCHANGED <<stateVars, tldr, tmar, tier, acr, freq, hdPc, payload, cts, whole,
                 started, payloads>>

-----------------------------------------------------------------------------
(* The interrupt.  The driver acknowledges whatever is pending. *)

\* HdmiWa_matchTmrStart: it is the reload value that the load is added to, in the test.
MatchTmrStart(load, now) ==
  LET fits == tldr + load < 0 IN
  /\ matchTmrEnable' = fits
  /\ tmar' = IF fits THEN now + load ELSE 0
  /\ tier' = IF fits THEN {"MAT"} ELSE tier \ {"MAT"}

\* The write of HDMI_FREQ_SVAL restarts the pulses; the ISR returns at one of them.
AutoRldTmrIsr ==
  /\ passed' = 0 /\ whole' = waEnable
  /\ IF waEnable
     THEN /\ freq' = 128
          /\ tcrr' = IF tcrr + Delta < 0 THEN tcrr + Delta ELSE tcrr
          /\ MatchTmrStart(gptTcrrHalfCts, tcrr')
          /\ acrOff' = TRUE /\ toPulse' = cts
     ELSE UNCHANGED <<freq, tcrr, matchTmrEnable, tmar, tier, acrOff, toPulse>>
  /\ UNCHANGED acr

\* (mutant) the match interrupt stays on.
MatchTmrIsrStays ==
  /\ IF acrOff
     THEN MatchTmrStart(gptTcrrFullCts, tcrr) /\ acr' = TRUE /\ acrOff' = FALSE
     ELSE /\ matchTmrEnable' = FALSE /\ tmar' = 0 /\ UNCHANGED tier
          /\ acr' = FALSE /\ acrOff' = TRUE
  /\ UNCHANGED <<passed, whole, freq, tcrr, toPulse>>

MatchTmrIsr ==
  /\ IF acrOff
     THEN MatchTmrStart(gptTcrrFullCts, tcrr) /\ acr' = TRUE /\ acrOff' = FALSE
     ELSE /\ matchTmrEnable' = FALSE /\ tmar' = 0 /\ tier' = {"OVF"}
          /\ acr' = FALSE /\ acrOff' = TRUE
  /\ UNCHANGED <<passed, whole, freq, tcrr, toPulse>>

HdmiTick ==
  /\ Raised /\ tisr' = {} /\ overdue' = 0
  /\ IF matchTmrEnable THEN MatchTmrIsr ELSE AutoRldTmrIsr
  /\ UNCHANGED <<waEnable, gptTcrrHalfCts, gptTcrrFullCts, tldr, hdPc, payload, cts, started, payloads>>

-----------------------------------------------------------------------------
(* The task: a payload that sets the workaround up, one that stops it, or    *)
(* the trigger.                                                              *)
Receives ==
  /\ hdPc = "recv" /\ payloads < MaxPayloads /\ payloads' = payloads + 1
  /\ UNCHANGED <<acrOff, matchTmrEnable, gptTcrrHalfCts, gptTcrrFullCts, timerVars, acr, freq,
                 cts, toPulse, passed>>

RecvSetup(p) ==
  /\ HostStopsFirst => ~started
  /\ Receives /\ payload' = p /\ hdPc' = "sync" /\ UNCHANGED <<waEnable, whole, started>>

RecvStop ==
  Receives /\ waEnable' = FALSE /\ hdPc' = "stop" /\ whole' = FALSE /\ started' = FALSE
  /\ UNCHANGED payload

RecvTrigger ==
  /\ gptTcrrFullCts # 0
  /\ Receives /\ waEnable' = TRUE /\ started' = TRUE /\ UNCHANGED <<hdPc, payload, whole>>

TaskDoes(from, to) ==
  /\ hdPc = from /\ hdPc' = to
  /\ UNCHANGED <<waEnable, acrOff, matchTmrEnable, tmar, tier, tisr, overdue, payload,
                 passed, whole, started, payloads>>

\* Packets off; the pulses come in the new interval from here.
Sync ==
  /\ TaskDoes("sync", "spin")
  /\ acr' = FALSE /\ freq' = 1024 /\ cts' = payload.cts /\ toPulse' = payload.cts
  /\ UNCHANGED <<gptTcrrHalfCts, gptTcrrFullCts, tldr, tcrr>>

\* while (REG32(HDMI_FREQ_SVAL) != ...): an interrupt in between may undo the write.
Spin ==
  /\ freq = 1024
  /\ TaskDoes("spin", "half") /\ freq' = 128
  /\ UNCHANGED <<gptTcrrHalfCts, gptTcrrFullCts, tldr, tcrr, acr, cts, toPulse>>

SetHalf ==
  /\ TaskDoes("half", "full") /\ gptTcrrHalfCts' = payload.cts \div 2
  /\ UNCHANGED <<gptTcrrFullCts, tldr, tcrr, acr, freq, cts, toPulse>>

SetFull ==
  /\ TaskDoes("full", "period") /\ gptTcrrFullCts' = payload.cts
  /\ UNCHANGED <<gptTcrrHalfCts, tldr, tcrr, acr, freq, cts, toPulse>>

\* Timer_setPeriodMicroSecs
SetTimer(from, period) ==
  /\ TaskDoes(from, "start") /\ tldr' = -period
  /\ UNCHANGED <<gptTcrrHalfCts, gptTcrrFullCts, tcrr, acr, freq, cts, toPulse>>

SetPeriod == SetTimer("period", payload.period) \/ SetTimer("stop", ClockPeriod)

\* Timer_start, and the answer to the host.
StartTimer ==
  /\ TaskDoes("start", "recv") /\ tcrr' = tldr
  /\ UNCHANGED <<gptTcrrHalfCts, gptTcrrFullCts, tldr, acr, freq, cts, toPulse>>

HdTask == Sync \/ Spin \/ SetHalf \/ SetFull \/ SetPeriod \/ StartTimer

HdNext ==
  \/ Cycle \/ HdmiTick \/ HdTask
  \/ (\E p \in Payloads : RecvSetup(p)) \/ RecvStop \/ RecvTrigger

HdTime == Cycle \/ HdmiTick

HdSpec == HdInit /\ [][HdNext]_hdVars /\ WF_hdVars(HdTime) /\ WF_hdVars(HdTask)

-----------------------------------------------------------------------------
HdTypeOK ==
  /\ {waEnable, acrOff, matchTmrEnable, acr, whole} \subseteq BOOLEAN
  /\ tier \in SUBSET {"OVF", "MAT"} /\ tisr \in SUBSET {"OVF", "MAT"}
  /\ -tldr \in TimerPeriods /\ tcrr < 0 /\ tmar <= 0
  /\ toPulse \in 1 .. cts /\ overdue \in 0 .. Latency

(* The system keeps its clock: the timer's interrupt is on, and if it is the *)
(* match that is waited for, the counter will come to it.                    *)
TimerIsHeard ==
  \/ "OVF" \in tier
  \/ "MAT" \in tier /\ matchTmrEnable
     /\ ("MAT" \in tisr \/ tcrr < tmar \/ tldr <= tmar) /\ tmar < 0

(* "Let pass one and only one ACR pulse in a fix period window" (HdmiWa.xdc): *)
(* never two, and one by the end of a window of the workaround.  A stop may   *)
(* come while packets are on, and restarts the timer: more may pass then.     *)
OnePulsePasses ==
  whole => passed <= 1 /\ ("OVF" \in tisr \cap tier => passed = 1)

(* The timers run as set: the watchdog's and the one that is the clock's and *)
(* that of the audio workaround.                                             *)
TimersAreSound == WatchIsSound /\ HdTypeOK /\ TimerIsHeard /\ OnePulsePasses
=============================================================================
