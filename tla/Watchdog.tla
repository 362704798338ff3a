------------------------------ MODULE Watchdog ------------------------------
(***************************************************************************)
(* The watchdog of a device: the PTA that arms it (watchdogtimer.c), the   *)
(* client program that the heartbeat command runs (watchdog/host/main.c),  *)
(* and the timer itself.  Any number of client programs may run at once,   *)
(* but OP-TEE lets one call at a time into the PTA, whose flags do not say *)
(* that it is concurrent: testWDTOn() writes the timer's two registers one *)
(* after the other, and only the timer goes on in between.  No command     *)
(* turns the timer off: GPIO_OFF arms it as well.                          *)
(***************************************************************************)
EXTENDS Naturals, Sequences

CONSTANTS
  WdClient,     \* the runs of the client program that can overlap
  TIMEOUT,      \* what testWDTOn() writes to PM_WDOG (10)
  MaxCommands   \* bound: heartbeat commands that reach the device

ASSUME WatchdogAssumption ==
  /\ TIMEOUT \in Nat \ {0}
  /\ MaxCommands \in Nat

VARIABLES
  pm_wdog,      \* the timer's count
  pm_rstc,      \* "full" once a full reset is configured, else "none"
  wdpc,         \* where each client program is
  wdcmds,       \* the commands it has still to invoke
  commands,     \* heartbeat commands so far
  since         \* history: time since PM_WDOG was written, up to TIMEOUT

wdVars == <<pm_wdog, pm_rstc, wdpc, wdcmds, commands, since>>

GPIO_ON  == 0
GPIO_OFF == 1
PM_START == 2
TEST_PSEUDO_TA == 2

Armed == pm_rstc = "full"

WdInit ==
  /\ pm_wdog = 0 /\ pm_rstc = "none"
  /\ wdpc = [c \in WdClient |-> "idle"]
  /\ wdcmds = [c \in WdClient |-> <<>>]
  /\ commands = 0
  /\ since = 0
-----------------------------------------------------------------------------
\* The heartbeat's command runs optee_example_watchdog.
WdCommand(c) ==
  /\ wdpc[c] = "idle"
  /\ commands < MaxCommands
  /\ commands' = commands + 1
  /\ wdpc' = [wdpc EXCEPT ![c] = "open"]
  /\ wdcmds' = [wdcmds EXCEPT ![c] = <<TEST_PSEUDO_TA, GPIO_ON>>]
  /\ UNCHANGED <<pm_wdog, pm_rstc, since>>

WdOpenSession(c) ==
  /\ wdpc[c] = "open"
  /\ wdpc' = [wdpc EXCEPT ![c] = "invoke"]
  /\ UNCHANGED <<pm_wdog, pm_rstc, wdcmds, commands, since>>

\* errx(): no context or no session, and the timer is not armed.
WdExit(c) ==
  /\ wdpc[c] = "open"
  /\ wdpc' = [wdpc EXCEPT ![c] = "idle"]
  /\ wdcmds' = [wdcmds EXCEPT ![c] = <<>>]
  /\ UNCHANGED <<pm_wdog, pm_rstc, commands, since>>

\* A call is inside the PTA.
PtaBusy == \E c \in WdClient : wdpc[c] = "armed"

\* Slip: the reset is configured before the count is written.
WriteWdog_slip(c) ==
  /\ wdpc[c] = "invoke" /\ ~PtaBusy
  /\ Head(wdcmds[c]) \in {GPIO_ON, GPIO_OFF, PM_START}
  /\ pm_rstc' = "full"
  /\ wdpc' = [wdpc EXCEPT ![c] = "armed"]
  /\ UNCHANGED <<pm_wdog, wdcmds, commands, since>>

\* invoke_command() and the first write of testWDTOn().
WriteWdog(c) ==
  /\ wdpc[c] = "invoke" /\ ~PtaBusy
  /\ Head(wdcmds[c]) \in {GPIO_ON, GPIO_OFF, PM_START}
  /\ pm_wdog' = TIMEOUT
  /\ since' = 0
  /\ wdpc' = [wdpc EXCEPT ![c] = "armed"]
  /\ UNCHANGED <<pm_rstc, wdcmds, commands>>

\* The second write; after its second call the client program ends.
WriteRstc(c) ==
  /\ wdpc[c] = "armed"
  /\ pm_rstc' = "full"
  /\ wdcmds' = [wdcmds EXCEPT ![c] = Tail(@)]
  /\ wdpc' = [wdpc EXCEPT ![c] = IF Len(wdcmds[c]) > 1 THEN "invoke" ELSE "idle"]
  /\ UNCHANGED <<pm_wdog, commands, since>>
-----------------------------------------------------------------------------
(***************************************************************************)
(* The hardware: the timer counts once a reset is configured, and at zero  *)
(* the device is reset; no program on it goes on.                          *)
(***************************************************************************)
Expired == Armed /\ pm_wdog = 0

WdTick ==
  /\ ~Expired
  /\ Armed \/ since < TIMEOUT
  /\ pm_wdog' = IF Armed THEN pm_wdog - 1 ELSE pm_wdog
  /\ since' = IF since < TIMEOUT THEN since + 1 ELSE since
  /\ UNCHANGED <<pm_rstc, wdpc, wdcmds, commands>>

WdReset ==
  /\ Expired
  /\ pm_rstc' = "none" /\ pm_wdog' = 0 /\ since' = 0
  /\ wdpc' = [c \in WdClient |-> "idle"]
  /\ wdcmds' = [c \in WdClient |-> <<>>]
  /\ UNCHANGED commands

WdProgram(c) == WdOpenSession(c) \/ WdExit(c) \/ WriteWdog(c) \/ WriteRstc(c)

WdNext ==
  \/ \E c \in WdClient : WdCommand(c) \/ WdProgram(c)
  \/ WdTick \/ WdReset

WdSpec == WdInit /\ [][WdNext]_wdVars
-----------------------------------------------------------------------------
\* Type correctness of the registers and the client programs.
WdTypeOK ==
  /\ pm_wdog \in 0..TIMEOUT
  /\ pm_rstc \in {"none", "full"}
  /\ wdpc \in [WdClient -> {"idle", "open", "invoke", "armed"}]
  /\ wdcmds \in [WdClient -> Seq({GPIO_ON, GPIO_OFF, PM_START})]
  /\ \A c \in WdClient : wdpc[c] # "idle" <=> wdcmds[c] # <<>>
  /\ commands \in 0..MaxCommands
  /\ since \in 0..TIMEOUT

\* The timer resets the device only when no client program has loaded it for the
\* whole of its time: not when one is between its two writes or its two calls, nor
\* when it has loaded a timer that another armed and that is about to expire.
ResetOnlyWhenSilent == Expired => since = TIMEOUT

\* The inductive invariant: time that has passed and time left make up TIMEOUT,
\* and nobody configures a reset before there is a count to go down.
WdInv ==
  /\ WdTypeOK
  /\ (Armed \/ PtaBusy) => pm_wdog + since >= TIMEOUT
=============================================================================
