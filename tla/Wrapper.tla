------------------------------ MODULE Wrapper ------------------------------
(***************************************************************************)
(* run_bot.sh around main(): the bot is launched, refuses its settings or  *)
(* runs, ends for any reason, and is launched again after a pause that     *)
(* grows once too many runs in a row were short.  The .env file may be     *)
(* edited between launches.  Time is counted in ticks.                     *)
(*                                                                         *)
(* Bash runs a trap when the command in the foreground has returned.       *)
(* Ctrl+C reaches that command as well, a TERM sent to the wrapper does    *)
(* not: the bot, or the sleep, goes on to its own end first.               *)
(***************************************************************************)
EXTENDS Integers

CONSTANTS
  MaxFast,      \* MAX_FAST_RESTARTS
  Window,       \* FAST_RESTART_WINDOW
  Backoff,      \* BACKOFF_SECONDS
  NormalDelay,  \* NORMAL_RESTART_DELAY
  Required,     \* the settings validate() insists on
  FirstPool,    \* TERRASWAP_POOL_1
  SecondPool,   \* TERRASWAP_POOL_2
  Envs,         \* the .env files the operator may write: Required -> values
  Empty         \* a setting that is not filled in

ASSUME WrapperAssumption ==
  /\ MaxFast \in Nat \ {0}
  /\ Window \in Nat \ {0}
  /\ Backoff \in Nat
  /\ NormalDelay \in Nat
  /\ {FirstPool, SecondPool} \subseteq Required

VARIABLES
  bot,        \* "running", "pausing" (the wrapper sleeps) or "stopped"
  env,        \* the .env file
  refused,    \* this run found its settings wanting
  ran,        \* ticks the bot has run for, up to Window
  pause,      \* ticks left to sleep
  fast,       \* fast_restart_count
  signal,     \* "none", or the signal waiting for the trap: "int", "term"
  since,      \* history: ticks since the last launch, up to Long
  burst       \* history: launches in a row that each came less than Long
              \* after the one before

wrapperVars == <<bot, env, refused, ran, pause, fast, signal, since, burst>>

Least(a, b) == IF a < b THEN a ELSE b

(* Two launches this far apart are no longer part of a burst.              *)
Long == Least(Window + NormalDelay, Backoff)

(* config.validate: everything that is not filled in, and two pools that   *)
(* are the same one.                                                       *)
Blank(e) == {s \in Required : e[s] = Empty}

Complaints(e) ==
  Blank(e) \cup
    (IF e[FirstPool] # Empty /\ e[FirstPool] = e[SecondPool]
     THEN {FirstPool, SecondPool} ELSE {})

WrapperInit ==
  /\ bot = "running"
  /\ env \in Envs
  /\ refused = (Complaints(env) # {})
  /\ ran = 0 /\ pause = 0 /\ fast = 0
  /\ signal = "none"
  /\ since = 0 /\ burst = 0

(* The run that has just ended, counted.                                   *)
CountedTo(n) == IF ran < Window THEN n + 1 ELSE 0

BackoffLate(n) == IF n > MaxFast THEN Backoff ELSE NormalDelay

RestartDelay(n) == IF n >= MaxFast THEN Backoff ELSE NormalDelay

(* The bot ends: validate() raised SystemExit, an error outside run_once's *)
(* try, a kill, Ctrl+C.  A pending trap runs here.                         *)
BotExits ==
  /\ bot = "running"
  /\ IF signal # "none"
     THEN /\ bot' = "stopped"
          /\ UNCHANGED <<fast, pause>>
     ELSE /\ bot' = "pausing"
          /\ fast' = CountedTo(fast)
          /\ pause' = RestartDelay(CountedTo(fast))
  /\ UNCHANGED <<env, refused, ran, signal, since, burst>>

(* The count starts over after the back-off.                               *)
CountAfterPause == IF fast >= MaxFast THEN 0 ELSE fast

(* The sleep is over and the loop comes round: the bot reads its settings. *)
Launch ==
  /\ bot = "pausing" /\ pause = 0 /\ signal = "none"
  /\ bot' = "running"
  /\ refused' = (Complaints(env) # {})
  /\ ran' = 0
  /\ fast' = CountAfterPause
  /\ burst' = IF since < Long THEN burst + 1 ELSE 0
  /\ since' = 0
  /\ UNCHANGED <<env, pause, signal>>

(* The trap runs in place of the next launch; Ctrl+C ends the sleep too.   *)
TrapAfterSleep ==
  /\ bot = "pausing"
  /\ signal = "int" \/ (signal = "term" /\ pause = 0)
  /\ bot' = "stopped"
  /\ UNCHANGED <<env, refused, ran, pause, fast, signal, since, burst>>

Interrupt ==
  /\ bot # "stopped" /\ signal = "none"
  /\ signal' \in {"int", "term"}
  /\ UNCHANGED <<bot, env, refused, ran, pause, fast, since, burst>>

EditEnv ==
  /\ bot # "stopped"
  /\ env' \in Envs \ {env}
  /\ UNCHANGED <<bot, refused, ran, pause, fast, signal, since, burst>>

(* A run that refuses its settings ends at once; a sleep ends on time.     *)
WrapperTick ==
  /\ bot = "running" => ~refused
  /\ bot = "pausing" => pause > 0 /\ signal # "int"
  /\ bot # "stopped"
  /\ ran' = IF bot = "running" THEN Least(ran + 1, Window) ELSE ran
  /\ pause' = IF bot = "pausing" THEN pause - 1 ELSE pause
  /\ since' = Least(since + 1, Long)
  /\ UNCHANGED <<bot, env, refused, fast, signal, burst>>

WrapperNext ==
  BotExits \/ Launch \/ TrapAfterSleep \/ Interrupt \/ EditEnv \/ WrapperTick

WrapperSpec == WrapperInit /\ [][WrapperNext]_wrapperVars

-----------------------------------------------------------------------------

WrapperTypeOK ==
  /\ bot \in {"running", "pausing", "stopped"}
  /\ env \in Envs
  /\ refused \in BOOLEAN
  /\ ran \in 0..Window
  /\ pause \in 0..(Backoff + NormalDelay)
  /\ fast \in 0..MaxFast
  /\ signal \in {"none", "int", "term"}
  /\ since \in 0..Long
  /\ burst \in Nat

(* A bot that dies at every start is not relaunched in a tight loop, and   *)
(* neither the reset of the count by one slow run nor the one after the    *)
(* back-off opens a way round it: of MaxFast launches in a row at least    *)
(* one comes a full window, or a back-off, after the one before it.  This  *)
(* is the header's "backs off instead of burning CPU/API calls in a tight  *)
(* crash loop".                                                            *)
BurstIsBounded == burst < MaxFast
=============================================================================
