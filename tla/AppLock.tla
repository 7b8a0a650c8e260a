------------------------------- MODULE AppLock -------------------------------
(* The gesture lock of the native App (useAppLockController): its           *)
(* configuration in memory and in the keychain, the screen in front of the  *)
(* App, the lock after a time without touches, the settings that change it, *)
(* and the reset of a forgotten gesture.  The keychain carries out what it   *)
(* is asked in order and may fail; the process may end at any time.         *)
EXTENDS Naturals, Sequences

CONSTANTS
  Gestures,
  AutoLocks,      \* autoLockOption: a number of periods, or Never
  Never, NoGesture, NoConfig,
  DefaultAuto,
  MaxAge,         \* bound on the periods told apart
  MaxWrites,      \* bound on the writes under way
  MaxKeychainFailures, MaxStarts

ASSUME AppLockAssumption ==
  /\ {MaxAge, MaxWrites, MaxKeychainFailures, MaxStarts} \subseteq Nat
  /\ DefaultAuto \in AutoLocks /\ Never \in AutoLocks
  /\ \A o \in AutoLocks \ {Never} : o \in 1..MaxAge
  /\ NoGesture \notin Gestures

VARIABLES
  lockMode,   \* appLockMode
  setup,      \* gestureSetupMode
  action,     \* pendingSecurityAction
  lock,       \* appLockConfigRef: [initialized, enabled, gesture, auto]
  age,        \* periods since lastInteractionAt
  asleep,     \* the App is in the background
  reset,      \* the reset of a forgotten gesture: how far it is
  paired,     \* pairings are stored
  stored,     \* the keychain's configuration, or NoConfig
  writes,     \* what the keychain has still to do
  stale,      \* the keychain missed a write, or the deletions of a reset and the
              \* App's memory went apart
  keychainFailures, starts,
  proven      \* the user has proven who they are since the App was last locked

lockVars == <<lockMode, setup, action, lock, age, asleep, reset, paired, stored, writes,
              stale, keychainFailures, starts, proven>>

Configs == [initialized : BOOLEAN, enabled : BOOLEAN,
            gesture : Gestures \cup {NoGesture}, auto : AutoLocks]

ASSUME NothingStored == NoConfig \notin Configs

DefaultConfig ==
  [initialized |-> FALSE, enabled |-> FALSE, gesture |-> NoGesture, auto |-> DefaultAuto]

NoReset == [step |-> "none", left |-> {}]

LockInit ==
  /\ lockMode = "loading" /\ setup = "none" /\ action = "none"
  /\ lock = DefaultConfig /\ age = 0 /\ asleep = FALSE /\ reset = NoReset
  /\ paired = TRUE /\ stored = NoConfig /\ writes = <<>> /\ stale = FALSE
  /\ keychainFailures = 0 /\ starts = 0 /\ proven = FALSE

\* The screens of the lock come before those of the App.
ShowingLock ==
  \/ action # "none" \/ setup # "none"
  \/ lockMode \in {"loading", "unavailable", "firstRunPrompt", "locked"}

Inactive == lock.enabled /\ lock.auto # Never /\ age >= lock.auto

\* The mode after a check of the inactivity.
LockIfInactive == IF lockMode = "unlocked" /\ Inactive THEN "locked" ELSE lockMode

\* persistAppLockConfig: memory at once, the keychain when it comes to it.
Persist(c) ==
  /\ Len(writes) < MaxWrites
  /\ lock' = c /\ writes' = Append(writes, c) /\ UNCHANGED stale

Unpersisted == UNCHANGED <<lock, writes, stale>>

-----------------------------------------------------------------------------
(* The start, and the first run.                                           *)

ModeOf(c) ==
  IF ~c.initialized THEN "firstRunPrompt" ELSE IF c.enabled THEN "locked" ELSE "disabled"

Normalized == IF stored = NoConfig THEN DefaultConfig ELSE stored

\* loadAppLockConfig: until it has answered the App shows nothing.
LoadLock ==
  /\ lockMode = "loading"
  /\ \/ /\ lock' = Normalized /\ lockMode' = ModeOf(Normalized)
        /\ UNCHANGED keychainFailures
     \/ /\ keychainFailures < MaxKeychainFailures
        /\ keychainFailures' = keychainFailures + 1
        /\ lockMode' = "unavailable" /\ UNCHANGED lock
  /\ UNCHANGED <<setup, action, age, asleep, reset, paired, stored, writes, stale, starts, proven>>

RetryLoad ==
  /\ ~asleep /\ lockMode = "unavailable" /\ lockMode' = "loading"
  /\ UNCHANGED <<setup, action, age, asleep, reset, paired, stored, keychainFailures, starts, proven>>
  /\ Unpersisted

SkipFirstSetup ==
  /\ ~asleep /\ lockMode = "firstRunPrompt" /\ setup \in {"none", "firstRun"}
  /\ Persist([DefaultConfig EXCEPT !.initialized = TRUE])
  /\ setup' = "none" /\ lockMode' = "disabled"
  /\ UNCHANGED <<action, age, asleep, reset, paired, stored, keychainFailures, starts, proven>>

\* A setup is opened by the first run or by the settings; closed, it leaves all
\* as it was.
OpenSetup ==
  /\ ~asleep /\ setup = "none" /\ action = "none"
  /\ \/ lockMode = "firstRunPrompt" /\ setup' = "firstRun"
     \/ ~ShowingLock /\ ~lock.enabled /\ setup' = "enable"
  /\ UNCHANGED <<lockMode, action, age, asleep, reset, paired, stored, keychainFailures, starts, proven>>
  /\ Unpersisted

CloseSetup ==
  /\ ~asleep /\ setup \in {"enable", "change"} /\ action = "none"
  /\ setup' = "none"
  /\ UNCHANGED <<lockMode, action, age, asleep, reset, paired, stored, keychainFailures, starts, proven>>
  /\ Unpersisted

\* handleCompleteGestureSetup: the gesture was drawn twice.
CompleteSetup(g) ==
  /\ ~asleep /\ setup # "none" /\ action = "none"
  /\ Persist([lock EXCEPT !.initialized = TRUE, !.enabled = TRUE, !.gesture = g])
  /\ setup' = "none" /\ action' = "none" /\ lockMode' = "unlocked" /\ age' = 0 /\ proven' = TRUE
  /\ UNCHANGED <<asleep, reset, paired, stored, keychainFailures, starts>>

-----------------------------------------------------------------------------
(* Settings and unlocking.                                                 *)

AskAction(a) ==
  /\ ~asleep /\ ~ShowingLock /\ lock.enabled
  /\ action' = a
  /\ UNCHANGED <<lockMode, setup, age, asleep, reset, paired, stored, keychainFailures, starts, proven>>
  /\ Unpersisted

CancelAction ==
  /\ ~asleep /\ action # "none" /\ action' = "none"
  /\ UNCHANGED <<lockMode, setup, age, asleep, reset, paired, stored, keychainFailures, starts, proven>>
  /\ Unpersisted

ConfirmAutoLock(o) ==
  /\ ~asleep /\ ~ShowingLock /\ lock.enabled
  /\ Persist([lock EXCEPT !.auto = o])
  /\ UNCHANGED <<lockMode, setup, action, age, asleep, reset, paired, stored,
                 keychainFailures, starts, proven>>

\* handleUnlockGesture with the right gesture; a wrong one changes nothing.
\* What was asked in the settings comes before unlocking.
UnlockGesture(g) ==
  /\ ~asleep
  /\ action # "none" \/ (setup = "none" /\ lockMode = "locked")
  /\ reset.step \in {"none", "clearing"}
  /\ lock.gesture = g
  /\ action' = "none" /\ proven' = TRUE
  /\ \/ /\ action = "disable"
        /\ Persist([lock EXCEPT !.enabled = FALSE, !.gesture = NoGesture])
        /\ lockMode' = "disabled" /\ age' = 0 /\ UNCHANGED setup
     \/ /\ action = "change"
        /\ setup' = "change" /\ UNCHANGED <<lockMode, age>> /\ Unpersisted
     \/ /\ action = "none"
        /\ Persist(lock) /\ lockMode' = "unlocked" /\ age' = 0 /\ UNCHANGED setup
  /\ UNCHANGED <<asleep, reset, paired, stored, keychainFailures, starts>>

-----------------------------------------------------------------------------
(* Inactivity.                                                             *)

\* A touch after too long a pause locks; otherwise it counts, and is stored.
Touch ==
  /\ lockMode = "unlocked" /\ ~asleep
  /\ lockMode' = LockIfInactive /\ proven' = (proven /\ ~Inactive)
  /\ IF Inactive THEN Unpersisted /\ UNCHANGED age ELSE Persist(lock) /\ age' = 0
  /\ UNCHANGED <<setup, action, asleep, reset, paired, stored, keychainFailures, starts>>

\* The interval timer, which runs in the foreground.
CheckInactivity ==
  /\ lockMode = "unlocked" /\ Inactive /\ ~asleep
  /\ lockMode' = LockIfInactive /\ proven' = (proven /\ ~Inactive)
  /\ UNCHANGED <<setup, action, age, asleep, reset, paired, stored, keychainFailures, starts>>
  /\ Unpersisted

Sleep ==
  /\ ~asleep /\ asleep' = TRUE
  /\ UNCHANGED <<lockMode, setup, action, age, reset, paired, stored, keychainFailures, starts, proven>>
  /\ Unpersisted

WakeForgetful ==
  /\ asleep /\ asleep' = FALSE
  /\ UNCHANGED lockMode /\ proven' = (proven /\ ~Inactive)
  /\ UNCHANGED <<setup, action, age, reset, paired, stored, keychainFailures, starts>>
  /\ Unpersisted

\* The App comes to the foreground: lockIfInactive before anything is shown.
Wake ==
  /\ asleep /\ asleep' = FALSE
  /\ lockMode' = LockIfInactive /\ proven' = (proven /\ ~Inactive)
  /\ UNCHANGED <<setup, action, age, reset, paired, stored, keychainFailures, starts>>
  /\ Unpersisted

PeriodPasses ==
  /\ age < MaxAge /\ age' = age + 1
  /\ UNCHANGED <<lockMode, setup, action, asleep, reset, paired, stored, keychainFailures, starts, proven>>
  /\ Unpersisted

-----------------------------------------------------------------------------
(* A forgotten gesture: confirmation, authentication of the device's owner, *)
(* then both keychain entries are deleted.                                  *)

Forgot ==
  /\ ~asleep /\ action = "none" /\ setup = "none" /\ lockMode = "locked" /\ reset.step = "none"
  /\ reset' = [reset EXCEPT !.step = "asked"]
  /\ UNCHANGED <<lockMode, setup, action, age, asleep, paired, stored, keychainFailures, starts, proven>>
  /\ Unpersisted

\* Declined, or the owner is not authenticated, or cannot be.
ForgetIt ==
  /\ reset.step = "asked" /\ reset' = [reset EXCEPT !.step = "none"]
  /\ UNCHANGED <<lockMode, setup, action, age, asleep, paired, stored, keychainFailures, starts, proven>>
  /\ Unpersisted

\* Authentication takes longer than the deletions of an attempt before.
OwnerAuthenticated ==
  /\ reset.step = "asked" /\ reset.left = {} /\ Len(writes) < MaxWrites
  /\ reset' = [step |-> "clearing", left |-> {"lock", "pairing"}]
  /\ writes' = Append(writes, NoConfig)
  /\ UNCHANGED <<lockMode, setup, action, lock, age, asleep, paired, stored, stale,
                 keychainFailures, starts, proven>>

\* Either deletion may fail, and then the reset has failed; the other is made.
Cleared(entry, ok) ==
  reset' = [step |-> IF ~ok /\ reset.step = "clearing" THEN "none" ELSE reset.step,
            left |-> reset.left \ {entry}]

ClearPairing ==
  /\ "pairing" \in reset.left
  /\ \/ paired' = FALSE /\ Cleared("pairing", TRUE) /\ UNCHANGED <<keychainFailures, stale>>
     \/ /\ keychainFailures < MaxKeychainFailures
        /\ keychainFailures' = keychainFailures + 1
        /\ Cleared("pairing", FALSE) /\ UNCHANGED paired
        /\ stale' = (stale \/ "lock" \notin reset.left)
  /\ UNCHANGED <<lockMode, setup, action, lock, age, asleep, stored, writes, starts, proven>>

\* The keychain carries out the oldest write.
KeychainWrites ==
  /\ writes # <<>> /\ writes' = Tail(writes)
  /\ \/ /\ stored' = Head(writes)
        /\ stale' = IF Head(writes) = NoConfig THEN stale \/ reset.step # "clearing"
                    ELSE stale /\ (Tail(writes) # <<>> \/ Head(writes) # lock)
        /\ (IF Head(writes) = NoConfig THEN Cleared("lock", TRUE) ELSE UNCHANGED reset)
        /\ UNCHANGED keychainFailures
     \/ /\ keychainFailures < MaxKeychainFailures
        /\ keychainFailures' = keychainFailures + 1
        /\ stale' = TRUE
        /\ (IF Head(writes) = NoConfig THEN Cleared("lock", FALSE) ELSE UNCHANGED reset)
        /\ UNCHANGED stored
  /\ UNCHANGED <<lockMode, setup, action, lock, age, asleep, paired, starts, proven>>

FinishReset ==
  /\ reset.step = "clearing" /\ reset.left = {}
  /\ reset' = NoReset
  /\ lock' = DefaultConfig /\ lockMode' = "firstRunPrompt"
  /\ setup' = "none" /\ action' = "none"
  /\ stale' = (stale \/ writes # <<>> \/ stored # NoConfig)
  /\ UNCHANGED <<age, asleep, paired, stored, writes, keychainFailures, starts, proven>>

\* The process ends, with the writes that were under way.
StartApp ==
  /\ starts < MaxStarts /\ starts' = starts + 1
  /\ lockMode' = "loading" /\ setup' = "none" /\ action' = "none" /\ lock' = DefaultConfig
  /\ age' = 0 /\ asleep' = FALSE /\ reset' = NoReset /\ writes' = <<>> /\ stale' = FALSE
  /\ proven' = FALSE
  /\ UNCHANGED <<paired, stored, keychainFailures>>

LockNext ==
  \/ LoadLock \/ RetryLoad \/ SkipFirstSetup \/ OpenSetup \/ CloseSetup \/ CancelAction
  \/ \E g \in Gestures : CompleteSetup(g) \/ UnlockGesture(g)
  \/ \E a \in {"disable", "change"} : AskAction(a)
  \/ \E o \in AutoLocks : ConfirmAutoLock(o)
  \/ Touch \/ CheckInactivity \/ Sleep \/ Wake \/ PeriodPasses
  \/ Forgot \/ ForgetIt \/ OwnerAuthenticated \/ ClearPairing \/ FinishReset
  \/ KeychainWrites \/ StartApp

LockSpec == LockInit /\ [][LockNext]_lockVars

-----------------------------------------------------------------------------
(* Properties.                                                             *)

LockTypeOK ==
  /\ lockMode \in {"loading", "unavailable", "firstRunPrompt", "disabled", "locked", "unlocked"}
  /\ setup \in {"none", "firstRun", "enable", "change"} /\ action \in {"none", "disable", "change"}
  /\ lock \in Configs /\ stored \in Configs \cup {NoConfig}
  /\ writes \in Seq(Configs \cup {NoConfig}) /\ Len(writes) <= MaxWrites
  /\ reset \in [step : {"none", "asked", "clearing"}, left : SUBSET {"lock", "pairing"}]
  /\ {asleep, paired, stale, proven} \subseteq BOOLEAN
  /\ age \in 0..MaxAge /\ keychainFailures \in 0..MaxKeychainFailures /\ starts \in 0..MaxStarts

\* What the App shows follows the configuration it holds: a gesture is asked for
\* exactly where one is set, so that nobody is locked out by a lock without a
\* gesture.
ModeAgrees ==
  /\ lock.enabled <=> lockMode \in {"locked", "unlocked"}
  /\ lock.enabled => lock.initialized /\ lock.gesture # NoGesture

\* With an enabled lock the screens of the App are shown only to a user who has
\* drawn the gesture, or has just set one, since the App started, came back too
\* late, or was left alone too long.
ShownIsProven == lock.enabled /\ ~asleep /\ ~ShowingLock => proven

\* Once the keychain has done what it was asked, the next start finds the
\* configuration in force; excepted are writes that failed, a reset one deletion
\* of which failed, and what an App unlocked during a reset stores after it.
StoredAgrees ==
  writes = <<>> /\ ~stale /\ lockMode \notin {"loading", "unavailable"}
     /\ reset.step # "clearing" =>
    Normalized = lock

\* The lock holds: over settings, inactivity, resets, failures of the keychain
\* and restarts, the App agrees with its configuration, shows nothing unproven
\* and finds again what it stored.
LockHolds == ModeAgrees /\ ShownIsProven /\ StoredAgrees
=============================================================================
