\* Two threads, any mix of fan, temperature, colour and watchdog calls.
SPECIFICATION Spec
CONSTANTS
  Threads = {t1, t2}
  NoThread = NoThread
  Calls <- MixedCalls
  Hi <- MixedHi
  Lo <- MixedLo
  Boot <- MixedBoot
INVARIANTS TypeOK OwnerIsInside AccessReachesItsRegister OnlyLegalValues SettingsAreWhole
PROPERTY CallsAreAtomic
