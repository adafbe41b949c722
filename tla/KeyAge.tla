------------------------------- MODULE KeyAge -------------------------------
(***************************************************************************)
(* Key ages (config/route.rs, config/retry.rs, config/key_age.rs): when    *)
(* each slot's key was loaded, how a reload carries that over, and the     *)
(* warning the main loop logs once per key that has grown too old.  The    *)
(* [retry] key is one more slot: its code is the same, slot by slot.       *)
(***************************************************************************)
EXTENDS Integers

CONSTANTS
  Slot,            \* the config_ids in use and the retry key
  KeyedFiles,      \* the route files SIGHUP may find: slot -> [enc, max]
  TICKS_PER_SEC,
  MAX_TIME         \* bound: the clock stops here

NoAge == -1        \* max_key_age_secs absent, nothing warned about

\* The encryption of a slot: mode is derived from the CID layout, "plain" has no
\* key.  max_key_age_secs is absent or positive.
Encryption == [mode: {"plain", "single", "four", "hmac"}, key: STRING]
KeyEntry == [enc: Encryption, max: {NoAge} \cup (Nat \ {0})]

ASSUME KeyAgeAssumption ==
  /\ TICKS_PER_SEC \in Nat \ {0} /\ MAX_TIME \in Nat
  /\ \A f \in KeyedFiles : DOMAIN f \subseteq Slot /\ \A s \in DOMAIN f : f[s] \in KeyEntry

VARIABLES
  now,          \* Instant::now(), in ticks
  ages,         \* slot -> [enc, max, loaded_at], the active slots
  warned_for,   \* KeyAgeWarner: slot -> the loaded_at it warned about
  since,        \* history: when the slot's key bytes last changed
  warnings      \* history: warnings logged since the slot's encryption last changed

ageVars == <<now, ages, warned_for, since, warnings>>

\* from_str: every key of the file is loaded now.
LoadKeys(f) ==
  [s \in DOMAIN f |-> [enc |-> f[s].enc, max |-> f[s].max, loaded_at |-> now]]

\* The bytes alone do not make the key: the cipher has to be the same, too.
same_key(a, b) == a.mode = b.mode /\ a.key = b.key

\* Mutant: any key that stays encrypted the same way counts as the same key.
InheritByMode(new, prev) ==
  [s \in DOMAIN new |->
     IF s \in DOMAIN prev /\ new[s].enc.mode = prev[s].enc.mode
     THEN [new[s] EXCEPT !.loaded_at = prev[s].loaded_at]
     ELSE new[s]]

\* inherit_ages_from, RetryConfig::inherit_age_from
inherit_ages_from(new, prev) ==
  [s \in DOMAIN new |->
     IF s \in DOMAIN prev /\ same_key(new[s].enc, prev[s].enc)
     THEN [new[s] EXCEPT !.loaded_at = prev[s].loaded_at]
     ELSE new[s]]

AgeInit ==
  /\ now = 0
  /\ \E f \in KeyedFiles : ages = LoadKeys(f)
  /\ warned_for = [s \in Slot |-> NoAge]
  /\ since = [s \in DOMAIN ages |-> 0]
  /\ warnings = [s \in Slot |-> 0]

\* A file keeps the bytes of a slot's key, and the way they are used.
KeptBytes(s, f) == s \in DOMAIN ages /\ s \in DOMAIN f /\ ages[s].enc.key = f[s].enc.key
Kept(s, f) == KeptBytes(s, f) /\ ages[s].enc.mode = f[s].enc.mode

\* reload_config with a file that parses; one that does not changes nothing.
ReloadAges(f) ==
  /\ ages' = inherit_ages_from(LoadKeys(f), ages)
  /\ since' = [s \in DOMAIN f |-> IF KeptBytes(s, f) THEN since[s] ELSE now]
  /\ warnings' = [s \in Slot |-> IF Kept(s, f) THEN warnings[s] ELSE 0]
  /\ UNCHANGED <<now, warned_for>>

\* Is the key in slot s older, in whole seconds, than its policy allows?
Overdue(s) ==
  /\ s \in DOMAIN ages
  /\ ages[s].max # NoAge
  /\ (now - ages[s].loaded_at) \div TICKS_PER_SEC > ages[s].max

\* Mutant: one warning per slot, never re-armed.
DueOncePerSlot(s) == Overdue(s) /\ warned_for[s] = NoAge

\* Mutant: every check warns again.
DueEveryTime(s) == Overdue(s)

Due(s) == Overdue(s) /\ warned_for[s] # ages[s].loaded_at

\* KeyAgeWarner::check
Check ==
  /\ warned_for' = [s \in Slot |-> IF Due(s) THEN ages[s].loaded_at ELSE warned_for[s]]
  /\ warnings' = [s \in Slot |-> IF Due(s) THEN warnings[s] + 1 ELSE warnings[s]]
  /\ UNCHANGED <<now, ages, since>>

AgeTick ==
  /\ now < MAX_TIME
  /\ now' = now + 1
  /\ UNCHANGED <<ages, warned_for, since, warnings>>

AgeNext == (\E f \in KeyedFiles : ReloadAges(f)) \/ Check \/ AgeTick

AgeSpec == AgeInit /\ [][AgeNext]_ageVars

-----------------------------------------------------------------------------
(* Properties                                                               *)

\* The table holds active slots only, stamped with times that have passed, and
\* the warner remembers such times (ConfigTable::loaded_at, KeyAgeWarner).
AgeTypeOK ==
  /\ now \in Nat
  /\ DOMAIN ages \subseteq Slot
  /\ \A s \in DOMAIN ages :
       ages[s] \in [enc: Encryption, max: {NoAge} \cup (Nat \ {0}), loaded_at: 0..now]
  /\ warned_for \in [Slot -> {NoAge} \cup 0..now]
  /\ since \in [DOMAIN ages -> 0..now]
  /\ warnings \in [Slot -> Nat]

\* "the running key has been live longer than that" (key_age.rs:7): the daemon is about
\* to warn only of key bytes that have been in their slot, without a break, for longer
\* than the policy allows, whatever reloads rotated, moved to another cipher, removed or
\* restored keys before (inherit_ages_from, check_at).  The converse fails: a reload that
\* changes the cipher and keeps the bytes starts the age afresh.
WarnsOnlyOldKeys ==
  \A s \in Slot : Due(s) => (now - since[s]) \div TICKS_PER_SEC > ages[s].max

\* "a single warning log line per (slot, key) generation" (key_age.rs:9), across
\* reloads, removal and return of a slot, and rotation back to an earlier key; a new
\* generation is what same_key takes for one.
OneWarningPerKey == \A s \in Slot : warnings[s] \in {0, 1}

\* A key that outlives its policy is reported, also when an earlier key of the
\* same slot already was: "the next breach re-arms the warning" (key_age.rs:12).
OverdueIsReported == \A s \in Slot : Overdue(s) ~> (warnings[s] = 1 \/ ~Overdue(s))
=============================================================================
