---------------------------- MODULE ZlogProofs ----------------------------
(***************************************************************************)
(* Proofs about the logging library, part by part: its environment, for    *)
(* any threads, categories, sizes and period, and any number of reloads    *)
(* and messages; its configuration, for a char and a bitmap of any size,   *)
(* and any lines of a file; the buffers of a message; the rotation of a    *)
(* file; the file that is moved away; the outputs of the rules.  Last the  *)
(* properties of the run that model-checks them together.                  *)
(***************************************************************************)
EXTENDS MCLogging, FiniteSetTheorems, NaturalsInduction, WellFoundedInduction,
        SequenceTheorems, TLAPS

\* What a thread does while it has the lock for reading, and what it does
\* there with the configuration.
InLock == {"fetch", "output", "count", "rdunlock", "toreload"}
WithConf == {"fetch", "output", "count", "toreload"}

\* The readers are the threads in the middle of a message, and as long as one
\* uses it the environment is there.
LockTrue ==
    /\ epc \in [Threads -> {"idle", "period"} \cup InLock]
    /\ \A t \in Threads : t \in readers <=> epc[t] \in InLock
    /\ \A t \in Threads : epc[t] \in WithConf => isInit

\* Without an environment nothing is left of one but a configuration that it failed
\* after.
ConfTrue ==
    IF isInit THEN conf \in DOMAIN confs /\ conf # 0
    ELSE bound = {} /\ ~record /\ ~halfway

\* A thread whose version is the environment's has the buffers for it.
ThreadsTrue ==
    /\ isInit => \A t \in DOMAIN thread : thread[t].version = version => thread[t].size = confs[conf]
    /\ \A t \in Threads : epc[t] \in {"output", "count"} => t \in DOMAIN thread

\* The count, and what a thread is about to write into it, do not exceed the
\* messages since it was reset.
CountTrue ==
    /\ seen \in [Threads -> Nat] /\ since \in Nat
    /\ count <= since
    /\ \A t \in Threads : epc[t] = "count" => seen[t] + 1 <= since

EnvIInv == EnvSound /\ LockTrue /\ ConfTrue /\ ThreadsTrue /\ CountTrue

-----------------------------------------------------------------------------
\* Every step keeps the types.
LEMMA EnvTypeStep == EnvIInv /\ [EnvNext]_envVars => EnvTypeOK'
<1> SUFFICES ASSUME EnvIInv, [EnvNext]_envVars PROVE EnvTypeOK'
  OBVIOUS
<1> USE EnvAssumption DEF EnvIInv, EnvSound, EnvTypeOK, ConfTrue
<1>1. ASSUME NEW t \in Threads, NEW c \in WriterCalls, Begin(t, c) PROVE EnvTypeOK'
  <2>1. ASSUME NEW s \in Sizes, NewConf(s), isInit' = TRUE, conf' = built', version' = NextVersion,
               fit' = IF c = "init" THEN <<>> ELSE [n \in {CHOOSE n \in Names : TRUE} |-> built']
        PROVE  EnvTypeOK'
    <3>1. /\ built' = built + 1 /\ built' \in 0 .. MaxConfs
          /\ DOMAIN confs' = DOMAIN confs \cup {built'}
          /\ \A k \in DOMAIN confs' : confs'[k] \in Sizes
      BY <2>1 DEF NewConf
    <3>2. DOMAIN fit' \subseteq Names
      <4>1. (CHOOSE n \in Names : TRUE) \in Names
        OBVIOUS
      <4> QED BY <2>1, <4>1
    <3>3. version' \in Nat /\ version < version' /\ thread' = thread
      BY <1>1, <2>1 DEF Begin, WrLock, NextVersion
    <3>4. \A u \in DOMAIN thread' : thread'[u] \in [version : 0 .. version', size : Sizes]
      BY <3>3
    <3>5. /\ UNCHANGED <<readers, count, bound, record, backup, halfway>>
          /\ isInit' \in BOOLEAN /\ conf' \in DOMAIN confs'
      BY <1>1, <2>1, <3>1 DEF Begin, WrLock
    <3> QED BY <3>1, <3>2, <3>3, <3>4, <3>5
  <2>2. ASSUME NoConf, version' = (IF version = 0 THEN 1 ELSE version), conf' = 0,
               UNCHANGED <<isInit, fit>>
        PROVE  EnvTypeOK'
    <3>1. version' \in Nat /\ version <= version'
      BY <2>2
    <3> QED BY <1>1, <2>2, <3>1 DEF Begin, WrLock, NoConf
  <2>3. ASSUME NEW s \in Sizes, NewConf(s), conf' = built',
               version' = (IF version = 0 THEN 1 ELSE version), UNCHANGED <<isInit, fit>>
        PROVE  EnvTypeOK'
    <3>1. version' \in Nat /\ version <= version'
      BY <2>3
    <3>2. /\ built' = built + 1 /\ built' \in 0 .. MaxConfs
          /\ DOMAIN confs' = DOMAIN confs \cup {built'}
          /\ \A k \in DOMAIN confs' : confs'[k] \in Sizes
      BY <2>3 DEF NewConf
    <3> QED BY <1>1, <2>3, <3>1, <3>2 DEF Begin, WrLock
  <2> QED BY <1>1, <2>1, <2>2, <2>3 DEF Begin
<1>2. ASSUME NEW t \in Threads, NEW c \in WriterCalls, Refused(t, c) PROVE EnvTypeOK'
  BY <1>2 DEF Refused, WrLock, Goes, confVars
<1>3. ASSUME NEW t \in Threads, NEW c \in WriterCalls, Reload(t, c) PROVE EnvTypeOK'
  <2>1. /\ built' = built + 1 /\ built' \in 0 .. MaxConfs
        /\ DOMAIN confs' = (DOMAIN confs \ {conf}) \cup {built'}
        /\ \A k \in DOMAIN confs' : confs'[k] \in Sizes
    BY <1>3 DEF Reload
  <2>2. bound' \subseteq DOMAIN confs' /\ conf' \in DOMAIN confs' /\ DOMAIN fit' \subseteq Names
    BY <1>3, <2>1 DEF Reload, NewBound, NewFit
  <2>3. version' = version + 1 /\ \A u \in DOMAIN thread : thread[u] \in [version : 0 .. version', size : Sizes]
    BY <1>3 DEF Reload
  <2>4. count' = 0 /\ DOMAIN backup' = {} /\ UNCHANGED <<readers, isInit, record, thread>>
    BY <1>3 DEF Reload, WrLock
  <2>5. halfway' \in BOOLEAN
    BY <1>3, Zenon DEF Reload
  <2> QED BY <2>1, <2>2, <2>3, <2>4, <2>5
<1>4. ASSUME NEW t \in Threads, NEW c \in WriterCalls, ReloadRefused(t, c) PROVE EnvTypeOK'
  BY <1>4 DEF ReloadRefused, WrLock, Goes, confVars
<1>5. ASSUME NEW t \in Threads, NEW c \in WriterCalls, ReloadFails(t, c) PROVE EnvTypeOK'
  BY <1>5 DEF ReloadFails, WrLock, Goes, confVars
<1>6. ASSUME NEW t \in Threads, NEW c \in WriterCalls, Fini(t, c) PROVE EnvTypeOK'
  <2>1. /\ DOMAIN confs' = DOMAIN confs \ {conf} /\ \A k \in DOMAIN confs' : confs'[k] \in Sizes
        /\ bound' \subseteq DOMAIN confs' /\ conf' = 0
    BY <1>6 DEF Fini
  <2>2. DOMAIN fit' = {} /\ DOMAIN backup' = {}
    BY <1>6 DEF Fini
  <2>3. isInit' \in BOOLEAN /\ record' \in BOOLEAN /\ halfway' \in BOOLEAN
    BY <1>6 DEF Fini
  <2>4. UNCHANGED <<readers, version, built, count, thread>>
    BY <1>6 DEF Fini, WrLock
  <2> QED BY <2>1, <2>2, <2>3, <2>4
<1>7. ASSUME NEW t \in Threads, NEW c \in WriterCalls, GetCategory(t, c) PROVE EnvTypeOK'
  BY <1>7 DEF GetCategory, WrLock, Goes, confVars
<1>8. ASSUME NEW t \in Threads, NEW c \in WriterCalls, SetRecord(t, c) PROVE EnvTypeOK'
  BY <1>8 DEF SetRecord, WrLock, Goes, confVars
<1>9. ASSUME NEW t \in Threads, RdLock(t) PROVE EnvTypeOK'
  BY <1>9 DEF RdLock, Goes, confVars
<1>10. ASSUME NEW t \in Threads, FetchThread(t) PROVE EnvTypeOK'
  <2>1. isInit /\ confs[conf] \in Sizes
    BY <1>10 DEF FetchThread, Goes, LockTrue, WithConf
  <2>2. \A u \in DOMAIN thread' : thread'[u] \in [version : 0 .. version, size : Sizes]
    BY <1>10, <2>1 DEF FetchThread
  <2> QED BY <1>10, <2>2 DEF FetchThread, confVars
<1>11. ASSUME NEW t \in Threads, Output(t) PROVE EnvTypeOK'
  BY <1>11 DEF Output, Goes, confVars
<1>12. ASSUME NEW t \in Threads, Count(t) PROVE EnvTypeOK'
  BY <1>12 DEF Count, CountTrue, confVars
<1>13. ASSUME NEW t \in Threads, RdUnlock(t) PROVE EnvTypeOK'
  BY <1>13 DEF RdUnlock, Goes, confVars, logVars
<1>14. CASE UNCHANGED envVars
  BY <1>14 DEF envVars
<1> QED
  BY <1>1, <1>2, <1>3, <1>4, <1>5, <1>6, <1>7, <1>8, <1>9, <1>10, <1>11, <1>12, <1>13, <1>14 DEF EnvNext

\* The lock is taken for writing when nobody reads.
LEMMA LockStep == EnvIInv /\ [EnvNext]_envVars => LockTrue'
<1> SUFFICES ASSUME EnvIInv, [EnvNext]_envVars PROVE LockTrue'
  OBVIOUS
<1> USE EnvAssumption DEF EnvIInv, EnvSound, LockTrue, InLock, WithConf
<1>1. ASSUME NEW t \in Threads, NEW c \in WriterCalls, Begin(t, c) PROVE LockTrue'
  BY <1>1 DEF Begin, WrLock, Goes, confVars, NextVersion, NewConf, NoConf
<1>2. ASSUME NEW t \in Threads, NEW c \in WriterCalls, Refused(t, c) PROVE LockTrue'
  BY <1>2 DEF Refused, WrLock, Goes, confVars
<1>3. ASSUME NEW t \in Threads, NEW c \in WriterCalls, Reload(t, c) PROVE LockTrue'
  BY <1>3 DEF Reload, WrLock, Goes, confVars, NewBound, NewFit
<1>4. ASSUME NEW t \in Threads, NEW c \in WriterCalls, ReloadRefused(t, c) PROVE LockTrue'
  BY <1>4 DEF ReloadRefused, WrLock, Goes, confVars
<1>5. ASSUME NEW t \in Threads, NEW c \in WriterCalls, ReloadFails(t, c) PROVE LockTrue'
  BY <1>5 DEF ReloadFails, WrLock, Goes, confVars
<1>6. ASSUME NEW t \in Threads, NEW c \in WriterCalls, Fini(t, c) PROVE LockTrue'
  BY <1>6 DEF Fini, WrLock, Goes, confVars
<1>7. ASSUME NEW t \in Threads, NEW c \in WriterCalls, GetCategory(t, c) PROVE LockTrue'
  BY <1>7 DEF GetCategory, WrLock, Goes, confVars
<1>8. ASSUME NEW t \in Threads, NEW c \in WriterCalls, SetRecord(t, c) PROVE LockTrue'
  BY <1>8 DEF SetRecord, WrLock, Goes, confVars
<1>9. ASSUME NEW t \in Threads, RdLock(t) PROVE LockTrue'
  BY <1>9 DEF RdLock, Goes, confVars
<1>10. ASSUME NEW t \in Threads, FetchThread(t) PROVE LockTrue'
  BY <1>10 DEF FetchThread, Goes, confVars
<1>11. ASSUME NEW t \in Threads, Output(t) PROVE LockTrue'
  BY <1>11 DEF Output, Goes, confVars
<1>12. ASSUME NEW t \in Threads, Count(t) PROVE LockTrue'
  BY <1>12 DEF Count, Goes, confVars
<1>13. ASSUME NEW t \in Threads, RdUnlock(t) PROVE LockTrue'
  BY <1>13 DEF RdUnlock, Goes, confVars, logVars
<1>14. CASE UNCHANGED envVars
  BY <1>14 DEF envVars
<1> QED
  BY <1>1, <1>2, <1>3, <1>4, <1>5, <1>6, <1>7, <1>8, <1>9, <1>10, <1>11, <1>12, <1>13, <1>14 DEF EnvNext

\* The environment begins with all it needs and ends with nothing.
LEMMA ConfStep == EnvIInv /\ [EnvNext]_envVars => ConfTrue'
<1> SUFFICES ASSUME EnvIInv, [EnvNext]_envVars PROVE ConfTrue'
  OBVIOUS
<1> USE EnvAssumption DEF EnvIInv, EnvSound, EnvTypeOK, ConfTrue, RecordsBound
<1>1. ASSUME NEW t \in Threads, NEW c \in WriterCalls, Begin(t, c) PROVE ConfTrue'
  BY <1>1 DEF Begin, WrLock, Goes, confVars, NextVersion, NewConf, NoConf
<1>2. ASSUME NEW t \in Threads, NEW c \in WriterCalls, Refused(t, c) PROVE ConfTrue'
  BY <1>2 DEF Refused, WrLock, Goes, confVars
<1>3. ASSUME NEW t \in Threads, NEW c \in WriterCalls, Reload(t, c) PROVE ConfTrue'
  BY <1>3 DEF Reload, WrLock, Goes, confVars, NewBound, NewFit
<1>4. ASSUME NEW t \in Threads, NEW c \in WriterCalls, ReloadRefused(t, c) PROVE ConfTrue'
  BY <1>4 DEF ReloadRefused, WrLock, Goes, confVars
<1>5. ASSUME NEW t \in Threads, NEW c \in WriterCalls, ReloadFails(t, c) PROVE ConfTrue'
  BY <1>5 DEF ReloadFails, WrLock, Goes, confVars
<1>6. ASSUME NEW t \in Threads, NEW c \in WriterCalls, Fini(t, c) PROVE ConfTrue'
  BY <1>6 DEF Fini, WrLock, Goes, confVars
<1>7. ASSUME NEW t \in Threads, NEW c \in WriterCalls, GetCategory(t, c) PROVE ConfTrue'
  BY <1>7 DEF GetCategory, WrLock, Goes, confVars
<1>8. ASSUME NEW t \in Threads, NEW c \in WriterCalls, SetRecord(t, c) PROVE ConfTrue'
  BY <1>8 DEF SetRecord, WrLock, Goes, confVars
<1>9. ASSUME NEW t \in Threads, RdLock(t) PROVE ConfTrue'
  BY <1>9 DEF RdLock, Goes, confVars
<1>10. ASSUME NEW t \in Threads, FetchThread(t) PROVE ConfTrue'
  BY <1>10 DEF FetchThread, Goes, confVars
<1>11. ASSUME NEW t \in Threads, Output(t) PROVE ConfTrue'
  BY <1>11 DEF Output, Goes, confVars
<1>12. ASSUME NEW t \in Threads, Count(t) PROVE ConfTrue'
  BY <1>12 DEF Count, Goes, confVars
<1>13. ASSUME NEW t \in Threads, RdUnlock(t) PROVE ConfTrue'
  BY <1>13 DEF RdUnlock, Goes, confVars, logVars
<1>14. CASE UNCHANGED envVars
  BY <1>14 DEF envVars
<1> QED
  BY <1>1, <1>2, <1>3, <1>4, <1>5, <1>6, <1>7, <1>8, <1>9, <1>10, <1>11, <1>12, <1>13, <1>14 DEF EnvNext

\* A new environment has a new version.
LEMMA ThreadsStep == EnvIInv /\ [EnvNext]_envVars => ThreadsTrue'
<1> SUFFICES ASSUME EnvIInv, [EnvNext]_envVars PROVE ThreadsTrue'
  OBVIOUS
<1> USE EnvAssumption DEF EnvIInv, EnvSound, EnvTypeOK, ThreadsTrue, ConfTrue, LockTrue, InLock, WithConf
<1>1. ASSUME NEW t \in Threads, NEW c \in WriterCalls, Begin(t, c) PROVE ThreadsTrue'
  <2>1. thread' = thread /\ (isInit' => version' = NextVersion)
    BY <1>1 DEF Begin, WrLock
  <2>2. \A u \in DOMAIN thread : thread[u].version # NextVersion
    BY DEF NextVersion
  <2>3. \A u \in Threads : epc'[u] \in {"output", "count"} => u \in DOMAIN thread
    BY <1>1 DEF Begin, WrLock, Goes
  <2> QED BY <2>1, <2>2, <2>3
<1>2. ASSUME NEW t \in Threads, NEW c \in WriterCalls, Refused(t, c) PROVE ThreadsTrue'
  BY <1>2 DEF Refused, WrLock, Goes, confVars
<1>3. ASSUME NEW t \in Threads, NEW c \in WriterCalls, Reload(t, c) PROVE ThreadsTrue'
  BY <1>3 DEF Reload, WrLock, Goes, confVars, NewBound, NewFit
<1>4. ASSUME NEW t \in Threads, NEW c \in WriterCalls, ReloadRefused(t, c) PROVE ThreadsTrue'
  BY <1>4 DEF ReloadRefused, WrLock, Goes, confVars
<1>5. ASSUME NEW t \in Threads, NEW c \in WriterCalls, ReloadFails(t, c) PROVE ThreadsTrue'
  BY <1>5 DEF ReloadFails, WrLock, Goes, confVars
<1>6. ASSUME NEW t \in Threads, NEW c \in WriterCalls, Fini(t, c) PROVE ThreadsTrue'
  BY <1>6 DEF Fini, WrLock, Goes, confVars
<1>7. ASSUME NEW t \in Threads, NEW c \in WriterCalls, GetCategory(t, c) PROVE ThreadsTrue'
  BY <1>7 DEF GetCategory, WrLock, Goes, confVars
<1>8. ASSUME NEW t \in Threads, NEW c \in WriterCalls, SetRecord(t, c) PROVE ThreadsTrue'
  BY <1>8 DEF SetRecord, WrLock, Goes, confVars
<1>9. ASSUME NEW t \in Threads, RdLock(t) PROVE ThreadsTrue'
  BY <1>9 DEF RdLock, Goes, confVars
<1>10. ASSUME NEW t \in Threads, FetchThread(t) PROVE ThreadsTrue'
  BY <1>10 DEF FetchThread, Goes, confVars
<1>11. ASSUME NEW t \in Threads, Output(t) PROVE ThreadsTrue'
  BY <1>11 DEF Output, Goes, confVars
<1>12. ASSUME NEW t \in Threads, Count(t) PROVE ThreadsTrue'
  BY <1>12 DEF Count, Goes, confVars
<1>13. ASSUME NEW t \in Threads, RdUnlock(t) PROVE ThreadsTrue'
  BY <1>13 DEF RdUnlock, Goes, confVars, logVars
<1>14. CASE UNCHANGED envVars
  BY <1>14 DEF envVars
<1> QED
  BY <1>1, <1>2, <1>3, <1>4, <1>5, <1>6, <1>7, <1>8, <1>9, <1>10, <1>11, <1>12, <1>13, <1>14 DEF EnvNext

\* Each message adds one at most.
LEMMA CountStep == EnvIInv /\ [EnvNext]_envVars => CountTrue'
<1> SUFFICES ASSUME EnvIInv, [EnvNext]_envVars PROVE CountTrue'
  OBVIOUS
<1> USE EnvAssumption DEF EnvIInv, EnvSound, EnvTypeOK, CountTrue, LockTrue, InLock
<1>1. ASSUME NEW t \in Threads, NEW c \in WriterCalls, Begin(t, c) PROVE CountTrue'
  BY <1>1 DEF Begin, WrLock, Goes, confVars, NextVersion, NewConf, NoConf
<1>2. ASSUME NEW t \in Threads, NEW c \in WriterCalls, Refused(t, c) PROVE CountTrue'
  BY <1>2 DEF Refused, WrLock, Goes, confVars
<1>3. ASSUME NEW t \in Threads, NEW c \in WriterCalls, Reload(t, c) PROVE CountTrue'
  BY <1>3 DEF Reload, WrLock, Goes, confVars, NewBound, NewFit
<1>4. ASSUME NEW t \in Threads, NEW c \in WriterCalls, ReloadRefused(t, c) PROVE CountTrue'
  BY <1>4 DEF ReloadRefused, WrLock, Goes, confVars
<1>5. ASSUME NEW t \in Threads, NEW c \in WriterCalls, ReloadFails(t, c) PROVE CountTrue'
  BY <1>5 DEF ReloadFails, WrLock, Goes, confVars
<1>6. ASSUME NEW t \in Threads, NEW c \in WriterCalls, Fini(t, c) PROVE CountTrue'
  BY <1>6 DEF Fini, WrLock, Goes, confVars
<1>7. ASSUME NEW t \in Threads, NEW c \in WriterCalls, GetCategory(t, c) PROVE CountTrue'
  BY <1>7 DEF GetCategory, WrLock, Goes, confVars
<1>8. ASSUME NEW t \in Threads, NEW c \in WriterCalls, SetRecord(t, c) PROVE CountTrue'
  BY <1>8 DEF SetRecord, WrLock, Goes, confVars
<1>9. ASSUME NEW t \in Threads, RdLock(t) PROVE CountTrue'
  BY <1>9 DEF RdLock, Goes, confVars
<1>10. ASSUME NEW t \in Threads, FetchThread(t) PROVE CountTrue'
  BY <1>10 DEF FetchThread, Goes, confVars
<1>11. ASSUME NEW t \in Threads, Output(t) PROVE CountTrue'
  BY <1>11 DEF Output, Goes, confVars
<1>12. ASSUME NEW t \in Threads, Count(t) PROVE CountTrue'
  BY <1>12 DEF Count, Goes, confVars
<1>13. ASSUME NEW t \in Threads, RdUnlock(t) PROVE CountTrue'
  BY <1>13 DEF RdUnlock, Goes, confVars, logVars
<1>14. CASE UNCHANGED envVars
  BY <1>14 DEF envVars
<1> QED
  BY <1>1, <1>2, <1>3, <1>4, <1>5, <1>6, <1>7, <1>8, <1>9, <1>10, <1>11, <1>12, <1>13, <1>14 DEF EnvNext

\* The rules follow the configuration.
LEMMA RulesStep == EnvIInv /\ [EnvNext]_envVars => RulesAlive'
<1> SUFFICES ASSUME EnvIInv, [EnvNext]_envVars PROVE RulesAlive'
  OBVIOUS
<1> USE EnvAssumption DEF EnvIInv, EnvSound, EnvTypeOK, RulesAlive, ConfTrue
<1>1. ASSUME NEW t \in Threads, NEW c \in WriterCalls, Begin(t, c) PROVE RulesAlive'
  <2>1. ASSUME NEW s \in Sizes, NewConf(s), conf' = built',
               fit' = IF c = "init" THEN <<>> ELSE [n \in {CHOOSE n \in Names : TRUE} |-> built']
        PROVE  RulesAlive'
    <3>1. built' \in DOMAIN confs' /\ \A n \in DOMAIN fit' : fit'[n] = built'
      BY <2>1 DEF NewConf
    <3> QED BY <2>1, <3>1
  <2>2. ASSUME ~isInit, isInit' = isInit PROVE RulesAlive'
    BY <2>2, Zenon DEF RulesAlive
  <2> QED BY <1>1, <2>1, <2>2 DEF Begin
<1>2. ASSUME NEW t \in Threads, NEW c \in WriterCalls, Refused(t, c) PROVE RulesAlive'
  BY <1>2 DEF Refused, WrLock, Goes, confVars
<1>3. ASSUME NEW t \in Threads, NEW c \in WriterCalls, Reload(t, c) PROVE RulesAlive'
  BY <1>3 DEF Reload, WrLock, Goes, confVars, NewBound, NewFit
<1>4. ASSUME NEW t \in Threads, NEW c \in WriterCalls, ReloadRefused(t, c) PROVE RulesAlive'
  BY <1>4 DEF ReloadRefused, WrLock, Goes, confVars
<1>5. ASSUME NEW t \in Threads, NEW c \in WriterCalls, ReloadFails(t, c) PROVE RulesAlive'
  BY <1>5 DEF ReloadFails, WrLock, Goes, confVars
<1>6. ASSUME NEW t \in Threads, NEW c \in WriterCalls, Fini(t, c) PROVE RulesAlive'
  BY <1>6 DEF Fini, WrLock, Goes, confVars
<1>7. ASSUME NEW t \in Threads, NEW c \in WriterCalls, GetCategory(t, c) PROVE RulesAlive'
  BY <1>7 DEF GetCategory, WrLock, Goes, confVars
<1>8. ASSUME NEW t \in Threads, NEW c \in WriterCalls, SetRecord(t, c) PROVE RulesAlive'
  BY <1>8 DEF SetRecord, WrLock, Goes, confVars
<1>9. ASSUME NEW t \in Threads, RdLock(t) PROVE RulesAlive'
  BY <1>9 DEF RdLock, Goes, confVars
<1>10. ASSUME NEW t \in Threads, FetchThread(t) PROVE RulesAlive'
  BY <1>10 DEF FetchThread, Goes, confVars
<1>11. ASSUME NEW t \in Threads, Output(t) PROVE RulesAlive'
  BY <1>11 DEF Output, Goes, confVars
<1>12. ASSUME NEW t \in Threads, Count(t) PROVE RulesAlive'
  BY <1>12 DEF Count, Goes, confVars
<1>13. ASSUME NEW t \in Threads, RdUnlock(t) PROVE RulesAlive'
  BY <1>13 DEF RdUnlock, Goes, confVars, logVars
<1>14. CASE UNCHANGED envVars
  BY <1>14 DEF envVars
<1> QED
  BY <1>1, <1>2, <1>3, <1>4, <1>5, <1>6, <1>7, <1>8, <1>9, <1>10, <1>11, <1>12, <1>13, <1>14 DEF EnvNext

\* The buffers follow the version.
LEMMA BuffersStep == EnvIInv /\ [EnvNext]_envVars => BuffersFit'
<1> SUFFICES ASSUME EnvIInv, [EnvNext]_envVars PROVE BuffersFit'
  OBVIOUS
<1> USE EnvAssumption DEF EnvIInv, EnvSound, EnvTypeOK, BuffersFit, ThreadsTrue, ConfTrue, LockTrue, InLock, WithConf
<1>1. ASSUME NEW t \in Threads, NEW c \in WriterCalls, Begin(t, c) PROVE BuffersFit'
  BY <1>1 DEF Begin, WrLock, Goes, confVars, NextVersion, NewConf, NoConf
<1>2. ASSUME NEW t \in Threads, NEW c \in WriterCalls, Refused(t, c) PROVE BuffersFit'
  BY <1>2 DEF Refused, WrLock, Goes, confVars
<1>3. ASSUME NEW t \in Threads, NEW c \in WriterCalls, Reload(t, c) PROVE BuffersFit'
  BY <1>3 DEF Reload, WrLock, Goes, confVars, NewBound, NewFit
<1>4. ASSUME NEW t \in Threads, NEW c \in WriterCalls, ReloadRefused(t, c) PROVE BuffersFit'
  BY <1>4 DEF ReloadRefused, WrLock, Goes, confVars
<1>5. ASSUME NEW t \in Threads, NEW c \in WriterCalls, ReloadFails(t, c) PROVE BuffersFit'
  BY <1>5 DEF ReloadFails, WrLock, Goes, confVars
<1>6. ASSUME NEW t \in Threads, NEW c \in WriterCalls, Fini(t, c) PROVE BuffersFit'
  BY <1>6 DEF Fini, WrLock, Goes, confVars
<1>7. ASSUME NEW t \in Threads, NEW c \in WriterCalls, GetCategory(t, c) PROVE BuffersFit'
  BY <1>7 DEF GetCategory, WrLock, Goes, confVars
<1>8. ASSUME NEW t \in Threads, NEW c \in WriterCalls, SetRecord(t, c) PROVE BuffersFit'
  BY <1>8 DEF SetRecord, WrLock, Goes, confVars
<1>9. ASSUME NEW t \in Threads, RdLock(t) PROVE BuffersFit'
  BY <1>9 DEF RdLock, Goes, confVars
<1>10. ASSUME NEW t \in Threads, FetchThread(t) PROVE BuffersFit'
  <2>1. isInit /\ conf # 0
    BY <1>10 DEF FetchThread, Goes
  <2>2. thread'[t] = [version |-> version, size |-> confs[conf]]
    <3>1. CASE t \notin DOMAIN thread \/ thread[t].version # version
      BY <1>10, <3>1 DEF FetchThread
    <3>2. CASE t \in DOMAIN thread /\ thread[t].version = version
      <4>1. thread'[t] = thread[t] /\ thread[t].size = confs[conf] /\ thread[t] \in [version : 0 .. version, size : Sizes]
        BY <1>10, <2>1, <3>2 DEF FetchThread
      <4> QED BY <3>2, <4>1
    <3> QED BY <3>1, <3>2
  <2>3. \A u \in Threads \ {t} : epc'[u] = epc[u] /\ (epc[u] \in {"output", "count"} => thread'[u] = thread[u])
    <3> SUFFICES ASSUME NEW u \in Threads \ {t}
                 PROVE  epc'[u] = epc[u] /\ (epc[u] \in {"output", "count"} => thread'[u] = thread[u])
      OBVIOUS
    <3>1. epc'[u] = epc[u]
      BY <1>10 DEF FetchThread, Goes
    <3>2. u \in DOMAIN thread => thread'[u] = thread[u]
      BY <1>10 DEF FetchThread
    <3> QED BY <3>1, <3>2
  <2> QED BY <1>10, <2>1, <2>2, <2>3 DEF FetchThread, confVars
<1>11. ASSUME NEW t \in Threads, Output(t) PROVE BuffersFit'
  BY <1>11 DEF Output, Goes, confVars
<1>12. ASSUME NEW t \in Threads, Count(t) PROVE BuffersFit'
  BY <1>12 DEF Count, Goes, confVars
<1>13. ASSUME NEW t \in Threads, RdUnlock(t) PROVE BuffersFit'
  BY <1>13 DEF RdUnlock, Goes, confVars, logVars
<1>14. CASE UNCHANGED envVars
  BY <1>14 DEF envVars
<1> QED
  BY <1>1, <1>2, <1>3, <1>4, <1>5, <1>6, <1>7, <1>8, <1>9, <1>10, <1>11, <1>12, <1>13, <1>14 DEF EnvNext

\* The recording function follows the rules.
LEMMA RecordsStep == EnvIInv /\ [EnvNext]_envVars => RecordsBound'
<1> SUFFICES ASSUME EnvIInv, [EnvNext]_envVars PROVE RecordsBound'
  OBVIOUS
<1> USE EnvAssumption DEF EnvIInv, EnvSound, EnvTypeOK, RecordsBound, ConfTrue
<1>1. ASSUME NEW t \in Threads, NEW c \in WriterCalls, Begin(t, c) PROVE RecordsBound'
  BY <1>1 DEF Begin, WrLock, Goes, confVars, NextVersion, NewConf, NoConf
<1>2. ASSUME NEW t \in Threads, NEW c \in WriterCalls, Refused(t, c) PROVE RecordsBound'
  BY <1>2 DEF Refused, WrLock, Goes, confVars
<1>3. ASSUME NEW t \in Threads, NEW c \in WriterCalls, Reload(t, c) PROVE RecordsBound'
  BY <1>3 DEF Reload, WrLock, Goes, confVars, NewBound, NewFit
<1>4. ASSUME NEW t \in Threads, NEW c \in WriterCalls, ReloadRefused(t, c) PROVE RecordsBound'
  BY <1>4 DEF ReloadRefused, WrLock, Goes, confVars
<1>5. ASSUME NEW t \in Threads, NEW c \in WriterCalls, ReloadFails(t, c) PROVE RecordsBound'
  BY <1>5 DEF ReloadFails, WrLock, Goes, confVars
<1>6. ASSUME NEW t \in Threads, NEW c \in WriterCalls, Fini(t, c) PROVE RecordsBound'
  BY <1>6 DEF Fini, WrLock, Goes, confVars
<1>7. ASSUME NEW t \in Threads, NEW c \in WriterCalls, GetCategory(t, c) PROVE RecordsBound'
  BY <1>7 DEF GetCategory, WrLock, Goes, confVars
<1>8. ASSUME NEW t \in Threads, NEW c \in WriterCalls, SetRecord(t, c) PROVE RecordsBound'
  BY <1>8 DEF SetRecord, WrLock, Goes, confVars
<1>9. ASSUME NEW t \in Threads, RdLock(t) PROVE RecordsBound'
  BY <1>9 DEF RdLock, Goes, confVars
<1>10. ASSUME NEW t \in Threads, FetchThread(t) PROVE RecordsBound'
  BY <1>10 DEF FetchThread, Goes, confVars
<1>11. ASSUME NEW t \in Threads, Output(t) PROVE RecordsBound'
  BY <1>11 DEF Output, Goes, confVars
<1>12. ASSUME NEW t \in Threads, Count(t) PROVE RecordsBound'
  BY <1>12 DEF Count, Goes, confVars
<1>13. ASSUME NEW t \in Threads, RdUnlock(t) PROVE RecordsBound'
  BY <1>13 DEF RdUnlock, Goes, confVars, logVars
<1>14. CASE UNCHANGED envVars
  BY <1>14 DEF envVars
<1> QED
  BY <1>1, <1>2, <1>3, <1>4, <1>5, <1>6, <1>7, <1>8, <1>9, <1>10, <1>11, <1>12, <1>13, <1>14 DEF EnvNext

\* Before the first call there is no environment, and nobody is in the middle.
LEMMA EnvInitially == EnvInit => EnvIInv
<1> SUFFICES ASSUME EnvInit PROVE EnvIInv
  OBVIOUS
<1> USE EnvAssumption DEF EnvInit
<1>1. EnvTypeOK
  <2>1. DOMAIN confs = {} /\ DOMAIN fit = {} /\ DOMAIN backup = {} /\ DOMAIN thread = {}
    OBVIOUS
  <2>2. isInit \in BOOLEAN /\ record \in BOOLEAN /\ halfway \in BOOLEAN
    BY Zenon
  <2>3. readers = {} /\ version = 0 /\ count = 0 /\ built = 0 /\ conf = 0 /\ bound = {}
    OBVIOUS
  <2> HIDE DEF EnvInit
  <2> QED BY <2>1, <2>2, <2>3 DEF EnvTypeOK
<1>2. RulesAlive /\ BuffersFit /\ RecordsBound
  BY DEF RulesAlive, BuffersFit, RecordsBound
<1>3. LockTrue
  BY DEF LockTrue, InLock, WithConf
<1>4. ConfTrue /\ ThreadsTrue
  BY DEF ConfTrue, ThreadsTrue
<1>5. CountTrue
  BY DEF CountTrue
<1> QED BY <1>1, <1>2, <1>3, <1>4, <1>5 DEF EnvIInv, EnvSound

\* Every call of every thread keeps what holds.
LEMMA EnvInductive == EnvIInv /\ [EnvNext]_envVars => EnvIInv'
  BY EnvTypeStep, LockStep, ConfStep, ThreadsStep, CountStep, RulesStep, BuffersStep, RecordsStep
     DEF EnvIInv, EnvSound

-----------------------------------------------------------------------------
\* What a thread uses of the environment is that of a configuration that is
\* there, through any order of init, reload, fini and failure.
THEOREM EnvHolds == EnvSpec => []EnvSound
<1>1. EnvIInv => EnvSound
  BY DEF EnvIInv
<1> QED BY <1>1, EnvInitially, EnvInductive, PTL DEF EnvSpec

\* An automatic reload comes when more messages than the period were written
\* since the last one.
THEOREM ReloadIsSpaced == EnvSpec => ReloadSpaced
<1>1. ASSUME EnvIInv, [EnvNext]_envVars
      PROVE  [\A t \in Threads :
                 epc[t] = "period" /\ epc'[t] = "idle" /\ conf' # conf => since > Period]_envVars
  <2> SUFFICES ASSUME EnvNext, NEW u \in Threads, epc[u] = "period", epc'[u] = "idle", conf' # conf
               PROVE  since > Period
    BY <1>1 DEF envVars
  <2> USE <1>1, EnvAssumption DEF EnvIInv, LockTrue, Goes, WrLock, confVars
  <2>1. ASSUME NEW t \in Threads, NEW c \in WriterCalls, Reload(t, c) PROVE since > Period
    <3>1. u = t /\ c = "period" /\ count > Period
      BY <2>1 DEF Reload, Due
    <3> QED BY <3>1 DEF CountTrue, EnvSound, EnvTypeOK
  <2>2. ASSUME NEW t \in Threads, NEW c \in WriterCalls, Begin(t, c) PROVE FALSE
    BY <2>2 DEF Begin
  <2>3. ASSUME NEW t \in Threads, NEW c \in WriterCalls, Fini(t, c) PROVE FALSE
    BY <2>3 DEF Fini
  <2>4. ASSUME NEW t \in Threads, NEW c \in WriterCalls,
               Refused(t, c) \/ ReloadRefused(t, c) \/ ReloadFails(t, c) \/ GetCategory(t, c) \/ SetRecord(t, c)
        PROVE  FALSE
    BY <2>4 DEF Refused, ReloadRefused, ReloadFails, GetCategory, SetRecord
  <2>5. ASSUME NEW t \in Threads, RdLock(t) \/ FetchThread(t) \/ Output(t) \/ Count(t) \/ RdUnlock(t)
        PROVE  FALSE
    BY <2>5 DEF RdLock, FetchThread, Output, Count, RdUnlock
  <2> QED BY <2>1, <2>2, <2>3, <2>4, <2>5 DEF EnvNext
<1> QED BY <1>1, EnvInitially, EnvInductive, PTL DEF EnvSpec, ReloadSpaced


-----------------------------------------------------------------------------
(***************************************************************************)
(* The configuration.  First the arithmetic of the bitmap.                 *)
(***************************************************************************)
\* Division by a positive number.
LEMMA Divides ==
  ASSUME NEW w \in Nat, w > 0, NEW l \in Nat
  PROVE  /\ l \div w \in Nat /\ l % w \in 0 .. w - 1
         /\ l = w * (l \div w) + (l % w)
<1>1. l \div w \in Int /\ l % w \in 0 .. w - 1
  OBVIOUS
<1>2. l = w * (l \div w) + (l % w)
  OBVIOUS
<1>3. l \div w \in Nat
  OBVIOUS
<1> QED
  BY <1>1, <1>2, <1>3

\* A level is a char and a bit of it.
LEMMA LevelSplits ==
  ASSUME NEW l \in Nat
  PROVE  /\ l \div Width \in Nat /\ l % Width \in 0 .. Width - 1
         /\ l = Width * (l \div Width) + (l % Width)
<1>1. Width \in Nat /\ Width > 0
  BY ConfAssumption
<1> QED
  BY <1>1, Divides

\* Chars come before bits in the order of levels.
LEMMA CharsFirst ==
  ASSUME NEW q \in Nat, NEW s \in Nat, NEW r \in 0 .. Width - 1, NEW t \in 0 .. Width - 1
  PROVE  Width * q + r >= Width * s + t <=> q > s \/ (q = s /\ r >= t)
<1>1. Width \in Nat \ {0}
  BY ConfAssumption
<1>2. CASE q > s
  <2>1. PICK d \in Nat : q = s + 1 + d
    <3>1. q - s - 1 \in Nat /\ q = s + 1 + (q - s - 1)
      BY <1>2
    <3> QED
      BY <3>1
  <2>2. Width * q = Width * s + Width + Width * d
    BY <1>1, <2>1
  <2>3. Width * d \in Nat /\ Width * s \in Nat
    BY <1>1
  <2> QED
    BY <1>1, <1>2, <2>2, <2>3
<1>3. CASE s > q
  <2>1. PICK d \in Nat : s = q + 1 + d
    <3>1. s - q - 1 \in Nat /\ s = q + 1 + (s - q - 1)
      BY <1>3
    <3> QED
      BY <3>1
  <2>2. Width * s = Width * q + Width + Width * d
    BY <1>1, <2>1
  <2>3. Width * d \in Nat /\ Width * q \in Nat
    BY <1>1
  <2> QED
    BY <1>1, <1>3, <2>2, <2>3
<1>4. CASE s = q
  <2>1. Width * q \in Nat
    BY <1>1
  <2> QED
    BY <1>4, <2>1
<1> QED
  BY <1>2, <1>3, <1>4

\* The order and the bits of two levels; every level has a bit of the bitmap.
LEMMA BitsOrder ==
  ASSUME NEW l \in Levels
  PROVE  /\ l \in Nat /\ l \div Width \in 0 .. Bytes - 1 /\ l % Width \in 0 .. Width - 1
         /\ \A k \in Levels :
               l >= k <=> \/ l \div Width > k \div Width
                          \/ l \div Width = k \div Width /\ l % Width >= k % Width
<1>1. l \in Nat /\ l < Width * Bytes /\ Width \in Nat \ {0} /\ Bytes \in Nat \ {0}
  BY ConfAssumption DEF Levels
<1>2. /\ l \div Width \in Nat /\ l % Width \in 0 .. Width - 1
      /\ l = Width * (l \div Width) + (l % Width)
  BY <1>1, LevelSplits
<1>3. l \div Width \in 0 .. Bytes - 1
  <2>1. ~(l >= Width * Bytes + 0)
    <3>1. Width * Bytes \in Nat
      BY <1>1
    <3> QED
      BY <1>1, <3>1
  <2>2. ~(l \div Width > Bytes \/ (l \div Width = Bytes /\ l % Width >= 0))
    BY <1>1, <1>2, <2>1, CharsFirst
  <2> QED
    BY <1>1, <1>2, <2>2
<1>4. ASSUME NEW k \in Levels
      PROVE  l >= k <=> \/ l \div Width > k \div Width
                        \/ l \div Width = k \div Width /\ l % Width >= k % Width
  <2>1. k \in Nat
    BY ConfAssumption, <1>4 DEF Levels
  <2>2. /\ k \div Width \in Nat /\ k % Width \in 0 .. Width - 1
        /\ k = Width * (k \div Width) + (k % Width)
    BY <2>1, LevelSplits
  <2> QED
    BY <1>2, <2>2, CharsFirst
<1> QED
  BY <1>1, <1>2, <1>3, <1>4

\* The bit of a level is set exactly if the rule writes its messages, whatever
\* the rule's level, one without a name (-1) included.
LEMMA BitTellsOutput ==
  ASSUME NEW r, r.line.cmp \in {"=", "!", "*", "."}, r.level \in {-1} \cup Levels,
         r.bits = Bitmap(r.line.cmp, r.level), NEW l \in Levels
  PROVE  <<l \div Width, Width - 1 - (l % Width)>> \in r.bits <=> Outputs(r, l)
<1> DEFINE c == l \div Width
           b == Width - 1 - (l % Width)
           k == r.level
<1>1. /\ l \in Nat /\ c \in 0 .. Bytes - 1 /\ b \in 0 .. Width - 1
      /\ Width \in Nat \ {0} /\ Bytes \in Nat \ {0}
  BY BitsOrder, ConfAssumption
<1>2. <<c, b>> \in AllBits
  BY <1>1 DEF AllBits
<1>3. l = k <=> c = CharOf(k) /\ b = BitOf(k)
  <2>1. CASE k = -1
    BY <1>1, <2>1 DEF CharOf, BitOf
  <2>2. CASE k \in Levels
    <3>1. k \in Nat /\ CharOf(k) = k \div Width /\ BitOf(k) = Width - 1 - (k % Width)
      BY <2>2, BitsOrder DEF CharOf, BitOf
    <3>2. /\ k \div Width \in Nat /\ k % Width \in 0 .. Width - 1
          /\ k = Width * (k \div Width) + (k % Width)
      BY <3>1, LevelSplits
    <3>3. /\ l \div Width \in Nat /\ l % Width \in 0 .. Width - 1
          /\ l = Width * (l \div Width) + (l % Width)
      BY <1>1, LevelSplits
    <3>4. b = BitOf(k) <=> l % Width = k % Width
      <4>1. \A x, y \in 0 .. Width - 1 : Width - 1 - x = Width - 1 - y <=> x = y
        BY <1>1
      <4> QED
        BY <3>1, <3>2, <3>3, <4>1
    <3> QED
      BY <3>1, <3>2, <3>3, <3>4
  <2> QED
    BY <2>1, <2>2
<1>4. l >= k <=> c > CharOf(k) \/ (c = CharOf(k) /\ b <= BitOf(k))
  <2>1. CASE k = -1
    BY <1>1, <2>1 DEF CharOf, BitOf
  <2>2. CASE k \in Levels
    <3>1. /\ k \in Nat /\ k % Width \in 0 .. Width - 1
          /\ CharOf(k) = k \div Width /\ BitOf(k) = Width - 1 - (k % Width)
      BY <2>2, BitsOrder DEF CharOf, BitOf
    <3>2. l >= k <=> \/ l \div Width > k \div Width
                     \/ l \div Width = k \div Width /\ l % Width >= k % Width
      BY <2>2, BitsOrder
    <3>3. b <= BitOf(k) <=> l % Width >= k % Width
      BY <1>1, <3>1, BitsOrder
    <3> QED
      BY <3>1, <3>2, <3>3
  <2> QED
    BY <2>1, <2>2
<1> QED
  BY <1>2, <1>3, <1>4 DEF Bitmap, Outputs


-----------------------------------------------------------------------------
(***************************************************************************)
(* What the lines before a rule have set.                                  *)
(***************************************************************************)
\* A non-empty set of numbers has a least element.
LEMMA NatMin ==
  ASSUME NEW T, T \subseteq Nat, T # {}
  PROVE  \E x \in T : \A y \in T : x <= y
<1> DEFINE R == OpToRel(<, Nat)
<1>1. \E x \in T : \A y \in T : ~ (<<y, x>> \in R)
  <2> HIDE DEF R
  <2>1. IsWellFoundedOn(R, Nat)
    BY NatLessThanWellFounded DEF R
  <2> QED
    BY <2>1, WFMin
<1>2. \A x, y \in Nat : <<y, x>> \in R <=> y < x
  BY DEF OpToRel
<1> HIDE DEF R
<1>3. PICK x \in T : \A y \in T : ~ (<<y, x>> \in R)
  BY <1>1
<1>4. \A y \in T : ~ (y < x)
  BY <1>2, <1>3
<1> QED
  BY <1>4

\* The level of a name is a level, or -1.
LEMMA LevelOfType ==
  ASSUME NEW name, NEW levels, DOMAIN levels \subseteq Levels
  PROVE  LevelOf(name, levels) \in {-1} \cup Levels
<1> DEFINE found == {l \in DOMAIN levels : levels[l] = name}
<1>1. CASE found = {}
  BY <1>1 DEF LevelOf
<1>2. CASE found # {}
  <2>1. found \subseteq Nat
    BY BitsOrder
  <2>2. \E l \in found : \A k \in found : l <= k
    BY <1>2, <2>1, NatMin
  <2>3. LevelOf(name, levels) \in found
    BY <1>2, <2>2 DEF LevelOf
  <2> QED
    BY <2>3
<1> QED
  BY <1>1, <1>2

\* The format of a name is one of the formats, or 0.
LEMMA FormatOfType ==
  ASSUME NEW name, NEW S, NEW formats \in Seq(S)
  PROVE  FormatOf(name, formats) \in 0 .. Len(formats)
<1> DEFINE found == {i \in DOMAIN formats : formats[i] = name}
<1>1. DOMAIN formats = 1 .. Len(formats) /\ Len(formats) \in Nat
  OBVIOUS
<1>2. CASE found = {}
  BY <1>1, <1>2 DEF FormatOf
<1>3. CASE found # {}
  <2>1. found \subseteq Nat
    BY <1>1
  <2>2. \E i \in found : \A k \in found : i <= k
    BY <1>3, <2>1, NatMin
  <2>3. FormatOf(name, formats) \in found
    BY <1>3, <2>2 DEF FormatOf
  <2> QED
    BY <1>1, <2>3
<1> QED
  BY <1>2, <1>3

\* The configuration that is built, field by field.
Fields(c) == [strict |-> c.strict, fsync |-> c.fsync, reload |-> c.reload,
              default |-> c.default, levels |-> c.levels, formats |-> c.formats,
              rules |-> c.rules]

AnyRule == [line : RuleLines \cup {EveryMessage}, fsync : Nat, level : {-1} \cup Levels,
            bits : SUBSET AllBits, format : Nat]

\* The types of the configuration.
ConfTyped ==
    /\ zconf = Fields(zconf)
    /\ zconf.strict \in BOOLEAN /\ zconf.default \in BOOLEAN
    /\ zconf.fsync \in Nat /\ zconf.reload \in Nat
    /\ DOMAIN zconf.levels \subseteq Levels
    /\ zconf.formats \in Seq(FormatNames) /\ zconf.rules \in Seq(AnyRule)
    /\ section \in 0 .. 4 /\ status \in {"reading", "built", "failed"}

\* Rules are read last: before their section there is none, and in it nothing
\* that they were made from changes.
RulesLast ==
    /\ status = "reading" /\ section # 4 => zconf.rules = <<>>
    /\ section # 4 => left = {}
    /\ \A i \in DOMAIN zconf.rules : zconf.rules[i] = RuleNew(zconf, zconf.rules[i].line)
    /\ \A line \in left : ~Makes(zconf, line)

\* The comparison of the periods is done before the first rule.
PeriodsCompared ==
    section = 4 \/ zconf.rules # <<>> => zconf.reload = 0 \/ zconf.fsync < zconf.reload

ConfInv == ConfTyped /\ RulesLast /\ PeriodsCompared

\* The rule of a line, of its type.
LEMMA RuleNewType ==
  ASSUME NEW c, c.fsync \in Nat, DOMAIN c.levels \subseteq Levels, NEW S, c.formats \in Seq(S),
         NEW line \in RuleLines \cup {EveryMessage}
  PROVE  RuleNew(c, line) \in AnyRule /\ RuleNew(c, line).line = line
<1>1. LevelOf(line.level, c.levels) \in {-1} \cup Levels
  BY LevelOfType
<1>2. FormatOf(line.format, c.formats) \in Nat
  BY FormatOfType
<1>3. Bitmap(line.cmp, LevelOf(line.level, c.levels)) \in SUBSET AllBits
  BY DEF Bitmap
<1> QED
  BY <1>1, <1>2, <1>3 DEF RuleNew, AnyRule

\* The rule of a line, field by field.
LEMMA RuleNewFields ==
  ASSUME NEW c, NEW line
  PROVE  /\ RuleNew(c, line).fsync = c.fsync
         /\ RuleNew(c, line).level = LevelOf(line.level, c.levels)
         /\ RuleNew(c, line).bits = Bitmap(line.cmp, LevelOf(line.level, c.levels))
         /\ RuleNew(c, line).format = FormatOf(line.format, c.formats)
BY DEF RuleNew

\* What a rule is made from is three fields.
LEMMA RuleNewFrom ==
  ASSUME NEW c, NEW d, c.fsync = d.fsync, c.levels = d.levels, c.formats = d.formats, NEW line
  PROVE  RuleNew(c, line) = RuleNew(d, line) /\ (Makes(c, line) <=> Makes(d, line))
BY DEF RuleNew, Makes


\* The default configuration, and the one rule there is without a file.
LEMMA ConfInitially == CfInit => ConfInv
<1> SUFFICES ASSUME CfInit PROVE ConfInv
  OBVIOUS
<1> DEFINE c == [strict |-> TRUE, fsync |-> 0, reload |-> 0, default |-> TRUE,
                 levels |-> DefaultLevels, formats |-> <<>>, rules |-> <<>>]
           r == RuleNew(c, EveryMessage)
<1>1. \/ zconf = c /\ status = "reading"
      \/ zconf = [c EXCEPT !.rules = <<r>>] /\ status = "built"
  BY DEF CfInit
<1>2. section = 0 /\ left = {}
  BY DEF CfInit
<1>3. r \in AnyRule /\ r.line = EveryMessage
  <2>1. c.fsync = 0 /\ c.levels = DefaultLevels /\ c.formats = <<>>
    OBVIOUS
  <2>2. c.formats \in Seq({}) /\ DOMAIN c.levels \subseteq Levels
    BY <2>1, ConfAssumption DEF Levels
  <2>3. EveryMessage \in RuleLines \cup {EveryMessage} /\ c.fsync \in Nat
    BY <2>1
  <2> HIDE DEF c
  <2>4. RuleNew(c, EveryMessage) \in AnyRule /\ RuleNew(c, EveryMessage).line = EveryMessage
    BY <2>2, <2>3, RuleNewType
  <2> QED
    BY <2>4
<1>4. DOMAIN DefaultLevels \subseteq Levels
  BY ConfAssumption DEF Levels
<1>5. CASE zconf = c /\ status = "reading"
  BY <1>2, <1>4, <1>5 DEF ConfInv, ConfTyped, RulesLast, PeriodsCompared, Fields
<1>6. CASE zconf = [c EXCEPT !.rules = <<r>>] /\ status = "built"
  <2> HIDE DEF r
  <2>1. zconf = [strict |-> TRUE, fsync |-> 0, reload |-> 0, default |-> TRUE,
                 levels |-> DefaultLevels, formats |-> <<>>, rules |-> <<r>>]
    BY <1>6
  <2>2. ConfTyped
    <3>1. <<r>> \in Seq(AnyRule) /\ zconf.formats \in Seq(FormatNames)
      BY <1>3, <2>1
    <3>2. zconf = Fields(zconf)
      BY <2>1 DEF Fields
    <3> QED
      BY <1>2, <1>4, <1>6, <2>1, <3>1, <3>2 DEF ConfTyped
  <2>3. RuleNew(zconf, EveryMessage) = r
    BY <2>1, RuleNewFrom DEF r
  <2>4. \A i \in DOMAIN zconf.rules : zconf.rules[i] = r
    BY <2>1
  <2> QED
    BY <1>2, <1>3, <1>6, <2>2, <2>3, <2>4 DEF ConfInv, RulesLast, PeriodsCompared
<1> QED
  BY <1>1, <1>5, <1>6

\* A line that ends the reading, or is passed over, changes nothing of what is built.
LEMMA ConfUnchanged ==
  ASSUME ConfInv, UNCHANGED <<zconf, section, left>>,
         status' \in {"reading", "built", "failed"}, status' = "reading" => status = "reading"
  PROVE  ConfInv'
BY DEF ConfInv, ConfTyped, RulesLast, PeriodsCompared, Fields, RuleNew, Makes

\* A refused line that is no rule.
LEMMA LineRefused ==
  ASSUME ConfInv, status = "reading", Leaves({})
  PROVE  ConfInv'
BY ConfUnchanged DEF Leaves, Fail

\* Before [rules] the configuration changes as the lines say, and there is no rule.
LEMMA BeforeRules ==
  ASSUME ConfInv, status = "reading", section # 4, section' \in 0 .. 3, UNCHANGED <<status, left>>,
         zconf' = Fields(zconf'), zconf'.rules = zconf.rules,
         zconf'.strict \in BOOLEAN, zconf'.default \in BOOLEAN,
         zconf'.fsync \in Nat, zconf'.reload \in Nat,
         DOMAIN zconf'.levels \subseteq Levels, zconf'.formats \in Seq(FormatNames)
  PROVE  ConfInv'
<1>1. zconf'.rules = <<>> /\ left' = {}
  BY DEF ConfInv, RulesLast
<1>2. ConfTyped'
  BY DEF ConfInv, ConfTyped, Fields
<1>3. RulesLast'
  BY <1>1 DEF RulesLast
<1> QED
  BY <1>1, <1>2, <1>3 DEF ConfInv, PeriodsCompared

\* The beginning of a section.
LEMMA SectionStep ==
  ASSUME ConfInv, NEW name, ParseSection(name)
  PROVE  ConfInv'
<1>1. CASE Fail
  BY <1>1, ConfUnchanged DEF Fail
<1>2. ASSUME NEW s \in 1 .. 4, s > section, status = "reading",
             section' = s, UNCHANGED <<status, left>>,
             zconf' = IF s = 4 /\ zconf.reload # 0 /\ zconf.fsync >= zconf.reload
                      THEN [zconf EXCEPT !.fsync = 0] ELSE zconf
      PROVE ConfInv'
  <2>1. section # 4 /\ ConfTyped
    BY <1>2 DEF ConfInv, ConfTyped
  <2>2. zconf.rules = <<>> /\ left' = {}
    BY <1>2, <2>1 DEF ConfInv, RulesLast
  <2>3. CASE zconf' = zconf
    <3>1. ConfTyped'
      BY <1>2, <2>1, <2>3 DEF ConfTyped, Fields
    <3>2. RulesLast'
      BY <2>2, <2>3 DEF RulesLast
    <3>3. PeriodsCompared'
      <4>1. zconf.reload \in Nat /\ zconf.fsync \in Nat
        BY <2>1 DEF ConfTyped
      <4>2. ASSUME s = 4, zconf.reload # 0, zconf.fsync >= zconf.reload PROVE FALSE
        <5>1. zconf.fsync = 0
          BY <1>2, <2>3, <2>1, <4>2 DEF ConfTyped, Fields
        <5> QED
          BY <4>1, <4>2, <5>1
      <4> QED
        BY <1>2, <2>2, <2>3, <4>1, <4>2 DEF PeriodsCompared
    <3> QED
      BY <3>1, <3>2, <3>3 DEF ConfInv
  <2>4. CASE zconf' = [zconf EXCEPT !.fsync = 0] /\ zconf.reload # 0
    <3>1. zconf' = [strict |-> zconf.strict, fsync |-> 0, reload |-> zconf.reload,
                    default |-> zconf.default, levels |-> zconf.levels,
                    formats |-> zconf.formats, rules |-> zconf.rules]
      BY <2>1, <2>4 DEF ConfTyped, Fields
    <3>2. ConfTyped'
      BY <1>2, <2>1, <3>1 DEF ConfTyped, Fields
    <3>3. RulesLast'
      BY <2>2, <3>1 DEF RulesLast
    <3>4. PeriodsCompared'
      BY <2>1, <2>4, <3>1 DEF PeriodsCompared, ConfTyped
    <3> QED
      BY <3>2, <3>3, <3>4 DEF ConfInv
  <2> QED
    BY <1>2, <2>3, <2>4
<1>3. DOMAIN Sections = 1 .. 4
  BY DEF Sections
<1> QED
  BY <1>1, <1>2, <1>3 DEF ParseSection

\* A line of [global] sets one of four fields.
LEMMA GlobalStep ==
  ASSUME ConfInv, NEW o \in Options, ParseGlobal(o)
  PROVE  ConfInv'
<1>1. CASE Leaves({})
  BY <1>1, LineRefused DEF ParseGlobal, Line
<1>2. CASE o[1] \in DOMAIN zconf /\ zconf' = [zconf EXCEPT ![o[1]] = o[2]]
           /\ UNCHANGED <<section, status, left>>
  <2>1. /\ o[1] \in {"strict", "fsync", "reload", "default"}
        /\ o[1] \in {"strict", "default"} => o[2] \in BOOLEAN
        /\ o[1] \in {"fsync", "reload"} => o[2] \in Nat
    BY <1>2, ConfAssumption DEF ConfInv, ConfTyped, Fields
  <2>2. zconf' = [strict |-> IF o[1] = "strict" THEN o[2] ELSE zconf.strict,
                  fsync |-> IF o[1] = "fsync" THEN o[2] ELSE zconf.fsync,
                  reload |-> IF o[1] = "reload" THEN o[2] ELSE zconf.reload,
                  default |-> IF o[1] = "default" THEN o[2] ELSE zconf.default,
                  levels |-> zconf.levels, formats |-> zconf.formats, rules |-> zconf.rules]
    BY <1>2, <2>1 DEF ConfInv, ConfTyped, Fields
  <2>3. section = 1 /\ status = "reading"
    BY DEF ParseGlobal, Line
  <2>4. zconf' = Fields(zconf')
    BY <2>2 DEF Fields
  <2>5. /\ zconf'.strict \in BOOLEAN /\ zconf'.default \in BOOLEAN
        /\ zconf'.fsync \in Nat /\ zconf'.reload \in Nat
        /\ zconf'.rules = zconf.rules /\ DOMAIN zconf'.levels \subseteq Levels
        /\ zconf'.formats \in Seq(FormatNames)
    BY <2>1, <2>2 DEF ConfInv, ConfTyped
  <2> QED
    BY <1>2, <2>3, <2>4, <2>5, BeforeRules
<1> QED
  BY <1>1, <1>2 DEF ParseGlobal

\* A line of [levels] or of [formats] adds one.
LEMMA NamesStep ==
  ASSUME ConfInv,
         (\E o \in LevelLines : ParseLevel(o)) \/ (\E name \in FormatNames : ParseFormat(name))
  PROVE  ConfInv'
<1>1. ASSUME NEW o \in LevelLines, ParseLevel(o) PROVE ConfInv'
  <2>1. CASE Leaves({})
    BY <1>1, <2>1, LineRefused DEF ParseLevel, Line
  <2>2. CASE ~Leaves({})
    <3> DEFINE levels == [l \in DOMAIN zconf.levels \cup {o[2]} |->
                             IF l = o[2] THEN o[1] ELSE zconf.levels[l]]
    <3>1. /\ section = 2 /\ status = "reading" /\ UNCHANGED <<section, status, left>>
          /\ o[2] \in Levels /\ zconf' = [zconf EXCEPT !.levels = levels]
      BY <1>1, <2>2 DEF ParseLevel, Line
    <3>2. zconf' = [strict |-> zconf.strict, fsync |-> zconf.fsync, reload |-> zconf.reload,
                    default |-> zconf.default, levels |-> levels,
                    formats |-> zconf.formats, rules |-> zconf.rules]
      BY <3>1 DEF ConfInv, ConfTyped, Fields
    <3>3. DOMAIN levels \subseteq Levels
      BY <3>1 DEF ConfInv, ConfTyped
    <3> HIDE DEF levels
    <3>4. zconf' = Fields(zconf')
      BY <3>2 DEF Fields
    <3> QED
      BY <3>1, <3>2, <3>3, <3>4, BeforeRules DEF ConfInv, ConfTyped
  <2> QED
    BY <2>1, <2>2
<1>2. ASSUME NEW name \in FormatNames, ParseFormat(name) PROVE ConfInv'
  <2>1. CASE Leaves({})
    BY <1>2, <2>1, LineRefused DEF ParseFormat, Line
  <2>2. CASE ~Leaves({})
    <3> DEFINE formats == Append(zconf.formats, name)
    <3>1. /\ section = 3 /\ status = "reading" /\ UNCHANGED <<section, status, left>>
          /\ zconf' = [zconf EXCEPT !.formats = formats]
      BY <1>2, <2>2 DEF ParseFormat, Line
    <3>2. zconf' = [strict |-> zconf.strict, fsync |-> zconf.fsync, reload |-> zconf.reload,
                    default |-> zconf.default, levels |-> zconf.levels,
                    formats |-> formats, rules |-> zconf.rules]
      BY <3>1 DEF ConfInv, ConfTyped, Fields
    <3>3. formats \in Seq(FormatNames)
      BY <3>1 DEF ConfInv, ConfTyped
    <3> HIDE DEF formats
    <3>4. zconf' = Fields(zconf')
      BY <3>2 DEF Fields
    <3> QED
      BY <3>1, <3>2, <3>3, <3>4, BeforeRules DEF ConfInv, ConfTyped
  <2> QED
    BY <2>1, <2>2
<1> QED
  BY <1>1, <1>2

\* A line of [rules] adds a rule made from what is there, or is left out.
LEMMA RuleStep ==
  ASSUME ConfInv, NEW line \in RuleLines, ParseRule(line)
  PROVE  ConfInv'
<1> DEFINE r == RuleNew(zconf, line)
<1>1. section = 4 /\ status = "reading" /\ ConfTyped
  BY DEF ParseRule, Line, ConfInv
<1>2. CASE Makes(zconf, line)
  <2>1. r \in AnyRule /\ r.line = line
    BY <1>1, RuleNewType DEF ConfTyped
  <2> HIDE DEF r
  <2>2. zconf' = [zconf EXCEPT !.rules = Append(zconf.rules, r)] /\ UNCHANGED <<section, status, left>>
    BY <1>2 DEF ParseRule, r
  <2>3. zconf' = [strict |-> zconf.strict, fsync |-> zconf.fsync, reload |-> zconf.reload,
                  default |-> zconf.default, levels |-> zconf.levels,
                  formats |-> zconf.formats, rules |-> Append(zconf.rules, r)]
    BY <1>1, <2>2 DEF ConfTyped, Fields
  <2>4. zconf.rules \in Seq(AnyRule) /\ zconf'.rules \in Seq(AnyRule)
    BY <1>1, <2>1, <2>3 DEF ConfTyped
  <2>5. ConfTyped'
    BY <1>1, <2>2, <2>3, <2>4 DEF ConfTyped, Fields
  <2>6. \A l : RuleNew(zconf', l) = RuleNew(zconf, l) /\ (Makes(zconf', l) <=> Makes(zconf, l))
    BY <2>3, RuleNewFrom
  <2>7. \A i \in DOMAIN zconf'.rules : zconf'.rules[i] = RuleNew(zconf', zconf'.rules[i].line)
    <3> SUFFICES ASSUME NEW i \in DOMAIN zconf'.rules
                 PROVE  zconf'.rules[i] = RuleNew(zconf, zconf'.rules[i].line)
      BY <2>6
    <3>1. \/ i \in DOMAIN zconf.rules /\ zconf'.rules[i] = zconf.rules[i]
          \/ zconf'.rules[i] = r
      BY <2>3, <2>4
    <3> QED
      BY <2>1, <3>1 DEF r, ConfInv, RulesLast
  <2>8. RulesLast'
    BY <1>1, <2>2, <2>6, <2>7 DEF RulesLast, ConfInv
  <2>9. PeriodsCompared'
    BY <1>1, <2>2, <2>3 DEF PeriodsCompared, ConfInv
  <2> QED
    BY <2>5, <2>8, <2>9 DEF ConfInv
<1>3. CASE ~Makes(zconf, line)
  <2>1. CASE Fail
    BY <2>1, ConfUnchanged DEF Fail
  <2>2. CASE left' = left \cup {line} /\ UNCHANGED <<zconf, section, status>>
    BY <1>1, <1>3, <2>2 DEF ConfInv, ConfTyped, RulesLast, PeriodsCompared, Fields
  <2> QED
    BY <1>3, <2>1, <2>2 DEF ParseRule, Leaves
<1> QED
  BY <1>2, <1>3

\* Every line keeps what holds.
LEMMA ConfInductive == ConfInv /\ [CfNext]_cfVars => ConfInv'
<1> SUFFICES ASSUME ConfInv, [CfNext]_cfVars PROVE ConfInv'
  OBVIOUS
<1>1. CASE ParseOutside \/ EndOfFile
  BY <1>1, ConfUnchanged DEF ParseOutside, Line, Fail, EndOfFile
<1>2. CASE UNCHANGED cfVars
  BY <1>2, ConfUnchanged DEF cfVars, ConfInv, ConfTyped
<1> QED
  BY <1>1, <1>2, SectionStep, GlobalStep, NamesStep, RuleStep DEF CfNext

-----------------------------------------------------------------------------
\* A message is thrown away before the lock is taken exactly when no rule writes
\* it, rules are what the whole file makes them, and the fsync period of a rule is
\* one that it can reach before a reload makes it anew, if all messages go to it:
\* for a char and a bitmap of any size and any lines (conf.c, rule.c:507-560).
THEOREM ConfHolds == CfSpec => []ConfSound
<1>1. ConfInv => ConfSound
  <2> SUFFICES ASSUME ConfInv PROVE ConfSound
    OBVIOUS
  <2>1. ASSUME NEW i \in DOMAIN zconf.rules
        PROVE  /\ zconf.rules[i] \in AnyRule
               /\ zconf.rules[i] = RuleNew(zconf, zconf.rules[i].line)
    BY DEF ConfInv, ConfTyped, RulesLast
  <2>2. CfTypeOK
    <3>1. ASSUME NEW i \in DOMAIN zconf.rules
          PROVE  zconf.rules[i].format \in 0 .. Len(zconf.formats)
      <4>1. zconf.rules[i].format = FormatOf(zconf.rules[i].line.format, zconf.formats)
        BY <2>1, RuleNewFields
      <4>2. zconf.formats \in Seq(FormatNames)
        BY DEF ConfInv, ConfTyped
      <4> QED
        BY <4>1, <4>2, FormatOfType
    <3> QED
      BY <2>1, <3>1 DEF CfTypeOK, ConfInv, ConfTyped, AnyRule
  <2>3. ShortcutExact
    <3>1. ASSUME NEW i \in DOMAIN zconf.rules, NEW l \in Levels
          PROVE  <<l \div Width, Width - 1 - (l % Width)>> \in zconf.rules[i].bits
                 <=> Outputs(zconf.rules[i], l)
      <4> DEFINE r == zconf.rules[i]
      <4>1. r \in AnyRule /\ r = RuleNew(zconf, r.line)
        BY <2>1
      <4>2. r.line.cmp \in {"=", "!", "*", "."}
        BY <4>1, ConfAssumption DEF AnyRule, EveryMessage
      <4>3. r.level \in {-1} \cup Levels
        BY <4>1 DEF AnyRule
      <4>4. r.bits = Bitmap(r.line.cmp, r.level)
        <5> HIDE DEF r
        <5>1. r.bits = RuleNew(zconf, r.line).bits /\ r.level = RuleNew(zconf, r.line).level
          BY <4>1
        <5>2. /\ RuleNew(zconf, r.line).bits = Bitmap(r.line.cmp, LevelOf(r.line.level, zconf.levels))
              /\ RuleNew(zconf, r.line).level = LevelOf(r.line.level, zconf.levels)
          BY RuleNewFields
        <5> QED
          BY <5>1, <5>2
      <4> QED
        BY <4>2, <4>3, <4>4, BitTellsOutput
    <3>2. \A name : FitRules(name) \subseteq DOMAIN zconf.rules
      <4> SUFFICES ASSUME NEW name PROVE FitRules(name) \subseteq DOMAIN zconf.rules
        OBVIOUS
      <4> DEFINE bins == {i \in DOMAIN zconf.rules : zconf.rules[i].line.cat = <<"!">>}
      <4>1. bins # {} => \E i \in bins : \A j \in bins : j <= i
        <5> SUFFICES ASSUME bins # {} PROVE \E i \in bins : \A j \in bins : j <= i
          OBVIOUS
        <5>1. bins \subseteq 1 .. Len(zconf.rules) /\ Len(zconf.rules) \in Nat
          BY DEF ConfInv, ConfTyped
        <5> DEFINE T == {n \in Nat : \E j \in bins : n = Len(zconf.rules) - j}
        <5>2. T # {} /\ T \subseteq Nat
          <6>1. PICK j \in bins : TRUE
            OBVIOUS
          <6>2. Len(zconf.rules) - j \in Nat
            BY <5>1, <6>1
          <6>3. Len(zconf.rules) - j \in T
            BY <6>1, <6>2
          <6> QED
            BY <6>3
        <5>3. PICK n \in T : \A m \in T : n <= m
          BY <5>2, NatMin
        <5>4. PICK i \in bins : n = Len(zconf.rules) - i
          BY <5>3
        <5>5. \A j \in bins : Len(zconf.rules) - j \in T
          BY <5>1
        <5>6. \A j \in bins : j <= i
          <6> SUFFICES ASSUME NEW j \in bins PROVE j <= i
            OBVIOUS
          <6> HIDE DEF bins, T
          <6>1. n <= Len(zconf.rules) - j
            BY <5>3, <5>5
          <6>i. i \in bins
            BY <5>4, Zenon
          <6>2. i \in Nat /\ j \in Nat
            <7>1. \A x \in bins : x \in Nat
              BY <5>1
            <7> QED
              BY <7>1, <6>i
          <6> QED
            BY <5>1, <5>4, <6>i, <6>1, <6>2
        <5> QED
          BY <5>4, <5>6
      <4>2. (CHOOSE i \in bins : \A j \in bins : j <= i) \in bins \/ bins = {}
        BY <4>1
      <4> QED
        BY <4>2 DEF FitRules
    <3> QED
      BY <3>1, <3>2 DEF ShortcutExact, Needless
  <2>4. RulesAsIfLast
    BY DEF RulesAsIfLast, ConfInv, RulesLast
  <2>5. PeriodInReach
    <3>1. ASSUME NEW i \in DOMAIN zconf.rules, zconf.reload # 0, status = "built"
          PROVE  zconf.rules[i].fsync < zconf.reload
      <4>1. zconf.rules[i].fsync = zconf.fsync
        BY <2>1, RuleNewFields
      <4>2. zconf.rules # <<>>
        BY <3>1
      <4> HIDE <2>1
      <4> QED
        BY <3>1, <4>1, <4>2 DEF ConfInv, PeriodsCompared, ConfTyped
    <3> QED
      BY <3>1 DEF PeriodInReach
  <2> QED
    BY <2>2, <2>3, <2>4, <2>5 DEF ConfSound
<1> QED
  BY <1>1, ConfInitially, ConfInductive, PTL DEF CfSpec

-----------------------------------------------------------------------------
(***************************************************************************)
(* The buffers of a message: sequences first, then what a write promises,   *)
(* then that every cut shows.                                               *)
(***************************************************************************)
LEMMA Listed ==
  ASSUME NEW S, NEW n \in Nat, NEW s, s = [i \in 1 .. n |-> s[i]], \A i \in 1 .. n : s[i] \in S
  PROVE  s \in Seq(S) /\ Len(s) = n /\ DOMAIN s = 1 .. n
<1>1. s \in [1 .. n -> S]
  OBVIOUS
<1> QED
  BY <1>1, SMT

LEMMA Joined ==
  ASSUME NEW S, NEW s \in Seq(S), NEW t \in Seq(S)
  PROVE  /\ s \o t \in Seq(S) /\ Len(s \o t) = Len(s) + Len(t) /\ DOMAIN (s \o t) = 1 .. Len(s \o t)
         /\ \A i \in 1 .. Len(s) : (s \o t)[i] = s[i]
         /\ \A i \in 1 .. Len(t) : (s \o t)[Len(s) + i] = t[i]
BY SMT

Buffers == [size : Nat, text : Seq(Int), null : BOOLEAN]

LEMMA BufferFields ==
  ASSUME NEW b \in Buffers
  PROVE  /\ b.size \in Nat /\ b.text \in Seq(Int) /\ Len(b.text) \in Nat /\ b.null \in BOOLEAN
         /\ \A t \in Seq(Int) : LET c == [b EXCEPT !.text = t]
                                IN  c \in Buffers /\ c.size = b.size /\ c.text = t /\ c.null = b.null
BY DEF Buffers

LEMMA BufferMade ==
  ASSUME NEW n \in Nat, NEW t \in Seq(Int), NEW u \in BOOLEAN
  PROVE  LET b == [size |-> n, text |-> t, null |-> u]
         IN  b \in Buffers /\ b.size = n /\ b.text = t /\ b.null = u
BY DEF Buffers

\* A buffer that is sound: the memory is as large as the code thinks, the end of
\* the string has its place, and only a buffer that may grow loses its memory.
GoodBuf(b, max) ==
    /\ b \in Buffers
    /\ b.size >= BufMin /\ (max # 0 => b.size <= max)
    /\ IF b.null THEN b.text = <<>> /\ (max # 0 => b.size < max) ELSE Len(b.text) <= b.size - 1

LEMMA GoodFields ==
  ASSUME bufMax \in BufMaxes, NEW b, GoodBuf(b, bufMax)
  PROVE  /\ b \in Buffers /\ BufMin \in Nat \ {0} /\ bufMax \in Nat
         /\ b.size \in Nat /\ b.text \in Seq(Int) /\ Len(b.text) \in Nat /\ b.null \in BOOLEAN
         /\ b.size >= BufMin /\ (bufMax # 0 => b.size <= bufMax) /\ (b.null /\ bufMax # 0 => b.size < bufMax)
         /\ IF b.null THEN b.text = <<>> /\ Len(b.text) = 0 /\ Room(b) = 0
                      ELSE Len(b.text) <= b.size - 1 /\ Room(b) = b.size - 1 - Len(b.text)
         /\ Room(b) \in Nat
<1>1. b \in Buffers /\ BufMin \in Nat \ {0} /\ bufMax \in Nat
  BY BufAssumption DEF GoodBuf
<1>2. b.size \in Nat /\ b.text \in Seq(Int) /\ Len(b.text) \in Nat /\ b.null \in BOOLEAN
  BY <1>1, BufferFields
<1>3. b.text = <<>> => Len(b.text) = 0
  OBVIOUS
<1> QED
  BY <1>1, <1>2, <1>3 DEF GoodBuf, Room

LEMMA AppendedGood ==
  ASSUME NEW b \in Buffers, NEW s \in Seq(Int), NEW d, d = Appended(b, s)
  PROVE  /\ d \in Buffers /\ d.size = b.size /\ d.null = b.null
         /\ d.text = b.text \o s /\ d.text \in Seq(Int) /\ Len(d.text) = Len(b.text) + Len(s)
<1>1. PICK t : t = b.text \o s
  OBVIOUS
<1>2. b.text \in Seq(Int)
  BY BufferFields
<1>3. t \in Seq(Int) /\ Len(t) = Len(b.text) + Len(s)
  BY <1>1, <1>2, Joined
<1>4. d = [b EXCEPT !.text = t]
  BY <1>1 DEF Appended
<1>5. d \in Buffers /\ d.size = b.size /\ d.text = t /\ d.null = b.null
  BY <1>3, <1>4, BufferFields
<1> QED
  BY <1>1, <1>3, <1>5

\* What zlog_buf_resize promises: on 0 the increment has its place, on 1 the buffer
\* is as large as it may become, and that is not enough.
ResizeGives(c, rc, b, inc, worked) ==
    /\ c \in Buffers
    /\ \/ rc = -1 /\ ~worked /\ GoodBuf(c, bufMax) /\ c.null
       \/ rc = 0 /\ c.size >= b.size + inc
       \/ rc = 1 /\ c.size = bufMax /\ bufMax # 0 /\ b.size + inc > bufMax
    /\ rc # -1 => /\ ~c.null /\ c.text = b.text
                  /\ c.size >= b.size /\ (bufMax # 0 => c.size <= bufMax)

LEMMA ResizedGood ==
  ASSUME bufMax \in BufMaxes, NEW b, GoodBuf(b, bufMax), NEW inc \in Nat \ {0}, NEW worked \in BOOLEAN,
         NEW q, q = Resized(b, inc, worked)
  PROVE  \E c, rc : q = [buf |-> c, rc |-> rc] /\ ResizeGives(c, rc, b, inc, worked)
<1>0. /\ b \in Buffers /\ BufMin \in Nat /\ bufMax \in Nat
      /\ b.size \in Nat /\ b.text \in Seq(Int) /\ b.null \in BOOLEAN
      /\ b.size >= BufMin /\ (bufMax # 0 => b.size <= bufMax) /\ (b.null /\ bufMax # 0 => b.size < bufMax)
  BY GoodFields
<1>1. CASE bufMax # 0 /\ b.size >= bufMax
  <2>1. q = [buf |-> b, rc |-> 1]
    BY <1>1 DEF Resized
  <2>2. b.size = bufMax /\ ~b.null /\ b.size + inc > bufMax
    BY <1>0, <1>1
  <2>3. ResizeGives(b, 1, b, inc, worked)
    BY <2>2, <1>0, <1>1 DEF ResizeGives
  <2> QED
    BY <2>1, <2>3
<1>2. CASE ~(bufMax # 0 /\ b.size >= bufMax) /\ ~worked
  <2>1. PICK lost : lost = [size |-> b.size, text |-> <<>>, null |-> TRUE]
    OBVIOUS
  <2>2. q = [buf |-> lost, rc |-> -1]
    BY <1>2, <2>1 DEF Resized
  <2>3. <<>> \in Seq(Int)
    OBVIOUS
  <2>4. lost \in Buffers /\ lost.size = b.size /\ lost.text = <<>> /\ lost.null = TRUE
    BY <1>0, <2>1, <2>3, BufferMade
  <2>5. GoodBuf(lost, bufMax)
    BY <2>4, <1>0, <1>2 DEF GoodBuf
  <2>6. ResizeGives(lost, -1, b, inc, worked)
    BY <2>4, <2>5, <1>2 DEF ResizeGives
  <2> QED
    BY <2>2, <2>6
<1>3. CASE ~(bufMax # 0 /\ b.size >= bufMax) /\ worked
  <2>1. PICK rc : rc = IF bufMax # 0 /\ b.size + inc > bufMax THEN 1 ELSE 0
    OBVIOUS
  <2>2. PICK more : more = [size |-> Grown(b, inc), text |-> b.text, null |-> FALSE]
    OBVIOUS
  <2>3. q = [buf |-> more, rc |-> rc]
    BY <1>3, <2>1, <2>2 DEF Resized
  <2>4. /\ Grown(b, inc) \in Nat /\ Grown(b, inc) >= b.size /\ (bufMax # 0 => Grown(b, inc) <= bufMax)
        /\ IF bufMax # 0 /\ b.size + inc > bufMax THEN Grown(b, inc) = bufMax
                                                  ELSE Grown(b, inc) >= b.size + inc
    BY <1>0, <1>3 DEF Grown, Least
  <2>5. more \in Buffers /\ more.size = Grown(b, inc) /\ more.text = b.text /\ more.null = FALSE
    BY <1>0, <2>2, <2>4, BufferMade
  <2>6. ResizeGives(more, rc, b, inc, worked)
    BY <2>1, <2>4, <2>5, <1>0 DEF ResizeGives
  <2> QED
    BY <2>3, <2>6
<1> QED
  BY <1>1, <1>2, <1>3

\* t is s, cut or read too far, with the mark at its end.
CutOf(t, s) ==
    /\ \A i \in 1 .. Len(t) : t[i] = Mark \/ t[i] = (IF i <= Len(s) THEN s[i] ELSE Junk)
    /\ Len(t) > 0 => t[Len(t)] = Mark

\* zlog_buf_truncate leaves the length and puts the mark at the end.
LEMMA TruncatedCut ==
  ASSUME NEW c \in Buffers, NEW d, d = Truncated(c)
  PROVE  /\ d \in Buffers /\ d.size = c.size /\ d.null = c.null /\ Len(d.text) = Len(c.text)
         /\ \A i \in 1 .. Len(c.text) : d.text[i] = Mark \/ d.text[i] = c.text[i]
         /\ Len(c.text) > 0 => d.text[Len(c.text)] = Mark
<1>1. PICK kept : kept = Len(c.text) - Least(MarkLen, Len(c.text))
  OBVIOUS
<1>2. PICK text : text = [i \in 1 .. Len(c.text) |-> IF i > kept THEN Mark ELSE c.text[i]]
  OBVIOUS
<1>3. d = [c EXCEPT !.text = text]
  BY <1>1, <1>2 DEF Truncated
<1>4. c.text \in Seq(Int) /\ Len(c.text) \in Nat
  BY BufferFields
<1>5. MarkLen \in Nat \ {0}
  BY BufAssumption
<1>6. kept \in Int /\ (Len(c.text) > 0 => kept < Len(c.text))
  <2>1. PICK n \in Nat : n = Len(c.text)
    BY <1>4
  <2>2. Least(MarkLen, n) \in Nat /\ (n > 0 => Least(MarkLen, n) > 0)
    BY <1>5 DEF Least
  <2>3. kept = n - Least(MarkLen, n)
    BY <1>1, <2>1
  <2> QED
    BY <2>1, <2>2, <2>3
<1>7. \A i \in 1 .. Len(c.text) : text[i] \in Int
  BY <1>2, <1>4 DEF Mark
<1>8. text = [i \in 1 .. Len(c.text) |-> text[i]]
  BY <1>2
<1>9. text \in Seq(Int) /\ Len(text) = Len(c.text)
  BY <1>4, <1>7, <1>8, Listed
<1>10. d \in Buffers /\ d.size = c.size /\ d.text = text /\ d.null = c.null
  BY <1>3, <1>9, BufferFields
<1> QED
  BY <1>2, <1>4, <1>6, <1>9, <1>10

\* What every writing function promises (buf.c): the buffer stays sound; on 0 the
\* text is there, on 1 the buffer is full, and of its limit, and the mark is at its end.
FillGives(d, rc, b, s, worked) ==
    /\ GoodBuf(d, bufMax) /\ (rc # -1 /\ d.null => b.null)
    /\ \/ rc = -1 /\ (worked => b.null)
       \/ rc = 0 /\ d.text = b.text \o s
       \/ /\ rc = 1 /\ bufMax # 0 /\ Len(d.text) = bufMax - 1
          /\ ~b.null => Len(b.text) + Len(s) >= bufMax
          /\ b.text = <<>> => CutOf(d.text, s)

LEMMA FilledGood ==
  ASSUME bufMax \in BufMaxes, NEW b, GoodBuf(b, bufMax), NEW s \in Seq(Int), NEW worked \in BOOLEAN,
         NEW r, r = Filled(b, s, worked)
  PROVE  \E d, rc : r = [buf |-> d, rc |-> rc] /\ FillGives(d, rc, b, s, worked)
<1>0. /\ b \in Buffers /\ BufMin \in Nat \ {0} /\ bufMax \in Nat
      /\ b.size \in Nat /\ b.text \in Seq(Int) /\ Len(b.text) \in Nat /\ b.null \in BOOLEAN
      /\ b.size >= BufMin /\ (bufMax # 0 => b.size <= bufMax) /\ (b.null /\ bufMax # 0 => b.size < bufMax)
      /\ Len(b.text) <= b.size - 1 /\ (b.null => b.text = <<>>)
      /\ Room(b) = IF b.null THEN 0 ELSE b.size - 1 - Len(b.text)
      /\ Room(b) \in Nat
  BY GoodFields
<1>s. Len(s) \in Nat
  OBVIOUS
<1>r. Room(b) <= b.size - 1 - Len(b.text) /\ (~b.null => Room(b) = b.size - 1 - Len(b.text))
  <2>1. b.null => Len(b.text) = 0 /\ Room(b) = 0
    BY <1>0
  <2>2. b.size >= 1
    BY <1>0
  <2> QED
    BY <2>1, <2>2, <1>0
<1>1. CASE Len(s) <= Room(b)
  <2>1. PICK d : d = Appended(b, s)
    OBVIOUS
  <2>2. r = [buf |-> d, rc |-> 0]
    BY <1>1, <2>1 DEF Filled
  <2>3. d \in Buffers /\ d.size = b.size /\ d.text = b.text \o s /\ d.null = b.null
        /\ d.text \in Seq(Int) /\ Len(d.text) = Len(b.text) + Len(s)
    BY <1>0, <2>1, AppendedGood
  <2>4. b.null => d.text = <<>>
    <3> SUFFICES ASSUME b.null PROVE d.text = <<>>
      OBVIOUS
    <3>1. b.text = <<>> /\ Len(b.text) = 0 /\ Room(b) = 0
      BY <1>0
    <3>2. Len(d.text) = 0 /\ d.text \in Seq(Int)
      BY <3>1, <1>1, <1>s, <2>3
    <3> QED
      BY <3>2
  <2>5. ~b.null => Len(d.text) <= d.size - 1
    BY <1>0, <1>1, <1>s, <2>3
  <2>6. GoodBuf(d, bufMax)
    BY <2>3, <2>4, <2>5, <1>0 DEF GoodBuf
  <2>7. FillGives(d, 0, b, s, worked)
    BY <2>3, <2>6 DEF FillGives
  <2> QED
    BY <2>2, <2>7
<1>2. CASE Len(s) > Room(b)
  <2>1. PICK inc : inc = Len(s) - Room(b)
    OBVIOUS
  <2>2. inc \in Nat \ {0} /\ b.size + inc = b.size + Len(s) - Room(b)
    <3>1. b.size \in Nat /\ Room(b) \in Nat
      BY <1>0
    <3> QED
      BY <3>1, <1>s, <1>2, <2>1
  <2>3. PICK q : q = Resized(b, inc, worked)
    OBVIOUS
  <2>4. PICK c, rc : q = [buf |-> c, rc |-> rc] /\ ResizeGives(c, rc, b, inc, worked)
    BY <2>2, <2>3, ResizedGood
  <2>5. /\ c \in Buffers
        /\ \/ rc = -1 /\ ~worked /\ GoodBuf(c, bufMax) /\ c.null
           \/ rc = 0 /\ c.size >= b.size + inc
           \/ rc = 1 /\ c.size = bufMax /\ bufMax # 0 /\ b.size + inc > bufMax
        /\ rc # -1 => /\ ~c.null /\ c.text = b.text
                      /\ c.size >= b.size /\ (bufMax # 0 => c.size <= bufMax)
    BY <2>4 DEF ResizeGives
  <2>6. q.buf = c /\ q.rc = rc /\ c.size \in Nat /\ c.null \in BOOLEAN /\ c.text \in Seq(Int)
    BY <2>4, <2>5, BufferFields
  <2>7. r = IF rc < 0 THEN q
            ELSE [buf |-> IF rc = 0 THEN Appended(c, s) ELSE Truncated(Appended(c, Taken(s, Room(c)))),
                  rc |-> rc]
    BY <1>2, <1>0, <1>s, <2>1, <2>3, <2>6 DEF Filled
  <2>8. CASE rc = -1
    <3>1. r = [buf |-> c, rc |-> -1]
      BY <2>4, <2>7, <2>8
    <3>2. FillGives(c, -1, b, s, worked)
      BY <2>5, <2>8 DEF FillGives
    <3> QED
      BY <3>1, <3>2
  <2>9. CASE rc = 0
    <3>1. PICK d : d = Appended(c, s)
      OBVIOUS
    <3>2. r = [buf |-> d, rc |-> 0]
      BY <3>1, <2>7, <2>9
    <3>3. /\ d \in Buffers /\ d.size = c.size /\ d.null = c.null
          /\ d.text = c.text \o s /\ Len(d.text) = Len(c.text) + Len(s)
      BY <3>1, <2>5, AppendedGood
    <3>4. ~c.null /\ c.text = b.text /\ c.size >= b.size + inc /\ (bufMax # 0 => c.size <= bufMax) /\ c.size >= b.size
      BY <2>5, <2>9
    <3>5. b.size + inc >= Len(b.text) + Len(s) + 1
      <4>1. b.size \in Nat /\ Room(b) \in Nat /\ Len(b.text) \in Nat /\ inc = Len(s) - Room(b)
        BY <2>1, <1>0
      <4> QED
        BY <4>1, <1>r, <1>s
    <3>6. d.size >= BufMin /\ (bufMax # 0 => d.size <= bufMax) /\ Len(d.text) <= d.size - 1
      <4>1. /\ b.size \in Nat /\ c.size \in Nat /\ Len(b.text) \in Nat /\ BufMin \in Nat /\ bufMax \in Nat
            /\ inc \in Nat /\ b.size >= BufMin
        BY <1>0, <2>2, <2>6
      <4>2. d.size = c.size /\ Len(d.text) = Len(b.text) + Len(s)
        BY <3>3, <3>4
      <4>3. d.size >= b.size /\ (bufMax # 0 => d.size <= bufMax)
        BY <4>2, <3>4
      <4>4. d.size >= b.size + inc /\ d.size \in Nat
        BY <4>1, <4>2, <3>4
      <4>5. Len(d.text) + 1 <= b.size + inc
        BY <4>1, <4>2, <3>5, <1>s
      <4>6. Len(d.text) \in Nat
        BY <4>1, <4>2, <1>s
      <4> QED
        BY <4>1, <4>3, <4>4, <4>5, <4>6
    <3>7. GoodBuf(d, bufMax)
      BY <3>3, <3>4, <3>6 DEF GoodBuf
    <3>8. FillGives(d, 0, b, s, worked)
      BY <3>3, <3>4, <3>7 DEF FillGives
    <3> QED
      BY <3>2, <3>8
  <2>10. CASE rc = 1
    <3>0. c.size = bufMax /\ bufMax # 0 /\ b.size + inc > bufMax /\ ~c.null /\ c.text = b.text /\ c.size >= b.size
      BY <2>5, <2>10
    <3>1. PICK n : n = Room(c)
      OBVIOUS
    <3>2. n = bufMax - 1 - Len(b.text)
      BY <3>0, <3>1 DEF Room
    <3>3. n \in Nat
      <4>1. b.size \in Nat /\ Len(b.text) \in Nat /\ bufMax \in Nat /\ Len(b.text) <= b.size - 1 /\ bufMax >= b.size
        BY <1>0, <3>0
      <4> QED
        BY <4>1, <3>2
    <3>4. PICK taken : taken = Taken(s, n)
      OBVIOUS
    <3>5. taken \in Seq(Int) /\ Len(taken) = n /\ \A i \in 1 .. n : taken[i] = IF i <= Len(s) THEN s[i] ELSE Junk
      <4>1. taken = [i \in 1 .. n |-> taken[i]] /\ \A i \in 1 .. n : taken[i] = IF i <= Len(s) THEN s[i] ELSE Junk
        BY <3>4 DEF Taken
      <4>2. \A i \in 1 .. n : taken[i] \in Int
        BY <4>1, <3>3 DEF Junk
      <4> QED
        BY <4>1, <4>2, <3>3, Listed
    <3>6. PICK w : w = Appended(c, taken)
      OBVIOUS
    <3>7. PICK d : d = Truncated(w)
      OBVIOUS
    <3>8. r = [buf |-> d, rc |-> 1]
      BY <3>1, <3>4, <3>6, <3>7, <2>7, <2>10
    <3>9. /\ w \in Buffers /\ w.size = c.size /\ w.null = c.null
          /\ Len(w.text) = Len(c.text) + n
          /\ \A i \in 1 .. n : w.text[Len(c.text) + i] = taken[i]
      <4>0. c \in Buffers /\ taken \in Seq(Int)
        BY <3>5, <2>5
      <4>1. /\ w \in Buffers /\ w.size = c.size /\ w.null = c.null
            /\ w.text = c.text \o taken /\ Len(w.text) = Len(c.text) + Len(taken)
        BY <4>0, <3>6, AppendedGood
      <4>2. \A i \in 1 .. Len(taken) : (c.text \o taken)[Len(c.text) + i] = taken[i]
        BY <4>0, <2>6, Joined
      <4> QED
        BY <4>1, <4>2, <3>5
    <3>10. /\ d \in Buffers /\ d.size = w.size /\ d.null = w.null /\ Len(d.text) = Len(w.text)
           /\ \A i \in 1 .. Len(w.text) : d.text[i] = Mark \/ d.text[i] = w.text[i]
           /\ Len(w.text) > 0 => d.text[Len(w.text)] = Mark
      BY <3>7, <3>9, TruncatedCut
    <3>11. d.size = bufMax /\ ~d.null /\ Len(d.text) = bufMax - 1
      BY <3>0, <3>2, <3>9, <3>10, <1>0
    <3>12. GoodBuf(d, bufMax)
      BY <3>0, <3>10, <3>11, <1>0 DEF GoodBuf
    <3>13. ~b.null => Len(b.text) + Len(s) >= bufMax
      <4>1. /\ b.size \in Nat /\ Room(b) \in Nat /\ Len(b.text) \in Nat /\ bufMax \in Nat
            /\ inc = Len(s) - Room(b) /\ b.size + inc > bufMax
        BY <2>1, <1>0, <3>0
      <4>2. b.size + (Len(s) - Room(b)) > bufMax
        BY <4>1
      <4> SUFFICES ASSUME ~b.null PROVE Len(b.text) + Len(s) >= bufMax
        OBVIOUS
      <4>3. Room(b) = b.size - 1 - Len(b.text)
        BY <1>r
      <4>4. \A z, x, l, m, o \in Nat : z + (x - o) > m /\ o = z - 1 - l => l + x >= m
        OBVIOUS
      <4> QED
        BY <4>1, <4>2, <4>3, <4>4, <1>s
    <3>14. b.text = <<>> => CutOf(d.text, s)
      <4> SUFFICES ASSUME b.text = <<>> PROVE CutOf(d.text, s)
        OBVIOUS
      <4>1. Len(c.text) = 0
        BY <3>0
      <4>2. Len(w.text) = n /\ \A i \in 1 .. n : w.text[i] = taken[i]
        BY <4>1, <3>3, <3>9
      <4> QED
        BY <4>2, <3>5, <3>10 DEF CutOf
    <3>15. FillGives(d, 1, b, s, worked)
      BY <3>0, <3>11, <3>12, <3>13, <3>14 DEF FillGives
    <3> QED
      BY <3>8, <3>15
  <2> QED
    BY <2>5, <2>8, <2>9, <2>10
<1> QED
  BY <1>0, <1>s, <1>1, <1>2

LEMMA WrittenGood ==
  ASSUME bufMax \in BufMaxes, NEW b, GoodBuf(b, bufMax), NEW s \in Seq(Int), NEW worked \in BOOLEAN, NEW kind,
         NEW r, r = Written(kind, b, s, worked)
  PROVE  \E d, rc : r = [buf |-> d, rc |-> rc] /\ FillGives(d, rc, b, s, worked)
<1>1. CASE kind = "printf" /\ b.null
  <2>1. r = [buf |-> b, rc |-> -1]
    BY <1>1 DEF Written
  <2>2. FillGives(b, -1, b, s, worked)
    BY <1>1 DEF FillGives
  <2> QED
    BY <2>1, <2>2
<1>2. CASE ~(kind = "printf" /\ b.null)
  <2>1. r = Filled(b, s, worked)
    BY <1>2 DEF Written
  <2> QED
    BY <2>1, FilledGood
<1> QED
  BY <1>1, <1>2

LEMMA PadsGood ==
  ASSUME NEW n \in Nat
  PROVE  Pads(n) \in Seq(Int) /\ Len(Pads(n)) = n
<1>1. PICK p : p = Pads(n)
  OBVIOUS
<1>2. p = [i \in 1 .. n |-> p[i]] /\ \A i \in 1 .. n : p[i] \in Int
  BY <1>1 DEF Pads, Pad
<1>3. p \in Seq(Int) /\ Len(p) = n
  BY <1>2, Listed
<1> QED
  BY <1>1, <1>3

LEMMA SourceGood ==
  ASSUME NEW s \in Seq(Int), NEW out \in Nat
  PROVE  /\ Source(s, out) \in Seq(Int)
         /\ Len(Source(s, out)) = IF out = 0 \/ Len(s) < out THEN Len(s) ELSE out
         /\ \A i \in 1 .. Len(Source(s, out)) : Source(s, out)[i] = s[i]
<1>1. CASE out = 0 \/ Len(s) < out
  BY <1>1 DEF Source
<1>2. CASE ~(out = 0 \/ Len(s) < out)
  <2>1. Source(s, out) = SubSeq(s, 1, out) /\ out \in 1 .. Len(s)
    BY <1>2 DEF Source
  <2>2. /\ SubSeq(s, 1, out) \in Seq(Int) /\ Len(SubSeq(s, 1, out)) = out
        /\ \A i \in 1 .. out : SubSeq(s, 1, out)[i] = s[i]
    BY <2>1, SMT
  <2> QED
    BY <2>1, <2>2, <1>2
<1> QED
  BY <1>1, <1>2

\* A width pads, and shows every character that it does not cut.
LEMMA AdjustedGood ==
  ASSUME NEW s \in Seq(Int), NEW onLeft \in BOOLEAN, NEW in \in Nat, NEW out \in Nat,
         NEW u, u = Source(s, out), NEW a, a = Adjusted(s, onLeft, in, out)
  PROVE  /\ a \in Seq(Int)
         /\ Len(a) = IF Len(u) >= in THEN Len(u) ELSE in
         /\ \A i \in 1 .. Len(u) : Shows(a, u[i])
<1>1. u \in Seq(Int) /\ Len(u) \in Nat
  BY SourceGood
<1>2. PICK n : n = IF in = 0 \/ Len(u) >= in THEN 0 ELSE in - Len(u)
  OBVIOUS
<1>3. n \in Nat /\ Len(u) + n = IF Len(u) >= in THEN Len(u) ELSE in
  BY <1>1, <1>2
<1>4. PICK p : p = Pads(n)
  OBVIOUS
<1>5. p \in Seq(Int) /\ Len(p) = n
  BY <1>3, <1>4, PadsGood
<1>6. a = IF onLeft THEN u \o p ELSE p \o u
  BY <1>2, <1>4 DEF Adjusted
<1>7. CASE onLeft
  <2>1. a = u \o p
    BY <1>6, <1>7
  <2>2. /\ u \o p \in Seq(Int) /\ Len(u \o p) = Len(u) + n /\ DOMAIN (u \o p) = 1 .. Len(u \o p)
    BY <1>1, <1>5, Joined
  <2>3. \A i \in 1 .. Len(u) : (u \o p)[i] = u[i]
    BY <1>1, <1>5, Joined
  <2>4. \A i \in 1 .. Len(u) : i \in DOMAIN (u \o p)
    BY <2>2, <1>1, <1>3
  <2>5. \A i \in 1 .. Len(u) : Shows(a, u[i])
    BY <2>1, <2>3, <2>4 DEF Shows
  <2> QED
    BY <2>1, <2>2, <2>5, <1>3
<1>8. CASE ~onLeft
  <2>1. a = p \o u
    BY <1>6, <1>8
  <2>2. /\ p \o u \in Seq(Int) /\ Len(p \o u) = Len(p) + Len(u) /\ DOMAIN (p \o u) = 1 .. Len(p \o u)
    BY <1>1, <1>5, Joined
  <2>t. \A i \in 1 .. Len(u) : (p \o u)[Len(p) + i] = u[i]
    BY <1>1, <1>5, Joined
  <2>3. \A i \in 1 .. Len(u) : Len(p) + i \in DOMAIN (p \o u)
    BY <2>2, <1>1, <1>3, <1>5
  <2>4. \A i \in 1 .. Len(u) : Shows(a, u[i])
    BY <2>1, <2>3, <2>t DEF Shows
  <2>5. Len(a) = Len(u) + n
    BY <2>1, <2>2, <1>1, <1>3, <1>5
  <2> QED
    BY <2>1, <2>2, <2>4, <2>5, <1>3
<1> QED
  BY <1>7, <1>8

LEMMA AdjustedLong ==
  ASSUME NEW s \in Seq(Int), NEW onLeft \in BOOLEAN, NEW in \in Nat, NEW out \in Nat
  PROVE  /\ Adjusted(s, onLeft, in, out) \in Seq(Int)
         /\ Len(Source(s, out)) >= in => Len(Adjusted(s, onLeft, in, out)) = Len(Source(s, out))
         /\ Len(Source(s, out)) < in => Len(Adjusted(s, onLeft, in, out)) = in
<1>1. PICK u, a : u = Source(s, out) /\ a = Adjusted(s, onLeft, in, out)
  OBVIOUS
<1>2. a \in Seq(Int) /\ Len(a) = IF Len(u) >= in THEN Len(u) ELSE in
  BY <1>1, AdjustedGood, SMTT(45)
<1>3. u \in Seq(Int)
  BY <1>1, SourceGood
<1>4. Len(u) \in Nat
  BY <1>3
<1> QED
  BY <1>1, <1>2, <1>4

\* A text that was cut and is cut again by a width is the text that the width would
\* leave, or shows that it was cut: by its mark, or by what was read past it.
LEMMA CutShows ==
  ASSUME NEW s \in Seq(Int), NEW t \in Seq(Int), CutOf(t, s), Len(t) > 0,
         NEW onLeft \in BOOLEAN, NEW in \in Nat, NEW out \in Nat,
         NEW a, a = Adjusted(t, onLeft, in, out)
  PROVE  \/ a = Adjusted(s, onLeft, in, out)
         \/ Shows(a, Mark)
         \/ Len(t) > Len(s) /\ Shows(a, Junk)
<1>1. PICK u, v : u = Source(t, out) /\ v = Source(s, out)
  OBVIOUS
<1>2. /\ u \in Seq(Int) /\ Len(u) = (IF out = 0 \/ Len(t) < out THEN Len(t) ELSE out)
      /\ \A i \in 1 .. Len(u) : u[i] = t[i]
  BY <1>1, SourceGood
<1>3. /\ v \in Seq(Int) /\ Len(v) = (IF out = 0 \/ Len(s) < out THEN Len(s) ELSE out)
      /\ \A i \in 1 .. Len(v) : v[i] = s[i]
  BY <1>1, SourceGood
<1>4. Len(s) \in Nat /\ Len(t) \in Nat /\ Len(u) \in Nat
  BY <1>2
<1>5. \A i \in 1 .. Len(u) : Shows(a, u[i])
  BY <1>1, AdjustedGood
<1>6. CASE \E i \in 1 .. Len(u) : u[i] = Mark
  BY <1>5, <1>6
<1>7. CASE \A i \in 1 .. Len(u) : u[i] # Mark
  <2>1. out # 0 /\ Len(t) >= out /\ Len(u) = out
    <3>1. Len(u) # Len(t)
      <4> SUFFICES ASSUME Len(u) = Len(t) PROVE FALSE
        OBVIOUS
      <4>1. Len(t) \in 1 .. Len(u) /\ t[Len(t)] = Mark
        BY <1>4 DEF CutOf
      <4> QED
        BY <4>1, <1>2, <1>7
    <3> QED
      BY <3>1, <1>2, <1>4
  <2>2. \A i \in 1 .. out : u[i] = IF i <= Len(s) THEN s[i] ELSE Junk
    <3>1. \A i \in 1 .. out : i \in 1 .. Len(u) /\ i \in 1 .. Len(t)
      BY <2>1, <1>4
    <3> QED
      BY <3>1, <1>2, <1>7 DEF CutOf
  <2>3. CASE Len(s) < out
    <3>1. out \in 1 .. Len(u) /\ u[out] = Junk /\ Len(t) > Len(s)
      BY <2>1, <2>2, <2>3, <1>4
    <3> QED
      BY <3>1, <1>5
  <2>4. CASE Len(s) >= out
    <3>1. Len(v) = out /\ \A i \in 1 .. out : i <= Len(s)
      BY <2>1, <2>4, <1>3, <1>4
    <3>2. \A i \in 1 .. out : u[i] = v[i]
      BY <3>1, <2>2, <1>3
    <3>3. u = v
      <4>1. u \in Seq(Int) /\ v \in Seq(Int) /\ Len(u) = Len(v)
        BY <3>1, <2>1, <1>2, <1>3
      <4>2. \A i \in 1 .. Len(u) : u[i] = v[i]
        BY <3>2, <2>1
      <4> QED
        BY <4>1, <4>2, SeqEqual
    <3>4. Source(t, out) = Source(s, out)
      BY <3>3, <1>1
    <3> QED
      BY <3>4 DEF Adjusted
  <2> QED
    BY <2>3, <2>4, <1>4
<1> QED
  BY <1>6, <1>7

LEMMA ShowsJoined ==
  ASSUME NEW s \in Seq(Int), NEW t \in Seq(Int), NEW c
  PROVE  Shows(s, c) \/ Shows(t, c) => Shows(s \o t, c)
<1>1. /\ s \o t \in Seq(Int) /\ Len(s \o t) = Len(s) + Len(t) /\ DOMAIN (s \o t) = 1 .. Len(s \o t)
      /\ \A i \in 1 .. Len(s) : (s \o t)[i] = s[i]
      /\ \A i \in 1 .. Len(t) : (s \o t)[Len(s) + i] = t[i]
  BY Joined
<1>2. \A i \in DOMAIN s : i \in 1 .. Len(s) /\ i \in DOMAIN (s \o t)
  BY <1>1
<1>3. \A i \in DOMAIN t : i \in 1 .. Len(t) /\ Len(s) + i \in DOMAIN (s \o t)
  BY <1>1
<1> QED
  BY <1>1, <1>2, <1>3 DEF Shows

(***************************************************************************)
(* The inductive invariant: both buffers are sound, memory is lost only     *)
(* when a realloc failed, and what the message is longer than the format    *)
(* means only then.                                                         *)
(***************************************************************************)
BufTypes ==
    /\ bufMax \in BufMaxes /\ wanted \in Seq(Int) /\ msgs \in Nat /\ reallocs \in Nat
    /\ GoodBuf(preBuf, bufMax) /\ GoodBuf(msgBuf, bufMax)

MemoryHeld ==
    reallocs = 0 => /\ ~preBuf.null /\ ~msgBuf.null
                    /\ bpc = "specs" => Len(msgBuf.text) <= Len(wanted)

BufIInv == BufTypes /\ MemoryHeld /\ NoSilentCut /\ GivenUpTooLong

LEMMA BufInitially == BufInit => BufIInv
<1> SUFFICES ASSUME BufInit PROVE BufIInv
  OBVIOUS
<1>0. BufMin \in Nat \ {0} /\ bufMax \in BufMaxes /\ bufMax \in Nat /\ (bufMax # 0 => bufMax >= BufMin)
  BY BufAssumption DEF BufInit
<1>1. <<>> \in Seq(Int) /\ Len(<<>>) = 0
  OBVIOUS
<1>2. PICK b : b = [size |-> BufMin, text |-> <<>>, null |-> FALSE]
  OBVIOUS
<1>3. b \in Buffers /\ b.size = BufMin /\ b.text = <<>> /\ b.null = FALSE
  BY <1>0, <1>1, <1>2, BufferMade
<1>4. GoodBuf(b, bufMax)
  BY <1>0, <1>1, <1>3 DEF GoodBuf
<1>5. /\ preBuf = b /\ msgBuf = b /\ wanted = <<>> /\ msgs = 0 /\ reallocs = 0
      /\ bpc = "idle" /\ result = 0
  BY <1>2 DEF BufInit, NewBuf
<1> QED
  BY <1>0, <1>1, <1>3, <1>4, <1>5 DEF BufIInv, BufTypes, MemoryHeld, NoSilentCut, GivenUpTooLong

\* A restart empties a buffer, that of a message too.
LEMMA Restarted ==
  ASSUME bufMax \in BufMaxes, NEW b, GoodBuf(b, bufMax), NEW d, d = [b EXCEPT !.text = <<>>]
  PROVE  GoodBuf(d, bufMax) /\ d.null = b.null /\ d.text = <<>> /\ Len(d.text) = 0
<1>1. <<>> \in Seq(Int) /\ Len(<<>>) = 0
  OBVIOUS
<1>2. b \in Buffers /\ b.size \in Nat /\ b.size >= BufMin /\ BufMin \in Nat \ {0} /\ b.null \in BOOLEAN
  BY GoodFields
<1>3. d \in Buffers /\ d.size = b.size /\ d.text = <<>> /\ d.null = b.null
  BY <1>1, <1>2, BufferFields
<1> QED
  BY <1>1, <1>2, <1>3 DEF GoodBuf

\* A conversion that was meant as add and comes as s, from the second buffer or not,
\* ends with the message, or keeps the invariant.
LEMMA EndsStep ==
  ASSUME BufIInv, bpc = "specs", NEW s \in Seq(Int), NEW add \in Seq(Int), NEW worked \in BOOLEAN,
         NEW kind, NEW r, r = Written(kind, msgBuf, s, worked),
         \/ s = add \/ bufMax = 1 \/ Shows(s, Mark) \/ (reallocs > 0 /\ Shows(s, Junk)),
         reallocs = 0 => Len(s) <= Len(add),
         wanted' = wanted \o add, Ends(r), Failed(r, worked), bufMax' = bufMax, msgs' = msgs,
         GoodBuf(preBuf', bufMax), reallocs = 0 => ~preBuf'.null
  PROVE  BufIInv'
<1>0. /\ bufMax \in BufMaxes /\ wanted \in Seq(Int) /\ msgs \in Nat /\ reallocs \in Nat
      /\ GoodBuf(msgBuf, bufMax)
  BY DEF BufIInv, BufTypes
<1>1. PICK d, rc : r = [buf |-> d, rc |-> rc] /\ FillGives(d, rc, msgBuf, s, worked)
  BY <1>0, WrittenGood
<1>2. /\ msgBuf' = d /\ result' = rc /\ bpc' = (IF rc = 0 THEN "specs" ELSE "idle")
      /\ reallocs' = IF ~worked /\ rc < 0 THEN reallocs + 1 ELSE reallocs
  BY <1>1 DEF Ends, Failed
<1>3. /\ GoodBuf(d, bufMax) /\ (rc # -1 /\ d.null => msgBuf.null)
      /\ \/ rc = -1 /\ (worked => msgBuf.null)
         \/ rc = 0 /\ d.text = msgBuf.text \o s
         \/ /\ rc = 1 /\ bufMax # 0 /\ Len(d.text) = bufMax - 1
            /\ ~msgBuf.null => Len(msgBuf.text) + Len(s) >= bufMax
  BY <1>1 DEF FillGives
<1>4. /\ bufMax \in Nat /\ msgBuf.text \in Seq(Int) /\ Len(msgBuf.text) \in Nat /\ msgBuf.null \in BOOLEAN
      /\ Len(s) \in Nat /\ Len(add) \in Nat /\ Len(wanted) \in Nat
  BY <1>0, GoodFields
<1>5. wanted' \in Seq(Int) /\ Len(wanted') = Len(wanted) + Len(add)
  BY <1>0, Joined
<1>6. reallocs' \in Nat /\ reallocs' >= reallocs
  BY <1>0, <1>2
<1>7. BufTypes'
  BY <1>0, <1>2, <1>3, <1>5, <1>6 DEF BufTypes
<1>8. ASSUME reallocs' = 0
      PROVE  /\ reallocs = 0 /\ ~msgBuf.null /\ rc # -1 /\ ~d.null
             /\ Len(msgBuf.text) <= Len(wanted) /\ Len(s) <= Len(add)
  <2>1. reallocs = 0
    BY <1>0, <1>6, <1>8
  <2>2. ~msgBuf.null /\ Len(msgBuf.text) <= Len(wanted)
    BY <2>1 DEF BufIInv, MemoryHeld
  <2>3. rc # -1
    BY <1>2, <1>3, <1>8, <2>1, <2>2
  <2> QED
    BY <1>3, <2>1, <2>2, <2>3
<1>9. MemoryHeld'
  <2> SUFFICES ASSUME reallocs' = 0
               PROVE  ~preBuf'.null /\ ~msgBuf'.null /\ (bpc' = "specs" => Len(msgBuf'.text) <= Len(wanted'))
    BY DEF MemoryHeld
  <2>1. CASE rc = 0
    <3>1. Len(d.text) = Len(msgBuf.text) + Len(s)
      <4>1. d.text = msgBuf.text \o s
        BY <2>1, <1>3
      <4> QED
        BY <4>1, <1>4, Joined
    <3> QED
      BY <3>1, <1>2, <1>4, <1>5, <1>8
  <2>2. CASE rc # 0
    BY <2>2, <1>2, <1>8
  <2> QED
    BY <2>1, <2>2
<1>10. NoSilentCut'
  <2> SUFFICES ASSUME bpc' = "specs", bufMax' # 1
               PROVE  \/ msgBuf'.text = wanted' \/ Shows(msgBuf'.text, Mark)
                      \/ reallocs' > 0 /\ Shows(msgBuf'.text, Junk)
    BY DEF NoSilentCut, Shows
  <2>1. rc = 0 /\ msgBuf'.text = msgBuf.text \o s /\ reallocs' = reallocs
    BY <1>2, <1>3
  <2>2. \/ msgBuf.text = wanted \/ Shows(msgBuf.text, Mark)
        \/ reallocs > 0 /\ Shows(msgBuf.text, Junk)
    BY DEF BufIInv, NoSilentCut
  <2>3. /\ Shows(msgBuf.text, Mark) \/ Shows(s, Mark) => Shows(msgBuf.text \o s, Mark)
        /\ Shows(msgBuf.text, Junk) \/ Shows(s, Junk) => Shows(msgBuf.text \o s, Junk)
    BY <1>4, ShowsJoined
  <2> QED
    BY <2>1, <2>2, <2>3
<1>11. GivenUpTooLong'
  <2> SUFFICES ASSUME result' > 0, reallocs' = 0
               PROVE  bufMax' # 0 /\ Len(wanted') >= bufMax'
    BY DEF GivenUpTooLong
  <2>1. bufMax # 0 /\ Len(msgBuf.text) + Len(s) >= bufMax
    BY <1>2, <1>3, <1>8
  <2> QED
    BY <2>1, <1>4, <1>5, <1>8
<1> QED
  BY <1>7, <1>9, <1>10, <1>11 DEF BufIInv

LEMMA DirectStep ==
  ASSUME BufIInv, NEW kind, NEW s \in Seq(Int), NEW worked \in BOOLEAN, Direct(kind, s, worked)
  PROVE  BufIInv'
<1>1. /\ bpc = "specs" /\ bufMax' = bufMax /\ msgs' = msgs /\ wanted' = wanted \o s /\ preBuf' = preBuf
  BY DEF Direct, Convert
<1>2. PICK r : r = Written(kind, msgBuf, s, worked)
  OBVIOUS
<1>3. Ends(r) /\ Failed(r, worked)
  BY <1>2 DEF Direct
<1>4. GoodBuf(preBuf', bufMax) /\ (reallocs = 0 => ~preBuf'.null)
  BY <1>1 DEF BufIInv, BufTypes, MemoryHeld
<1>5. Len(s) <= Len(s)
  OBVIOUS
<1> QED
  BY <1>1, <1>2, <1>3, <1>4, <1>5, EndsStep

LEMMA ReformatStep ==
  ASSUME BufIInv, NEW kind, NEW s \in Seq(Int), NEW w \in Nat \X Nat, NEW onLeft \in BOOLEAN, NEW worked \in BOOLEAN,
         Reformat(kind, s, w, onLeft, worked)
  PROVE  BufIInv'
<1>0. /\ bufMax \in BufMaxes /\ wanted \in Seq(Int) /\ msgs \in Nat /\ reallocs \in Nat
      /\ GoodBuf(preBuf, bufMax) /\ GoodBuf(msgBuf, bufMax) /\ bufMax \in Nat
  BY BufAssumption DEF BufIInv, BufTypes
<1>w. PICK in \in Nat, out \in Nat : in = w[1] /\ out = w[2]
  OBVIOUS
<1>1. PICK add : add = Adjusted(s, onLeft, in, out)
  OBVIOUS
<1>2. bpc = "specs" /\ bufMax' = bufMax /\ msgs' = msgs /\ wanted' = wanted \o add
  BY <1>1, <1>w DEF Reformat, Convert
<1>3. PICK empty : empty = [preBuf EXCEPT !.text = <<>>]
  OBVIOUS
<1>4. GoodBuf(empty, bufMax) /\ empty.null = preBuf.null /\ empty.text = <<>> /\ Len(empty.text) = 0
  BY <1>0, <1>3, Restarted
<1>5. PICK pre : pre = Written(kind, empty, s, worked)
  OBVIOUS
<1>6. PICK d, rc : pre = [buf |-> d, rc |-> rc] /\ FillGives(d, rc, empty, s, worked)
  BY <1>0, <1>4, <1>5, WrittenGood
<1>7. PICK text : text = Adjusted(d.text, onLeft, in, out)
  OBVIOUS
<1>8. PICK r : r = Written("printf", msgBuf, text, worked)
  OBVIOUS
<1>9. /\ preBuf' = d
      /\ IF rc < 0 THEN result' = -1 /\ bpc' = "idle" /\ Failed(pre, worked) /\ msgBuf' = msgBuf
                   ELSE Ends(r) /\ Failed(r, worked)
  <2>1. pre.buf = d /\ pre.rc = rc
    BY <1>6
  <2>2. /\ preBuf' = pre.buf
        /\ IF pre.rc < 0 THEN result' = -1 /\ bpc' = "idle" /\ Failed(pre, worked) /\ msgBuf' = msgBuf
           ELSE Ends(Written("printf", msgBuf, Adjusted(pre.buf.text, onLeft, w[1], w[2]), worked))
                /\ Failed(Written("printf", msgBuf, Adjusted(pre.buf.text, onLeft, w[1], w[2]), worked), worked)
    BY <1>3, <1>5 DEF Reformat
  <2> QED
    BY <2>1, <2>2, <1>w, <1>7, <1>8
<1>10. /\ GoodBuf(d, bufMax) /\ (rc # -1 /\ d.null => preBuf.null)
       /\ \/ rc = -1 /\ (worked => preBuf.null)
          \/ rc = 0 /\ d.text = <<>> \o s
          \/ /\ rc = 1 /\ bufMax # 0 /\ Len(d.text) = bufMax - 1
             /\ ~preBuf.null => 0 + Len(s) >= bufMax
             /\ CutOf(d.text, s)
  BY <1>4, <1>6 DEF FillGives
<1>11. Len(s) \in Nat /\ d.text \in Seq(Int) /\ Len(d.text) \in Nat
  BY <1>0, <1>10, GoodFields
<1>12. /\ add \in Seq(Int) /\ text \in Seq(Int)
       /\ Len(Source(s, out)) >= in => Len(add) = Len(Source(s, out))
       /\ Len(Source(s, out)) < in => Len(add) = in
       /\ Len(Source(d.text, out)) >= in => Len(text) = Len(Source(d.text, out))
       /\ Len(Source(d.text, out)) < in => Len(text) = in
  <2>1. PICK t \in Seq(Int) : t = d.text
    BY <1>11
  <2>2. /\ Adjusted(s, onLeft, in, out) \in Seq(Int)
        /\ Len(Source(s, out)) >= in => Len(Adjusted(s, onLeft, in, out)) = Len(Source(s, out))
        /\ Len(Source(s, out)) < in => Len(Adjusted(s, onLeft, in, out)) = in
    BY AdjustedLong
  <2>3. /\ Adjusted(t, onLeft, in, out) \in Seq(Int)
        /\ Len(Source(t, out)) >= in => Len(Adjusted(t, onLeft, in, out)) = Len(Source(t, out))
        /\ Len(Source(t, out)) < in => Len(Adjusted(t, onLeft, in, out)) = in
    BY AdjustedLong
  <2> QED
    BY <2>1, <2>2, <2>3, <1>1, <1>7
<1>13. reallocs = 0 => ~preBuf.null /\ ~msgBuf.null
  BY DEF BufIInv, MemoryHeld
<1>14. CASE rc = -1
  <2>1. result' = -1 /\ bpc' = "idle" /\ msgBuf' = msgBuf
    BY <1>9, <1>14
  <2>2. reallocs' = IF ~worked THEN reallocs + 1 ELSE reallocs
    BY <1>6, <1>9, <1>14 DEF Failed
  <2>3. reallocs' \in Nat /\ reallocs' # 0
    BY <2>2, <1>0, <1>10, <1>13, <1>14
  <2>4. wanted' \in Seq(Int)
    BY <1>0, <1>2, <1>12, Joined
  <2> QED
    BY <2>1, <2>3, <2>4, <1>0, <1>2, <1>9, <1>10
       DEF BufIInv, BufTypes, MemoryHeld, NoSilentCut, GivenUpTooLong
<1>15. CASE rc # -1
  <2>1. Ends(r) /\ Failed(r, worked) /\ rc \in {0, 1}
    BY <1>9, <1>10, <1>15
  <2>2. GoodBuf(preBuf', bufMax) /\ (reallocs = 0 => ~preBuf'.null)
    BY <1>9, <1>10, <1>13, <1>15
  <2>3. reallocs = 0 => Len(d.text) <= Len(s)
    <3>1. CASE rc = 0
      BY <3>1, <1>10, <1>11
    <3>2. CASE rc = 1
      BY <3>2, <1>0, <1>10, <1>11, <1>13
    <3> QED
      BY <3>1, <3>2, <2>1
  <2>4. reallocs = 0 => Len(text) <= Len(add)
    <3> SUFFICES ASSUME Len(d.text) <= Len(s) PROVE Len(text) <= Len(add)
      BY <2>3
    <3>1. /\ Len(Source(s, out)) = (IF out = 0 \/ Len(s) < out THEN Len(s) ELSE out)
          /\ Len(Source(d.text, out)) = (IF out = 0 \/ Len(d.text) < out THEN Len(d.text) ELSE out)
      BY <1>11, SourceGood
    <3>2. Len(Source(d.text, out)) <= Len(Source(s, out))
      BY <3>1, <1>11
    <3>3. Len(Source(d.text, out)) \in Nat /\ Len(Source(s, out)) \in Nat
      BY <3>1, <1>11
    <3> QED
      BY <3>2, <3>3, <1>11, <1>12
  <2>5. \/ text = add \/ bufMax = 1 \/ Shows(text, Mark) \/ (reallocs > 0 /\ Shows(text, Junk))
    <3>1. CASE rc = 0
      <4>1. d.text = s
        BY <3>1, <1>10
      <4> QED
        BY <4>1, <1>1, <1>7
    <3>2. CASE rc = 1 /\ bufMax # 1
      <4>1. Len(d.text) > 0 /\ CutOf(d.text, s)
        BY <3>2, <1>0, <1>10
      <4>2. text = add \/ Shows(text, Mark) \/ (Len(d.text) > Len(s) /\ Shows(text, Junk))
        BY <4>1, <1>1, <1>7, <1>11, CutShows
      <4>3. Len(d.text) > Len(s) => reallocs > 0
        BY <2>3, <1>0, <1>11
      <4> QED
        BY <4>2, <4>3
    <3> QED
      BY <3>1, <3>2, <2>1
  <2> QED
    BY <2>1, <2>2, <2>4, <2>5, <1>2, <1>8, <1>12, EndsStep
<1> QED
  BY <1>14, <1>15

LEMMA CharsGood ==
  ASSUME BufIInv, NEW n \in Nat
  PROVE  Chars(n) \in Seq(Int)
<1>1. PICK c : c = Chars(n)
  OBVIOUS
<1>2. wanted \in Seq(Int) /\ msgs \in Nat /\ Len(wanted) \in Nat
  BY DEF BufIInv, BufTypes
<1>3. c = [i \in 1 .. n |-> c[i]] /\ \A i \in 1 .. n : c[i] \in Int
  BY <1>1, <1>2 DEF Chars
<1> QED
  BY <1>1, <1>3, Listed

LEMMA DigitsGood ==
  ASSUME NEW s \in Seq(Int), NEW width \in Nat
  PROVE  Digits(s, width) \in Seq(Int)
<1>0. (IF width > Len(s) THEN width - Len(s) ELSE 0) \in Nat
  OBVIOUS
<1>1. PICK n \in Nat : n = IF width > Len(s) THEN width - Len(s) ELSE 0
  BY <1>0
<1>2. Digits(s, width) = Pads(n) \o s
  BY <1>1 DEF Digits
<1>3. Pads(n) \in Seq(Int)
  BY PadsGood
<1> QED
  BY <1>2, <1>3, Joined

LEMMA BufInductive == BufIInv /\ [BufNext]_bufVars => BufIInv'
<1> SUFFICES ASSUME BufIInv, [BufNext]_bufVars PROVE BufIInv'
  OBVIOUS
<1>0. TextLens \subseteq Nat /\ Widths \subseteq Nat \X Nat
  BY BufAssumption
<1>1. CASE GenMsg
  <2>1. /\ msgBuf' = [msgBuf EXCEPT !.text = <<>>] /\ wanted' = <<>> /\ result' = 0
        /\ bufMax' = bufMax /\ preBuf' = preBuf /\ reallocs' = reallocs /\ msgs' = msgs + 1
    BY <1>1 DEF GenMsg
  <2>2. /\ bufMax \in BufMaxes /\ msgs \in Nat /\ reallocs \in Nat
        /\ GoodBuf(preBuf, bufMax) /\ GoodBuf(msgBuf, bufMax)
        /\ (reallocs = 0 => ~preBuf.null /\ ~msgBuf.null)
    BY DEF BufIInv, BufTypes, MemoryHeld
  <2>3. PICK d : d = [msgBuf EXCEPT !.text = <<>>]
    OBVIOUS
  <2>4. GoodBuf(d, bufMax) /\ d.null = msgBuf.null /\ d.text = <<>> /\ Len(d.text) = 0
    BY <2>2, <2>3, Restarted
  <2>5. msgBuf' = d /\ msgs' \in Nat /\ wanted' \in Seq(Int) /\ Len(wanted') = 0
    BY <2>1, <2>2, <2>3
  <2>6. BufTypes'
    BY <2>1, <2>2, <2>4, <2>5 DEF BufTypes
  <2>7. MemoryHeld'
    BY <2>1, <2>2, <2>4, <2>5 DEF MemoryHeld
  <2>8. NoSilentCut' /\ GivenUpTooLong'
    BY <2>1, <2>4, <2>5 DEF NoSilentCut, GivenUpTooLong
  <2> QED
    BY <2>6, <2>7, <2>8 DEF BufIInv
<1>2. ASSUME NEW kind \in Kinds, NEW n \in TextLens, NEW worked \in BOOLEAN, Direct(kind, Chars(n), worked)
      PROVE  BufIInv'
  <2>1. n \in Nat
    BY <1>0
  <2>2. PICK s : s = Chars(n)
    OBVIOUS
  <2>3. s \in Seq(Int) /\ Direct(kind, s, worked)
    BY <2>1, <2>2, <1>2, CharsGood
  <2> QED
    BY <2>3, DirectStep
<1>3. ASSUME NEW n \in TextLens, NEW w \in Widths, NEW worked \in BOOLEAN,
             Direct("printf", Digits(Chars(n), w[1]), worked)
      PROVE  BufIInv'
  <2>1. n \in Nat /\ w[1] \in Nat
    BY <1>0
  <2>2. PICK s : s = Digits(Chars(n), w[1])
    OBVIOUS
  <2>3. s \in Seq(Int) /\ Direct("printf", s, worked)
    BY <2>1, <2>2, <1>3, CharsGood, DigitsGood
  <2> QED
    BY <2>3, DirectStep
<1>4. ASSUME NEW kind \in Kinds, NEW n \in TextLens, NEW w \in Widths, NEW onLeft \in BOOLEAN, NEW worked \in BOOLEAN,
             Reformat(kind, Chars(n), w, onLeft, worked)
      PROVE  BufIInv'
  <2>1. n \in Nat /\ w \in Nat \X Nat
    BY <1>0
  <2>2. PICK s : s = Chars(n)
    OBVIOUS
  <2>3. s \in Seq(Int) /\ Reformat(kind, s, w, onLeft, worked)
    BY <2>1, <2>2, <1>4, CharsGood
  <2> QED
    BY <2>1, <2>3, ReformatStep
<1>5. CASE Done
  BY <1>5 DEF Done, BufIInv, BufTypes, MemoryHeld, NoSilentCut, GivenUpTooLong
<1>6. CASE UNCHANGED bufVars
  BY <1>6 DEF bufVars, BufIInv, BufTypes, MemoryHeld, NoSilentCut, GivenUpTooLong
<1> QED
  BY <1>1, <1>2, <1>3, <1>4, <1>5, <1>6 DEF BufNext

\* A message is written whole, or with the mark of a cut, or not at all, for buffers,
\* texts and widths of any size and any number of failing reallocs (buf.c, spec.c).
THEOREM BufHolds == BufSpec => []BufSound
<1>1. BufIInv => BufSound
  <2> SUFFICES ASSUME BufIInv PROVE BufTypeOK /\ NoSilentCut /\ GivenUpTooLong
    BY DEF BufSound
  <2>1. bufMax \in BufMaxes /\ GoodBuf(preBuf, bufMax) /\ GoodBuf(msgBuf, bufMax)
    BY DEF BufIInv, BufTypes
  <2>2. BufTypeOK
    BY <2>1 DEF BufTypeOK, GoodBuf
  <2> QED
    BY <2>2 DEF BufIInv
<1> QED
  BY <1>1, BufInitially, BufInductive, PTL DEF BufSpec

-----------------------------------------------------------------------------
(***************************************************************************)
(* The rotation of a file by threads of several processes.                 *)
(***************************************************************************)

\* Who holds a mutex of its process.
Holding == {w \in Writers : wpc[w] \in {"flock", "restat", "list", "move", "unlock"}}

\* Every holder has its mutex, no two have the same one, and who rotates has
\* the file's lock for its process.
LocksTrue ==
    /\ \A w \in Holding : mutex[Mutex(w)]
    /\ \A v, w \in Holding : Owner[v] = Owner[w] => v = w
    /\ \A w \in Rotating : flock = Owner[w]

RotTyped ==
    /\ RotateTypeOK
    /\ mutex \in [Writers -> BOOLEAN]
    /\ files \in [Writers -> Seq(Nat)]
    /\ \A w \in Writers : wpc[w] = "write" => cursor[w] \in 1 .. Len(size)
    /\ \A w \in Writers : wpc[w] \in {"list", "move"} => base # 0

\* The archives when nobody moves them: numbered from 0 with one hole at most
\* where each is renamed, and not too many.
Archived ==
    /\ IsFiniteSet(DOMAIN archive)
    /\ IF mvType = "roll"
       THEN \E n \in 0 .. MaxCount, h \in 0 .. MaxCount : h <= n /\ DOMAIN archive = (0 .. n) \ {h}
       ELSE Cardinality(DOMAIN archive) <= MaxCount + 1

\* ... and for the thread that moves them: the files of its list that it has
\* not come to are where they were, the hole is not behind it.
Place(h, j) == IF j <= h THEN j - 1 ELSE j
Placed(f, k, h) == \A j \in 1 .. k : f[j] = Place(h, j)

Rolling(rest, k, f) ==
    \E n \in 0 .. MaxCount, h \in 0 .. MaxCount :
        /\ h <= k /\ k <= n /\ (n < MaxCount \/ k = n)
        /\ rest = (0 .. n) \ {h}
        /\ Len(f) >= k
        /\ Placed(f, k, h)

Removing(rest, k, f) ==
    /\ k \in 1 .. Len(f) + 1
    /\ \A i, j \in 1 .. Len(f) : i < j => f[i] < f[j]
    /\ rest = {f[j] : j \in k .. Len(f)}
    /\ Cardinality(rest) = Len(f) - k + 1

Moving ==
    \A w \in Writers : wpc[w] = "move" =>
        IF mvType = "roll" THEN Rolling(DOMAIN archive, cursor[w], files[w])
                           ELSE Removing(DOMAIN archive, cursor[w], files[w])

RotateIInv == RotTyped /\ LocksTrue /\ Archived /\ Moving /\ ArchivesByAge

-----------------------------------------------------------------------------
LEMMA Mutexes ==
    ASSUME NEW v \in Writers, NEW w \in Writers
    PROVE  /\ Mutex(w) \in Writers /\ Owner[Mutex(w)] = Owner[w]
           /\ Owner[v] = Owner[w] => Mutex(v) = Mutex(w)
BY DEF Mutex

\* A list in order of all numbers up to n but one.
InOrder(f, n, h) ==
    /\ f \in [1 .. n -> (0 .. n) \ {h}]
    /\ \A i \in (0 .. n) \ {h} : \E j \in 1 .. n : f[j] = i
    /\ \A i, j \in 1 .. n : i < j => f[i] < f[j]

LEMMA Enumerated ==
    ASSUME NEW n \in Nat, NEW h \in 0 .. n, NEW f, InOrder(f, n, h)
    PROVE  Placed(f, n, h)
<1> USE DEF InOrder, Placed, Place
<1> DEFINE e(j) == IF j <= h THEN j - 1 ELSE j
           Wrong == {j \in 1 .. n : f[j] # e(j)}
<1> SUFFICES ASSUME Wrong # {} PROVE FALSE
  OBVIOUS
<1>1. PICK j \in Wrong : \A i \in Wrong : j <= i
  <2>1. Wrong \in SUBSET Nat
    OBVIOUS
  <2> HIDE DEF Wrong
  <2> QED BY <2>1, NatMin
<1>j. j \in 1 .. n /\ j \in Nat /\ n \in Nat /\ h \in Nat /\ f[j] \in Nat
  OBVIOUS
<1>e. \A i \in Nat : e(i) \in Int /\ (i <= h => e(i) = i - 1) /\ (i > h => e(i) = i)
  BY <1>j
<1>m. \A i \in 1 .. n : i < j => e(i) < e(j)
  BY <1>j
<1>k. e(j) \in Int /\ e(j) <= j
  BY <1>j
<1>w. \A i \in 1 .. n : i \notin Wrong => f[i] = e(i)
  OBVIOUS
<1>3. e(j) \in (0 .. n) \ {h} /\ f[j] \in (0 .. n) \ {h} /\ f[j] # e(j)
  OBVIOUS
<1> HIDE DEF e, Wrong
<1>2. \A i \in 1 .. n : i < j => f[i] = e(i)
  <2>1. \A i \in 1 .. n : i < j => i \notin Wrong
    BY <1>1, <1>j
  <2> QED BY <2>1, <1>w
<1>4. PICK m \in 1 .. n : f[m] = e(j)
  BY <1>3
<1>5. m > j
  <2>1. m # j
    BY <1>3, <1>4
  <2>2. ASSUME m < j PROVE FALSE
    <3>1. f[m] = e(m)
      BY <1>2, <2>2
    <3>2. e(m) # e(j)
      BY <2>2, <1>m, <1>k, <1>j, <1>3, <1>4, <3>1
    <3> QED BY <3>1, <3>2, <1>4
  <2> QED BY <2>1, <2>2, <1>j
<1>6. f[j] < e(j)
  BY <1>4, <1>5, <1>j
<1>7. PICK i \in 1 .. n : i < j /\ e(i) = f[j]
  <2> DEFINE x == f[j]
  <2>0. x \in Nat /\ x # h /\ x < e(j) /\ x < j
    BY <1>3, <1>6, <1>k, <1>j
  <2> HIDE DEF x
  <2>1. CASE x < h
    <3>1. x + 1 < j /\ x + 1 \in 1 .. n
      <4>1. CASE j <= h
        <5>1. e(j) = j - 1
          BY <4>1, <1>e, <1>j
        <5> QED BY <5>1, <2>0, <1>j
      <4>2. CASE j > h
        BY <4>2, <2>1, <2>0, <1>j
      <4> QED BY <4>1, <4>2, <1>j
    <3>2. e(x + 1) = x
      BY <2>1, <2>0, <1>j, <1>e
    <3> QED BY <3>1, <3>2 DEF x
  <2>2. CASE x > h
    <3>1. x < j /\ x \in 1 .. n
      BY <2>2, <2>0, <1>j
    <3>2. e(x) = x
      BY <2>2, <2>0, <1>j, <1>e
    <3> QED BY <3>1, <3>2 DEF x
  <2> QED BY <2>1, <2>2, <2>0, <1>j
<1>8. f[i] = f[j] /\ i < j
  BY <1>2, <1>7
<1> QED BY <1>8, <1>j

\* As many as the numbers up to n but one.
LEMMA OneLeftOut ==
    ASSUME NEW n \in Nat, NEW h \in 0 .. n
    PROVE  IsFiniteSet((0 .. n) \ {h}) /\ Cardinality((0 .. n) \ {h}) = n
<1>1. IsFiniteSet(0 .. n) /\ Cardinality(0 .. n) = n + 1
  BY FS_Interval
<1>2. h \in 0 .. n
  OBVIOUS
<1>3. Cardinality((0 .. n) \ {h}) = (IF h \in 0 .. n THEN Cardinality(0 .. n) - 1 ELSE Cardinality(0 .. n))
      /\ IsFiniteSet((0 .. n) \ {h})
  BY <1>1, FS_RemoveElement
<1> QED BY <1>1, <1>2, <1>3

LEMMA RotateInitially == RotateInit => RotateIInv
<1> SUFFICES ASSUME RotateInit PROVE RotateIInv
  OBVIOUS
<1> USE RotateAssumption DEF RotateInit
<1>1. DOMAIN archive = {} /\ size \in Seq(Nat) /\ Len(size) = 0
  OBVIOUS
<1>2. RotTyped
  BY <1>1 DEF RotTyped, RotateTypeOK
<1>3. LocksTrue
  BY DEF LocksTrue, Holding, Rotating
<1>4. Archived
  <2>1. IsFiniteSet(DOMAIN archive) /\ Cardinality(DOMAIN archive) = 0
    BY <1>1, FS_EmptySet
  <2>2. DOMAIN archive = (0 .. 0) \ {0}
    BY <1>1
  <2>3. 0 \in 0 .. MaxCount /\ 0 <= MaxCount + 1
    OBVIOUS
  <2>4. \E n \in 0 .. MaxCount, h \in 0 .. MaxCount : h <= n /\ DOMAIN archive = (0 .. n) \ {h}
    <3> WITNESS 0 \in 0 .. MaxCount, 0 \in 0 .. MaxCount
    <3> QED BY <2>2
  <2> QED BY <2>1, <2>3, <2>4 DEF Archived
<1>5. Moving /\ ArchivesByAge
  BY <1>1 DEF Moving, ArchivesByAge
<1> QED BY <1>2, <1>3, <1>4, <1>5 DEF RotateIInv

LEMMA LocksStep == RotateIInv /\ [RotateNext]_rotateVars => LocksTrue'
<1> SUFFICES ASSUME RotateIInv, [RotateNext]_rotateVars PROVE LocksTrue'
  OBVIOUS
<1> USE RotateAssumption DEF RotateIInv, RotTyped, RotateTypeOK, LocksTrue, Holding, Rotating, At
<1>1. ASSUME NEW w \in Writers, Open(w) PROVE LocksTrue'
  BY <1>1 DEF Open, KeepLocks, Mutex
<1>2. ASSUME NEW w \in Writers, Write(w) PROVE LocksTrue'
  <2>1. UNCHANGED <<mutex, flock>> /\ Holding' = Holding /\ Rotating' = Rotating
    BY <1>2 DEF Write, KeepLocks
  <2> QED BY <2>1 DEF Mutex
<1>3. ASSUME NEW w \in Writers, Stat(w) PROVE LocksTrue'
  BY <1>3 DEF Stat, KeepLocks, Mutex
<1>4. ASSUME NEW w \in Writers, TryMutex(w) PROVE LocksTrue'
  BY <1>4, Mutexes DEF TryMutex
<1>5. ASSUME NEW w \in Writers, TryFlock(w) PROVE LocksTrue'
  <2>1. CASE flock \in {0, Owner[w]}
    <3>1. /\ Holding' = Holding /\ mutex' = mutex /\ flock' = Owner[w]
          /\ Rotating' = Rotating \cup {w}
      BY <1>5, <2>1 DEF TryFlock
    <3>2. \A v \in Rotating : Owner[v] = Owner[w]
      BY <2>1
    <3> QED BY <3>1, <3>2, Mutexes DEF Mutex
  <2>2. CASE flock \notin {0, Owner[w]}
    <3>1. /\ Holding' = Holding \ {w} /\ flock' = flock /\ Rotating' = Rotating
          /\ mutex' = [mutex EXCEPT ![Mutex(w)] = FALSE] /\ w \in Holding
      BY <1>5, <2>2 DEF TryFlock
    <3>2. \A v \in Holding' : Mutex(v) # Mutex(w) /\ Mutex(v) \in Writers
      BY <3>1, Mutexes
    <3> QED BY <3>1, <3>2 DEF Mutex
  <2> QED BY <2>1, <2>2
<1>6. ASSUME NEW w \in Writers, Restat(w) PROVE LocksTrue'
  BY <1>6 DEF Restat, KeepLocks, Mutex
<1>7. ASSUME NEW w \in Writers, List(w) PROVE LocksTrue'
  BY <1>7 DEF List, KeepLocks, Mutex
<1>8. ASSUME NEW w \in Writers, RollFiles(w) PROVE LocksTrue'
  <2>1. UNCHANGED <<mutex, flock>> /\ Holding' = Holding /\ Rotating' = Rotating
    BY <1>8 DEF RollFiles, KeepLocks
  <2> QED BY <2>1 DEF Mutex
<1>9. ASSUME NEW w \in Writers, SeqFiles(w) PROVE LocksTrue'
  <2>1. UNCHANGED <<mutex, flock>> /\ Holding' = Holding /\ Rotating' = Rotating
    BY <1>9 DEF SeqFiles, KeepLocks
  <2> QED BY <2>1 DEF Mutex
<1>10. ASSUME NEW w \in Writers, MoveBase(w) PROVE LocksTrue'
  BY <1>10 DEF MoveBase, KeepLocks, Mutex
<1>11. ASSUME NEW w \in Writers, MoveFails(w) PROVE LocksTrue'
  BY <1>11 DEF MoveFails, KeepLocks, Mutex
<1>12. ASSUME NEW w \in Writers, UnlockRotater(w) PROVE LocksTrue'
  BY <1>12, Mutexes DEF UnlockRotater
<1>13. ASSUME NEW w \in Writers, Crash(w) PROVE LocksTrue'
  BY <1>13, Mutexes DEF Crash
<1>14. CASE UNCHANGED rotateVars
  BY <1>14 DEF rotateVars, Mutex
<1> QED BY <1>1, <1>2, <1>3, <1>4, <1>5, <1>6, <1>7, <1>8, <1>9, <1>10, <1>11, <1>12, <1>13, <1>14
        DEF RotateNext

\* One thread rotates at a time.
LEMMA RotatesAlone ==
    ASSUME LocksTrue, NEW v \in Rotating, NEW w \in Rotating
    PROVE  v = w
BY DEF LocksTrue, Rotating, Holding

LEMMA TypedStep == RotateIInv /\ [RotateNext]_rotateVars => RotTyped'
<1> SUFFICES ASSUME RotateIInv, [RotateNext]_rotateVars PROVE RotTyped'
  OBVIOUS
<1> USE RotateAssumption DEF RotateIInv, RotTyped, RotateTypeOK, At
<1>1. ASSUME NEW w \in Writers, Open(w) PROVE RotTyped'
  <2>1. /\ size' \in Seq(Nat) /\ Len(size') \in Nat /\ Len(size) <= Len(size')
        /\ base' \in 1 .. Len(size')
    <3>1. CASE base = 0
      <4>1. base' = Len(size) + 1 /\ size' = Append(size, 0)
        BY <1>1, <3>1 DEF Open
      <4>2. Len(Append(size, 0)) = Len(size) + 1 /\ Append(size, 0) \in Seq(Nat) /\ Len(size) \in Nat
        BY AppendProperties, LenProperties
      <4> QED BY <4>1, <4>2
    <3>2. CASE base # 0
      BY <1>1, <3>2 DEF Open
    <3> QED BY <3>1, <3>2
  <2>2. /\ \A i \in DOMAIN archive' : archive'[i] \in 1 .. Len(size')
        /\ DOMAIN archive' \subseteq Nat /\ archive' = archive
    BY <1>1, <2>1 DEF Open
  <2>3. /\ cursor' = [cursor EXCEPT ![w] = base'] /\ wpc' = [wpc EXCEPT ![w] = "write"]
        /\ UNCHANGED <<mvType, files>> /\ base # 0 => base' = base
    BY <1>1 DEF Open
  <2>4. \A v \in Writers : wpc'[v] = "write" => cursor'[v] \in 1 .. Len(size')
    BY <2>1, <2>3
  <2>5. \A v \in Writers : wpc'[v] \in {"list", "move"} => base' # 0
    BY <2>1, <2>3
  <2> QED BY <1>1, <2>1, <2>2, <2>3, <2>4, <2>5 DEF Open, KeepLocks
<1>2. ASSUME NEW w \in Writers, Write(w) PROVE RotTyped'
  <2>1. size' \in Seq(Nat) /\ Len(size') = Len(size)
    BY <1>2 DEF Write
  <2> QED BY <1>2, <2>1 DEF Write, KeepLocks
<1>3. ASSUME NEW w \in Writers, Stat(w) PROVE RotTyped'
  BY <1>3 DEF Stat, KeepFiles, KeepLocks
<1>4. ASSUME NEW w \in Writers, TryMutex(w) PROVE RotTyped'
  BY <1>4, Mutexes DEF TryMutex, KeepFiles
<1>5. ASSUME NEW w \in Writers, TryFlock(w) PROVE RotTyped'
  <2>1. flock' \in {0} \cup {Owner[v] : v \in Writers} /\ mutex' \in [Writers -> BOOLEAN]
    <3>1. flock' \in {flock, Owner[w]}
      BY <1>5 DEF TryFlock
    <3>2. mutex' \in {mutex, [mutex EXCEPT ![Mutex(w)] = FALSE]}
      BY <1>5 DEF TryFlock
    <3> QED BY <3>1, <3>2
  <2>2. \E there \in {"restat", "idle"} : wpc' = [wpc EXCEPT ![w] = there]
    BY <1>5 DEF TryFlock
  <2> QED BY <1>5, <2>1, <2>2 DEF TryFlock, KeepFiles
<1>6. ASSUME NEW w \in Writers, Restat(w) PROVE RotTyped'
  BY <1>6 DEF Restat, KeepFiles, KeepLocks
<1>7. ASSUME NEW w \in Writers, List(w) PROVE RotTyped'
  <2>1. Cardinality(DOMAIN archive) \in Nat
    BY FS_CardinalityType DEF Archived
  <2>2. PICK list \in [1 .. Cardinality(DOMAIN archive) -> DOMAIN archive] :
           files' = [files EXCEPT ![w] = list]
    BY <1>7 DEF List
  <2>3. list \in Seq(Nat)
    <3>1. list \in [1 .. Cardinality(DOMAIN archive) -> Nat]
      BY <2>2
    <3>2. list \in UNION {[1 .. n -> Nat] : n \in Nat}
      BY <2>1, <3>1, Zenon
    <3> QED BY <3>2, SeqDef, Zenon
  <2> QED BY <1>7, <2>1, <2>2, <2>3 DEF List, KeepFiles, KeepLocks
<1>8. ASSUME NEW w \in Writers, RollFiles(w) PROVE RotTyped'
  <2>1. Rolling(DOMAIN archive, cursor[w], files[w])
    BY <1>8 DEF RollFiles, Moving
  <2>2. files[w][cursor[w]] \in DOMAIN archive
    <3>1. PICK n \in 0 .. MaxCount, h \in 0 .. MaxCount :
             /\ h <= cursor[w] /\ cursor[w] <= n /\ DOMAIN archive = (0 .. n) \ {h}
             /\ \A j \in 1 .. cursor[w] : files[w][j] = IF j <= h THEN j - 1 ELSE j
      BY <2>1 DEF Rolling, Placed, Place
    <3>2. cursor[w] \in 1 .. cursor[w]
      BY <1>8 DEF RollFiles
    <3>3. files[w][cursor[w]] = IF cursor[w] <= h THEN cursor[w] - 1 ELSE cursor[w]
      BY <3>1, <3>2
    <3> QED BY <3>1, <3>2, <3>3
  <2>3. DOMAIN archive' \subseteq Nat /\ \A i \in DOMAIN archive' : archive'[i] \in 1 .. Len(size)
    <3> DEFINE k == cursor[w]
               i == files[w][k]
    <3>1. Unlink(i) \/ Rename(i, k)
      BY <1>8 DEF RollFiles
    <3>2. k \in Nat /\ i \in DOMAIN archive /\ archive[i] \in 1 .. Len(size)
      BY <1>8, <2>2 DEF RollFiles
    <3> HIDE DEF k, i
    <3>3. CASE Unlink(i)
      BY <3>3 DEF Unlink
    <3>4. CASE Rename(i, k)
      BY <3>2, <3>4 DEF Rename
    <3>5. Len(size)' = Len(size)
      BY <1>8 DEF RollFiles
    <3> QED BY <3>1, <3>3, <3>4, <3>5
  <2> QED BY <1>8, <2>3 DEF RollFiles, KeepLocks
<1>9. ASSUME NEW w \in Writers, SeqFiles(w) PROVE RotTyped'
  <2>1. DOMAIN archive' \subseteq Nat /\ \A i \in DOMAIN archive' : archive'[i] \in 1 .. Len(size)
    BY <1>9 DEF SeqFiles, Unlink
  <2>2. cursor' \in [Writers -> Nat] /\ wpc' = [wpc EXCEPT ![w] = "move"]
    BY <1>9 DEF SeqFiles
  <2>3. /\ wpc[w] = "move" /\ \A v \in Writers \ {w} : cursor'[v] = cursor[v]
    BY <1>9 DEF SeqFiles
  <2> QED BY <1>9, <2>1, <2>2, <2>3 DEF SeqFiles, KeepLocks
<1>10. ASSUME NEW w \in Writers, MoveBase(w) PROVE RotTyped'
  <2>1. NewIndex(files[w]) \in Nat
    BY DEF NewIndex, Last
  <2>2. DOMAIN archive' \subseteq Nat /\ \A i \in DOMAIN archive' : archive'[i] \in 1 .. Len(size)
    BY <1>10, <2>1 DEF MoveBase
  <2>3. \A v \in Writers : wpc'[v] \notin {"list", "move"}
    BY <1>10, RotatesAlone DEF MoveBase, Rotating
  <2> QED BY <1>10, <2>2, <2>3 DEF MoveBase, KeepLocks
<1>11. ASSUME NEW w \in Writers, MoveFails(w) PROVE RotTyped'
  BY <1>11 DEF MoveFails, KeepLocks
<1>12. ASSUME NEW w \in Writers, UnlockRotater(w) PROVE RotTyped'
  BY <1>12, Mutexes DEF UnlockRotater, KeepFiles
<1>13. ASSUME NEW w \in Writers, Crash(w) PROVE RotTyped'
  <2>1. flock' \in {0} \cup {Owner[v] : v \in Writers} /\ mutex' \in [Writers -> BOOLEAN]
    BY <1>13, Mutexes DEF Crash
  <2>2. /\ wpc' \in [Writers -> {"idle", "write", "stat", "mutex", "flock", "restat", "list", "move",
                                  "unlock"}]
        /\ cursor' \in [Writers -> Nat] /\ files' \in [Writers -> Seq(Nat)]
    BY <1>13 DEF Crash
  <2>3. \A v \in Writers : wpc'[v] = "idle" \/ (wpc'[v] = wpc[v] /\ cursor'[v] = cursor[v])
    <3>1. /\ wpc' = [v \in Writers |-> IF Owner[v] = Owner[w] THEN "idle" ELSE wpc[v]]
          /\ cursor' = [v \in Writers |-> IF Owner[v] = Owner[w] THEN 0 ELSE cursor[v]]
      BY <1>13 DEF Crash
    <3>2. TAKE v \in Writers
    <3>3. CASE Owner[v] = Owner[w]
      <4> wpc'[v] = "idle"
        BY <3>1, <3>3
      <4> QED OBVIOUS
    <3>4. CASE Owner[v] # Owner[w]
      <4> wpc'[v] = wpc[v] /\ cursor'[v] = cursor[v]
        BY <3>1, <3>4
      <4> QED OBVIOUS
    <3> QED BY <3>3, <3>4
  <2> QED BY <1>13, <2>1, <2>2, <2>3 DEF Crash
<1>14. CASE UNCHANGED rotateVars
  BY <1>14 DEF rotateVars
<1> QED BY <1>1, <1>2, <1>3, <1>4, <1>5, <1>6, <1>7, <1>8, <1>9, <1>10, <1>11, <1>12, <1>13, <1>14
        DEF RotateNext

\* The steps that leave the archives where they are, and move nobody to them.
LEMMA ArchivesStay ==
    ASSUME Archived, Moving, ArchivesByAge, UNCHANGED <<mvType, archive>>,
           \A w \in Writers : wpc'[w] = "move" =>
              wpc[w] = "move" /\ cursor'[w] = cursor[w] /\ files'[w] = files[w]
    PROVE  Archived' /\ Moving'
<1>1. mvType' = mvType /\ DOMAIN archive' = DOMAIN archive
  OBVIOUS
<1> QED BY <1>1 DEF Archived, Moving

\* A list of the archives is begun.
LEMMA ListStep ==
    ASSUME RotateIInv, NEW w \in Writers, List(w)
    PROVE  Archived' /\ Moving'
<1> USE RotateAssumption DEF RotateIInv, RotTyped, RotateTypeOK, At
<1>1. UNCHANGED <<mvType, archive>> /\ wpc' = [wpc EXCEPT ![w] = "move"]
  BY DEF List, KeepFiles
<1>2. Archived'
  BY <1>1 DEF Archived
<1>3. \A v \in Writers \ {w} : wpc'[v] # "move"
  BY <1>1, RotatesAlone DEF List, Rotating
<1> DEFINE D == DOMAIN archive
           n == Cardinality(D)
<1>4. n \in Nat /\ IsFiniteSet(D) /\ D \subseteq Nat
  BY FS_CardinalityType DEF Archived
<1>5. PICK list \in [1 .. n -> D] :
         /\ ToSet(list) = D
         /\ \A i, j \in DOMAIN list : i < j => list[i] < list[j]
         /\ files' = [files EXCEPT ![w] = list]
  BY DEF List
<1>6. list \in Seq(Nat) /\ Len(list) = n /\ DOMAIN list = 1 .. n
  <2>1. list \in [1 .. n -> Nat]
    BY <1>4
  <2>2. list \in UNION {[1 .. m -> Nat] : m \in Nat}
    BY <1>4, <2>1, Zenon
  <2>3. list \in Seq(Nat)
    BY <2>2, SeqDef, Zenon
  <2> QED BY <1>4, <2>1, <2>3
<1>7. D = {list[j] : j \in 1 .. n}
  BY <1>5, <1>6 DEF ToSet
<1>8. CASE mvType = "roll"
  <2>1. PICK m \in 0 .. MaxCount, h \in 0 .. MaxCount : h <= m /\ D = (0 .. m) \ {h}
    BY <1>8 DEF Archived
  <2>2. n = m /\ h \in 0 .. m
    <3>1. m \in Nat /\ h \in 0 .. m
      BY <2>1
    <3>2. Cardinality((0 .. m) \ {h}) = m
      BY <3>1, OneLeftOut
    <3> QED BY <2>1, <3>1, <3>2
  <2>3. Placed(list, m, h)
    <3>1. list \in [1 .. m -> (0 .. m) \ {h}]
      BY <1>5, <2>1, <2>2
    <3>2. \A i \in (0 .. m) \ {h} : \E j \in 1 .. m : list[j] = i
      <4>1. \A i \in D : \E j \in 1 .. n : list[j] = i
        BY <1>7
      <4> HIDE DEF D, n
      <4> QED BY <4>1, <2>1, <2>2
    <3>3. \A i, j \in 1 .. m : i < j => list[i] < list[j]
      BY <1>5, <1>6, <2>2
    <3>4. m \in Nat /\ h \in 0 .. m
      BY <2>1, <2>2
    <3> HIDE DEF D, n
    <3>5. InOrder(list, m, h)
      BY <3>1, <3>2, <3>3 DEF InOrder
    <3> QED BY <3>4, <3>5, Enumerated
  <2>4. Rolling(D, m, list)
    <3> HIDE DEF D, n
    <3>1. Len(list) >= m /\ m <= m
      BY <1>6, <2>2
    <3> QED BY <3>1, <2>1, <2>3 DEF Rolling
  <2>5. cursor'[w] = m /\ files'[w] = list
    BY <1>5, <1>8, <2>2 DEF List
  <2>6. DOMAIN archive' = D /\ mvType' = "roll"
    BY <1>1, <1>8
  <2> QED BY <1>2, <1>3, <2>4, <2>5, <2>6 DEF Moving
<1>9. CASE mvType # "roll"
  <2>1. cursor'[w] = 1 /\ files'[w] = list
    BY <1>5, <1>9 DEF List
  <2>2. Removing(D, 1, list)
    <3> HIDE DEF D
    <3> QED BY <1>4, <1>5, <1>6, <1>7 DEF Removing
  <2>3. DOMAIN archive' = D /\ mvType' # "roll"
    BY <1>1, <1>9
  <2> QED BY <1>2, <1>3, <2>1, <2>2, <2>3 DEF Moving
<1> QED BY <1>8, <1>9

\* What a step does that loses a file.
OldestGoes ==
    \A f \in Present \ Present' :
       /\ \A g \in Present : f <= g
       /\ Cardinality(DOMAIN archive) >= MaxCount

\* The archive at i goes.
LEMMA Unlinked ==
    ASSUME RotateIInv, NEW i \in DOMAIN archive, Unlink(i), base' = base, mvType' = mvType,
           \A j \in DOMAIN archive : IF mvType = "roll" THEN j <= i ELSE i <= j,
           Cardinality(DOMAIN archive) >= MaxCount
    PROVE  ArchivesByAge' /\ OldestGoes
<1> USE DEF RotateIInv, RotTyped, RotateTypeOK
<1>1. /\ DOMAIN archive' = DOMAIN archive \ {i}
      /\ \A j \in DOMAIN archive' : archive'[j] = archive[j]
  BY DEF Unlink
<1>2. ArchivesByAge'
  BY <1>1 DEF ArchivesByAge
<1>3. ASSUME NEW f \in Present, f \notin Present' PROVE \A g \in Present : f <= g
  <2>1. f = archive[i]
    <3>1. f \notin {base} \ {0}
      BY <1>3 DEF Present
    <3>2. PICK j \in DOMAIN archive : f = archive[j]
      BY <1>3, <3>1 DEF Present
    <3>3. j \notin DOMAIN archive'
      BY <1>1, <1>3, <3>2 DEF Present
    <3> QED BY <1>1, <3>2, <3>3
  <2>2. \A j \in DOMAIN archive : archive[i] <= archive[j]
    <3> SUFFICES ASSUME NEW j \in DOMAIN archive PROVE archive[i] <= archive[j]
      OBVIOUS
    <3>1. i \in Nat /\ j \in Nat /\ archive[i] \in Nat /\ archive[j] \in Nat
      OBVIOUS
    <3>2. CASE i = j
      BY <3>1, <3>2
    <3>3. CASE i # j /\ mvType = "roll"
      <4>1. j < i
        BY <3>1, <3>3
      <4>2. archive[j] > archive[i]
        BY <3>3, <4>1 DEF ArchivesByAge
      <4> QED BY <3>1, <4>2
    <3>4. CASE i # j /\ mvType # "roll"
      <4>1. i < j
        BY <3>1, <3>4
      <4>2. archive[i] < archive[j]
        BY <3>4, <4>1 DEF ArchivesByAge
      <4> QED BY <3>1, <4>2
    <3> QED BY <3>2, <3>3, <3>4
  <2>3. base # 0 => archive[i] <= base
    BY DEF ArchivesByAge
  <2> QED BY <2>1, <2>2, <2>3 DEF Present
<1> QED BY <1>2, <1>3 DEF OldestGoes

\* One round of rolling.
LEMMA RollStep ==
    ASSUME RotateIInv, NEW w \in Writers, RollFiles(w)
    PROVE  Archived' /\ Moving' /\ ArchivesByAge' /\ OldestGoes
<1> USE RotateAssumption DEF RotateIInv, RotTyped, RotateTypeOK, At
<1> DEFINE k == cursor[w]
           list == files[w]
<1>1. /\ mvType = "roll" /\ mvType' = "roll" /\ base' = base
      /\ k \in Nat \ {0} /\ cursor'[w] = k - 1 /\ files' = files /\ wpc' = wpc /\ wpc[w] = "move"
      /\ IF k >= MaxCount THEN Unlink(list[k]) ELSE Rename(list[k], k)
      /\ MaxCount \in Nat \ {0} /\ list \in Seq(Nat) /\ Len(list) \in Nat
  BY DEF RollFiles
<1>2. \A v \in Writers \ {w} : wpc'[v] # "move"
  BY <1>1, RotatesAlone DEF Rotating
<1>3. PICK n \in 0 .. MaxCount, h \in 0 .. MaxCount :
         /\ h <= k /\ k <= n /\ (n < MaxCount \/ k = n)
         /\ DOMAIN archive = (0 .. n) \ {h}
         /\ Len(list) >= k
         /\ Placed(list, k, h)
  BY <1>1 DEF Moving, Rolling
<1>4. list[k] = Place(h, k)
  BY <1>1, <1>3 DEF Placed
<1>k. k \in Nat \ {0} /\ Len(list) \in Nat /\ MaxCount \in Nat \ {0} /\ n \in Nat /\ h \in Nat
  BY <1>1
<1> HIDE DEF k, list
<1>5. ASSUME NEW m \in 0 .. MaxCount, NEW g \in 0 .. MaxCount, g <= k - 1, k - 1 <= m,
             m < MaxCount \/ k - 1 = m, DOMAIN archive' = (0 .. m) \ {g}, Placed(list, k - 1, g)
      PROVE  Archived' /\ Moving'
  <2>1. Rolling(DOMAIN archive', k - 1, list)
    <3>1. Len(list) >= k - 1
      BY <1>1, <1>3, <1>k
    <3> QED BY <1>5, <3>1 DEF Rolling
  <2>2. Moving'
    BY <1>1, <1>2, <2>1 DEF Moving, k, list
  <2>3. IsFiniteSet(DOMAIN archive')
    <3>1. m \in Nat /\ g \in 0 .. m
      BY <1>5, <1>1
    <3> QED BY <1>5, <3>1, OneLeftOut
  <2>4. g <= m
    BY <1>5, <1>1
  <2> QED BY <1>1, <1>5, <2>2, <2>3, <2>4 DEF Archived
<1>6. CASE k >= MaxCount
  <2>1. k = n /\ n = MaxCount /\ Unlink(list[k])
    BY <1>1, <1>3, <1>6
  <2> DEFINE g == IF h = n THEN n - 1 ELSE h
  <2>2. /\ list[k] = IF h = n THEN n - 1 ELSE n
        /\ list[k] \in DOMAIN archive
        /\ \A j \in DOMAIN archive : j <= list[k]
    BY <1>3, <1>4, <2>1 DEF Place
  <2>3. DOMAIN archive' = (0 .. n - 1) \ {g}
    <3>1. DOMAIN archive' = DOMAIN archive \ {list[k]}
      BY <2>1 DEF Unlink
    <3>2. n \in Nat /\ h \in 0 .. n /\ DOMAIN archive = (0 .. n) \ {h}
      BY <1>3, <1>k, <2>1
    <3>3. CASE h = n
      BY <3>1, <3>2, <3>3, <2>2
    <3>4. CASE h # n
      BY <3>1, <3>2, <3>4, <2>2
    <3> QED BY <3>3, <3>4
  <2>4. Placed(list, k - 1, g)
    BY <1>3, <2>1 DEF Placed, Place
  <2>5. g \in 0 .. MaxCount /\ g <= k - 1 /\ n - 1 \in 0 .. MaxCount /\ k - 1 = n - 1
    BY <1>3, <2>1
  <2>6. Archived' /\ Moving'
    <3>1. k - 1 <= n - 1
      BY <2>1, <1>k
    <3> HIDE DEF g
    <3> QED BY <1>5, <2>3, <2>4, <2>5, <3>1
  <2>7. Cardinality(DOMAIN archive) >= MaxCount
    BY <1>3, <2>1, OneLeftOut
  <2> QED BY <1>1, <2>1, <2>2, <2>6, <2>7, Unlinked
<1>7. CASE k < MaxCount
  <2>1. n < MaxCount /\ Rename(list[k], k)
    BY <1>1, <1>3, <1>7
  <2>2. CASE h < k
    <3>1. list[k] = k /\ k \in DOMAIN archive
      BY <1>3, <1>4, <1>1, <2>2 DEF Place
    <3>2. /\ DOMAIN archive' = DOMAIN archive
          /\ \A j \in DOMAIN archive : archive'[j] = archive[j]
      BY <2>1, <3>1 DEF Rename
    <3>3. Archived' /\ Moving'
      <4>1. Placed(list, k - 1, h)
        BY <1>3, <1>1 DEF Placed
      <4>2. h <= k - 1 /\ k - 1 <= n
        BY <1>1, <1>3, <2>2
      <4> QED BY <1>5, <1>3, <2>1, <3>2, <4>1, <4>2
    <3>4. ArchivesByAge' /\ OldestGoes
      BY <1>1, <3>2 DEF ArchivesByAge, OldestGoes, Present
    <3> QED BY <3>3, <3>4
  <2>3. CASE h = k
    <3>1. list[k] = k - 1 /\ k - 1 \in DOMAIN archive /\ k \notin DOMAIN archive
      BY <1>3, <1>4, <1>1, <2>3 DEF Place
    <3>2. /\ DOMAIN archive' = (DOMAIN archive \ {k - 1}) \cup {k}
          /\ archive'[k] = archive[k - 1]
          /\ \A j \in DOMAIN archive' \ {k} : archive'[j] = archive[j]
      BY <2>1, <3>1 DEF Rename
    <3>3. Archived' /\ Moving'
      <4>1. Placed(list, k - 1, k - 1)
        BY <1>3, <1>1, <2>3 DEF Placed, Place
      <4>2. DOMAIN archive' = (0 .. n) \ {k - 1}
        BY <1>1, <1>3, <2>3, <3>2
      <4>3. k - 1 \in 0 .. MaxCount /\ k - 1 <= n
        BY <1>k, <1>3, <2>1
      <4>4. k - 1 <= k - 1
        BY <1>k
      <4> QED BY <1>5, <1>3, <2>1, <4>1, <4>2, <4>3, <4>4
    <3>4. ArchivesByAge'
      <4>1. ASSUME NEW i \in DOMAIN archive', NEW j \in DOMAIN archive', i < j
            PROVE  archive'[i] > archive'[j]
        <5> DEFINE I == IF i = k THEN k - 1 ELSE i
                   J == IF j = k THEN k - 1 ELSE j
        <5>0. DOMAIN archive \subseteq Nat /\ i \in Nat /\ j \in Nat
          BY <1>k, <3>2
        <5>1. i = k => I \in DOMAIN archive /\ J \in DOMAIN archive /\ I < J
          <6> SUFFICES ASSUME i = k PROVE k - 1 \in DOMAIN archive /\ j \in DOMAIN archive /\ k - 1 < j /\ j # k
            OBVIOUS
          <6> QED BY <4>1, <3>1, <3>2, <1>k, <5>0
        <5>3. j = k => I \in DOMAIN archive /\ J \in DOMAIN archive /\ I < J
          <6> SUFFICES ASSUME j = k PROVE i \in DOMAIN archive /\ i # k - 1 /\ i < k /\ k - 1 \in DOMAIN archive
            BY <5>0, <1>k
          <6> QED BY <4>1, <3>1, <3>2, <1>k, <5>0
        <5>4. i # k /\ j # k => I \in DOMAIN archive /\ J \in DOMAIN archive /\ I < J
          BY <4>1, <3>2
        <5>a. I \in DOMAIN archive /\ J \in DOMAIN archive /\ I < J
          BY <5>1, <5>3, <5>4
        <5>2. archive'[i] = archive[I] /\ archive'[j] = archive[J]
          BY <3>2
        <5> HIDE DEF I, J
        <5> QED BY <5>a, <5>2, <1>1 DEF ArchivesByAge
      <4>2. \A i \in DOMAIN archive' : base # 0 => archive'[i] < base
        BY <3>1, <3>2 DEF ArchivesByAge
      <4> QED BY <1>1, <4>1, <4>2 DEF ArchivesByAge
    <3>5. Present \subseteq Present'
      <4>1. \A i \in DOMAIN archive : \E j \in DOMAIN archive' : archive'[j] = archive[i]
        BY <3>1, <3>2
      <4> QED BY <1>1, <4>1 DEF Present
    <3> QED BY <3>3, <3>4, <3>5 DEF OldestGoes
  <2> QED BY <1>1, <1>3, <2>2, <2>3
<1> QED BY <1>1, <1>6, <1>7

\* One round of removing the oldest.
LEMMA SeqStep ==
    ASSUME RotateIInv, NEW w \in Writers, SeqFiles(w)
    PROVE  Archived' /\ Moving' /\ ArchivesByAge' /\ OldestGoes
<1> USE RotateAssumption DEF RotateIInv, RotTyped, RotateTypeOK, At
<1> DEFINE k == cursor[w]
           list == files[w]
           D == DOMAIN archive
<1>1. /\ mvType = "seq" /\ mvType' = mvType /\ base' = base
      /\ k \in Nat /\ cursor'[w] = k + 1 /\ files' = files /\ wpc' = wpc /\ wpc[w] = "move"
      /\ Unlink(list[k]) /\ k <= Len(list) - MaxCount
      /\ MaxCount \in Nat \ {0} /\ list \in Seq(Nat) /\ Len(list) \in Nat
      /\ IsFiniteSet(D) /\ Cardinality(D) <= MaxCount + 1 /\ DOMAIN archive = D
  BY DEF SeqFiles, Archived
<1>2. \A v \in Writers \ {w} : wpc'[v] # "move"
  BY <1>1, RotatesAlone DEF Rotating
<1>3. Removing(D, k, list)
  BY <1>1 DEF Moving
<1> HIDE DEF k, list
<1>4. k \in 1 .. Len(list) /\ list[k] \in D /\ \A j \in D : list[k] <= j
  <2>1. /\ k \in 1 .. Len(list) /\ D = {list[j] : j \in k .. Len(list)}
        /\ \A i, j \in 1 .. Len(list) : i < j => list[i] < list[j]
    BY <1>1, <1>3 DEF Removing
  <2>2. k \in k .. Len(list) /\ \A j \in 1 .. Len(list) : list[j] \in Nat
    <3>1. k \in k .. Len(list)
      BY <2>1
    <3>2. \A j \in 1 .. Len(list) : list[j] \in Nat
      BY <1>1, ElementOfSeq
    <3> QED BY <3>1, <3>2
  <2>3. \A j \in k .. Len(list) : j = k \/ (k < j /\ j \in 1 .. Len(list))
    BY <2>1
  <2>4. \A j \in k .. Len(list) : list[k] <= list[j]
    BY <2>1, <2>2, <2>3
  <2> HIDE DEF D, k, list
  <2> QED BY <2>1, <2>2, <2>4
<1>5. DOMAIN archive' = D \ {list[k]}
  BY <1>1 DEF Unlink
<1> HIDE DEF D
<1>6. /\ IsFiniteSet(D \ {list[k]}) /\ Cardinality(D) \in Nat
      /\ Cardinality(D \ {list[k]}) = Cardinality(D) - 1
  <2>1. IsFiniteSet(D) /\ list[k] \in D
    BY <1>1, <1>4
  <2> HIDE DEF list, k
  <2> QED BY <2>1, FS_RemoveElement, FS_CardinalityType
<1>7. Removing(D \ {list[k]}, k + 1, list)
  <2>1. D \ {list[k]} = {list[j] : j \in k + 1 .. Len(list)}
    <3>1. /\ D = {list[j] : j \in k .. Len(list)} /\ k \in Nat
          /\ \A i, j \in 1 .. Len(list) : i < j => list[i] < list[j]
      BY <1>1, <1>3 DEF Removing
    <3>2. \A j \in k + 1 .. Len(list) : j \in k .. Len(list) /\ list[j] # list[k]
      <4> TAKE j \in k + 1 .. Len(list)
      <4>1. j \in 1 .. Len(list) /\ k < j /\ j \in k .. Len(list)
        BY <1>1, <1>4
      <4>2. list[k] < list[j] /\ list[k] \in Nat
        BY <1>1, <1>4, <3>1, <4>1
      <4> QED BY <4>1, <4>2
    <3>3. \A j \in k .. Len(list) : j = k \/ j \in k + 1 .. Len(list)
      BY <1>1, <3>1
    <3> HIDE DEF k, list
    <3> QED BY <3>1, <3>2, <3>3
  <2>2. Cardinality(D \ {list[k]}) = Len(list) - (k + 1) + 1
    BY <1>1, <1>3, <1>6 DEF Removing
  <2>3. k + 1 \in 1 .. Len(list) + 1
    BY <1>1, <1>4
  <2>4. \A i, j \in 1 .. Len(list) : i < j => list[i] < list[j]
    BY <1>3 DEF Removing
  <2> HIDE DEF k, list
  <2> QED BY <2>1, <2>2, <2>3, <2>4 DEF Removing
<1> HIDE DEF k, list
<1>8. Moving'
  BY <1>1, <1>2, <1>5, <1>7 DEF Moving, k, list
<1>9. Archived'
  <2>1. Cardinality(D \ {list[k]}) <= MaxCount + 1
    BY <1>1, <1>6
  <2> QED BY <1>1, <1>5, <1>6, <2>1 DEF Archived
<1>10. Cardinality(D) >= MaxCount
  BY <1>1, <1>3 DEF Removing
<1>11. ArchivesByAge' /\ OldestGoes
  BY <1>1, <1>4, <1>10, Unlinked DEF D
<1> QED BY <1>8, <1>9, <1>11

\* The file itself is moved to the archives.
LEMMA BaseStep ==
    ASSUME RotateIInv, NEW w \in Writers, MoveBase(w)
    PROVE  Archived' /\ Moving' /\ ArchivesByAge' /\ OldestGoes
<1> USE RotateAssumption DEF RotateIInv, RotTyped, RotateTypeOK, At
<1> DEFINE k == cursor[w]
           list == files[w]
           D == DOMAIN archive
           new == NewIndex(list)
<1>1. /\ mvType' = mvType /\ base' = 0 /\ base # 0 /\ wpc[w] = "move"
      /\ wpc' = [wpc EXCEPT ![w] = "unlock"]
      /\ IF mvType = "roll" THEN k = 0 ELSE k > Len(list) - MaxCount
      /\ MaxCount \in Nat \ {0} /\ list \in Seq(Nat) /\ Len(list) \in Nat
      /\ DOMAIN archive' = D \cup {new} /\ archive'[new] = base
      /\ \A j \in D \ {new} : archive'[j] = archive[j]
      /\ DOMAIN archive = D
  BY DEF MoveBase
<1>2. Moving'
  <2>1. \A v \in Writers : wpc'[v] # "move"
    BY <1>1, RotatesAlone DEF Rotating
  <2> QED BY <2>1 DEF Moving
<1>3. new \notin D /\ new \in Nat /\ \A j \in D : IF mvType = "roll" THEN new < j ELSE j < new
  <2>1. CASE mvType = "roll"
    <3>1. Rolling(D, 0, list)
      BY <1>1, <2>1 DEF Moving
    <3>2. 0 \notin D
      BY <3>1 DEF Rolling
    <3> QED BY <2>1, <3>2 DEF NewIndex
  <2>2. CASE mvType # "roll"
    <3>1. Removing(D, k, list)
      BY <1>1, <2>2 DEF Moving
    <3>2. CASE list = <<>>
      BY <2>2, <3>1, <3>2 DEF NewIndex, Removing
    <3>3. CASE list # <<>>
      <4>1. Len(list) > 0 /\ Last(list) = list[Len(list)] /\ list[Len(list)] \in Nat
        BY <3>3, <1>1, EmptySeq DEF Last
      <4>2. \A j \in D : j <= list[Len(list)]
        <5> HIDE DEF D, k, list
        <5>1. /\ D = {list[j] : j \in k .. Len(list)} /\ k \in 1 .. Len(list) + 1
              /\ \A i, j \in 1 .. Len(list) : i < j => list[i] < list[j]
          BY <3>1 DEF Removing
        <5>2. \A j \in k .. Len(list) : list[j] <= list[Len(list)]
          <6> TAKE j \in k .. Len(list)
          <6>0. j \in 1 .. Len(list) /\ Len(list) \in 1 .. Len(list)
            BY <1>1, <4>1, <5>1
          <6>1. j \in 1 .. Len(list) /\ Len(list) \in 1 .. Len(list) /\ list[j] \in Nat
            BY <1>1, <6>0, ElementOfSeq
          <6>2. CASE j = Len(list)
            BY <4>1, <6>2
          <6>3. CASE j < Len(list)
            <7>1. list[j] < list[Len(list)]
              BY <5>1, <6>1, <6>3
            <7> QED BY <4>1, <6>1, <7>1
          <6>4. Len(list) \in Nat /\ j \in Nat /\ j <= Len(list)
            BY <1>1, <6>1
          <6> QED BY <6>2, <6>3, <6>4
        <5> QED BY <5>1, <5>2
      <4>3. new > list[Len(list)] /\ new \in Nat
        BY <2>2, <3>3, <4>1, <1>1 DEF NewIndex
      <4> QED BY <2>2, <4>1, <4>2, <4>3
    <3> QED BY <3>2, <3>3
  <2> QED BY <2>1, <2>2
<1>4. IsFiniteSet(D) /\ Cardinality(D) \in Nat
  BY FS_CardinalityType DEF Archived
<1>5. Archived'
  <2>1. IsFiniteSet(DOMAIN archive')
    BY <1>1, <1>4, FS_AddElement
  <2>2. CASE mvType = "roll"
    <3>1. PICK n \in 0 .. MaxCount, h \in 0 .. MaxCount :
             /\ h <= 0 /\ (n < MaxCount \/ 0 = n) /\ 0 <= n /\ D = (0 .. n) \ {h}
      <4>1. Rolling(D, 0, list)
        BY <1>1, <2>2 DEF Moving
      <4> HIDE DEF D
      <4> QED BY <4>1 DEF Rolling
    <3>2. n < MaxCount /\ n + 1 \in 0 .. MaxCount /\ new = 0
      BY <1>1, <3>1, <2>2 DEF NewIndex
    <3>3. D \cup {0} = (0 .. n + 1) \ {n + 1}
      BY <3>1, <3>2
    <3> HIDE DEF D, new
    <3>4. \E m \in 0 .. MaxCount, g \in 0 .. MaxCount : g <= m /\ DOMAIN archive' = (0 .. m) \ {g}
      <4>1. n + 1 <= n + 1
        BY <3>2
      <4> QED BY <1>1, <3>2, <3>3, <4>1
    <3> QED BY <1>1, <2>1, <2>2, <3>4 DEF Archived
  <2>3. CASE mvType # "roll"
    <3>1. Cardinality(D) <= MaxCount
      <4>1. Removing(D, k, list)
        BY <1>1, <2>3 DEF Moving
      <4> QED BY <4>1, <1>1, <2>3 DEF Removing
    <3> HIDE DEF D, new
    <3>2. Cardinality(DOMAIN archive') <= MaxCount + 1
      <4>1. Cardinality(D \cup {new}) = (IF new \in D THEN Cardinality(D) ELSE Cardinality(D) + 1)
        BY <1>4, FS_AddElement
      <4>2. Cardinality(DOMAIN archive') = Cardinality(D) + 1
        BY <1>1, <1>3, <4>1
      <4> QED BY <1>1, <1>4, <3>1, <4>2
    <3> QED BY <1>1, <2>1, <2>3, <3>2 DEF Archived
  <2> QED BY <2>2, <2>3
<1> HIDE DEF new, k, list
<1>6. ArchivesByAge'
  <2>1. \A j \in D : archive'[j] = archive[j] /\ archive[j] < base
    BY <1>1, <1>3 DEF ArchivesByAge
  <2>2. ASSUME NEW i \in DOMAIN archive', NEW j \in DOMAIN archive', i < j
        PROVE  IF mvType = "roll" THEN archive'[i] > archive'[j] ELSE archive'[i] < archive'[j]
    <3>0. i \in Nat /\ j \in Nat
      BY <1>1, <1>3
    <3>1. CASE i \in D /\ j \in D
      BY <2>1, <2>2, <3>1 DEF ArchivesByAge
    <3>2. CASE i \notin D
      <4>1. i = new /\ j \in D /\ mvType = "roll"
        BY <1>1, <1>3, <2>2, <3>0, <3>2
      <4> QED BY <4>1, <2>1, <1>1
    <3>3. CASE j \notin D
      <4>1. j = new /\ i \in D /\ mvType # "roll"
        BY <1>1, <1>3, <2>2, <3>0, <3>3
      <4> QED BY <4>1, <2>1, <1>1
    <3> QED BY <3>1, <3>2, <3>3
  <2> QED BY <1>1, <2>2 DEF ArchivesByAge
<1>7. Present \subseteq Present'
  <2>1. \A j \in D : j \in DOMAIN archive' /\ archive'[j] = archive[j]
    BY <1>1, <1>3
  <2>2. new \in DOMAIN archive' /\ archive'[new] = base
    BY <1>1
  <2> QED BY <2>1, <2>2, <1>1 DEF Present
<1> QED BY <1>2, <1>5, <1>6, <1>7 DEF OldestGoes

\* The other steps touch no archive, and none of them starts to move files.
LEMMA MoveSteps == RotateIInv /\ [RotateNext]_rotateVars =>
    Archived' /\ Moving' /\ ArchivesByAge' /\ OldestGoes
<1> SUFFICES ASSUME RotateIInv, [RotateNext]_rotateVars
             PROVE  Archived' /\ Moving' /\ ArchivesByAge' /\ OldestGoes
  OBVIOUS
<1> USE RotateAssumption DEF RotateIInv, RotTyped, RotateTypeOK, At
<1>0. ASSUME mvType' = mvType, archive' = archive,
             \/ base' = base
             \/ base = 0 /\ \A i \in DOMAIN archive : archive[i] < base'
      PROVE  ArchivesByAge' /\ OldestGoes
  <2>1. ArchivesByAge'
    BY <1>0 DEF ArchivesByAge
  <2>2. Present \subseteq Present'
    BY <1>0 DEF Present
  <2> QED BY <2>1, <2>2 DEF OldestGoes
<1>s. ASSUME mvType' = mvType, archive' = archive, base' = base,
             \A w \in Writers : wpc'[w] = "move" =>
                wpc[w] = "move" /\ cursor'[w] = cursor[w] /\ files'[w] = files[w]
      PROVE  Archived' /\ Moving' /\ ArchivesByAge' /\ OldestGoes
  BY <1>0, <1>s, ArchivesStay
<1>1. ASSUME NEW w \in Writers, Open(w) PROVE Archived' /\ Moving' /\ ArchivesByAge' /\ OldestGoes
  <2>1. \/ base' = base
        \/ base = 0 /\ \A i \in DOMAIN archive : archive[i] < base'
    <3>1. base = 0 => base' = Len(size) + 1
      BY <1>1 DEF Open
    <3>2. base # 0 => base' = base
      BY <1>1 DEF Open
    <3>3. Len(size) \in Nat /\ \A i \in DOMAIN archive : archive[i] < Len(size) + 1
      OBVIOUS
    <3> QED BY <3>1, <3>2, <3>3
  <2>2. /\ mvType' = mvType /\ archive' = archive
        /\ \A v \in Writers : wpc'[v] = "move" =>
              wpc[v] = "move" /\ cursor'[v] = cursor[v] /\ files'[v] = files[v]
    BY <1>1 DEF Open
  <2> QED BY <1>0, <2>1, <2>2, ArchivesStay
<1>2. ASSUME NEW w \in Writers, Write(w) PROVE Archived' /\ Moving' /\ ArchivesByAge' /\ OldestGoes
  BY <1>2, <1>s DEF Write
<1>3. ASSUME NEW w \in Writers, Stat(w) PROVE Archived' /\ Moving' /\ ArchivesByAge' /\ OldestGoes
  BY <1>3, <1>s DEF Stat, KeepFiles
<1>4. ASSUME NEW w \in Writers, TryMutex(w) PROVE Archived' /\ Moving' /\ ArchivesByAge' /\ OldestGoes
  BY <1>4, <1>s DEF TryMutex, KeepFiles
<1>5. ASSUME NEW w \in Writers, TryFlock(w) PROVE Archived' /\ Moving' /\ ArchivesByAge' /\ OldestGoes
  BY <1>5, <1>s DEF TryFlock, KeepFiles
<1>6. ASSUME NEW w \in Writers, Restat(w) PROVE Archived' /\ Moving' /\ ArchivesByAge' /\ OldestGoes
  BY <1>6, <1>s DEF Restat, KeepFiles
<1>7. ASSUME NEW w \in Writers, List(w) PROVE Archived' /\ Moving' /\ ArchivesByAge' /\ OldestGoes
  BY <1>7, <1>0, ListStep DEF List, KeepFiles
<1>8. ASSUME NEW w \in Writers, RollFiles(w) PROVE Archived' /\ Moving' /\ ArchivesByAge' /\ OldestGoes
  BY <1>8, RollStep
<1>9. ASSUME NEW w \in Writers, SeqFiles(w) PROVE Archived' /\ Moving' /\ ArchivesByAge' /\ OldestGoes
  BY <1>9, SeqStep
<1>10. ASSUME NEW w \in Writers, MoveBase(w) PROVE Archived' /\ Moving' /\ ArchivesByAge' /\ OldestGoes
  BY <1>10, BaseStep
<1>11. ASSUME NEW w \in Writers, MoveFails(w) PROVE Archived' /\ Moving' /\ ArchivesByAge' /\ OldestGoes
  BY <1>11, <1>s DEF MoveFails
<1>12. ASSUME NEW w \in Writers, UnlockRotater(w) PROVE Archived' /\ Moving' /\ ArchivesByAge' /\ OldestGoes
  BY <1>12, <1>s DEF UnlockRotater, KeepFiles
<1>13. ASSUME NEW w \in Writers, Crash(w) PROVE Archived' /\ Moving' /\ ArchivesByAge' /\ OldestGoes
  <2>1. /\ wpc' = [v \in Writers |-> IF Owner[v] = Owner[w] THEN "idle" ELSE wpc[v]]
        /\ cursor' = [v \in Writers |-> IF Owner[v] = Owner[w] THEN 0 ELSE cursor[v]]
        /\ files' = [v \in Writers |-> IF Owner[v] = Owner[w] THEN <<>> ELSE files[v]]
    BY <1>13 DEF Crash
  <2>2. ASSUME NEW v \in Writers, wpc'[v] = "move"
        PROVE  wpc[v] = "move" /\ cursor'[v] = cursor[v] /\ files'[v] = files[v]
    <3>1. Owner[v] # Owner[w]
      BY <2>1, <2>2
    <3> QED BY <2>1, <2>2, <3>1
  <2> QED BY <1>13, <1>s, <2>2 DEF Crash
<1>14. CASE UNCHANGED rotateVars
  BY <1>14, <1>s DEF rotateVars
<1> QED BY <1>1, <1>2, <1>3, <1>4, <1>5, <1>6, <1>7, <1>8, <1>9, <1>10, <1>11, <1>12, <1>13, <1>14
        DEF RotateNext

LEMMA RotateInductive == RotateIInv /\ [RotateNext]_rotateVars => RotateIInv'
BY LocksStep, TypedStep, MoveSteps DEF RotateIInv

\* What the invariant says of the number of rotating threads and of archives.
LEMMA RotateMeans == RotateIInv => RotateSound
<1> SUFFICES ASSUME RotateIInv PROVE RotateSound
  OBVIOUS
<1> USE DEF RotateIInv
<1>1. OneRotates
  <2>1. CASE Rotating = {}
    BY <2>1, FS_EmptySet DEF OneRotates
  <2>2. CASE Rotating # {}
    <3>1. PICK w \in Rotating : TRUE
      BY <2>2
    <3>2. Rotating = {w}
      BY <3>1, RotatesAlone
    <3> QED BY <3>2, FS_Singleton DEF OneRotates
  <2> QED BY <2>1, <2>2
<1>2. CountKept
  <2>1. CASE mvType = "roll"
    <3>1. PICK n \in 0 .. MaxCount, h \in 0 .. MaxCount : h <= n /\ DOMAIN archive = (0 .. n) \ {h}
      BY <2>1 DEF Archived
    <3>2. n \in Nat /\ h \in 0 .. n /\ n <= MaxCount
      BY <3>1, RotateAssumption
    <3>3. Cardinality(DOMAIN archive) = n
      BY <3>1, <3>2, OneLeftOut
    <3> QED BY <2>1, <3>2, <3>3 DEF CountKept
  <2>2. CASE mvType # "roll"
    BY <2>2 DEF Archived, CountKept
  <2> QED BY <2>1, <2>2
<1> QED BY <1>1, <1>2 DEF RotTyped, RotateSound

\* For any number of writers, processes and archives, and failures: one writer rotates at a
\* time, and the archives keep their order and number (zlog_rotater_rotate).
THEOREM RotateHolds == RotateSpec => []RotateSound
<1>1. RotateInit => RotateIInv
  BY RotateInitially
<1>2. RotateIInv /\ [RotateNext]_rotateVars => RotateIInv'
  BY RotateInductive
<1>3. RotateIInv => RotateSound
  BY RotateMeans
<1> QED BY <1>1, <1>2, <1>3, PTL DEF RotateSpec

\* An archive that goes is the oldest, and goes because there are too many
\* (zlog_rotater_roll_files, zlog_rotater_seq_files).
THEOREM OldestFirst == RotateSpec => OldestGoFirst
<1>1. RotateInit => RotateIInv
  BY RotateInitially
<1>2. RotateIInv /\ [RotateNext]_rotateVars => RotateIInv'
  BY RotateInductive
<1>3. RotateIInv /\ [RotateNext]_rotateVars => OldestGoes
  BY MoveSteps
<1>4. RotateIInv /\ [RotateNext]_rotateVars =>
      [\A f \in Present \ Present' :
          /\ \A g \in Present : f <= g
          /\ Cardinality(DOMAIN archive) >= MaxCount]_rotateVars
  BY <1>3 DEF OldestGoes
<1> QED BY <1>1, <1>2, <1>4, PTL DEF RotateSpec, OldestGoFirst

-----------------------------------------------------------------------------
(***************************************************************************)
(* The file of a rule, that is moved away while threads write to it.       *)
(***************************************************************************)

\* The rule has a descriptor; it may be closed, but if not it is the newest file's.
Usable == static.fd # -1 /\ (static.fd \in DOMAIN open => open[static.fd] = created)

\* What neither a move between an open and what follows it nor a failure among several
\* threads has spoiled.
Trusted == ~raced /\ ~(crowded /\ fileFaults > 0)

FilesTyped ==
    /\ FileTypeOK
    /\ created \in Nat \ {0} /\ atPath \in {0, created}
    /\ IsFiniteSet(DOMAIN open) /\ DOMAIN open \subseteq Nat
    /\ static = [fd |-> static.fd, ino |-> static.ino]
    /\ fpc \in [FileThreads -> {"idle", "close", "open", "keep", "restat", "save", "write"}]
    /\ stb \in [FileThreads -> 0 .. created]
    /\ mine \in [FileThreads -> Nat \cup {-1}]
    /\ fileFaults \in Nat /\ raced \in BOOLEAN /\ crowded \in BOOLEAN /\ astray \in BOOLEAN

\* An inode that is the file's is kept, or is about to be, for the newest file only.
KeptTrue == Trusted /\ static.ino = atPath => Usable
OpenedTrue == \A t \in FileThreads : Trusted /\ fpc[t] = "keep" =>
    /\ mine[t] # -1 => atPath # 0
    /\ mine[t] \in DOMAIN open => open[mine[t]] = created
SavedTrue == \A t \in FileThreads : Trusted /\ fpc[t] = "save" /\ stb[t] = atPath => Usable
FoundTrue == \A t \in FileThreads : Trusted /\ fpc[t] = "restat" => Usable /\ atPath # 0
MovedTrue == \A t \in FileThreads : ~crowded /\ fpc[t] \in {"close", "open", "keep"} => static.ino # atPath
InodeTrue == KeptTrue /\ OpenedTrue /\ SavedTrue /\ FoundTrue /\ MovedTrue

\* Of the descriptors that were ever used no more are closed than there are threads that
\* are about to open one, who take the lowest of them: when there is no such thread, all
\* are open.
Openers == {t \in FileThreads : fpc[t] = "open"}
FewClosed ==
    fileFaults = 0 =>
        \E m \in Nat :
            /\ static.fd \in 0 .. m /\ DOMAIN open \subseteq 0 .. m
            /\ \A t \in FileThreads : fpc[t] = "keep" => mine[t] \in 0 .. m
            /\ Cardinality((0 .. m) \ DOMAIN open) <= Cardinality(Openers)

\* The rule's descriptor is the only one of a log file; while it is closed, or not stored,
\* nobody takes its number.
OneDescriptor ==
    ~crowded =>
        /\ ~astray
        /\ \A t, u \in FileThreads : {fpc[t], fpc[u]} \subseteq {"open", "keep"} => t = u
        /\ (\A t \in FileThreads : fpc[t] \notin {"open", "keep"}) =>
              /\ static.fd \in DOMAIN open \cup {-1}
              /\ \A d \in DOMAIN open : open[d] # 0 <=> d = static.fd
        /\ \A t \in FileThreads : fpc[t] = "open" => static.fd \notin DOMAIN open /\ \A d \in DOMAIN open : open[d] = 0
        /\ \A t \in FileThreads : fpc[t] = "keep" =>
              /\ mine[t] \in DOMAIN open \cup {-1}
              /\ static.fd \notin DOMAIN open \/ static.fd = mine[t]
              /\ \A d \in DOMAIN open : open[d] # 0 <=> d = mine[t]

FileIInv == FilesTyped /\ InodeTrue /\ FewClosed /\ OneDescriptor

\* The descriptor that is free is one, and those below it are not.
LEMMA LowestIsFree ==
    ASSUME IsFiniteSet(DOMAIN open), DOMAIN open \subseteq Nat
    PROVE  /\ LowestFree \in Nat /\ LowestFree \notin DOMAIN open
           /\ \A e \in 0 .. LowestFree - 1 : e \in DOMAIN open
<1> DEFINE n == Cardinality(DOMAIN open)
           FreeOnes == {d \in 0 .. n : d \notin DOMAIN open}
<1>1. n \in Nat
  BY FS_CardinalityType
<1>2. FreeOnes # {}
  <2> SUFFICES ASSUME 0 .. n \subseteq DOMAIN open PROVE FALSE
    OBVIOUS
  <2>1. Cardinality(0 .. n) <= n
    BY FS_Subset
  <2>2. Cardinality(0 .. n) = n + 1
    BY <1>1, FS_Interval
  <2> QED BY <1>1, <2>1, <2>2
<1>3. PICK d \in FreeOnes : \A e \in FreeOnes : d <= e
  <2>1. FreeOnes \subseteq Nat
    BY <1>1
  <2> HIDE DEF FreeOnes
  <2> QED BY <1>2, <2>1, NatMin
<1>4. \E f \in 0 .. n : f \notin DOMAIN open /\ \A e \in 0 .. f - 1 : e \in DOMAIN open
  <2>1. \A e \in 0 .. d - 1 : e \in 0 .. n /\ ~(d <= e)
    BY <1>1, <1>3
  <2>2. \A e \in 0 .. d - 1 : e \in DOMAIN open
    BY <1>3, <2>1
  <2> QED BY <1>3, <2>2
<1>5. /\ LowestFree \in 0 .. n /\ LowestFree \notin DOMAIN open
      /\ \A e \in 0 .. LowestFree - 1 : e \in DOMAIN open
  BY <1>4 DEF LowestFree
<1> QED BY <1>1, <1>5

LEMMA OpenedFile ==
    ASSUME IsFiniteSet(DOMAIN open), DOMAIN open \subseteq Nat, NEW f
    PROVE  LET d == LowestFree
               o == Opened(d, f)
           IN  /\ d \in Nat /\ d \notin DOMAIN open
               /\ DOMAIN o = DOMAIN open \cup {d} /\ o[d] = f
               /\ \A e \in DOMAIN open : o[e] = open[e]
               /\ IsFiniteSet(DOMAIN o) /\ DOMAIN o \subseteq Nat
<1> DEFINE d == LowestFree
<1>1. d \in Nat /\ d \notin DOMAIN open
  BY LowestIsFree
<1> HIDE DEF d
<1>2. DOMAIN Opened(d, f) = DOMAIN open \cup {d}
  BY DEF Opened
<1>3. Opened(d, f)[d] = f /\ \A e \in DOMAIN open : Opened(d, f)[e] = open[e]
  BY <1>1 DEF Opened
<1>4. IsFiniteSet(DOMAIN open \cup {d})
  BY FS_AddElement
<1> QED BY <1>1, <1>2, <1>3, <1>4 DEF d

LEMMA FileInitially == FileInit => FileIInv
<1> SUFFICES ASSUME FileInit PROVE FileIInv
  OBVIOUS
<1> USE DEF FileInit
<1>1. DOMAIN open = {0} /\ open[0] = 1 /\ IsFiniteSet({0})
  BY FS_Singleton
<1>2. FilesTyped
  <2>1. FileTypeOK
    BY <1>1 DEF FileTypeOK
  <2>2. static = [fd |-> static.fd, ino |-> static.ino]
    OBVIOUS
  <2>3. /\ created \in Nat \ {0} /\ atPath \in {0, created}
        /\ IsFiniteSet(DOMAIN open) /\ DOMAIN open \subseteq Nat
    BY <1>1
  <2>4. /\ fpc \in [FileThreads -> {"idle", "close", "open", "keep", "restat", "save", "write"}]
        /\ stb \in [FileThreads -> 0 .. created] /\ mine \in [FileThreads -> Nat \cup {-1}]
    OBVIOUS
  <2>5. fileFaults \in Nat /\ raced \in BOOLEAN /\ crowded \in BOOLEAN /\ astray \in BOOLEAN
    OBVIOUS
  <2> QED BY <2>1, <2>2, <2>3, <2>4, <2>5 DEF FilesTyped
<1>3. InodeTrue
  BY <1>1 DEF InodeTrue, KeptTrue, OpenedTrue, SavedTrue, FoundTrue, MovedTrue, Usable
<1>4. OneDescriptor
  BY <1>1 DEF OneDescriptor
<1>5. FewClosed
  <2>1. (0 .. 0) \ DOMAIN open = {} /\ Openers = {}
    BY <1>1 DEF Openers
  <2>2. /\ static.fd \in 0 .. 0 /\ DOMAIN open \subseteq 0 .. 0
        /\ \A t \in FileThreads : fpc[t] = "keep" => mine[t] \in 0 .. 0
        /\ Cardinality((0 .. 0) \ DOMAIN open) <= Cardinality(Openers)
    BY <1>1, <2>1, FS_EmptySet
  <2> QED BY <2>2 DEF FewClosed
<1> QED BY <1>2, <1>3, <1>4, <1>5 DEF FileIInv

\* What open does, in words of its own.
LEMMA OpenStepped ==
    ASSUME FilesTyped, NEW t \in FileThreads, OpenFile(t)
    PROVE  \E f \in Nat \ {0}, d \in Nat :
               /\ d = LowestFree /\ d \notin DOMAIN open
               /\ DOMAIN open' = DOMAIN open \cup {d} /\ open'[d] = f
               /\ \A e \in DOMAIN open : open'[e] = open[e]
               /\ IsFiniteSet(DOMAIN open') /\ DOMAIN open' \subseteq Nat
               /\ created <= f /\ atPath' = f /\ created' = f
               /\ atPath # 0 => f = created
               /\ atPath = 0 => f = created + 1
               /\ fpc[t] = "open" /\ fpc' = [fpc EXCEPT ![t] = "keep"]
               /\ mine' = [mine EXCEPT ![t] = d]
               /\ UNCHANGED <<static, stb, ghosts, fileBounds>>
<1> DEFINE f == IF atPath = 0 THEN created + 1 ELSE atPath
           d == LowestFree
<1>1. /\ d \in Nat /\ d \notin DOMAIN open
      /\ DOMAIN open' = DOMAIN open \cup {d} /\ open'[d] = f
      /\ \A e \in DOMAIN open : open'[e] = open[e]
      /\ IsFiniteSet(DOMAIN open') /\ DOMAIN open' \subseteq Nat
  BY OpenedFile DEF OpenFile, FilesTyped
<1>2. /\ f \in Nat \ {0} /\ created <= f /\ atPath' = f /\ created' = f
      /\ (atPath # 0 => f = created) /\ (atPath = 0 => f = created + 1)
  BY DEF OpenFile, FilesTyped
<1>3. /\ mine' = [mine EXCEPT ![t] = d] /\ fpc[t] = "open" /\ fpc' = [fpc EXCEPT ![t] = "keep"]
      /\ UNCHANGED <<static, stb, ghosts, fileBounds>>
  BY DEF OpenFile, Step
<1>4. d = LowestFree
  OBVIOUS
<1> HIDE DEF f, d
<1> QED BY <1>1, <1>2, <1>3, <1>4

LEMMA FileTypedStep == FileIInv /\ [FileNext]_zfVars => FilesTyped'
<1> SUFFICES ASSUME FileIInv, [FileNext]_zfVars PROVE FilesTyped'
  OBVIOUS
<1> USE DEF FileIInv, FilesTyped, FileTypeOK, Step
<1>1. ASSUME NEW t \in FileThreads, StatFile(t) PROVE FilesTyped'
  BY <1>1 DEF StatFile, ghosts, fileBounds
<1>2. ASSUME NEW t \in FileThreads, CloseFile(t) PROVE FilesTyped'
  <2>1. /\ DOMAIN open' = DOMAIN open \ {static.fd}
        /\ \A e \in DOMAIN open' : open'[e] = open[e]
        /\ IsFiniteSet(DOMAIN open')
    BY <1>2, FS_RemoveElement DEF CloseFile
  <2> QED BY <1>2, <2>1 DEF CloseFile, fileBounds
<1>3. ASSUME NEW t \in FileThreads, OpenFile(t) PROVE FilesTyped'
  <2>1. PICK f \in Nat \ {0}, d \in Nat :
               /\ d \notin DOMAIN open
               /\ DOMAIN open' = DOMAIN open \cup {d} /\ open'[d] = f
               /\ \A e \in DOMAIN open : open'[e] = open[e]
               /\ IsFiniteSet(DOMAIN open') /\ DOMAIN open' \subseteq Nat
               /\ created <= f /\ atPath' = f /\ created' = f
               /\ fpc[t] = "open" /\ fpc' = [fpc EXCEPT ![t] = "keep"]
               /\ mine' = [mine EXCEPT ![t] = d]
               /\ UNCHANGED <<static, stb, ghosts, fileBounds>>
    <3> HIDE DEF FilesTyped
    <3> QED BY <1>3, OpenStepped
  <2> QED BY <2>1 DEF fileBounds, ghosts
<1>4. ASSUME NEW t \in FileThreads, OpenFails(t) PROVE FilesTyped'
  BY <1>4 DEF OpenFails, ghosts, fileBounds
<1>11. ASSUME NEW t \in FileThreads, KeepFile(t) PROVE FilesTyped'
  BY <1>11 DEF KeepFile, ghosts, fileBounds
<1>5. ASSUME NEW t \in FileThreads, RestatFile(t) PROVE FilesTyped'
  BY <1>5 DEF RestatFile, ghosts, fileBounds
<1>6. ASSUME NEW t \in FileThreads, SaveInode(t) PROVE FilesTyped'
  BY <1>6 DEF SaveInode, ghosts, fileBounds
<1>7. ASSUME NEW t \in FileThreads, WriteFile(t) PROVE FilesTyped'
  BY <1>7 DEF WriteFile, ghosts, fileBounds
<1>8. ASSUME MoveAway PROVE FilesTyped'
  BY <1>8 DEF MoveAway, ghosts, fileBounds
<1>9. ASSUME OtherOpens PROVE FilesTyped'
  <2> DEFINE d == LowestFree
  <2>1. /\ d \in Nat /\ d \notin DOMAIN open
        /\ DOMAIN open' = DOMAIN open \cup {d} /\ open'[d] = 0
        /\ \A e \in DOMAIN open : open'[e] = open[e]
        /\ IsFiniteSet(DOMAIN open') /\ DOMAIN open' \subseteq Nat
    BY <1>9, OpenedFile DEF OtherOpens
  <2> HIDE DEF d
  <2> QED BY <1>9, <2>1 DEF OtherOpens
<1>10. CASE UNCHANGED zfVars
  BY <1>10 DEF zfVars
<1> QED BY <1>1, <1>2, <1>3, <1>4, <1>5, <1>6, <1>7, <1>8, <1>9, <1>10, <1>11 DEF FileNext

LEMMA FileInodeStep == FileIInv /\ [FileNext]_zfVars => InodeTrue'
<1> SUFFICES ASSUME FileIInv, [FileNext]_zfVars PROVE InodeTrue'
  OBVIOUS
<1> USE DEF FileIInv, FilesTyped, FileTypeOK, Step, InodeTrue
<1>1. ASSUME NEW t \in FileThreads, StatFile(t) PROVE InodeTrue'
  <2>11. KeptTrue'
    BY <1>1 DEF StatFile, ghosts, fileBounds, Usable, Trusted, KeptTrue
  <2>12. SavedTrue'
    BY <1>1 DEF StatFile, ghosts, fileBounds, Usable, Trusted, SavedTrue
  <2>13. FoundTrue' /\ OpenedTrue'
    BY <1>1 DEF StatFile, ghosts, fileBounds, Usable, Trusted, FoundTrue, OpenedTrue
  <2>14. MovedTrue'
    BY <1>1 DEF StatFile, ghosts, fileBounds, Trusted, MovedTrue
  <2> QED BY <2>11, <2>12, <2>13, <2>14
<1>2. ASSUME NEW t \in FileThreads, CloseFile(t) PROVE InodeTrue'
  <2>1. /\ DOMAIN open' = DOMAIN open \ {static.fd}
        /\ \A e \in DOMAIN open' : open'[e] = open[e]
        /\ UNCHANGED <<static, created, atPath, mine, stb, raced, fileFaults>>
        /\ fpc[t] = "close" /\ fpc' = [fpc EXCEPT ![t] = "open"]
        /\ crowded' = (crowded \/ Others(t))
    BY <1>2 DEF CloseFile, fileBounds
  <2>2. Usable => Usable'
    BY <2>1 DEF Usable
  <2>3. Trusted' => Trusted
    BY <2>1 DEF Trusted
  <2>11. KeptTrue'
    BY <2>1, <2>2, <2>3 DEF KeptTrue
  <2>12. SavedTrue'
    BY <2>1, <2>2, <2>3 DEF SavedTrue
  <2>13. FoundTrue' /\ OpenedTrue'
    BY <2>1, <2>2, <2>3 DEF FoundTrue, OpenedTrue
  <2>14. MovedTrue'
    BY <2>1 DEF MovedTrue
  <2> QED BY <2>11, <2>12, <2>13, <2>14
<1>3. ASSUME NEW t \in FileThreads, OpenFile(t) PROVE InodeTrue'
  <2>1. PICK f \in Nat \ {0}, d \in Nat :
               /\ d \notin DOMAIN open
               /\ DOMAIN open' = DOMAIN open \cup {d} /\ open'[d] = f
               /\ \A e \in DOMAIN open : open'[e] = open[e]
               /\ created <= f /\ atPath' = f /\ created' = f
               /\ atPath # 0 => f = created
               /\ atPath = 0 => f = created + 1
               /\ fpc[t] = "open" /\ fpc' = [fpc EXCEPT ![t] = "keep"]
               /\ mine' = [mine EXCEPT ![t] = d]
               /\ UNCHANGED <<static, stb, ghosts, fileBounds>>
    <3> HIDE DEF FilesTyped
    <3> QED BY <1>3, OpenStepped
  <2>2. Trusted' = Trusted
    BY <2>1 DEF Trusted, ghosts, fileBounds
  <2>3. atPath # 0 => (Usable => Usable')
    BY <2>1 DEF Usable
  <2>4. atPath = 0 => static.ino # atPath' /\ \A u \in FileThreads : stb[u] # atPath'
    BY <2>1
  <2>5. atPath # 0 => atPath' = atPath
    BY <2>1
  <2>11. KeptTrue'
    BY <2>1, <2>2, <2>3, <2>4, <2>5 DEF KeptTrue
  <2>12. SavedTrue'
    BY <2>1, <2>2, <2>3, <2>4, <2>5 DEF SavedTrue
  <2>13. FoundTrue'
    BY <2>1, <2>2, <2>3, <2>4, <2>5 DEF FoundTrue
  <2>15. OpenedTrue'
    BY <2>1, <2>2 DEF OpenedTrue
  <2>14. MovedTrue'
    BY <2>1, <2>4, <2>5 DEF MovedTrue, ghosts
  <2> QED BY <2>11, <2>12, <2>13, <2>14, <2>15
<1>4. ASSUME NEW t \in FileThreads, OpenFails(t) PROVE InodeTrue'
  <2>1. /\ fpc' = [fpc EXCEPT ![t] = "keep"] /\ fpc[t] = "open" /\ mine' = [mine EXCEPT ![t] = -1]
        /\ UNCHANGED <<atPath, created, open, static, stb, crowded, raced>>
        /\ fileFaults' > 0
    BY <1>4 DEF OpenFails, ghosts
  <2>2. Trusted' => Trusted /\ ~crowded
    BY <2>1 DEF Trusted
  <2>3. Usable' = Usable
    BY <2>1 DEF Usable
  <2>4. ~crowded => fpc[t] \in {"open", "keep"}
    BY <2>1
  <2>11. KeptTrue'
    BY <2>1, <2>2, <2>3 DEF KeptTrue
  <2>12. SavedTrue' /\ FoundTrue'
    BY <2>1, <2>2, <2>3 DEF SavedTrue, FoundTrue
  <2>14. MovedTrue'
    BY <2>1 DEF MovedTrue
  <2>15. OpenedTrue'
    BY <2>1, <2>2 DEF OpenedTrue
  <2> QED BY <2>11, <2>12, <2>14, <2>15
<1>11. ASSUME NEW t \in FileThreads, KeepFile(t) PROVE InodeTrue'
  <2> DEFINE next == IF mine[t] = -1 THEN "idle" ELSE IF stb[t] = 0 THEN "restat" ELSE "save"
  <2>1. /\ fpc[t] = "keep" /\ fpc' = [fpc EXCEPT ![t] = next]
        /\ static'.fd = mine[t] /\ static'.ino = static.ino
        /\ crowded' = (crowded \/ Others(t)) /\ mine' = [mine EXCEPT ![t] = -1]
        /\ UNCHANGED <<atPath, created, open, stb, raced, fileFaults>>
    BY <1>11 DEF KeepFile, fileBounds
  <2>2. Trusted' => Trusted
    BY <2>1 DEF Trusted
  <2>3. Trusted' /\ mine[t] # -1 => Usable'
    BY <2>1, <2>2 DEF Usable, OpenedTrue
  <2>4. mine[t] = -1 /\ ~crowded' => static.ino # atPath /\ \A u \in FileThreads : fpc'[u] = "idle"
    BY <2>1 DEF Others, MovedTrue
  <2>6. mine[t] = -1 => fileFaults # 0
    <3> SUFFICES ASSUME fileFaults = 0 PROVE mine[t] # -1
      OBVIOUS
    <3>1. PICK m \in Nat : \A u \in FileThreads : fpc[u] = "keep" => mine[u] \in 0 .. m
      BY DEF FewClosed
    <3> QED BY <2>1, <3>1
  <2>7. Trusted' /\ mine[t] = -1 => ~crowded'
    BY <2>1, <2>6 DEF Trusted
  <2>11. KeptTrue'
    BY <2>1, <2>3, <2>4, <2>7 DEF KeptTrue
  <2>12. SavedTrue'
    BY <2>1, <2>3, <2>4, <2>7 DEF SavedTrue
  <2>13. FoundTrue'
    BY <2>1, <2>2, <2>3, <2>4, <2>7 DEF FoundTrue, OpenedTrue
  <2>14. MovedTrue'
    BY <2>1 DEF MovedTrue
  <2>15. OpenedTrue'
    BY <2>1, <2>2 DEF OpenedTrue
  <2> QED BY <2>11, <2>12, <2>13, <2>14, <2>15
<1>5. ASSUME NEW t \in FileThreads, RestatFile(t) PROVE InodeTrue'
  <2>11. KeptTrue'
    BY <1>5 DEF RestatFile, ghosts, fileBounds, Usable, Trusted, KeptTrue
  <2>12. SavedTrue'
    BY <1>5 DEF RestatFile, ghosts, fileBounds, Usable, Trusted, SavedTrue, FoundTrue
  <2>13. FoundTrue' /\ OpenedTrue'
    BY <1>5 DEF RestatFile, ghosts, fileBounds, Usable, Trusted, FoundTrue, OpenedTrue
  <2>14. MovedTrue'
    BY <1>5 DEF RestatFile, ghosts, fileBounds, MovedTrue
  <2> QED BY <2>11, <2>12, <2>13, <2>14
<1>6. ASSUME NEW t \in FileThreads, SaveInode(t) PROVE InodeTrue'
  <2>11. KeptTrue'
    BY <1>6 DEF SaveInode, ghosts, fileBounds, Usable, Trusted, KeptTrue, SavedTrue
  <2>12. SavedTrue'
    BY <1>6 DEF SaveInode, ghosts, fileBounds, Usable, Trusted, SavedTrue
  <2>13. FoundTrue' /\ OpenedTrue'
    BY <1>6 DEF SaveInode, ghosts, fileBounds, Usable, Trusted, FoundTrue, OpenedTrue
  <2>14. MovedTrue'
    BY <1>6 DEF SaveInode, ghosts, fileBounds, Others, MovedTrue
  <2> QED BY <2>11, <2>12, <2>13, <2>14
<1>7. ASSUME NEW t \in FileThreads, WriteFile(t) PROVE InodeTrue'
  <2>11. KeptTrue'
    BY <1>7 DEF WriteFile, ghosts, fileBounds, Usable, Trusted, KeptTrue
  <2>12. SavedTrue'
    BY <1>7 DEF WriteFile, ghosts, fileBounds, Usable, Trusted, SavedTrue
  <2>13. FoundTrue' /\ OpenedTrue'
    BY <1>7 DEF WriteFile, ghosts, fileBounds, Usable, Trusted, FoundTrue, OpenedTrue
  <2>14. MovedTrue'
    BY <1>7 DEF WriteFile, ghosts, fileBounds, MovedTrue
  <2> QED BY <2>11, <2>12, <2>13, <2>14
<1>8. ASSUME MoveAway PROVE InodeTrue'
  <2>1. /\ raced' = (raced \/ \E t \in FileThreads : fpc[t] \in {"keep", "restat"})
        /\ atPath' \in {0, created + 1}
        /\ UNCHANGED <<open, static, fpc, stb, mine, crowded, fileFaults>>
    BY <1>8 DEF MoveAway
  <2>2. Trusted' => \A t \in FileThreads : fpc[t] \notin {"keep", "restat"}
    BY <2>1 DEF Trusted
  <2>3. static.ino # atPath' /\ \A t \in FileThreads : fpc[t] = "save" => stb[t] # atPath'
    BY <2>1
  <2>11. KeptTrue' /\ SavedTrue'
    BY <2>1, <2>3 DEF KeptTrue, SavedTrue
  <2>12. FoundTrue' /\ OpenedTrue'
    BY <2>1, <2>2 DEF FoundTrue, OpenedTrue
  <2>14. MovedTrue'
    BY <2>1, <2>3 DEF MovedTrue
  <2> QED BY <2>11, <2>12, <2>14
<1>9. ASSUME OtherOpens PROVE InodeTrue'
  <2> DEFINE d == LowestFree
  <2>1. /\ d \in Nat /\ d \notin DOMAIN open
        /\ DOMAIN open' = DOMAIN open \cup {d} /\ open'[d] = 0
        /\ \A e \in DOMAIN open : open'[e] = open[e]
    BY <1>9, OpenedFile DEF OtherOpens
  <2> HIDE DEF d
  <2>2. /\ crowded' = (crowded \/ \E t \in FileThreads : fpc[t] \in {"open", "keep"}) /\ fileFaults' > 0
        /\ UNCHANGED <<atPath, created, static, fpc, stb, mine, raced>>
    BY <1>9 DEF OtherOpens
  <2>3. Trusted' => Trusted /\ ~crowded /\ \A t \in FileThreads : fpc[t] \notin {"open", "keep"}
    BY <2>2 DEF Trusted
  <2>4. Trusted' => (Usable => Usable')
    BY <2>1, <2>2, <2>3 DEF Usable, OneDescriptor
  <2>11. KeptTrue'
    BY <2>2, <2>3, <2>4 DEF KeptTrue
  <2>12. SavedTrue'
    BY <2>2, <2>3, <2>4 DEF SavedTrue
  <2>13. FoundTrue' /\ OpenedTrue'
    BY <2>2, <2>3, <2>4 DEF FoundTrue, OpenedTrue
  <2>14. MovedTrue'
    BY <2>2 DEF MovedTrue
  <2> QED BY <2>11, <2>12, <2>13, <2>14
<1>10. CASE UNCHANGED zfVars
  BY <1>10 DEF zfVars, KeptTrue, OpenedTrue, SavedTrue, FoundTrue, MovedTrue, Usable, Trusted
<1> QED BY <1>1, <1>2, <1>3, <1>4, <1>5, <1>6, <1>7, <1>8, <1>9, <1>10, <1>11 DEF FileNext

\* The closed descriptors as before: the same are open, and the same threads open one.
LEMMA SameClosed ==
    ASSUME FewClosed, open' = open, Openers' = Openers, fileFaults' = fileFaults,
           static'.fd = static.fd \/ (\E t \in FileThreads : fpc[t] = "keep" /\ static'.fd = mine[t]),
           \A t \in FileThreads : fpc'[t] = "keep" => fpc[t] = "keep" /\ mine'[t] = mine[t]
    PROVE  FewClosed'
<1> SUFFICES ASSUME fileFaults' = 0 PROVE FewClosed'
  BY DEF FewClosed
<1>1. PICK m \in Nat :
            /\ static.fd \in 0 .. m /\ DOMAIN open \subseteq 0 .. m
            /\ \A t \in FileThreads : fpc[t] = "keep" => mine[t] \in 0 .. m
            /\ Cardinality((0 .. m) \ DOMAIN open) <= Cardinality(Openers)
  BY DEF FewClosed
<1>2. /\ static'.fd \in 0 .. m /\ DOMAIN open' \subseteq 0 .. m
      /\ \A t \in FileThreads : fpc'[t] = "keep" => mine'[t] \in 0 .. m
      /\ Cardinality((0 .. m) \ DOMAIN open') <= Cardinality(Openers')
  BY <1>1
<1> QED BY <1>2 DEF FewClosed

LEMMA FewNumbers ==
    ASSUME NEW m \in Nat
    PROVE  IsFiniteSet((0 .. m) \ DOMAIN open) /\ Cardinality((0 .. m) \ DOMAIN open) \in Nat
<1>1. IsFiniteSet(0 .. m)
  BY FS_Interval
<1>2. IsFiniteSet((0 .. m) \ DOMAIN open)
  BY <1>1, FS_Subset
<1> QED BY <1>2, FS_CardinalityType

LEMMA FileClosedStep == FileIInv /\ [FileNext]_zfVars => FewClosed'
<1> SUFFICES ASSUME FileIInv, [FileNext]_zfVars PROVE FewClosed'
  OBVIOUS
<1> USE DEF FileIInv, FilesTyped, FileTypeOK, Step
<1>0. IsFiniteSet(Openers) /\ Cardinality(Openers) \in Nat
  BY FileAssumption, FS_Subset, FS_CardinalityType DEF Openers
<1>1. ASSUME NEW t \in FileThreads, StatFile(t) PROVE FewClosed'
  BY <1>1, SameClosed DEF StatFile, Openers, ghosts, fileBounds
<1>2. ASSUME NEW t \in FileThreads, CloseFile(t) PROVE FewClosed'
  <2>1. /\ DOMAIN open' = DOMAIN open \ {static.fd}
        /\ UNCHANGED <<static, mine, fileFaults>>
        /\ fpc[t] = "close" /\ fpc' = [fpc EXCEPT ![t] = "open"]
    BY <1>2 DEF CloseFile, fileBounds
  <2>2. Openers' = Openers \cup {t} /\ t \notin Openers
    BY <2>1 DEF Openers
  <2>3. Cardinality(Openers') = Cardinality(Openers) + 1
    BY <1>0, <2>2, FS_AddElement
  <2> SUFFICES ASSUME fileFaults' = 0 PROVE FewClosed'
    BY DEF FewClosed
  <2>4. PICK m \in Nat :
            /\ static.fd \in 0 .. m /\ DOMAIN open \subseteq 0 .. m
            /\ \A u \in FileThreads : fpc[u] = "keep" => mine[u] \in 0 .. m
            /\ Cardinality((0 .. m) \ DOMAIN open) <= Cardinality(Openers)
    BY <2>1 DEF FewClosed
  <2> DEFINE H == (0 .. m) \ DOMAIN open
  <2>5. IsFiniteSet(H) /\ Cardinality(H) \in Nat
    BY FewNumbers
  <2>6. (0 .. m) \ DOMAIN open' = H \cup {static.fd}
    BY <2>1, <2>4
  <2>7. Cardinality(H \cup {static.fd}) <= Cardinality(H) + 1
    <3> HIDE DEF H
    <3>1. Cardinality(H \cup {static.fd}) = IF static.fd \in H THEN Cardinality(H) ELSE Cardinality(H) + 1
      BY <2>5, FS_AddElement
    <3> QED BY <2>5, <3>1
  <2>8. Cardinality((0 .. m) \ DOMAIN open') <= Cardinality(Openers')
    <3>1. Cardinality(H) <= Cardinality(Openers)
      BY <2>4
    <3>2. Cardinality(H \cup {static.fd}) \in Nat
      <4> HIDE DEF H
      <4>1. IsFiniteSet(H \cup {static.fd})
        BY <2>5, FS_AddElement
      <4> QED BY <4>1, FS_CardinalityType
    <3> HIDE DEF H
    <3> QED BY <1>0, <2>3, <2>5, <2>6, <2>7, <3>1, <3>2
  <2>9. /\ static'.fd \in 0 .. m /\ DOMAIN open' \subseteq 0 .. m
        /\ \A u \in FileThreads : fpc'[u] = "keep" => mine'[u] \in 0 .. m
    BY <2>1, <2>4
  <2> QED BY <2>8, <2>9 DEF FewClosed
<1>3. ASSUME NEW t \in FileThreads, OpenFile(t) PROVE FewClosed'
  <2>1. PICK d \in Nat :
               /\ d = LowestFree /\ d \notin DOMAIN open
               /\ DOMAIN open' = DOMAIN open \cup {d}
               /\ fpc[t] = "open" /\ fpc' = [fpc EXCEPT ![t] = "keep"]
               /\ mine' = [mine EXCEPT ![t] = d]
               /\ UNCHANGED <<static, fileFaults>>
    <3> HIDE DEF FilesTyped
    <3>1. FilesTyped
      BY DEF FileIInv
    <3> QED BY <1>3, <3>1, OpenStepped DEF fileBounds
  <2>2. Openers' = Openers \ {t} /\ t \in Openers
    BY <2>1 DEF Openers
  <2>3. Cardinality(Openers') = Cardinality(Openers) - 1 /\ Cardinality(Openers') \in Nat
    <3>1. IsFiniteSet(Openers \ {t}) /\ Cardinality(Openers \ {t}) = Cardinality(Openers) - 1
      BY <1>0, <2>2, FS_RemoveElement
    <3> QED BY <2>2, <3>1, FS_CardinalityType
  <2> SUFFICES ASSUME fileFaults' = 0 PROVE FewClosed'
    BY DEF FewClosed
  <2>4. PICK m \in Nat :
            /\ static.fd \in 0 .. m /\ DOMAIN open \subseteq 0 .. m
            /\ \A u \in FileThreads : fpc[u] = "keep" => mine[u] \in 0 .. m
            /\ Cardinality((0 .. m) \ DOMAIN open) <= Cardinality(Openers)
    BY <2>1 DEF FewClosed
  <2>5. \A e \in 0 .. d - 1 : e \in DOMAIN open
    <3>1. IsFiniteSet(DOMAIN open) /\ DOMAIN open \subseteq Nat
      OBVIOUS
    <3> HIDE DEF FilesTyped, FileIInv
    <3> QED BY <2>1, <3>1, LowestIsFree
  <2> DEFINE H == (0 .. m) \ DOMAIN open
  <2>6. IsFiniteSet(H) /\ Cardinality(H) \in Nat
    BY FewNumbers
  <2>7. CASE d \in 0 .. m
    <3>1. d \in H
      BY <2>1, <2>7
    <3>2. (0 .. m) \ DOMAIN open' = H \ {d}
      BY <2>1
    <3>3. Cardinality(H) <= Cardinality(Openers)
      BY <2>4
    <3>4. Cardinality((0 .. m) \ DOMAIN open') = Cardinality(H) - 1
      <4> HIDE DEF H
      <4> QED BY <2>6, <3>1, <3>2, FS_RemoveElement
    <3>5. Cardinality((0 .. m) \ DOMAIN open') <= Cardinality(Openers')
      <4> HIDE DEF H
      <4> QED BY <1>0, <2>3, <2>6, <3>3, <3>4
    <3>6. /\ static'.fd \in 0 .. m /\ DOMAIN open' \subseteq 0 .. m
          /\ \A u \in FileThreads : fpc'[u] = "keep" => mine'[u] \in 0 .. m
      BY <2>1, <2>4, <2>7
    <3> QED BY <3>5, <3>6 DEF FewClosed
  <2>8. CASE d \notin 0 .. m
    <3>1. 0 .. m \subseteq DOMAIN open
      BY <2>5, <2>8
    <3>2. d = m + 1
      <4>1. m + 1 \notin DOMAIN open
        BY <2>4
      <4>2. ~(m + 1 \in 0 .. d - 1)
        BY <2>5, <4>1
      <4> QED BY <2>8, <4>2
    <3>3. (0 .. d) \ DOMAIN open' = {}
      BY <2>1, <2>5
    <3>4. Cardinality((0 .. d) \ DOMAIN open') <= Cardinality(Openers')
      BY <2>3, <3>3, FS_EmptySet
    <3>5. /\ static'.fd \in 0 .. d /\ DOMAIN open' \subseteq 0 .. d
          /\ \A u \in FileThreads : fpc'[u] = "keep" => mine'[u] \in 0 .. d
      BY <2>1, <2>4, <3>2
    <3> QED BY <3>4, <3>5 DEF FewClosed
  <2> QED BY <2>7, <2>8
<1>4. ASSUME NEW t \in FileThreads, OpenFails(t) PROVE FewClosed'
  BY <1>4 DEF OpenFails, FewClosed
<1>11. ASSUME NEW t \in FileThreads, KeepFile(t) PROVE FewClosed'
  BY <1>11, SameClosed DEF KeepFile, Openers, ghosts, fileBounds
<1>5. ASSUME NEW t \in FileThreads, RestatFile(t) PROVE FewClosed'
  BY <1>5, SameClosed DEF RestatFile, Openers, ghosts, fileBounds
<1>6. ASSUME NEW t \in FileThreads, SaveInode(t) PROVE FewClosed'
  BY <1>6, SameClosed DEF SaveInode, Openers, ghosts, fileBounds
<1>7. ASSUME NEW t \in FileThreads, WriteFile(t) PROVE FewClosed'
  BY <1>7, SameClosed DEF WriteFile, Openers, ghosts, fileBounds
<1>8. ASSUME MoveAway PROVE FewClosed'
  BY <1>8, SameClosed DEF MoveAway, Openers, ghosts, fileBounds
<1>9. ASSUME OtherOpens PROVE FewClosed'
  BY <1>9 DEF OtherOpens, FewClosed
<1>10. CASE UNCHANGED zfVars
  BY <1>10, SameClosed DEF zfVars, Openers
<1> QED BY <1>1, <1>2, <1>3, <1>4, <1>5, <1>6, <1>7, <1>8, <1>9, <1>10, <1>11 DEF FileNext

LEMMA FileDescriptorStep == FileIInv /\ [FileNext]_zfVars => OneDescriptor'
<1> SUFFICES ASSUME FileIInv, [FileNext]_zfVars PROVE OneDescriptor'
  OBVIOUS
<1> USE DEF FileIInv, FilesTyped, FileTypeOK, Step, OneDescriptor
<1>1. ASSUME NEW t \in FileThreads, StatFile(t) PROVE OneDescriptor'
  BY <1>1 DEF StatFile, ghosts, fileBounds
<1>2. ASSUME NEW t \in FileThreads, CloseFile(t) PROVE OneDescriptor'
  <2>1. /\ DOMAIN open' = DOMAIN open \ {static.fd}
        /\ \A e \in DOMAIN open' : open'[e] = open[e]
        /\ UNCHANGED <<static, mine>>
        /\ fpc[t] = "close" /\ fpc' = [fpc EXCEPT ![t] = "open"]
        /\ crowded' = (crowded \/ Others(t))
        /\ astray' = (astray \/ (static.fd \in DOMAIN open /\ open[static.fd] = 0))
    BY <1>2 DEF CloseFile
  <2>2. ~crowded' => ~crowded /\ \A u \in FileThreads \ {t} : fpc[u] = "idle"
    BY <2>1 DEF Others
  <2> QED BY <2>1, <2>2
<1>3. ASSUME NEW t \in FileThreads, OpenFile(t) PROVE OneDescriptor'
  <2>1. PICK f \in Nat \ {0}, d \in Nat :
               /\ d \notin DOMAIN open
               /\ DOMAIN open' = DOMAIN open \cup {d} /\ open'[d] = f
               /\ \A e \in DOMAIN open : open'[e] = open[e]
               /\ fpc[t] = "open" /\ fpc' = [fpc EXCEPT ![t] = "keep"]
               /\ mine' = [mine EXCEPT ![t] = d]
               /\ UNCHANGED <<static, stb, ghosts, fileBounds>>
    <3> HIDE DEF FilesTyped
    <3>1. FilesTyped
      BY DEF FileIInv
    <3> QED BY <1>3, <3>1, OpenStepped
  <2>2. crowded' = crowded /\ astray' = astray
    BY <2>1 DEF ghosts
  <2> QED BY <2>1, <2>2
<1>4. ASSUME NEW t \in FileThreads, OpenFails(t) PROVE OneDescriptor'
  BY <1>4 DEF OpenFails, ghosts, fileBounds
<1>11. ASSUME NEW t \in FileThreads, KeepFile(t) PROVE OneDescriptor'
  <2>1. /\ fpc[t] = "keep" /\ fpc'[t] \in {"idle", "restat", "save"}
        /\ \A u \in FileThreads \ {t} : fpc'[u] = fpc[u]
        /\ static'.fd = mine[t]
        /\ crowded' = (crowded \/ Others(t))
        /\ UNCHANGED <<open, astray>>
    BY <1>11 DEF KeepFile
  <2>2. ~crowded' => ~crowded /\ \A u \in FileThreads \ {t} : fpc[u] = "idle"
    BY <2>1 DEF Others
  <2> QED BY <2>1, <2>2
<1>5. ASSUME NEW t \in FileThreads, RestatFile(t) PROVE OneDescriptor'
  BY <1>5 DEF RestatFile, ghosts, fileBounds
<1>6. ASSUME NEW t \in FileThreads, SaveInode(t) PROVE OneDescriptor'
  BY <1>6 DEF SaveInode, ghosts, fileBounds
<1>7. ASSUME NEW t \in FileThreads, WriteFile(t) PROVE OneDescriptor'
  <2>1. /\ fpc[t] = "write" /\ fpc' = [fpc EXCEPT ![t] = "idle"]
        /\ astray' = (astray \/ (static.fd \in DOMAIN open /\ open[static.fd] = 0))
        /\ UNCHANGED <<open, static, mine, crowded>>
    BY <1>7 DEF WriteFile
  <2>2. ~crowded => ~(static.fd \in DOMAIN open /\ open[static.fd] = 0)
    OBVIOUS
  <2> QED BY <2>1, <2>2
<1>8. ASSUME MoveAway PROVE OneDescriptor'
  BY <1>8 DEF MoveAway, ghosts, fileBounds
<1>9. ASSUME OtherOpens PROVE OneDescriptor'
  <2> DEFINE d == LowestFree
  <2>1. /\ d \in Nat /\ d \notin DOMAIN open
        /\ DOMAIN open' = DOMAIN open \cup {d} /\ open'[d] = 0
        /\ \A e \in DOMAIN open : open'[e] = open[e]
    BY <1>9, OpenedFile DEF OtherOpens
  <2> HIDE DEF d
  <2> SUFFICES ASSUME ~crowded' PROVE OneDescriptor'
    BY DEF OneDescriptor
  <2>2. /\ ~crowded /\ \A t \in FileThreads : fpc[t] \notin {"open", "keep"}
        /\ static' = static /\ fpc' = fpc /\ astray' = astray
    BY <1>9 DEF OtherOpens
  <2>3. d # static.fd
    BY <2>1, <2>2
  <2> QED BY <2>1, <2>2, <2>3
<1>10. CASE UNCHANGED zfVars
  BY <1>10 DEF zfVars
<1> QED BY <1>1, <1>2, <1>3, <1>4, <1>5, <1>6, <1>7, <1>8, <1>9, <1>10, <1>11 DEF FileNext

LEMMA FileInductive == FileIInv /\ [FileNext]_zfVars => FileIInv'
BY FileTypedStep, FileInodeStep, FileClosedStep, FileDescriptorStep DEF FileIInv

LEMMA FileMeans == FileIInv => FileSound
<1> SUFFICES ASSUME FileIInv PROVE FileSound
  OBVIOUS
<1> USE DEF FileIInv
<1>1. InodeTellsTruth
  <2> SUFFICES ASSUME Resting, ~raced, ~(crowded /\ fileFaults > 0), static.ino = atPath
               PROVE  static.fd \in DOMAIN open /\ open[static.fd] = atPath
    BY DEF InodeTellsTruth
  <2>1. Usable /\ created = atPath
    BY DEF InodeTrue, KeptTrue, Trusted, FilesTyped, FileTypeOK
  <2>2. \A t \in FileThreads : fpc[t] \notin {"open", "keep"}
    BY DEF Resting
  <2>3. CASE fileFaults = 0
    <3>1. PICK m \in Nat : static.fd \in 0 .. m /\ Cardinality((0 .. m) \ DOMAIN open) <= Cardinality(Openers)
      BY <2>3 DEF FewClosed
    <3>2. Openers = {}
      BY <2>2 DEF Openers
    <3>3. IsFiniteSet((0 .. m) \ DOMAIN open)
      BY FewNumbers
    <3>4. (0 .. m) \ DOMAIN open = {}
      <4>1. Cardinality((0 .. m) \ DOMAIN open) \in Nat
        BY <3>3, FS_CardinalityType
      <4> QED BY <3>1, <3>2, <3>3, <4>1, FS_EmptySet
    <3> QED BY <2>1, <3>1, <3>4 DEF Usable
  <2>4. CASE fileFaults # 0
    <3>1. ~crowded
      BY <2>4 DEF FilesTyped
    <3>2. static.fd \in DOMAIN open \cup {-1}
      BY <2>2, <3>1 DEF OneDescriptor
    <3> QED BY <2>1, <3>2 DEF Usable
  <2> QED BY <2>3, <2>4
<1>2. OwnDescriptorOnly
  <2> SUFFICES ASSUME ~crowded
               PROVE  ~astray /\ Cardinality({d \in DOMAIN open : open[d] # 0}) <= 1
    BY DEF OwnDescriptorOnly
  <2> DEFINE Ours == {d \in DOMAIN open : open[d] # 0}
  <2>1. \E x : Ours \subseteq {x}
    BY DEF OneDescriptor, FilesTyped
  <2>2. PICK x : Ours \subseteq {x}
    BY <2>1
  <2>3. IsFiniteSet({x}) /\ Cardinality({x}) = 1
    BY FS_Singleton
  <2> HIDE DEF Ours
  <2>4. Cardinality(Ours) <= 1
    BY <2>2, <2>3, FS_Subset
  <2> QED BY <2>4 DEF OneDescriptor, Ours
<1> QED BY <1>1, <1>2 DEF FileSound, FilesTyped

\* For any number of threads, messages, moves and failures: when all are through, an inode
\* that is the path's is of the file that is open, unless the file was moved between an open
\* and the store of its descriptor or the stat after it; and as long as no two threads are
\* in the function at once a message goes to a descriptor of the rule's own
\* (zlog_rule_output_static_file_single).
THEOREM FileHolds == FileSpec => []FileSound
<1>1. FileInit => FileIInv
  BY FileInitially
<1>2. FileIInv /\ [FileNext]_zfVars => FileIInv'
  BY FileInductive
<1>3. FileIInv => FileSound
  BY FileMeans
<1> QED BY <1>1, <1>2, <1>3, PTL DEF FileSpec

-----------------------------------------------------------------------------
(***************************************************************************)
(* The outputs of the rules and the descriptors of the process.            *)
(***************************************************************************)

RuleRecs == [id : Nat, kind : RuleKinds, static : 0 .. FdLimit - 1, pipe : 0 .. FdLimit - 1,
             count : Nat, late : Nat]
WorkRecs == [pc : {"idle", "open", "write", "load", "store", "zero", "sync", "close"},
             rule : Nat, fd : -1 .. FdLimit - 1, count : Nat]

FdsTyped ==
    /\ ids \in Nat /\ DOMAIN fds \subseteq 0 .. FdLimit - 1
    /\ \A d \in DOMAIN fds : fds[d] \in {Program, Lost} \cup RuleThreads \cup 1 .. ids
    /\ \A d \in Terminal : d \in DOMAIN fds /\ fds[d] = Program

BothTyped ==
    /\ rules \in Seq(RuleRecs) /\ fresh \in Seq(RuleRecs)
    /\ confState \in {"none", "building", "ready"} /\ (confState = "ready" => served)
    /\ confState # "building" => fresh = <<>>

\* A thread that is at work has a rule in use, and the descriptor of a file
\* that is opened for each message is its own until it is closed.
WorksTrue ==
    /\ works \in [RuleThreads -> WorkRecs]
    /\ \A t \in RuleThreads : works[t].pc \in {"idle", "open"} => works[t].fd = -1
    /\ \A t \in RuleThreads : works[t].pc # "idle" =>
          /\ confState = "ready" /\ works[t].rule \in 1 .. Len(rules)
          /\ RuleOf(t).kind \in Reopening =>
                works[t].fd = -1 \/ (works[t].fd \in DOMAIN fds /\ fds[works[t].fd] = t)
          /\ RuleOf(t).kind \notin Reopening =>
                works[t].fd = RuleOf(t).static /\ RuleOf(t).kind = "single"

\* A rule has what it opened.
Keeps(r) ==
    /\ r.id \in 1 .. ids
    /\ r.kind \in FileKinds => r.static \in DOMAIN fds /\ fds[r.static] = r.id
    /\ r.kind = "pipe" => r.pipe \in DOMAIN fds /\ fds[r.pipe] = r.id
    /\ r.static # 0 => r.kind \in FileKinds

AllKeep ==
    /\ \A i \in 1 .. Len(rules) : Keeps(rules[i])
    /\ \A i \in 1 .. Len(fresh) : Keeps(fresh[i])
    /\ \A i \in 1 .. Len(rules), j \in 1 .. Len(fresh) : rules[i].id # fresh[j].id

\* What is open for a rule is what the rule closes.
OpenFor(r, d) ==
    /\ fds[d] = r.id
    /\ \/ r.kind \in FileKinds /\ d = r.static
       \/ r.kind = "pipe" /\ d = r.pipe

Accounted ==
    \A d \in DOMAIN fds \ {0} :
        \/ fds[d] = Program
        \/ \E i \in 1 .. Len(rules) : OpenFor(rules[i], d)
        \/ \E i \in 1 .. Len(fresh) : OpenFor(fresh[i], d)
        \/ \E t \in RuleThreads : fds[d] = t /\ works[t].fd = d

RuleIInv == FdsTyped /\ BothTyped /\ WorksTrue /\ AllKeep /\ Accounted


-----------------------------------------------------------------------------
\* A rule of a sequence of rules is a rule.
LEMMA RuleIs ==
  ASSUME NEW rs \in Seq(RuleRecs), NEW i \in 1 .. Len(rs)
  PROVE  /\ rs[i] \in RuleRecs /\ rs[i].id \in Nat /\ rs[i].kind \in RuleKinds
         /\ rs[i].static \in 0 .. FdLimit - 1 /\ rs[i].pipe \in 0 .. FdLimit - 1
         /\ rs[i].count \in Nat /\ rs[i].late \in Nat
<1>1. rs[i] \in RuleRecs
  OBVIOUS
<1> QED
  BY <1>1 DEF RuleRecs

\* A rule closes its file, unless that is descriptor 0, and its pipe.
Closes(r, d) ==
    \/ r.static # 0 /\ d = r.static
    \/ r.kind = "pipe" /\ d = r.pipe

LEMMA ClosedIs ==
  ASSUME NEW rs \in Seq(RuleRecs), NEW d
  PROVE  d \in ClosedBy(rs) <=> \E i \in 1 .. Len(rs) : Closes(rs[i], d)
<1>1. ToSet(rs) = {rs[i] : i \in 1 .. Len(rs)}
  BY DEF ToSet
<1> QED
  BY <1>1, Zenon DEF ClosedBy, Closes

LEMMA ClosedWith ==
  ASSUME NEW rs \in Seq(RuleRecs), NEW x, NEW d
  PROVE  d \in ClosedBy(<<x>> \o rs) <=> (Closes(x, d) \/ d \in ClosedBy(rs))
<1> DEFINE all == <<x>> \o rs
<1>1. Len(all) = Len(rs) + 1 /\ DOMAIN all = 1 .. Len(rs) + 1 /\ all[1] = x
      /\ \A i \in 1 .. Len(rs) : all[i + 1] = rs[i]
  OBVIOUS
<1>2. ToSet(all) = {x} \cup ToSet(rs)
  <2>1. \A y \in ToSet(all) : y \in {x} \cup ToSet(rs)
    <3> SUFFICES ASSUME NEW i \in 1 .. Len(rs) + 1 PROVE all[i] \in {x} \cup ToSet(rs)
      BY <1>1 DEF ToSet
    <3>1. CASE i = 1
      BY <3>1, <1>1
    <3>2. CASE i # 1
      <4>1. i - 1 \in 1 .. Len(rs) /\ i = (i - 1) + 1
        BY <3>2
      <4>2. all[i] = rs[i - 1]
        BY <4>1, <1>1
      <4> QED BY <4>1, <4>2 DEF ToSet
    <3> QED BY <3>1, <3>2
  <2>2. x \in ToSet(all)
    BY <1>1 DEF ToSet
  <2>3. \A y \in ToSet(rs) : y \in ToSet(all)
    <3> SUFFICES ASSUME NEW i \in 1 .. Len(rs) PROVE rs[i] \in ToSet(all)
      BY DEF ToSet
    <3>1. i + 1 \in DOMAIN all /\ all[i + 1] = rs[i]
      BY <1>1
    <3> QED BY <3>1 DEF ToSet
  <2> QED BY <2>1, <2>2, <2>3
<1> HIDE DEF all
<1>3. \A y : y \in ToSet(all) <=> y = x \/ y \in ToSet(rs)
  BY <1>2
<1>4. d \in ClosedBy(all) <=> \E y \in ToSet(all) : Closes(y, d)
  BY Zenon DEF ClosedBy, Closes
<1>5. d \in ClosedBy(rs) <=> \E y \in ToSet(rs) : Closes(y, d)
  BY Zenon DEF ClosedBy, Closes
<1>6. d \in ClosedBy(all) <=> (Closes(x, d) \/ d \in ClosedBy(rs))
  BY <1>3, <1>4, <1>5, Zenon
<1> QED
  BY <1>6 DEF all

\* The lowest descriptor is free.
LEMMA FdIsFree ==
  ASSUME RuleAssumption, FreeFds # {}
  PROVE  LowestFd \in 0 .. FdLimit - 1 /\ LowestFd \notin DOMAIN fds
<1>1. FreeFds \subseteq Nat
  BY DEF FreeFds
<1>2. \E d \in FreeFds : \A e \in FreeFds : d <= e
  BY <1>1, NatMin
<1>3. LowestFd \in FreeFds
  BY <1>2 DEF LowestFd
<1> QED
  BY <1>3 DEF FreeFds

\* A descriptor more, and some less.
LEMMA WithFd ==
  ASSUME NEW d, NEW who, fds' = With(d, who), d \notin DOMAIN fds
  PROVE  /\ DOMAIN fds' = DOMAIN fds \cup {d} /\ fds'[d] = who
         /\ \A e \in DOMAIN fds : e \in DOMAIN fds' /\ e # d /\ fds'[e] = fds[e]
  BY DEF With

LEMMA FdsLess ==
  ASSUME NEW ds, fds' = WithoutFds(ds)
  PROVE  /\ \A e : e \in DOMAIN fds' <=> e \in DOMAIN fds /\ e \notin ds
         /\ \A e \in DOMAIN fds' : fds'[e] = fds[e]
  BY DEF WithoutFds

-----------------------------------------------------------------------------
\* Of a sequence of rules that have what they opened, what is open and closed
\* with them is theirs, and what is open for one of them is closed.
LEMMA ClosedTheirs ==
  ASSUME NEW rs \in Seq(RuleRecs), \A i \in 1 .. Len(rs) : Keeps(rs[i]),
         NEW d \in DOMAIN fds, d \in ClosedBy(rs)
  PROVE  \E i \in 1 .. Len(rs) : fds[d] = rs[i].id /\ rs[i].id \in 1 .. ids
<1>1. PICK i \in 1 .. Len(rs) : Closes(rs[i], d)
  BY ClosedIs
<1>2. Keeps(rs[i])
  OBVIOUS
<1> QED
  BY <1>1, <1>2 DEF Closes, Keeps

LEMMA OpenCloses ==
  ASSUME NEW rs \in Seq(RuleRecs), NEW i \in 1 .. Len(rs), NEW d \in DOMAIN fds \ {0}, OpenFor(rs[i], d)
  PROVE  d \in ClosedBy(rs)
<1>1. Closes(rs[i], d)
  BY DEF OpenFor, Closes
<1> QED
  BY <1>1, ClosedIs

-----------------------------------------------------------------------------
LEMMA RuleInitially == RuleAssumption /\ RuleInit => RuleIInv
<1> SUFFICES ASSUME RuleAssumption, RuleInit PROVE RuleIInv
  OBVIOUS
<1> USE RuleAssumption DEF RuleInit
<1>1. FdsTyped
  BY DEF FdsTyped
<1>2. BothTyped
  BY DEF BothTyped
<1>3. WorksTrue
  BY DEF WorksTrue, WorkRecs, NoWork
<1>4. AllKeep
  BY DEF AllKeep
<1>5. Accounted
  BY DEF Accounted
<1> QED BY <1>1, <1>2, <1>3, <1>4, <1>5 DEF RuleIInv

\* The invariant in another state with the same owners, and the same of each rule but
\* for its counts.
SameOutput(r, s) == s.id = r.id /\ s.kind = r.kind /\ s.static = r.static /\ s.pipe = r.pipe

LEMMA AllIdleThen ==
  ASSUME RuleIInv, confState # "ready" \/ AllIdle
  PROVE  \A t \in RuleThreads : works[t].pc = "idle" /\ works[t].fd = -1
  BY DEF RuleIInv, WorksTrue, AllIdle

LEMMA IdleTrue ==
  ASSUME RuleIInv, works' = works, AllIdle
  PROVE  WorksTrue'
  BY DEF RuleIInv, WorksTrue, AllIdle

\* What is less opens when rules go that no rule in use shares a descriptor with.
LEMMA LessFds ==
  ASSUME RuleIInv, RuleAssumption, NEW gone \in Seq(RuleRecs), \A i \in 1 .. Len(gone) : Keeps(gone[i]),
         \A e \in DOMAIN fds : e \in DOMAIN fds' <=> e \notin ClosedBy(gone),
         \A e \in DOMAIN fds' : IF e \in DOMAIN fds THEN fds'[e] = fds[e] ELSE e = 0 /\ fds'[e] = Lost,
         ids' = ids
  PROVE  /\ FdsTyped'
         /\ \A r : (Keeps(r) /\ \A i \in 1 .. Len(gone) : gone[i].id # r.id) =>
               /\ r.id \in 1 .. ids'
               /\ r.kind \in FileKinds => r.static \in DOMAIN fds' /\ fds'[r.static] = r.id
               /\ r.kind = "pipe" => r.pipe \in DOMAIN fds' /\ fds'[r.pipe] = r.id
               /\ r.static # 0 => r.kind \in FileKinds
<1>1. \A d \in Terminal : d \notin ClosedBy(gone)
  <2> SUFFICES ASSUME NEW d \in Terminal, d \in ClosedBy(gone) PROVE FALSE
    OBVIOUS
  <2>1. d \in DOMAIN fds /\ fds[d] = Program
    BY DEF RuleIInv, FdsTyped
  <2>2. \E i \in 1 .. Len(gone) : fds[d] = gone[i].id /\ gone[i].id \in 1 .. ids
    BY <2>1, ClosedTheirs
  <2> QED BY <2>1, <2>2 DEF Program, RuleIInv, FdsTyped
<1>2. FdsTyped'
  <2>1. ids' \in Nat /\ DOMAIN fds' \subseteq 0 .. FdLimit - 1
    BY DEF RuleIInv, FdsTyped, RuleAssumption
  <2>2. \A d \in DOMAIN fds' : fds'[d] \in {Program, Lost} \cup RuleThreads \cup 1 .. ids'
    BY DEF RuleIInv, FdsTyped
  <2>3. \A d \in Terminal : d \in DOMAIN fds' /\ fds'[d] = Program
    BY <1>1 DEF RuleIInv, FdsTyped
  <2> QED BY <2>1, <2>2, <2>3 DEF FdsTyped
<1>3. ASSUME NEW r, Keeps(r), \A i \in 1 .. Len(gone) : gone[i].id # r.id
      PROVE  /\ r.id \in 1 .. ids'
             /\ r.kind \in FileKinds => r.static \in DOMAIN fds' /\ fds'[r.static] = r.id
             /\ r.kind = "pipe" => r.pipe \in DOMAIN fds' /\ fds'[r.pipe] = r.id
             /\ r.static # 0 => r.kind \in FileKinds
  <2>1. ASSUME NEW d \in DOMAIN fds, fds[d] = r.id PROVE d \in DOMAIN fds' /\ fds'[d] = r.id
    BY <1>3, <2>1, ClosedTheirs
  <2> QED BY <1>3, <2>1 DEF Keeps
<1> QED
  BY <1>2, <1>3

LEMMA BuildStep == RuleIInv /\ BuildConf => RuleIInv'
<1> SUFFICES ASSUME RuleIInv, BuildConf PROVE RuleIInv'
  OBVIOUS
<1> USE DEF BuildConf
<1>1. FdsTyped'
  BY DEF RuleIInv, FdsTyped
<1>2. BothTyped'
  BY DEF RuleIInv, BothTyped
<1>3. WorksTrue'
  BY IdleTrue
<1>4. AllKeep'
  BY DEF RuleIInv, AllKeep, Keeps
<1>5. Accounted'
  <2>1. fresh = <<>>
    BY DEF RuleIInv, BothTyped
  <2> QED BY <2>1 DEF RuleIInv, Accounted, OpenFor
<1> QED BY <1>1, <1>2, <1>3, <1>4, <1>5 DEF RuleIInv

\* The rule that a kind and a descriptor make.
LEMMA BlankIs ==
  ASSUME NEW kind \in RuleKinds, ids \in Nat, RuleAssumption, NEW d \in 0 .. FdLimit - 1
  PROVE  /\ BlankRule(kind) \in RuleRecs
         /\ [BlankRule(kind) EXCEPT !.pipe = d] \in RuleRecs
         /\ [BlankRule(kind) EXCEPT !.static = d] \in RuleRecs
  BY RuleAssumption DEF BlankRule, RuleRecs

LEMMA NewStep == RuleAssumption /\ RuleIInv /\ NewOutput => RuleIInv'
<1> SUFFICES ASSUME RuleAssumption, RuleIInv, NewOutput PROVE RuleIInv'
  OBVIOUS
<1> DEFINE new == fresh'[Len(fresh) + 1]
<1>1. /\ confState = "building" /\ confState' = confState /\ rules' = rules /\ served' = served
      /\ works' = works /\ ids' = ids + 1 /\ ids \in Nat /\ ids' \in Nat
  BY DEF NewOutput, Building, RuleIInv, FdsTyped
<1>2. fresh \in Seq(RuleRecs) /\ rules \in Seq(RuleRecs) /\ Len(fresh) \in Nat
  BY DEF RuleIInv, BothTyped
<1>3. PICK kind \in RuleKinds :
          IF kind \in FileKinds \cup {"pipe"}
          THEN /\ FreeFds # {}
               /\ fds' = With(LowestFd, ids + 1)
               /\ fresh' = Append(fresh, IF kind = "pipe" THEN [BlankRule(kind) EXCEPT !.pipe = LowestFd]
                                         ELSE [BlankRule(kind) EXCEPT !.static = LowestFd])
          ELSE UNCHANGED fds /\ fresh' = Append(fresh, BlankRule(kind))
  BY DEF NewOutput
<1>4. /\ fresh' \in Seq(RuleRecs) /\ Len(fresh') = Len(fresh) + 1
      /\ \A i \in 1 .. Len(fresh) : fresh'[i] = fresh[i]
      /\ new.id = ids + 1 /\ new.kind = kind
  <2>1. ASSUME NEW r \in RuleRecs, fresh' = Append(fresh, r)
        PROVE  /\ fresh' \in Seq(RuleRecs) /\ Len(fresh') = Len(fresh) + 1
               /\ \A i \in 1 .. Len(fresh) : fresh'[i] = fresh[i]
               /\ new = r
    BY <1>2, <2>1
  <2>2. CASE kind \in FileKinds \cup {"pipe"}
    <3>1. LowestFd \in 0 .. FdLimit - 1
      BY <2>2, <1>3, FdIsFree
    <3>2. CASE kind = "pipe"
      <4> DEFINE r == [BlankRule(kind) EXCEPT !.pipe = LowestFd]
      <4>1. r \in RuleRecs /\ fresh' = Append(fresh, r) /\ r.id = ids + 1 /\ r.kind = kind
        BY <1>1, <1>3, <2>2, <3>1, <3>2, BlankIs DEF BlankRule
      <4> HIDE DEF r, new
      <4> QED BY <4>1, <2>1
    <3>3. CASE kind # "pipe"
      <4> DEFINE r == [BlankRule(kind) EXCEPT !.static = LowestFd]
      <4>1. r \in RuleRecs /\ fresh' = Append(fresh, r) /\ r.id = ids + 1 /\ r.kind = kind
        BY <1>1, <1>3, <2>2, <3>1, <3>3, BlankIs DEF BlankRule
      <4> HIDE DEF r, new
      <4> QED BY <4>1, <2>1
    <3> QED BY <3>2, <3>3
  <2>3. CASE kind \notin FileKinds \cup {"pipe"}
    <3> DEFINE r == BlankRule(kind)
    <3>0. 0 \in 0 .. FdLimit - 1
      BY RuleAssumption DEF RuleAssumption
    <3>1. r \in RuleRecs /\ fresh' = Append(fresh, r) /\ r.id = ids + 1 /\ r.kind = kind
      BY <1>1, <1>3, <2>3, <3>0, BlankIs DEF BlankRule
    <3> HIDE DEF r, new
    <3> QED BY <3>1, <2>1
  <2> QED BY <2>2, <2>3
<1>5. \A d \in DOMAIN fds : d \in DOMAIN fds' /\ fds'[d] = fds[d]
  <2>1. CASE kind \in FileKinds \cup {"pipe"}
    BY <2>1, <1>3, FdIsFree, WithFd
  <2>2. CASE kind \notin FileKinds \cup {"pipe"}
    BY <2>2, <1>3
  <2> QED BY <2>1, <2>2
<1>6. /\ new.kind \in FileKinds => new.static \in DOMAIN fds' /\ fds'[new.static] = new.id
      /\ new.kind = "pipe" => new.pipe \in DOMAIN fds' /\ fds'[new.pipe] = new.id
      /\ new.static # 0 => new.kind \in FileKinds
      /\ \A d \in DOMAIN fds' \ DOMAIN fds :
            /\ d \in 0 .. FdLimit - 1 /\ fds'[d] = ids'
            /\ \/ new.kind \in FileKinds /\ d = new.static
               \/ new.kind = "pipe" /\ d = new.pipe
  <2>1. CASE kind \in FileKinds \cup {"pipe"}
    <3>1. LowestFd \in 0 .. FdLimit - 1 /\ LowestFd \notin DOMAIN fds
      BY <2>1, <1>3, FdIsFree
    <3>2. DOMAIN fds' = DOMAIN fds \cup {LowestFd} /\ fds'[LowestFd] = ids + 1
      BY <3>1, <2>1, <1>3, WithFd
    <3>3. CASE kind = "pipe"
      <4>1. new = [BlankRule(kind) EXCEPT !.pipe = LowestFd]
        BY <1>2, <1>3, <2>1, <3>3
      <4>2. new.pipe = LowestFd /\ new.static = 0
        BY <4>1 DEF BlankRule
      <4> HIDE DEF new
      <4> QED BY <4>2, <3>1, <3>2, <3>3, <1>4, <1>1 DEF FileKinds
    <3>4. CASE kind # "pipe"
      <4>1. new = [BlankRule(kind) EXCEPT !.static = LowestFd]
        BY <1>2, <1>3, <2>1, <3>4
      <4>2. new.static = LowestFd
        BY <4>1 DEF BlankRule
      <4> HIDE DEF new
      <4> QED BY <4>2, <2>1, <3>1, <3>2, <3>4, <1>4, <1>1 DEF FileKinds
    <3> QED BY <3>3, <3>4
  <2>2. CASE kind \notin FileKinds \cup {"pipe"}
    <3>1. new = BlankRule(kind)
      BY <1>2, <1>3, <2>2
    <3>2. new.static = 0
      BY <3>1 DEF BlankRule
    <3> HIDE DEF new
    <3> QED BY <3>2, <2>2, <1>3, <1>4
  <2> QED BY <2>1, <2>2
<1> HIDE DEF new
<1>7. FdsTyped'
  <2>1. DOMAIN fds' \subseteq 0 .. FdLimit - 1
    BY <1>6 DEF RuleIInv, FdsTyped
  <2>2. ASSUME NEW d \in DOMAIN fds' PROVE fds'[d] \in {Program, Lost} \cup RuleThreads \cup 1 .. ids'
    <3>1. CASE d \in DOMAIN fds
      BY <3>1, <1>5, <1>1 DEF RuleIInv, FdsTyped
    <3>2. CASE d \notin DOMAIN fds
      BY <3>2, <1>6, <1>1
    <3> QED BY <3>1, <3>2
  <2>3. \A d \in Terminal : d \in DOMAIN fds' /\ fds'[d] = Program
    BY <1>5 DEF RuleIInv, FdsTyped
  <2> QED BY <1>1, <2>1, <2>2, <2>3 DEF FdsTyped
<1>8. BothTyped'
  BY <1>1, <1>2, <1>4 DEF RuleIInv, BothTyped
<1>9. WorksTrue'
  BY <1>1 DEF RuleIInv, WorksTrue
<1>10. \A i \in 1 .. Len(fresh') : i \in 1 .. Len(fresh) \/ (i = Len(fresh) + 1 /\ fresh'[i] = new)
  BY <1>2, <1>4 DEF new
<1>11. AllKeep'
  <2>1. ASSUME NEW r, Keeps(r)
        PROVE  /\ r.id \in 1 .. ids /\ r.id \in 1 .. ids' /\ r.id # ids'
               /\ r.kind \in FileKinds => r.static \in DOMAIN fds' /\ fds'[r.static] = r.id
               /\ r.kind = "pipe" => r.pipe \in DOMAIN fds' /\ fds'[r.pipe] = r.id
               /\ r.static # 0 => r.kind \in FileKinds
    <3>1. r.id \in 1 .. ids
      BY <2>1 DEF Keeps
    <3> QED BY <3>1, <2>1, <1>1, <1>5 DEF Keeps
  <2>2. \A i \in 1 .. Len(rules') : Keeps(rules[i])' /\ rules'[i].id # ids'
    BY <2>1, <1>1 DEF RuleIInv, AllKeep, Keeps
  <2>3. ASSUME NEW i \in 1 .. Len(fresh')
        PROVE  Keeps(fresh[i])' /\ (\A j \in 1 .. Len(rules') : rules'[j].id # fresh'[i].id)
    <3>1. CASE i \in 1 .. Len(fresh)
      BY <3>1, <2>1, <1>1, <1>4 DEF RuleIInv, AllKeep, Keeps
    <3>2. CASE i = Len(fresh) + 1 /\ fresh'[i] = new
      BY <3>2, <2>2, <1>1, <1>4, <1>6 DEF Keeps
    <3> QED BY <3>1, <3>2, <1>10
  <2> QED BY <2>2, <2>3, <1>1 DEF AllKeep
<1>12. Accounted'
  <2> SUFFICES ASSUME NEW d \in DOMAIN fds' \ {0}
               PROVE  \/ fds'[d] = Program
                      \/ \E i \in 1 .. Len(rules') : OpenFor(rules[i], d)'
                      \/ \E i \in 1 .. Len(fresh') : OpenFor(fresh[i], d)'
                      \/ \E t \in RuleThreads : fds'[d] = t /\ works'[t].fd = d
    BY DEF Accounted
  <2>1. CASE d \in DOMAIN fds
    <3>1. fds'[d] = fds[d]
      BY <2>1, <1>5
    <3>2. CASE \E i \in 1 .. Len(rules) : OpenFor(rules[i], d)
      BY <3>1, <3>2, <1>1 DEF OpenFor
    <3>3. CASE \E i \in 1 .. Len(fresh) : OpenFor(fresh[i], d)
      <4>1. PICK i \in 1 .. Len(fresh) : OpenFor(fresh[i], d)
        BY <3>3
      <4>2. i \in 1 .. Len(fresh') /\ fresh'[i] = fresh[i]
        BY <1>2, <1>4
      <4> QED BY <3>1, <4>1, <4>2 DEF OpenFor
    <3> QED BY <2>1, <3>1, <3>2, <3>3, <1>1 DEF RuleIInv, Accounted
  <2>2. CASE d \notin DOMAIN fds
    <3>1. Len(fresh) + 1 \in 1 .. Len(fresh') /\ fresh'[Len(fresh) + 1] = new
      BY <1>2, <1>4 DEF new
    <3> QED BY <2>2, <3>1, <1>1, <1>4, <1>6 DEF OpenFor
  <2> QED BY <2>1, <2>2
<1> QED BY <1>7, <1>8, <1>9, <1>11, <1>12 DEF RuleIInv

-----------------------------------------------------------------------------
\* Rules go, of those being built or of those in use, with all they had opened;
\* what else is opened is lost, on descriptor 0.
LEMMA RulesGo ==
  ASSUME RuleAssumption, RuleIInv, NEW gone \in Seq(RuleRecs), NEW kept \in Seq(RuleRecs),
         \/ gone = fresh /\ kept = rules
         \/ gone = rules /\ kept = fresh,
         \A e \in DOMAIN fds : e \in DOMAIN fds' <=> e \notin ClosedBy(gone),
         \A e \in DOMAIN fds' : IF e \in DOMAIN fds THEN fds'[e] = fds[e] ELSE e = 0 /\ fds'[e] = Lost,
         ids' = ids, rules' = kept, fresh' = <<>>, works' = works, AllIdle,
         confState' \in {"none", "ready"}, confState' = "ready" => served'
  PROVE  RuleIInv'
<1>1. /\ \A i \in 1 .. Len(gone) : Keeps(gone[i])
      /\ \A i \in 1 .. Len(kept) : Keeps(kept[i])
      /\ \A i \in 1 .. Len(gone), j \in 1 .. Len(kept) : gone[i].id # kept[j].id
  BY DEF RuleIInv, AllKeep
<1>2. /\ FdsTyped'
      /\ \A r : (Keeps(r) /\ \A i \in 1 .. Len(gone) : gone[i].id # r.id) =>
            /\ r.id \in 1 .. ids'
            /\ r.kind \in FileKinds => r.static \in DOMAIN fds' /\ fds'[r.static] = r.id
            /\ r.kind = "pipe" => r.pipe \in DOMAIN fds' /\ fds'[r.pipe] = r.id
            /\ r.static # 0 => r.kind \in FileKinds
  BY <1>1, LessFds
<1>3. BothTyped'
  BY DEF RuleIInv, BothTyped
<1>4. WorksTrue'
  BY IdleTrue
<1>5. AllKeep'
  <2>1. \A i \in 1 .. Len(rules') : Keeps(rules[i])'
    BY <1>1, <1>2 DEF Keeps
  <2> QED BY <2>1 DEF AllKeep
<1>6. Accounted'
  <2> SUFFICES ASSUME NEW d \in DOMAIN fds' \ {0}
               PROVE  \/ fds'[d] = Program
                      \/ \E i \in 1 .. Len(rules') : OpenFor(rules[i], d)'
                      \/ \E t \in RuleThreads : fds'[d] = t /\ works'[t].fd = d
    BY DEF Accounted
  <2>1. d \in DOMAIN fds \ {0} /\ d \notin ClosedBy(gone) /\ fds'[d] = fds[d]
    OBVIOUS
  <2>2. ~ \E i \in 1 .. Len(gone) : OpenFor(gone[i], d)
    BY <2>1, OpenCloses
  <2>3. \/ fds[d] = Program
        \/ \E i \in 1 .. Len(kept) : OpenFor(kept[i], d)
        \/ \E t \in RuleThreads : fds[d] = t /\ works[t].fd = d
    BY <2>1, <2>2 DEF RuleIInv, Accounted
  <2>4. CASE \E i \in 1 .. Len(kept) : OpenFor(kept[i], d)
    BY <2>1, <2>4 DEF OpenFor
  <2> QED BY <2>1, <2>3, <2>4
<1> QED BY <1>2, <1>3, <1>4, <1>5, <1>6 DEF RuleIInv

LEMMA ReadyStep == RuleAssumption /\ RuleIInv /\ ConfReady => RuleIInv'
<1> SUFFICES ASSUME RuleAssumption, RuleIInv, ConfReady PROVE RuleIInv'
  OBVIOUS
<1> USE DEF ConfReady
<1>1. rules \in Seq(RuleRecs) /\ fresh \in Seq(RuleRecs)
  BY DEF RuleIInv, BothTyped
<1>2. AllIdle
  BY DEF RuleIInv, WorksTrue, AllIdle
<1>3. /\ \A e : e \in DOMAIN fds' <=> e \in DOMAIN fds /\ e \notin ClosedBy(rules)
      /\ \A e \in DOMAIN fds' : fds'[e] = fds[e]
  BY FdsLess
<1>4. ids' = ids /\ works' = works /\ confState' = "ready" /\ served' /\ rules' = fresh /\ fresh' = <<>>
  OBVIOUS
<1> QED BY <1>1, <1>2, <1>3, <1>4, RulesGo

LEMMA FreedStep == RuleAssumption /\ RuleIInv /\ ConfFreed => RuleIInv'
<1> SUFFICES ASSUME RuleAssumption, RuleIInv, ConfFreed PROVE RuleIInv'
  OBVIOUS
<1> USE DEF ConfFreed
<1>1. rules \in Seq(RuleRecs) /\ fresh = <<>> /\ fresh \in Seq(RuleRecs)
  BY DEF RuleIInv, BothTyped
<1>3. /\ \A e : e \in DOMAIN fds' <=> e \in DOMAIN fds /\ e \notin ClosedBy(rules)
      /\ \A e \in DOMAIN fds' : fds'[e] = fds[e]
  BY FdsLess
<1>4. ids' = ids /\ works' = works /\ AllIdle /\ confState' = "none" /\ rules' = fresh /\ fresh' = <<>>
  BY <1>1
<1> QED BY <1>1, <1>3, <1>4, RulesGo

LEMMA FailsStep == RuleAssumption /\ RuleIInv /\ NewOutputFails => RuleIInv'
<1> SUFFICES ASSUME RuleAssumption, RuleIInv, NewOutputFails PROVE RuleIInv'
  OBVIOUS
<1>1. rules \in Seq(RuleRecs) /\ fresh \in Seq(RuleRecs)
  BY DEF RuleIInv, BothTyped
<1>2. /\ confState = "building" /\ rules' = rules /\ works' = works /\ ids' = ids /\ served' = served
      /\ AllIdle
  BY DEF NewOutputFails, Building, RuleIInv, WorksTrue, AllIdle
<1>3. PICK fd \in {0, -1} : GiveUp(<<[BlankRule("single") EXCEPT !.static = fd]>>)
  BY DEF NewOutputFails
<1> DEFINE x == [BlankRule("single") EXCEPT !.static = fd]
<1>4. x.kind = "single" /\ x.static = fd
  BY DEF BlankRule
<1>5. fds' = WithoutFds(ClosedBy(<<x>> \o fresh)) /\ fresh' = <<>>
      /\ confState' = IF served THEN "ready" ELSE "none"
  BY <1>3 DEF GiveUp
<1> HIDE DEF x
<1>6. \A e \in DOMAIN fds : ~ Closes(x, e)
  <2>1. \A e \in DOMAIN fds : e # -1
    BY RuleAssumption DEF RuleAssumption, RuleIInv, FdsTyped
  <2> QED BY <2>1, <1>4 DEF Closes
<1>7. \A e \in DOMAIN fds : e \in ClosedBy(<<x>> \o fresh) <=> e \in ClosedBy(fresh)
  BY <1>1, <1>6, ClosedWith
<1>8. /\ \A e : e \in DOMAIN fds' <=> e \in DOMAIN fds /\ e \notin ClosedBy(fresh)
      /\ \A e \in DOMAIN fds' : fds'[e] = fds[e]
  <2> DEFINE ds == ClosedBy(<<x>> \o fresh)
  <2>1. \A e \in DOMAIN fds : e \in ds <=> e \in ClosedBy(fresh)
    BY <1>7
  <2>2. fds' = WithoutFds(ds)
    BY <1>5
  <2> HIDE DEF ds
  <2>3. /\ \A e : e \in DOMAIN fds' <=> e \in DOMAIN fds /\ e \notin ds
        /\ \A e \in DOMAIN fds' : fds'[e] = fds[e]
    BY <2>2, FdsLess
  <2> QED BY <2>1, <2>3
<1>9. confState' \in {"none", "ready"} /\ (confState' = "ready" => served')
  BY <1>2, <1>5
<1> QED BY <1>1, <1>2, <1>5, <1>8, <1>9, RulesGo

\* The file that could not be read is closed, unless it got descriptor 0.
LEMMA UnreadStep == RuleAssumption /\ RuleIInv /\ NewOutputUnread => RuleIInv'
<1> SUFFICES ASSUME RuleAssumption, RuleIInv, NewOutputUnread PROVE RuleIInv'
  OBVIOUS
<1> DEFINE low == LowestFd
           x == [BlankRule("single") EXCEPT !.static = low]
<1>1. rules \in Seq(RuleRecs) /\ fresh \in Seq(RuleRecs)
  BY DEF RuleIInv, BothTyped
<1>2. /\ confState = "building" /\ rules' = rules /\ works' = works /\ ids' = ids /\ served' = served
      /\ AllIdle
  BY DEF NewOutputUnread, Building, RuleIInv, WorksTrue, AllIdle
<1>3. x.kind = "single" /\ x.static = low
  BY DEF BlankRule
<1>4. /\ fresh' = <<>> /\ confState' = IF served THEN "ready" ELSE "none"
      /\ fds' = [d \in (DOMAIN fds \cup {low}) \ ClosedBy(<<x>> \o fresh) |-> With(low, Lost)[d]]
  BY DEF NewOutputUnread
<1>5. low \in 0 .. FdLimit - 1 /\ low \notin DOMAIN fds
  BY FdIsFree DEF NewOutputUnread
<1>6. /\ DOMAIN With(low, Lost) = DOMAIN fds \cup {low} /\ With(low, Lost)[low] = Lost
      /\ \A e \in DOMAIN fds : With(low, Lost)[e] = fds[e]
  BY <1>5 DEF With
<1> HIDE DEF low, x
<1>7. \A e : e \in ClosedBy(<<x>> \o fresh) <=> ((low # 0 /\ e = low) \/ e \in ClosedBy(fresh))
  BY <1>1, <1>3, ClosedWith DEF Closes
<1>8. /\ \A e \in DOMAIN fds : e \in DOMAIN fds' <=> e \notin ClosedBy(fresh)
      /\ \A e \in DOMAIN fds' : IF e \in DOMAIN fds THEN fds'[e] = fds[e] ELSE e = 0 /\ fds'[e] = Lost
  BY <1>4, <1>5, <1>6, <1>7, Zenon
<1>9. confState' \in {"none", "ready"} /\ (confState' = "ready" => served')
  BY <1>2, <1>4
<1> QED BY <1>1, <1>2, <1>4, <1>8, <1>9, RulesGo

-----------------------------------------------------------------------------
\* A message changes no more of the rules than their counts.
LEMMA RulesSame ==
  ASSUME RuleIInv, UNCHANGED buildVars, rules' \in Seq(RuleRecs), Len(rules') = Len(rules),
         \A i \in 1 .. Len(rules) : SameOutput(rules[i], rules'[i]),
         FdsTyped', WorksTrue',
         \A r : (Keeps(r) /\ ((\E i \in 1 .. Len(rules) : r = rules[i]) \/ (\E i \in 1 .. Len(fresh) : r = fresh[i]))) =>
            /\ r.kind \in FileKinds => r.static \in DOMAIN fds' /\ fds'[r.static] = r.id
            /\ r.kind = "pipe" => r.pipe \in DOMAIN fds' /\ fds'[r.pipe] = r.id,
         \A d \in DOMAIN fds' \ {0} :
            \/ d \in DOMAIN fds /\ fds'[d] = fds[d] /\ ~ \E t \in RuleThreads : fds[d] = t /\ works[t].fd = d
            \/ \E t \in RuleThreads : fds'[d] = t /\ works'[t].fd = d
  PROVE  RuleIInv'
<1>1. /\ fresh' = fresh /\ confState' = confState /\ served' = served /\ ids' = ids
  BY DEF buildVars
<1>2. BothTyped'
  BY <1>1 DEF RuleIInv, BothTyped
<1>3. AllKeep'
  <2>1. ASSUME NEW i \in 1 .. Len(rules') PROVE Keeps(rules[i])'
    <3>1. i \in 1 .. Len(rules) /\ Keeps(rules[i]) /\ SameOutput(rules[i], rules'[i])
      BY DEF RuleIInv, AllKeep
    <3> QED BY <3>1, <1>1 DEF Keeps, SameOutput
  <2>2. ASSUME NEW i \in 1 .. Len(fresh') PROVE Keeps(fresh[i])'
    <3>1. i \in 1 .. Len(fresh) /\ Keeps(fresh[i])
      BY <1>1 DEF RuleIInv, AllKeep
    <3> QED BY <3>1, <1>1 DEF Keeps
  <2>3. \A i \in 1 .. Len(rules'), j \in 1 .. Len(fresh') : rules'[i].id # fresh'[j].id
    BY <1>1 DEF RuleIInv, AllKeep, SameOutput
  <2> QED BY <2>1, <2>2, <2>3 DEF AllKeep
<1>4. Accounted'
  <2> SUFFICES ASSUME NEW d \in DOMAIN fds' \ {0},
                      d \in DOMAIN fds /\ fds'[d] = fds[d] /\ ~ \E t \in RuleThreads : fds[d] = t /\ works[t].fd = d
               PROVE  \/ fds'[d] = Program
                      \/ \E i \in 1 .. Len(rules') : OpenFor(rules[i], d)'
                      \/ \E i \in 1 .. Len(fresh') : OpenFor(fresh[i], d)'
    BY DEF Accounted
  <2>1. \/ fds[d] = Program
        \/ \E i \in 1 .. Len(rules) : OpenFor(rules[i], d)
        \/ \E i \in 1 .. Len(fresh) : OpenFor(fresh[i], d)
    BY DEF RuleIInv, Accounted
  <2>2. CASE \E i \in 1 .. Len(rules) : OpenFor(rules[i], d)
    BY <2>2 DEF OpenFor, SameOutput
  <2>3. CASE \E i \in 1 .. Len(fresh) : OpenFor(fresh[i], d)
    BY <2>3, <1>1 DEF OpenFor
  <2> QED BY <2>1, <2>2, <2>3
<1> QED BY <1>2, <1>3, <1>4 DEF RuleIInv

\* A step of a thread that opens and closes nothing.
LEMMA QuietStep ==
  ASSUME RuleAssumption, RuleIInv, UNCHANGED buildVars, UNCHANGED fds, rules' \in Seq(RuleRecs), Len(rules') = Len(rules),
         \A i \in 1 .. Len(rules) : SameOutput(rules[i], rules'[i]),
         NEW t \in RuleThreads, NEW w \in WorkRecs, works' = [works EXCEPT ![t] = w],
         \/ w.pc = "idle" /\ w.fd = -1 /\ (works[t].pc # "idle" => RuleOf(t).kind \notin Reopening)
         \/ /\ w.pc \notin {"idle", "open"} /\ w.rule = works[t].rule /\ w.fd = works[t].fd
            /\ works[t].pc # "idle"
         \/ /\ w.pc # "idle" /\ works[t].pc = "idle" /\ confState = "ready" /\ w.rule \in 1 .. Len(rules)
            /\ w.pc = "open" => w.fd = -1
            /\ rules[w.rule].kind \in Reopening => w.fd = -1
            /\ rules[w.rule].kind \notin Reopening =>
                  w.fd = rules[w.rule].static /\ rules[w.rule].kind = "single"
  PROVE  RuleIInv'
<1>1. /\ fresh' = fresh /\ confState' = confState /\ served' = served /\ ids' = ids /\ fds' = fds
  BY DEF buildVars
<1>2. FdsTyped'
  BY <1>1 DEF RuleIInv, FdsTyped
<1>3. /\ works \in [RuleThreads -> WorkRecs] /\ works' \in [RuleThreads -> WorkRecs]
      /\ works'[t] = w /\ \A u \in RuleThreads : u # t => works'[u] = works[u]
  BY DEF RuleIInv, WorksTrue
<1>4. \A i \in 1 .. Len(rules) : rules'[i].kind = rules[i].kind /\ rules'[i].static = rules[i].static
  BY DEF SameOutput
<1>5. WorksTrue'
  <2>1. \A u \in RuleThreads : works'[u].pc \in {"idle", "open"} => works'[u].fd = -1
    BY <1>3 DEF RuleIInv, WorksTrue
  <2>2. ASSUME NEW u \in RuleThreads, works'[u].pc # "idle"
        PROVE  /\ confState' = "ready" /\ works'[u].rule \in 1 .. Len(rules')
               /\ RuleOf(u)'.kind \in Reopening =>
                     works'[u].fd = -1 \/ (works'[u].fd \in DOMAIN fds' /\ fds'[works'[u].fd] = u)
               /\ RuleOf(u)'.kind \notin Reopening =>
                     works'[u].fd = RuleOf(u)'.static /\ RuleOf(u)'.kind = "single"
    <3>1. CASE u # t
      BY <2>2, <3>1, <1>1, <1>3, <1>4 DEF RuleIInv, WorksTrue, RuleOf
    <3>2. CASE u = t
      BY <2>2, <3>2, <1>1, <1>3, <1>4 DEF RuleIInv, WorksTrue, RuleOf
    <3> QED BY <3>1, <3>2
  <2> QED BY <1>3, <2>1, <2>2 DEF WorksTrue
<1>6. ASSUME NEW d \in DOMAIN fds, fds[d] = t, works[t].fd = d
      PROVE  w.fd = d
  <2>1. d # -1 /\ d \in 0 .. FdLimit - 1
    BY DEF RuleIInv, FdsTyped, RuleAssumption
  <2>2. works[t].pc # "idle"
    BY <1>6, <2>1 DEF RuleIInv, WorksTrue
  <2>3. ASSUME RuleOf(t).kind \notin Reopening PROVE FALSE
    <3>1. Keeps(RuleOf(t)) /\ d = RuleOf(t).static /\ RuleOf(t).kind \in FileKinds
      BY <1>6, <2>2, <2>3 DEF RuleIInv, WorksTrue, AllKeep, RuleOf, FileKinds
    <3>2. t \in 1 .. ids
      BY <1>6, <3>1 DEF Keeps
    <3> QED BY <3>2 DEF RuleAssumption, RuleIInv, FdsTyped
  <2> QED BY <1>6, <2>2, <2>3
<1>7. \A d \in DOMAIN fds' \ {0} :
            \/ d \in DOMAIN fds /\ fds'[d] = fds[d] /\ ~ \E u \in RuleThreads : fds[d] = u /\ works[u].fd = d
            \/ \E u \in RuleThreads : fds'[d] = u /\ works'[u].fd = d
  BY <1>1, <1>3, <1>6
<1>8. \A r : Keeps(r) =>
            /\ r.kind \in FileKinds => r.static \in DOMAIN fds' /\ fds'[r.static] = r.id
            /\ r.kind = "pipe" => r.pipe \in DOMAIN fds' /\ fds'[r.pipe] = r.id
  BY <1>1 DEF Keeps
<1> QED
  BY <1>2, <1>5, <1>7, <1>8, RulesSame

\* A thread ends its message, and closes what it had opened for it.
LEMMA CloseStep ==
  ASSUME RuleAssumption, RuleIInv, UNCHANGED buildVars, rules' = rules,
         NEW t \in RuleThreads, works[t].pc # "idle", works' = [works EXCEPT ![t] = NoWork],
         RuleOf(t).kind \in Reopening, fds' = WithoutFds({works[t].fd})
  PROVE  RuleIInv'
<1>1. /\ fresh' = fresh /\ confState' = confState /\ served' = served /\ ids' = ids
  BY DEF buildVars
<1> DEFINE fd == works[t].fd
<1>2. /\ \A e : e \in DOMAIN fds' <=> e \in DOMAIN fds /\ e # fd
      /\ \A e \in DOMAIN fds' : fds'[e] = fds[e]
  BY FdsLess
<1>3. /\ works \in [RuleThreads -> WorkRecs] /\ works' \in [RuleThreads -> WorkRecs]
      /\ works'[t] = NoWork /\ \A u \in RuleThreads : u # t => works'[u] = works[u]
  BY DEF RuleIInv, WorksTrue, WorkRecs, NoWork, RuleAssumption
<1>4. fd = -1 \/ (fd \in DOMAIN fds /\ fds[fd] = t)
  BY DEF RuleIInv, WorksTrue
<1>5. Program # t /\ \A n \in 1 .. ids : n # t
  <2>1. \A n \in Int : n # t
    BY DEF RuleAssumption
  <2> QED BY <2>1 DEF Program, RuleIInv, FdsTyped
<1>6. \A e \in DOMAIN fds : fds[e] # t => e \in DOMAIN fds' /\ fds'[e] = fds[e]
  <2>1. -1 \notin DOMAIN fds
    BY DEF RuleIInv, FdsTyped, RuleAssumption
  <2> QED BY <2>1, <1>2, <1>4, Zenon
<1> HIDE DEF fd
<1>7. FdsTyped'
  <2>1. \A d \in Terminal : d \in DOMAIN fds' /\ fds'[d] = Program
    <3>1. \A d \in Terminal : d \in DOMAIN fds /\ fds[d] = Program
      BY DEF RuleIInv, FdsTyped
    <3> QED BY <3>1, <1>5, <1>6, Zenon
  <2> QED BY <1>1, <1>2, <2>1 DEF RuleIInv, FdsTyped
<1>8. WorksTrue'
  <2>1. \A u \in RuleThreads : works'[u].pc \in {"idle", "open"} => works'[u].fd = -1
    BY <1>3 DEF RuleIInv, WorksTrue, NoWork
  <2>2. ASSUME NEW u \in RuleThreads, works'[u].pc # "idle"
        PROVE  /\ confState' = "ready" /\ works'[u].rule \in 1 .. Len(rules')
               /\ RuleOf(u)'.kind \in Reopening =>
                     works'[u].fd = -1 \/ (works'[u].fd \in DOMAIN fds' /\ fds'[works'[u].fd] = u)
               /\ RuleOf(u)'.kind \notin Reopening =>
                     works'[u].fd = RuleOf(u)'.static /\ RuleOf(u)'.kind = "single"
    <3>1. u # t /\ works'[u] = works[u]
      BY <2>2, <1>3 DEF NoWork
    <3>2. RuleOf(u)' = RuleOf(u)
      BY <3>1 DEF RuleOf
    <3>3. /\ confState = "ready" /\ works[u].rule \in 1 .. Len(rules)
          /\ RuleOf(u).kind \in Reopening =>
                works[u].fd = -1 \/ (works[u].fd \in DOMAIN fds /\ fds[works[u].fd] = u)
          /\ RuleOf(u).kind \notin Reopening =>
                works[u].fd = RuleOf(u).static /\ RuleOf(u).kind = "single"
      BY <2>2, <3>1 DEF RuleIInv, WorksTrue
    <3>4. works[u].fd \in DOMAIN fds /\ fds[works[u].fd] = u =>
             works[u].fd \in DOMAIN fds' /\ fds'[works[u].fd] = u
      BY <3>1, <1>6, Zenon
    <3> QED BY <3>1, <3>2, <3>3, <3>4, <1>1
  <2> QED BY <1>3, <2>1, <2>2 DEF WorksTrue
<1>9. ASSUME NEW d \in DOMAIN fds' \ {0}
      PROVE  \/ d \in DOMAIN fds /\ fds'[d] = fds[d] /\ ~ \E u \in RuleThreads : fds[d] = u /\ works[u].fd = d
             \/ \E u \in RuleThreads : fds'[d] = u /\ works'[u].fd = d
  BY <1>2, <1>3 DEF fd
<1>10. \A r : Keeps(r) =>
            /\ r.kind \in FileKinds => r.static \in DOMAIN fds' /\ fds'[r.static] = r.id
            /\ r.kind = "pipe" => r.pipe \in DOMAIN fds' /\ fds'[r.pipe] = r.id
  <2> SUFFICES ASSUME NEW r, Keeps(r)
               PROVE  /\ r.kind \in FileKinds => r.static \in DOMAIN fds' /\ fds'[r.static] = r.id
                      /\ r.kind = "pipe" => r.pipe \in DOMAIN fds' /\ fds'[r.pipe] = r.id
    OBVIOUS
  <2>1. r.id # t
    BY <1>5 DEF Keeps
  <2>2. \A e \in DOMAIN fds : fds[e] = r.id => e \in DOMAIN fds' /\ fds'[e] = r.id
    BY <2>1, <1>6, Zenon
  <2> QED BY <2>2 DEF Keeps
<1>11. rules' \in Seq(RuleRecs) /\ \A i \in 1 .. Len(rules) : SameOutput(rules[i], rules'[i])
  BY DEF RuleIInv, BothTyped, SameOutput
<1> QED
  BY <1>7, <1>8, <1>9, <1>10, <1>11, RulesSame

\* A thread opens the file for its message.
LEMMA OpenStep ==
  ASSUME RuleAssumption, RuleIInv, NEW t \in RuleThreads, OpenEach(t)
  PROVE  RuleIInv'
<1> USE DEF OpenEach, Doing
<1>1. /\ UNCHANGED buildVars /\ rules' = rules /\ works[t].pc = "open" /\ works[t].fd = -1
      /\ fresh' = fresh /\ confState' = confState /\ served' = served /\ ids' = ids
  BY DEF buildVars, RuleIInv, WorksTrue
<1>2. rules' \in Seq(RuleRecs) /\ \A i \in 1 .. Len(rules) : SameOutput(rules[i], rules'[i])
  BY DEF RuleIInv, BothTyped, SameOutput
<1>3. works \in [RuleThreads -> WorkRecs]
  BY DEF RuleIInv, WorksTrue
<1> DEFINE low == LowestFd
           w == IF FreeFds = {} THEN NoWork ELSE [works[t] EXCEPT !.pc = "write", !.fd = low]
<1>4. works' = [works EXCEPT ![t] = w]
  BY <1>3
<1>5. FreeFds # {} =>
          /\ low \in 0 .. FdLimit - 1 /\ low \notin DOMAIN fds /\ fds' = With(low, t)
          /\ w.pc = "write" /\ w.fd = low /\ w.rule = works[t].rule /\ w \in WorkRecs
  <2> SUFFICES ASSUME FreeFds # {}
               PROVE  /\ low \in 0 .. FdLimit - 1 /\ low \notin DOMAIN fds /\ fds' = With(low, t)
                      /\ w.pc = "write" /\ w.fd = low /\ w.rule = works[t].rule /\ w \in WorkRecs
    OBVIOUS
  <2>1. low \in 0 .. FdLimit - 1 /\ low \notin DOMAIN fds
    BY FdIsFree
  <2>2. fds' = With(low, t)
    OBVIOUS
  <2>3. w = [works[t] EXCEPT !.pc = "write", !.fd = low] /\ works[t] \in WorkRecs
    BY <1>3
  <2> HIDE DEF low, w
  <2>4. low \in -1 .. FdLimit - 1
    BY <2>1 DEF RuleAssumption
  <2> QED BY <2>1, <2>2, <2>3, <2>4 DEF WorkRecs
<1>6. FreeFds = {} => fds' = fds /\ w = NoWork /\ w \in WorkRecs /\ w.pc = "idle" /\ w.fd = -1
  BY DEF NoWork, WorkRecs, RuleAssumption
<1> HIDE DEF w, low
<1>7. /\ works' \in [RuleThreads -> WorkRecs]
      /\ works'[t] = w /\ \A u \in RuleThreads : u # t => works'[u] = works[u]
  BY <1>3, <1>4, <1>5, <1>6
<1>8. /\ \A e \in DOMAIN fds : e \in DOMAIN fds' /\ fds'[e] = fds[e]
      /\ \A e \in DOMAIN fds' : e \in DOMAIN fds \/ (FreeFds # {} /\ e = low)
      /\ FreeFds # {} => low \in DOMAIN fds' /\ fds'[low] = t
  <2>1. CASE FreeFds # {}
    <3>1. fds' = With(low, t) /\ low \notin DOMAIN fds
      BY <2>1, <1>5
    <3>2. /\ DOMAIN fds' = DOMAIN fds \cup {low} /\ fds'[low] = t
          /\ \A e \in DOMAIN fds : e \in DOMAIN fds' /\ e # low /\ fds'[e] = fds[e]
      BY <3>1, WithFd
    <3> QED BY <2>1, <3>2
  <2>2. CASE FreeFds = {}
    BY <2>2, <1>6
  <2> QED BY <2>1, <2>2
<1>9. FdsTyped'
  <2>1. DOMAIN fds' \subseteq 0 .. FdLimit - 1
    BY <1>5, <1>8 DEF RuleIInv, FdsTyped
  <2>2. \A d \in DOMAIN fds' : fds'[d] \in {Program, Lost} \cup RuleThreads \cup 1 .. ids'
    BY <1>1, <1>8 DEF RuleIInv, FdsTyped
  <2>3. \A d \in Terminal : d \in DOMAIN fds' /\ fds'[d] = Program
    BY <1>8 DEF RuleIInv, FdsTyped
  <2> QED BY <1>1, <2>1, <2>2, <2>3 DEF RuleIInv, FdsTyped
<1>10. WorksTrue'
  <2>1. \A u \in RuleThreads : works'[u].pc \in {"idle", "open"} => works'[u].fd = -1
    BY <1>5, <1>6, <1>7 DEF RuleIInv, WorksTrue
  <2>2. ASSUME NEW u \in RuleThreads, works'[u].pc # "idle"
        PROVE  /\ confState' = "ready" /\ works'[u].rule \in 1 .. Len(rules')
               /\ RuleOf(u)'.kind \in Reopening =>
                     works'[u].fd = -1 \/ (works'[u].fd \in DOMAIN fds' /\ fds'[works'[u].fd] = u)
               /\ RuleOf(u)'.kind \notin Reopening =>
                     works'[u].fd = RuleOf(u)'.static /\ RuleOf(u)'.kind = "single"
    <3>1. CASE u # t
      <4>1. works'[u] = works[u] /\ RuleOf(u)' = RuleOf(u)
        BY <3>1, <1>1, <1>7 DEF RuleOf
      <4> QED BY <2>2, <4>1, <1>1, <1>8 DEF RuleIInv, WorksTrue
    <3>2. CASE u = t
      <4>1. FreeFds # {} /\ works'[t].rule = works[t].rule /\ RuleOf(t)' = RuleOf(t)
        BY <2>2, <3>2, <1>1, <1>5, <1>6, <1>7 DEF RuleOf
      <4>2. confState' = "ready" /\ works[t].rule \in 1 .. Len(rules)
            /\ RuleOf(t).kind \in Reopening
        <5>1. confState = "ready" /\ works[t].rule \in 1 .. Len(rules)
              /\ (RuleOf(t).kind \notin Reopening => works[t].fd = RuleOf(t).static)
          BY <1>1 DEF RuleIInv, WorksTrue
        <5>2. rules[works[t].rule].static \in 0 .. FdLimit - 1
          BY <5>1, RuleIs DEF RuleIInv, BothTyped
        <5>3. RuleOf(t).static # -1
          BY <5>2 DEF RuleOf, RuleAssumption
        <5> QED BY <5>1, <5>3, <1>1
      <4> QED BY <3>2, <4>1, <4>2, <1>1, <1>5, <1>7, <1>8
    <3> QED BY <3>1, <3>2
  <2> QED BY <1>7, <2>1, <2>2 DEF WorksTrue
<1>11. ASSUME NEW d \in DOMAIN fds' \ {0}
      PROVE  \/ d \in DOMAIN fds /\ fds'[d] = fds[d] /\ ~ \E u \in RuleThreads : fds[d] = u /\ works[u].fd = d
             \/ \E u \in RuleThreads : fds'[d] = u /\ works'[u].fd = d
  <2>1. CASE d \in DOMAIN fds
    <3>1. d # -1
      BY <2>1 DEF RuleIInv, FdsTyped, RuleAssumption
    <3> QED BY <2>1, <3>1, <1>1, <1>7, <1>8
  <2>2. CASE d \notin DOMAIN fds
    BY <2>2, <1>5, <1>7, <1>8
  <2> QED BY <2>1, <2>2
<1>12. \A r : Keeps(r) =>
            /\ r.kind \in FileKinds => r.static \in DOMAIN fds' /\ fds'[r.static] = r.id
            /\ r.kind = "pipe" => r.pipe \in DOMAIN fds' /\ fds'[r.pipe] = r.id
  BY <1>8 DEF Keeps
<1> QED
  BY <1>1, <1>2, <1>9, <1>10, <1>11, <1>12, RulesSame

\* A message begins.
LEMMA OutputStep ==
  ASSUME RuleAssumption, RuleIInv, NEW t \in RuleThreads, NEW i \in DOMAIN rules, OutputTo(t, i)
  PROVE  RuleIInv'
<1>1. /\ UNCHANGED buildVars /\ rules' = rules /\ fds' = fds /\ works[t].pc = "idle" /\ confState = "ready"
  BY DEF OutputTo, Doing
<1>2. rules' \in Seq(RuleRecs) /\ (\A j \in 1 .. Len(rules) : SameOutput(rules[j], rules'[j])) /\ i \in 1 .. Len(rules)
  BY <1>1 DEF RuleIInv, BothTyped, SameOutput
<1>3. rules[i].static \in 0 .. FdLimit - 1
  BY <1>2, RuleIs DEF RuleIInv, BothTyped
<1> DEFINE work == [NoWork EXCEPT !.rule = i]
           w == IF rules[i].kind \in Reopening THEN [work EXCEPT !.pc = "open"]
                ELSE IF rules[i].kind = "single" THEN [work EXCEPT !.pc = "write", !.fd = rules[i].static]
                ELSE NoWork
<1>4. works' = [works EXCEPT ![t] = w]
  BY DEF OutputTo
<1>5. /\ w \in WorkRecs
      /\ \/ w.pc = "idle" /\ w.fd = -1
         \/ /\ w.pc # "idle" /\ w.rule = i /\ (w.pc = "open" => w.fd = -1)
            /\ rules[i].kind \in Reopening => w.fd = -1
            /\ rules[i].kind \notin Reopening => w.fd = rules[i].static /\ rules[i].kind = "single"
  <2>1. CASE rules[i].kind \in Reopening
    <3>1. w = [pc |-> "open", rule |-> i, fd |-> -1, count |-> 0]
      BY <2>1 DEF NoWork
    <3> HIDE DEF w
    <3>2. w \in WorkRecs
      BY <3>1, <1>2 DEF WorkRecs, RuleAssumption
    <3> QED BY <2>1, <3>1, <3>2
  <2>2. CASE rules[i].kind \notin Reopening /\ rules[i].kind = "single"
    <3>1. w = [pc |-> "write", rule |-> i, fd |-> rules[i].static, count |-> 0]
      BY <2>2 DEF NoWork
    <3> HIDE DEF w
    <3>2. w \in WorkRecs
      BY <3>1, <1>2, <1>3 DEF WorkRecs, RuleAssumption
    <3> QED BY <2>2, <3>1, <3>2
  <2>3. CASE rules[i].kind \notin Reopening /\ rules[i].kind # "single"
    BY <2>3 DEF NoWork, WorkRecs, RuleAssumption
  <2> QED BY <2>1, <2>2, <2>3
<1> HIDE DEF w
<1>6. w.pc = "idle" \/ (w.rule \in 1 .. Len(rules) /\ w.rule = i) \/ (w.pc # "idle" /\ w.rule = i)
  BY <1>2, <1>5
<1> QED
  BY <1>1, <1>2, <1>4, <1>5, <1>6, QuietStep

\* A write, and a count, of a rule that a message is written to.
LEMMA CountedStep ==
  ASSUME RuleAssumption, RuleIInv, NEW t \in RuleThreads, works[t].pc \notin {"idle", "open"}, UNCHANGED buildVars,
         UNCHANGED fds, NEW r \in RuleRecs, SameOutput(RuleOf(t), r),
         rules' = [rules EXCEPT ![works[t].rule] = r] \/ rules' = rules,
         NEW w \in WorkRecs, works' = [works EXCEPT ![t] = w], w.pc \notin {"idle", "open"},
         w.rule = works[t].rule, w.fd = works[t].fd
  PROVE  RuleIInv'
<1>1. works[t].rule \in 1 .. Len(rules) /\ rules \in Seq(RuleRecs)
  BY DEF RuleIInv, WorksTrue, BothTyped
<1>2. rules' \in Seq(RuleRecs) /\ Len(rules') = Len(rules)
  BY <1>1
<1>3. \A j \in 1 .. Len(rules) : SameOutput(rules[j], rules'[j])
  BY <1>1 DEF SameOutput, RuleOf
<1> QED
  BY <1>2, <1>3, QuietStep

LEMMA MessageStep ==
  ASSUME RuleAssumption, RuleIInv, NEW t \in RuleThreads,
         \/ WriteOut(t) \/ LoadCount(t) \/ StoreCount(t) \/ ZeroCount(t) \/ Fsync(t)
  PROVE  RuleIInv'
<1>1. /\ UNCHANGED buildVars /\ UNCHANGED fds /\ works[t].pc \notin {"idle", "open"}
  BY DEF WriteOut, LoadCount, StoreCount, ZeroCount, Fsync, Doing
<1>2. /\ works[t].rule \in 1 .. Len(rules) /\ rules \in Seq(RuleRecs)
      /\ works \in [RuleThreads -> WorkRecs] /\ works[t] \in WorkRecs
  BY <1>1 DEF RuleIInv, WorksTrue, BothTyped
<1>3. RuleOf(t) \in RuleRecs /\ RuleOf(t).late \in Nat /\ RuleOf(t).count \in Nat /\ works[t].count \in Nat
  BY <1>2, RuleIs DEF RuleOf, WorkRecs
<1> DEFINE p(pc) == [works[t] EXCEPT !.pc = pc]
<1>4. \A pc \in {"write", "load", "store", "zero", "sync", "close"} :
          /\ p(pc) \in WorkRecs /\ p(pc).pc = pc
          /\ p(pc).rule = works[t].rule /\ p(pc).fd = works[t].fd
  BY <1>2 DEF WorkRecs
<1>5. CASE WriteOut(t)
  <2> DEFINE r == [RuleOf(t) EXCEPT !.late = IF RuleOf(t).kind = "single" THEN @ + 1 ELSE @]
             w == p("load")
  <2>1. r \in RuleRecs /\ SameOutput(RuleOf(t), r)
    BY <1>3 DEF RuleRecs, SameOutput
  <2>2. rules' = [rules EXCEPT ![works[t].rule] = r]
    BY <1>5 DEF WriteOut, RuleOf
  <2>3. works' = [works EXCEPT ![t] = w]
    BY <1>2, <1>5 DEF WriteOut, Go
  <2>4. w \in WorkRecs /\ w.pc \notin {"idle", "open"} /\ w.rule = works[t].rule /\ w.fd = works[t].fd
    BY <1>4
  <2> HIDE DEF r, w
  <2> QED BY <1>1, <2>1, <2>2, <2>3, <2>4, CountedStep
<1>6. CASE LoadCount(t)
  <2> DEFINE w == [works[t] EXCEPT !.pc = "store", !.count = RuleOf(t).count + 1]
  <2>1. SameOutput(RuleOf(t), RuleOf(t))
    BY DEF SameOutput
  <2>2. rules' = rules
    BY <1>6 DEF LoadCount
  <2>3. works' = [works EXCEPT ![t] = w]
    BY <1>2, <1>6 DEF LoadCount
  <2>4. w \in WorkRecs /\ w.pc \notin {"idle", "open"} /\ w.rule = works[t].rule /\ w.fd = works[t].fd
    <3>1. RuleOf(t).count + 1 \in Nat
      BY <1>3
    <3> QED BY <1>2, <3>1 DEF WorkRecs
  <2> HIDE DEF w
  <2> QED BY <1>1, <1>3, <2>1, <2>2, <2>3, <2>4, CountedStep
<1>7. CASE StoreCount(t)
  <2> DEFINE r == [RuleOf(t) EXCEPT !.count = works[t].count]
             w == IF works[t].count >= FsyncPeriod THEN p("zero") ELSE p("close")
  <2>1. r \in RuleRecs /\ SameOutput(RuleOf(t), r)
    BY <1>3 DEF RuleRecs, SameOutput
  <2>2. rules' = [rules EXCEPT ![works[t].rule] = r]
    BY <1>7 DEF StoreCount, RuleOf
  <2>3. works' = [works EXCEPT ![t] = w]
    BY <1>2, <1>7 DEF StoreCount, Go
  <2>4. w \in WorkRecs /\ w.pc \notin {"idle", "open"} /\ w.rule = works[t].rule /\ w.fd = works[t].fd
    BY <1>4
  <2> HIDE DEF r, w
  <2> QED BY <1>1, <2>1, <2>2, <2>3, <2>4, CountedStep
<1>8. CASE ZeroCount(t)
  <2> DEFINE r == [RuleOf(t) EXCEPT !.count = 0]
             w == p("sync")
  <2>1. r \in RuleRecs /\ SameOutput(RuleOf(t), r)
    BY <1>3 DEF RuleRecs, SameOutput
  <2>2. rules' = [rules EXCEPT ![works[t].rule] = r]
    BY <1>8 DEF ZeroCount, RuleOf
  <2>3. works' = [works EXCEPT ![t] = w]
    BY <1>2, <1>8 DEF ZeroCount, Go
  <2>4. w \in WorkRecs /\ w.pc \notin {"idle", "open"} /\ w.rule = works[t].rule /\ w.fd = works[t].fd
    BY <1>4
  <2> HIDE DEF r, w
  <2> QED BY <1>1, <2>1, <2>2, <2>3, <2>4, CountedStep
<1>9. CASE Fsync(t)
  <2> DEFINE r == [RuleOf(t) EXCEPT !.late = 0]
             w == p("close")
  <2>1. r \in RuleRecs /\ SameOutput(RuleOf(t), r)
    BY <1>3 DEF RuleRecs, SameOutput
  <2>2. rules' = [rules EXCEPT ![works[t].rule] = r]
    BY <1>9 DEF Fsync, RuleOf
  <2>3. works' = [works EXCEPT ![t] = w]
    BY <1>2, <1>9 DEF Fsync, Go
  <2>4. w \in WorkRecs /\ w.pc \notin {"idle", "open"} /\ w.rule = works[t].rule /\ w.fd = works[t].fd
    BY <1>4
  <2> HIDE DEF r, w
  <2> QED BY <1>1, <2>1, <2>2, <2>3, <2>4, CountedStep
<1> QED BY <1>5, <1>6, <1>7, <1>8, <1>9

LEMMA EndStep ==
  ASSUME RuleAssumption, RuleIInv, NEW t \in RuleThreads, WriteFails(t) \/ CloseEach(t)
  PROVE  RuleIInv'
<1>1. /\ UNCHANGED buildVars /\ rules' = rules /\ works[t].pc # "idle"
      /\ works' = [works EXCEPT ![t] = NoWork]
      /\ fds' = IF RuleOf(t).kind \in Reopening THEN WithoutFds({works[t].fd}) ELSE fds
  BY DEF WriteFails, CloseEach, Doing
<1>2. CASE RuleOf(t).kind \in Reopening
  BY <1>1, <1>2, CloseStep
<1>3. CASE RuleOf(t).kind \notin Reopening
  <2>1. NoWork \in WorkRecs /\ NoWork.pc = "idle" /\ NoWork.fd = -1
    BY DEF NoWork, WorkRecs, RuleAssumption
  <2>2. rules' \in Seq(RuleRecs) /\ \A j \in 1 .. Len(rules) : SameOutput(rules[j], rules'[j])
    BY <1>1 DEF RuleIInv, BothTyped, SameOutput
  <2> QED BY <1>1, <1>3, <2>1, <2>2, QuietStep
<1> QED BY <1>2, <1>3

LEMMA RuleInductive == RuleAssumption /\ RuleIInv /\ [RuleNext]_zrVars => RuleIInv'
<1> SUFFICES ASSUME RuleAssumption, RuleIInv, [RuleNext]_zrVars PROVE RuleIInv'
  OBVIOUS
<1>1. CASE UNCHANGED zrVars
  BY <1>1 DEF zrVars, RuleIInv, FdsTyped, BothTyped, WorksTrue, RuleOf, AllKeep, Keeps, Accounted, OpenFor
<1>2. CASE BuildConf \/ NewOutput \/ NewOutputFails \/ NewOutputUnread \/ ConfReady \/ ConfFreed
  BY <1>2, BuildStep, NewStep, FailsStep, UnreadStep, ReadyStep, FreedStep
<1>3. ASSUME NEW t \in RuleThreads,
             \/ \E i \in DOMAIN rules : OutputTo(t, i)
             \/ OpenEach(t) \/ WriteOut(t) \/ WriteFails(t) \/ LoadCount(t) \/ StoreCount(t)
             \/ ZeroCount(t) \/ Fsync(t) \/ CloseEach(t)
      PROVE  RuleIInv'
  BY <1>3, OutputStep, OpenStep, MessageStep, EndStep
<1> QED BY <1>1, <1>2, <1>3 DEF RuleNext

LEMMA RuleMeans == RuleAssumption /\ RuleIInv => OutputsSound
<1> SUFFICES ASSUME RuleAssumption, RuleIInv PROVE OutputsSound
  OBVIOUS
<1>1. rules \in Seq(RuleRecs) /\ fresh \in Seq(RuleRecs)
  BY DEF RuleIInv, BothTyped
<1>2. ASSUME NEW r \in ToSet(rules \o fresh) PROVE r \in RuleRecs /\ Keeps(r)
  <2>1. PICK k \in 1 .. Len(rules) + Len(fresh) : r = (rules \o fresh)[k]
    BY <1>1 DEF ToSet
  <2>2. CASE k \in 1 .. Len(rules)
    BY <1>1, <2>1, <2>2 DEF RuleIInv, AllKeep
  <2>3. CASE k \notin 1 .. Len(rules)
    <3>1. k - Len(rules) \in 1 .. Len(fresh) /\ r = fresh[k - Len(rules)]
      BY <1>1, <2>1, <2>3
    <3> QED BY <1>1, <3>1 DEF RuleIInv, AllKeep
  <2> QED BY <2>2, <2>3
<1>3. /\ \A i \in 1 .. Len(rules) : rules[i] \in ToSet(rules \o fresh)
      /\ \A i \in 1 .. Len(fresh) : fresh[i] \in ToSet(rules \o fresh)
  <2>1. ASSUME NEW i \in 1 .. Len(rules) PROVE rules[i] \in ToSet(rules \o fresh)
    <3>1. i \in DOMAIN (rules \o fresh) /\ (rules \o fresh)[i] = rules[i]
      BY <1>1
    <3> QED BY <3>1 DEF ToSet
  <2>2. ASSUME NEW i \in 1 .. Len(fresh) PROVE fresh[i] \in ToSet(rules \o fresh)
    <3>1. Len(rules) + i \in DOMAIN (rules \o fresh) /\ (rules \o fresh)[Len(rules) + i] = fresh[i]
      BY <1>1
    <3> QED BY <3>1 DEF ToSet
  <2> QED BY <2>1, <2>2
<1>4. RuleTypeOK
  <2>1. \A r \in ToSet(rules \o fresh) :
          /\ r.kind \in RuleKinds /\ r.id \in 1 .. ids
          /\ {r.static, r.pipe} \subseteq 0 .. FdLimit - 1 /\ {r.count, r.late} \subseteq Nat
    BY <1>2 DEF RuleRecs, Keeps
  <2>2. \A t \in RuleThreads : works[t].pc # "idle" => works[t].rule \in DOMAIN rules
    BY <1>1 DEF RuleIInv, WorksTrue
  <2> QED BY <2>1, <2>2 DEF RuleTypeOK, RuleIInv, FdsTyped, BothTyped
<1>5. OutputsOwn
  <2>1. \A r \in ToSet(rules \o fresh) :
          /\ r.kind \in FileKinds => r.static \in DOMAIN fds /\ fds[r.static] = r.id
          /\ r.kind = "pipe" => r.pipe \in DOMAIN fds /\ fds[r.pipe] = r.id
    BY <1>2 DEF Keeps
  <2>2. \A t \in RuleThreads :
          (works[t].fd # -1 /\ RuleOf(t).kind \in Reopening) =>
              works[t].fd \in DOMAIN fds /\ fds[works[t].fd] = t
    BY DEF RuleIInv, WorksTrue
  <2> QED BY <2>1, <2>2 DEF OutputsOwn, RuleIInv, FdsTyped
<1>6. NothingLeftOpen
  <2> SUFFICES ASSUME NEW d \in DOMAIN fds \ {0}, fds[d] # Program,
                      ~ \E t \in RuleThreads : fds[d] = t /\ works[t].fd = d
               PROVE  fds[d] \in {r.id : r \in ToSet(rules \o fresh)}
    BY DEF NothingLeftOpen
  <2>1. \/ \E i \in 1 .. Len(rules) : OpenFor(rules[i], d)
        \/ \E i \in 1 .. Len(fresh) : OpenFor(fresh[i], d)
    BY DEF RuleIInv, Accounted
  <2> QED BY <2>1, <1>3 DEF OpenFor
<1> QED BY <1>4, <1>5, <1>6 DEF OutputsSound

\* Of any kinds, threads, limit and number of descriptors: what a rule or a thread opened
\* is open as long as it is needed, and closed when it ends (zlog_rule_new, zlog_rule_del).
THEOREM OutputsHold == RuleSpec => []OutputsSound
<1> USE RuleAssumption
<1>1. RuleInit => RuleIInv
  BY RuleInitially
<1>2. RuleIInv /\ [RuleNext]_zrVars => RuleIInv'
  BY RuleInductive
<1>3. RuleIInv => OutputsSound
  BY RuleMeans
<1> QED
  BY <1>1, <1>2, <1>3, PTL DEF RuleSpec

-----------------------------------------------------------------------------
(***************************************************************************)
(* The runs' specification and properties.                                 *)
(***************************************************************************)
\* A behaviour of the library, part by part, is one of each of its parts: what is proved of
\* them is true of it.
THEOREM PartsOfRun ==
    MCSpec => EnvSpec /\ CfSpec /\ BufSpec /\ RotateSpec /\ FileSpec /\ RuleSpec
<1>1. MCInit => EnvInit /\ CfInit /\ BufInit /\ RotateInit /\ FileInit /\ RuleInit
  BY DEF MCInit
<1>2. ASSUME [MCNext]_<<envVars, rotateVars, bufVars, cfVars, zfVars, zrVars, zeVars, part>>
      PROVE  /\ [EnvNext]_envVars /\ [CfNext]_cfVars /\ [BufNext]_bufVars
             /\ [RotateNext]_rotateVars /\ [FileNext]_zfVars /\ [RuleNext]_zrVars
  BY <1>2, Zenon DEF MCNext
<1> QED
  BY <1>1, <1>2, PTL DEF MCSpec, EnvSpec, CfSpec, BufSpec, RotateSpec, FileSpec, RuleSpec

\* For any writers, processes, sizes and numbers of archives, threads, descriptors and
\* rules: one writer rotates at a time and archives keep their order and number
\* (rotater.c); a rule writes to the file that has its path, on a descriptor of its own, and
\* what is opened for it is closed (rule.c).
THEOREM FilesHold == RotateSpec /\ FileSpec /\ RuleSpec => []FilesSound
<1>1. RotateSound /\ FileSound /\ OutputsSound => FilesSound
  BY DEF FilesSound
<1> QED
  BY <1>1, RotateHolds, FileHolds, OutputsHold, PTL

\* No two reloads come closer than the period (zlog.c:653), and the archive that goes is the
\* oldest (rotater.c:322).
THEOREM StepsHold == EnvSpec /\ RotateSpec => LoggingSteps
  BY ReloadIsSpaced, OldestFirst DEF LoggingSteps

=============================================================================
